----------------------------- MODULE WepollProofs -----------------------------
(***************************************************************************)
(* Theorems about src/win32/wepoll.c, for any finite number of threads and  *)
(* of sock_state objects, any sockets and events, and any sizes of the poll *)
(* groups and of the buffer of epoll_wait; and about the red-black tree of  *)
(* the same file, for any keys.                                             *)
(***************************************************************************)
EXTENDS Wepoll, FiniteSetTheorems, SequenceTheorems, WellFoundedInduction, TLAPS

(* What one element more or less does to the size of a set. *)
LEMMA SizeChanges ==
  ASSUME NEW A, NEW B, NEW x, IsFiniteSet(A),
         A \ {x} = B \ {x}
  PROVE  /\ IsFiniteSet(B) /\ Cardinality(A) \in Nat /\ Cardinality(B) \in Nat
         /\ Cardinality(B) = Cardinality(A) + (IF x \in B THEN 1 ELSE 0)
                                            - (IF x \in A THEN 1 ELSE 0)
<1>1. IsFiniteSet(A \ {x}) /\ Cardinality(A \ {x}) \in Nat
  BY FS_RemoveElement, FS_CardinalityType
<1>2. ASSUME NEW C, C \ {x} = A \ {x}
      PROVE  /\ IsFiniteSet(C)
             /\ Cardinality(C) = Cardinality(A \ {x}) + (IF x \in C THEN 1 ELSE 0)
  <2>1. CASE x \in C
    <3>1. C = (A \ {x}) \cup {x}
      BY <1>2, <2>1
    <3>2. QED
      BY <1>1, <2>1, <3>1, FS_AddElement
  <2>2. CASE x \notin C
    <3>1. C = A \ {x}
      BY <1>2, <2>2
    <3>2. QED
      BY <1>1, <2>2, <3>1
  <2>3. QED
    BY <2>1, <2>2
<1>3. QED
  BY <1>1, <1>2

-----------------------------------------------------------------------------
(* Sequences without duplicates. *)

(* The one place of an element is the one that SelectInSeq finds. *)
LEMMA OnlyPlace ==
  ASSUME NEW n \in Nat
  PROVE  Min({n}) = n
BY DEF Min

LEMMA RemoveAtProperties ==
  ASSUME NEW S, NEW q \in Seq(S), NEW n \in 1..Len(q)
  PROVE  /\ RemoveAt(q, n) \in Seq(S)
         /\ Len(RemoveAt(q, n)) = Len(q) - 1
         /\ \A k \in 1..(Len(q) - 1) : RemoveAt(q, n)[k] = IF k < n THEN q[k] ELSE q[k + 1]
<1> DEFINE before == SubSeq(q, 1, n - 1)
           after == SubSeq(q, n + 1, Len(q))
<1>1. Len(q) \in Nat /\ \A k \in 1..Len(q) : q[k] \in S
  OBVIOUS
<1>2. /\ before \in Seq(S) /\ Len(before) = n - 1
      /\ \A k \in 1..(n - 1) : before[k] = q[k]
  BY <1>1, SubSeqProperties
<1>3. /\ after \in Seq(S) /\ Len(after) = Len(q) - n
      /\ \A k \in 1..(Len(q) - n) : after[k] = q[n + k]
  <2>1. \A k \in (n + 1)..Len(q) : q[k] \in S
    BY <1>1
  <2>2. \A k \in 1..(Len(q) - (n + 1) + 1) : after[k] = q[(n + 1) + k - 1]
    BY <1>1, <2>1, SubSeqProperties
  <2>3. after \in Seq(S) /\ Len(after) = Len(q) - n
    BY <1>1, <2>1, SubSeqProperties
  <2>4. QED
    BY <1>1, <2>2, <2>3
<1>4. RemoveAt(q, n) = before \o after
  BY DEF RemoveAt
<1> HIDE DEF before, after
<1>8. /\ before \o after \in Seq(S)
      /\ Len(before \o after) = Len(before) + Len(after)
      /\ \A k \in 1..(Len(before) + Len(after)) : (before \o after)[k] =
            IF k <= Len(before) THEN before[k] ELSE after[k - Len(before)]
  BY <1>2, <1>3, ConcatProperties
<1>9. Len(before) + Len(after) = Len(q) - 1
  BY <1>1, <1>2, <1>3
<1>5. /\ before \o after \in Seq(S)
      /\ Len(before \o after) = Len(q) - 1
      /\ \A k \in 1..(Len(q) - 1) : (before \o after)[k] =
            IF k <= n - 1 THEN before[k] ELSE after[k - (n - 1)]
  BY <1>2, <1>8, <1>9
<1>6. ASSUME NEW k \in 1..(Len(q) - 1)
      PROVE  (before \o after)[k] = IF k < n THEN q[k] ELSE q[k + 1]
  <2>1. CASE k < n
    BY <1>2, <1>5, <2>1
  <2>2. CASE ~(k < n)
    <3>1. k - (n - 1) \in 1..(Len(q) - n) /\ n + (k - (n - 1)) = k + 1
      BY <1>1, <2>2
    <3>2. QED
      BY <1>3, <1>5, <2>2, <3>1
  <2>3. QED
    BY <2>1, <2>2
<1>7. QED
  BY <1>4, <1>5, <1>6

LEMMA RemoveFirstProperties ==
  ASSUME NEW S, NEW q \in Seq(S), IsInjective(q), NEW e
  PROVE  /\ RemoveFirst(q, e) \in Seq(S)
         /\ IsInjective(RemoveFirst(q, e))
         /\ \A x : Contains(RemoveFirst(q, e), x) <=> Contains(q, x) /\ x # e
<1>1. CASE ~Contains(q, e)
  BY <1>1 DEF RemoveFirst, Contains
<1>2. CASE Contains(q, e)
  <2>1. PICK n \in 1..Len(q) : q[n] = e
    BY <1>2 DEF Contains
  <2>2. {k \in 1..Len(q) : q[k] = e} = {n}
    BY <2>1 DEF IsInjective
  <2>3. SelectInSeq(q, LAMBDA v : v = e) = n
    BY <2>2, OnlyPlace DEF SelectInSeq
  <2>4. RemoveFirst(q, e) = RemoveAt(q, n)
    BY <2>1, <2>3 DEF RemoveFirst
  <2>5. /\ RemoveAt(q, n) \in Seq(S)
        /\ Len(RemoveAt(q, n)) = Len(q) - 1
        /\ \A k \in 1..(Len(q) - 1) : RemoveAt(q, n)[k] = IF k < n THEN q[k] ELSE q[k + 1]
    BY RemoveAtProperties
  <2>6. IsInjective(RemoveAt(q, n))
    <3>1. SUFFICES ASSUME NEW j \in 1..(Len(q) - 1), NEW k \in 1..(Len(q) - 1),
                          RemoveAt(q, n)[j] = RemoveAt(q, n)[k]
                   PROVE  j = k
      BY <2>5 DEF IsInjective
    <3>2. DEFINE old(m) == IF m < n THEN m ELSE m + 1
    <3>3. /\ old(j) \in DOMAIN q /\ q[old(j)] = RemoveAt(q, n)[j]
          /\ old(k) \in DOMAIN q /\ q[old(k)] = RemoveAt(q, n)[k]
      BY <2>5
    <3>4. old(j) = old(k)
      BY <3>1, <3>3 DEF IsInjective
    <3>5. QED
      BY <3>4
  <2>7. ASSUME NEW x
        PROVE  Contains(RemoveAt(q, n), x) <=> Contains(q, x) /\ x # e
    <3>1. ASSUME Contains(RemoveAt(q, n), x)
          PROVE  Contains(q, x) /\ x # e
      <4>1. PICK k \in 1..(Len(q) - 1) : RemoveAt(q, n)[k] = x
        BY <2>5, <3>1 DEF Contains
      <4>2. CASE k < n
        <5>1. k \in 1..Len(q) /\ k # n /\ q[k] = x
          BY <2>5, <4>1, <4>2
        <5>2. QED
          BY <2>1, <5>1 DEF Contains, IsInjective
      <4>3. CASE ~(k < n)
        <5>1. k + 1 \in 1..Len(q) /\ k + 1 # n /\ q[k + 1] = x
          BY <2>5, <4>1, <4>3
        <5>2. QED
          BY <2>1, <5>1 DEF Contains, IsInjective
      <4>4. QED
        BY <4>2, <4>3
    <3>2. ASSUME Contains(q, x), x # e
          PROVE  Contains(RemoveAt(q, n), x)
      <4>1. PICK k \in 1..Len(q) : q[k] = x /\ k # n
        BY <2>1, <3>2 DEF Contains
      <4>2. CASE k < n
        BY <2>5, <4>1, <4>2 DEF Contains
      <4>3. CASE k > n
        <5>1. k - 1 \in 1..(Len(q) - 1) /\ RemoveAt(q, n)[k - 1] = x
          BY <2>5, <4>1, <4>3
        <5>2. QED
          BY <2>5, <5>1 DEF Contains
      <4>4. QED
        BY <4>1, <4>2, <4>3
    <3>3. QED
      BY <3>1, <3>2
  <2>8. QED
    BY <2>4, <2>5, <2>6, <2>7
<1>3. QED
  BY <1>1, <1>2
-----------------------------------------------------------------------------
(* The poll groups. *)
GroupType == [id : Groups, size : 0..MaxGroup]

(* A queue of groups: the full ones in front, each with a number of its own, *)
(* and with as many members as the function members says.                    *)
Sorted(q) ==
    \A m, n \in DOMAIN q : m < n /\ q[n].size = MaxGroup => q[m].size = MaxGroup

Distinct(q) == \A m, n \in DOMAIN q : q[m].id = q[n].id => m = n

Sized(q, members) == \A n \in DOMAIN q : q[n].size = members[q[n].id]

Numbered(q) ==
    /\ \A g \in DOMAIN q : \E n \in DOMAIN q : q[n].id = g
    /\ \A n \in DOMAIN q : q[n].id \in DOMAIN q

Well(q, members) ==
    q \in Seq(GroupType) /\ Sorted(q) /\ Distinct(q) /\ Sized(q, members) /\ Numbered(q)

LEMMA MoveToStartProperties ==
  ASSUME NEW S, NEW q \in Seq(S), NEW n \in 1..Len(q), NEW x \in S
  PROVE  /\ MoveToStart(q, n, x) \in Seq(S)
         /\ Len(MoveToStart(q, n, x)) = Len(q)
         /\ MoveToStart(q, n, x)[1] = x
         /\ \A k \in 2..Len(q) :
               MoveToStart(q, n, x)[k] = IF k <= n THEN q[k - 1] ELSE q[k]
<1> DEFINE rest == RemoveAt(q, n)
<1>1. /\ rest \in Seq(S) /\ Len(rest) = Len(q) - 1 /\ Len(q) \in Nat
      /\ \A k \in 1..(Len(q) - 1) : rest[k] = IF k < n THEN q[k] ELSE q[k + 1]
  BY RemoveAtProperties
<1>2. <<x>> \in Seq(S) /\ Len(<<x>>) = 1 /\ <<x>>[1] = x
  OBVIOUS
<1> HIDE DEF rest
<1>3. /\ <<x>> \o rest \in Seq(S)
      /\ Len(<<x>> \o rest) = 1 + Len(rest)
      /\ \A k \in 1..(1 + Len(rest)) :
            (<<x>> \o rest)[k] = IF k <= 1 THEN <<x>>[k] ELSE rest[k - 1]
  BY <1>1, <1>2, ConcatProperties
<1>4. MoveToStart(q, n, x) = <<x>> \o rest
  BY DEF MoveToStart, rest
<1>5. ASSUME NEW k \in 2..Len(q)
      PROVE  (<<x>> \o rest)[k] = IF k <= n THEN q[k - 1] ELSE q[k]
  <2>1. k - 1 \in 1..(Len(q) - 1) /\ k \in 1..(1 + Len(rest)) /\ ~(k <= 1)
    BY <1>1
  <2>2. (<<x>> \o rest)[k] = rest[k - 1]
    BY <1>3, <2>1
  <2>3. QED
    BY <1>1, <2>1, <2>2
<1>6. QED
  BY <1>1, <1>2, <1>3, <1>4, <1>5

LEMMA MoveToEndProperties ==
  ASSUME NEW S, NEW q \in Seq(S), NEW n \in 1..Len(q), NEW x \in S
  PROVE  /\ MoveToEnd(q, n, x) \in Seq(S)
         /\ Len(MoveToEnd(q, n, x)) = Len(q)
         /\ MoveToEnd(q, n, x)[Len(q)] = x
         /\ \A k \in 1..(Len(q) - 1) :
               MoveToEnd(q, n, x)[k] = IF k < n THEN q[k] ELSE q[k + 1]
BY RemoveAtProperties, AppendProperties DEF MoveToEnd

(* r is q with the group at p changed or added, and the others in order. *)
Rearranged(q, members, r, p, after, old) ==
    /\ r \in Seq(GroupType) /\ p \in DOMAIN r
    /\ \A k \in DOMAIN r : k # p => old[k] \in DOMAIN q /\ r[k] = q[old[k]]
    /\ \A j, k \in DOMAIN r : j # p /\ k # p /\ j < k => old[j] < old[k]
    /\ \A k \in DOMAIN r : k # p => r[k].id # r[p].id /\ after[r[k].id] = members[r[k].id]
    /\ \A n \in DOMAIN q : q[n].id # r[p].id => \E k \in DOMAIN r : k # p /\ old[k] = n
    /\ DOMAIN r = DOMAIN q \cup {r[p].id}
    /\ after[r[p].id] = r[p].size
    /\ \A k \in DOMAIN r : k < p /\ r[p].size = MaxGroup => r[k].size = MaxGroup
    /\ \A k \in DOMAIN r : p < k /\ r[k].size = MaxGroup => r[p].size = MaxGroup

LEMMA RearrangedWell ==
  ASSUME NEW q, NEW members, Well(q, members),
         NEW r, NEW p, NEW after, NEW old, Rearranged(q, members, r, p, after, old)
  PROVE  Well(r, after)
<1>0. /\ p \in DOMAIN r
      /\ \A k \in DOMAIN r : k # p => old[k] \in DOMAIN q /\ r[k] = q[old[k]]
      /\ \A j, k \in DOMAIN r : j # p /\ k # p /\ j < k => old[j] < old[k]
      /\ \A k \in DOMAIN r : k # p => r[k].id # r[p].id /\ after[r[k].id] = members[r[k].id]
      /\ \A n \in DOMAIN q : q[n].id # r[p].id => \E k \in DOMAIN r : k # p /\ old[k] = n
      /\ DOMAIN r = DOMAIN q \cup {r[p].id}
      /\ after[r[p].id] = r[p].size
      /\ \A k \in DOMAIN r : k < p /\ r[p].size = MaxGroup => r[k].size = MaxGroup
      /\ \A k \in DOMAIN r : p < k /\ r[k].size = MaxGroup => r[p].size = MaxGroup
  BY DEF Rearranged
<1>9. r \in Seq(GroupType)
  BY DEF Rearranged
<1>1. \A m, n \in DOMAIN r : m \in Int /\ n \in Int /\ (m # n => m < n \/ n < m)
  BY <1>9
<1>2. \A n \in DOMAIN q : n \in Int
  BY <1>0 DEF Well
<1>3. Sorted(r)
  <2>1. SUFFICES ASSUME NEW m \in DOMAIN r, NEW n \in DOMAIN r, m < n, r[n].size = MaxGroup
                 PROVE  r[m].size = MaxGroup
    BY <1>0 DEF Sorted
  <2>2. CASE m # p /\ n # p
    <3>1. old[m] < old[n] /\ old[m] \in DOMAIN q /\ old[n] \in DOMAIN q
      BY <1>0, <2>1, <2>2
    <3>2. QED
      BY <1>0, <2>1, <2>2, <3>1 DEF Well, Sorted
  <2>3. QED
    BY <1>0, <2>1, <2>2
<1>4. Distinct(r)
  <2>1. SUFFICES ASSUME NEW m \in DOMAIN r, NEW n \in DOMAIN r, m < n, r[m].id = r[n].id
                 PROVE  FALSE
    BY <1>0, <1>1 DEF Distinct
  <2>2. m # p /\ n # p
    BY <1>0, <1>1, <2>1
  <2>3. old[m] < old[n] /\ old[m] \in DOMAIN q /\ old[n] \in DOMAIN q
    BY <1>0, <2>1, <2>2
  <2>4. q[old[m]].id = q[old[n]].id
    BY <1>0, <2>1, <2>2
  <2>5. QED
    BY <1>0, <1>2, <2>3, <2>4 DEF Well, Distinct
<1>5. Sized(r, after)
  BY <1>0 DEF Well, Sized
<1>6. \A g \in DOMAIN r : \E n \in DOMAIN r : r[n].id = g
  <2>1. SUFFICES ASSUME NEW g \in DOMAIN r, g # r[p].id
                 PROVE  \E n \in DOMAIN r : r[n].id = g
    BY <1>0
  <2>2. PICK n \in DOMAIN q : q[n].id = g
    BY <1>0, <2>1 DEF Well, Numbered
  <2>3. PICK k \in DOMAIN r : k # p /\ old[k] = n
    BY <1>0, <2>1, <2>2
  <2>4. QED
    BY <1>0, <2>2, <2>3
<1>7. ASSUME NEW n \in DOMAIN r
      PROVE  r[n].id \in DOMAIN r
  <2>1. CASE n = p
    BY <1>0, <2>1
  <2>2. CASE n # p
    <3>1. old[n] \in DOMAIN q /\ r[n].id = q[old[n]].id
      BY <1>0, <2>2
    <3>2. q[old[n]].id \in DOMAIN q
      BY <1>0, <3>1 DEF Well, Numbered
    <3>3. QED
      BY <1>0, <3>1, <3>2
  <2>3. QED
    BY <1>0, <2>1, <2>2
<1>8. QED
  BY <1>3, <1>4, <1>5, <1>6, <1>7, <1>9 DEF Well, Numbered

(* What a Well queue says of its groups. *)
LEMMA GroupFacts ==
  ASSUME NEW q, NEW members, Well(q, members)
  PROVE  /\ q \in Seq(GroupType)
         /\ Len(q) \in Nat /\ DOMAIN q = 1..Len(q)
         /\ \A k \in DOMAIN q : /\ q[k] \in GroupType
                                /\ q[k].id \in Groups /\ q[k].size \in 0..MaxGroup
                                /\ q[k].size = members[q[k].id]
                                /\ q[k].id \in DOMAIN q
<1>1. q \in Seq(GroupType)
  BY DEF Well
<1>2. Len(q) \in Nat /\ DOMAIN q = 1..Len(q) /\ \A k \in DOMAIN q : q[k] \in GroupType
  BY <1>1
<1>3. \A x \in GroupType : x.id \in Groups /\ x.size \in 0..MaxGroup
  BY DEF GroupType
<1>4. \A k \in DOMAIN q : q[k].size = members[q[k].id] /\ q[k].id \in DOMAIN q
  BY DEF Well, Sized, Numbered
<1>5. QED
  BY <1>1, <1>2, <1>3, <1>4

(* poll_group_acquire counts the new member: in the last group, ... *)
LEMMA AcquireInLast ==
  ASSUME NEW q, NEW members \in [Groups -> Nat], Well(q, members), HasRoom(q)
  PROVE  LET g == Acquired(q).id
             r == QueueAfterAcquire(q)
         IN  /\ g \in DOMAIN q /\ g \in Groups
             /\ Well(r, [members EXCEPT ![g] = @ + 1])
             /\ DOMAIN r = DOMAIN q
<1> DEFINE group == Acquired(q)
           g == group.id
           after == [members EXCEPT ![g] = @ + 1]
           r == QueueAfterAcquire(q)
<1>1. PICK N \in Nat : N = Len(q) /\ DOMAIN q = 1..N
  BY GroupFacts
<1>2. /\ q \in Seq(GroupType)
      /\ \A k \in 1..N : /\ q[k] \in GroupType /\ q[k].id \in Groups /\ q[k].id \in 1..N
                         /\ q[k].size \in 0..MaxGroup /\ q[k].size = members[q[k].id]
  BY <1>1, GroupFacts
<1>3. MaxGroup \in Nat \ {0}
  BY WepollAssumption
<1>4. N \in 1..N /\ q[N].size < MaxGroup /\ group = [q[N] EXCEPT !.size = @ + 1]
  <2>1. q # <<>> /\ q[Len(q)].size < MaxGroup /\ group = [q[Len(q)] EXCEPT !.size = @ + 1]
    BY DEF HasRoom, Last, Acquired
  <2>2. N # 0
    BY <1>1, <1>2, <2>1
  <2>3. QED
    BY <1>1, <2>1, <2>2
<1>5. group \in GroupType /\ g = q[N].id /\ group.size = q[N].size + 1
  <2>1. q[N] \in GroupType /\ q[N].size + 1 \in 0..MaxGroup
    BY <1>2, <1>3, <1>4
  <2>2. QED
    BY <1>4, <2>1 DEF GroupType
<1>6. \A k \in 1..N : k # N => q[k].id # g
  BY <1>1, <1>4, <1>5 DEF Well, Distinct
<1>7. g \in Groups /\ g \in 1..N /\ after[g] = group.size /\ \A h \in Groups : h # g => after[h] = members[h]
  BY <1>2, <1>4, <1>5
<1>8. r = IF group.size = MaxGroup THEN MoveToStart(q, N, group) ELSE [q EXCEPT ![N] = group]
  BY <1>1 DEF QueueAfterAcquire
<1> HIDE DEF group, after, r
<1>9. CASE group.size = MaxGroup
  <2>1. /\ r \in Seq(GroupType) /\ Len(r) = N /\ r[1] = group
        /\ \A k \in 2..N : r[k] = IF k <= N THEN q[k - 1] ELSE q[k]
    <3>1. q \in Seq(GroupType) /\ N \in 1..Len(q) /\ group \in GroupType
      BY <1>1, <1>2, <1>4, <1>5
    <3> DEFINE s == MoveToStart(q, N, group)
    <3>2. /\ s \in Seq(GroupType) /\ Len(s) = Len(q) /\ s[1] = group
          /\ \A k \in 2..Len(q) : s[k] = IF k <= N THEN q[k - 1] ELSE q[k]
      BY <3>1, MoveToStartProperties
    <3>3. r = s
      BY <1>8, <1>9
    <3> HIDE DEF s
    <3>4. QED
      BY <1>1, <3>2, <3>3
  <2>2. DOMAIN r = 1..N
    BY <2>1
  <2>3. \A k \in 1..N : k # 1 => k - 1 \in 1..N /\ r[k] = q[k - 1] /\ k - 1 # N
    BY <2>1
  <2> DEFINE old == [k \in 1..N |-> k - 1]
  <2>4. \A j, k \in 1..N : j < k => old[j] < old[k]
    OBVIOUS
  <2>5. \A k \in 1..N : old[k] = k - 1
    OBVIOUS
  <2>6. \A n \in 1..N : n # N => n + 1 \in 1..N /\ n + 1 # 1 /\ old[n + 1] = n
    OBVIOUS
  <2> HIDE DEF old
  <2>7. /\ 1 \in DOMAIN r
        /\ \A k \in DOMAIN r : k # 1 => old[k] \in DOMAIN q /\ r[k] = q[old[k]]
        /\ \A j, k \in DOMAIN r : j # 1 /\ k # 1 /\ j < k => old[j] < old[k]
    BY <1>1, <1>4, <2>2, <2>3, <2>4, <2>5
  <2>8. \A k \in DOMAIN r : k # 1 => r[k].id # r[1].id /\ after[r[k].id] = members[r[k].id]
    <3>1. r[1].id = g
      BY <1>5, <2>1
    <3>2. ASSUME NEW k \in 1..N, k # 1
          PROVE  r[k].id # g /\ r[k].id \in Groups
      <4>1. k - 1 \in 1..N /\ r[k] = q[k - 1] /\ k - 1 # N
        BY <2>3, <3>2
      <4>2. QED
        BY <4>1, <1>2, <1>6
    <3>3. \A k \in 1..N : k # 1 => members[r[k].id] = after[r[k].id]
      BY <1>7, <3>2
    <3>4. QED
      BY <2>2, <3>1, <3>2, <3>3
  <2>9. \A n \in DOMAIN q : q[n].id # r[1].id => \E k \in DOMAIN r : k # 1 /\ old[k] = n
    BY <1>1, <1>5, <2>1, <2>2, <2>6
  <2>10. \A k \in DOMAIN r : ~(k < 1)
    BY <2>2
  <2>11. r[1].size = MaxGroup
    BY <1>9, <2>1
  <2>12. DOMAIN r = DOMAIN q \cup {r[1].id}
    BY <1>1, <1>7, <2>1, <2>2
  <2>13. Rearranged(q, members, r, 1, after, old)
    BY <1>7, <2>1, <2>7, <2>8, <2>9, <2>10, <2>11, <2>12 DEF Rearranged
  <2>14. Well(r, after)
    BY <2>13, RearrangedWell
  <2>15. QED
    BY <1>1, <1>7, <2>2, <2>14 DEF r, after, group
<1>10. CASE group.size # MaxGroup
  <2>1. /\ r \in Seq(GroupType) /\ Len(r) = N /\ r[N] = group
        /\ \A k \in 1..N : k # N => r[k] = q[k]
    <3>1. q \in Seq(GroupType) /\ N \in 1..Len(q) /\ group \in GroupType
      BY <1>1, <1>2, <1>4, <1>5
    <3>2. r = [q EXCEPT ![N] = group]
      BY <1>8, <1>10
    <3>3. r \in Seq(GroupType) /\ Len(r) = Len(q) /\ \A k \in 1..Len(q) : r[k] = IF k = N THEN group ELSE q[k]
      BY <3>1, <3>2, ExceptSeq
    <3>4. QED
      BY <1>1, <1>4, <3>3
  <2>2. DOMAIN r = 1..N
    BY <2>1
  <2> DEFINE old == [k \in 1..N |-> k]
  <2>3. \A k \in 1..N : old[k] = k
    OBVIOUS
  <2> HIDE DEF old
  <2>7. /\ N \in DOMAIN r
        /\ \A k \in DOMAIN r : k # N => old[k] \in DOMAIN q /\ r[k] = q[old[k]]
        /\ \A j, k \in DOMAIN r : j # N /\ k # N /\ j < k => old[j] < old[k]
    BY <1>1, <1>4, <2>1, <2>2, <2>3
  <2>8. \A k \in DOMAIN r : k # N => r[k].id # r[N].id /\ after[r[k].id] = members[r[k].id]
    BY <1>2, <1>6, <1>7, <2>1, <2>2
  <2>9. \A n \in DOMAIN q : q[n].id # r[N].id => \E k \in DOMAIN r : k # N /\ old[k] = n
    BY <1>1, <1>5, <2>1, <2>2, <2>3
  <2>10. \A k \in DOMAIN r : ~(N < k)
    BY <2>2
  <2>11. r[N].size # MaxGroup
    BY <1>10, <2>1
  <2>12. DOMAIN r = DOMAIN q \cup {r[N].id}
    BY <1>1, <1>7, <2>1, <2>2
  <2>13. Rearranged(q, members, r, N, after, old)
    BY <1>7, <2>1, <2>7, <2>8, <2>9, <2>10, <2>11, <2>12 DEF Rearranged
  <2>14. Well(r, after)
    BY <2>13, RearrangedWell
  <2>15. QED
    BY <1>1, <1>7, <2>2, <2>14 DEF r, after, group
<1>11. QED
  BY <1>9, <1>10

(* ... or in a new group when that is full, and every group with it. *)
LEMMA AcquireInNew ==
  ASSUME NEW q, NEW members \in [Groups -> Nat], Well(q, members), ~HasRoom(q),
         \A g \in Groups : g \notin DOMAIN q => members[g] = 0
  PROVE  LET g == Acquired(q).id
             r == QueueAfterAcquire(q)
         IN  /\ g \in Groups
             /\ Well(r, [members EXCEPT ![g] = @ + 1])
             /\ DOMAIN r = DOMAIN q \cup {g}
<1> DEFINE group == Acquired(q)
           g == group.id
           after == [members EXCEPT ![g] = @ + 1]
           r == QueueAfterAcquire(q)
           longer == Append(q, group)
<1>1. PICK N \in Nat : N = Len(q) /\ DOMAIN q = 1..N
  BY GroupFacts
<1>2. /\ q \in Seq(GroupType)
      /\ \A k \in 1..N : /\ q[k] \in GroupType /\ q[k].id \in Groups /\ q[k].id \in 1..N
                         /\ q[k].size \in 0..MaxGroup /\ q[k].size = members[q[k].id]
  BY <1>1, GroupFacts
<1>3. MaxGroup \in Nat \ {0}
  BY WepollAssumption
<1>4. group = [id |-> N + 1, size |-> 1] /\ g = N + 1 /\ group.size = 1
  BY <1>1 DEF Acquired
<1>5. group \in GroupType
  BY <1>3, <1>4 DEF Groups, GroupType
<1>6. \A k \in 1..N : q[k].id # g
  BY <1>2, <1>4
<1>7. g \in Groups /\ after[g] = group.size /\ \A h \in Groups : h # g => after[h] = members[h]
  <2>1. g \in Groups /\ g \notin DOMAIN q
    BY <1>1, <1>4 DEF Groups
  <2>2. members[g] = 0
    BY <2>1
  <2>3. QED
    BY <1>4, <2>1, <2>2
<1>8. \A n \in 1..N : q[n].size = MaxGroup
  <2>1. CASE N = 0
    BY <2>1
  <2>2. CASE N # 0
    <3>1. N \in 1..N
      BY <2>2
    <3>2. q # <<>>
      BY <1>1, <1>2, <3>1
    <3>3. q[N].size = MaxGroup
      BY <1>1, <1>2, <1>3, <3>1, <3>2 DEF HasRoom, Last
    <3>4. QED
      BY <1>1, <3>1, <3>3 DEF Well, Sorted
  <2>3. QED
    BY <2>1, <2>2
<1>9. /\ longer \in Seq(GroupType) /\ Len(longer) = N + 1
      /\ longer[N + 1] = group
      /\ \A k \in 1..N : longer[k] = q[k]
  BY <1>1, <1>2, <1>5, AppendProperties
<1>10. r = IF group.size = MaxGroup THEN MoveToStart(longer, N + 1, group)
                                    ELSE [longer EXCEPT ![N + 1] = group]
  BY <1>9 DEF QueueAfterAcquire
<1> HIDE DEF group, after, r, longer
<1>11. CASE group.size = MaxGroup
  <2>1. /\ r \in Seq(GroupType) /\ Len(r) = N + 1 /\ r[1] = group
        /\ \A k \in 2..(N + 1) : r[k] = IF k <= N + 1 THEN longer[k - 1] ELSE longer[k]
    <3>1. N + 1 \in 1..Len(longer)
      BY <1>9
    <3>2. QED
      <4> DEFINE s == MoveToStart(longer, N + 1, group)
      <4>1. /\ s \in Seq(GroupType) /\ Len(s) = Len(longer) /\ s[1] = group
            /\ \A k \in 2..Len(longer) : s[k] = IF k <= N + 1 THEN longer[k - 1] ELSE longer[k]
        <5>1. longer \in Seq(GroupType)
          BY <1>9
        <5>2. QED
          BY <1>5, <3>1, <5>1, MoveToStartProperties
      <4>2. r = s
        BY <1>10, <1>11
      <4> HIDE DEF s
      <4>3. QED
        BY <1>9, <4>1, <4>2
  <2>2. DOMAIN r = 1..(N + 1)
    BY <2>1
  <2>3. ASSUME NEW k \in 1..(N + 1), k # 1
        PROVE  k - 1 \in 1..N /\ r[k] = q[k - 1]
    <3>1. k \in 2..(N + 1) /\ k - 1 \in 1..N /\ k <= N + 1
      BY <2>3
    <3>2. r[k] = longer[k - 1]
      BY <2>1, <3>1
    <3>3. QED
      BY <1>9, <3>1, <3>2
  <2> DEFINE old == [k \in 1..(N + 1) |-> k - 1]
  <2>4. \A j, k \in 1..(N + 1) : j < k => old[j] < old[k]
    OBVIOUS
  <2>5. \A k \in 1..(N + 1) : old[k] = k - 1
    OBVIOUS
  <2>6. \A n \in 1..N : n + 1 \in 1..(N + 1) /\ n + 1 # 1 /\ old[n + 1] = n
    OBVIOUS
  <2> HIDE DEF old
  <2>7. /\ 1 \in DOMAIN r
        /\ \A k \in DOMAIN r : k # 1 => old[k] \in DOMAIN q /\ r[k] = q[old[k]]
        /\ \A j, k \in DOMAIN r : j # 1 /\ k # 1 /\ j < k => old[j] < old[k]
    BY <1>1, <2>2, <2>3, <2>4, <2>5
  <2>8. \A k \in DOMAIN r : k # 1 => r[k].id # r[1].id /\ after[r[k].id] = members[r[k].id]
    BY <1>2, <1>6, <1>7, <2>1, <2>2, <2>3
  <2>9. \A n \in DOMAIN q : q[n].id # r[1].id => \E k \in DOMAIN r : k # 1 /\ old[k] = n
    BY <1>1, <2>2, <2>6
  <2>10. \A k \in DOMAIN r : ~(k < 1)
    BY <2>2
  <2>11. r[1].size = MaxGroup
    BY <1>11, <2>1
  <2>12. DOMAIN r = DOMAIN q \cup {r[1].id}
    BY <1>1, <1>4, <2>1, <2>2
  <2>13. Rearranged(q, members, r, 1, after, old)
    BY <1>7, <2>1, <2>7, <2>8, <2>9, <2>10, <2>11, <2>12 DEF Rearranged
  <2>14. Well(r, after)
    BY <2>13, RearrangedWell
  <2>15. QED
    BY <1>7, <2>1, <2>12, <2>14 DEF r, after, group
<1>12. CASE group.size # MaxGroup
  <2>1. /\ r \in Seq(GroupType) /\ Len(r) = N + 1 /\ r[N + 1] = group
        /\ \A k \in 1..N : r[k] = q[k]
    <3>1. N + 1 \in 1..Len(longer)
      BY <1>9
    <3>2. QED
      BY <1>5, <1>9, <1>10, <1>12, <3>1, ExceptSeq
  <2>2. DOMAIN r = 1..(N + 1)
    BY <2>1
  <2>3. \A k \in DOMAIN r : k # N + 1 => k \in 1..N
    BY <2>2
  <2> DEFINE old == [k \in 1..N |-> k]
  <2>4. \A k \in 1..N : old[k] = k
    OBVIOUS
  <2>5. \A k \in 1..N : k \in DOMAIN r /\ k # N + 1
    BY <2>2
  <2> HIDE DEF old
  <2>7. /\ N + 1 \in DOMAIN r
        /\ \A k \in DOMAIN r : k # N + 1 => old[k] \in DOMAIN q /\ r[k] = q[old[k]]
        /\ \A j, k \in DOMAIN r : j # N + 1 /\ k # N + 1 /\ j < k => old[j] < old[k]
    BY <1>1, <2>1, <2>2, <2>3, <2>4
  <2>8. \A k \in DOMAIN r : k # N + 1 => r[k].id # r[N + 1].id /\ after[r[k].id] = members[r[k].id]
    BY <1>2, <1>6, <1>7, <2>1, <2>3
  <2>9. \A n \in DOMAIN q : q[n].id # r[N + 1].id => \E k \in DOMAIN r : k # N + 1 /\ old[k] = n
    BY <1>1, <2>4, <2>5
  <2>10. \A k \in DOMAIN r : ~(N + 1 < k)
    BY <2>2
  <2>11. \A k \in DOMAIN r : k < N + 1 => r[k].size = MaxGroup
    BY <1>8, <2>1, <2>2
  <2>12. DOMAIN r = DOMAIN q \cup {r[N + 1].id}
    BY <1>1, <1>4, <2>1, <2>2
  <2>13. Rearranged(q, members, r, N + 1, after, old)
    BY <1>7, <2>1, <2>7, <2>8, <2>9, <2>10, <2>11, <2>12 DEF Rearranged
  <2>14. Well(r, after)
    BY <2>13, RearrangedWell
  <2>15. QED
    BY <1>7, <2>1, <2>12, <2>14 DEF r, after, group
<1>13. QED
  BY <1>11, <1>12

LEMMA AcquireWell ==
  ASSUME NEW q, NEW members \in [Groups -> Nat], Well(q, members),
         \A g \in Groups : g \notin DOMAIN q => members[g] = 0
  PROVE  LET g == Acquired(q).id
             r == QueueAfterAcquire(q)
         IN  /\ g \in Groups
             /\ Well(r, [members EXCEPT ![g] = @ + 1])
             /\ DOMAIN r = DOMAIN q \cup {g}
<1>1. CASE HasRoom(q)
  BY <1>1, AcquireInLast
<1>2. CASE ~HasRoom(q)
  BY <1>2, AcquireInNew
<1>3. QED
  BY <1>1, <1>2

(* poll_group_release counts one member less, in a group that has one. *)
LEMMA ReleaseWell ==
  ASSUME NEW q, NEW members \in [Groups -> Nat], Well(q, members),
         NEW g \in DOMAIN q, members[g] # 0
  PROVE  LET r == QueueAfterRelease(q, g)
         IN  Well(r, [members EXCEPT ![g] = @ - 1]) /\ DOMAIN r = DOMAIN q
<1> DEFINE after == [members EXCEPT ![g] = @ - 1]
           r == QueueAfterRelease(q, g)
<1>1. PICK N \in Nat : N = Len(q) /\ DOMAIN q = 1..N
  BY GroupFacts
<1>2. /\ q \in Seq(GroupType)
      /\ \A k \in 1..N : /\ q[k] \in GroupType /\ q[k].id \in Groups /\ q[k].id \in 1..N
                         /\ q[k].size \in 0..MaxGroup /\ q[k].size = members[q[k].id]
  <2>1. /\ q \in Seq(GroupType)
        /\ \A k \in DOMAIN q : /\ q[k] \in GroupType
                               /\ q[k].id \in Groups /\ q[k].size \in 0..MaxGroup
                               /\ q[k].size = members[q[k].id]
                               /\ q[k].id \in DOMAIN q
    BY GroupFacts
  <2>2. QED
    BY <1>1, <2>1
<1>3. PICK p \in 1..N : q[p].id = g
  BY <1>1 DEF Well, Numbered
<1>4. \A k \in 1..N : k # p => q[k].id # g
  BY <1>1, <1>3 DEF Well, Distinct
<1>5. {k \in 1..Len(q) : q[k].id = g} = {p}
  BY <1>1, <1>3, <1>4
<1>6. SelectInSeq(q, LAMBDA x : x.id = g) = p
  BY <1>5, OnlyPlace DEF SelectInSeq
<1> DEFINE group == [q[p] EXCEPT !.size = @ - 1]
<1>7. r = MoveToEnd(q, p, group)
  BY <1>6 DEF QueueAfterRelease
<1>8. group \in GroupType /\ group.id = g /\ group.size = members[g] - 1 /\ group.size # MaxGroup
  <2>1. q[p] \in GroupType /\ q[p].size \in 0..MaxGroup /\ q[p].size = members[g] /\ q[p].id = g
    BY <1>2, <1>3
  <2>2. q[p].size - 1 \in 0..MaxGroup /\ q[p].size - 1 # MaxGroup
    BY <2>1, WepollAssumption
  <2>3. QED
    BY <2>1, <2>2 DEF GroupType
<1>10. g \in Groups /\ after[g] = members[g] - 1 /\ \A h \in Groups : h # g => after[h] = members[h]
  BY <1>2, <1>3
<1> HIDE DEF r, after, group
<1>9. /\ r \in Seq(GroupType) /\ Len(r) = N /\ r[N] = group
      /\ \A k \in 1..(N - 1) : r[k] = IF k < p THEN q[k] ELSE q[k + 1]
  <2>1. q \in Seq(GroupType) /\ p \in 1..Len(q) /\ group \in GroupType
    BY <1>1, <1>2, <1>8
  <2> DEFINE s == MoveToEnd(q, p, group)
  <2>2. /\ s \in Seq(GroupType) /\ Len(s) = Len(q) /\ s[Len(q)] = group
        /\ \A k \in 1..(Len(q) - 1) : s[k] = IF k < p THEN q[k] ELSE q[k + 1]
    BY <2>1, MoveToEndProperties
  <2> HIDE DEF s
  <2>3. QED
    BY <1>1, <1>7, <2>2 DEF s
<1>11. DOMAIN r = 1..N /\ N \in 1..N
  BY <1>1, <1>9
<1> DEFINE old == [k \in 1..(N - 1) |-> IF k < p THEN k ELSE k + 1]
<1>12. \A k \in 1..N : k # N => k \in 1..(N - 1) /\ old[k] \in 1..N /\ old[k] # p
                                /\ old[k] = IF k < p THEN k ELSE k + 1
  OBVIOUS
<1>13. \A j, k \in 1..N : j # N /\ k # N /\ j < k => old[j] < old[k]
  OBVIOUS
<1>14. ASSUME NEW n \in 1..N, n # p
       PROVE  \E k \in 1..N : k # N /\ old[k] = n
  <2>1. CASE n < p
    <3>1. n \in 1..N /\ n # N /\ old[n] = n
      BY <2>1
    <3>2. QED
      BY <3>1
  <2>2. CASE n > p
    <3>1. n - 1 \in 1..N /\ n - 1 # N /\ old[n - 1] = n
      BY <2>2
    <3>2. QED
      BY <3>1
  <2>3. n < p \/ n > p
    BY <1>14
  <2> HIDE DEF old
  <2>4. QED
    BY <2>1, <2>2, <2>3
<1> HIDE DEF old
<1>15. /\ N \in DOMAIN r
       /\ \A k \in DOMAIN r : k # N => old[k] \in DOMAIN q /\ r[k] = q[old[k]] /\ old[k] # p
  BY <1>1, <1>9, <1>11, <1>12
<1>16. \A k \in DOMAIN r : k # N => r[k].id # r[N].id /\ after[r[k].id] = members[r[k].id]
  BY <1>1, <1>2, <1>4, <1>8, <1>9, <1>10, <1>15
<1>17. \A n \in DOMAIN q : q[n].id # r[N].id => \E k \in DOMAIN r : k # N /\ old[k] = n
  BY <1>1, <1>3, <1>8, <1>9, <1>11, <1>14
<1>18. \A k \in DOMAIN r : ~(N < k)
  BY <1>11
<1>19. DOMAIN r = DOMAIN q \cup {r[N].id} /\ r[N].size # MaxGroup /\ after[r[N].id] = r[N].size
  BY <1>1, <1>8, <1>9, <1>10, <1>11
<1>20. Rearranged(q, members, r, N, after, old)
  BY <1>9, <1>11, <1>13, <1>15, <1>16, <1>17, <1>18, <1>19 DEF Rearranged
<1>21. Well(r, after)
  BY <1>20, RearrangedWell
<1>22. QED
  BY <1>1, <1>11, <1>21 DEF r, after

-----------------------------------------------------------------------------
(* The threads: how many are in a call, how many poll, and who closes. *)
Labels == {"idle"} \cup InCall \cup Closing
Calling == InCall \cup {"close", "destroy"}

LEMMA Moves ==
  ASSUME TypeOK, NEW t \in Threads, NEW l \in Labels, Goto(t, l)
  PROVE  /\ pc' \in [Threads -> Labels] /\ pc'[t] = l
         /\ \A u \in Threads : u # t => pc'[u] = pc[u]
         /\ Cardinality(Callers) \in Nat /\ Cardinality(Callers') \in Nat
         /\ Cardinality(Callers') = Cardinality(Callers) + (IF l \in Calling THEN 1 ELSE 0)
                                                - (IF pc[t] \in Calling THEN 1 ELSE 0)
         /\ Cardinality(Pollers) \in Nat /\ Cardinality(Pollers') \in Nat
         /\ Cardinality(Pollers') = Cardinality(Pollers) + (IF l \in InPoll THEN 1 ELSE 0)
                                                - (IF pc[t] \in InPoll THEN 1 ELSE 0)
<1>1. pc \in [Threads -> Labels]
  BY DEF TypeOK, Labels
<1>2. /\ pc' \in [Threads -> Labels] /\ pc'[t] = l
      /\ \A u \in Threads : u # t => pc'[u] = pc[u]
  BY <1>1 DEF Goto
<1>3. IsFiniteSet(Callers) /\ IsFiniteSet(Pollers)
  BY FS_Subset, WepollAssumption DEF Callers, Pollers
<1>4. Callers \ {t} = Callers' \ {t} /\ Pollers \ {t} = Pollers' \ {t}
  BY <1>2 DEF Callers, Pollers
<1>5. /\ t \in Callers <=> pc[t] \in Calling
      /\ t \in Callers' <=> l \in Calling
      /\ t \in Pollers <=> pc[t] \in InPoll
      /\ t \in Pollers' <=> l \in InPoll
  BY <1>2 DEF Callers, Pollers, Calling
<1>6. /\ Cardinality(Callers) \in Nat /\ Cardinality(Callers') \in Nat
      /\ Cardinality(Callers') = Cardinality(Callers) + (IF t \in Callers' THEN 1 ELSE 0)
                                                - (IF t \in Callers THEN 1 ELSE 0)
  BY <1>3, <1>4, SizeChanges
<1>7. /\ Cardinality(Pollers) \in Nat /\ Cardinality(Pollers') \in Nat
      /\ Cardinality(Pollers') = Cardinality(Pollers) + (IF t \in Pollers' THEN 1 ELSE 0)
                                                - (IF t \in Pollers THEN 1 ELSE 0)
  BY <1>3, <1>4, SizeChanges
<1>8. QED
  BY <1>2, <1>5, <1>6, <1>7

(* A thread counts itself in and out, and holds the lock where it must. *)
CountsItself(t, l) ==
    /\ l \in Labels /\ Goto(t, l)
    /\ refs' = refs + (IF l \in Calling THEN 1 ELSE 0) - (IF pc[t] \in Calling THEN 1 ELSE 0)
    /\ active_poll_count' = active_poll_count + (IF l \in InPoll THEN 1 ELSE 0)
                                              - (IF pc[t] \in InPoll THEN 1 ELSE 0)
    /\ lock \in {t, NoThread} \/ (l \notin InLock /\ lock' = lock)
    /\ lock' = IF l \in InLock THEN t ELSE IF lock = t THEN NoThread ELSE lock

LEMMA CountedMove ==
  ASSUME TypeOK, Counted, NEW t \in Threads, NEW l, CountsItself(t, l)
  PROVE  Counted'
<1> USE DEF CountsItself
<1>1. /\ pc'[t] = l /\ \A u \in Threads : u # t => pc'[u] = pc[u]
  BY Moves
<1>2. refs' = Cardinality(Callers') /\ active_poll_count' = Cardinality(Pollers')
  BY Moves DEF Counted
<1>3. ASSUME NEW u \in Threads
      PROVE  pc'[u] \in InLock <=> lock' = u
  <2>1. NoThread \notin Threads
    BY WepollAssumption
  <2>2. QED
    BY <1>1, <2>1 DEF Counted
<1>4. QED
  BY <1>2, <1>3 DEF Counted

(* A thread in a call is counted, and one that holds the lock is the only one. *)
LEMMA Present ==
  ASSUME TypeOK, Counted, NEW t \in Threads
  PROVE  /\ pc[t] \in Labels /\ refs \in Nat /\ active_poll_count \in Nat /\ t # NoThread
         /\ pc[t] \in Calling => refs > 0
         /\ pc[t] \in InPoll => active_poll_count > 0
         /\ pc[t] \in InLock <=> lock = t
<1>1. IsFiniteSet(Callers) /\ IsFiniteSet(Pollers)
  BY FS_Subset, WepollAssumption DEF Callers, Pollers
<1>2. /\ pc[t] \in Calling => Callers # {}
      /\ pc[t] \in InPoll => Pollers # {}
  BY DEF Callers, Pollers, Calling
<1>3. Callers # {} => Cardinality(Callers) > 0
  BY <1>1, FS_EmptySet, FS_CardinalityType
<1>4. Pollers # {} => Cardinality(Pollers) > 0
  BY <1>1, FS_EmptySet, FS_CardinalityType
<1>5. QED
  BY <1>2, <1>3, <1>4, WepollAssumption DEF Counted, TypeOK, Labels

(* Steps that move no thread. *)
LEMMA NoMove ==
  ASSUME Counted, ClosedOnce,
         UNCHANGED <<port, reflock, lock, active_poll_count, pc>>
  PROVE  Counted' /\ ClosedOnce'
<1>1. Callers' = Callers /\ Pollers' = Pollers
  BY DEF Callers, Pollers
<1>2. Counted'
  BY <1>1 DEF Counted, reflock
<1>3. ClosedOnce'
  BY DEF ClosedOnce, reflock
<1>4. QED
  BY <1>2, <1>3

(* Steps of a thread outside of epoll_close. *)
LEMMA CallMove ==
  ASSUME TypeOK, Counted, ClosedOnce, NEW t \in Threads, NEW l \in InCall \cup {"idle"}, Goto(t, l),
         pc[t] \in InCall,
         UNCHANGED <<port, registered, destroy>>,
         l = "idle" => refs' = refs - 1 /\ signal' = (signal \/ (destroy /\ refs = 1)),
         l # "idle" => UNCHANGED <<refs, signal>>
  PROVE  ClosedOnce'
<1>1. /\ pc' \in [Threads -> Labels] /\ pc'[t] = l
      /\ \A u \in Threads : u # t => pc'[u] = pc[u]
  <2>1. l \in Labels
    BY DEF Labels
  <2>2. QED
    BY <2>1, Moves
<1>2. InCall \cap Closing = {} /\ "idle" \notin Closing /\ "idle" \notin InCall
  BY DEF InCall, Closing, InPoll, InLock
<1>3. refs > 0 /\ refs \in Nat /\ port # "deleted"
  <2>1. pc[t] \in Calling /\ pc[t] # "idle"
    BY <1>2 DEF Calling
  <2>2. QED
    BY <2>1, Present DEF ClosedOnce, TypeOK
<1>4. \A u \in Threads : pc'[u] \in Closing <=> pc[u] \in Closing
  BY <1>1, <1>2
<1>5. \A u \in Threads : pc[u] \in Closing => pc'[u] = pc[u]
  BY <1>1, <1>2
<1>6. {"destroy", "await", "delete"} \subseteq Closing
  BY DEF Closing
<1>7. \A u \in Threads : /\ pc'[u] = "destroy" <=> pc[u] = "destroy"
                         /\ pc'[u] = "await" <=> pc[u] = "await"
                         /\ pc'[u] = "delete" <=> pc[u] = "delete"
  BY <1>4, <1>5, <1>6
<1>8. signal' \/ (\E u \in Threads : pc'[u] = "delete") => destroy' /\ refs' = 0
  <2>1. ~signal /\ ~\E u \in Threads : pc[u] = "delete"
    BY <1>3 DEF ClosedOnce
  <2>2. ~\E u \in Threads : pc'[u] = "delete"
    BY <1>7, <2>1
  <2>3. CASE l = "idle"
    <3>1. refs' = refs - 1 /\ signal' = (signal \/ (destroy /\ refs = 1))
      BY <2>3
    <3>2. signal' => destroy /\ refs = 1
      BY <2>1, <3>1
    <3>3. QED
      BY <1>3, <2>2, <3>1, <3>2
  <2>4. CASE l # "idle"
    BY <2>1, <2>2, <2>4
  <2>5. QED
    BY <2>3, <2>4
<1>9. QED
  BY <1>3, <1>4, <1>7, <1>8 DEF ClosedOnce

(* Steps of the thread that closes. *)
LEMMA OneCloses ==
  ASSUME ClosedOnce, NEW t \in Threads, pc[t] \in Closing
  PROVE  \A u \in Threads : u # t => pc[u] \notin Closing
BY DEF ClosedOnce

LEMMA ThreadsStep ==
  ASSUME TypeOK, Counted, ClosedOnce, [Next]_vars
  PROVE  Counted' /\ ClosedOnce'
<1> USE DEF reflock
<1>1. ASSUME NEW t \in Threads, EnterWait(t)
      PROVE  Counted' /\ ClosedOnce'
  <2>1. Counted'
    <3>1. CountsItself(t, "update")
      BY <1>1, Present DEF CountsItself, EnterWait, Enter, Labels, Calling, InCall, InPoll, InLock, Closing
    <3>2. QED
      BY <3>1, CountedMove
  <2>2. ClosedOnce'
    BY <1>1, CallMove DEF EnterWait, Enter, InCall, InLock
  <2>3. QED
    BY <2>1, <2>2
<1>2. ASSUME NEW t \in Threads, BackInLock(t)
      PROVE  Counted' /\ ClosedOnce'
  <2>1. Counted'
    <3>1. CountsItself(t, "feed")
      BY <1>2, Present DEF CountsItself, BackInLock, Enter, Labels, Calling, InCall, InPoll, InLock, Closing
    <3>2. QED
      BY <3>1, CountedMove
  <2>2. ClosedOnce'
    BY <1>2, CallMove DEF BackInLock, Enter, InCall, InPoll, InLock
  <2>3. QED
    BY <2>1, <2>2
<1>3. ASSUME NEW t \in Threads, WaitFails(t)
      PROVE  Counted' /\ ClosedOnce'
  <2>1. Counted'
    <3>1. CountsItself(t, "last_update") \/ CountsItself(t, "unref")
      BY <1>3, Present DEF CountsItself, WaitFails, Labels, Calling, InCall, InPoll, InLock, Closing
    <3>2. QED
      BY <3>1, CountedMove
  <2>2. ClosedOnce'
    BY <1>3, CallMove DEF WaitFails, InCall, InPoll, InLock
  <2>3. QED
    BY <2>1, <2>2
<1>4. ASSUME NEW t \in Threads, pc[t] = "ctl", lock = NoThread, Leave(t, "unref") \/ UpdateIfPolling(t, "ctl_update"),
             UNCHANGED <<port, reflock, active_poll_count>>
      PROVE  Counted' /\ ClosedOnce'
  <2>1. Counted'
    <3>1. CountsItself(t, "ctl_update") \/ CountsItself(t, "unref")
      BY <1>4, Present DEF CountsItself, Leave, UpdateIfPolling, Labels, Calling, InCall, InPoll, InLock, Closing
    <3>2. QED
      BY <3>1, CountedMove
  <2>2. ClosedOnce'
    BY <1>4, CallMove DEF Leave, UpdateIfPolling, InCall, InLock
  <2>3. QED
    BY <2>1, <2>2
<1>5. ASSUME NEW t \in Threads, PortClose(t)
      PROVE  Counted' /\ ClosedOnce'
  <2>1. Counted'
    <3>1. CountsItself(t, "destroy")
      BY <1>5, Present DEF CountsItself, PortClose, Labels, Calling, InCall, InPoll, InLock, Closing
    <3>2. QED
      BY <3>1, CountedMove
  <2>2. ClosedOnce'
    <3>1. pc[t] = "close" /\ pc[t] \in Closing /\ "destroy" \in Labels /\ Goto(t, "destroy")
      BY <1>5 DEF PortClose, Labels, Closing
    <3>2. pc'[t] = "destroy" /\ \A u \in Threads : u # t => pc'[u] = pc[u]
      BY <3>1, Moves
    <3>3. \A u \in Threads : u # t => pc'[u] \notin Closing
      BY <3>1, <3>2, OneCloses
    <3>4. QED
      BY <1>5, <3>1, <3>2, <3>3 DEF PortClose, Closing, ClosedOnce
  <2>3. QED
    BY <2>1, <2>2
<1>6. ASSUME NEW t \in Threads, Unref(t)
      PROVE  Counted' /\ ClosedOnce'
  <2>1. Counted'
    <3>1. CountsItself(t, "idle")
      BY <1>6, Present DEF CountsItself, Unref, Labels, Calling, InCall, InPoll, InLock, Closing
    <3>2. QED
      BY <3>1, CountedMove
  <2>2. ClosedOnce'
    BY <1>6, CallMove DEF Unref, InCall
  <2>3. QED
    BY <2>1, <2>2
<1>7. ASSUME NEW t \in Threads, Updated(t)
      PROVE  Counted' /\ ClosedOnce'
  <2>1. Counted'
    <3>1. CountsItself(t, "gqcs") \/ CountsItself(t, "unref")
      BY <1>7, Present DEF CountsItself, Updated, Leave, Labels, Calling, InCall, InPoll, InLock, Closing
    <3>2. QED
      BY <3>1, CountedMove
  <2>2. ClosedOnce'
    BY <1>7, CallMove DEF Updated, Leave, InCall, InPoll, InLock
  <2>3. QED
    BY <2>1, <2>2
<1>8. ASSUME NEW t \in Threads, PollAgain(t)
      PROVE  Counted' /\ ClosedOnce'
  <2>1. Counted'
    <3>1. CountsItself(t, "update")
      BY <1>8, Present DEF CountsItself, PollAgain, Labels, Calling, InCall, InPoll, InLock, Closing
    <3>2. QED
      BY <3>1, CountedMove
  <2>2. ClosedOnce'
    BY <1>8, CallMove DEF PollAgain, InCall, InLock
  <2>3. QED
    BY <2>1, <2>2
<1>9. ASSUME NEW t \in Threads, WaitReturns(t)
      PROVE  Counted' /\ ClosedOnce'
  <2>1. Counted'
    <3>1. CountsItself(t, "last_update") \/ CountsItself(t, "unref")
      BY <1>9, Present DEF CountsItself, WaitReturns, UpdateIfPolling, Labels, Calling, InCall, InPoll, InLock, Closing
    <3>2. QED
      BY <3>1, CountedMove
  <2>2. ClosedOnce'
    BY <1>9, CallMove DEF WaitReturns, UpdateIfPolling, InCall, InLock
  <2>3. QED
    BY <2>1, <2>2
<1>10. ASSUME NEW t \in Threads, Dequeue(t) \/ DequeueFails(t)
       PROVE  Counted' /\ ClosedOnce'
  <2>1. Counted'
    <3>1. CountsItself(t, "fed") \/ CountsItself(t, "failed")
      BY <1>10, Present DEF CountsItself, Dequeue, DequeueFails, Labels, Calling, InCall, InPoll, InLock, Closing
    <3>2. QED
      BY <3>1, CountedMove
  <2>2. ClosedOnce'
    BY <1>10, CallMove DEF Dequeue, DequeueFails, InCall, InPoll
  <2>3. QED
    BY <2>1, <2>2
<1>11. ASSUME NEW t \in Threads, UnrefAndDestroy(t)
       PROVE  Counted' /\ ClosedOnce'
  <2>1. Counted'
    <3>1. CountsItself(t, "delete") \/ CountsItself(t, "await")
      BY <1>11, Present DEF CountsItself, UnrefAndDestroy, Labels, Calling, InCall, InPoll, InLock, Closing
    <3>2. QED
      BY <3>1, CountedMove
  <2>2. refs > 0
    BY <1>11, Present DEF UnrefAndDestroy, Calling
  <2>3. ClosedOnce'
    <3>1. PICK l \in {"delete", "await"} : Goto(t, l) /\ l = (IF refs = 1 THEN "delete" ELSE "await")
      BY <1>11 DEF UnrefAndDestroy
    <3>2. pc'[t] = l /\ \A u \in Threads : u # t => pc'[u] = pc[u]
      BY <3>1, Moves DEF Labels, Closing
    <3>3. \A u \in Threads : u # t => pc[u] \notin Closing
      BY <1>11, OneCloses DEF UnrefAndDestroy, Closing
    <3>4. port = "closed" /\ ~registered /\ ~signal
      BY <1>11, <3>3 DEF UnrefAndDestroy, ClosedOnce, Closing
    <3>5. refs' = refs - 1 /\ destroy' /\ UNCHANGED <<port, registered, signal>>
      BY <1>11 DEF UnrefAndDestroy
    <3>6. refs \in Nat /\ (l = "delete" => refs' = 0)
      BY <3>1, <3>5, Present
    <3>7. QED
      BY <3>1, <3>2, <3>3, <3>4, <3>5, <3>6 DEF ClosedOnce, Closing
  <2>4. QED
    BY <2>1, <2>3
<1>12. ASSUME NEW t \in Threads, AwaitEvent(t)
       PROVE  Counted' /\ ClosedOnce'
  <2>1. Counted'
    <3>1. CountsItself(t, "delete")
      BY <1>12, Present DEF CountsItself, AwaitEvent, Labels, Calling, InCall, InPoll, InLock, Closing
    <3>2. QED
      BY <3>1, CountedMove
  <2>2. ClosedOnce'
    BY <1>12, Moves, OneCloses DEF AwaitEvent, Labels, Closing, ClosedOnce
  <2>3. QED
    BY <2>1, <2>2
<1>13. ASSUME NEW t \in Threads, PortDelete(t)
       PROVE  Counted' /\ ClosedOnce'
  <2>1. Counted'
    <3>1. CountsItself(t, "idle")
      BY <1>13, Present DEF CountsItself, PortDelete, Labels, Calling, InCall, InPoll, InLock, Closing
    <3>2. QED
      BY <3>1, CountedMove
  <2>2. refs = 0 /\ destroy /\ port = "closed"
    BY <1>13 DEF PortDelete, ClosedOnce
  <2>3. \A u \in Threads : u # t => pc[u] = "idle"
    BY <1>13, <2>2, Present, OneCloses DEF PortDelete, Labels, Closing, Calling
  <2>4. pc'[t] = "idle" /\ \A u \in Threads : u # t => pc'[u] = pc[u]
    BY <1>13, Moves DEF PortDelete, Labels
  <2>5. ClosedOnce'
    BY <1>13, <2>2, <2>3, <2>4 DEF PortDelete, Closing, ClosedOnce
  <2>6. QED
    BY <2>1, <2>5
<1>14. ASSUME NEW t \in Threads, NEW call \in {"ctl", "wait"}, FindAndRef(t, call)
       PROVE  Counted' /\ ClosedOnce'
  <2>1. Counted'
    <3>1. CountsItself(t, call)
      BY <1>14, Present DEF CountsItself, FindAndRef, Labels, Calling, InCall, InPoll, InLock, Closing
    <3>2. QED
      BY <3>1, CountedMove
  <2>2. port = "open" /\ \A u \in Threads : pc[u] \notin Closing
    BY <1>14 DEF FindAndRef, ClosedOnce
  <2>3. \A u \in Threads : pc'[u] \notin Closing
    BY <1>14, <2>2, Moves DEF FindAndRef, Labels, InCall, Closing
  <2>4. {"destroy", "await", "delete"} \subseteq Closing
    BY DEF Closing
  <2>5. ClosedOnce'
    BY <1>14, <2>2, <2>3, <2>4 DEF FindAndRef, ClosedOnce
  <2>6. QED
    BY <2>1, <2>5
<1>15. ASSUME NEW t \in Threads, DelAndRef(t)
       PROVE  Counted' /\ ClosedOnce'
  <2>1. Counted'
    <3>1. CountsItself(t, "close")
      BY <1>15, Present DEF CountsItself, DelAndRef, Labels, Calling, InCall, InPoll, InLock, Closing
    <3>2. QED
      BY <3>1, CountedMove
  <2>2. port = "open" /\ \A u \in Threads : pc[u] \notin Closing
    BY <1>15 DEF DelAndRef, ClosedOnce
  <2>3. pc'[t] = "close" /\ \A u \in Threads : u # t => pc'[u] \notin Closing
    BY <1>15, <2>2, Moves DEF DelAndRef, Labels, Closing
  <2>4. {"close", "destroy", "await", "delete"} \subseteq Closing
    BY DEF Closing
  <2>5. ClosedOnce'
    BY <1>15, <2>2, <2>3, <2>4 DEF DelAndRef, ClosedOnce
  <2>6. QED
    BY <2>1, <2>5
<1>16. CASE UNCHANGED vars
  BY <1>16, NoMove DEF vars
<1>17. ASSUME NEW t \in Threads, UpdateEvents(t) \/ Feed(t)
       PROVE  Counted' /\ ClosedOnce'
  BY <1>17, NoMove DEF UpdateEvents, Feed
<1>18. ASSUME NEW i \in Ids, Kernel(i)
       PROVE  Counted' /\ ClosedOnce'
  BY <1>18, NoMove DEF Kernel, EventOccurs, SocketClosed, Cancelled, Complete
<1>19. ASSUME NEW s \in Socks, CloseSocket(s) \/ \E events \in SUBSET Events : ChangeReady(s, events)
       PROVE  Counted' /\ ClosedOnce'
  BY <1>19, NoMove DEF CloseSocket, ChangeReady
<1>20. ASSUME NEW t \in Threads, NEW s \in Socks, NEW ask \in Asks, CtlAdd(t, s, ask[1], ask[2])
       PROVE  Counted' /\ ClosedOnce'
  BY <1>20, <1>4 DEF CtlAdd, Ctl
<1>21. ASSUME NEW t \in Threads, NEW s \in Changing, NEW ask \in Asks, CtlMod(t, s, ask[1], ask[2])
       PROVE  Counted' /\ ClosedOnce'
  BY <1>21, <1>4 DEF CtlMod, Ctl
<1>22. ASSUME NEW t \in Threads, NEW s \in Changing, CtlAddAgain(t, s) \/ CtlDel(t, s)
       PROVE  Counted' /\ ClosedOnce'
  BY <1>22, <1>4 DEF CtlAddAgain, CtlDel
<1>23. ASSUME NEW t \in Threads, CtlFails(t)
       PROVE  Counted' /\ ClosedOnce'
  BY <1>23, <1>4 DEF CtlFails
<1>24. QED
  BY <1>1, <1>2, <1>3, <1>5, <1>6, <1>7, <1>8, <1>9, <1>10, <1>11, <1>12, <1>13, <1>14, <1>15,
     <1>16, <1>17, <1>18, <1>19, <1>20, <1>21, <1>22, <1>23
     DEF Next, EnterLock, Running, Done

-----------------------------------------------------------------------------
(* What the operations do to a sock_state, field by field. *)

LEMMA SockFields ==
  ASSUME NEW r \in SockState
  PROVE  /\ r # FREE
         /\ r.sock \in Socks /\ r.user_events \subseteq Known /\ r.oneshot \in BOOLEAN
         /\ r.pending_events \subseteq Known /\ r.status \in {"idle", "pending", "cancelled"}
         /\ r.delete_pending \in BOOLEAN /\ r.group \in Groups
<1>1. DOMAIN r = {"sock", "user_events", "oneshot", "pending_events", "status",
                  "delete_pending", "group"}
  BY DEF SockState
<1>2. DOMAIN FREE = {"sock"}
  BY DEF FREE
<1>3. r # FREE
  BY <1>1, <1>2
<1>4. QED
  BY <1>3 DEF SockState

LEMMA AllocatedFields ==
  ASSUME TypeOK, NEW i \in Ids
  PROVE  /\ Allocated(i) => socks[i] \in SockState
         /\ Allocated(i) <=> socks[i] \in SockState
         /\ i # 0
<1>1. socks[i] \in SockState \cup {FREE}
  BY DEF TypeOK
<1>2. i # 0
  <2>1. Cardinality(Ids) \in Nat /\ i \in 1..Cardinality(Ids)
    BY FS_CardinalityType, WepollAssumption
  <2>2. QED
    BY <2>1
<1>3. QED
  BY <1>1, <1>2, SockFields DEF Allocated

Others(i) == \A j \in Ids : j # i => socks'[j] = socks[j] /\ op'[j] = op[j]

(* The sock_state keeps its socket and its place in a group. *)
Kept(i) ==
    /\ Allocated(i)
    /\ socks'[i] \in SockState /\ Others(i)
    /\ socks'[i].sock = socks[i].sock /\ socks'[i].group = socks[i].group

Domains == socks' = [j \in Ids |-> socks'[j]] /\ op' = [j \in Ids |-> op'[j]]

Freed(i) ==
    /\ Allocated(i) /\ socks'[i] = FREE /\ Others(i) /\ op'[i] = op[i]
    /\ Unregister(i) /\ Unqueue(i)
    /\ sock_deleted_queue' = sock_deleted_queue \ {i}
    /\ poll_group_queue' = QueueAfterRelease(poll_group_queue, socks[i].group)

PutOff(i) ==
    /\ Live(i) /\ socks[i].status # "idle" /\ Kept(i)
    /\ socks'[i].status = "cancelled" /\ socks'[i].delete_pending
    /\ op'[i] = IF socks[i].status = "pending" /\ op[i] = "polling" THEN "cancelled" ELSE op[i]
    /\ Unregister(i) /\ Unqueue(i)
    /\ sock_deleted_queue' = sock_deleted_queue \cup {i}
    /\ UNCHANGED poll_group_queue

Polled(i) ==
    /\ Live(i) /\ socks[i].status = "idle" /\ Kept(i)
    /\ socks'[i].status = "pending" /\ ~socks'[i].delete_pending
    /\ socks'[i].user_events \subseteq socks'[i].pending_events
    /\ op'[i] = "polling"
    /\ Unqueue(i) /\ UNCHANGED <<sock_tree, sock_deleted_queue, poll_group_queue>>

Withdrawn(i) ==
    /\ Live(i) /\ socks[i].status = "pending" /\ Kept(i)
    /\ socks'[i].status = "cancelled" /\ ~socks'[i].delete_pending
    /\ op'[i] = IF op[i] = "polling" THEN "cancelled" ELSE op[i]
    /\ Unqueue(i) /\ UNCHANGED <<sock_tree, sock_deleted_queue, poll_group_queue>>

Passed(i) ==
    /\ Live(i) /\ socks[i].status # "idle"
    /\ socks[i].status = "pending" => socks[i].user_events \subseteq socks[i].pending_events
    /\ UNCHANGED <<socks, op>>
    /\ Unqueue(i) /\ UNCHANGED <<sock_tree, sock_deleted_queue, poll_group_queue>>

Requeued(i) ==
    /\ Live(i) /\ Kept(i) /\ op'[i] = op[i]
    /\ socks'[i].status = "idle" /\ ~socks'[i].delete_pending
    /\ RequestUpdate(i) /\ UNCHANGED <<sock_tree, sock_deleted_queue, poll_group_queue>>

Added(i) ==
    /\ ~Allocated(i) /\ socks'[i] \in SockState /\ Others(i) /\ op'[i] = op[i]
    /\ socks'[i].status = "idle" /\ ~socks'[i].delete_pending
    /\ socks'[i].group = Acquired(poll_group_queue).id
    /\ sock_tree[socks'[i].sock] = 0
    /\ sock_tree' = [sock_tree EXCEPT ![socks'[i].sock] = i]
    /\ RequestUpdate(i)
    /\ poll_group_queue' = QueueAfterAcquire(poll_group_queue)
    /\ UNCHANGED sock_deleted_queue

Modified(i) ==
    /\ Live(i) /\ Kept(i) /\ op'[i] = op[i]
    /\ socks'[i].status = socks[i].status /\ ~socks'[i].delete_pending
    /\ \/ RequestUpdate(i)
       \/ UNCHANGED sock_update_queue /\ socks'[i].user_events \subseteq socks'[i].pending_events
    /\ UNCHANGED <<sock_tree, sock_deleted_queue, poll_group_queue>>

LEMMA FreedEffect ==
  ASSUME TypeOK, NEW i \in Ids, Allocated(i), SockDelete(i, "idle")
  PROVE  Freed(i) /\ Domains
<1>1. socks' = [socks EXCEPT ![i] = FREE] /\ op' = op
  BY DEF SockDelete, Free
<1>2. /\ DOMAIN socks = Ids /\ socks = [j \in Ids |-> socks[j]]
      /\ DOMAIN op = Ids /\ op = [j \in Ids |-> op[j]]
  BY DEF TypeOK
<1>3. socks'[i] = FREE /\ Others(i) /\ op'[i] = op[i] /\ Domains
  BY <1>1, <1>2 DEF Others, Domains
<1>4. QED
  BY <1>3 DEF SockDelete, Free, Freed

LEMMA PutOffEffect ==
  ASSUME TypeOK, NEW i \in Ids, Live(i), socks[i].status # "idle", SockDelete(i, socks[i].status)
  PROVE  PutOff(i) /\ Domains
<1>1. /\ socks' = [socks EXCEPT ![i].status = "cancelled", ![i].pending_events = {},
                                ![i].delete_pending = TRUE]
      /\ IF socks[i].status = "pending" THEN CancelOp(i) ELSE op' = op
      /\ Unregister(i) /\ Unqueue(i)
      /\ sock_deleted_queue' = sock_deleted_queue \cup {i}
      /\ UNCHANGED poll_group_queue
  BY DEF SockDelete
<1>2. /\ DOMAIN socks = Ids /\ socks = [j \in Ids |-> socks[j]]
      /\ DOMAIN op = Ids /\ op = [j \in Ids |-> op[j]]
  BY DEF TypeOK
<1>3. socks[i] \in SockState
  BY AllocatedFields DEF Live
<1> DEFINE r == [socks[i] EXCEPT !.status = "cancelled", !.pending_events = {},
                                 !.delete_pending = TRUE]
<1>4. /\ r \in SockState /\ r.status = "cancelled" /\ r.delete_pending
      /\ r.sock = socks[i].sock /\ r.group = socks[i].group
  BY <1>3 DEF SockState
<1>5. socks'[i] = r
  BY <1>1, <1>2
<1>6. \A j \in Ids : j # i => socks'[j] = socks[j]
  BY <1>1, <1>2
<1>7. /\ op'[i] = IF socks[i].status = "pending" /\ op[i] = "polling" THEN "cancelled" ELSE op[i]
      /\ \A j \in Ids : j # i => op'[j] = op[j]
  BY <1>1, <1>2 DEF CancelOp
<1>8. Domains
  BY <1>1, <1>2 DEF Domains, CancelOp
<1> HIDE DEF r
<1>9. QED
  BY <1>1, <1>4, <1>5, <1>6, <1>7, <1>8 DEF PutOff, Kept, Others, Live

LEMMA UpdateEffect ==
  ASSUME TypeOK, NEW i \in Ids, Live(i), SockUpdate(i)
  PROVE  /\ Domains
         /\ \/ Freed(i) /\ socks[i].status = "idle"
            \/ Polled(i) \/ Withdrawn(i) \/ Passed(i)
<1>1. /\ DOMAIN socks = Ids /\ socks = [j \in Ids |-> socks[j]]
      /\ DOMAIN op = Ids /\ op = [j \in Ids |-> op[j]]
  BY DEF TypeOK
<1>2. socks[i] \in SockState /\ Allocated(i) /\ ~socks[i].delete_pending
  BY AllocatedFields DEF Live
<1>3. CASE socks[i].status = "idle" /\ SockDelete(i, "idle")
  BY <1>2, <1>3, FreedEffect
<1>4. CASE /\ socks[i].status = "idle"
           /\ socks' = [socks EXCEPT ![i].status = "pending", ![i].pending_events = socks[i].user_events]
           /\ op' = [op EXCEPT ![i] = "polling"]
           /\ Unqueue(i) /\ UNCHANGED <<sock_tree, sock_deleted_queue, poll_group_queue>>
  <2> DEFINE r == [socks[i] EXCEPT !.status = "pending", !.pending_events = socks[i].user_events]
  <2>1. /\ r \in SockState /\ r.status = "pending" /\ ~r.delete_pending
        /\ r.user_events = r.pending_events
        /\ r.sock = socks[i].sock /\ r.group = socks[i].group
    BY <1>2 DEF SockState
  <2>2. socks'[i] = r
    BY <1>1, <1>4
  <2>3. op'[i] = "polling" /\ Others(i) /\ Domains
    BY <1>1, <1>4 DEF Others, Domains
  <2> HIDE DEF r
  <2>4. QED
    BY <1>2, <1>4, <2>1, <2>2, <2>3 DEF Polled, Kept
<1>5. CASE /\ socks[i].status = "pending" /\ CancelOp(i)
           /\ socks' = [socks EXCEPT ![i].status = "cancelled", ![i].pending_events = {}]
           /\ Unqueue(i) /\ UNCHANGED <<sock_tree, sock_deleted_queue, poll_group_queue>>
  <2> DEFINE r == [socks[i] EXCEPT !.status = "cancelled", !.pending_events = {}]
  <2>1. /\ r \in SockState /\ r.status = "cancelled" /\ ~r.delete_pending
        /\ r.sock = socks[i].sock /\ r.group = socks[i].group
    BY <1>2 DEF SockState
  <2>2. socks'[i] = r
    BY <1>1, <1>5
  <2>3. /\ op'[i] = IF op[i] = "polling" THEN "cancelled" ELSE op[i]
        /\ Others(i) /\ Domains
    BY <1>1, <1>5 DEF Others, Domains, CancelOp
  <2> HIDE DEF r
  <2>4. QED
    BY <1>2, <1>5, <2>1, <2>2, <2>3 DEF Withdrawn, Kept
<1>6. CASE /\ \/ socks[i].status = "cancelled"
              \/ socks[i].status = "pending" /\ socks[i].user_events \subseteq socks[i].pending_events
           /\ UNCHANGED <<socks, op>>
           /\ Unqueue(i) /\ UNCHANGED <<sock_tree, sock_deleted_queue, poll_group_queue>>
  BY <1>1, <1>6 DEF Passed, Domains
<1>7. QED
  BY <1>3, <1>4, <1>5, <1>6 DEF SockUpdate

LEMMA FeedEffect ==
  ASSUME TypeOK, NEW i \in Ids, NEW p \in Packets, p.id = i, Allocated(i), NEW t, FeedEvent(t, p)
  PROVE  Domains /\ (Freed(i) \/ Requeued(i))
<1>1. /\ DOMAIN socks = Ids /\ socks = [j \in Ids |-> socks[j]]
      /\ DOMAIN op = Ids /\ op = [j \in Ids |-> op[j]]
  BY DEF TypeOK
<1>2. socks[i] \in SockState
  BY AllocatedFields
<1>3. CASE socks[i].delete_pending \/ p.how = "closed"
  BY <1>3, FreedEffect DEF FeedEvent
<1>4. CASE ~(socks[i].delete_pending \/ p.how = "closed")
  <2> DEFINE user_events == IF Reported(p) # {} /\ socks[i].oneshot THEN {} ELSE socks[i].user_events
  <2>1. /\ socks' = [socks EXCEPT ![i].status = "idle", ![i].pending_events = {},
                                  ![i].user_events = IF Reported(p) # {} /\ socks[i].oneshot THEN {} ELSE @]
        /\ RequestUpdate(i)
        /\ UNCHANGED <<sock_tree, sock_deleted_queue, poll_group_queue, op>>
    BY <1>4 DEF FeedEvent
  <2> DEFINE r == [socks[i] EXCEPT !.status = "idle", !.pending_events = {}, !.user_events = user_events]
  <2>2. user_events \subseteq Known
    BY <1>2, SockFields
  <2>3. socks'[i] = r
    BY <1>1, <2>1
  <2>4. Others(i) /\ Domains
    BY <1>1, <2>1 DEF Others, Domains
  <2> HIDE DEF user_events
  <2>5. /\ r \in SockState /\ r.status = "idle" /\ r.delete_pending = socks[i].delete_pending
        /\ r.sock = socks[i].sock /\ r.group = socks[i].group
    BY <1>2, <2>2 DEF SockState
  <2> HIDE DEF r
  <2>6. QED
    BY <1>4, <2>1, <2>3, <2>4, <2>5 DEF Requeued, Kept, Live
<1>5. QED
  BY <1>3, <1>4

LEMMA AddEffect ==
  ASSUME TypeOK, NEW t \in Threads, NEW s \in Socks, NEW ask \in Asks, CtlAdd(t, s, ask[1], ask[2]),
         Acquired(poll_group_queue).id \in Groups
  PROVE  Domains /\ \E i \in Ids : Added(i)
<1>1. /\ DOMAIN socks = Ids /\ socks = [j \in Ids |-> socks[j]]
      /\ DOMAIN op = Ids /\ op = [j \in Ids |-> op[j]]
  BY DEF TypeOK
<1>2. ask[1] \subseteq Known /\ ask[2] \in BOOLEAN
  BY WepollAssumption DEF Known
<1> DEFINE r == [sock |-> s, user_events |-> ask[1] \cup {"err"}, oneshot |-> ask[2],
                 pending_events |-> {}, status |-> "idle", delete_pending |-> FALSE,
                 group |-> Acquired(poll_group_queue).id]
<1>3. /\ r \in SockState /\ r.status = "idle" /\ ~r.delete_pending /\ r.sock = s
      /\ r.group = Acquired(poll_group_queue).id
  BY <1>2 DEF SockState, Known
<1>4. PICK i \in Ids :
          /\ ~Allocated(i)
          /\ socks' = [socks EXCEPT ![i] = r]
          /\ sock_tree' = [sock_tree EXCEPT ![s] = i]
          /\ RequestUpdate(i)
  BY DEF CtlAdd
<1>5. /\ sock_tree[s] = 0
      /\ poll_group_queue' = QueueAfterAcquire(poll_group_queue)
      /\ UNCHANGED <<sock_deleted_queue, op>>
  BY DEF CtlAdd
<1> HIDE DEF r
<1>6. socks'[i] = r /\ Others(i) /\ Domains
  BY <1>1, <1>4, <1>5 DEF Others, Domains
<1>7. QED
  BY <1>3, <1>4, <1>5, <1>6 DEF Added

LEMMA ModEffect ==
  ASSUME TypeOK, Reachable, NEW t \in Threads, NEW s \in Socks, NEW ask \in Asks,
         CtlMod(t, s, ask[1], ask[2])
  PROVE  Domains /\ \E i \in Ids : Modified(i)
<1>1. /\ DOMAIN socks = Ids /\ socks = [j \in Ids |-> socks[j]]
      /\ DOMAIN op = Ids /\ op = [j \in Ids |-> op[j]]
  BY DEF TypeOK
<1>2. ask[1] \subseteq Known /\ ask[2] \in BOOLEAN
  BY WepollAssumption DEF Known
<1> DEFINE i == sock_tree[s]
           events == ask[1] \cup {"err"}
           r == [socks[i] EXCEPT !.user_events = events, !.oneshot = ask[2]]
<1>3. i \in Ids /\ Live(i)
  BY DEF CtlMod, TypeOK, Reachable
<1>4. /\ socks' = [socks EXCEPT ![i].user_events = events, ![i].oneshot = ask[2]]
      /\ IF events \subseteq socks[i].pending_events THEN UNCHANGED sock_update_queue
                                                     ELSE RequestUpdate(i)
      /\ UNCHANGED <<sock_tree, sock_deleted_queue, poll_group_queue, op>>
  BY DEF CtlMod
<1>5. events \subseteq Known
  BY <1>2 DEF Known
<1>6. socks[i] \in SockState
  BY <1>3, AllocatedFields DEF Live
<1>7. socks'[i] = r
  BY <1>1, <1>3, <1>4
<1>8. Others(i) /\ Domains
  BY <1>1, <1>3, <1>4 DEF Others, Domains
<1> HIDE DEF i, events
<1>9. /\ r \in SockState /\ r.user_events = events
      /\ r.pending_events = socks[i].pending_events /\ r.status = socks[i].status
      /\ r.delete_pending = socks[i].delete_pending
      /\ r.sock = socks[i].sock /\ r.group = socks[i].group
  BY <1>2, <1>5, <1>6 DEF SockState
<1> HIDE DEF r
<1>10. Modified(i)
  BY <1>3, <1>4, <1>7, <1>8, <1>9 DEF Modified, Kept, Live
<1>11. QED
  BY <1>3, <1>8, <1>10

-----------------------------------------------------------------------------
(* The tree and the queues. *)
LEMMA InQueue ==
  ASSUME NEW S, NEW q \in Seq(S), NEW x
  PROVE  x \in ToSet(q) <=> Contains(q, x)
<1>1. DOMAIN q = 1..Len(q)
  OBVIOUS
<1>2. QED
  BY <1>1 DEF ToSet, Contains

LEMMA UnqueueProperties ==
  ASSUME sock_update_queue \in Seq(Ids), IsInjective(sock_update_queue), NEW i, Unqueue(i)
  PROVE  /\ sock_update_queue' \in Seq(Ids) /\ IsInjective(sock_update_queue')
         /\ \A x : Contains(sock_update_queue', x) <=> Contains(sock_update_queue, x) /\ x # i
<1> DEFINE q == sock_update_queue
           r == RemoveFirst(q, i)
<1>1. q \in Seq(Ids) /\ IsInjective(q)
  OBVIOUS
<1>2. sock_update_queue' = r
  BY DEF Unqueue
<1> HIDE DEF q
<1>3. /\ r \in Seq(Ids) /\ IsInjective(r)
      /\ \A x : Contains(r, x) <=> Contains(q, x) /\ x # i
  BY <1>1, RemoveFirstProperties
<1> HIDE DEF r
<1>4. QED
  BY <1>2, <1>3 DEF q

LEMMA RequestUpdateProperties ==
  ASSUME sock_update_queue \in Seq(Ids), IsInjective(sock_update_queue), NEW i \in Ids,
         RequestUpdate(i)
  PROVE  /\ sock_update_queue' \in Seq(Ids) /\ IsInjective(sock_update_queue')
         /\ \A x : Contains(sock_update_queue', x) <=> Contains(sock_update_queue, x) \/ x = i
<1> DEFINE q == sock_update_queue
           r == sock_update_queue'
<1>1. q \in Seq(Ids) /\ IsInjective(q)
  OBVIOUS
<1>2. r = IF Contains(q, i) THEN q ELSE Append(q, i)
  BY DEF RequestUpdate
<1> HIDE DEF q, r
<1>3. CASE Contains(q, i)
  BY <1>1, <1>2, <1>3 DEF q, r
<1>4. CASE ~Contains(q, i)
  <2>1. PICK N \in Nat : N = Len(q) /\ DOMAIN q = 1..N
    BY <1>1
  <2>2. /\ r \in Seq(Ids) /\ Len(r) = N + 1 /\ r[N + 1] = i
        /\ \A k \in 1..N : r[k] = q[k]
    BY <1>1, <1>2, <1>4, <2>1, AppendProperties
  <2>3. DOMAIN r = 1..(N + 1)
    BY <2>2
  <2>4. \A k \in 1..N : q[k] # i
    BY <1>4, <2>1 DEF Contains
  <2>5. IsInjective(r)
    <3>1. SUFFICES ASSUME NEW j \in 1..(N + 1), NEW k \in 1..(N + 1), j < k, r[j] = r[k]
                   PROVE  FALSE
      BY <2>3 DEF IsInjective
    <3>2. j \in 1..N
      BY <3>1
    <3>3. CASE k = N + 1
      BY <2>2, <2>4, <3>1, <3>2, <3>3
    <3>4. CASE k \in 1..N
      BY <1>1, <2>1, <2>2, <3>1, <3>2, <3>4 DEF IsInjective
    <3>5. QED
      BY <3>3, <3>4
  <2>6. ASSUME NEW x
        PROVE  Contains(r, x) <=> Contains(q, x) \/ x = i
    <3>1. Contains(r, x) <=> \E k \in 1..(N + 1) : r[k] = x
      BY <2>2 DEF Contains
    <3>2. Contains(q, x) <=> \E k \in 1..N : q[k] = x
      BY <2>1 DEF Contains
    <3>3. \A k \in 1..(N + 1) : k = N + 1 \/ k \in 1..N
      OBVIOUS
    <3>4. N + 1 \in 1..(N + 1) /\ \A k \in 1..N : k \in 1..(N + 1)
      OBVIOUS
    <3>5. QED
      BY <2>2, <3>1, <3>2, <3>3, <3>4
  <2>7. QED
    BY <2>2, <2>5, <2>6 DEF q, r
<1>5. QED
  BY <1>3, <1>4

(* Reachable, with the queue as a predicate. *)
LEMMA ReachableFacts ==
  ASSUME TypeOK
  PROVE  Reachable <=>
           /\ \A i \in Ids, s \in Socks : sock_tree[s] = i <=> Live(i) /\ socks[i].sock = s
           /\ \A i \in Ids : i \in sock_deleted_queue <=> Allocated(i) /\ ~Live(i)
           /\ \A i \in sock_deleted_queue : socks[i].status = "cancelled"
           /\ IsInjective(sock_update_queue)
           /\ \A i \in Ids : Contains(sock_update_queue, i) => Live(i)
           /\ \A i \in Ids : Allocated(i) /\ socks[i].status = "idle" => Contains(sock_update_queue, i)
<1>1. sock_update_queue \in Seq(Ids)
  BY DEF TypeOK
<1>2. \A x : x \in ToSet(sock_update_queue) <=> Contains(sock_update_queue, x)
  BY <1>1, InQueue
<1>3. \A x : Contains(sock_update_queue, x) => x \in Ids
  BY <1>1 DEF Contains
<1>4. QED
  BY <1>2, <1>3 DEF Reachable

LEMMA ReachableNext ==
  ASSUME sock_update_queue' \in Seq(Ids), IsInjective(sock_update_queue'),
         \A i \in Ids, s \in Socks : sock_tree'[s] = i <=> Live(i)' /\ socks'[i].sock = s,
         \A i \in Ids : i \in sock_deleted_queue' <=> Allocated(i)' /\ ~Live(i)',
         \A i \in sock_deleted_queue' : socks'[i].status = "cancelled",
         \A i \in Ids : Contains(sock_update_queue', i) => Live(i)',
         \A i \in Ids : Allocated(i)' /\ socks'[i].status = "idle" => Contains(sock_update_queue', i)
  PROVE  Reachable'
<1>1. \A x : x \in ToSet(sock_update_queue') <=> Contains(sock_update_queue', x)
  BY InQueue
<1>2. \A x : Contains(sock_update_queue', x) => x \in Ids
  BY DEF Contains
<1>3. QED
  BY <1>1, <1>2 DEF Reachable

LEMMA LiveNext ==
  ASSUME NEW i
  PROVE  /\ Allocated(i)' <=> socks'[i] # FREE
         /\ Live(i)' <=> Allocated(i)' /\ ~socks'[i].delete_pending
         /\ Live(i) <=> Allocated(i) /\ ~socks[i].delete_pending
         /\ Allocated(i) <=> socks[i] # FREE
BY DEF Live, Allocated

SetsTyped ==
    /\ sock_tree \in [Socks -> Ids \cup {0}]
    /\ sock_update_queue \in Seq(Ids) /\ sock_deleted_queue \subseteq Ids

(* sock__delete *)
LEMMA ReachableLeaves ==
  ASSUME TypeOK, Reachable, NEW i \in Ids, Freed(i) \/ PutOff(i)
  PROVE  Reachable' /\ SetsTyped'
<1>1. Allocated(i) /\ Others(i) /\ Unregister(i) /\ Unqueue(i)
  BY DEF Freed, PutOff, Kept
<1>2. socks[i] \in SockState /\ socks[i].sock \in Socks /\ i # 0
  BY <1>1, AllocatedFields, SockFields
<1>3. \A j \in Ids : j # i => socks'[j] = socks[j]
  BY <1>1 DEF Others
<1>4. ~Live(i)' /\ \A j \in Ids : j # i => (Live(j)' <=> Live(j)) /\ (Allocated(j)' <=> Allocated(j))
  <2>1. ~Live(i)'
    BY LiveNext DEF Freed, PutOff
  <2>2. QED
    BY <1>3, <2>1, LiveNext
<1>5. /\ sock_tree \in [Socks -> Ids \cup {0}]
      /\ sock_update_queue \in Seq(Ids) /\ sock_deleted_queue \subseteq Ids
  BY DEF TypeOK
<1>6. /\ sock_tree' \in [Socks -> Ids \cup {0}]
      /\ \A s \in Socks : sock_tree'[s] = IF s = socks[i].sock /\ sock_tree[s] = i THEN 0 ELSE sock_tree[s]
  BY <1>1, <1>2, <1>5 DEF Unregister
<1>7. /\ sock_update_queue' \in Seq(Ids) /\ IsInjective(sock_update_queue')
      /\ \A x : Contains(sock_update_queue', x) <=> Contains(sock_update_queue, x) /\ x # i
  BY <1>1, <1>5, UnqueueProperties DEF Reachable
<1>8. /\ \A j \in Ids, s \in Socks : sock_tree[s] = j <=> Live(j) /\ socks[j].sock = s
      /\ \A j \in Ids : j \in sock_deleted_queue <=> Allocated(j) /\ ~Live(j)
      /\ \A j \in sock_deleted_queue : socks[j].status = "cancelled"
      /\ \A j \in Ids : Contains(sock_update_queue, j) => Live(j)
      /\ \A j \in Ids : Allocated(j) /\ socks[j].status = "idle" => Contains(sock_update_queue, j)
  BY ReachableFacts
<1>9. \A j \in Ids, s \in Socks : sock_tree'[s] = j <=> Live(j)' /\ socks'[j].sock = s
  <2>1. SUFFICES ASSUME NEW j \in Ids, NEW s \in Socks
                 PROVE  sock_tree'[s] = j <=> Live(j)' /\ socks'[j].sock = s
    OBVIOUS
  <2>2. (sock_tree[s] = j <=> Live(j) /\ socks[j].sock = s) /\ (sock_tree[s] = i => socks[i].sock = s)
    BY <1>8
  <2>3. j # 0
    BY AllocatedFields
  <2>4. CASE j = i
    BY <1>2, <1>4, <1>6, <2>2, <2>4
  <2>5. CASE j # i
    <3>1. (Live(j)' <=> Live(j)) /\ socks'[j] = socks[j]
      BY <1>3, <1>4, <2>5
    <3>2. sock_tree'[s] = j <=> sock_tree[s] = j
      BY <1>6, <2>3, <2>5
    <3>3. QED
      BY <2>2, <3>1, <3>2
  <2>6. QED
    BY <2>4, <2>5
<1>10. \A j \in Ids : Contains(sock_update_queue', j) => Live(j)'
  BY <1>4, <1>7, <1>8
<1>11. CASE Freed(i)
  <2>1. sock_deleted_queue' = sock_deleted_queue \ {i} /\ ~Allocated(i)'
    BY <1>11, LiveNext DEF Freed
  <2>2. /\ \A j \in Ids : j \in sock_deleted_queue' <=> Allocated(j)' /\ ~Live(j)'
        /\ \A j \in sock_deleted_queue' : socks'[j].status = "cancelled"
    BY <1>3, <1>4, <1>5, <1>8, <2>1
  <2>3. \A j \in Ids : Allocated(j)' /\ socks'[j].status = "idle" => Contains(sock_update_queue', j)
    BY <1>3, <1>4, <1>7, <1>8, <2>1
  <2>4. Reachable'
    BY <1>7, <1>9, <1>10, <2>2, <2>3, ReachableNext
  <2>5. QED
    BY <1>5, <1>6, <1>7, <2>1, <2>4 DEF SetsTyped
<1>12. CASE PutOff(i)
  <2>1. sock_deleted_queue' = sock_deleted_queue \cup {i} /\ socks'[i].status = "cancelled" /\ Allocated(i)'
    BY <1>12, LiveNext, SockFields DEF PutOff, Kept
  <2>2. /\ \A j \in Ids : j \in sock_deleted_queue' <=> Allocated(j)' /\ ~Live(j)'
        /\ \A j \in sock_deleted_queue' : socks'[j].status = "cancelled"
    BY <1>3, <1>4, <1>5, <1>8, <2>1
  <2>3. \A j \in Ids : Allocated(j)' /\ socks'[j].status = "idle" => Contains(sock_update_queue', j)
    BY <1>3, <1>4, <1>7, <1>8, <2>1
  <2>4. Reachable'
    BY <1>7, <1>9, <1>10, <2>2, <2>3, ReachableNext
  <2>5. QED
    BY <1>5, <1>6, <1>7, <2>1, <2>4 DEF SetsTyped
<1>13. QED
  BY <1>11, <1>12

(* What goes on with a sock_state that stays. *)
LEMMA ReachableStays ==
  ASSUME TypeOK, Reachable, NEW i \in Ids,
         Polled(i) \/ Withdrawn(i) \/ Passed(i) \/ Requeued(i) \/ Modified(i)
  PROVE  Reachable' /\ SetsTyped'
<1>1. Live(i) /\ UNCHANGED <<sock_tree, sock_deleted_queue>>
  BY DEF Polled, Withdrawn, Passed, Requeued, Modified
<1>2. Live(i)' /\ socks'[i].sock = socks[i].sock /\ \A j \in Ids : j # i => socks'[j] = socks[j]
  <2>1. CASE Passed(i)
    BY <1>1, <2>1, LiveNext DEF Passed
  <2>2. CASE ~Passed(i)
    <3>1. Kept(i) /\ ~socks'[i].delete_pending
      BY <2>2 DEF Polled, Withdrawn, Requeued, Modified
    <3>2. QED
      BY <3>1, LiveNext, SockFields DEF Kept, Others
  <2>3. QED
    BY <2>1, <2>2
<1>3. \A j \in Ids : (Live(j)' <=> Live(j)) /\ (Allocated(j)' <=> Allocated(j)) /\ socks'[j].sock = socks[j].sock
  BY <1>1, <1>2, LiveNext
<1>4. SetsTyped
  BY DEF TypeOK, SetsTyped
<1>5. /\ IsInjective(sock_update_queue)
      /\ \A j \in Ids, s \in Socks : sock_tree[s] = j <=> Live(j) /\ socks[j].sock = s
      /\ \A j \in Ids : j \in sock_deleted_queue <=> Allocated(j) /\ ~Live(j)
      /\ \A j \in sock_deleted_queue : socks[j].status = "cancelled"
      /\ \A j \in Ids : Contains(sock_update_queue, j) => Live(j)
      /\ \A j \in Ids : Allocated(j) /\ socks[j].status = "idle" => Contains(sock_update_queue, j)
  BY ReachableFacts
<1>6. /\ \A j \in Ids, s \in Socks : sock_tree'[s] = j <=> Live(j)' /\ socks'[j].sock = s
      /\ \A j \in Ids : j \in sock_deleted_queue' <=> Allocated(j)' /\ ~Live(j)'
  BY <1>1, <1>3, <1>5
<1>7. \A j \in sock_deleted_queue' : socks'[j].status = "cancelled"
  <2>1. i \notin sock_deleted_queue
    BY <1>1, <1>5
  <2>2. QED
    BY <1>1, <1>2, <1>4, <1>5, <2>1 DEF SetsTyped
<1>8. /\ sock_update_queue' \in Seq(Ids) /\ IsInjective(sock_update_queue')
      /\ \A j \in Ids : Contains(sock_update_queue', j) => Live(j)'
      /\ \A j \in Ids : Allocated(j)' /\ socks'[j].status = "idle" => Contains(sock_update_queue', j)
  <2>1. CASE Unqueue(i) /\ socks'[i].status # "idle"
    <3>1. /\ sock_update_queue' \in Seq(Ids) /\ IsInjective(sock_update_queue')
          /\ \A x : Contains(sock_update_queue', x) <=> Contains(sock_update_queue, x) /\ x # i
      BY <1>4, <1>5, <2>1, UnqueueProperties DEF SetsTyped
    <3>2. QED
      BY <1>2, <1>3, <1>5, <2>1, <3>1
  <2>2. CASE RequestUpdate(i)
    <3>1. /\ sock_update_queue' \in Seq(Ids) /\ IsInjective(sock_update_queue')
          /\ \A x : Contains(sock_update_queue', x) <=> Contains(sock_update_queue, x) \/ x = i
      BY <1>4, <1>5, <2>2, RequestUpdateProperties DEF SetsTyped
    <3>2. QED
      BY <1>1, <1>2, <1>3, <1>5, <3>1
  <2>3. CASE UNCHANGED sock_update_queue /\ socks'[i].status = socks[i].status
    BY <1>1, <1>2, <1>3, <1>4, <1>5, <2>3 DEF SetsTyped
  <2>4. QED
    BY <2>1, <2>2, <2>3 DEF Polled, Withdrawn, Passed, Requeued, Modified
<1>9. Reachable'
  BY <1>5, <1>6, <1>7, <1>8, ReachableNext
<1>10. QED
  BY <1>1, <1>4, <1>8, <1>9 DEF SetsTyped

LEMMA ReachableAdded ==
  ASSUME TypeOK, Reachable, NEW i \in Ids, Added(i)
  PROVE  Reachable' /\ SetsTyped'
<1>1. /\ ~Allocated(i) /\ ~Live(i) /\ RequestUpdate(i) /\ UNCHANGED sock_deleted_queue
      /\ sock_tree[socks'[i].sock] = 0
      /\ sock_tree' = [sock_tree EXCEPT ![socks'[i].sock] = i]
  BY LiveNext DEF Added
<1>2. /\ Live(i)' /\ Allocated(i)' /\ socks'[i].sock \in Socks
      /\ \A j \in Ids : j # i => socks'[j] = socks[j]
  BY LiveNext, SockFields DEF Added, Others
<1>3. \A j \in Ids : j # i => (Live(j)' <=> Live(j)) /\ (Allocated(j)' <=> Allocated(j))
  BY <1>2, LiveNext
<1>4. SetsTyped /\ i # 0
  BY AllocatedFields DEF TypeOK, SetsTyped
<1>5. /\ IsInjective(sock_update_queue)
      /\ \A j \in Ids, s \in Socks : sock_tree[s] = j <=> Live(j) /\ socks[j].sock = s
      /\ \A j \in Ids : j \in sock_deleted_queue <=> Allocated(j) /\ ~Live(j)
      /\ \A j \in sock_deleted_queue : socks[j].status = "cancelled"
      /\ \A j \in Ids : Contains(sock_update_queue, j) => Live(j)
      /\ \A j \in Ids : Allocated(j) /\ socks[j].status = "idle" => Contains(sock_update_queue, j)
  BY ReachableFacts
<1>6. /\ sock_tree' \in [Socks -> Ids \cup {0}]
      /\ \A s \in Socks : sock_tree'[s] = IF s = socks'[i].sock THEN i ELSE sock_tree[s]
  BY <1>1, <1>2, <1>4 DEF SetsTyped
<1>7. \A j \in Ids : j # 0
  BY AllocatedFields
<1>8. \A j \in Ids, s \in Socks : sock_tree'[s] = j <=> Live(j)' /\ socks'[j].sock = s
  BY <1>1, <1>2, <1>3, <1>5, <1>6, <1>7
<1>9. /\ \A j \in Ids : j \in sock_deleted_queue' <=> Allocated(j)' /\ ~Live(j)'
      /\ \A j \in sock_deleted_queue' : socks'[j].status = "cancelled"
  BY <1>1, <1>2, <1>3, <1>4, <1>5 DEF SetsTyped
<1>10. /\ sock_update_queue' \in Seq(Ids) /\ IsInjective(sock_update_queue')
       /\ \A x : Contains(sock_update_queue', x) <=> Contains(sock_update_queue, x) \/ x = i
  BY <1>1, <1>4, <1>5, RequestUpdateProperties DEF SetsTyped
<1>11. /\ \A j \in Ids : Contains(sock_update_queue', j) => Live(j)'
       /\ \A j \in Ids : Allocated(j)' /\ socks'[j].status = "idle" => Contains(sock_update_queue', j)
  BY <1>2, <1>3, <1>5, <1>10
<1>12. Reachable'
  BY <1>8, <1>9, <1>10, <1>11, ReachableNext
<1>13. QED
  BY <1>1, <1>4, <1>6, <1>10, <1>12 DEF SetsTyped

-----------------------------------------------------------------------------
(* The groups and their sockets. *)
MembersOf == [g \in Groups |-> Cardinality(Members(g))]

GroupsKnown == \A i \in Ids : Allocated(i) => socks[i].group \in DOMAIN poll_group_queue

LEMMA GroupsWell ==
  ASSUME TypeOK, GroupsSorted
  PROVE  /\ Well(poll_group_queue, MembersOf) /\ GroupsKnown
         /\ MembersOf \in [Groups -> Nat]
         /\ \A g \in Groups : g \notin DOMAIN poll_group_queue => MembersOf[g] = 0
<1> DEFINE q == poll_group_queue
<1>1. q \in Seq(GroupType)
  BY DEF TypeOK, GroupType
<1>2. \A n \in DOMAIN q : q[n].id \in Groups
  <2>1. \A x \in GroupType : x.id \in Groups
    BY DEF GroupType
  <2>2. \A n \in DOMAIN q : q[n] \in GroupType
    BY <1>1
  <2>3. QED
    BY <2>1, <2>2
<1>3. {q[n].id : n \in DOMAIN q} = DOMAIN q
  BY DEF GroupsSorted
<1>4. Sorted(q) /\ Distinct(q)
  BY DEF GroupsSorted, Sorted, Distinct
<1>5. \A n \in DOMAIN q : q[n].size = Cardinality(Members(q[n].id))
  BY DEF GroupsSorted
<1>6. \A i \in Ids : Allocated(i) => \E n \in DOMAIN q : q[n].id = socks[i].group
  BY DEF GroupsSorted
<1> HIDE DEF q
<1>7. Sized(q, MembersOf)
  BY <1>2, <1>5 DEF Sized, MembersOf
<1>8. Numbered(q)
  BY <1>3 DEF Numbered
<1>9. Well(q, MembersOf)
  BY <1>1, <1>4, <1>7, <1>8 DEF Well
<1>10. \A i \in Ids : Allocated(i) => socks[i].group \in DOMAIN q
  BY <1>3, <1>6
<1>11. \A g : IsFiniteSet(Members(g)) /\ Cardinality(Members(g)) \in Nat
  BY FS_Subset, FS_CardinalityType, WepollAssumption DEF Members
<1>12. ASSUME NEW g \in Groups, g \notin DOMAIN q
       PROVE  MembersOf[g] = 0
  <2>1. Members(g) = {}
    BY <1>10, <1>12 DEF Members
  <2>2. QED
    BY <2>1, FS_EmptySet DEF MembersOf
<1>13. QED
  BY <1>9, <1>10, <1>11, <1>12 DEF q, MembersOf, GroupsKnown

LEMMA GroupsNext ==
  ASSUME Well(poll_group_queue', MembersOf'), GroupsKnown'
  PROVE  GroupsSorted' /\ poll_group_queue' \in Seq(GroupType)
<1> DEFINE q == poll_group_queue'
           members == MembersOf'
<1>1. Well(q, members)
  OBVIOUS
<1>2. \A n \in DOMAIN q : q[n].id \in Groups
  BY <1>1, GroupFacts
<1>3. members = [g \in Groups |-> Cardinality(Members(g)')]
  BY DEF MembersOf, Members, Allocated
<1>4. \A i \in Ids : Allocated(i)' => socks'[i].group \in DOMAIN q
  BY DEF GroupsKnown, Allocated
<1> HIDE DEF q, members
<1>5. \A n \in DOMAIN q, g \in Groups : q[n].id = g => q[n].size = Cardinality(Members(g)')
  <2>1. \A n \in DOMAIN q : q[n].size = members[q[n].id]
    BY <1>1 DEF Well, Sized
  <2>2. \A g \in Groups : members[g] = Cardinality(Members(g)')
    BY <1>3
  <2>3. QED
    BY <2>1, <2>2
<1>6. /\ \A g \in DOMAIN q : \E n \in DOMAIN q : q[n].id = g
      /\ \A n \in DOMAIN q : q[n].id \in DOMAIN q
  BY <1>1 DEF Well, Numbered
<1>7. {q[n].id : n \in DOMAIN q} = DOMAIN q
  BY <1>6
<1>8. \A i \in Ids : Allocated(i)' => \E n \in DOMAIN q : q[n].id = socks'[i].group
  BY <1>4, <1>6
<1>9. \A m, n \in DOMAIN q : /\ m < n /\ q[n].size = MaxGroup => q[m].size = MaxGroup
                             /\ q[m].id = q[n].id => m = n
  BY <1>1 DEF Well, Sorted, Distinct
<1>10. q \in Seq(GroupType)
  BY <1>1 DEF Well
<1>11. GroupsSorted'
  BY <1>2, <1>5, <1>7, <1>8, <1>9 DEF q, GroupsSorted, Members
<1>12. QED
  BY <1>10, <1>11 DEF q

(* One sock_state more or less, the others as they were. *)
LEMMA MembersChange ==
  ASSUME TypeOK, GroupsSorted, NEW i \in Ids, \A j \in Ids : j # i => socks'[j] = socks[j]
  PROVE  \A g \in Groups :
            MembersOf'[g] = MembersOf[g] + (IF Allocated(i)' /\ socks'[i].group = g THEN 1 ELSE 0)
                                         - (IF Allocated(i) /\ socks[i].group = g THEN 1 ELSE 0)
<1>1. SUFFICES ASSUME NEW g \in Groups
               PROVE  MembersOf'[g] = MembersOf[g]
                         + (IF Allocated(i)' /\ socks'[i].group = g THEN 1 ELSE 0)
                         - (IF Allocated(i) /\ socks[i].group = g THEN 1 ELSE 0)
  OBVIOUS
<1>2. IsFiniteSet(Members(g))
  BY FS_Subset, WepollAssumption DEF Members
<1>3. Members(g) \ {i} = Members(g)' \ {i}
  BY DEF Members, Allocated
<1>4. Cardinality(Members(g)') = Cardinality(Members(g)) + (IF i \in Members(g)' THEN 1 ELSE 0)
                                                         - (IF i \in Members(g) THEN 1 ELSE 0)
  BY <1>2, <1>3, SizeChanges
<1>5. /\ i \in Members(g)' <=> Allocated(i)' /\ socks'[i].group = g
      /\ i \in Members(g) <=> Allocated(i) /\ socks[i].group = g
  BY DEF Members
<1>6. MembersOf'[g] = Cardinality(Members(g)') /\ MembersOf[g] = Cardinality(Members(g))
  BY DEF MembersOf
<1>7. QED
  BY <1>4, <1>5, <1>6

LEMMA GroupsKept ==
  ASSUME TypeOK, GroupsSorted, NEW i \in Ids,
         Kept(i) \/ UNCHANGED socks, UNCHANGED poll_group_queue
  PROVE  GroupsSorted' /\ poll_group_queue' \in Seq(GroupType)
<1>1. \A j \in Ids : j # i => socks'[j] = socks[j]
  BY DEF Kept, Others
<1>2. (Allocated(i)' <=> Allocated(i)) /\ (Allocated(i) => socks'[i].group = socks[i].group)
  BY LiveNext, SockFields DEF Kept
<1>3. MembersOf \in [Groups -> Nat] /\ Well(poll_group_queue, MembersOf) /\ GroupsKnown
  BY GroupsWell
<1>4. \A g \in Groups : MembersOf'[g] = MembersOf[g]
  <2>1. \A g \in Groups : MembersOf[g] \in Nat
    BY <1>3
  <2>2. QED
    BY <1>1, <1>2, <2>1, MembersChange
<1>5. MembersOf' = MembersOf
  BY <1>3, <1>4 DEF MembersOf
<1>6. GroupsKnown'
  BY <1>1, <1>2, <1>3, LiveNext DEF GroupsKnown
<1>7. QED
  BY <1>3, <1>5, <1>6, GroupsNext

LEMMA GroupsFreed ==
  ASSUME TypeOK, GroupsSorted, NEW i \in Ids, Freed(i)
  PROVE  GroupsSorted' /\ poll_group_queue' \in Seq(GroupType)
<1> DEFINE q == poll_group_queue
           g == socks[i].group
<1>1. /\ Allocated(i) /\ ~Allocated(i)' /\ \A j \in Ids : j # i => socks'[j] = socks[j]
      /\ poll_group_queue' = QueueAfterRelease(q, g)
  BY LiveNext DEF Freed, Others
<1>2. MembersOf \in [Groups -> Nat] /\ Well(q, MembersOf) /\ GroupsKnown
  BY GroupsWell
<1>3. g \in Groups /\ g \in DOMAIN q
  BY <1>1, <1>2, AllocatedFields, SockFields DEF GroupsKnown
<1>4. MembersOf[g] # 0
  <2>1. i \in Members(g) /\ IsFiniteSet(Members(g))
    BY <1>1, FS_Subset, WepollAssumption DEF Members
  <2>2. QED
    BY <1>3, <2>1, FS_EmptySet DEF MembersOf
<1>5. MembersOf' = [MembersOf EXCEPT ![g] = @ - 1]
  <2>1. \A h \in Groups : MembersOf[h] \in Nat
    BY <1>2
  <2>2. \A h \in Groups : MembersOf'[h] = MembersOf[h] - (IF g = h THEN 1 ELSE 0)
    <3>1. SUFFICES ASSUME NEW h \in Groups
                   PROVE  MembersOf'[h] = MembersOf[h] - (IF g = h THEN 1 ELSE 0)
      OBVIOUS
    <3>2. MembersOf'[h] = MembersOf[h] + 0 - (IF g = h THEN 1 ELSE 0)
      BY <1>1, MembersChange
    <3>3. QED
      BY <2>1, <3>2
  <2>3. QED
    BY <1>3, <2>1, <2>2 DEF MembersOf
<1> DEFINE r == QueueAfterRelease(q, g)
<1>6. Well(r, MembersOf') /\ DOMAIN r = DOMAIN q
  BY <1>2, <1>3, <1>4, <1>5, ReleaseWell
<1>7. GroupsKnown'
  BY <1>1, <1>2, <1>6, LiveNext DEF GroupsKnown
<1>8. QED
  BY <1>1, <1>6, <1>7, GroupsNext

LEMMA GroupsAdded ==
  ASSUME TypeOK, GroupsSorted, NEW i \in Ids, Added(i)
  PROVE  GroupsSorted' /\ poll_group_queue' \in Seq(GroupType)
<1> DEFINE q == poll_group_queue
           g == Acquired(q).id
           r == QueueAfterAcquire(q)
<1>1. /\ ~Allocated(i) /\ Allocated(i)' /\ \A j \in Ids : j # i => socks'[j] = socks[j]
      /\ poll_group_queue' = r /\ socks'[i].group = g
  BY LiveNext, SockFields DEF Added, Others
<1>2. /\ MembersOf \in [Groups -> Nat] /\ Well(q, MembersOf) /\ GroupsKnown
      /\ \A h \in Groups : h \notin DOMAIN q => MembersOf[h] = 0
  BY GroupsWell
<1>3. g \in Groups /\ Well(r, [MembersOf EXCEPT ![g] = @ + 1]) /\ DOMAIN r = DOMAIN q \cup {g}
  BY <1>2, AcquireWell
<1> HIDE DEF g, r
<1>4. MembersOf' = [MembersOf EXCEPT ![g] = @ + 1]
  <2>1. \A h \in Groups : MembersOf[h] \in Nat
    BY <1>2
  <2>2. \A h \in Groups : MembersOf'[h] = MembersOf[h] + (IF g = h THEN 1 ELSE 0)
    <3>1. SUFFICES ASSUME NEW h \in Groups
                   PROVE  MembersOf'[h] = MembersOf[h] + (IF g = h THEN 1 ELSE 0)
      OBVIOUS
    <3>2. MembersOf'[h] = MembersOf[h] + (IF g = h THEN 1 ELSE 0) - 0
      BY <1>1, MembersChange
    <3>3. QED
      BY <2>1, <3>2
  <2> DEFINE more == [MembersOf EXCEPT ![g] = @ + 1]
  <2>3. DOMAIN more = Groups /\ \A h \in Groups : more[h] = MembersOf[h] + (IF g = h THEN 1 ELSE 0)
    BY <1>2, <2>1
  <2> HIDE DEF more
  <2>4. \A h \in Groups : MembersOf'[h] = more[h]
    BY <2>2, <2>3
  <2>5. MembersOf' = [h \in Groups |-> more[h]]
    BY <2>4 DEF MembersOf
  <2>6. more = [h \in Groups |-> more[h]]
    BY <1>2, <2>3 DEF more
  <2>7. QED
    BY <2>5, <2>6 DEF more
<1>5. GroupsKnown'
  BY <1>1, <1>2, <1>3, LiveNext DEF GroupsKnown
<1>6. QED
  BY <1>1, <1>3, <1>4, <1>5, GroupsNext

LEMMA GroupsAddedAgain ==
  ASSUME TypeOK, GroupsSorted, UNCHANGED socks,
         poll_group_queue' = QueueAfterRelease(QueueAfterAcquire(poll_group_queue),
                                               Acquired(poll_group_queue).id)
  PROVE  GroupsSorted' /\ poll_group_queue' \in Seq(GroupType)
<1> DEFINE q == poll_group_queue
           g == Acquired(q).id
           r == QueueAfterAcquire(q)
           more == [MembersOf EXCEPT ![g] = @ + 1]
           s == QueueAfterRelease(r, g)
<1>1. /\ MembersOf \in [Groups -> Nat] /\ Well(q, MembersOf) /\ GroupsKnown
      /\ \A h \in Groups : h \notin DOMAIN q => MembersOf[h] = 0
  BY GroupsWell
<1>2. g \in Groups /\ Well(r, more) /\ DOMAIN r = DOMAIN q \cup {g}
  BY <1>1, AcquireWell
<1>3. poll_group_queue' = s
  OBVIOUS
<1> HIDE DEF g, r
<1>4. more \in [Groups -> Nat] /\ more[g] = MembersOf[g] + 1 /\ MembersOf[g] \in Nat
  BY <1>1, <1>2
<1>5. [more EXCEPT ![g] = @ - 1] = MembersOf
  <2>1. \A h \in Groups : h # g => more[h] = MembersOf[h]
    BY <1>1
  <2>2. \A h \in Groups : [more EXCEPT ![g] = @ - 1][h] = MembersOf[h]
    BY <1>2, <1>4, <2>1
  <2>3. DOMAIN [more EXCEPT ![g] = @ - 1] = Groups /\ DOMAIN MembersOf = Groups
    BY <1>1, <1>4
  <2> HIDE DEF more
  <2>4. QED
    BY <1>1, <2>2, <2>3
<1> HIDE DEF more
<1>6. Well(s, [more EXCEPT ![g] = @ - 1]) /\ DOMAIN s = DOMAIN r
  <2>1. g \in DOMAIN r /\ more[g] # 0
    BY <1>2, <1>4
  <2>2. QED
    BY <1>2, <1>4, <2>1, ReleaseWell DEF s
<1>7. MembersOf' = MembersOf
  BY DEF MembersOf, Members, Allocated
<1> HIDE DEF s
<1>8. GroupsKnown'
  BY <1>1, <1>2, <1>3, <1>6 DEF GroupsKnown, Allocated
<1>9. QED
  BY <1>3, <1>5, <1>6, <1>7, <1>8, GroupsNext

-----------------------------------------------------------------------------
(* The packets and what they refer to. *)
Unique ==
    \A g, h \in Holders : \A m \in DOMAIN PacketsOf(g), n \in DOMAIN PacketsOf(h) :
        PacketsOf(g)[m].id = PacketsOf(h)[n].id => g = h /\ m = n

LEMMA HoldersFacts ==
  ASSUME TypeOK
  PROVE  /\ \A h \in Holders : PacketsOf(h) \in Seq(Packets)
         /\ PacketsOf(NoThread) = iocp /\ \A t \in Threads : PacketsOf(t) = taken[t]
         /\ PacketsOf(NoThread)' = iocp' /\ \A t \in Threads : PacketsOf(t)' = taken'[t]
         /\ NoThread \notin Threads /\ Holders = Threads \cup {NoThread}
BY WepollAssumption DEF TypeOK, Holders, PacketsOf

(* Packets that only move, each to a place of its own. *)
Moved(from, shift) ==
    /\ \A h \in Holders : \A m \in DOMAIN PacketsOf(h)' :
          /\ from[h] \in Holders
          /\ m + shift[h] \in DOMAIN PacketsOf(from[h])
          /\ PacketsOf(h)'[m] = PacketsOf(from[h])[m + shift[h]]
    /\ \A g, h \in Holders : \A m \in DOMAIN PacketsOf(g)', n \in DOMAIN PacketsOf(h)' :
          from[g] = from[h] /\ m + shift[g] = n + shift[h] => g = h /\ m = n

LEMMA PacketsMove ==
  ASSUME Unique, NEW from, NEW shift, Moved(from, shift)
  PROVE  Unique' /\ \A i \in Ids : Returning(i)' => Returning(i)
<1> USE DEF Moved
<1>1. Unique'
  <2>1. SUFFICES ASSUME NEW g \in Holders, NEW h \in Holders,
                        NEW m \in DOMAIN PacketsOf(g)', NEW n \in DOMAIN PacketsOf(h)',
                        PacketsOf(g)'[m].id = PacketsOf(h)'[n].id
                 PROVE  g = h /\ m = n
    BY DEF Unique, Holders
  <2>2. /\ from[g] \in Holders /\ m + shift[g] \in DOMAIN PacketsOf(from[g])
        /\ PacketsOf(g)'[m] = PacketsOf(from[g])[m + shift[g]]
    OBVIOUS
  <2>3. /\ from[h] \in Holders /\ n + shift[h] \in DOMAIN PacketsOf(from[h])
        /\ PacketsOf(h)'[n] = PacketsOf(from[h])[n + shift[h]]
    OBVIOUS
  <2>4. from[g] = from[h] /\ m + shift[g] = n + shift[h]
    BY <2>1, <2>2, <2>3 DEF Unique
  <2>5. QED
    BY <2>4
<1>2. ASSUME NEW i \in Ids, Returning(i)'
      PROVE  Returning(i)
  <2>1. PICK h \in Holders : \E m \in DOMAIN PacketsOf(h)' : PacketsOf(h)'[m].id = i
    BY <1>2 DEF Returning, Holders
  <2>2. PICK m \in DOMAIN PacketsOf(h)' : PacketsOf(h)'[m].id = i
    BY <2>1
  <2>3. from[h] \in Holders /\ m + shift[h] \in DOMAIN PacketsOf(from[h])
        /\ PacketsOf(from[h])[m + shift[h]].id = i
    BY <2>2
  <2>4. QED
    BY <2>3 DEF Returning
<1>3. QED
  BY <1>1, <1>2

Owned ==
    /\ \A i \in Ids : Returning(i) => op[i] = "none"
    /\ \A i \in Ids : Returning(i) \/ op[i] # "none" => Allocated(i) /\ socks[i].status # "idle"
    /\ port = "open" => \A i \in Ids :
          Allocated(i) /\ socks[i].status # "idle" => Returning(i) \/ op[i] # "none"

Taken == \A t \in Threads : taken[t] # <<>> => pc[t] \in {"fed", "feed"}

LEMMA OneReferenceParts ==
  OneReference <=> Unique /\ Owned /\ Taken /\ (port # "open" => iocp = <<>>)
BY DEF OneReference, Unique, Owned, Taken

(* A step that concerns the request of one sock_state. *)
LEMMA OwnedNext ==
  ASSUME Owned, NEW i \in Ids, Others(i), port' = port,
         \A j \in Ids : j # i => (Returning(j)' <=> Returning(j)),
         Returning(i)' => op'[i] = "none",
         Returning(i)' \/ op'[i] # "none" => Allocated(i)' /\ socks'[i].status # "idle",
         port = "open" /\ Allocated(i)' /\ socks'[i].status # "idle" => Returning(i)' \/ op'[i] # "none"
  PROVE  Owned'
<1>1. \A j \in Ids : j # i => socks'[j] = socks[j] /\ op'[j] = op[j] /\ (Allocated(j)' <=> Allocated(j))
  BY LiveNext DEF Others
<1>2. QED
  BY <1>1 DEF Owned

LEMMA SamePackets ==
  ASSUME UNCHANGED <<iocp, taken>>
  PROVE  (Unique' <=> Unique) /\ \A i \in Ids : Returning(i)' <=> Returning(i)
BY DEF Unique, Returning, PacketsOf, Holders

(* What is done to a sock_state while its request, or none, stays where it is. *)
LEMMA OwnedEffect ==
  ASSUME TypeOK, OneReference, NEW i \in Ids, UNCHANGED <<iocp, taken, port>>,
         \/ Freed(i) /\ socks[i].status = "idle"
         \/ PutOff(i) \/ Polled(i) \/ Withdrawn(i) \/ Passed(i) \/ Added(i) \/ Modified(i)
  PROVE  Unique' /\ Owned' /\ (port' # "open" => iocp' = <<>>)
<1>1. Unique /\ Owned /\ (port # "open" => iocp = <<>>)
  BY OneReferenceParts
<1>2. Unique' /\ \A j \in Ids : Returning(j)' <=> Returning(j)
  BY <1>1, SamePackets
<1>3. /\ Returning(i) => op[i] = "none"
      /\ Returning(i) \/ op[i] # "none" => Allocated(i) /\ socks[i].status # "idle"
      /\ port = "open" /\ Allocated(i) /\ socks[i].status # "idle" => Returning(i) \/ op[i] # "none"
  BY <1>1 DEF Owned
<1>4. CASE Freed(i) /\ socks[i].status = "idle"
  <2>1. Others(i) /\ op'[i] = op[i] /\ ~Allocated(i)' /\ socks[i].status = "idle"
    BY <1>4, LiveNext DEF Freed
  <2>2. QED
    BY <1>1, <1>2, <1>3, <2>1, OwnedNext
<1>5. CASE PutOff(i)
  <2>1. /\ Others(i) /\ Allocated(i) /\ Allocated(i)' /\ socks'[i].status # "idle" /\ socks[i].status # "idle"
        /\ op'[i] = "none" <=> op[i] = "none"
    BY <1>5, LiveNext, SockFields DEF PutOff, Kept
  <2>2. QED
    BY <1>1, <1>2, <1>3, <2>1, OwnedNext
<1>6. CASE Polled(i)
  <2>1. /\ Others(i) /\ Allocated(i)' /\ socks'[i].status # "idle" /\ socks[i].status = "idle"
        /\ op'[i] # "none"
    BY <1>6, LiveNext, SockFields DEF Polled, Kept
  <2>2. QED
    BY <1>1, <1>2, <1>3, <2>1, OwnedNext
<1>7. CASE Withdrawn(i)
  <2>1. /\ Others(i) /\ Allocated(i) /\ Allocated(i)' /\ socks'[i].status # "idle" /\ socks[i].status # "idle"
        /\ op'[i] = "none" <=> op[i] = "none"
    BY <1>7, LiveNext, SockFields DEF Withdrawn, Kept
  <2>2. QED
    BY <1>1, <1>2, <1>3, <2>1, OwnedNext
<1>8. CASE Passed(i)
  BY <1>1, <1>2, <1>8 DEF Passed, Owned, Allocated
<1>9. CASE Added(i)
  <2>1. Others(i) /\ op'[i] = op[i] /\ ~Allocated(i) /\ socks'[i].status = "idle"
    BY <1>9 DEF Added
  <2>2. QED
    BY <1>1, <1>2, <1>3, <2>1, OwnedNext
<1>10. CASE Modified(i)
  <2>1. /\ Others(i) /\ Allocated(i) /\ Allocated(i)' /\ socks'[i].status = socks[i].status /\ op'[i] = op[i]
    BY <1>10, LiveNext, SockFields DEF Modified, Kept
  <2>2. QED
    BY <1>1, <1>2, <1>3, <2>1, OwnedNext
<1>11. QED
  BY <1>1, <1>2, <1>4, <1>5, <1>6, <1>7, <1>8, <1>9, <1>10

(* GetQueuedCompletionStatusEx: the packets change hands. *)
LEMMA ReferenceDequeue ==
  ASSUME TypeOK, OneReference, NEW t \in Threads, Dequeue(t)
  PROVE  OneReference'
<1>1. Unique /\ Owned /\ Taken /\ (port # "open" => iocp = <<>>)
  BY OneReferenceParts
<1>2. PICK N \in Nat : N = Len(iocp) /\ DOMAIN iocp = 1..N
  BY DEF TypeOK
<1>3. PICK n \in 0..N : /\ taken' = [taken EXCEPT ![t] = SubSeq(iocp, 1, n)]
                        /\ iocp' = SubSeq(iocp, n + 1, N)
  <2> DEFINE n == IF N < MaxEvents THEN N ELSE MaxEvents
  <2>1. n \in 0..N
    BY WepollAssumption
  <2>2. taken' = [taken EXCEPT ![t] = SubSeq(iocp, 1, n)] /\ iocp' = SubSeq(iocp, n + 1, N)
    BY <1>2 DEF Dequeue
  <2>3. QED
    BY <2>1, <2>2
<1>4. iocp \in Seq(Packets) /\ DOMAIN taken = Threads
  BY DEF TypeOK
<1> DEFINE front == SubSeq(iocp, 1, n)
           back == SubSeq(iocp, n + 1, N)
<1>5. DOMAIN front = 1..n /\ \A m \in 1..n : front[m] = iocp[m]
  BY <1>2, <1>4, SubSeqProperties
<1>6. DOMAIN back = 1..(N - n) /\ \A m \in 1..(N - n) : back[m] = iocp[m + n]
  <2>1. \A k \in (n + 1)..N : k \in 1..N
    OBVIOUS
  <2>2. \A k \in (n + 1)..N : iocp[k] \in Packets
    BY <1>2, <1>4, <2>1
  <2>3. /\ back \in Seq(Packets) /\ Len(back) = IF n + 1 <= N THEN N - (n + 1) + 1 ELSE 0
        /\ \A k \in 1..(N - (n + 1) + 1) : back[k] = iocp[(n + 1) + k - 1]
    <3>1. n + 1 \in Int /\ N \in Int
      OBVIOUS
    <3>2. QED
      BY <2>2, <3>1, SubSeqProperties
  <2> HIDE DEF back
  <2>4. Len(back) = N - n /\ N - (n + 1) + 1 = N - n
    BY <2>3
  <2>5. DOMAIN back = 1..(N - n)
    BY <2>3, <2>4
  <2>6. QED
    BY <2>3, <2>4, <2>5
<1> HIDE DEF front, back
<1>7. /\ taken'[t] = front /\ iocp' = back /\ \A u \in Threads : u # t => taken'[u] = taken[u]
  BY <1>3, <1>4 DEF front, back
<1>8. taken[t] = <<>>
  BY <1>1 DEF Taken, Dequeue
<1> DEFINE from == [h \in Holders |-> IF h = t THEN NoThread ELSE h]
           shift == [h \in Holders |-> IF h = NoThread THEN n ELSE 0]
<1>9. NoThread \in Holders /\ t \in Holders /\ t # NoThread /\ Holders = Threads \cup {NoThread}
  BY HoldersFacts
<1>10. /\ PacketsOf(NoThread)' = back /\ PacketsOf(NoThread) = iocp /\ PacketsOf(t)' = front
       /\ \A u \in Threads : u # t => PacketsOf(u)' = PacketsOf(u)
       /\ PacketsOf(t) = <<>>
  BY <1>7, <1>8, HoldersFacts
<1>11. \A h \in Holders : from[h] = (IF h = t THEN NoThread ELSE h) /\ shift[h] = (IF h = NoThread THEN n ELSE 0)
  OBVIOUS
<1> HIDE DEF from, shift
<1>12. \A h \in Holders : \A m \in DOMAIN PacketsOf(h) : m \in Int
  BY HoldersFacts
<1>13. ASSUME NEW h \in Holders, NEW m \in DOMAIN PacketsOf(h)'
       PROVE  /\ from[h] \in Holders
              /\ m + shift[h] \in DOMAIN PacketsOf(from[h])
              /\ PacketsOf(h)'[m] = PacketsOf(from[h])[m + shift[h]]
              /\ m \in Int
  <2>1. CASE h = t
    BY <1>2, <1>5, <1>9, <1>10, <1>11, <1>13, <2>1
  <2>2. CASE h = NoThread
    <3>1. m \in 1..(N - n) /\ m + n \in 1..N
      BY <1>6, <1>10, <2>2
    <3>2. QED
      BY <1>2, <1>6, <1>9, <1>10, <1>11, <2>2, <3>1
  <2>3. CASE h # t /\ h # NoThread
    <3>1. m \in DOMAIN PacketsOf(h) /\ m \in Int /\ from[h] = h /\ shift[h] = 0
      BY <1>9, <1>10, <1>11, <1>12, <2>3
    <3>2. QED
      BY <1>9, <1>10, <2>3, <3>1
  <2>4. QED
    BY <2>1, <2>2, <2>3
<1>14. ASSUME NEW g \in Holders, NEW h \in Holders, NEW m \in DOMAIN PacketsOf(g)', NEW k \in DOMAIN PacketsOf(h)',
              from[g] = from[h], m + shift[g] = k + shift[h]
       PROVE  g = h /\ m = k
  <2>1. m \in Int /\ k \in Int
    BY <1>13
  <2>2. CASE g = h
    BY <1>9, <1>11, <1>14, <2>1, <2>2
  <2>3. CASE g = t /\ h = NoThread
    BY <1>5, <1>6, <1>9, <1>10, <1>11, <1>14, <2>3
  <2>4. CASE h = t /\ g = NoThread
    BY <1>5, <1>6, <1>9, <1>10, <1>11, <1>14, <2>4
  <2>5. QED
    BY <1>11, <1>14, <2>2, <2>3, <2>4
<1>15. Unique' /\ \A i \in Ids : Returning(i)' => Returning(i)
  <2>1. Moved(from, shift)
    BY <1>13, <1>14 DEF Moved
  <2>2. QED
    BY <1>1, <2>1, PacketsMove
<1>16. ASSUME NEW i \in Ids, Returning(i)
       PROVE  Returning(i)'
  <2>1. PICK h \in Holders : \E m \in DOMAIN PacketsOf(h) : PacketsOf(h)[m].id = i
    BY <1>16 DEF Returning
  <2>2. PICK m \in DOMAIN PacketsOf(h) : PacketsOf(h)[m].id = i
    BY <2>1
  <2>3. \E g \in Holders : \E k \in DOMAIN PacketsOf(g)' : PacketsOf(g)'[k].id = i
    <3>1. CASE h = NoThread /\ m <= n
      <4>1. m \in DOMAIN front /\ front[m] = iocp[m]
        BY <1>2, <1>5, <1>10, <3>1
      <4>2. QED
        BY <1>9, <1>10, <2>2, <3>1, <4>1
    <3>2. CASE h = NoThread /\ ~(m <= n)
      <4>1. m - n \in DOMAIN back /\ back[m - n] = iocp[m]
        BY <1>2, <1>6, <1>10, <3>2
      <4>2. QED
        BY <1>9, <1>10, <2>2, <3>2, <4>1
    <3>3. CASE h # NoThread
      <4>1. h # t
        BY <1>10
      <4>2. QED
        BY <1>9, <1>10, <2>2, <3>3, <4>1
    <3>4. QED
      BY <3>1, <3>2, <3>3
  <2>4. QED
    BY <2>3 DEF Returning, Holders
<1>17. UNCHANGED <<socks, op, port>> /\ port = "open"
  BY DEF Dequeue, sets
<1>18. Owned'
  BY <1>1, <1>15, <1>16, <1>17 DEF Owned, Allocated
<1>19. Taken'
  <2>1. pc'[t] = "fed" /\ \A u \in Threads : u # t => pc'[u] = pc[u]
    BY Moves DEF Dequeue, Labels, InCall, InPoll
  <2>2. QED
    BY <1>1, <1>7, <2>1 DEF Taken
<1>20. QED
  BY <1>15, <1>17, <1>18, <1>19 DEF OneReference, Unique, Owned, Taken

(* sock_feed_event has the packet that it handles to itself. *)
LEMMA FeedPackets ==
  ASSUME TypeOK, OneReference, NEW t \in Threads, Feed(t)
  PROVE  /\ Head(taken[t]) \in Packets /\ Tail(taken[t]) \in Seq(Packets) /\ Unique'
         /\ \E i \in Ids : /\ Head(taken[t]).id = i
                          /\ Returning(i) /\ ~Returning(i)'
                          /\ \A j \in Ids : j # i => (Returning(j)' <=> Returning(j))
<1> DEFINE p == Head(taken[t])
<1>1. Unique
  BY OneReferenceParts
<1>2. PICK N \in Nat : N = Len(taken[t]) /\ DOMAIN taken[t] = 1..N
  BY DEF TypeOK
<1>3. taken[t] \in Seq(Packets) /\ N >= 1 /\ taken[t][1] = p
  BY <1>2 DEF TypeOK, Feed
<1>4. p \in Packets /\ p.id \in Ids
  <2>1. taken[t][1] \in Packets
    BY <1>2, <1>3
  <2>2. QED
    BY <1>3, <2>1 DEF Packets
<1> HIDE DEF p
<1>0. PICK i \in Ids : p.id = i
  BY <1>4
<1>5. /\ Tail(taken[t]) \in Seq(Packets) /\ DOMAIN Tail(taken[t]) = 1..(N - 1)
      /\ \A m \in 1..(N - 1) : Tail(taken[t])[m] = taken[t][m + 1]
  <2>1. taken[t] # <<>>
    BY DEF Feed
  <2>2. /\ Tail(taken[t]) \in Seq(Packets) /\ Len(Tail(taken[t])) = N - 1
        /\ \A m \in 1..(N - 1) : Tail(taken[t])[m] = taken[t][m + 1]
    BY <1>2, <1>3, <2>1, HeadTailProperties
  <2>3. QED
    BY <2>2
<1>6. /\ taken'[t] = Tail(taken[t]) /\ iocp' = iocp
      /\ \A u \in Threads : u # t => taken'[u] = taken[u]
  BY DEF Feed, TypeOK
<1>7. t \in Holders /\ t # NoThread /\ Holders = Threads \cup {NoThread}
  BY HoldersFacts
<1>8. /\ PacketsOf(t)' = Tail(taken[t]) /\ PacketsOf(t) = taken[t]
      /\ \A h \in Holders : h # t => PacketsOf(h)' = PacketsOf(h)
  BY <1>6, HoldersFacts
<1>9. Returning(i)
  <2>1. 1 \in DOMAIN PacketsOf(t) /\ PacketsOf(t)[1].id = i
    BY <1>0, <1>2, <1>3, <1>8
  <2>2. QED
    BY <1>7, <2>1 DEF Returning
<1> DEFINE from == [h \in Holders |-> h]
           shift == [h \in Holders |-> IF h = t THEN 1 ELSE 0]
<1>10. \A h \in Holders : from[h] = h /\ shift[h] = IF h = t THEN 1 ELSE 0
  OBVIOUS
<1> HIDE DEF from, shift
<1>11. \A h \in Holders : \A m \in DOMAIN PacketsOf(h) : m \in Int
  BY HoldersFacts
<1>12. ASSUME NEW h \in Holders, NEW m \in DOMAIN PacketsOf(h)'
       PROVE  /\ from[h] \in Holders
              /\ m + shift[h] \in DOMAIN PacketsOf(from[h])
              /\ PacketsOf(h)'[m] = PacketsOf(from[h])[m + shift[h]]
              /\ m \in Int /\ (h = t => m >= 1)
  <2>1. CASE h = t
    BY <1>2, <1>5, <1>8, <1>10, <1>12, <2>1
  <2>2. CASE h # t
    <3>1. m \in DOMAIN PacketsOf(h) /\ m \in Int /\ m + shift[h] = m /\ from[h] = h
      BY <1>8, <1>10, <1>11, <2>2
    <3>2. QED
      BY <1>8, <2>2, <3>1
  <2>3. QED
    BY <2>1, <2>2
<1>13. Unique' /\ \A j \in Ids : Returning(j)' => Returning(j)
  <2>1. Moved(from, shift)
    BY <1>10, <1>12 DEF Moved
  <2>2. QED
    BY <1>1, <2>1, PacketsMove
<1>14. ~Returning(i)'
  <2>1. SUFFICES ASSUME NEW h \in Holders, NEW m \in DOMAIN PacketsOf(h)', PacketsOf(h)'[m].id = i
                 PROVE  FALSE
    BY DEF Returning, Holders
  <2>2. m + shift[h] \in DOMAIN PacketsOf(h) /\ PacketsOf(h)[m + shift[h]].id = i
    BY <1>10, <1>12, <2>1
  <2>3. 1 \in DOMAIN PacketsOf(t) /\ PacketsOf(t)[1].id = i
    BY <1>0, <1>2, <1>3, <1>8
  <2>4. h = t /\ m + shift[h] = 1
    BY <1>1, <1>7, <2>2, <2>3 DEF Unique
  <2>5. QED
    BY <1>10, <1>12, <2>4
<1>15. ASSUME NEW j \in Ids, j # i, Returning(j)
       PROVE  Returning(j)'
  <2>1. PICK h \in Holders : \E m \in DOMAIN PacketsOf(h) : PacketsOf(h)[m].id = j
    BY <1>15 DEF Returning
  <2>2. PICK m \in DOMAIN PacketsOf(h) : PacketsOf(h)[m].id = j
    BY <2>1
  <2>3. \E k \in DOMAIN PacketsOf(h)' : PacketsOf(h)'[k].id = j
    <3>1. CASE h = t
      <4>1. m # 1
        BY <1>0, <1>3, <1>8, <1>15, <2>2, <3>1
      <4>2. m - 1 \in 1..(N - 1) /\ (m - 1) + 1 = m
        BY <1>2, <1>8, <3>1, <4>1
      <4>3. m - 1 \in DOMAIN PacketsOf(h)' /\ PacketsOf(h)'[m - 1].id = j
        BY <1>5, <1>8, <2>2, <3>1, <4>2
      <4>4. QED
        BY <4>3
    <3>2. CASE h # t
      BY <1>8, <2>2, <3>2
    <3>3. QED
      BY <3>1, <3>2
  <2>4. QED
    BY <2>3 DEF Returning, Holders
<1>16. QED
  BY <1>0, <1>4, <1>5, <1>9, <1>13, <1>14, <1>15 DEF p

LEMMA ReferenceFeed ==
  ASSUME TypeOK, OneReference, NEW t \in Threads, Feed(t)
  PROVE  OneReference' /\ \E i \in Ids : Domains /\ (Freed(i) \/ Requeued(i))
<1> DEFINE p == Head(taken[t])
<1>1. /\ Unique /\ Owned /\ Taken /\ (port # "open" => iocp = <<>>)
      /\ FeedEvent(t, p) /\ pc[t] = "feed" /\ taken' = [taken EXCEPT ![t] = Tail(@)]
      /\ UNCHANGED <<port, iocp, pc>>
  BY OneReferenceParts DEF Feed
<1>2. p \in Packets /\ Unique'
  BY FeedPackets
<1>9. PICK i \in Ids : /\ p.id = i /\ Returning(i) /\ ~Returning(i)'
                      /\ \A j \in Ids : j # i => (Returning(j)' <=> Returning(j))
  BY FeedPackets
<1> HIDE DEF p
<1>3. Allocated(i) /\ op[i] = "none"
  BY <1>1, <1>9 DEF Owned
<1>4. Domains /\ (Freed(i) \/ Requeued(i))
  BY <1>1, <1>2, <1>3, <1>9, FeedEffect
<1>5. Others(i) /\ op'[i] = "none" /\ (Allocated(i)' => socks'[i].status = "idle")
  <2>1. CASE Freed(i)
    BY <1>3, <2>1, LiveNext DEF Freed
  <2>2. CASE Requeued(i)
    BY <1>3, <2>2 DEF Requeued, Kept
  <2>3. QED
    BY <1>4, <2>1, <2>2
<1>6. Owned'
  BY <1>1, <1>5, <1>9, OwnedNext
<1>7. Taken'
  BY <1>1 DEF Taken, TypeOK
<1>8. QED
  BY <1>1, <1>2, <1>4, <1>6, <1>7 DEF OneReference, Unique, Owned, Taken

(* The end of a request: its packet, unless the port is closed. *)
LEMMA ReferenceComplete ==
  ASSUME TypeOK, OneReference, NEW i \in Ids, op[i] # "none", NEW how, NEW events,
         Complete(i, how, events)
  PROVE  OneReference'
<1>1. Unique /\ Owned /\ Taken /\ (port # "open" => iocp = <<>>)
  BY OneReferenceParts
<1>2. ~Returning(i) /\ Allocated(i) /\ socks[i].status # "idle"
  BY <1>1 DEF Owned
<1>3. /\ op' = [op EXCEPT ![i] = "none"]
      /\ UNCHANGED <<port, socks, pc, taken>>
  BY DEF Complete, sets, local
<1>4. op'[i] = "none" /\ Others(i) /\ Allocated(i)'
  BY <1>2, <1>3 DEF Others, Allocated, TypeOK
<1>5. Taken'
  BY <1>1, <1>3 DEF Taken
<1>6. CASE port # "open"
  <2>1. UNCHANGED iocp
    BY <1>6 DEF Complete
  <2>2. Unique' /\ \A j \in Ids : Returning(j)' <=> Returning(j)
    BY <1>1, <1>3, <2>1, SamePackets
  <2>3. Owned'
    BY <1>1, <1>2, <1>3, <1>4, <1>6, <2>2, OwnedNext
  <2>4. QED
    BY <1>1, <1>3, <1>5, <2>1, <2>2, <2>3 DEF OneReference, Unique, Owned, Taken
<1>7. CASE port = "open"
  <2> DEFINE p == [id |-> i, how |-> how, events |-> events]
  <2>1. iocp' = Append(iocp, p) /\ p.id = i
    BY <1>7 DEF Complete
  <2>2. PICK N \in Nat : N = Len(iocp) /\ DOMAIN iocp = 1..N
    BY DEF TypeOK
  <2>3. DOMAIN iocp' = 1..(N + 1) /\ iocp'[N + 1] = p /\ \A m \in 1..N : iocp'[m] = iocp[m]
    <3>1. iocp \in Seq(Packets) /\ iocp \in Seq(Packets \cup {p}) /\ p \in Packets \cup {p}
      BY DEF TypeOK
    <3>2. /\ iocp' \in Seq(Packets \cup {p}) /\ Len(iocp') = N + 1 /\ iocp'[N + 1] = p
          /\ \A m \in 1..N : iocp'[m] = iocp[m]
      BY <2>1, <2>2, <3>1, AppendProperties
    <3>3. QED
      BY <3>2
  <2> HIDE DEF p
  <2>4. /\ NoThread \in Holders /\ PacketsOf(NoThread)' = iocp' /\ PacketsOf(NoThread) = iocp
        /\ \A h \in Holders : h # NoThread => PacketsOf(h)' = PacketsOf(h)
    BY <1>3, HoldersFacts
  <2>5. \A h \in Holders : \A m \in DOMAIN PacketsOf(h) : PacketsOf(h)[m].id # i
    BY <1>2 DEF Returning
  <2>6. \A h \in Holders : \A m \in DOMAIN PacketsOf(h)' :
           \/ m \in DOMAIN PacketsOf(h) /\ PacketsOf(h)'[m] = PacketsOf(h)[m]
           \/ h = NoThread /\ m = N + 1 /\ PacketsOf(h)'[m].id = i
    <3>1. SUFFICES ASSUME NEW h \in Holders, NEW m \in DOMAIN PacketsOf(h)'
                   PROVE  \/ m \in DOMAIN PacketsOf(h) /\ PacketsOf(h)'[m] = PacketsOf(h)[m]
                          \/ h = NoThread /\ m = N + 1 /\ PacketsOf(h)'[m].id = i
      OBVIOUS
    <3>2. CASE h # NoThread
      BY <2>4, <3>2
    <3>3. CASE h = NoThread
      <4>1. m \in 1..N \/ m = N + 1
        BY <2>3, <2>4, <3>3
      <4>2. QED
        BY <2>1, <2>2, <2>3, <2>4, <3>3, <4>1
    <3>4. QED
      BY <3>2, <3>3
  <2>7. Unique'
    <3>1. SUFFICES ASSUME NEW g \in Holders, NEW h \in Holders,
                          NEW m \in DOMAIN PacketsOf(g)', NEW n \in DOMAIN PacketsOf(h)',
                          PacketsOf(g)'[m].id = PacketsOf(h)'[n].id
                   PROVE  g = h /\ m = n
      BY DEF Unique, Holders
    <3>2. /\ \/ m \in DOMAIN PacketsOf(g) /\ PacketsOf(g)'[m] = PacketsOf(g)[m]
             \/ g = NoThread /\ m = N + 1 /\ PacketsOf(g)'[m].id = i
          /\ \/ n \in DOMAIN PacketsOf(h) /\ PacketsOf(h)'[n] = PacketsOf(h)[n]
             \/ h = NoThread /\ n = N + 1 /\ PacketsOf(h)'[n].id = i
      BY <2>6
    <3>3. QED
      BY <1>1, <2>5, <3>1, <3>2 DEF Unique
  <2>8. Returning(i)'
    <3>1. N + 1 \in DOMAIN PacketsOf(NoThread)' /\ PacketsOf(NoThread)'[N + 1].id = i
      BY <2>1, <2>2, <2>3, <2>4
    <3>2. QED
      BY <2>4, <3>1 DEF Returning, Holders
  <2>9. ASSUME NEW j \in Ids, j # i
        PROVE  Returning(j)' <=> Returning(j)
    <3>1. ASSUME Returning(j)'
          PROVE  Returning(j)
      <4>1. PICK h \in Holders : \E m \in DOMAIN PacketsOf(h)' : PacketsOf(h)'[m].id = j
        BY <3>1 DEF Returning, Holders
      <4>2. PICK m \in DOMAIN PacketsOf(h)' : PacketsOf(h)'[m].id = j
        BY <4>1
      <4>3. m \in DOMAIN PacketsOf(h) /\ PacketsOf(h)[m].id = j
        BY <2>6, <2>9, <4>2
      <4>4. QED
        BY <4>3 DEF Returning
    <3>2. ASSUME Returning(j)
          PROVE  Returning(j)'
      <4>1. PICK h \in Holders : \E m \in DOMAIN PacketsOf(h) : PacketsOf(h)[m].id = j
        BY <3>2 DEF Returning
      <4>2. PICK m \in DOMAIN PacketsOf(h) : PacketsOf(h)[m].id = j
        BY <4>1
      <4>3. m \in DOMAIN PacketsOf(h)' /\ PacketsOf(h)'[m] = PacketsOf(h)[m]
        <5>1. CASE h = NoThread
          <6>1. m \in 1..N /\ m \in 1..(N + 1)
            BY <2>2, <2>4, <5>1
          <6>2. QED
            BY <2>3, <2>4, <5>1, <6>1
        <5>2. CASE h # NoThread
          BY <2>4, <5>2
        <5>3. QED
          BY <5>1, <5>2
      <4>4. QED
        BY <4>2, <4>3 DEF Returning, Holders
    <3>3. QED
      BY <3>1, <3>2
  <2>10. Owned'
    BY <1>1, <1>2, <1>3, <1>4, <2>8, <2>9, OwnedNext
  <2>11. QED
    BY <1>3, <1>5, <1>7, <2>7, <2>10 DEF OneReference, Unique, Owned, Taken
<1>8. QED
  BY <1>6, <1>7

(* The end of the completion port, and of the port. *)
LEMMA ReferenceClose ==
  ASSUME TypeOK, OneReference, NEW t \in Threads, PortClose(t)
  PROVE  OneReference'
<1>1. Unique /\ Owned /\ Taken
  BY OneReferenceParts
<1>2. iocp' = <<>> /\ port' = "closed" /\ UNCHANGED <<socks, op, taken>>
  BY DEF PortClose, sets, local
<1>3. /\ PacketsOf(NoThread)' = <<>>
      /\ \A h \in Holders : h # NoThread => PacketsOf(h)' = PacketsOf(h)
      /\ \A h \in Holders : \A m \in DOMAIN PacketsOf(h) : m \in Int
  BY <1>2, HoldersFacts
<1>4. \A h \in Holders : \A m \in DOMAIN PacketsOf(h)' :
         h # NoThread /\ m \in DOMAIN PacketsOf(h) /\ PacketsOf(h)'[m] = PacketsOf(h)[m]
  BY <1>3
<1>5. Unique' /\ \A i \in Ids : Returning(i)' => Returning(i)
  BY <1>1, <1>4 DEF Unique, Returning, Holders
<1>6. Owned'
  BY <1>1, <1>2, <1>5 DEF Owned, Allocated
<1>7. Taken'
  <2>1. pc[t] = "close" /\ pc'[t] = "destroy" /\ \A u \in Threads : u # t => pc'[u] = pc[u]
    BY Moves DEF PortClose, Labels, Closing
  <2>2. QED
    BY <1>1, <1>2, <2>1 DEF Taken
<1>8. QED
  BY <1>2, <1>5, <1>6, <1>7 DEF OneReference, Unique, Owned, Taken

LEMMA ReferenceDelete ==
  ASSUME TypeOK, Counted, ClosedOnce, OneReference, NEW t \in Threads, PortDelete(t)
  PROVE  OneReference'
<1>1. Unique /\ Owned /\ Taken /\ (port # "open" => iocp = <<>>)
  BY OneReferenceParts
<1>2. port = "closed" /\ refs = 0
  BY DEF PortDelete, ClosedOnce
<1>3. \A u \in Threads : pc[u] \notin Calling
  BY <1>2, Present
<1>4. \A u \in Threads : taken[u] = <<>>
  BY <1>1, <1>3 DEF Taken, Calling, InCall, InPoll, InLock
<1>5. iocp' = <<>> /\ taken' = taken /\ op' = [i \in Ids |-> "none"] /\ socks' = [i \in Ids |-> FREE]
      /\ port' = "deleted"
  BY <1>1, <1>2 DEF PortDelete, local
<1>6. \A h \in Holders : PacketsOf(h)' = <<>>
  BY <1>4, <1>5, HoldersFacts
<1>7. Unique' /\ \A i \in Ids : ~Returning(i)'
  BY <1>6 DEF Unique, Returning, Holders
<1>8. Owned'
  BY <1>5, <1>7 DEF Owned
<1>9. Taken'
  BY <1>4, <1>5 DEF Taken
<1>10. QED
  BY <1>5, <1>7, <1>8, <1>9 DEF OneReference, Unique, Owned, Taken

-----------------------------------------------------------------------------
(* The whole invariant. *)
OpStates == {"none", "polling", "cancelled"}

Sets ==
    /\ socks \in [Ids -> SockState \cup {FREE}] /\ op \in [Ids -> OpStates]
    /\ SetsTyped /\ poll_group_queue \in Seq(GroupType)
    /\ Reachable /\ GroupsSorted

Effect(i) ==
    \/ Freed(i) \/ PutOff(i) \/ Polled(i) \/ Withdrawn(i) \/ Passed(i) \/ Requeued(i)
    \/ Added(i) \/ Modified(i)

LEMMA SetsEffect ==
  ASSUME TypeOK, Reachable, GroupsSorted, NEW i \in Ids, Domains, Effect(i)
  PROVE  Sets'
<1>1. Reachable' /\ SetsTyped'
  BY ReachableLeaves, ReachableStays, ReachableAdded DEF Effect
<1>2. GroupsSorted' /\ poll_group_queue' \in Seq(GroupType)
  <2>1. CASE Freed(i)
    BY <2>1, GroupsFreed
  <2>2. CASE Added(i)
    BY <2>2, GroupsAdded
  <2>3. CASE ~Freed(i) /\ ~Added(i)
    <3>1. (Kept(i) \/ UNCHANGED socks) /\ UNCHANGED poll_group_queue
      BY <2>3 DEF Effect, PutOff, Polled, Withdrawn, Passed, Requeued, Modified
    <3>2. QED
      BY <3>1, GroupsKept
  <2>4. QED
    BY <2>1, <2>2, <2>3
<1>3. \A j \in Ids : socks[j] \in SockState \cup {FREE} /\ op[j] \in OpStates
  BY DEF TypeOK, OpStates
<1>4. socks'[i] \in SockState \cup {FREE} /\ op'[i] \in OpStates
  BY <1>3 DEF Effect, Freed, PutOff, Polled, Withdrawn, Passed, Requeued, Added, Modified, Kept,
              OpStates
<1>5. \A j \in Ids : j # i => socks'[j] = socks[j] /\ op'[j] = op[j]
  BY DEF Effect, Freed, PutOff, Polled, Withdrawn, Passed, Requeued, Added, Modified, Kept, Others
<1>6. \A j \in Ids : socks'[j] \in SockState \cup {FREE} /\ op'[j] \in OpStates
  BY <1>3, <1>4, <1>5
<1>7. socks' = [j \in Ids |-> socks'[j]] /\ op' = [j \in Ids |-> op'[j]]
  BY DEF Domains
<1>8. QED
  BY <1>1, <1>2, <1>6, <1>7 DEF Sets

LEMMA SetsUnchanged ==
  ASSUME TypeOK, Reachable, GroupsSorted, UNCHANGED <<sets, op>>
  PROVE  Sets'
<1>1. UNCHANGED <<socks, sock_tree, sock_update_queue, sock_deleted_queue, poll_group_queue, op>>
  BY DEF sets, queues
<1>2. Sets
  BY DEF TypeOK, Sets, SetsTyped, OpStates, GroupType
<1>3. Reachable' /\ GroupsSorted'
  BY <1>1 DEF Reachable, GroupsSorted, Live, Allocated, Members
<1>4. QED
  BY <1>1, <1>2, <1>3 DEF Sets, SetsTyped

(* Steps of threads and of the world that touch neither sockets nor packets. *)
Quiet == UNCHANGED <<sets, op, iocp, taken, port>> /\ Taken'

LEMMA QuietSteps ==
  ASSUME TypeOK, OneReference, [Next]_vars
  PROVE  \/ Quiet
         \/ \E t \in Threads :
               \/ UpdateEvents(t) \/ Feed(t) \/ Dequeue(t) \/ PortClose(t) \/ PortDelete(t)
               \/ \E s \in Socks, ask \in Asks : CtlAdd(t, s, ask[1], ask[2])
               \/ \E s \in Changing :
                     \/ CtlAddAgain(t, s) \/ CtlDel(t, s)
                     \/ \E ask \in Asks : CtlMod(t, s, ask[1], ask[2])
         \/ \E i \in Ids : Kernel(i)
<1>1. Taken
  BY OneReferenceParts
<1>2. ASSUME NEW t \in Threads, NEW l \in Labels, Goto(t, l), UNCHANGED taken,
             pc[t] \in {"fed", "feed"} /\ l \notin {"fed", "feed"} => taken[t] = <<>>
      PROVE  Taken'
  BY <1>1, <1>2, Moves DEF Taken
<1>3. ASSUME NEW t \in Threads, NEW call \in {"ctl", "wait"}, FindAndRef(t, call)
      PROVE  Quiet
  BY <1>2, <1>3 DEF FindAndRef, Quiet, kernel, Labels, InCall
<1>4. ASSUME NEW t \in Threads, Unref(t)
      PROVE  Quiet
  BY <1>2, <1>4 DEF Unref, Quiet, kernel, Labels
<1>5. ASSUME NEW t \in Threads, EnterWait(t)
      PROVE  Quiet
  BY <1>2, <1>5 DEF EnterWait, Enter, Quiet, kernel, local, Labels, InCall, InLock
<1>6. ASSUME NEW t \in Threads, CtlFails(t)
      PROVE  Quiet
  BY <1>2, <1>6 DEF CtlFails, Leave, Quiet, kernel, local, Labels, InCall
<1>7. ASSUME NEW t \in Threads, Updated(t)
      PROVE  Quiet
  BY <1>2, <1>7 DEF Updated, Leave, Quiet, kernel, local, Labels, InCall, InPoll
<1>8. ASSUME NEW t \in Threads, DequeueFails(t)
      PROVE  Quiet
  BY <1>2, <1>8 DEF DequeueFails, Quiet, kernel, local, Labels, InCall, InPoll
<1>9. ASSUME NEW t \in Threads, BackInLock(t)
      PROVE  Quiet
  BY <1>2, <1>9 DEF BackInLock, Enter, Quiet, kernel, local, Labels, InCall, InLock
<1>10. ASSUME NEW t \in Threads, PollAgain(t)
       PROVE  Quiet
  BY <1>2, <1>10 DEF PollAgain, Quiet, kernel, local, Labels, InCall, InLock
<1>11. ASSUME NEW t \in Threads, WaitReturns(t)
       PROVE  Quiet
  BY <1>2, <1>11 DEF WaitReturns, UpdateIfPolling, Quiet, kernel, local, Labels, InCall, InLock
<1>12. ASSUME NEW t \in Threads, WaitFails(t)
       PROVE  Quiet
  BY <1>2, <1>12 DEF WaitFails, Quiet, kernel, local, Labels, InCall, InLock
<1>13. ASSUME NEW t \in Threads, DelAndRef(t)
       PROVE  Quiet
  BY <1>2, <1>13 DEF DelAndRef, Quiet, kernel, local, Labels, Closing
<1>14. ASSUME NEW t \in Threads, UnrefAndDestroy(t) \/ AwaitEvent(t)
       PROVE  Quiet
  BY <1>2, <1>14 DEF UnrefAndDestroy, AwaitEvent, Quiet, kernel, local, Labels, Closing
<1>15. ASSUME NEW s \in Socks, CloseSocket(s) \/ \E events \in SUBSET Events : ChangeReady(s, events)
       PROVE  Quiet
  BY <1>1, <1>15 DEF CloseSocket, ChangeReady, Quiet, local, Taken
<1>16. ASSUME UNCHANGED vars
       PROVE  Quiet
  BY <1>1, <1>16 DEF vars, Quiet, kernel, local, Taken
<1>17. QED
  BY <1>3, <1>4, <1>5, <1>6, <1>7, <1>8, <1>9, <1>10, <1>11, <1>12, <1>13, <1>14, <1>15, <1>16
     DEF Next, EnterLock, Running, Done

LEMMA HeadQueued ==
  ASSUME TypeOK, Reachable, sock_update_queue # <<>>
  PROVE  Head(sock_update_queue) \in Ids /\ Live(Head(sock_update_queue))
<1>1. /\ sock_update_queue \in Seq(Ids) /\ Len(sock_update_queue) \in Nat \ {0}
      /\ Head(sock_update_queue) = sock_update_queue[1]
  BY DEF TypeOK
<1>2. Contains(sock_update_queue, Head(sock_update_queue)) /\ Head(sock_update_queue) \in Ids
  BY <1>1 DEF Contains
<1>3. QED
  BY <1>2, ReachableFacts

(* What a call of epoll_ctl or of a round of port__update_events does. *)
LEMMA CallEffect ==
  ASSUME TypeOK, Reachable, GroupsSorted, NEW t \in Threads,
         \/ UpdateEvents(t)
         \/ \E s \in Socks, ask \in Asks : CtlAdd(t, s, ask[1], ask[2])
         \/ \E s \in Socks : CtlDel(t, s) \/ \E ask \in Asks : CtlMod(t, s, ask[1], ask[2])
  PROVE  \E i \in Ids :
            /\ Domains
            /\ \/ Freed(i) /\ socks[i].status = "idle"
               \/ PutOff(i) \/ Polled(i) \/ Withdrawn(i) \/ Passed(i) \/ Added(i) \/ Modified(i)
<1>1. CASE UpdateEvents(t)
  <2>1. Head(sock_update_queue) \in Ids /\ Live(Head(sock_update_queue))
    BY <1>1, HeadQueued DEF UpdateEvents
  <2>2. QED
    BY <1>1, <2>1, UpdateEffect DEF UpdateEvents
<1>2. ASSUME NEW s \in Socks, NEW ask \in Asks, CtlAdd(t, s, ask[1], ask[2])
      PROVE  \E i \in Ids : Domains /\ Added(i)
  <2>1. Acquired(poll_group_queue).id \in Groups
    BY GroupsWell, AcquireWell
  <2>2. QED
    BY <1>2, <2>1, AddEffect
<1>3. ASSUME NEW s \in Socks, CtlDel(t, s)
      PROVE  \E i \in Ids : Domains /\ (PutOff(i) \/ (Freed(i) /\ socks[i].status = "idle"))
  <2>1. PICK i \in Ids : i = sock_tree[s]
    BY <1>3 DEF CtlDel, TypeOK
  <2>2. Live(i) /\ Allocated(i) /\ SockDelete(i, socks[i].status)
    BY <1>3, <2>1 DEF CtlDel, Reachable, Live
  <2>3. CASE socks[i].status = "idle"
    BY <2>2, <2>3, FreedEffect
  <2>4. CASE socks[i].status # "idle"
    <3>1. i \in Ids /\ Live(i) /\ socks[i].status # "idle" /\ SockDelete(i, socks[i].status)
      BY <2>2, <2>4
    <3>2. PutOff(i) /\ Domains
      BY ONLY TypeOK, <3>1, PutOffEffect
    <3>3. QED
      BY <3>2
  <2>5. QED
    BY <2>3, <2>4
<1>4. ASSUME NEW s \in Socks, NEW ask \in Asks, CtlMod(t, s, ask[1], ask[2])
      PROVE  \E i \in Ids : Domains /\ Modified(i)
  BY <1>4, ModEffect
<1>5. QED
  BY <1>1, <1>2, <1>3, <1>4

LEMMA DeleteSets ==
  ASSUME TypeOK, NEW t \in Threads, PortDelete(t)
  PROVE  Sets'
<1>1. /\ socks' = [i \in Ids |-> FREE] /\ op' = [i \in Ids |-> "none"]
      /\ sock_tree' = [s \in Socks |-> 0]
      /\ sock_update_queue' = <<>> /\ sock_deleted_queue' = {} /\ poll_group_queue' = <<>>
  BY DEF PortDelete
<1>2. \A i \in Ids : i # 0 /\ ~Allocated(i)' /\ ~Live(i)'
  BY <1>1, AllocatedFields, LiveNext
<1>3. Reachable'
  <2>1. ToSet(<<>>) = {} /\ IsInjective(<<>>)
    BY DEF ToSet, IsInjective
  <2>2. QED
    BY <1>1, <1>2, <2>1 DEF Reachable
<1>4. GroupsSorted'
  BY <1>1, <1>2 DEF GroupsSorted
<1>5. QED
  BY <1>1, <1>3, <1>4 DEF Sets, SetsTyped, OpStates

LEMMA SetsStep ==
  ASSUME MemorySafe, [Next]_vars
  PROVE  Sets'
<1>1. TypeOK /\ Counted /\ ClosedOnce /\ Reachable /\ GroupsSorted /\ OneReference
  BY DEF MemorySafe
<1>2. CASE Quiet
  BY <1>1, <1>2, SetsUnchanged DEF Quiet
<1>3. ASSUME NEW t \in Threads,
             \/ UpdateEvents(t)
             \/ \E s \in Socks, ask \in Asks : CtlAdd(t, s, ask[1], ask[2])
             \/ \E s \in Socks : CtlDel(t, s) \/ \E ask \in Asks : CtlMod(t, s, ask[1], ask[2])
      PROVE  Sets'
  <2>1. \E i \in Ids : Domains /\ Effect(i)
    BY <1>1, <1>3, CallEffect DEF Effect
  <2>2. QED
    BY <1>1, <2>1, SetsEffect
<1>4. ASSUME NEW t \in Threads, Feed(t)
      PROVE  Sets'
  <2>1. \E i \in Ids : Domains /\ Effect(i)
    BY <1>1, <1>4, ReferenceFeed DEF Effect
  <2>2. QED
    BY <1>1, <2>1, SetsEffect
<1>5. ASSUME NEW t \in Threads, Dequeue(t) \/ PortClose(t)
      PROVE  Sets'
  BY <1>1, <1>5, SetsUnchanged DEF Dequeue, PortClose
<1>6. ASSUME NEW t \in Threads, PortDelete(t)
      PROVE  Sets'
  BY <1>1, <1>6, DeleteSets
<1>7. ASSUME NEW t \in Threads, NEW s \in Socks, CtlAddAgain(t, s)
      PROVE  Sets'
  <2>1. /\ UNCHANGED <<socks, sock_tree, sock_update_queue, sock_deleted_queue, op>>
        /\ poll_group_queue' = QueueAfterRelease(QueueAfterAcquire(poll_group_queue),
                                                 Acquired(poll_group_queue).id)
    BY <1>7 DEF CtlAddAgain, kernel
  <2>2. GroupsSorted' /\ poll_group_queue' \in Seq(GroupType)
    BY <1>1, <2>1, GroupsAddedAgain
  <2>3. Reachable'
    BY <1>1, <2>1 DEF Reachable, Live, Allocated
  <2>4. QED
    BY <1>1, <2>1, <2>2, <2>3 DEF Sets, SetsTyped, OpStates, TypeOK
<1>8. ASSUME NEW i \in Ids, Kernel(i)
      PROVE  Sets'
  <2>1. UNCHANGED sets /\ op' = [op EXCEPT ![i] = "none"]
    BY <1>8 DEF Kernel, EventOccurs, SocketClosed, Cancelled, Complete
  <2>2. UNCHANGED <<socks, sock_tree, sock_update_queue, sock_deleted_queue, poll_group_queue>>
    BY <2>1 DEF sets, queues
  <2>3. Reachable' /\ GroupsSorted'
    BY <1>1, <2>2 DEF Reachable, GroupsSorted, Live, Allocated, Members
  <2>4. QED
    BY <1>1, <2>1, <2>2, <2>3 DEF Sets, SetsTyped, OpStates, GroupType, TypeOK
<1>9. QED
  BY <1>1, <1>2, <1>3, <1>4, <1>5, <1>6, <1>7, <1>8, QuietSteps, WepollAssumption

LEMMA ReferenceStep ==
  ASSUME MemorySafe, [Next]_vars
  PROVE  OneReference'
<1>1. TypeOK /\ Counted /\ ClosedOnce /\ Reachable /\ GroupsSorted /\ OneReference
  BY DEF MemorySafe
<1>2. Unique /\ Owned /\ Taken /\ (port # "open" => iocp = <<>>)
  BY <1>1, OneReferenceParts
<1>3. SUFFICES \/ OneReference'
               \/ Unique' /\ Owned' /\ Taken' /\ (port' # "open" => iocp' = <<>>)
  BY DEF OneReference, Unique, Owned, Taken
<1>4. CASE Quiet
  <2>1. UNCHANGED <<socks, op, iocp, taken, port>> /\ Taken'
    BY <1>4 DEF Quiet, sets
  <2>2. Unique' /\ \A i \in Ids : Returning(i)' <=> Returning(i)
    BY <1>2, <2>1, SamePackets
  <2>3. QED
    BY <1>2, <2>1, <2>2 DEF Owned, Allocated
<1>5. ASSUME NEW t \in Threads,
             \/ UpdateEvents(t)
             \/ \E s \in Socks, ask \in Asks : CtlAdd(t, s, ask[1], ask[2])
             \/ \E s \in Socks : CtlDel(t, s) \/ \E ask \in Asks : CtlMod(t, s, ask[1], ask[2])
      PROVE  Unique' /\ Owned' /\ Taken' /\ (port' # "open" => iocp' = <<>>)
  <2>1. UNCHANGED <<iocp, taken, port>>
    BY <1>5 DEF UpdateEvents, CtlAdd, CtlDel, CtlMod, Ctl, local
  <2>2. Unique' /\ Owned' /\ (port' # "open" => iocp' = <<>>)
    BY <1>1, <1>5, <2>1, CallEffect, OwnedEffect
  <2>3. Taken'
    <3>1. CASE UNCHANGED pc
      BY <1>2, <2>1, <3>1 DEF Taken
    <3>2. CASE pc[t] = "ctl" /\ \E l \in {"unref", "ctl_update"} : Goto(t, l)
      BY <1>1, <1>2, <2>1, <3>2, Moves DEF Taken, Labels, InCall, InLock
    <3>3. QED
      BY <1>5, <3>1, <3>2 DEF UpdateEvents, CtlAdd, CtlDel, CtlMod, Ctl, Leave, UpdateIfPolling
  <2>4. QED
    BY <2>2, <2>3
<1>6. ASSUME NEW t \in Threads, Feed(t) \/ Dequeue(t) \/ PortClose(t) \/ PortDelete(t)
      PROVE  OneReference'
  BY <1>1, <1>6, ReferenceFeed, ReferenceDequeue, ReferenceClose, ReferenceDelete
<1>7. ASSUME NEW t \in Threads, NEW s \in Socks, CtlAddAgain(t, s)
      PROVE  Unique' /\ Owned' /\ Taken' /\ (port' # "open" => iocp' = <<>>)
  <2>1. UNCHANGED <<socks, op, iocp, taken, port>> /\ pc[t] = "ctl" /\ Goto(t, "unref")
    BY <1>7 DEF CtlAddAgain, kernel, local, Leave
  <2>2. Unique' /\ \A i \in Ids : Returning(i)' <=> Returning(i)
    BY <1>2, <2>1, SamePackets
  <2>3. Taken'
    BY <1>1, <1>2, <2>1, Moves DEF Taken, Labels, InCall
  <2>4. QED
    BY <1>2, <2>1, <2>2, <2>3 DEF Owned, Allocated
<1>8. ASSUME NEW i \in Ids, Kernel(i)
      PROVE  OneReference'
  <2>1. op[i] # "none" /\ \E how, events : Complete(i, how, events)
    BY <1>8 DEF Kernel, EventOccurs, SocketClosed, Cancelled
  <2>2. QED
    BY <1>1, <2>1, ReferenceComplete
<1>9. QED
  BY <1>1, <1>4, <1>5, <1>6, <1>7, <1>8, QuietSteps, WepollAssumption

RestTyped ==
    /\ port \in {"open", "closed", "deleted"}
    /\ registered \in BOOLEAN /\ destroy \in BOOLEAN /\ signal \in BOOLEAN
    /\ lock \in Threads \cup {NoThread}
    /\ iocp \in Seq(Packets)
    /\ ready \in [Socks -> SUBSET Known] /\ closed \in SUBSET Socks
    /\ pc \in [Threads -> Labels]
    /\ taken \in [Threads -> Seq(Packets)] /\ found \in [Threads -> SUBSET Socks]
    /\ ctls \in 0..MaxCtl

LEMMA TypedParts ==
  TypeOK <=> /\ RestTyped /\ refs \in Nat /\ active_poll_count \in Nat
             /\ socks \in [Ids -> SockState \cup {FREE}] /\ op \in [Ids -> OpStates]
             /\ SetsTyped /\ poll_group_queue \in Seq(GroupType)
BY DEF TypeOK, RestTyped, SetsTyped, OpStates, GroupType, Labels

(* What the steps of one thread leave alone. *)
LEMMA RestUnchanged ==
  ASSUME RestTyped, port' \in {"open", "closed", "deleted"},
         registered' \in BOOLEAN, destroy' \in BOOLEAN, signal' \in BOOLEAN,
         lock' \in Threads \cup {NoThread}, iocp' \in Seq(Packets),
         UNCHANGED <<ready, closed>>, pc' \in [Threads -> Labels],
         taken' \in [Threads -> Seq(Packets)], found' \in [Threads -> SUBSET Socks],
         ctls' \in 0..MaxCtl
  PROVE  RestTyped'
BY DEF RestTyped

LEMMA RestStep ==
  ASSUME MemorySafe, [Next]_vars
  PROVE  RestTyped'
<1>1. TypeOK /\ Counted /\ ClosedOnce /\ Reachable /\ GroupsSorted /\ OneReference /\ RestTyped
  BY TypedParts DEF MemorySafe
<1>2. /\ pc \in [Threads -> Labels]
      /\ port \in {"open", "closed", "deleted"}
      /\ registered \in BOOLEAN /\ destroy \in BOOLEAN /\ signal \in BOOLEAN
      /\ lock \in Threads \cup {NoThread} /\ iocp \in Seq(Packets)
      /\ taken \in [Threads -> Seq(Packets)] /\ found \in [Threads -> SUBSET Socks]
      /\ ctls \in 0..MaxCtl
  BY <1>1 DEF RestTyped
<1>3. ASSUME NEW t \in Threads, EnterLock(t)
      PROVE  RestTyped'
  <2>1. \E l \in Labels : Goto(t, l)
    BY <1>3 DEF EnterLock, EnterWait, BackInLock, WaitFails, CtlFails, PortClose, Enter, Leave,
                Labels, InCall, InPoll, InLock, Closing
  <2>2. pc' \in [Threads -> Labels]
    BY <1>1, <2>1, Moves
  <2>3. /\ UNCHANGED <<reflock, ready, closed, local>>
        /\ port' \in {port, "closed"} /\ lock' \in {lock, t, NoThread}
        /\ iocp' \in {iocp, <<>>}
    BY <1>3 DEF EnterLock, EnterWait, BackInLock, WaitFails, CtlFails, PortClose, Enter, Leave, kernel
  <2>4. <<>> \in Seq(Packets)
    OBVIOUS
  <2>5. QED
    BY <1>1, <1>2, <2>2, <2>3, <2>4, RestUnchanged DEF reflock, local
<1>4. ASSUME NEW t \in Threads, Unref(t) \/ Updated(t) \/ PollAgain(t) \/ WaitReturns(t) \/ DequeueFails(t)
      PROVE  RestTyped'
  <2>1. \E l \in Labels : Goto(t, l)
    BY <1>4 DEF Unref, Updated, PollAgain, WaitReturns, DequeueFails, UpdateIfPolling, Leave,
                Labels, InCall, InPoll, InLock
  <2>2. pc' \in [Threads -> Labels]
    BY <1>1, <2>1, Moves
  <2>3. /\ UNCHANGED <<port, registered, destroy, iocp, ready, closed, taken, ctls>>
        /\ lock' \in {lock, t, NoThread}
        /\ signal' \in BOOLEAN /\ (found' = found \/ found' = [found EXCEPT ![t] = {}])
    BY <1>2, <1>4 DEF Unref, Updated, PollAgain, WaitReturns, DequeueFails, UpdateIfPolling, Leave,
                      reflock, kernel, local
  <2>4. [found EXCEPT ![t] = {}] \in [Threads -> SUBSET Socks]
    BY <1>2
  <2>5. QED
    BY <1>1, <1>2, <2>2, <2>3, <2>4, RestUnchanged
<1>5. ASSUME NEW t \in Threads, UnrefAndDestroy(t) \/ AwaitEvent(t) \/ PortDelete(t) \/ DelAndRef(t)
      PROVE  RestTyped'
  <2>1. \E l \in Labels : Goto(t, l)
    BY <1>5 DEF UnrefAndDestroy, AwaitEvent, PortDelete, DelAndRef, Labels, Closing
  <2>2. pc' \in [Threads -> Labels]
    BY <1>1, <2>1, Moves
  <2>3. /\ UNCHANGED <<signal, lock, iocp, ready, closed, local>>
        /\ port' \in {port, "deleted"} /\ registered' \in {registered, FALSE}
        /\ destroy' \in {destroy, TRUE}
    BY <1>5 DEF UnrefAndDestroy, AwaitEvent, PortDelete, DelAndRef, reflock, kernel
  <2>4. QED
    BY <1>1, <1>2, <2>2, <2>3, RestUnchanged DEF local
<1>6. ASSUME NEW t \in Threads, NEW call \in {"ctl", "wait"}, FindAndRef(t, call)
      PROVE  RestTyped'
  <2>1. pc' \in [Threads -> Labels]
    BY <1>1, <1>6, Moves DEF FindAndRef, Labels, InCall
  <2>2. /\ UNCHANGED <<port, registered, destroy, signal, lock, iocp, ready, closed, taken, found>>
        /\ ctls' \in {ctls, ctls + 1} /\ (ctls' = ctls + 1 => ctls < MaxCtl)
    BY <1>6 DEF FindAndRef, kernel
  <2>3. ctls' \in 0..MaxCtl
    BY <1>2, <2>2, WepollAssumption
  <2>4. QED
    BY <1>1, <1>2, <2>1, <2>2, <2>3, RestUnchanged
<1>7. ASSUME NEW t \in Threads,
             \/ UpdateEvents(t)
             \/ \E s \in Socks, ask \in Asks : CtlAdd(t, s, ask[1], ask[2])
             \/ \E s \in Changing : \/ CtlAddAgain(t, s) \/ CtlDel(t, s)
                                    \/ \E ask \in Asks : CtlMod(t, s, ask[1], ask[2])
      PROVE  RestTyped'
  <2>1. /\ UNCHANGED <<port, reflock, iocp, ready, closed, local>>
        /\ lock' \in {lock, t, NoThread}
        /\ UNCHANGED pc \/ \E l \in Labels : Goto(t, l)
    BY <1>7 DEF UpdateEvents, CtlAdd, CtlAddAgain, CtlDel, CtlMod, Ctl, Leave, UpdateIfPolling,
                kernel, Labels, InCall, InLock
  <2>2. pc' \in [Threads -> Labels]
    BY <1>1, <1>2, <2>1, Moves
  <2>3. QED
    BY <1>1, <1>2, <2>1, <2>2, RestUnchanged DEF reflock, local
<1>8. ASSUME NEW t \in Threads, Dequeue(t)
      PROVE  RestTyped'
  <2>1. pc' \in [Threads -> Labels]
    BY <1>1, <1>8, Moves DEF Dequeue, Labels, InCall, InPoll
  <2>2. PICK n \in Nat : /\ n <= Len(iocp)
                         /\ taken' = [taken EXCEPT ![t] = SubSeq(iocp, 1, n)]
                         /\ iocp' = SubSeq(iocp, n + 1, Len(iocp))
    <3>1. Len(iocp) \in Nat /\ MaxEvents \in Nat
      BY <1>2, WepollAssumption
    <3> DEFINE n == IF Len(iocp) < MaxEvents THEN Len(iocp) ELSE MaxEvents
    <3>2. n \in Nat /\ n <= Len(iocp)
      BY <3>1
    <3>3. QED
      BY <1>8, <3>2 DEF Dequeue
  <2>3. Len(iocp) \in Nat /\ \A k \in 1..Len(iocp) : iocp[k] \in Packets
    BY <1>2
  <2>4. SubSeq(iocp, 1, n) \in Seq(Packets) /\ SubSeq(iocp, n + 1, Len(iocp)) \in Seq(Packets)
    BY <1>2, <2>2, <2>3, SubSeqProperties
  <2>5. UNCHANGED <<port, reflock, lock, ready, closed, found, ctls>>
    BY <1>8 DEF Dequeue
  <2>6. taken' \in [Threads -> Seq(Packets)] /\ iocp' \in Seq(Packets)
    BY <1>2, <2>2, <2>4
  <2>7. QED
    BY <1>1, <1>2, <2>1, <2>5, <2>6, RestUnchanged DEF reflock
<1>9. ASSUME NEW t \in Threads, Feed(t)
      PROVE  RestTyped'
  <2>1. /\ UNCHANGED <<port, reflock, lock, iocp, ready, closed, pc, ctls>>
        /\ taken' = [taken EXCEPT ![t] = Tail(@)]
    BY <1>9 DEF Feed
  <2>2. taken' \in [Threads -> Seq(Packets)]
    BY <1>1, <1>2, <1>9, <2>1, FeedPackets
  <2>3. PICK i \in Ids : Head(taken[t]).id = i /\ Returning(i)
    BY <1>1, <1>9, FeedPackets
  <2>4. socks[i].sock \in Socks
    BY <1>1, <2>3, AllocatedFields, SockFields DEF OneReference
  <2>5. found' \in [Threads -> SUBSET Socks]
    BY <1>2, <1>9, <2>3, <2>4 DEF Feed, FeedEvent
  <2>6. QED
    BY <1>1, <1>2, <2>1, <2>2, <2>5, RestUnchanged DEF reflock
<1>10. ASSUME NEW i \in Ids, Kernel(i)
       PROVE  RestTyped'
  <2>1. op[i] # "none"
    BY <1>10 DEF Kernel, EventOccurs, SocketClosed, Cancelled
  <2>2. socks[i] \in SockState
    BY <1>1, <2>1, AllocatedFields DEF OneReference
  <2>3. PICK how \in {"events", "cancelled", "closed"}, events \in SUBSET Known : Complete(i, how, events)
    <3>1. ready[socks[i].sock] \cap socks[i].pending_events \in SUBSET Known
      BY <2>2, SockFields
    <3>2. QED
      BY <1>10, <3>1 DEF Kernel, EventOccurs, SocketClosed, Cancelled
  <2>4. [id |-> i, how |-> how, events |-> events] \in Packets
    BY DEF Packets
  <2>5. iocp' \in Seq(Packets)
    BY <1>2, <2>3, <2>4, AppendProperties DEF Complete
  <2>6. UNCHANGED <<port, reflock, lock, ready, closed, pc, local>>
    BY <2>3 DEF Complete
  <2>7. QED
    BY <1>1, <1>2, <2>5, <2>6, RestUnchanged DEF reflock, local
<1>11. ASSUME NEW s \in Socks, CloseSocket(s) \/ \E events \in SUBSET Events : ChangeReady(s, events)
       PROVE  RestTyped'
  <2>1. /\ UNCHANGED <<port, reflock, lock, iocp, pc, local>>
        /\ closed' \in {closed, closed \cup {s}}
        /\ \E events \in SUBSET Known : ready' = [ready EXCEPT ![s] = events]
    BY <1>11 DEF CloseSocket, ChangeReady, Known
  <2>2. ready \in [Socks -> SUBSET Known] /\ closed \in SUBSET Socks
    BY <1>1 DEF RestTyped
  <2>3. ready' \in [Socks -> SUBSET Known] /\ closed' \in SUBSET Socks
    BY <2>1, <2>2
  <2>4. QED
    BY <1>2, <2>1, <2>3 DEF RestTyped, reflock, local
<1>12. CASE UNCHANGED vars
  BY <1>1, <1>12 DEF vars, reflock, kernel, local, RestTyped
<1>13. QED
  BY <1>3, <1>4, <1>5, <1>6, <1>7, <1>8, <1>9, <1>10, <1>11, <1>12 DEF Next, Running, Done

LEMMA MemorySafeStep ==
  MemorySafe /\ [Next]_vars => MemorySafe'
<1>1. SUFFICES ASSUME MemorySafe, [Next]_vars
               PROVE  MemorySafe'
  OBVIOUS
<1>2. Sets' /\ OneReference' /\ RestTyped'
  BY <1>1, SetsStep, ReferenceStep, RestStep
<1>3. Counted' /\ ClosedOnce'
  BY <1>1, ThreadsStep DEF MemorySafe
<1>4. refs' \in Nat /\ active_poll_count' \in Nat
  <2>1. \A S : S \subseteq Threads => Cardinality(S) \in Nat
    BY FS_Subset, FS_CardinalityType, WepollAssumption
  <2>2. Callers' \subseteq Threads /\ Pollers' \subseteq Threads
    BY DEF Callers, Pollers
  <2>3. QED
    BY <1>3, <2>1, <2>2 DEF Counted
<1>5. TypeOK'
  BY <1>2, <1>4, TypedParts DEF Sets, TypeOK, RestTyped, SetsTyped, OpStates, GroupType, Labels
<1>6. QED
  BY <1>2, <1>3, <1>5 DEF MemorySafe, Sets

LEMMA MemorySafeInit ==
  Init => MemorySafe
<1> SUFFICES ASSUME Init
             PROVE  MemorySafe
  OBVIOUS
<1> USE DEF Init
<1>2. TypeOK
  <2>1. Events \subseteq Known /\ MaxCtl \in Nat
    BY WepollAssumption DEF Known
  <2>2. RestTyped
    <3>1. PICK none \in Seq(Packets) : none = <<>>
      BY EmptySeq
    <3>2. iocp \in Seq(Packets) /\ taken \in [Threads -> Seq(Packets)]
      BY <3>1
    <3>3. ready \in [Socks -> SUBSET Known] /\ closed \in SUBSET Socks
      BY <2>1
    <3>4. pc \in [Threads -> Labels]
      BY DEF Labels
    <3>5. found \in [Threads -> SUBSET Socks] /\ ctls \in 0..MaxCtl
      BY <2>1
    <3>6. QED
      BY <3>2, <3>3, <3>4, <3>5 DEF RestTyped
  <2>3. socks \in [Ids -> SockState \cup {FREE}] /\ op \in [Ids -> OpStates]
    BY DEF OpStates
  <2>4. SetsTyped /\ poll_group_queue \in Seq(GroupType) /\ refs \in Nat /\ active_poll_count \in Nat
    BY DEF SetsTyped
  <2>5. QED
    BY <2>2, <2>3, <2>4, TypedParts
<1>3. Counted
  <2>1. Callers = {} /\ Pollers = {}
    BY DEF Callers, Pollers, InCall, InPoll, InLock
  <2>2. \A t \in Threads : pc[t] \notin InLock /\ lock # t
    BY WepollAssumption DEF InLock
  <2>3. QED
    BY <2>1, <2>2, FS_EmptySet DEF Counted
<1>4. ClosedOnce
  BY DEF ClosedOnce, Closing
<1>5. \A i \in Ids : i # 0 /\ ~Allocated(i) /\ ~Live(i)
  BY <1>2, AllocatedFields DEF Allocated, Live
<1>6. Reachable
  <2>1. ToSet(<<>>) = {} /\ IsInjective(<<>>)
    BY DEF ToSet, IsInjective
  <2>2. QED
    BY <1>5, <2>1 DEF Reachable
<1>7. GroupsSorted
  BY <1>5 DEF GroupsSorted
<1>8. OneReference
  <2>1. \A h \in Holders : PacketsOf(h) = <<>>
    BY DEF Holders, PacketsOf
  <2>2. QED
    BY <1>5, <2>1 DEF OneReference, Returning
<1>9. QED
  BY <1>2, <1>3, <1>4, <1>6, <1>7, <1>8 DEF MemorySafe

(* No packet and no request of the kernel refers to memory that is gone or  *)
(* to a sock_state that another one is for; the port goes when nobody is in *)
(* a call; the counts of calls, waiting threads and groups are right.       *)
THEOREM Memory == SafetySpec => []MemorySafe
<1>1. Init => MemorySafe
  BY MemorySafeInit
<1>2. MemorySafe /\ [Next]_vars => MemorySafe'
  BY MemorySafeStep
<1>3. QED
  BY <1>1, <1>2, PTL DEF SafetySpec

-----------------------------------------------------------------------------
(* The requests of the sockets that are watched. *)

(* Outside of the critical section the update queue is empty while a thread *)
(* waits; a request covers what is asked for unless its socket is queued.   *)
QueueServed ==
    active_poll_count > 0 /\ lock = NoThread => \A i \in Ids : ~Contains(sock_update_queue, i)

Requested(i) ==
    Allocated(i) =>
        /\ socks[i].status = "pending" => op[i] # "cancelled"
        /\ socks[i].status = "cancelled" => op[i] # "polling"
        /\ socks[i].status = "pending" /\ ~Contains(sock_update_queue, i) =>
              socks[i].user_events \subseteq socks[i].pending_events

Watched == QueueServed /\ \A i \in Ids : Requested(i)

LEMMA ArmedByWatched ==
  MemorySafe /\ Watched => Armed
<1>1. SUFFICES ASSUME MemorySafe, Watched, active_poll_count > 0, lock = NoThread, port = "open",
                      NEW i \in Ids, Allocated(i), op[i] # "cancelled", ~Returning(i)
               PROVE  op[i] = "polling" /\ socks[i].user_events \subseteq socks[i].pending_events
  BY DEF Armed
<1>2. TypeOK /\ Reachable /\ OneReference
  BY <1>1 DEF MemorySafe
<1>3. ~Contains(sock_update_queue, i)
  BY <1>1 DEF Watched, QueueServed
<1>4. socks[i].status # "idle"
  BY <1>1, <1>2, <1>3, ReachableFacts
<1>5. op[i] = "polling"
  BY <1>1, <1>2, <1>4 DEF OneReference, TypeOK
<1>6. socks[i].status = "pending"
  BY <1>1, <1>2, <1>4, <1>5, AllocatedFields, SockFields DEF Watched, Requested
<1>7. QED
  BY <1>1, <1>3, <1>5, <1>6 DEF Watched, Requested

LEMMA RequestedEffect ==
  ASSUME TypeOK, Reachable, Watched, NEW i \in Ids, Effect(i)
  PROVE  \A j \in Ids : Requested(j)'
<1>1. \A j \in Ids : j # i => socks'[j] = socks[j] /\ op'[j] = op[j]
  BY DEF Effect, Freed, PutOff, Polled, Withdrawn, Passed, Requeued, Added, Modified, Kept, Others
<1>2. \/ Unqueue(i) \/ UNCHANGED sock_update_queue \/ RequestUpdate(i)
  BY DEF Effect, Freed, PutOff, Polled, Withdrawn, Passed, Requeued, Added, Modified
<1>3. sock_update_queue \in Seq(Ids) /\ IsInjective(sock_update_queue)
  BY DEF TypeOK, Reachable
<1>4. \A j \in Ids : j # i => (Contains(sock_update_queue', j) <=> Contains(sock_update_queue, j))
  BY <1>2, <1>3, UnqueueProperties, RequestUpdateProperties
<1>5. \A j \in Ids : Requested(j)
  BY DEF Watched
<1>6. ASSUME NEW j \in Ids, j # i
      PROVE  Requested(j)'
  BY <1>1, <1>4, <1>5, <1>6 DEF Requested, Allocated
<1>7. Requested(i)'
  <2>1. CASE Freed(i)
    BY <2>1 DEF Freed, Requested, Allocated
  <2>2. CASE PutOff(i)
    BY <1>5, <2>2, AllocatedFields, SockFields DEF PutOff, Requested, Live
  <2>3. CASE Polled(i)
    BY <2>3 DEF Polled, Requested
  <2>4. CASE Withdrawn(i)
    BY <1>5, <2>4 DEF Withdrawn, Requested, Live
  <2>5. CASE Passed(i)
    BY <1>5, <2>5 DEF Passed, Requested, Live
  <2>6. CASE Requeued(i)
    BY <2>6 DEF Requeued, Requested
  <2>7. CASE Added(i)
    BY <2>7 DEF Added, Requested
  <2>8. CASE Modified(i)
    <3>1. \/ Contains(sock_update_queue', i)
          \/ socks'[i].user_events \subseteq socks'[i].pending_events
      BY <1>3, <2>8, RequestUpdateProperties DEF Modified
    <3>2. socks'[i].status = socks[i].status /\ op'[i] = op[i] /\ Allocated(i)
      BY <2>8 DEF Modified, Live
    <3>3. QED
      BY <1>5, <3>1, <3>2 DEF Requested
  <2>9. QED
    BY <2>1, <2>2, <2>3, <2>4, <2>5, <2>6, <2>7, <2>8 DEF Effect
<1>8. QED
  BY <1>6, <1>7

LEMMA RequestedStep ==
  ASSUME MemorySafe, Watched, [Next]_vars
  PROVE  \A i \in Ids : Requested(i)'
<1>1. TypeOK /\ Counted /\ ClosedOnce /\ Reachable /\ GroupsSorted /\ OneReference
  BY DEF MemorySafe
<1>2. \A i \in Ids : Requested(i)
  BY DEF Watched
<1>3. ASSUME UNCHANGED <<socks, sock_update_queue, op>>
      PROVE  \A i \in Ids : Requested(i)'
  BY <1>2, <1>3 DEF Requested, Allocated
<1>4. CASE Quiet
  BY <1>3, <1>4 DEF Quiet, sets, queues
<1>5. ASSUME NEW t \in Threads,
             \/ UpdateEvents(t)
             \/ \E s \in Socks, ask \in Asks : CtlAdd(t, s, ask[1], ask[2])
             \/ \E s \in Socks : CtlDel(t, s) \/ \E ask \in Asks : CtlMod(t, s, ask[1], ask[2])
      PROVE  \A i \in Ids : Requested(i)'
  <2>1. \E i \in Ids : Effect(i)
    BY <1>1, <1>5, CallEffect DEF Effect
  <2>2. QED
    BY <1>1, <2>1, RequestedEffect
<1>6. ASSUME NEW t \in Threads, Feed(t)
      PROVE  \A i \in Ids : Requested(i)'
  <2>1. \E i \in Ids : Effect(i)
    BY <1>1, <1>6, ReferenceFeed DEF Effect
  <2>2. QED
    BY <1>1, <2>1, RequestedEffect
<1>7. ASSUME NEW t \in Threads, Dequeue(t) \/ PortClose(t)
      PROVE  \A i \in Ids : Requested(i)'
  BY <1>3, <1>7 DEF Dequeue, PortClose, sets, queues
<1>8. ASSUME NEW t \in Threads, PortDelete(t)
      PROVE  \A i \in Ids : Requested(i)'
  BY <1>8 DEF PortDelete, Requested, Allocated
<1>9. ASSUME NEW t \in Threads, NEW s \in Socks, CtlAddAgain(t, s)
      PROVE  \A i \in Ids : Requested(i)'
  BY <1>3, <1>9 DEF CtlAddAgain, kernel
<1>10. ASSUME NEW k \in Ids, Kernel(k)
       PROVE  \A i \in Ids : Requested(i)'
  <2>1. op' = [op EXCEPT ![k] = "none"] /\ UNCHANGED <<socks, sock_update_queue>>
    BY <1>10 DEF Kernel, EventOccurs, SocketClosed, Cancelled, Complete, sets, queues
  <2>2. op \in [Ids -> OpStates]
    BY <1>1 DEF TypeOK, OpStates
  <2>3. QED
    BY <1>2, <2>1, <2>2 DEF Requested, Allocated
<1>11. QED
  BY <1>1, <1>4, <1>5, <1>6, <1>7, <1>8, <1>9, <1>10, QuietSteps, WepollAssumption

LEMMA QueueServedStep ==
  ASSUME MemorySafe, Watched, [Next]_vars
  PROVE  QueueServed'
<1>1. TypeOK /\ Counted /\ Reachable
  BY DEF MemorySafe
<1>2. QueueServed
  BY DEF Watched
<1>3. ASSUME UNCHANGED <<lock, active_poll_count, sock_update_queue>>
      PROVE  QueueServed'
  BY <1>2, <1>3 DEF QueueServed
<1>4. ASSUME NEW t \in Threads, lock' = t
      PROVE  QueueServed'
  BY <1>4, WepollAssumption DEF QueueServed
<1>5. ASSUME sock_update_queue' = <<>>
      PROVE  QueueServed'
  BY <1>5 DEF QueueServed, Contains
<1>6. ASSUME NEW t \in Threads, NEW label, UpdateIfPolling(t, label), UNCHANGED active_poll_count
      PROVE  QueueServed'
  BY <1>4, <1>6 DEF UpdateIfPolling, QueueServed
<1>7. ASSUME NEW t \in Threads, EnterLock(t)
      PROVE  QueueServed'
  <2>1. CASE EnterWait(t) \/ BackInLock(t)
    BY <1>4, <2>1 DEF EnterWait, BackInLock, Enter
  <2>2. CASE WaitFails(t)
    <3>1. CASE active_poll_count > 1
      BY <1>4, <2>2, <3>1 DEF WaitFails
    <3>2. CASE ~(active_poll_count > 1)
      <4>1. ~(active_poll_count' > 0)
        BY <1>1, <2>2, <3>2, Present DEF WaitFails
      <4>2. QED
        BY <4>1 DEF QueueServed
    <3>3. QED
      BY <3>1, <3>2
  <2>3. CASE CtlFails(t) \/ PortClose(t)
    <3>1. UNCHANGED <<active_poll_count, sock_update_queue>> /\ lock = NoThread
      BY <2>3 DEF CtlFails, PortClose, sets, queues
    <3>2. QED
      BY <1>2, <3>1 DEF QueueServed
  <2>4. QED
    BY <1>7, <2>1, <2>2, <2>3 DEF EnterLock
<1>8. ASSUME NEW t \in Threads, UpdateEvents(t) \/ Feed(t) \/ PollAgain(t)
      PROVE  QueueServed'
  <2>1. pc[t] \in InLock /\ UNCHANGED lock
    BY <1>8 DEF UpdateEvents, Feed, PollAgain, InLock
  <2>2. lock' = t
    BY <1>1, <2>1, Present
  <2>3. QED
    BY <1>4, <2>2
<1>9. ASSUME NEW t \in Threads, Updated(t)
      PROVE  QueueServed'
  BY <1>5, <1>9 DEF Updated, sets, queues
<1>10. ASSUME NEW t \in Threads, WaitReturns(t)
       PROVE  QueueServed'
  BY <1>6, <1>10 DEF WaitReturns
<1>11. ASSUME NEW t \in Threads, PortDelete(t)
       PROVE  QueueServed'
  BY <1>5, <1>11 DEF PortDelete
<1>12. ASSUME NEW t \in Threads, NEW s \in Socks, NEW ask \in Asks,
              CtlAdd(t, s, ask[1], ask[2]) \/ CtlMod(t, s, ask[1], ask[2])
       PROVE  QueueServed'
  BY <1>6, <1>12 DEF CtlAdd, CtlMod, Ctl
<1>13. ASSUME NEW t \in Threads, NEW s \in Socks, CtlAddAgain(t, s)
       PROVE  QueueServed'
  BY <1>2, <1>13 DEF CtlAddAgain, QueueServed
<1>14. ASSUME NEW t \in Threads, NEW s \in Socks, CtlDel(t, s)
       PROVE  QueueServed'
  <2>1. UNCHANGED active_poll_count /\ lock = NoThread /\ \E i : Unqueue(i)
    BY <1>14 DEF CtlDel, SockDelete
  <2>2. sock_update_queue \in Seq(Ids) /\ IsInjective(sock_update_queue)
    BY <1>1 DEF TypeOK, Reachable
  <2>3. \A x : Contains(sock_update_queue', x) => Contains(sock_update_queue, x)
    BY <2>1, <2>2, UnqueueProperties
  <2>4. QED
    BY <1>2, <2>1, <2>3 DEF QueueServed
<1>15. ASSUME NEW t \in Threads,
              \/ Unref(t) \/ UnrefAndDestroy(t) \/ AwaitEvent(t) \/ DelAndRef(t)
              \/ Dequeue(t) \/ DequeueFails(t) \/ FindAndRef(t, "ctl") \/ FindAndRef(t, "wait")
       PROVE  QueueServed'
  BY <1>3, <1>15 DEF Unref, UnrefAndDestroy, AwaitEvent, DelAndRef, Dequeue, DequeueFails,
                     FindAndRef, sets, queues
<1>16. ASSUME NEW i \in Ids, Kernel(i)
       PROVE  QueueServed'
  BY <1>3, <1>16 DEF Kernel, EventOccurs, SocketClosed, Cancelled, Complete, sets, queues
<1>17. ASSUME NEW s \in Socks, CloseSocket(s) \/ \E events \in SUBSET Events : ChangeReady(s, events)
       PROVE  QueueServed'
  BY <1>3, <1>17 DEF CloseSocket, ChangeReady, sets, queues
<1>18. CASE UNCHANGED vars
  BY <1>3, <1>18 DEF vars, sets, queues
<1>19. QED
  BY <1>7, <1>8, <1>9, <1>10, <1>11, <1>12, <1>13, <1>14, <1>15, <1>16, <1>17, <1>18, WepollAssumption
     DEF Next, Running, Done

(* Every socket that is watched has a request for all that is asked for, or *)
(* its packet on the way, whenever a thread waits and nobody is in the      *)
(* critical section: epoll_ctl reaches the thread that sleeps.              *)
THEOREM Arming == SafetySpec => []Armed
<1>1. Init => Watched
  BY DEF Init, Watched, QueueServed, Requested, Allocated
<1>2. MemorySafe /\ Watched /\ [Next]_vars => Watched'
  BY RequestedStep, QueueServedStep DEF Watched
<1>3. QED
  BY <1>1, <1>2, Memory, ArmedByWatched, PTL DEF SafetySpec

-----------------------------------------------------------------------------
(* The tree of the ports and of the sockets, src/win32/wepoll.c:1694, on its *)
(* own: its nodes are keys, and the calls come in any order.                *)
CONSTANT MaxKey          \* the largest key

VARIABLES tree, added

RB == INSTANCE RedBlackTree

TreeUsed == MaxKey \in Nat

(* The least number principle, from the library's well-founded order of Nat. *)
LEMMA LeastOf ==
  ASSUME NEW S \in SUBSET Nat, S # {}
  PROVE  \E n \in S : \A m \in S : n <= m
<1> DEFINE R == {ss \in Nat \X Nat : ss[1] < ss[2]}
<1>1. IsWellFoundedOn(R, Nat)
  BY NatLessThanWellFounded DEF OpToRel
<1>2. \A x, y \in Nat : y < x => <<y, x>> \in R
  <2> SUFFICES ASSUME NEW x \in Nat, NEW y \in Nat, y < x PROVE <<y, x>> \in R
    OBVIOUS
  <2>1. <<y, x>> \in Nat \X Nat /\ <<y, x>>[1] < <<y, x>>[2]
    OBVIOUS
  <2>2. QED
    BY <2>1
<1> HIDE DEF R
<1>3. PICK x \in S : \A y \in S : ~ (<<y, x>> \in R)
  BY <1>1, WFMin
<1>4. ASSUME NEW m \in S PROVE x <= m
  <2>1. x \in Nat /\ m \in Nat
    OBVIOUS
  <2>2. ~ (m < x)
    BY <1>2, <1>3, <2>1
  <2>3. QED
    BY <2>1, <2>2
<1>5. QED
  BY <1>4

(* Induction up to a number, over a set. *)
LEMMA UpTo ==
  ASSUME NEW N \in Nat, NEW S, 0 \in S, \A n \in 0..(N - 1) : n \in S => n + 1 \in S
  PROVE  0..N \subseteq S
<1> SUFFICES ASSUME (0..N) \ S # {} PROVE FALSE
  OBVIOUS
<1>1. (0..N) \ S \in SUBSET Nat
  OBVIOUS
<1>2. PICK n \in (0..N) \ S : \A m \in (0..N) \ S : n <= m
  BY <1>1, LeastOf
<1>3. n # 0 /\ n - 1 \in 0..(N - 1)
  BY <1>2
<1>4. n - 1 \in S
  BY <1>2, <1>3
<1>5. QED
  BY <1>2, <1>3, <1>4

(* A smaller set of keys has fewer. *)
LEMMA Smaller ==
  ASSUME TreeUsed, NEW A \in SUBSET RB!Keys, NEW B \in SUBSET RB!Keys, A \subseteq B, A # B
  PROVE  /\ Cardinality(A) \in 0..MaxKey /\ Cardinality(B) \in 0..MaxKey
         /\ Cardinality(A) < Cardinality(B)
<1>1. IsFiniteSet(RB!Keys) /\ Cardinality(RB!Keys) = MaxKey
  BY FS_Interval DEF RB!Keys, TreeUsed
<1>2. IsFiniteSet(A) /\ IsFiniteSet(B) /\ Cardinality(A) <= MaxKey /\ Cardinality(B) <= MaxKey
  BY <1>1, FS_Subset
<1>3. Cardinality(A) \in Nat /\ Cardinality(B) \in Nat
  BY <1>2, FS_CardinalityType
<1>4. Cardinality(A) <= Cardinality(B) /\ (Cardinality(B) = Cardinality(A) => B = A)
  BY <1>2, FS_Subset
<1>5. QED
  BY <1>2, <1>3, <1>4 DEF TreeUsed

LEMMA KeysCounted ==
  ASSUME TreeUsed, NEW A \in SUBSET RB!Keys
  PROVE  Cardinality(A) \in 0..MaxKey
<1>1. CASE A = RB!Keys
  <2>1. Cardinality(1..MaxKey) = IF 1 > MaxKey THEN 0 ELSE MaxKey - 1 + 1
    BY FS_Interval DEF TreeUsed
  <2>2. QED
    BY <1>1, <2>1 DEF RB!Keys, TreeUsed
<1>2. CASE A # RB!Keys
  BY <1>2, Smaller
<1>3. QED
  BY <1>1, <1>2

-----------------------------------------------------------------------------
(* A loop that goes down takes its steps one by one. *)
LEMMA WalkIs ==
  ASSUME TreeUsed, NEW step, NEW node
  PROVE  \E at : /\ at[0] = node
                 /\ \A n \in 0..(MaxKey - 1) : at[n + 1] = step[at[n]]
                 /\ RB!Walk(step, node) = at[MaxKey]
<1> DEFINE S == {n \in 0..MaxKey : \E f : f = [i \in 0..n |-> IF i = 0 THEN node ELSE step[f[i - 1]]]}
<1>1. 0 \in S
  <2> DEFINE f == [i \in 0..0 |-> node]
  <2>1. \A i \in 0..0 : i = 0
    OBVIOUS
  <2>2. f = [i \in 0..0 |-> IF i = 0 THEN node ELSE step[f[i - 1]]]
    BY <2>1
  <2> HIDE DEF f
  <2>3. QED
    BY <2>2 DEF TreeUsed
<1>2. ASSUME NEW n \in 0..(MaxKey - 1), n \in S
      PROVE  n + 1 \in S
  <2>1. PICK f : f = [i \in 0..n |-> IF i = 0 THEN node ELSE step[f[i - 1]]]
    BY <1>2
  <2> DEFINE g == [i \in 0..(n + 1) |-> IF i = n + 1 THEN step[f[n]] ELSE f[i]]
  <2>2. ASSUME NEW i \in 0..(n + 1)
        PROVE  g[i] = IF i = 0 THEN node ELSE step[g[i - 1]]
    <3>1. CASE i = n + 1
      BY <3>1, g[n] = f[n]
    <3>2. CASE i # n + 1
      <4>1. i \in 0..n /\ f[i] = IF i = 0 THEN node ELSE step[f[i - 1]]
        <5>1. i \in 0..n
          BY <3>2
        <5>2. QED
          BY <2>1, <5>1
      <4>2. i # 0 => i - 1 \in 0..(n + 1) /\ i - 1 # n + 1
        BY <4>1
      <4>3. QED
        BY <3>2, <4>1, <4>2
    <3>3. QED
      BY <3>1, <3>2
  <2>3. g = [i \in 0..(n + 1) |-> IF i = 0 THEN node ELSE step[g[i - 1]]]
    <3>1. DOMAIN g = 0..(n + 1) /\ g = [i \in DOMAIN g |-> g[i]]
      OBVIOUS
    <3> DEFINE G(i) == IF i = 0 THEN node ELSE step[g[i - 1]]
    <3>2. \A i \in 0..(n + 1) : g[i] = G(i)
      BY <2>2
    <3> HIDE DEF g, G
    <3>3. g = [i \in 0..(n + 1) |-> G(i)]
      BY <3>1, <3>2
    <3>4. QED
      BY <3>3 DEF G
  <2> HIDE DEF g
  <2>4. n + 1 \in 0..MaxKey
    BY DEF TreeUsed
  <2>5. QED
    BY <2>3, <2>4
<1> HIDE DEF S
<1>3. MaxKey \in S
  BY <1>1, <1>2, UpTo DEF TreeUsed
<1> DEFINE at == CHOOSE f : f = [n \in 0..MaxKey |-> IF n = 0 THEN node ELSE step[f[n - 1]]]
<1>4. at = [n \in 0..MaxKey |-> IF n = 0 THEN node ELSE step[at[n - 1]]]
  BY <1>3 DEF S
<1>5. RB!Walk(step, node) = at[MaxKey]
  BY DEF RB!Walk
<1> HIDE DEF at
<1>6. at[0] = node
  BY <1>4 DEF TreeUsed
<1>7. ASSUME NEW n \in 0..(MaxKey - 1)
      PROVE  at[n + 1] = step[at[n]]
  <2>1. n + 1 \in 0..MaxKey /\ n + 1 # 0 /\ (n + 1) - 1 = n
    BY DEF TreeUsed
  <2>2. QED
    BY <1>4, <2>1
<1>8. QED
  BY <1>5, <1>6, <1>7

(* It ends where no step leads on, if with every step there is less below. *)
LEMMA WalkEnds ==
  ASSUME TreeUsed, NEW step, NEW I, NEW D, NEW node \in I,
         \A x \in I : /\ step[x] \in I /\ D[x] \in SUBSET RB!Keys
                      /\ step[x] # x => D[step[x]] \subseteq D[x] /\ D[step[x]] # D[x]
  PROVE  RB!Walk(step, node) \in I /\ step[RB!Walk(step, node)] = RB!Walk(step, node)
<1>1. PICK at : /\ at[0] = node
                /\ \A n \in 0..(MaxKey - 1) : at[n + 1] = step[at[n]]
                /\ RB!Walk(step, node) = at[MaxKey]
  BY WalkIs
<1> DEFINE S == {n \in 0..MaxKey : /\ at[n] \in I
                                   /\ step[at[n]] = at[n] \/ Cardinality(D[at[n]]) <= MaxKey - n}
<1>2. 0 \in S
  <2>1. Cardinality(D[at[0]]) \in 0..MaxKey
    BY <1>1, KeysCounted
  <2>2. QED
    BY <1>1, <2>1 DEF TreeUsed
<1>3. ASSUME NEW n \in 0..(MaxKey - 1), n \in S
      PROVE  n + 1 \in S
  <2>1. at[n + 1] = step[at[n]] /\ at[n] \in I /\ at[n + 1] \in I
    BY <1>1, <1>3
  <2>2. CASE step[at[n]] = at[n]
    <3>1. at[n + 1] = at[n] /\ n + 1 \in 0..MaxKey
      BY <2>1, <2>2 DEF TreeUsed
    <3>2. QED
      BY <2>1, <2>2, <3>1
  <2>3. CASE step[at[n]] # at[n]
    <3>1. D[at[n + 1]] \in SUBSET RB!Keys /\ D[at[n]] \in SUBSET RB!Keys
          /\ D[at[n + 1]] \subseteq D[at[n]] /\ D[at[n + 1]] # D[at[n]]
      BY <2>1, <2>3
    <3>2. /\ Cardinality(D[at[n + 1]]) \in 0..MaxKey /\ Cardinality(D[at[n]]) \in 0..MaxKey
          /\ Cardinality(D[at[n + 1]]) < Cardinality(D[at[n]])
      BY <3>1, Smaller
    <3>3. Cardinality(D[at[n]]) <= MaxKey - n
      BY <1>3, <2>3
    <3>4. Cardinality(D[at[n + 1]]) <= MaxKey - (n + 1)
      BY <3>2, <3>3 DEF TreeUsed
    <3>5. QED
      BY <2>1, <3>4 DEF TreeUsed
  <2>4. QED
    BY <2>2, <2>3
<1> HIDE DEF S
<1>4. MaxKey \in S
  BY <1>2, <1>3, UpTo DEF TreeUsed
<1>5. at[MaxKey] \in I /\ (step[at[MaxKey]] = at[MaxKey] \/ Cardinality(D[at[MaxKey]]) <= 0)
  BY <1>4 DEF S, TreeUsed
<1>6. ASSUME step[at[MaxKey]] # at[MaxKey] PROVE FALSE
  <2> DEFINE x == at[MaxKey]
             y == step[at[MaxKey]]
  <2>1. x \in I /\ y \in I /\ D[y] \subseteq D[x] /\ D[y] # D[x]
        /\ D[x] \in SUBSET RB!Keys /\ D[y] \in SUBSET RB!Keys
    BY <1>5, <1>6
  <2>2. Cardinality(D[y]) \in Nat /\ Cardinality(D[x]) \in Nat /\ Cardinality(D[y]) < Cardinality(D[x])
    BY <2>1, Smaller
  <2>3. QED
    BY <1>5, <1>6, <2>2
<1>7. QED
  BY <1>1, <1>5, <1>6

Sides == {"left", "right"}

(* What the fields of a tree hold; a side is the name of a field. *)
LEMMA Fields ==
  ASSUME NEW t \in RB!Tree
  PROVE  /\ t.root \in RB!Nodes
         /\ \A k \in RB!Keys, s \in Sides : t[s][k] \in RB!Nodes
         /\ \A k \in RB!Keys : t.parent[k] \in RB!Nodes /\ t.red[k] \in BOOLEAN
         /\ \A k \in RB!Keys : t["left"][k] = t.left[k] /\ t["right"][k] = t.right[k]
BY DEF RB!Tree, Sides

LEMMA OtherSide ==
  ASSUME NEW s \in Sides
  PROVE  /\ RB!Other(s) \in Sides /\ RB!Other(s) # s /\ RB!Other(RB!Other(s)) = s
         /\ \A x \in Sides : x # s => x = RB!Other(s)
BY DEF RB!Other, Sides

LEMMA NodesAre ==
  ASSUME TreeUsed
  PROVE  /\ RB!Nodes = RB!Keys \cup {0} /\ 0 \notin RB!Keys /\ 0 \in RB!Nodes
         /\ RB!Keys \in SUBSET Int /\ RB!Nodes \in SUBSET Int
BY DEF RB!Nodes, RB!Keys, TreeUsed

LEMMA SideIs ==
  ASSUME NEW t, NEW k, NEW p
  PROVE  RB!SideOf(t, k, p) \in Sides
BY DEF RB!SideOf, Sides

(* What the pointer operations do, field by field. *)
PutIn(t, u, side, p, n) ==
    /\ u \in RB!Tree /\ u.root = t.root /\ u.parent = t.parent /\ u.red = t.red
    /\ \A s \in Sides, k \in RB!Keys : u[s][k] = IF s = side /\ k = p THEN n ELSE t[s][k]

(* What the assignments of the macros do, field by field. *)
LEMMA PutIs ==
  ASSUME NEW t \in RB!Tree, NEW side \in Sides, NEW p \in RB!Keys, NEW n \in RB!Nodes
  PROVE  PutIn(t, RB!Put(t, side, p, n), side, p, n)
BY DEF PutIn, RB!Tree, RB!Put, Sides

Painted(t, u, k, red) ==
    /\ u \in RB!Tree /\ u.root = t.root /\ u.left = t.left /\ u.right = t.right /\ u.parent = t.parent
    /\ \A x \in RB!Keys : u.red[x] = IF x = k THEN red ELSE t.red[x]

LEMMA PaintIs ==
  ASSUME TreeUsed, NEW t \in RB!Tree, NEW k \in RB!Nodes, NEW red \in BOOLEAN
  PROVE  Painted(t, RB!Paint(t, k, red), k, red)
<1>1. CASE k = 0
  BY <1>1, NodesAre DEF RB!Paint, Painted
<1>2. CASE k # 0
  <2>1. k \in RB!Keys
    BY <1>2, NodesAre
  <2>2. QED
    BY <1>2, <2>1 DEF RB!Tree, RB!Paint, Painted
<1>3. QED
  BY <1>1, <1>2

Replaced(t, u, p, k, n) ==
    /\ u \in RB!Tree /\ u.parent = t.parent /\ u.red = t.red
    /\ u.root = IF p = 0 THEN n ELSE t.root
    /\ \A s \in Sides, x \in RB!Keys :
          u[s][x] = IF x = p /\ s = RB!SideOf(t, k, p) THEN n ELSE t[s][x]

LEMMA ReplaceIs ==
  ASSUME TreeUsed, NEW t \in RB!Tree, NEW p \in RB!Nodes, NEW k, NEW n \in RB!Nodes
  PROVE  Replaced(t, RB!Replace(t, p, k, n), p, k, n)
<1>1. CASE p = 0
  BY <1>1, NodesAre DEF RB!Replace, RB!Tree, Sides, Replaced
<1>2. CASE p # 0
  <2>1. p \in RB!Keys
    BY <1>2, NodesAre
  <2>2. RB!Replace(t, p, k, n) = RB!Put(t, RB!SideOf(t, k, p), p, n)
    BY <1>2 DEF RB!Replace, RB!Put
  <2>3. PutIn(t, RB!Replace(t, p, k, n), RB!SideOf(t, k, p), p, n)
    BY <2>1, <2>2, SideIs, PutIs
  <2>4. QED
    BY <1>2, <2>3 DEF PutIn, Replaced
<1>3. QED
  BY <1>1, <1>2

Attached(t, u, k, p) ==
    /\ u \in RB!Tree /\ u.root = t.root /\ u.left = t.left /\ u.right = t.right /\ u.red = t.red
    /\ \A x \in RB!Keys : u.parent[x] = IF x = k THEN p ELSE t.parent[x]

LEMMA AttachIs ==
  ASSUME TreeUsed, NEW t \in RB!Tree, NEW k \in RB!Nodes, NEW p \in RB!Nodes
  PROVE  Attached(t, RB!Attach(t, k, p), k, p)
<1>1. CASE k = 0
  BY <1>1, NodesAre DEF RB!Attach, Attached
<1>2. CASE k # 0
  <2>1. k \in RB!Keys
    BY <1>2, NodesAre
  <2>2. QED
    BY <1>2, <2>1 DEF RB!Attach, RB!Tree, Attached
<1>3. QED
  BY <1>1, <1>2

SamePointers(t, u) == \A s \in Sides, k \in RB!Keys : u[s][k] = t[s][k]

LEMMA SameAre ==
  ASSUME NEW t \in RB!Tree, NEW u \in RB!Tree, u.left = t.left, u.right = t.right
  PROVE  SamePointers(t, u)
BY Fields DEF Sides, SamePointers

(* q is in the place of p above it. *)
Raised(t, u, q, p) ==
    LET parent == t.parent[p]
    IN  /\ u \in RB!Tree /\ u.red = t.red
        /\ u.root = IF parent = 0 THEN q ELSE t.root
        /\ \A k \in RB!Keys : u.parent[k] = IF k = p THEN q ELSE IF k = q THEN parent ELSE t.parent[k]
        /\ \A s \in Sides, k \in RB!Keys :
              u[s][k] = IF k = parent /\ s = RB!SideOf(t, p, parent) THEN q ELSE t[s][k]

LEMMA RaiseIs ==
  ASSUME TreeUsed, NEW t \in RB!Tree, NEW q \in RB!Keys, NEW p \in RB!Keys
  PROVE  Raised(t, RB!Raise(t, q, p), q, p)
<1> DEFINE parent == t.parent[p]
           t1 == RB!Replace(t, parent, p, q)
           t2 == RB!Attach(t1, q, parent)
           t3 == RB!Attach(t2, p, q)
<1>0. parent \in RB!Nodes /\ p \in RB!Nodes /\ q \in RB!Nodes
  BY Fields, NodesAre
<1>1. RB!Raise(t, q, p) = t3
  BY DEF RB!Raise
<1> HIDE DEF parent, t1, t2, t3
<1>2. Replaced(t, t1, parent, p, q) /\ t1 \in RB!Tree
  BY <1>0, ReplaceIs DEF t1, Replaced
<1>3. Attached(t1, t2, q, parent) /\ t2 \in RB!Tree
  BY <1>0, <1>2, AttachIs DEF t2, Attached
<1>4. Attached(t2, t3, p, q) /\ t3 \in RB!Tree
  BY <1>0, <1>3, AttachIs DEF t3, Attached
<1>5. SamePointers(t1, t3)
  BY <1>2, <1>3, <1>4, SameAre DEF Attached
<1>6. t3.red = t.red /\ t3.root = IF parent = 0 THEN q ELSE t.root
  BY <1>2, <1>3, <1>4 DEF Attached, Replaced
<1>7. \A k \in RB!Keys : t3.parent[k] = IF k = p THEN q ELSE IF k = q THEN parent ELSE t.parent[k]
  BY <1>2, <1>3, <1>4 DEF Attached, Replaced
<1>8. \A s \in Sides, k \in RB!Keys :
        t3[s][k] = IF k = parent /\ s = RB!SideOf(t, p, parent) THEN q ELSE t[s][k]
  BY <1>2, <1>5 DEF SamePointers, Replaced
<1>9. QED
  BY <1>1, <1>4, <1>6, <1>7, <1>8 DEF Raised, parent

(* p has gone down on side cis, and m, what was between it and q, has changed sides. *)
Rotated(t, u, p, cis) ==
    LET q == t[RB!Other(cis)][p]
        m == t[cis][q]
        parent == t.parent[p]
    IN  /\ u \in RB!Tree /\ u.red = t.red
        /\ u.root = IF parent = 0 THEN q ELSE t.root
        /\ \A k \in RB!Keys : u.parent[k] = IF k = m THEN p ELSE IF k = p THEN q
                                            ELSE IF k = q THEN parent ELSE t.parent[k]
        /\ \A s \in Sides, k \in RB!Keys :
              u[s][k] = IF k = q /\ s = cis THEN p ELSE IF k = p /\ s = RB!Other(cis) THEN m
                        ELSE IF k = parent /\ s = RB!SideOf(t, p, parent) THEN q ELSE t[s][k]

LEMMA RotateIs ==
  ASSUME TreeUsed, NEW t \in RB!Tree, NEW p \in RB!Keys, NEW cis \in Sides,
         t[RB!Other(cis)][p] \in RB!Keys
  PROVE  Rotated(t, RB!Rotate(t, p, cis), p, cis)
<1> DEFINE trans == RB!Other(cis)
           q == t[trans][p]
           m == t[cis][q]
           t3 == RB!Raise(t, q, p)
           t4 == RB!Put(t3, trans, p, m)
           t5 == RB!Attach(t4, m, p)
           u == RB!Put(t5, cis, q, p)
<1>0. /\ trans \in Sides /\ trans # cis /\ q \in RB!Keys /\ q \in RB!Nodes /\ p \in RB!Nodes
      /\ m \in RB!Nodes
  BY Fields, OtherSide, NodesAre
<1>1. RB!Rotate(t, p, cis) = u
  BY DEF RB!Rotate
<1> HIDE DEF u, t5, t4, t3, m, q, trans
<1>2. Raised(t, t3, q, p) /\ t3 \in RB!Tree
  <2>1. Raised(t, t3, q, p)
    BY <1>0, RaiseIs DEF t3
  <2>2. QED
    BY <2>1 DEF Raised
<1>3. PutIn(t3, t4, trans, p, m) /\ t4 \in RB!Tree
  BY <1>0, <1>2, PutIs DEF t4, PutIn
<1>4. Attached(t4, t5, m, p) /\ t5 \in RB!Tree
  BY <1>0, <1>3, AttachIs DEF t5, Attached
<1>5. PutIn(t5, u, cis, q, p) /\ u \in RB!Tree
  BY <1>0, <1>4, PutIs DEF u, PutIn
<1>6. SamePointers(t4, t5)
  BY <1>3, <1>4, SameAre DEF Attached
<1>7. u.red = t.red /\ u.root = IF t.parent[p] = 0 THEN q ELSE t.root
  BY <1>2, <1>3, <1>4, <1>5 DEF Attached, PutIn, Raised
<1>8. \A k \in RB!Keys : u.parent[k] = IF k = m THEN p ELSE IF k = p THEN q
                                        ELSE IF k = q THEN t.parent[p] ELSE t.parent[k]
  BY <1>2, <1>3, <1>4, <1>5 DEF Attached, PutIn, Raised
<1>9. \A s \in Sides, k \in RB!Keys :
         u[s][k] = IF k = q /\ s = cis THEN p ELSE IF k = p /\ s = trans THEN m
                   ELSE IF k = t.parent[p] /\ s = RB!SideOf(t, p, t.parent[p]) THEN q ELSE t[s][k]
  <2> SUFFICES ASSUME NEW s \in Sides, NEW k \in RB!Keys
               PROVE  u[s][k] = IF k = q /\ s = cis THEN p ELSE IF k = p /\ s = trans THEN m
                                ELSE IF k = t.parent[p] /\ s = RB!SideOf(t, p, t.parent[p]) THEN q ELSE t[s][k]
    OBVIOUS
  <2>1. u[s][k] = IF s = cis /\ k = q THEN p ELSE t5[s][k]
    BY <1>5 DEF PutIn
  <2>2. t5[s][k] = t4[s][k]
    BY <1>6 DEF SamePointers
  <2>3. t4[s][k] = IF s = trans /\ k = p THEN m ELSE t3[s][k]
    BY <1>3 DEF PutIn
  <2>4. t3[s][k] = IF k = t.parent[p] /\ s = RB!SideOf(t, p, t.parent[p]) THEN q ELSE t[s][k]
    BY <1>2 DEF Raised
  <2>5. QED
    BY <2>1, <2>2, <2>3, <2>4
<1>10. QED
  BY <1>1, <1>5, <1>7, <1>8, <1>9 DEF Rotated, trans, q, m

Below(side, a, b) == IF side = "left" THEN a < b ELSE b < a

(* D[k] is what is in the tree at k and below, S what is in all of the tree. *)
Whole(t, S, D) ==
    /\ t \in RB!Tree /\ S \in SUBSET RB!Keys /\ D \in [RB!Nodes -> SUBSET S]
    /\ \A x \in RB!Nodes \ S : D[x] = {}
    /\ t.root \in S \cup {0} /\ D[t.root] = S
    /\ \A k \in S, s \in Sides : /\ t[s][k] \in S \cup {0}
                                 /\ D[k] = {k} \cup D[t[s][k]] \cup D[t[RB!Other(s)][k]]
Ordered(t, S, D) == \A k \in S, s \in Sides : \A x \in D[t[s][k]] : Below(s, x, k)
Linked(t, S) == \A k \in S, s \in Sides : t[s][k] # 0 => t.parent[t[s][k]] = k
Rooted(t, S) ==
    \A k \in S : IF k = t.root THEN t.parent[k] = 0
                 ELSE t.parent[k] \in S /\ \E s \in Sides : t[s][t.parent[k]] = k
Nested(t, S, D) == \A x \in S : \A c \in D[x] : D[c] \subseteq D[x] /\ (c # x => t.parent[c] \in D[x])

Shape(t, S, D) == Whole(t, S, D) /\ Ordered(t, S, D) /\ Linked(t, S) /\ Rooted(t, S) /\ Nested(t, S, D)

(* What a Shape says of its sets. *)
LEMMA ShapeKeys ==
  ASSUME TreeUsed, NEW t, NEW S, NEW D, Shape(t, S, D)
  PROVE  /\ t \in RB!Tree /\ S \subseteq RB!Keys /\ S \subseteq RB!Nodes /\ S \cup {0} \subseteq RB!Nodes
         /\ 0 \notin S /\ S \in SUBSET Int /\ 0 \in RB!Nodes /\ D[0] = {}
         /\ t.root \in S \cup {0} /\ D[t.root] = S
         /\ \A x \in RB!Nodes : D[x] \in SUBSET S /\ (x \notin S => D[x] = {})
BY NodesAre DEF Shape, Whole

(* A child is not its parent, and there is less below it. *)
LEMMA ChildIs ==
  ASSUME TreeUsed, NEW t, NEW S, NEW D, Shape(t, S, D), NEW k \in S, NEW s \in Sides
  PROVE  /\ t[s][k] \in S \cup {0} /\ t[s][k] # k
         /\ D[k] = {k} \cup D[t[s][k]] \cup D[t[RB!Other(s)][k]] /\ k \in D[k]
         /\ k \notin D[t[s][k]] /\ D[t[s][k]] \subseteq D[k] /\ D[t[s][k]] # D[k]
         /\ t[s][k] # 0 => /\ t[s][k] \in S /\ t[s][k] \in D[t[s][k]] /\ t[s][k] \in D[k]
                           /\ t.parent[t[s][k]] = k /\ t[s][k] # t[RB!Other(s)][k]
         /\ \A x \in D[t[s][k]] : Below(s, x, k) /\ x \in S
<1>0. S \subseteq Int /\ 0 \notin S /\ S \subseteq RB!Nodes
  BY ShapeKeys
<1>1. \A j \in S : D[j] = {j} \cup D[t[s][j]] \cup D[t[RB!Other(s)][j]]
  BY DEF Shape, Whole
<1>2. \A j \in S : j \in D[j]
  BY <1>1
<1>3. t[s][k] \in S \cup {0}
  BY DEF Shape, Whole
<1>4. \A x \in D[t[s][k]] : Below(s, x, k)
  BY DEF Shape, Ordered
<1>5. k \notin D[t[s][k]]
  BY <1>0, <1>4 DEF Below
<1>6. t[s][k] # k
  BY <1>2, <1>5
<1>7. t[s][k] # 0 => t[s][k] \in S /\ t[s][k] \in D[t[s][k]] /\ t.parent[t[s][k]] = k
  BY <1>2, <1>3 DEF Shape, Linked
<1>8. t[s][k] # 0 => t[s][k] # t[RB!Other(s)][k]
  <2>1. RB!Other(s) \in Sides /\ RB!Other(s) # s
    BY OtherSide
  <2>2. \A x \in D[t[RB!Other(s)][k]] : Below(RB!Other(s), x, k)
    BY <2>1 DEF Shape, Ordered
  <2> DEFINE c == t[s][k]
  <2> HIDE DEF c
  <2>3. ASSUME c # 0, c = t[RB!Other(s)][k] PROVE FALSE
    <3>1. c \in S /\ c \in D[c] /\ Below(s, c, k) /\ Below(RB!Other(s), c, k)
      BY <1>4, <1>7, <2>2, <2>3 DEF c
    <3>2. QED
      BY <1>0, <2>1, <3>1 DEF Below, Sides
  <2>4. QED
    BY <2>3 DEF c
<1>9. \A x \in D[t[s][k]] : x \in S
  BY <1>0, <1>3, ShapeKeys
<1>10. QED
  BY <1>1, <1>2, <1>3, <1>4, <1>5, <1>6, <1>7, <1>8, <1>9

(* The parent of a node points down to it, and no other node does. *)
LEMMA ParentOf ==
  ASSUME TreeUsed, NEW t, NEW S, NEW D, Shape(t, S, D), NEW k \in S
  PROVE  /\ t.parent[k] = 0 <=> k = t.root
         /\ t.parent[k] # 0 => /\ t.parent[k] \in S /\ t.parent[k] # k
                               /\ t[RB!SideOf(t, k, t.parent[k])][t.parent[k]] = k
                               /\ t[RB!Other(RB!SideOf(t, k, t.parent[k]))][t.parent[k]] # k
                               /\ k \in D[t.parent[k]] /\ t.parent[k] \notin D[k]
         /\ \A s \in Sides : t[s][k] # t.parent[k] \/ t[s][k] = 0
         /\ \A j \in S, s \in Sides :
               t[s][j] = k => t.parent[k] = j /\ s = RB!SideOf(t, k, j)
<1> DEFINE p == t.parent[k]
<1>0. 0 \notin S
  BY ShapeKeys
<1>1. p = 0 <=> k = t.root
  BY <1>0 DEF Shape, Rooted
<1>2. ASSUME NEW j \in S, NEW s \in Sides, t[s][j] = k
      PROVE  p = j /\ s = RB!SideOf(t, k, j)
  <2>1. t[s][j] # 0 /\ p = j /\ t[s][j] # t[RB!Other(s)][j]
    BY <1>0, <1>2, ChildIs
  <2>2. t \in RB!Tree /\ j \in RB!Keys
    BY ShapeKeys
  <2>3. s = RB!SideOf(t, k, j)
    BY <1>2, <2>1, <2>2, Fields DEF RB!SideOf, RB!Other, Sides
  <2>4. QED
    BY <2>1, <2>3
<1>3. ASSUME p # 0
      PROVE  /\ p \in S /\ p # k /\ t[RB!SideOf(t, k, p)][p] = k
             /\ t[RB!Other(RB!SideOf(t, k, p))][p] # k /\ k \in D[p] /\ p \notin D[k]
  <2>1. p \in S /\ \E s \in Sides : t[s][p] = k
    BY <1>1, <1>3 DEF Shape, Rooted
  <2>2. PICK s \in Sides : t[s][p] = k
    BY <2>1
  <2>3. s = RB!SideOf(t, k, p)
    BY <1>2, <2>1, <2>2
  <2>4. t[s][p] # p /\ t[s][p] # t[RB!Other(s)][p] /\ t[s][p] \in D[p] /\ p \notin D[t[s][p]]
    BY <1>0, <2>1, <2>2, ChildIs
  <2> HIDE DEF p
  <2>5. QED
    BY <2>1, <2>2, <2>3, <2>4
<1>4. ASSUME NEW s \in Sides, t[s][k] = p, p # 0 PROVE FALSE
  <2>1. t[s][k] \in D[k]
    BY <1>4, ChildIs
  <2>2. QED
    BY <1>3, <1>4, <2>1
<1>5. QED
  BY <1>1, <1>2, <1>3, <1>4

(* Below the two nodes of a rotation there is something else, elsewhere not. *)
After(t, D, p, cis) ==
    LET q == t[RB!Other(cis)][p]
    IN  [x \in RB!Nodes |-> IF x = q THEN D[p]
                            ELSE IF x = p THEN {p} \cup D[t[cis][p]] \cup D[t[cis][q]] ELSE D[x]]

(* The tree before a rotation of p and q, and what it has done to the pointers. *)
LEMMA Turned ==
  ASSUME TreeUsed, NEW t, NEW S, NEW D, Shape(t, S, D), NEW p \in S, NEW cis \in Sides,
         NEW trans, trans = RB!Other(cis), NEW q, q = t[trans][p], q # 0,
         NEW m, m = t[cis][q], NEW u, Rotated(t, u, p, cis)
  PROVE  /\ q \in S /\ q # p /\ q \in D[p] /\ p \notin D[q] /\ t.parent[q] = p
         /\ m \in S \cup {0} /\ m # q /\ m # p /\ m # t.root
         /\ u.root = IF p = t.root THEN q ELSE t.root
         /\ u[cis][q] = p /\ u[trans][q] = t[trans][q] /\ u[trans][p] = m /\ u[cis][p] = t[cis][p]
         /\ \A k \in S \ {p, q}, s \in Sides : u[s][k] = IF t[s][k] = p THEN q ELSE t[s][k]
         /\ \A k \in S \ {p, q}, s \in Sides : t[s][k] # q /\ (t[s][k] = m => m = 0)
         /\ u.parent[p] = q /\ u.parent[q] = t.parent[p] /\ (m # 0 => u.parent[m] = p)
         /\ \A k \in S \ {p, q, m} : u.parent[k] = t.parent[k]
<1>0. /\ S \subseteq RB!Keys /\ 0 \notin S /\ trans \in Sides /\ RB!Other(trans) = cis /\ trans # cis
      /\ t \in RB!Tree
  BY ShapeKeys, OtherSide
<1>1. q \in S /\ q # p /\ q \in D[p] /\ p \notin D[q] /\ t.parent[q] = p
  BY <1>0, ChildIs
<1>2. m \in S \cup {0} /\ m # q /\ (m # 0 => m \in D[q] /\ t.parent[m] = q)
  BY <1>0, <1>1, ChildIs
<1>3. m # p /\ m # t.root
  <2>1. CASE m = 0
    <3>1. t.root # 0
      BY <1>0, ShapeKeys
    <3>2. QED
      BY <1>0, <2>1, <3>1
  <2>2. CASE m # 0
    <3>1. m \in S /\ t.parent[m] # 0
      BY <1>0, <1>1, <1>2, <2>2
    <3>2. QED
      BY <1>1, <1>2, <2>2, <3>1, ParentOf
  <2>3. QED
    BY <2>1, <2>2
<1>4. ASSUME NEW k \in S, NEW s \in Sides, t[s][k] # 0
      PROVE  t.parent[t[s][k]] = k
  BY <1>4 DEF Shape, Linked
<1> DEFINE P == t.parent[p]
           side == RB!SideOf(t, p, P)
<1>5. /\ P = 0 <=> p = t.root
      /\ P # 0 => P \in S /\ P # p
      /\ \A j \in S, s \in Sides : t[s][j] = p => P = j /\ s = RB!SideOf(t, p, j)
      /\ P # 0 => t[side][P] = p
  BY ParentOf
<1>6. P # q
  <2>1. t[trans][p] # t.parent[p] \/ t[trans][p] = 0
    BY <1>0, ParentOf
  <2>2. QED
    BY <2>1
<1>7. /\ u.root = IF P = 0 THEN q ELSE t.root
      /\ \A k \in RB!Keys : u.parent[k] = IF k = m THEN p ELSE IF k = p THEN q
                                          ELSE IF k = q THEN P ELSE t.parent[k]
      /\ \A s \in Sides, k \in RB!Keys :
            u[s][k] = IF k = q /\ s = cis THEN p ELSE IF k = p /\ s = trans THEN m
                      ELSE IF k = P /\ s = side THEN q ELSE t[s][k]
  BY DEF Rotated
<1> HIDE DEF P, side
<1>8. /\ u[cis][q] = p /\ u[trans][q] = t[trans][q] /\ u[trans][p] = m /\ u[cis][p] = t[cis][p]
  <2>1. P # p /\ P # q
    BY <1>0, <1>5, <1>6
  <2>2. QED
    BY <1>0, <1>1, <1>7, <2>1
<1>9. ASSUME NEW k \in S \ {p, q}, NEW s \in Sides
      PROVE  u[s][k] = IF t[s][k] = p THEN q ELSE t[s][k]
  <2>1. u[s][k] = IF k = P /\ s = side THEN q ELSE t[s][k]
    BY <1>0, <1>7, <1>9
  <2>2. t[s][k] = p => k = P /\ s = side
    BY <1>5, <1>9 DEF side
  <2>3. k = P => P # 0
    BY <1>0, <1>9
  <2>4. k = P /\ s = side => t[s][k] = p
    BY <1>5, <2>3
  <2>5. QED
    BY <2>1, <2>2, <2>4
<1>10. ASSUME NEW k \in S \ {p, q}, NEW s \in Sides
       PROVE  t[s][k] # q /\ (t[s][k] = m => m = 0)
  BY <1>0, <1>1, <1>2, <1>4, <1>10
<1>11. /\ u.parent[p] = q /\ u.parent[q] = P /\ (m # 0 => u.parent[m] = p)
       /\ \A k \in S \ {p, q, m} : u.parent[k] = t.parent[k]
  BY <1>0, <1>1, <1>2, <1>3, <1>7
<1>12. u.root = IF p = t.root THEN q ELSE t.root
  BY <1>5, <1>7
<1>13. QED
  BY <1>1, <1>2, <1>3, <1>8, <1>9, <1>10, <1>11, <1>12 DEF P

(* A rotation keeps the order, and every node knows its parent. *)
LEMMA RotateKeeps ==
  ASSUME TreeUsed, NEW t, NEW S, NEW D, Shape(t, S, D), NEW p \in S, NEW cis \in Sides,
         t[RB!Other(cis)][p] # 0
  PROVE  /\ Rotated(t, RB!Rotate(t, p, cis), p, cis)
         /\ Shape(RB!Rotate(t, p, cis), S, After(t, D, p, cis))
<1> DEFINE trans == RB!Other(cis)
           q == t[trans][p]
           m == t[cis][q]
           u == RB!Rotate(t, p, cis)
           E == After(t, D, p, cis)
<1>0. /\ S \subseteq RB!Keys /\ 0 \notin S /\ trans \in Sides /\ RB!Other(trans) = cis /\ trans # cis
      /\ t \in RB!Tree /\ 0 \in RB!Nodes /\ S \subseteq RB!Nodes /\ S \subseteq Int
      /\ \A x \in RB!Nodes : D[x] \in SUBSET S /\ (x \notin S => D[x] = {})
      /\ t.root \in S \cup {0} /\ D[t.root] = S
  BY ShapeKeys, OtherSide
<1>1. q \in S
  BY <1>0, ChildIs
<1>2. Rotated(t, u, p, cis)
  BY <1>0, <1>1, RotateIs
<1>3. u \in RB!Tree
  BY <1>2 DEF Rotated
<1> HIDE DEF u
<1>4. /\ q \in S /\ q # p /\ q \in D[p] /\ p \notin D[q] /\ t.parent[q] = p
      /\ m \in S \cup {0} /\ m # q /\ m # p /\ m # t.root
      /\ u.root = IF p = t.root THEN q ELSE t.root
      /\ u[cis][q] = p /\ u[trans][q] = t[trans][q] /\ u[trans][p] = m /\ u[cis][p] = t[cis][p]
      /\ \A k \in S \ {p, q}, s \in Sides : u[s][k] = IF t[s][k] = p THEN q ELSE t[s][k]
      /\ \A k \in S \ {p, q}, s \in Sides : t[s][k] # q /\ (t[s][k] = m => m = 0)
      /\ u.parent[p] = q /\ u.parent[q] = t.parent[p] /\ (m # 0 => u.parent[m] = p)
      /\ \A k \in S \ {p, q, m} : u.parent[k] = t.parent[k]
  BY <1>1, <1>2, Turned, <1>0
<1>5. /\ E[q] = D[p] /\ E[p] = {p} \cup D[t[cis][p]] \cup D[m]
      /\ \A x \in RB!Nodes \ {p, q} : E[x] = D[x]
      /\ E = [x \in RB!Nodes |-> E[x]]
  BY <1>0, <1>4 DEF After
<1> DEFINE b == t[cis][p]
           c == t[trans][q]
<1>a. /\ b \in S \cup {0} /\ b # p /\ D[p] = {p} \cup D[b] \cup D[q] /\ p \notin D[b]
      /\ b # 0 => b \in S /\ t.parent[b] = p /\ b # q
      /\ \A y \in D[b] : Below(cis, y, p) /\ y \in S
  BY ChildIs
<1>b. /\ q # p /\ p \notin D[q] /\ q \in D[q] /\ \A y \in D[q] : Below(trans, y, p) /\ y \in S
  BY <1>0, <1>4, ChildIs
<1>c. /\ D[q] = {q} \cup D[m] \cup D[c] /\ q \notin D[m] /\ (m # 0 => m \in S /\ t.parent[m] = q /\ m # c /\ m \in D[m])
      /\ \A y \in D[m] : Below(cis, y, q) /\ y \in S
  BY <1>1, ChildIs
<1>d. /\ c \in S \cup {0} /\ c # q /\ q \notin D[c]
      /\ c # 0 => c \in S /\ t.parent[c] = q /\ c # m /\ c \in D[c]
      /\ \A y \in D[c] : Below(trans, y, q) /\ y \in S
  BY <1>0, <1>1, ChildIs
<1>e. u[cis][p] = b /\ u[trans][q] = c
  BY <1>4
<1>f. RB!Other(cis) = trans
  OBVIOUS
<1>g. t[trans][p] = q /\ t[cis][q] = m /\ t[cis][p] = b /\ t[trans][q] = c
  OBVIOUS
<1> HIDE DEF E, b, c, m, q, trans
<1>6. b # q /\ c # p /\ (b # 0 => b # m)
  <2>1. m # 0 => m \in D[q]
    BY <1>c
  <2>2. c # 0 => c \in D[q]
    BY <1>c, <1>d
  <2>3. c # p
    BY <1>0, <1>b, <2>2
  <2>4. b # q
    BY <1>0, <1>4, <1>a
  <2>5. b # 0 => b # m
    BY <1>4, <1>a, <1>c
  <2>6. QED
    BY <1>4, <2>3, <2>4, <2>5
<1>8. D[b] \subseteq S /\ D[m] \subseteq S /\ D[c] \subseteq S /\ D[p] \subseteq S /\ D[q] \subseteq S
  BY <1>0, <1>4, <1>a, <1>d
<1>5a. E[q] = D[p] /\ E[p] = {p} \cup D[b] \cup D[m]
  BY <1>5, <1>g
<1>9. E[b] = D[b] /\ E[m] = D[m] /\ E[c] = D[c]
  <2>1. b \in RB!Nodes /\ m \in RB!Nodes /\ c \in RB!Nodes
    BY <1>0, <1>4, <1>a, <1>d
  <2>2. b # p /\ b # q /\ m # p /\ m # q /\ c # p /\ c # q
    BY <1>4, <1>6, <1>a, <1>d
  <2>3. QED
    BY <1>5, <2>1, <2>2
<1>10. ASSUME NEW k \in S, k # p, k # q, NEW s \in Sides
       PROVE  E[u[s][k]] = D[t[s][k]] /\ u[s][k] \in S \cup {0} /\ t[s][k] \in S \cup {0} /\ E[k] = D[k]
  <2>1. t[s][k] \in S \cup {0} /\ t[s][k] # q /\ u[s][k] = IF t[s][k] = p THEN q ELSE t[s][k]
    BY <1>4, <1>10, ChildIs
  <2>2. QED
    BY <1>0, <1>4, <1>5, <1>10, <2>1
<1>11. Whole(u, S, E)
  <2>1. ASSUME NEW x \in RB!Nodes
        PROVE  E[x] \in SUBSET S /\ (x \notin S => E[x] = {})
    <3>1. CASE x = q
      BY <1>4, <1>5a, <1>8, <3>1
    <3>2. CASE x = p
      BY <1>4, <1>5a, <1>8, <3>2
    <3>3. CASE x # p /\ x # q
      BY <1>0, <1>5, <3>3
    <3>4. QED
      BY <3>1, <3>2, <3>3
  <2>2. E \in [RB!Nodes -> SUBSET S]
    BY <1>5, <2>1
  <2>3. u.root \in S \cup {0} /\ E[u.root] = S
    BY <1>0, <1>4, <1>5
  <2>4. ASSUME NEW k \in S, NEW s \in Sides
        PROVE  u[s][k] \in S \cup {0} /\ E[k] = {k} \cup E[u[s][k]] \cup E[u[RB!Other(s)][k]]
    <3>1. (s = cis /\ RB!Other(s) = trans) \/ (s = trans /\ RB!Other(s) = cis)
      <4>1. s = cis \/ s = RB!Other(cis)
        BY OtherSide
      <4>2. QED
        BY <1>0, <1>f, <4>1
    <3>2. CASE k = p
      <4>1. u[cis][p] = b /\ u[trans][p] = m
        BY <1>4, <1>e
      <4>2. E[p] = {p} \cup E[b] \cup E[m] /\ b \in S \cup {0} /\ m \in S \cup {0}
        BY <1>4, <1>5a, <1>9, <1>a
      <4>3. QED
        BY <3>1, <3>2, <4>1, <4>2
    <3>3. CASE k = q
      <4>1. u[cis][q] = p /\ u[trans][q] = c
        BY <1>4, <1>e
      <4>2. E[q] = {q} \cup E[p] \cup E[c] /\ c \in S \cup {0}
        BY <1>5a, <1>9, <1>a, <1>c, <1>d
      <4>3. QED
        BY <3>1, <3>3, <4>1, <4>2
    <3>4. CASE k # p /\ k # q
      <4>1. RB!Other(s) \in Sides
        BY OtherSide
      <4>2. E[u[s][k]] = D[t[s][k]] /\ E[u[RB!Other(s)][k]] = D[t[RB!Other(s)][k]] /\ E[k] = D[k]
            /\ u[s][k] \in S \cup {0}
        BY <1>10, <3>4, <4>1
      <4>3. D[k] = {k} \cup D[t[s][k]] \cup D[t[RB!Other(s)][k]]
        BY ChildIs
      <4>4. QED
        BY <4>2, <4>3
    <3>5. QED
      BY <3>2, <3>3, <3>4
  <2>5. QED
    BY <1>0, <1>3, <2>1, <2>2, <2>3, <2>4 DEF Whole
<1>12. Ordered(u, S, E)
  <2> SUFFICES ASSUME NEW k \in S, NEW s \in Sides, NEW x \in E[u[s][k]]
               PROVE  Below(s, x, k)
    BY DEF Ordered
  <2>1. s = cis \/ s = trans
    BY <1>0, <1>f, OtherSide
  <2>2. /\ \A y \in D[b] : Below(cis, y, p) /\ y \in Int
        /\ \A y \in D[q] : Below(trans, y, p) /\ y \in Int
        /\ \A y \in D[m] : Below(cis, y, q) /\ y \in Int
        /\ \A y \in D[c] : Below(trans, y, q) /\ y \in Int
    BY <1>0, <1>a, <1>b, <1>c, <1>d
  <2>3. p \in Int /\ q \in Int /\ D[m] \subseteq D[q] /\ q \in D[q]
    BY <1>0, <1>4, <1>b, <1>c
  <2>4. CASE k = p
    <3>1. CASE s = cis
      BY <1>9, <1>e, <2>2, <2>4, <3>1
    <3>2. CASE s = trans
      BY <1>4, <1>9, <2>2, <2>3, <2>4, <3>2
    <3>3. QED
      BY <2>1, <3>1, <3>2
  <2>5. CASE k = q
    <3>1. CASE s = trans
      BY <1>9, <1>e, <2>2, <2>5, <3>1
    <3>2. CASE s = cis
      <4>1. x = p \/ x \in D[b] \/ x \in D[m]
        BY <1>4, <1>5a, <2>5, <3>2
      <4>2. Below(cis, p, q)
        BY <1>0, <2>2, <2>3 DEF Below, Sides
      <4>3. ASSUME x \in D[b] PROVE Below(cis, x, q)
        BY <2>2, <2>3, <4>2, <4>3 DEF Below
      <4>4. QED
        BY <2>2, <2>5, <3>2, <4>1, <4>2, <4>3
    <3>3. QED
      BY <2>1, <3>1, <3>2
  <2>6. CASE k # p /\ k # q
    <3>1. x \in D[t[s][k]]
      BY <1>10, <2>6
    <3>2. QED
      BY <3>1, ChildIs
  <2>7. QED
    BY <2>4, <2>5, <2>6
<1>13. Linked(u, S)
  <2> SUFFICES ASSUME NEW k \in S, NEW s \in Sides, u[s][k] # 0
               PROVE  u.parent[u[s][k]] = k
    BY DEF Linked
  <2>1. s = cis \/ s = trans
    BY <1>0, <1>f, OtherSide
  <2>2. /\ b # 0 => t.parent[b] = p /\ b \in S /\ b # m
        /\ c # 0 => t.parent[c] = q /\ c \in S /\ c # m
        /\ m # 0 => t.parent[m] = q
    BY <1>6, <1>a, <1>c, <1>d
  <2>3. CASE k = p
    <3>1. b # 0 => u.parent[b] = p
      BY <1>4, <1>6, <1>a, <2>2
    <3>2. QED
      BY <1>4, <1>e, <2>1, <2>3, <3>1
  <2>4. CASE k = q
    <3>1. c # 0 => u.parent[c] = q
      BY <1>4, <1>6, <1>d, <2>2
    <3>2. QED
      BY <1>4, <1>e, <2>1, <2>4, <3>1
  <2>5. CASE k # p /\ k # q
    <3>1. CASE t[s][k] = p
      <4>1. u[s][k] = q /\ t.parent[p] = k
        BY <1>4, <2>5, <3>1, ParentOf
      <4>2. QED
        BY <1>4, <4>1
    <3>2. CASE t[s][k] # p
      <4>1. /\ u[s][k] = t[s][k] /\ t[s][k] # q /\ t[s][k] # m /\ t[s][k] \in S
        BY <1>4, <2>5, <3>2, ChildIs
      <4>2. t.parent[t[s][k]] = k /\ u.parent[t[s][k]] = t.parent[t[s][k]]
        BY <1>4, <3>2, <4>1, ChildIs
      <4>3. QED
        BY <4>1, <4>2
    <3>3. QED
      BY <3>1, <3>2
  <2>6. QED
    BY <2>3, <2>4, <2>5
<1>14. Rooted(u, S)
  <2> SUFFICES ASSUME NEW k \in S
               PROVE  IF k = u.root THEN u.parent[k] = 0
                      ELSE u.parent[k] \in S /\ \E s \in Sides : u[s][u.parent[k]] = k
    BY DEF Rooted
  <2>1. CASE k = p
    <3>1. k # u.root
      BY <1>4, <2>1
    <3>2. QED
      BY <1>0, <1>4, <2>1, <3>1
  <2>2. CASE k = q
    <3>1. q # t.root
      BY <1>0, <1>4, ParentOf
    <3>2. CASE p = t.root
      BY <1>4, <2>2, <3>2, ParentOf
    <3>3. CASE p # t.root
      <4> DEFINE P == t.parent[p]
      <4>1. P \in S /\ P # p /\ t[RB!SideOf(t, p, P)][P] = p
        BY <3>3, ParentOf
      <4>2. P # q
        <5>1. t[trans][p] # P \/ t[trans][p] = 0
          BY <1>0, ParentOf
        <5>2. QED
          BY <1>0, <1>4, <1>g, <5>1
      <4>3. RB!SideOf(t, p, P) \in Sides
        BY SideIs
      <4>4. u[RB!SideOf(t, p, P)][P] = q
        BY <1>4, <4>1, <4>2, <4>3
      <4>5. u.parent[q] = P /\ u.root # q
        BY <1>4, <3>1, <3>3
      <4> HIDE DEF P
      <4>6. QED
        BY <2>2, <4>1, <4>3, <4>4, <4>5
    <3>4. QED
      BY <3>2, <3>3
  <2>3. CASE k # p /\ k # q /\ k = m
    BY <1>0, <1>4, <2>3
  <2>4. CASE k # p /\ k # q /\ k # m
    <3>1. u.parent[k] = t.parent[k] /\ (k = u.root <=> k = t.root)
      BY <1>4, <2>4
    <3>2. CASE k = t.root
      BY <3>1, <3>2, ParentOf
    <3>3. CASE k # t.root
      <4> DEFINE P == t.parent[k]
                 s == RB!SideOf(t, k, P)
      <4>1. P \in S /\ t[s][P] = k /\ s \in Sides
        BY <3>3, ParentOf, SideIs
      <4> HIDE DEF P, s
      <4>2. s = cis \/ s = trans
        BY <1>0, <4>1, OtherSide DEF trans
      <4>3. u[s][P] = k
        <5>1. CASE P = p
          BY <1>0, <1>4, <1>e, <2>4, <4>1, <4>2, <1>g, <5>1
        <5>2. CASE P = q
          BY <1>0, <1>4, <1>e, <2>4, <4>1, <4>2, <1>g, <5>2
        <5>3. CASE P # p /\ P # q
          BY <1>4, <2>4, <4>1, <5>3
        <5>4. QED
          BY <5>1, <5>2, <5>3
      <4>4. QED
        BY <3>1, <3>3, <4>1, <4>3 DEF P
    <3>4. QED
      BY <3>2, <3>3
  <2>5. QED
    BY <2>1, <2>2, <2>3, <2>4
<1>15. Nested(u, S, E)
  <2>0. \A x \in S : \A y \in D[x] : D[y] \subseteq D[x] /\ (y # x => t.parent[y] \in D[x])
    BY DEF Shape, Nested
  <2>m. (\A y \in D[b] : b \in S) /\ (\A y \in D[m] : m \in S)
    BY <1>0, <1>4, <1>a
  <2>k. q \in D[q] /\ p \in D[p] /\ D[m] \subseteq D[q] /\ D[q] \subseteq D[p] /\ D[b] \subseteq D[p]
    BY <1>a, <1>b, <1>c
  <2>1. ASSUME NEW y \in S PROVE E[y] \subseteq D[y] \/ (y = q /\ E[y] = D[p])
    <3>1. CASE y = p
      BY <1>5a, <2>k, <3>1
    <3>2. CASE y = q
      BY <1>5a, <3>2
    <3>3. CASE y # p /\ y # q
      BY <1>0, <1>5, <3>3
    <3>4. QED
      BY <3>1, <3>2, <3>3
  <2> SUFFICES ASSUME NEW x \in S, NEW y \in E[x]
               PROVE  E[y] \subseteq E[x] /\ (y # x => u.parent[y] \in E[x])
    BY DEF Nested
  <2>2. CASE x = p
    <3>1. y = p \/ y \in D[b] \/ y \in D[m]
      BY <1>5a, <2>2
    <3>2. CASE y = p
      BY <2>2, <3>2
    <3>3. CASE y \in D[b]
      <4>1. b \in S /\ D[y] \subseteq D[b] /\ (y # b => t.parent[y] \in D[b]) /\ y \in S
        BY <1>8, <2>0, <2>m, <3>3
      <4>2. y # p /\ y # q /\ y # m
        <5>1. y # q /\ y # m
          <6>1. \A z \in D[b] : Below(cis, z, p)
            BY <1>a
          <6>2. \A z \in D[q] : Below(trans, z, p)
            BY <1>b
          <6>3. y \notin D[q]
            <7>1. Below(cis, y, p)
              BY <3>3, <6>1
            <7>2. ~Below(trans, y, p)
              BY <1>0, <4>1, <7>1 DEF Below, Sides
            <7>3. QED
              BY <6>2, <7>2
          <6>4. m # 0 => m \in D[m]
            BY <1>c
          <6>5. QED
            BY <1>0, <2>k, <4>1, <6>3, <6>4
        <5>2. QED
          BY <1>a, <3>3, <5>1
      <4>3. E[y] = D[y] /\ u.parent[y] = t.parent[y]
        BY <1>0, <1>4, <1>5, <4>1, <4>2
      <4>4. y = b => t.parent[y] = p
        BY <1>0, <1>a, <4>1
      <4>5. QED
        BY <1>5a, <2>2, <4>1, <4>3, <4>4
    <3>4. CASE y \in D[m]
      <4>1. m \in S /\ D[y] \subseteq D[m] /\ (y # m => t.parent[y] \in D[m]) /\ y \in S
        BY <1>8, <2>0, <2>m, <3>4
      <4>2. y # p /\ y # q
        BY <1>b, <1>c, <2>k, <3>4
      <4>3. E[y] = D[y] /\ (y # m => u.parent[y] = t.parent[y]) /\ (y = m => u.parent[y] = p)
        BY <1>0, <1>4, <1>5, <4>1, <4>2
      <4>4. QED
        BY <1>5a, <2>2, <4>1, <4>3
    <3>5. QED
      BY <3>1, <3>2, <3>3, <3>4
  <2>3. CASE x = q
    <3>1. y \in D[p] /\ E[x] = D[p] /\ y \in S
      BY <1>5a, <1>8, <2>3
    <3>2. D[y] \subseteq D[p] /\ (y # p => t.parent[y] \in D[p])
      BY <2>0, <3>1
    <3>3. E[y] \subseteq D[p]
      BY <2>1, <3>1, <3>2
    <3>4. u.parent[p] = q /\ u.parent[m] \in {p, u.parent[m]}
      BY <1>4
    <3>5. y # x => u.parent[y] \in D[p]
      <4>1. CASE y = p
        BY <1>4, <4>1
      <4>2. CASE y = m
        <5>1. m # 0
          BY <1>0, <3>1, <4>2
        <5>2. QED
          BY <1>4, <2>k, <4>2, <5>1
      <4>3. CASE y # p /\ y # m /\ y # q
        BY <1>4, <3>1, <3>2, <4>3
      <4>4. QED
        BY <2>3, <4>1, <4>2, <4>3
    <3>6. QED
      BY <3>1, <3>3, <3>5
  <2>4. CASE x # p /\ x # q
    <3>1. E[x] = D[x] /\ y \in D[x] /\ y \in S /\ D[y] \subseteq D[x]
      BY <1>0, <1>5, <2>0, <2>4
    <3>2. q \in D[x] => p \in D[x]
      BY <1>4, <2>0, <2>4
    <3>3. p \in D[x] => D[p] \subseteq D[x] /\ t.parent[p] \in D[x]
      BY <1>4, <2>0, <2>4
    <3>4. E[y] \subseteq D[x]
      BY <2>1, <3>1, <3>2, <3>3
    <3>5. y # x => u.parent[y] \in D[x]
      <4>1. CASE y = p
        BY <1>4, <2>k, <3>1, <3>3, <4>1
      <4>2. CASE y = q
        BY <1>4, <3>1, <3>2, <3>3, <4>2
      <4>3. CASE y = m
        <5>1. m # 0
          BY <1>0, <3>1, <4>3
        <5>2. t.parent[m] = q
          BY <1>c, <5>1
        <5>3. ASSUME m # x PROVE p \in D[x]
          BY <2>0, <3>1, <3>2, <4>3, <5>2, <5>3
        <5>4. QED
          BY <1>4, <4>3, <5>1, <5>3
      <4>4. CASE y # p /\ y # q /\ y # m
        BY <1>4, <2>0, <3>1, <4>4
      <4>5. QED
        BY <4>1, <4>2, <4>3, <4>4
    <3>6. QED
      BY <3>1, <3>4, <3>5
  <2>5. QED
    BY <2>2, <2>3, <2>4
<1>16. QED
  BY <1>2, <1>11, <1>12, <1>13, <1>14, <1>15 DEF Shape, u, E

(* What is not in the tree does not matter, nor do colours. *)
LEMMA SameShape ==
  ASSUME TreeUsed, NEW t, NEW S, NEW D, Shape(t, S, D), NEW u \in RB!Tree, u.root = t.root,
         \A k \in S : u.parent[k] = t.parent[k],
         \A k \in S, s \in Sides : u[s][k] = t[s][k]
  PROVE  Shape(u, S, D)
<1>1. Whole(u, S, D)
  <2>1. \A s \in Sides : RB!Other(s) \in Sides
    BY OtherSide
  <2>2. \A k \in S, s \in Sides : u[s][k] = t[s][k] /\ u[RB!Other(s)][k] = t[RB!Other(s)][k]
    BY <2>1
  <2>3. QED
    BY <2>2 DEF Shape, Whole
<1>2. Ordered(u, S, D)
  BY DEF Shape, Ordered
<1>3. Linked(u, S)
  <2> SUFFICES ASSUME NEW k \in S, NEW s \in Sides, u[s][k] # 0
               PROVE  u.parent[u[s][k]] = k
    BY DEF Linked
  <2>1. t[s][k] # 0 /\ t[s][k] = u[s][k] /\ t[s][k] \in S /\ t.parent[t[s][k]] = k
    BY ChildIs
  <2>2. QED
    BY <2>1
<1>4. Rooted(u, S)
  BY DEF Shape, Rooted
<1>5. Nested(u, S, D)
  <2> SUFFICES ASSUME NEW x \in S, NEW c \in D[x]
               PROVE  D[c] \subseteq D[x] /\ (c # x => u.parent[c] \in D[x])
    BY DEF Nested
  <2>1. c \in S
    BY ShapeKeys
  <2>2. QED
    BY <2>1 DEF Shape, Nested
<1>6. QED
  BY <1>1, <1>2, <1>3, <1>4, <1>5 DEF Shape

LEMMA PaintShape ==
  ASSUME TreeUsed, NEW t, NEW S, NEW D, Shape(t, S, D), NEW k \in S \cup {0}, NEW red \in BOOLEAN
  PROVE  /\ Shape(RB!Paint(t, k, red), S, D) /\ Painted(t, RB!Paint(t, k, red), k, red)
         /\ SamePointers(t, RB!Paint(t, k, red))
<1> DEFINE u == RB!Paint(t, k, red)
<1>1. t \in RB!Tree /\ k \in RB!Nodes /\ S \subseteq RB!Keys
  BY ShapeKeys
<1>2. Painted(t, u, k, red)
  BY <1>1, PaintIs
<1> HIDE DEF u
<1>3. /\ u \in RB!Tree /\ u.root = t.root /\ u.left = t.left /\ u.right = t.right /\ u.parent = t.parent
  BY <1>2 DEF Painted
<1>4. SamePointers(t, u)
  BY <1>1, <1>3, SameAre
<1>5. Shape(u, S, D)
  BY <1>1, <1>3, <1>4, SameShape DEF SamePointers
<1>6. QED
  BY <1>2, <1>4, <1>5 DEF u

-----------------------------------------------------------------------------
Black(t, k) == IF t.red[k] THEN 0 ELSE 1

(* h[k] is the number of black nodes on every path down from k, but that the *)
(* paths on one side of p lack one.                                          *)
Heights(t, S, h, p, side) ==
    /\ h \in [RB!Nodes -> Nat] /\ h[0] = 0
    /\ \A k \in S, s \in Sides :
          h[k] = h[t[s][k]] + Black(t, k) + (IF k = p /\ s = side THEN 1 ELSE 0)

(* No red node has a red child other than e. *)
NoRedRed(t, S, e) ==
    \A k \in S, s \in Sides : t.red[k] => (t[s][k] = e \/ ~RB!IsRed(t, t[s][k]))

Good(t, S, D, h) ==
    Shape(t, S, D) /\ Heights(t, S, h, 0, "left") /\ NoRedRed(t, S, 0) /\ ~RB!IsRed(t, t.root)

LEMMA RedIs ==
  ASSUME TreeUsed, NEW t \in RB!Tree, NEW S \in SUBSET RB!Keys
  PROVE  /\ ~RB!IsRed(t, 0)
         /\ \A k \in S : RB!IsRed(t, k) <=> t.red[k]
         /\ \A k \in S : t.red[k] \in BOOLEAN
         /\ \A k \in S : Black(t, k) \in {0, 1} /\ (Black(t, k) = 0 <=> t.red[k])
BY NodesAre, Fields DEF RB!IsRed, Black

(* r differs from t in the colours of X only; into X leads the way over p only; *)
(* what lacks a black node lies, out of X, where it lay; X is right with H.     *)
Repainted(t, r, S, X) ==
    /\ \A k \in S, s \in Sides : r[s][k] = t[s][k]
    /\ \A k \in S \ X : r.red[k] = t.red[k]
Entered(t, S, X, p) == \A k \in S \ X, s \in Sides : t[s][k] \in X => t[s][k] = p
StaysShort(S, X, e, side, f, other) ==
    \A k \in S \ X, s \in Sides : (k = e /\ s = side) <=> (k = f /\ s = other)
CountedIn(t, v, X, H, f, other) ==
    \A k \in X, s \in Sides :
        H[k] = H[v[s][k]] + Black(t, k) + (IF k = f /\ s = other THEN 1 ELSE 0)
NewIn(H, h, X) ==
    H \in [RB!Nodes -> Nat] /\ H[0] = 0 /\ \A k \in RB!Nodes \ X : H[k] = h[k]
Calm(t, v, X, f) == \A k \in X, s \in Sides : t.red[k] => (v[s][k] = f \/ ~RB!IsRed(v, v[s][k]))

(* r is the tree before the nodes of X were painted, v what the rotation made *)
(* of it; then the numbers are right elsewhere, if they are right in X.       *)
LEMMA HeightsAfter ==
  ASSUME TreeUsed, NEW t, NEW S, NEW D, Shape(t, S, D), NEW p \in S, NEW cis \in Sides,
         t[RB!Other(cis)][p] # 0, NEW v, Rotated(t, v, p, cis),
         NEW r, NEW X \in SUBSET S, p \in X, t[RB!Other(cis)][p] \in X,
         Repainted(t, r, S, X), Entered(t, S, X, p),
         NEW h, NEW e, NEW side, Heights(r, S, h, e, side),
         NEW H, NewIn(H, h, X), H[t[RB!Other(cis)][p]] = h[p],
         NEW f, NEW other, StaysShort(S, X, e, side, f, other), CountedIn(t, v, X, H, f, other)
  PROVE  Heights(v, S, H, f, other)
<1> DEFINE q == t[RB!Other(cis)][p]
<1>0. S \subseteq RB!Nodes /\ S \cup {0} \subseteq RB!Nodes /\ 0 \notin S
  BY ShapeKeys
<1>1. \A k \in S \ {p, q}, s \in Sides : v[s][k] = IF t[s][k] = p THEN q ELSE t[s][k]
  BY Turned
<1>2. v.red = t.red
  BY DEF Rotated
<1> HIDE DEF q
<1>a. /\ \A k \in S, s \in Sides : r[s][k] = t[s][k]
      /\ \A k \in S \ X : r.red[k] = t.red[k]
      /\ \A k \in S \ X, s \in Sides : t[s][k] \in X => t[s][k] = p
  BY DEF Repainted, Entered
<1>3. p \in X /\ q \in X /\ H[q] = h[p] /\ q \in S
  BY DEF q
<1>b. /\ H \in [RB!Nodes -> Nat] /\ H[0] = 0 /\ \A k \in RB!Nodes \ X : H[k] = h[k]
  BY DEF NewIn
<1>4. ASSUME NEW k \in S \ X, NEW s \in Sides
      PROVE  H[k] = H[v[s][k]] + Black(v, k) + (IF k = f /\ s = other THEN 1 ELSE 0)
  <2>1. H[k] = h[k] /\ k # p /\ k # q
    BY <1>0, <1>3, <1>4, <1>b
  <2>2. h[k] = h[t[s][k]] + Black(t, k) + (IF k = e /\ s = side THEN 1 ELSE 0)
    BY <1>4, <1>a DEF Heights, Black
  <2>3. H[v[s][k]] = h[t[s][k]]
    <3>1. t[s][k] \in S \cup {0}
      BY <1>4, ChildIs
    <3>2. CASE t[s][k] = p
      BY <1>1, <1>3, <1>4, <2>1, <3>2
    <3>3. CASE t[s][k] # p
      <4>1. v[s][k] = t[s][k] /\ t[s][k] \notin X
        BY <1>1, <1>4, <1>a, <2>1, <3>3
      <4>2. QED
        BY <1>0, <1>b, <3>1, <4>1
    <3>4. QED
      BY <3>2, <3>3
  <2>4. Black(v, k) = Black(t, k)
    BY <1>2 DEF Black
  <2>5. (IF k = e /\ s = side THEN 1 ELSE 0) = (IF k = f /\ s = other THEN 1 ELSE 0)
    BY <1>4 DEF StaysShort
  <2>6. QED
    BY <2>1, <2>2, <2>3, <2>4, <2>5
<1>5. \A k \in X : Black(v, k) = Black(t, k)
  BY <1>2 DEF Black
<1>6. QED
  BY <1>4, <1>5, <1>b DEF Heights, CountedIn

(* The same for red children. *)
LEMMA ColoursAfter ==
  ASSUME TreeUsed, NEW t, NEW S, NEW D, Shape(t, S, D), NEW p \in S, NEW cis \in Sides,
         t[RB!Other(cis)][p] # 0, NEW v, Rotated(t, v, p, cis),
         NEW r, NEW X \in SUBSET S, p \in X, t[RB!Other(cis)][p] \in X,
         Repainted(t, r, S, X), Entered(t, S, X, p),
         NEW e \in X \cup {0}, e # p, NoRedRed(r, S, e),
         t.red[t[RB!Other(cis)][p]] => r.red[p],
         NEW f, Calm(t, v, X, f)
  PROVE  NoRedRed(v, S, f)
<1> DEFINE q == t[RB!Other(cis)][p]
<1>0. S \subseteq RB!Nodes /\ S \cup {0} \subseteq RB!Nodes /\ 0 \notin S
  BY ShapeKeys
<1>1. \A k \in S \ {p, q}, s \in Sides : v[s][k] = IF t[s][k] = p THEN q ELSE t[s][k]
  BY Turned
<1>2. v.red = t.red
  BY DEF Rotated
<1> HIDE DEF q
<1>a. /\ \A k \in S, s \in Sides : r[s][k] = t[s][k]
      /\ \A k \in S \ X : r.red[k] = t.red[k]
      /\ \A k \in S \ X, s \in Sides : t[s][k] \in X => t[s][k] = p
  BY DEF Repainted, Entered
<1>3. p \in X /\ q \in X /\ q \in S /\ (t.red[q] => r.red[p])
  BY DEF q
<1>4. ASSUME NEW k \in S \ X, NEW s \in Sides, v.red[k]
      PROVE  ~RB!IsRed(v, v[s][k])
  <2>1. r.red[k] /\ k # p /\ k # q /\ t[s][k] \in S \cup {0}
    BY <1>2, <1>3, <1>4, <1>a, ChildIs
  <2>2. t[s][k] = e \/ ~RB!IsRed(r, t[s][k])
    BY <1>4, <1>a, <2>1 DEF NoRedRed
  <2>3. t[s][k] = e => e = 0
    BY <1>4, <1>a
  <2>4. ~RB!IsRed(r, t[s][k])
    BY <2>2, <2>3 DEF RB!IsRed
  <2>5. CASE t[s][k] = p
    BY <1>0, <1>1, <1>2, <1>3, <1>4, <2>1, <2>4, <2>5 DEF RB!IsRed
  <2>6. CASE t[s][k] # p
    <3>1. v[s][k] = t[s][k] /\ t[s][k] \notin X
      BY <1>1, <1>4, <1>a, <2>1, <2>6
    <3>2. t[s][k] # 0 => r.red[t[s][k]] = t.red[t[s][k]]
      BY <1>a, <2>1, <3>1
    <3>3. QED
      BY <1>2, <2>4, <3>1, <3>2 DEF RB!IsRed
  <2>7. QED
    BY <2>5, <2>6
<1>5. QED
  BY <1>2, <1>4 DEF NoRedRed, Calm

(* The root may always be painted black. *)
LEMMA PaintRoot ==
  ASSUME TreeUsed, NEW t, NEW S, NEW D, Shape(t, S, D), NEW h, Heights(t, S, h, 0, "left"), NoRedRed(t, S, 0)
  PROVE  \E H : Good(RB!Paint(t, t.root, FALSE), S, D, H)
<1> DEFINE u == RB!Paint(t, t.root, FALSE)
           r == t.root
           H == [k \in RB!Nodes |-> IF k = r /\ RB!IsRed(t, r) THEN h[k] + 1 ELSE h[k]]
<1>0. /\ S \subseteq RB!Nodes /\ S \cup {0} \subseteq RB!Nodes /\ 0 \notin S /\ r \in S \cup {0}
      /\ t \in RB!Tree /\ S \subseteq RB!Keys /\ 0 \in RB!Nodes
  BY ShapeKeys
<1>1. Shape(u, S, D) /\ Painted(t, u, r, FALSE) /\ SamePointers(t, u)
  BY <1>0, PaintShape
<1> HIDE DEF u, r
<1>2. /\ u.root = r /\ \A k \in S : u.red[k] = IF k = r THEN FALSE ELSE t.red[k]
      /\ \A k \in S, s \in Sides : u[s][k] = t[s][k]
  BY <1>0, <1>1 DEF Painted, SamePointers, r
<1>3. \A k \in S, s \in Sides : t[s][k] # r \/ r = 0
  <2> SUFFICES ASSUME NEW k \in S, NEW s \in Sides, t[s][k] = r, r # 0 PROVE FALSE
    OBVIOUS
  <2>1. t.parent[r] = k /\ r \in S
    BY <1>0, ChildIs
  <2>2. t.parent[r] = 0
    BY <2>1, ParentOf DEF r
  <2>3. QED
    BY <1>0, <2>1, <2>2
<1>4. ~RB!IsRed(t, 0) /\ ~RB!IsRed(u, 0)
  BY DEF RB!IsRed
<1>5. H \in [RB!Nodes -> Nat] /\ H[0] = 0
  BY <1>0, <1>4 DEF Heights
<1>6. ASSUME NEW k \in S, NEW s \in Sides
      PROVE  H[k] = H[u[s][k]] + Black(u, k) + (IF k = 0 /\ s = "left" THEN 1 ELSE 0)
  <2>2. u[s][k] = t[s][k] /\ t[s][k] \in S \cup {0}
    BY <1>2, ChildIs
  <2>1. h[k] = h[t[s][k]] + Black(t, k)
    <3>1. h[k] = h[t[s][k]] + Black(t, k) + (IF k = 0 /\ s = "left" THEN 1 ELSE 0)
      BY DEF Heights
    <3>2. h[t[s][k]] \in Nat /\ Black(t, k) \in Nat /\ k # 0
      BY <1>0, <2>2 DEF Heights, Black
    <3>3. QED
      BY <3>1, <3>2
  <2>3. H[u[s][k]] = h[t[s][k]]
    <3>1. t[s][k] \in RB!Nodes /\ ~(t[s][k] = r /\ RB!IsRed(t, r))
      BY <1>0, <1>3, <1>4, <2>2
    <3>2. H[t[s][k]] = h[t[s][k]]
      BY <3>1
    <3> HIDE DEF H
    <3>3. QED
      BY <2>2, <3>2
  <2>4. k # 0 /\ t[s][k] \in RB!Nodes /\ k \in RB!Nodes
    BY <1>0, <2>2
  <2>5. h[k] \in Nat /\ h[t[s][k]] \in Nat
    BY <2>4 DEF Heights
  <2>6. CASE k = r /\ t.red[k]
    <3>1. RB!IsRed(t, r)
      BY <2>4, <2>6 DEF RB!IsRed
    <3>2. Black(t, k) = 0 /\ Black(u, k) = 1
      BY <1>2, <2>6 DEF Black
    <3>3. H[k] = h[k] + 1
      BY <2>4, <2>6, <3>1
    <3> HIDE DEF H
    <3>4. QED
      BY <2>1, <2>3, <2>4, <2>5, <3>2, <3>3
  <2>7. CASE ~(k = r /\ t.red[k])
    <3>1. ~(k = r /\ RB!IsRed(t, r))
      BY <2>7 DEF RB!IsRed
    <3>2. Black(t, k) = Black(u, k)
      BY <1>2, <2>7 DEF Black
    <3>3. H[k] = h[k]
      BY <2>4, <3>1
    <3> HIDE DEF H
    <3>4. QED
      BY <2>1, <2>3, <2>4, <2>5, <3>2, <3>3 DEF Black
  <2>8. QED
    BY <2>6, <2>7
<1>7. NoRedRed(u, S, 0)
  <2> SUFFICES ASSUME NEW k \in S, NEW s \in Sides, u.red[k]
               PROVE  ~RB!IsRed(u, u[s][k])
    BY DEF NoRedRed
  <2>1. t.red[k] /\ u[s][k] = t[s][k] /\ t[s][k] \in S \cup {0}
    <3>1. t[s][k] \in S \cup {0}
      BY ChildIs
    <3>2. QED
      BY <1>2, <3>1
  <2> DEFINE c == t[s][k]
  <2>2. ~RB!IsRed(t, t[s][k])
    <3>1. c = 0 \/ ~RB!IsRed(t, c)
      BY <2>1 DEF NoRedRed
    <3> HIDE DEF c
    <3>2. ~RB!IsRed(t, c)
      BY <1>4, <3>1
    <3>3. QED
      BY <3>2 DEF c
  <2> HIDE DEF c
  <2>3. c \in S \cup {0} /\ ~RB!IsRed(t, c) /\ u[s][k] = c
    BY <2>1, <2>2 DEF c
  <2>4. c \in S => u.red[c] = IF c = r THEN FALSE ELSE t.red[c]
    BY <1>2
  <2>5. QED
    BY <1>4, <2>3, <2>4 DEF RB!IsRed
<1>8. ~RB!IsRed(u, u.root)
  BY <1>0, <1>2 DEF RB!IsRed
<1> HIDE DEF H
<1>9. Heights(u, S, H, 0, "left")
  BY <1>5, <1>6 DEF Heights
<1>10. QED
  BY <1>1, <1>7, <1>8, <1>9 DEF Good, u, r

(* What the loop of an insertion keeps: only node may be a red child of a red node. *)
InsertKept(t, S, D, h, node) ==
    /\ Shape(t, S, D) /\ Heights(t, S, h, 0, "left") /\ NoRedRed(t, S, node)
    /\ node \in S /\ t.red[node]
    /\ RB!IsRed(t, t.root) => t.root = node

(* What it ends with. *)
Settled(t, S, node) ==
    /\ node \in S /\ ~RB!IsRed(t, t.parent[node])
    /\ \E D, h : Shape(t, S, D) /\ Heights(t, S, h, 0, "left") /\ NoRedRed(t, S, 0)

(* The red parent p of node, on side cis of the grandparent g. *)
Above(t, node, p, g, cis) ==
    p = t.parent[node] /\ RB!IsRed(t, p) /\ g = t.parent[p] /\ cis = RB!SideOf(t, p, g)

(* A red node is not the root, it has a parent that is black. *)
LEMMA Grand ==
  ASSUME TreeUsed, NEW t, NEW S, NEW D, NEW h, NEW node, InsertKept(t, S, D, h, node),
         NEW p, NEW g, NEW cis, Above(t, node, p, g, cis)
  PROVE  /\ node \in S /\ p \in S /\ g \in S /\ p # node /\ g # p /\ g # node
         /\ t.red[node] /\ t.red[p] /\ ~t.red[g] /\ ~RB!IsRed(t, t.root)
         /\ cis \in Sides /\ t[cis][g] = p /\ t[RB!Other(cis)][g] # p
         /\ t[RB!SideOf(t, node, p)][p] = node /\ RB!SideOf(t, node, p) \in Sides
         /\ t[RB!Other(RB!SideOf(t, node, p))][p] # node
         /\ D[node] \subseteq D[p] /\ D[p] \subseteq D[g] /\ g \in D[g] /\ g \notin D[p]
<1>0. Shape(t, S, D) /\ node \in S /\ t \in RB!Tree /\ 0 \notin S /\ NoRedRed(t, S, node)
      /\ S \in SUBSET RB!Keys
  BY ShapeKeys DEF InsertKept
<1>1. p # 0 /\ t.red[p] /\ p = t.parent[node] /\ RB!IsRed(t, p)
  BY DEF RB!IsRed, Above
<1>a. g = t.parent[p] /\ cis = RB!SideOf(t, p, g)
  BY DEF Above
<1>2. /\ p \in S /\ p # node /\ t[RB!SideOf(t, node, p)][p] = node /\ node # t.root
      /\ t[RB!Other(RB!SideOf(t, node, p))][p] # node /\ node \in D[p]
  BY <1>0, <1>1, ParentOf
<1>3. ~RB!IsRed(t, t.root)
  BY <1>2 DEF InsertKept
<1>4. p # t.root
  BY <1>1, <1>3 DEF RB!IsRed
<1>5. g # 0 /\ g \in S /\ g # p /\ t[cis][g] = p /\ t[RB!Other(cis)][g] # p /\ p \in D[g] /\ g \notin D[p]
  BY <1>0, <1>2, <1>4, <1>a, ParentOf
<1>6. cis \in Sides /\ RB!SideOf(t, node, p) \in Sides
  BY <1>a, SideIs
<1>7. ~t.red[g]
  <2>1. t.red[g] => t[cis][g] = node \/ ~RB!IsRed(t, t[cis][g])
    BY <1>0, <1>5, <1>6 DEF NoRedRed
  <2>2. QED
    BY <1>1, <1>2, <1>5, <2>1
<1>8. D[node] \subseteq D[p] /\ D[p] \subseteq D[g]
  BY <1>0, <1>2, <1>5 DEF Shape, Nested
<1>9. g \in D[g]
  BY <1>0, <1>5, <1>6, ChildIs
<1>10. g # node
  BY <1>2, <1>5
<1>11. QED
  BY <1>0, <1>1, <1>2, <1>3, <1>5, <1>6, <1>7, <1>8, <1>9, <1>10 DEF InsertKept

(* The uncle is red: the grandparent takes the colour, and the loop goes up. *)
LEMMA InsertUp ==
  ASSUME TreeUsed, NEW t, NEW S, NEW D, NEW h, NEW node, InsertKept(t, S, D, h, node),
         NEW p, NEW g, NEW cis, Above(t, node, p, g, cis),
         NEW w, w = t[RB!Other(cis)][g], RB!IsRed(t, w)
  PROVE  \E H : InsertKept(RB!Paint(RB!Paint(RB!Paint(t, p, FALSE), w, FALSE), g, TRUE), S, D, H, g)
<1> DEFINE trans == RB!Other(cis)
<1>0. /\ Shape(t, S, D) /\ 0 \notin S /\ NoRedRed(t, S, node) /\ Heights(t, S, h, 0, "left")
      /\ S \subseteq RB!Keys /\ S \subseteq RB!Nodes /\ 0 \in RB!Nodes
  BY ShapeKeys DEF InsertKept
<1>1. /\ node \in S /\ p \in S /\ g \in S /\ p # node /\ g # p /\ g # node
      /\ t.red[node] /\ t.red[p] /\ ~t.red[g] /\ ~RB!IsRed(t, t.root)
      /\ cis \in Sides /\ t[cis][g] = p /\ t[RB!Other(cis)][g] # p
  BY Grand
<1>2. trans \in Sides /\ w = t[trans][g] /\ w # 0 /\ t.red[w] /\ \A s \in Sides : s = cis \/ s = trans
  <2>1. trans \in Sides /\ \A s \in Sides : s # cis => s = trans
    BY <1>1, OtherSide
  <2>2. w # 0 /\ t.red[w]
    BY DEF RB!IsRed
  <2>3. w = t[trans][g]
    OBVIOUS
  <2> HIDE DEF trans
  <2>4. QED
    BY <2>1, <2>2, <2>3
<1>h. t[cis][g] = p /\ t[trans][g] = w
  BY <1>1, <1>2
<1> HIDE DEF trans
<1>3. w \in S /\ w # g /\ w # p /\ t.parent[w] = g
  <2>1. t[trans][g] \in S /\ t[trans][g] # g /\ t.parent[t[trans][g]] = g
    BY <1>0, <1>1, <1>2, ChildIs
  <2>2. w # p
    BY <1>1, <1>2 DEF trans
  <2>3. QED
    BY <1>2, <2>1, <2>2
<1> DEFINE t1 == RB!Paint(t, p, FALSE)
           t2 == RB!Paint(t1, w, FALSE)
           u == RB!Paint(t2, g, TRUE)
           H == [k \in RB!Nodes |-> IF k \in {p, w} THEN h[k] + 1 ELSE h[k]]
<1>4. Shape(t1, S, D) /\ Painted(t, t1, p, FALSE) /\ SamePointers(t, t1)
  BY <1>0, <1>1, PaintShape
<1>5. Shape(t2, S, D) /\ Painted(t1, t2, w, FALSE) /\ SamePointers(t1, t2)
  BY <1>3, <1>4, PaintShape
<1>6. Shape(u, S, D) /\ Painted(t2, u, g, TRUE) /\ SamePointers(t2, u)
  BY <1>1, <1>5, PaintShape
<1>g. u = RB!Paint(RB!Paint(RB!Paint(t, p, FALSE), w, FALSE), g, TRUE)
  OBVIOUS
<1> HIDE DEF u, t2, t1
<1>7. /\ u.root = t.root /\ \A k \in S, s \in Sides : u[s][k] = t[s][k]
      /\ \A k \in S : u.red[k] = IF k = g THEN TRUE ELSE IF k \in {p, w} THEN FALSE ELSE t.red[k]
  <2>1. u.root = t.root
    BY <1>4, <1>5, <1>6 DEF Painted
  <2>2. \A k \in S, s \in Sides : u[s][k] = t[s][k]
    BY <1>0, <1>4, <1>5, <1>6 DEF SamePointers
  <2>3. /\ \A k \in S : u.red[k] = IF k = g THEN TRUE ELSE t2.red[k]
        /\ \A k \in S : t2.red[k] = IF k = w THEN FALSE ELSE t1.red[k]
        /\ \A k \in S : t1.red[k] = IF k = p THEN FALSE ELSE t.red[k]
    BY <1>0, <1>4, <1>5, <1>6 DEF Painted
  <2>4. QED
    BY <2>1, <2>2, <2>3
<1>8. \A k \in S, s \in Sides : t[s][k] \in {p, w} => k = g
  BY <1>0, <1>1, <1>3 DEF Shape, Linked
<1>9. \A k \in S, s \in Sides : t[s][k] = node => k = p
  BY <1>0, <1>1 DEF Shape, Linked, Above
<1>10. ASSUME NEW k \in S, NEW s \in Sides
       PROVE  H[k] = H[u[s][k]] + Black(u, k) + (IF k = 0 /\ s = "left" THEN 1 ELSE 0)
  <2>1. t[s][k] \in S \cup {0} /\ u[s][k] = t[s][k]
    BY <1>0, <1>7, ChildIs
  <2>2. h[k] = h[t[s][k]] + Black(t, k) + (IF k = 0 /\ s = "left" THEN 1 ELSE 0)
    BY <1>0 DEF Heights
  <2>3. h[k] \in Nat /\ h[t[s][k]] \in Nat /\ Black(t, k) \in Nat /\ k # 0 /\ t[s][k] \in RB!Nodes /\ k \in RB!Nodes
    BY <1>0, <2>1 DEF Heights, Black
  <2>4. h[k] = h[t[s][k]] + Black(t, k)
    BY <2>2, <2>3
  <2> DEFINE c == t[s][k]
  <2>5. H[c] = IF c \in {p, w} THEN h[c] + 1 ELSE h[c]
    BY <2>3
  <2>6. H[k] = IF k \in {p, w} THEN h[k] + 1 ELSE h[k]
    BY <2>3
  <2>e. u[s][k] = c /\ h[k] = h[c] + Black(t, k) /\ h[k] \in Nat /\ h[c] \in Nat
    BY <2>1, <2>3, <2>4
  <2>f. c \in {p, w} => k = g
    BY <1>8
  <2>g. k = g => c \in {p, w}
    BY <1>2, <1>h
  <2> HIDE DEF H, c
  <2>7. CASE k = g
    <3>1. Black(t, k) = 1 /\ Black(u, k) = 0
      BY <1>1, <1>7, <2>7 DEF Black
    <3>2. k \notin {p, w}
      BY <1>1, <1>3, <2>7
    <3>3. QED
      BY <2>3, <2>5, <2>6, <2>7, <2>e, <2>g, <3>1, <3>2
  <2>8. CASE k \in {p, w}
    <3>1. Black(t, k) = 0 /\ Black(u, k) = 1
      BY <1>1, <1>2, <1>3, <1>7, <2>8 DEF Black
    <3>2. c \notin {p, w}
      BY <1>1, <1>3, <2>8, <2>f
    <3>3. QED
      BY <2>3, <2>5, <2>6, <2>8, <2>e, <3>1, <3>2
  <2>9. CASE k # g /\ k \notin {p, w}
    <3>1. Black(t, k) = Black(u, k)
      BY <1>7, <2>9 DEF Black
    <3>2. QED
      BY <2>3, <2>5, <2>6, <2>9, <2>e, <2>f, <3>1
  <2>10. QED
    BY <2>7, <2>8, <2>9
<1>11. H \in [RB!Nodes -> Nat] /\ H[0] = 0
  <2>1. h \in [RB!Nodes -> Nat] /\ h[0] = 0
    BY <1>0 DEF Heights
  <2>2. 0 \notin {p, w}
    BY <1>0, <1>1, <1>3
  <2>3. H[0] = 0
    BY <1>0, <2>1, <2>2
  <2>4. \A k \in RB!Nodes : H[k] \in Nat
    BY <2>1
  <2>5. QED
    BY <2>3, <2>4
<1> HIDE DEF H
<1>12. Heights(u, S, H, 0, "left")
  BY <1>10, <1>11 DEF Heights
<1>13. NoRedRed(u, S, g)
  <2> SUFFICES ASSUME NEW k \in S, NEW s \in Sides, u.red[k], u[s][k] # g
               PROVE  ~RB!IsRed(u, u[s][k])
    BY DEF NoRedRed
  <2>1. t[s][k] \in S \cup {0} /\ u[s][k] = t[s][k]
    BY <1>0, <1>7, ChildIs
  <2>2. CASE k = g
    <3>1. t[s][k] = p \/ t[s][k] = w
      BY <1>2, <1>h, <2>2
    <3>2. QED
      BY <1>1, <1>3, <1>7, <2>1, <3>1 DEF RB!IsRed
  <2>3. CASE k # g
    <3>1. k \notin {p, w} /\ t.red[k]
      BY <1>7, <2>3
    <3>2. t[s][k] = node \/ ~RB!IsRed(t, t[s][k])
      BY <1>0, <3>1 DEF NoRedRed
    <3>3. ~RB!IsRed(t, t[s][k])
      BY <1>9, <3>1, <3>2
    <3> DEFINE c == t[s][k]
    <3>4. c \in S \cup {0} /\ u[s][k] = c /\ c # g /\ ~RB!IsRed(t, c)
      BY <2>1, <3>3
    <3> HIDE DEF c
    <3>5. QED
      BY <1>7, <3>4 DEF RB!IsRed
  <2>4. QED
    BY <2>2, <2>3
<1>14. u.red[g] /\ (RB!IsRed(u, u.root) => u.root = g)
  <2>1. t.root \in S \cup {0}
    BY <1>0, ShapeKeys
  <2> DEFINE r == t.root
  <2>2. u.root = r /\ r \in S \cup {0} /\ ~RB!IsRed(t, r)
    BY <1>1, <1>7, <2>1
  <2> HIDE DEF r
  <2>3. QED
    BY <1>1, <1>7, <2>2 DEF RB!IsRed
<1>15. QED
  BY <1>1, <1>6, <1>12, <1>13, <1>14, <1>g DEF InsertKept

(* Two red nodes in a row are on the same side, and the uncle is black. *)
Line(t, S, D, h, g, cis, mid, low) ==
    /\ Shape(t, S, D) /\ Heights(t, S, h, 0, "left") /\ NoRedRed(t, S, low)
    /\ ~RB!IsRed(t, t.root) /\ g \in S /\ cis \in Sides /\ ~t.red[g]
    /\ mid \in S /\ mid = t[cis][g] /\ t.red[mid] /\ mid # g
    /\ low \in S /\ low = t[cis][mid] /\ t.red[low]
    /\ ~RB!IsRed(t, t[RB!Other(cis)][g])

(* node is an inner grandchild: its parent goes below it. *)
LEMMA Straightened ==
  ASSUME TreeUsed, NEW t, NEW S, NEW D, NEW h, NEW node, InsertKept(t, S, D, h, node),
         NEW p, NEW g, NEW cis, Above(t, node, p, g, cis), ~RB!IsRed(t, t[RB!Other(cis)][g]),
         node = t[RB!Other(cis)][p]
  PROVE  \E E : Line(RB!Rotate(t, p, cis), S, E, h, g, cis, node, p)
<1> DEFINE trans == RB!Other(cis)
<1>0. /\ Shape(t, S, D) /\ 0 \notin S /\ NoRedRed(t, S, node) /\ Heights(t, S, h, 0, "left")
      /\ S \subseteq RB!Keys /\ S \subseteq RB!Nodes /\ 0 \in RB!Nodes
  BY ShapeKeys DEF InsertKept
<1>1. /\ node \in S /\ p \in S /\ g \in S /\ p # node /\ g # p /\ g # node
      /\ t.red[node] /\ t.red[p] /\ ~t.red[g] /\ ~RB!IsRed(t, t.root)
      /\ cis \in Sides /\ t[cis][g] = p
  BY Grand
<1>2. trans \in Sides /\ RB!Other(trans) = cis /\ trans # cis /\ \A s \in Sides : s = cis \/ s = trans
  BY <1>1, OtherSide
<1>3. node = t[trans][p] /\ node # 0 /\ ~RB!IsRed(t, t[trans][g])
  BY <1>0, <1>1
<1> DEFINE u == RB!Rotate(t, p, cis)
           E == After(t, D, p, cis)
           m == t[cis][node]
<1>4. Rotated(t, u, p, cis) /\ Shape(u, S, E)
  BY <1>0, <1>1, <1>3, RotateKeeps
<1>g. t[cis][node] = m /\ trans = RB!Other(cis) /\ u = RB!Rotate(t, p, cis)
  OBVIOUS
<1> HIDE DEF u, E, trans, m
<1>5. /\ m \in S \cup {0} /\ m # node /\ m # p
      /\ u.root = IF p = t.root THEN node ELSE t.root
      /\ u[cis][node] = p /\ u[trans][node] = t[trans][node] /\ u[trans][p] = m /\ u[cis][p] = t[cis][p]
      /\ \A k \in S \ {p, node}, s \in Sides : u[s][k] = IF t[s][k] = p THEN node ELSE t[s][k]
      /\ \A k \in S \ {p, node}, s \in Sides : t[s][k] # node
  BY <1>0, <1>1, <1>3, <1>4, <1>g, Turned
<1>6. u.red = t.red
  BY <1>4 DEF Rotated
<1>7. t[cis][p] # node /\ t[trans][node] # node
  <2>1. t[cis][p] # 0 => t[cis][p] # t[trans][p]
    BY <1>0, <1>1, <1>g, ChildIs
  <2>2. t[trans][node] # node
    BY <1>0, <1>1, <1>2, ChildIs
  <2>3. QED
    BY <1>3, <2>1, <2>2
<1>8. /\ ~RB!IsRed(t, t[cis][p]) /\ ~RB!IsRed(t, m) /\ ~RB!IsRed(t, t[trans][node])
  BY <1>0, <1>1, <1>2, <1>5, <1>7, <1>g DEF NoRedRed
<1>9. NoRedRed(u, S, p)
  <2> DEFINE X == {p, node}
  <2>1. X \in SUBSET S /\ p \in X /\ t[RB!Other(cis)][p] \in X /\ t[RB!Other(cis)][p] # 0
    BY <1>1, <1>3, <1>g
  <2>2. Repainted(t, t, S, X) /\ Entered(t, S, X, p)
    BY <1>5 DEF Repainted, Entered
  <2>3. \A k \in X, s \in Sides : t.red[k] => (u[s][k] = p \/ ~RB!IsRed(u, u[s][k]))
    <3>1. \A k : RB!IsRed(u, k) = RB!IsRed(t, k)
      BY <1>6 DEF RB!IsRed
    <3>2. QED
      BY <1>2, <1>5, <1>8, <3>1
  <2>4. node \in X \cup {0} /\ node # p
    BY <1>1
  <2>5. Calm(t, u, X, p)
    BY <2>3 DEF Calm
  <2> HIDE DEF X
  <2>6. QED
    BY <1>0, <1>1, <1>4, <2>1, <2>2, <2>4, <2>5, ColoursAfter
<1>10. Heights(u, S, h, 0, "left")
  <2> DEFINE X == {p, node}
  <2>1. X \in SUBSET S /\ p \in X /\ t[RB!Other(cis)][p] \in X /\ t[RB!Other(cis)][p] # 0
    BY <1>1, <1>3, <1>g
  <2>2. Repainted(t, t, S, X) /\ Entered(t, S, X, p) /\ StaysShort(S, X, 0, "left", 0, "left")
    BY <1>5 DEF Repainted, Entered, StaysShort
  <2>3. h \in [RB!Nodes -> Nat] /\ h[0] = 0
    BY <1>0 DEF Heights
  <2>4. Black(t, p) = 0 /\ Black(t, node) = 0 /\ p # 0 /\ node # 0
    BY <1>0, <1>1 DEF Black
  <2>5. \A s \in Sides : h[p] = h[t[s][p]] /\ h[node] = h[t[s][node]]
    <3> SUFFICES ASSUME NEW s \in Sides PROVE h[p] = h[t[s][p]] /\ h[node] = h[t[s][node]]
      OBVIOUS
    <3>1. /\ h[p] = h[t[s][p]] + Black(t, p) + (IF p = 0 /\ s = "left" THEN 1 ELSE 0)
          /\ h[node] = h[t[s][node]] + Black(t, node) + (IF node = 0 /\ s = "left" THEN 1 ELSE 0)
      BY <1>0, <1>1 DEF Heights
    <3>2. t[s][p] \in RB!Nodes /\ t[s][node] \in RB!Nodes
      <4>1. t[s][p] \in S \cup {0} /\ t[s][node] \in S \cup {0}
        BY <1>0, <1>1, ChildIs
      <4>2. QED
        BY <1>0, <4>1
    <3>3. h[t[s][p]] \in Nat /\ h[t[s][node]] \in Nat
      BY <2>3, <3>2
    <3>4. QED
      BY <2>4, <3>1, <3>3
  <2>6. h[p] = h[node] /\ h[p] = h[t[cis][p]] /\ h[p] = h[m] /\ h[node] = h[t[trans][node]]
    BY <1>1, <1>2, <1>3, <1>g, <2>5
  <2>7. \A k \in X, s \in Sides : h[u[s][k]] = h[k]
    <3>1. /\ h[u[cis][node]] = h[node] /\ h[u[trans][node]] = h[node]
          /\ h[u[cis][p]] = h[p] /\ h[u[trans][p]] = h[p]
      BY <1>5, <2>6
    <3>2. QED
      BY <1>2, <3>1
  <2>8. \A k \in X, s \in Sides :
           h[k] = h[u[s][k]] + Black(t, k) + (IF k = 0 /\ s = "left" THEN 1 ELSE 0)
    <3> SUFFICES ASSUME NEW k \in X, NEW s \in Sides
                 PROVE  h[k] = h[u[s][k]] + Black(t, k) + (IF k = 0 /\ s = "left" THEN 1 ELSE 0)
      OBVIOUS
    <3>1. Black(t, k) = 0 /\ k # 0 /\ h[k] \in Nat
      BY <1>0, <1>1, <2>3, <2>4
    <3>2. h[u[s][k]] = h[k]
      BY <2>7
    <3>3. QED
      BY <3>1, <3>2
  <2>9. h[t[RB!Other(cis)][p]] = h[p]
    BY <1>3, <1>g, <2>6
  <2> HIDE DEF X
  <2>10. CountedIn(t, u, X, h, 0, "left") /\ NewIn(h, h, X)
    BY <2>3, <2>8 DEF CountedIn, NewIn
  <2>11. QED
    BY <1>0, <1>1, <1>4, <2>1, <2>2, <2>9, <2>10, HeightsAfter
<1>11. u[cis][g] = node /\ ~RB!IsRed(u, u[trans][g]) /\ ~RB!IsRed(u, u.root)
  <2>1. u[cis][g] = node
    BY <1>1, <1>5
  <2>2. t[trans][g] # p
    BY <1>1, <1>g, Grand
  <2>3. u[trans][g] = t[trans][g]
    BY <1>1, <1>2, <1>5, <2>2
  <2>4. u.root = t.root
    BY <1>0, <1>1, <1>5 DEF RB!IsRed
  <2>5. QED
    BY <1>1, <1>3, <1>6, <2>1, <2>3, <2>4 DEF RB!IsRed
<1>12. Line(u, S, E, h, g, cis, node, p)
  BY <1>1, <1>4, <1>5, <1>6, <1>9, <1>10, <1>11, <1>g DEF Line
<1>13. QED
  BY <1>12, <1>g

(* The two nodes change places and colours, and the loop ends. *)
LEMMA LineTurned ==
  ASSUME TreeUsed, NEW t, NEW S, NEW D, NEW h, NEW g, NEW cis, NEW mid, NEW low,
         Line(t, S, D, h, g, cis, mid, low)
  PROVE  Settled(RB!Rotate(RB!Paint(RB!Paint(t, mid, FALSE), g, TRUE), g, RB!Other(cis)), S, low)
<1> DEFINE trans == RB!Other(cis)
           X == {mid, g}
           Y == {mid, g, low}
           H == [k \in RB!Nodes |-> IF k = g THEN h[mid] ELSE IF k = mid THEN h[mid] + 1 ELSE h[k]]
<1>1. /\ Shape(t, S, D) /\ Heights(t, S, h, 0, "left") /\ NoRedRed(t, S, low)
      /\ g \in S /\ cis \in Sides /\ ~t.red[g]
      /\ mid \in S /\ t[cis][g] = mid /\ t.red[mid] /\ mid # g
      /\ low \in S /\ t[cis][mid] = low /\ t.red[low] /\ ~RB!IsRed(t, t[trans][g])
  BY DEF Line
<1>0. /\ 0 \notin S /\ S \subseteq RB!Keys /\ S \subseteq RB!Nodes /\ 0 \in RB!Nodes
  BY <1>1, ShapeKeys
<1>2. trans \in Sides /\ RB!Other(trans) = cis /\ trans # cis /\ \A s \in Sides : s = cis \/ s = trans
  <2>1. trans \in Sides /\ RB!Other(trans) = cis /\ trans # cis /\ \A s \in Sides : s # cis => s = trans
    BY <1>1, OtherSide
  <2> HIDE DEF trans
  <2>2. QED
    BY <2>1
<1>g. trans = RB!Other(cis)
  OBVIOUS
<1> HIDE DEF H, trans, X, Y
<1> DEFINE w == t[trans][g]
<1>3. /\ w \in S \cup {0} /\ w # mid /\ w # g /\ mid # low /\ t.parent[low] = mid /\ t.parent[mid] = g
      /\ low # t[trans][mid] /\ low # g /\ low # w
  <2>1. w \in S \cup {0} /\ w # g /\ (t[trans][g] # t[RB!Other(trans)][g] \/ w = 0)
    BY <1>1, <1>2, ChildIs
  <2>2. w \in S \cup {0} /\ w # g
    BY <1>1, <1>2, ChildIs
  <2>3. w # mid
    BY <1>0, <1>1, <1>2, <2>1
  <2>4. mid # low /\ t.parent[low] = mid /\ t.parent[mid] = g /\ low # t[RB!Other(cis)][mid]
    BY <1>0, <1>1, ChildIs
  <2>5. low # g
    BY <1>1
  <2>6. w # 0 => t.parent[w] = g
    BY <1>1, <1>2, ChildIs
  <2> HIDE DEF w
  <2>7. low # w
    BY <1>0, <1>1, <2>4, <2>6
  <2>8. QED
    BY <1>g, <2>2, <2>3, <2>4, <2>5, <2>7
<1> DEFINE t1 == RB!Paint(t, mid, FALSE)
           t2 == RB!Paint(t1, g, TRUE)
<1>4. Shape(t1, S, D) /\ Painted(t, t1, mid, FALSE) /\ SamePointers(t, t1)
  BY <1>1, PaintShape
<1>5. Shape(t2, S, D) /\ Painted(t1, t2, g, TRUE) /\ SamePointers(t1, t2)
  BY <1>1, <1>4, PaintShape
<1>6. /\ \A k \in S, s \in Sides : t2[s][k] = t[s][k]
      /\ \A k \in S : t2.red[k] = IF k = g THEN TRUE ELSE IF k = mid THEN FALSE ELSE t.red[k]
  <2>1. \A k \in S, s \in Sides : t2[s][k] = t[s][k]
    BY <1>0, <1>4, <1>5 DEF SamePointers
  <2>2. /\ \A k \in S : t2.red[k] = IF k = g THEN TRUE ELSE t1.red[k]
        /\ \A k \in S : t1.red[k] = IF k = mid THEN FALSE ELSE t.red[k]
    BY <1>0, <1>4, <1>5 DEF Painted
  <2>3. QED
    BY <2>1, <2>2
<1> DEFINE v == RB!Rotate(t2, g, trans)
           E == After(t2, D, g, trans)
<1>7. t2[RB!Other(trans)][g] = mid /\ mid # 0 /\ t2[trans][g] = w
  BY <1>0, <1>1, <1>2, <1>6
<1> DEFINE m == t[trans][mid]
<1>8. Rotated(t2, v, g, trans) /\ Shape(v, S, E)
  BY <1>1, <1>2, <1>5, <1>7, RotateKeeps
<1>h. v = RB!Rotate(RB!Paint(RB!Paint(t, mid, FALSE), g, TRUE), g, RB!Other(cis))
  BY <1>g
<1>i. t[trans][mid] = m /\ t[trans][g] = w /\ t2[trans][mid] = m
  BY <1>1, <1>2, <1>6
<1> HIDE DEF v, E, t2, t1, w, m
<1>9. /\ m \in S \cup {0} /\ m # mid /\ m # g
      /\ v[trans][mid] = g /\ v[cis][mid] = t2[cis][mid] /\ v[cis][g] = m /\ v[trans][g] = t2[trans][g]
      /\ \A k \in S \ {g, mid}, s \in Sides : v[s][k] = IF t2[s][k] = g THEN mid ELSE t2[s][k]
      /\ \A k \in S \ {g, mid}, s \in Sides : t2[s][k] # mid
  BY <1>1, <1>2, <1>5, <1>7, <1>8, <1>i, Turned
<1>10. v[trans][mid] = g /\ v[cis][mid] = low /\ v[cis][g] = m /\ v[trans][g] = w
  BY <1>1, <1>6, <1>7, <1>9
<1>11. v.red = t2.red
  BY <1>8 DEF Rotated
<1>12. Repainted(t2, t, S, X) /\ Repainted(t2, t, S, Y)
  BY <1>6 DEF Repainted, X, Y
<1>13. /\ X \in SUBSET S /\ g \in X /\ t2[RB!Other(trans)][g] \in X /\ t2[RB!Other(trans)][g] # 0
       /\ Y \in SUBSET S /\ g \in Y /\ t2[RB!Other(trans)][g] \in Y
  BY <1>0, <1>1, <1>7 DEF X, Y
<1>14. \A k \in S, s \in Sides : (t[s][k] = low => k = mid) /\ (t[s][k] = mid => k = g)
  BY <1>0, <1>1, <1>3 DEF Shape, Linked
<1>15. Entered(t2, S, X, g) /\ Entered(t2, S, Y, g)
  BY <1>6, <1>14 DEF Entered, X, Y
<1>16. NoRedRed(v, S, 0)
  <2>1. \A k : RB!IsRed(v, k) <=> k # 0 /\ t2.red[k]
    BY <1>11 DEF RB!IsRed
  <2>2. ~RB!IsRed(v, m) /\ ~RB!IsRed(v, w)
    <3>1. t[trans][mid] = low \/ ~RB!IsRed(t, t[trans][mid])
      BY <1>1, <1>2 DEF NoRedRed
    <3>2. ~RB!IsRed(t, m) /\ ~RB!IsRed(t, w)
      BY <1>1, <1>3, <1>i, <3>1
    <3>3. m \in S \cup {0} /\ w \in S \cup {0}
      BY <1>3, <1>9
    <3>4. QED
      BY <1>3, <1>6, <1>9, <2>1, <3>2, <3>3 DEF RB!IsRed
  <2>3. \A s \in Sides : v[s][low] = 0 \/ ~RB!IsRed(v, v[s][low])
    <3> SUFFICES ASSUME NEW s \in Sides PROVE ~RB!IsRed(v, v[s][low])
      OBVIOUS
    <3> DEFINE c == t[s][low]
    <3>1. c \in S \cup {0} /\ c # low
      BY <1>1, ChildIs
    <3>2. c = low \/ ~RB!IsRed(t, c)
      BY <1>1 DEF NoRedRed
    <3>3. c # g
      <4>1. mid \in D[g] /\ low \in D[mid] /\ g \notin D[mid] /\ D[low] \subseteq D[mid]
        BY <1>0, <1>1, ChildIs
      <4>2. c # 0 => c \in D[low]
        BY <1>1, ChildIs
      <4> HIDE DEF c
      <4>3. QED
        BY <1>0, <1>1, <4>1, <4>2
    <3>4. v[s][low] = c
      BY <1>1, <1>3, <1>6, <1>9, <3>3
    <3>5. c # mid
      BY <1>1, <1>3, <1>14
    <3> HIDE DEF c
    <3>6. QED
      BY <1>6, <2>1, <3>1, <3>2, <3>3, <3>4, <3>5 DEF RB!IsRed
  <2>4. ~t2.red[mid] /\ ~RB!IsRed(v, v[cis][g]) /\ ~RB!IsRed(v, v[trans][g])
    BY <1>1, <1>6, <1>10, <2>2
  <2>5. Calm(t2, v, Y, 0)
    BY <1>2, <2>3, <2>4 DEF Calm, Y
  <2>6. low \in Y \cup {0} /\ low # g /\ (t2.red[t2[RB!Other(trans)][g]] => t.red[g])
    BY <1>3, <1>7, <2>4 DEF Y
  <2>7. QED
    BY <1>1, <1>2, <1>5, <1>8, <1>12, <1>13, <1>15, <2>5, <2>6, ColoursAfter
<1>17. Heights(v, S, H, 0, "left")
  <2>1. h \in [RB!Nodes -> Nat] /\ h[0] = 0
    BY <1>1 DEF Heights
  <2>2. NewIn(H, h, X)
    BY <1>0, <1>1, <2>1 DEF NewIn, H, X
  <2>3. H[g] = h[mid] /\ H[mid] = h[mid] + 1 /\ H[low] = h[low] /\ H[m] = h[m] /\ H[w] = h[w]
    BY <1>0, <1>1, <1>3, <1>9 DEF H
  <2>4. /\ h[g] = h[t[cis][g]] + Black(t, g) + (IF g = 0 /\ cis = "left" THEN 1 ELSE 0)
        /\ h[g] = h[t[trans][g]] + Black(t, g) + (IF g = 0 /\ trans = "left" THEN 1 ELSE 0)
        /\ h[mid] = h[t[cis][mid]] + Black(t, mid) + (IF mid = 0 /\ cis = "left" THEN 1 ELSE 0)
        /\ h[mid] = h[t[trans][mid]] + Black(t, mid) + (IF mid = 0 /\ trans = "left" THEN 1 ELSE 0)
    BY <1>1, <1>2 DEF Heights
  <2>5. Black(t, g) = 1 /\ Black(t, mid) = 0 /\ g # 0 /\ mid # 0 /\ Black(t2, g) = 0 /\ Black(t2, mid) = 1
    BY <1>0, <1>1, <1>6 DEF Black
  <2>6. h[g] \in Nat /\ h[mid] \in Nat /\ h[low] \in Nat /\ h[m] \in Nat /\ h[w] \in Nat
    BY <1>0, <1>1, <1>3, <1>9, <2>1
  <2>7. h[g] = h[mid] + 1 /\ h[w] = h[mid] /\ h[low] = h[mid] /\ h[m] = h[mid]
    BY <1>1, <1>i, <2>4, <2>5, <2>6
  <2>8. H[t2[RB!Other(trans)][g]] = h[g]
    BY <1>7, <2>3, <2>7
  <2>9. StaysShort(S, X, 0, "left", 0, "left")
    BY DEF StaysShort
  <2>10. /\ H[g] = H[v[cis][g]] + Black(t2, g) /\ H[g] = H[v[trans][g]] + Black(t2, g)
         /\ H[mid] = H[v[cis][mid]] + Black(t2, mid) /\ H[mid] = H[v[trans][mid]] + Black(t2, mid)
    BY <1>10, <2>3, <2>5, <2>6, <2>7
  <2>11. CountedIn(t2, v, X, H, 0, "left")
    <3> SUFFICES ASSUME NEW k \in X, NEW s \in Sides
                 PROVE  H[k] = H[v[s][k]] + Black(t2, k) + (IF k = 0 /\ s = "left" THEN 1 ELSE 0)
      BY DEF CountedIn
    <3>1. k # 0 /\ H[k] = H[v[s][k]] + Black(t2, k)
      BY <1>2, <2>5, <2>10 DEF X
    <3>2. H[k] \in Nat
      BY <2>3, <2>6 DEF X
    <3>3. QED
      BY <3>1, <3>2
  <2>12. QED
    BY <1>1, <1>2, <1>5, <1>8, <1>12, <1>13, <1>15, <2>2, <2>8, <2>9, <2>11, HeightsAfter
<1>18. v.parent[low] = mid
  <2>1. v[cis][mid] # 0 => v.parent[v[cis][mid]] = mid
    BY <1>1, <1>8 DEF Shape, Linked
  <2>2. QED
    BY <1>0, <1>1, <1>10, <2>1
<1>19. ~RB!IsRed(v, mid)
  BY <1>1, <1>6, <1>11 DEF RB!IsRed
<1>20. Settled(v, S, low)
  BY <1>1, <1>8, <1>16, <1>17, <1>18, <1>19 DEF Settled
<1>21. QED
  BY <1>20, <1>h

(* The cases of a round after an insertion. *)
LEMMA RoundStays ==
  ASSUME NEW s, ~RB!IsRed(s.tree, s.tree.parent[s.node])
  PROVE  RB!InsertRound(s) = s
BY DEF RB!InsertRound

LEMMA RoundUp ==
  ASSUME NEW s, NEW p, NEW g, NEW cis,
         Above(s.tree, s.node, p, g, cis), RB!IsRed(s.tree, s.tree[RB!Other(cis)][g])
  PROVE  RB!InsertRound(s) =
            [tree |-> RB!Paint(RB!Paint(RB!Paint(s.tree, p, FALSE), s.tree[RB!Other(cis)][g], FALSE), g, TRUE),
             node |-> g]
BY DEF RB!InsertRound, Above

LEMMA RoundInner ==
  ASSUME NEW s, NEW p, NEW g, NEW cis,
         Above(s.tree, s.node, p, g, cis), ~RB!IsRed(s.tree, s.tree[RB!Other(cis)][g]), s.node = s.tree[RB!Other(cis)][p]
  PROVE  RB!InsertRound(s) =
            [tree |-> RB!Rotate(RB!Paint(RB!Paint(RB!Rotate(s.tree, p, cis), s.node, FALSE), g, TRUE),
                                g, RB!Other(cis)),
             node |-> p]
BY DEF RB!InsertRound, Above

LEMMA RoundOuter ==
  ASSUME NEW s, NEW p, NEW g, NEW cis,
         Above(s.tree, s.node, p, g, cis), ~RB!IsRed(s.tree, s.tree[RB!Other(cis)][g]), s.node # s.tree[RB!Other(cis)][p]
  PROVE  RB!InsertRound(s) =
            [tree |-> RB!Rotate(RB!Paint(RB!Paint(s.tree, p, FALSE), g, TRUE), g, RB!Other(cis)),
             node |-> s.node]
BY DEF RB!InsertRound, Above

LEMMA KeptAt ==
  ASSUME TreeUsed, NEW t, NEW S, NEW node
  PROVE  /\ \A D, h : InsertKept(t, S, D, h, node) => t \in RB!Tree /\ node \in RB!Nodes
         /\ Settled(t, S, node) => t \in RB!Tree /\ node \in RB!Nodes
BY ShapeKeys DEF InsertKept, Settled

(* A round goes up two levels, or it is the last. *)
LEMMA InsertRoundIs ==
  ASSUME TreeUsed, NEW s \in [tree : RB!Tree, node : RB!Nodes], NEW S, NEW D, NEW h, InsertKept(s.tree, S, D, h, s.node)
  PROVE  /\ RB!InsertRound(s) \in [tree : RB!Tree, node : RB!Nodes]
         /\ \/ Settled(RB!InsertRound(s).tree, S, RB!InsertRound(s).node)
            \/ \E H : /\ InsertKept(RB!InsertRound(s).tree, S, D, H, RB!InsertRound(s).node)
                      /\ Cardinality(D[s.node]) < Cardinality(D[RB!InsertRound(s).node])
<1> DEFINE t == s.tree
           node == s.node
           r == RB!InsertRound(s)
<1>1. InsertKept(t, S, D, h, node) /\ s.tree = t /\ s.node = node /\ r = RB!InsertRound(s)
  OBVIOUS
<1>2. CASE ~RB!IsRed(s.tree, s.tree.parent[s.node])
  <2>1. r = s
    BY <1>2, RoundStays
  <2>2. NoRedRed(t, S, 0)
    <3> SUFFICES ASSUME NEW k \in S, NEW side \in Sides, t.red[k], t[side][k] = node PROVE FALSE
      BY <1>1 DEF NoRedRed, InsertKept, RB!IsRed
    <3>1. Shape(t, S, D) /\ node \in S /\ 0 \notin S
      BY <1>1, ShapeKeys DEF InsertKept
    <3>2. t.parent[node] = k
      BY <3>1 DEF Shape, Linked
    <3>3. QED
      BY <1>1, <1>2, <3>1, <3>2 DEF RB!IsRed
  <2>3. Settled(t, S, node)
    BY <1>1, <1>2, <2>2 DEF Settled, InsertKept
  <2>4. QED
    BY <1>1, <2>1, <2>3
<1>3. CASE RB!IsRed(s.tree, s.tree.parent[s.node])
  <2> DEFINE p == t.parent[node]
             g == t.parent[p]
             cis == RB!SideOf(t, p, g)
             w == t[RB!Other(cis)][g]
  <2>1. Above(t, node, p, g, cis)
    BY <1>1, <1>3 DEF Above
  <2>w. w = t[RB!Other(cis)][g]
    OBVIOUS
  <2> HIDE DEF p, g, cis, w, t, node, r
  <2>2. /\ node \in S /\ p \in S /\ g \in S /\ p # node /\ g # p /\ g # node
        /\ t.red[node] /\ t.red[p] /\ ~t.red[g] /\ ~RB!IsRed(t, t.root)
        /\ cis \in Sides /\ t[cis][g] = p /\ t[RB!Other(cis)][g] # p
        /\ t[RB!SideOf(t, node, p)][p] = node /\ RB!SideOf(t, node, p) \in Sides
        /\ t[RB!Other(RB!SideOf(t, node, p))][p] # node
        /\ D[node] \subseteq D[p] /\ D[p] \subseteq D[g] /\ g \in D[g] /\ g \notin D[p]
    BY <1>1, <2>1, Grand
  <2>3. CASE RB!IsRed(t, w)
    <3>1. /\ r.tree = RB!Paint(RB!Paint(RB!Paint(t, p, FALSE), w, FALSE), g, TRUE) /\ r.node = g
          /\ r = [tree |-> r.tree, node |-> r.node]
      <4>1. r = [tree |-> RB!Paint(RB!Paint(RB!Paint(t, p, FALSE), w, FALSE), g, TRUE), node |-> g]
        BY <2>1, <2>3, RoundUp DEF t, node, r, w
      <4>2. QED
        BY <4>1
    <3>a. \E H : InsertKept(RB!Paint(RB!Paint(RB!Paint(t, p, FALSE), w, FALSE), g, TRUE), S, D, H, g)
      BY <1>1, <2>1, <2>3, <2>w, InsertUp
    <3>2. PICK H : InsertKept(r.tree, S, D, H, g)
      BY <3>1, <3>a
    <3>3. D[node] \in SUBSET RB!Keys /\ D[g] \in SUBSET RB!Keys
      BY <1>1, <2>2, ShapeKeys DEF InsertKept
    <3>4. D[node] \subseteq D[g] /\ D[node] # D[g]
      BY <2>2
    <3>5. Cardinality(D[node]) < Cardinality(D[g])
      BY <3>3, <3>4, Smaller
    <3>6. QED
      BY <1>1, <2>2, <3>1, <3>2, <3>5, KeptAt
  <2>4. CASE ~RB!IsRed(t, w) /\ node = t[RB!Other(cis)][p]
    <3>1. /\ r.tree = RB!Rotate(RB!Paint(RB!Paint(RB!Rotate(t, p, cis), node, FALSE), g, TRUE), g, RB!Other(cis))
          /\ r.node = p /\ r = [tree |-> r.tree, node |-> r.node]
      <4>1. r = [tree |-> RB!Rotate(RB!Paint(RB!Paint(RB!Rotate(t, p, cis), node, FALSE), g, TRUE), g, RB!Other(cis)),
                 node |-> p]
        BY <2>1, <2>4, RoundInner DEF t, node, r, w
      <4>2. QED
        BY <4>1
    <3>a. ~RB!IsRed(t, t[RB!Other(cis)][g]) /\ node = t[RB!Other(cis)][p]
      BY <2>4, <2>w
    <3>2. PICK E : Line(RB!Rotate(t, p, cis), S, E, h, g, cis, node, p)
      BY <1>1, <2>1, <3>a, Straightened
    <3>3. Settled(r.tree, S, p)
      BY <3>1, <3>2, LineTurned
    <3>4. QED
      BY <1>1, <2>2, <3>1, <3>3, KeptAt
  <2>5. CASE ~RB!IsRed(t, w) /\ node # t[RB!Other(cis)][p]
    <3>1. /\ r.tree = RB!Rotate(RB!Paint(RB!Paint(t, p, FALSE), g, TRUE), g, RB!Other(cis))
          /\ r.node = node /\ r = [tree |-> r.tree, node |-> r.node]
      <4>1. r = [tree |-> RB!Rotate(RB!Paint(RB!Paint(t, p, FALSE), g, TRUE), g, RB!Other(cis)), node |-> node]
        BY <2>1, <2>5, RoundOuter DEF t, node, r, w
      <4>2. QED
        BY <4>1
    <3>2. t[cis][p] = node
      <4>1. RB!SideOf(t, node, p) = cis \/ RB!SideOf(t, node, p) = RB!Other(cis)
        BY <2>2, OtherSide
      <4>2. QED
        BY <2>2, <2>5, <4>1
    <3>3. ~RB!IsRed(t, t[RB!Other(cis)][g])
      BY <2>5, <2>w
    <3>4. Line(t, S, D, h, g, cis, p, node)
      BY <1>1, <2>2, <3>2, <3>3 DEF Line, InsertKept
    <3>5. Settled(r.tree, S, node)
      BY <3>1, <3>4, LineTurned
    <3>6. QED
      BY <1>1, <2>2, <3>1, <3>5, KeptAt
  <2>6. QED
    BY <2>3, <2>4, <2>5 DEF r
<1>4. QED
  BY <1>2, <1>3

(* What the loop leaves behind is a red-black tree. *)
LEMMA Inserted ==
  ASSUME TreeUsed, NEW t, NEW S, NEW D0, NEW h, NEW node, InsertKept(t, S, D0, h, node)
  PROVE  \E D, H : Good(RB!RebalanceAfterInsert(t, node), S, D, H)
<1> DEFINE States == [tree : RB!Tree, node : RB!Nodes]
           step == [s \in States |-> RB!InsertRound(s)]
           start == [tree |-> t, node |-> node]
           last == RB!Walk(step, start)
<1>1. start \in States
  BY KeptAt
<1>2. RB!RebalanceAfterInsert(t, node) = RB!Paint(last.tree, last.tree.root, FALSE)
  BY DEF RB!RebalanceAfterInsert
<1>3. \A s \in States : step[s] = RB!InsertRound(s)
  OBVIOUS
<1>4. start.tree = t /\ start.node = node
  OBVIOUS
<1> HIDE DEF step, States, start, last
<1>5. PICK at : /\ at[0] = start
                /\ \A n \in 0..(MaxKey - 1) : at[n + 1] = step[at[n]]
                /\ last = at[MaxKey]
  BY WalkIs DEF last
<1> DEFINE Rising(n) == \E D, H : /\ InsertKept(at[n].tree, S, D, H, at[n].node)
                                  /\ Cardinality(D[at[n].node]) > n
           N == {n \in 0..MaxKey : /\ at[n] \in States
                                   /\ Settled(at[n].tree, S, at[n].node) \/ Rising(n)}
<1>6. MaxKey \in Nat /\ 0 \in 0..MaxKey
  BY DEF TreeUsed
<1>7. 0 \in N
  <2>1. D0[node] \in SUBSET RB!Keys /\ node \in D0[node]
    BY ShapeKeys, ChildIs DEF InsertKept, Sides
  <2>2. Cardinality({}) = 0 /\ {} # D0[node] /\ {} \subseteq D0[node] /\ {} \in SUBSET RB!Keys
    BY <2>1, FS_EmptySet
  <2>3. Cardinality(D0[node]) > 0
    BY <2>1, <2>2, Smaller
  <2>4. Rising(0)
    BY <1>4, <1>5, <2>3
  <2>5. QED
    BY <1>1, <1>5, <1>6, <2>4
<1>8. ASSUME NEW n \in 0..(MaxKey - 1), n \in N
      PROVE  n + 1 \in N
  <2>1. at[n + 1] = RB!InsertRound(at[n]) /\ at[n] \in States /\ n + 1 \in 0..MaxKey
    BY <1>3, <1>5, <1>6, <1>8
  <2>2. CASE Settled(at[n].tree, S, at[n].node)
    <3>1. at[n + 1] = at[n]
      BY <2>1, <2>2, RoundStays DEF Settled
    <3>2. QED
      BY <2>1, <2>2, <3>1
  <2>3. CASE Rising(n)
    <3>1. PICK D, H : InsertKept(at[n].tree, S, D, H, at[n].node) /\ Cardinality(D[at[n].node]) > n
      BY <2>3
    <3>2. /\ RB!InsertRound(at[n]) \in States
          /\ \/ Settled(RB!InsertRound(at[n]).tree, S, RB!InsertRound(at[n]).node)
             \/ \E K : /\ InsertKept(RB!InsertRound(at[n]).tree, S, D, K, RB!InsertRound(at[n]).node)
                       /\ Cardinality(D[at[n].node]) < Cardinality(D[RB!InsertRound(at[n]).node])
      BY <2>1, <3>1, InsertRoundIs DEF States
    <3>3. CASE Settled(at[n + 1].tree, S, at[n + 1].node)
      BY <2>1, <3>2, <3>3
    <3>4. CASE ~Settled(at[n + 1].tree, S, at[n + 1].node)
      <4>1. PICK K : /\ InsertKept(at[n + 1].tree, S, D, K, at[n + 1].node)
                     /\ Cardinality(D[at[n].node]) < Cardinality(D[at[n + 1].node])
        BY <2>1, <3>2, <3>4
      <4>2. D[at[n].node] \in SUBSET RB!Keys /\ D[at[n + 1].node] \in SUBSET RB!Keys
        BY <3>1, <4>1, ShapeKeys DEF InsertKept
      <4>3. Cardinality(D[at[n].node]) \in Int /\ Cardinality(D[at[n + 1].node]) \in Int
        BY <4>2, KeysCounted
      <4>4. Cardinality(D[at[n + 1].node]) > n + 1
        BY <3>1, <4>1, <4>3
      <4>5. Rising(n + 1)
        BY <4>1, <4>4
      <4>6. QED
        BY <2>1, <3>2, <4>5
    <3>5. QED
      BY <3>3, <3>4
  <2>4. QED
    BY <1>8, <2>2, <2>3
<1> HIDE DEF N
<1>9. MaxKey \in N
  BY <1>6, <1>7, <1>8, UpTo
<1>10. Settled(last.tree, S, last.node)
  <2>1. ASSUME Rising(MaxKey) PROVE FALSE
    <3>1. PICK D, H : InsertKept(at[MaxKey].tree, S, D, H, at[MaxKey].node) /\ Cardinality(D[at[MaxKey].node]) > MaxKey
      BY <2>1
    <3>2. D[at[MaxKey].node] \in SUBSET RB!Keys
      BY <3>1, ShapeKeys DEF InsertKept
    <3>3. Cardinality(D[at[MaxKey].node]) \in 0..MaxKey
      BY <3>2, KeysCounted
    <3>4. QED
      BY <1>6, <3>1, <3>3
  <2>2. QED
    BY <1>5, <1>9, <2>1 DEF N
<1>11. PICK D, H : Shape(last.tree, S, D) /\ Heights(last.tree, S, H, 0, "left") /\ NoRedRed(last.tree, S, 0)
  BY <1>10 DEF Settled
<1>12. \E K : Good(RB!Paint(last.tree, last.tree.root, FALSE), S, D, K)
  BY <1>11, PaintRoot
<1>13. QED
  BY <1>2, <1>12

(* The way down from node to key. *)
LEMMA ChildOf ==
  ASSUME TreeUsed, NEW t, NEW S, NEW D, Shape(t, S, D), NEW k \in S, NEW key \in RB!Keys, key # k
  PROVE  \E s \in Sides : /\ RB!Child(t, k, key) = t[s][k] /\ Below(s, key, k)
                          /\ s = IF key < k THEN "left" ELSE "right"
<1>1. k \in Int /\ key \in Int /\ t \in RB!Tree /\ k \in RB!Keys
  BY ShapeKeys, NodesAre
<1>2. t.left[k] = t["left"][k] /\ t.right[k] = t["right"][k]
  BY <1>1, Fields
<1>3. CASE key < k
  BY <1>1, <1>2, <1>3 DEF RB!Child, Below, Sides
<1>4. CASE ~(key < k)
  BY <1>1, <1>2, <1>4 DEF RB!Child, Below, Sides
<1>5. QED
  BY <1>3, <1>4

(* tree_find ends at the key, or at NULL if the key is not in the tree. *)
LEMMA FindIs ==
  ASSUME TreeUsed, NEW t, NEW S, NEW D, Shape(t, S, D), NEW key \in RB!Keys
  PROVE  RB!Find(t, key) = IF key \in S THEN key ELSE 0
<1> DEFINE step == [node \in RB!Nodes |-> IF node \in {0, key} THEN node ELSE RB!Child(t, node, key)]
           I == {x \in S \cup {0} : key \in S => key \in D[x]}
           r == RB!Walk(step, t.root)
<1>0. /\ S \subseteq RB!Nodes /\ S \cup {0} \subseteq RB!Nodes /\ 0 \notin S /\ D[0] = {}
      /\ t.root \in S \cup {0} /\ D[t.root] = S /\ S \subseteq RB!Keys /\ 0 \notin RB!Keys /\ S \subseteq Int
      /\ \A x \in RB!Nodes : D[x] \in SUBSET S
  BY ShapeKeys, NodesAre
<1>1. RB!Find(t, key) = r
  BY DEF RB!Find
<1>2. \A x \in S \cup {0} : step[x] = IF x \in {0, key} THEN x ELSE RB!Child(t, x, key)
  BY <1>0
<1>3. t.root \in I
  BY <1>0
<1> HIDE DEF step, r
<1>4. ASSUME NEW x \in I
      PROVE  /\ step[x] \in I /\ D[x] \in SUBSET RB!Keys
             /\ step[x] # x => D[step[x]] \subseteq D[x] /\ D[step[x]] # D[x]
  <2>1. D[x] \in SUBSET RB!Keys
    BY <1>0
  <2>2. CASE x \in {0, key}
    BY <1>2, <2>1, <2>2
  <2>3. CASE x \notin {0, key}
    <3>1. x \in S /\ x # key
      BY <2>3
    <3>2. PICK s \in Sides : step[x] = t[s][x] /\ Below(s, key, x)
      BY <1>2, <2>3, <3>1, ChildOf
    <3>3. /\ t[s][x] \in S \cup {0} /\ D[x] = {x} \cup D[t[s][x]] \cup D[t[RB!Other(s)][x]]
          /\ D[t[s][x]] \subseteq D[x] /\ D[t[s][x]] # D[x]
      BY <3>1, ChildIs
    <3>4. \A y \in D[t[RB!Other(s)][x]] : Below(RB!Other(s), y, x)
      BY <3>1, ChildIs, OtherSide
    <3>5. key \notin D[t[RB!Other(s)][x]]
      <4>1. RB!Other(s) \in Sides /\ RB!Other(s) # s /\ x \in Int /\ key \in Int
        BY <1>0, <3>1, OtherSide, NodesAre
      <4>2. QED
        BY <3>2, <3>4, <4>1 DEF Below, Sides
    <3>6. key \in S => key \in D[t[s][x]]
      BY <3>1, <3>3, <3>5
    <3>7. QED
      BY <2>1, <3>2, <3>3, <3>6
  <2>4. QED
    BY <2>2, <2>3
<1>c. \A x \in I : /\ step[x] \in I /\ D[x] \in SUBSET RB!Keys
                   /\ step[x] # x => D[step[x]] \subseteq D[x] /\ D[step[x]] # D[x]
  BY <1>4
<1>5. r \in I /\ step[r] = r
  <2> HIDE DEF I
  <2>1. RB!Walk(step, t.root) \in I /\ step[RB!Walk(step, t.root)] = RB!Walk(step, t.root)
    BY <1>3, <1>c, WalkEnds
  <2>2. QED
    BY <2>1 DEF r
<1>6. r \in {0, key}
  <2> SUFFICES ASSUME r \notin {0, key} PROVE FALSE
    OBVIOUS
  <2>1. r \in S /\ r # key
    BY <1>5
  <2>2. PICK s \in Sides : step[r] = t[s][r]
    BY <1>2, <2>1, ChildOf
  <2>3. t[s][r] # r
    BY <2>1, ChildIs
  <2>4. QED
    BY <1>5, <2>2, <2>3
<1>7. r = 0 => key \notin S
  BY <1>0, <1>5
<1>8. r = key => key \in S
  BY <1>0, <1>5
<1>9. QED
  BY <1>0, <1>1, <1>6, <1>7, <1>8

(* Where a new key goes: NULL in an empty tree, or a node whose side for the key *)
(* is free and that lies where the key has to lie.                              *)
FreePlace(t, S, D, key, r) ==
    /\ r \in S \cup {0} /\ (r = 0 => t.root = 0)
    /\ r # 0 => /\ t[IF key < r THEN "left" ELSE "right"][r] = 0
                /\ Below(IF key < r THEN "left" ELSE "right", key, r)
    /\ \A k \in S, s \in Sides : r \in D[t[s][k]] => Below(s, key, k)

(* The loop of tree_add ends at the node that gets the key as a child. *)
LEMMA BottomIs ==
  ASSUME TreeUsed, NEW t, NEW S, NEW D, Shape(t, S, D), NEW key \in RB!Keys, key \notin S
  PROVE  FreePlace(t, S, D, key, RB!Bottom(t, key))
<1> DEFINE step == [node \in RB!Nodes |-> IF node = 0 \/ RB!Child(t, node, key) = 0 THEN node
                                          ELSE RB!Child(t, node, key)]
           I == {x \in S \cup {0} : /\ x = 0 => t.root = 0
                                    /\ \A k \in S, s \in Sides : x \in D[t[s][k]] => Below(s, key, k)}
           r == RB!Walk(step, t.root)
<1>0. /\ S \subseteq RB!Nodes /\ S \cup {0} \subseteq RB!Nodes /\ 0 \notin S /\ D[0] = {}
      /\ t.root \in S \cup {0} /\ D[t.root] = S /\ S \subseteq RB!Keys /\ 0 \notin RB!Keys /\ S \subseteq Int
      /\ \A x \in RB!Nodes : D[x] \in SUBSET S
  BY ShapeKeys, NodesAre
<1>1. RB!Bottom(t, key) = r
  BY DEF RB!Bottom
<1>2. \A x \in S \cup {0} : step[x] = IF x = 0 \/ RB!Child(t, x, key) = 0 THEN x ELSE RB!Child(t, x, key)
  BY <1>0
<1> HIDE DEF step, r
<1>a. \A k \in S, s \in Sides : t[s][k] \in S \cup {0} /\ (t[s][k] # 0 => t.parent[t[s][k]] = k)
  BY ChildIs
<1>b. \A k \in S, s \in Sides, c \in S :
         c \in D[t[s][k]] => c = t[s][k] \/ (t.parent[c] \in D[t[s][k]] /\ t.parent[c] \in S)
  <2> SUFFICES ASSUME NEW k \in S, NEW s \in Sides, NEW c \in S, c \in D[t[s][k]], c # t[s][k]
               PROVE  t.parent[c] \in D[t[s][k]] /\ t.parent[c] \in S
    OBVIOUS
  <2>1. t[s][k] \in S
    BY <1>0, <1>a
  <2>2. t.parent[c] \in D[t[s][k]]
    BY <2>1 DEF Shape, Nested
  <2>3. D[t[s][k]] \subseteq S
    BY <1>0, <2>1
  <2>4. QED
    BY <2>2, <2>3
<1>3. t.root \in I
  <2> SUFFICES ASSUME NEW k \in S, NEW s \in Sides, t.root \in D[t[s][k]] PROVE FALSE
    BY <1>0
  <2>1. t.root \in S /\ t.parent[t.root] = 0
    <3>1. t[s][k] \in S \cup {0}
      BY <1>a
    <3>2. t.root \in S
      BY <1>0, <3>1
    <3>3. QED
      BY <3>2, ParentOf
  <2>2. CASE t.root = t[s][k]
    BY <1>0, <1>a, <2>1, <2>2
  <2>3. CASE t.root # t[s][k]
    <3>1. t.parent[t.root] \in S
      BY <1>b, <2>1, <2>3
    <3>2. QED
      BY <1>0, <2>1, <3>1
  <2>4. QED
    BY <2>2, <2>3
<1>4. ASSUME NEW x \in I
      PROVE  /\ step[x] \in I /\ D[x] \in SUBSET RB!Keys
             /\ step[x] # x => D[step[x]] \subseteq D[x] /\ D[step[x]] # D[x]
  <2>1. D[x] \in SUBSET RB!Keys
    BY <1>0
  <2>2. CASE step[x] = x
    BY <2>1, <2>2
  <2>3. CASE step[x] # x
    <3>1. x \in S /\ x # key /\ RB!Child(t, x, key) # 0 /\ step[x] = RB!Child(t, x, key)
      BY <1>2, <2>3
    <3>2. PICK s \in Sides : step[x] = t[s][x] /\ Below(s, key, x)
      BY <3>1, ChildOf
    <3>3. /\ step[x] \in S /\ D[step[x]] \subseteq D[x] /\ D[step[x]] # D[x] /\ t.parent[step[x]] = x
          /\ t[s][x] # t[RB!Other(s)][x]
      BY <3>1, <3>2, ChildIs
    <3>4. ASSUME NEW k \in S, NEW o \in Sides, step[x] \in D[t[o][k]] PROVE Below(o, key, k)
      <4>1. CASE x \in D[t[o][k]]
        BY <4>1
      <4>2. CASE step[x] = t[o][k]
        <5>1. k = x
          BY <1>0, <1>a, <3>3, <4>2
        <5>2. o = s
          BY <3>2, <3>3, <4>2, <5>1, OtherSide
        <5>3. QED
          BY <3>2, <5>1, <5>2
      <4>3. QED
        BY <1>b, <3>3, <3>4, <4>1, <4>2
    <3>5. step[x] \in I
      BY <1>0, <3>3, <3>4
    <3>6. QED
      BY <2>1, <3>3, <3>5
  <2>4. QED
    BY <2>2, <2>3
<1>c. \A x \in I : /\ step[x] \in I /\ D[x] \in SUBSET RB!Keys
                   /\ step[x] # x => D[step[x]] \subseteq D[x] /\ D[step[x]] # D[x]
  BY <1>4
<1>5. r \in I /\ step[r] = r
  <2> HIDE DEF I
  <2>1. RB!Walk(step, t.root) \in I /\ step[RB!Walk(step, t.root)] = RB!Walk(step, t.root)
    BY <1>3, <1>c, WalkEnds
  <2>2. QED
    BY <2>1 DEF r
<1>6. ASSUME r # 0
      PROVE  /\ t[IF key < r THEN "left" ELSE "right"][r] = 0
             /\ Below(IF key < r THEN "left" ELSE "right", key, r)
  <2>1. r \in S /\ r # key
    BY <1>5, <1>6
  <2>2. PICK s \in Sides : /\ RB!Child(t, r, key) = t[s][r] /\ Below(s, key, r)
                           /\ s = IF key < r THEN "left" ELSE "right"
    BY <2>1, ChildOf
  <2>3. t[s][r] # r
    BY <2>1, ChildIs
  <2>4. RB!Child(t, r, key) = 0
    <3>1. step[r] = IF r = 0 \/ RB!Child(t, r, key) = 0 THEN r ELSE RB!Child(t, r, key)
      BY <1>2, <2>1
    <3>2. RB!Child(t, r, key) # r /\ step[r] = r /\ r # 0
      BY <1>5, <1>6, <2>2, <2>3
    <3>3. QED
      BY <3>1, <3>2
  <2>5. QED
    BY <2>2, <2>4
<1>7. QED
  BY <1>1, <1>5, <1>6 DEF FreePlace

(* key is a red node without children below r. *)
LinkedTo(t, u, key, r) ==
    /\ u \in RB!Tree /\ u.root = IF r = 0 THEN key ELSE t.root
    /\ \A k \in RB!Keys : /\ u.parent[k] = IF k = key THEN r ELSE t.parent[k]
                          /\ u.red[k] = IF k = key THEN TRUE ELSE t.red[k]
    /\ \A s \in Sides, k \in RB!Keys :
          u[s][k] = IF k = key THEN 0
                    ELSE IF k = r /\ s = (IF key < r THEN "left" ELSE "right") THEN key ELSE t[s][k]

Link(t, key, parent) ==
    LET linked == IF parent = 0 THEN [t EXCEPT !.root = key]
                  ELSE [t EXCEPT ![IF key < parent THEN "left" ELSE "right"][parent] = key]
    IN  [linked EXCEPT !.left[key] = 0, !.right[key] = 0, !.parent[key] = parent, !.red[key] = TRUE]

LEMMA LinkIs ==
  ASSUME TreeUsed, NEW t \in RB!Tree, NEW key \in RB!Keys, NEW r \in RB!Nodes, r # key
  PROVE  LinkedTo(t, Link(t, key, r), key, r)
<1> DEFINE side == IF key < r THEN "left" ELSE "right"
           linked == IF r = 0 THEN [t EXCEPT !.root = key] ELSE [t EXCEPT ![side][r] = key]
           u == [linked EXCEPT !.left[key] = 0, !.right[key] = 0, !.parent[key] = r, !.red[key] = TRUE]
<1>1. Link(t, key, r) = u
  BY DEF Link
<1>2. side \in Sides
  BY DEF Sides
<1>3. /\ linked \in RB!Tree /\ linked.root = IF r = 0 THEN key ELSE t.root
      /\ linked.parent = t.parent /\ linked.red = t.red
      /\ \A s \in Sides, k \in RB!Keys : linked[s][k] = IF k = r /\ s = side THEN key ELSE t[s][k]
  <2>1. CASE r = 0
    <3>1. linked = [t EXCEPT !.root = key]
      BY <2>1
    <3>2. key \in RB!Nodes /\ 0 \notin RB!Keys
      BY NodesAre
    <3> HIDE DEF side, linked
    <3>3. QED
      BY <2>1, <3>1, <3>2 DEF RB!Tree, Sides
  <2>2. CASE r # 0
    <3>1. linked = RB!Put(t, side, r, key)
      BY <2>2 DEF RB!Put
    <3>2. r \in RB!Keys /\ key \in RB!Nodes
      BY <2>2, NodesAre
    <3> HIDE DEF side, linked
    <3>3. PutIn(t, linked, side, r, key)
      BY <1>2, <3>1, <3>2, PutIs
    <3>4. QED
      BY <2>2, <3>3 DEF PutIn
  <2>3. QED
    BY <2>1, <2>2
<1> HIDE DEF linked, side
<1>4. u \in RB!Tree /\ u.root = linked.root
  BY <1>3, NodesAre DEF RB!Tree
<1>5. /\ \A k \in RB!Keys : u.left[k] = IF k = key THEN 0 ELSE linked.left[k]
      /\ \A k \in RB!Keys : u.right[k] = IF k = key THEN 0 ELSE linked.right[k]
      /\ \A k \in RB!Keys : u.parent[k] = IF k = key THEN r ELSE linked.parent[k]
      /\ \A k \in RB!Keys : u.red[k] = IF k = key THEN TRUE ELSE linked.red[k]
  BY <1>3 DEF RB!Tree
<1> HIDE DEF u
<1>6. \A s \in Sides, k \in RB!Keys : u[s][k] = IF k = key THEN 0 ELSE linked[s][k]
  BY <1>3, <1>4, <1>5, Fields DEF Sides
<1>7. \A s \in Sides, k \in RB!Keys :
         u[s][k] = IF k = key THEN 0 ELSE IF k = r /\ s = side THEN key ELSE t[s][k]
  BY <1>3, <1>6
<1>8. QED
  BY <1>1, <1>3, <1>4, <1>5, <1>7 DEF LinkedTo, side

(* A red node at the bottom: only it may now be red below red. *)
LEMMA LinkKeeps ==
  ASSUME TreeUsed, NEW t, NEW S, NEW D, NEW h, Good(t, S, D, h), NEW key \in RB!Keys, key \notin S,
         NEW r, FreePlace(t, S, D, key, r), NEW u, LinkedTo(t, u, key, r)
  PROVE  \E E, H : InsertKept(u, S \cup {key}, E, H, key)
<1> DEFINE T == S \cup {key}
           E == [x \in RB!Nodes |-> IF x = key THEN {key} ELSE IF r \in D[x] THEN D[x] \cup {key} ELSE D[x]]
           H == [x \in RB!Nodes |-> IF x = key THEN 0 ELSE h[x]]
           side == IF key < r THEN "left" ELSE "right"
<1>0. /\ S \subseteq RB!Nodes /\ S \cup {0} \subseteq RB!Nodes /\ 0 \notin S /\ D[0] = {}
      /\ t.root \in S \cup {0} /\ D[t.root] = S /\ S \subseteq RB!Keys /\ 0 \notin RB!Keys /\ S \subseteq Int
      /\ \A x \in RB!Nodes : D[x] \in SUBSET S /\ (x \notin S => D[x] = {})
      /\ Shape(t, S, D) /\ 0 \in RB!Nodes /\ key \in RB!Nodes /\ t \in RB!Tree /\ key # 0
  BY ShapeKeys, NodesAre DEF Good
<1>1. side \in Sides
  BY DEF Sides
<1>2. /\ r \in S \cup {0} /\ (r = 0 => t.root = 0)
      /\ r # 0 => t[side][r] = 0 /\ Below(side, key, r)
      /\ \A k \in S, s \in Sides : r \in D[t[s][k]] => Below(s, key, k)
  BY DEF FreePlace
<1>3. /\ u \in RB!Tree /\ u.root = IF r = 0 THEN key ELSE t.root
      /\ \A k \in T : /\ u.parent[k] = IF k = key THEN r ELSE t.parent[k]
                      /\ u.red[k] = IF k = key THEN TRUE ELSE t.red[k]
      /\ \A s \in Sides, k \in T :
          u[s][k] = IF k = key THEN 0 ELSE IF k = r /\ s = side THEN key ELSE t[s][k]
  <2>1. T \subseteq RB!Keys
    BY <1>0
  <2>a. /\ \A k \in RB!Keys : /\ u.parent[k] = IF k = key THEN r ELSE t.parent[k]
                              /\ u.red[k] = IF k = key THEN TRUE ELSE t.red[k]
        /\ \A s \in Sides, k \in RB!Keys :
          u[s][k] = IF k = key THEN 0 ELSE IF k = r /\ s = side THEN key ELSE t[s][k]
    BY DEF LinkedTo
  <2> HIDE DEF T, side
  <2>2. u \in RB!Tree /\ u.root = IF r = 0 THEN key ELSE t.root
    BY DEF LinkedTo
  <2>3. \A k \in T : /\ u.parent[k] = IF k = key THEN r ELSE t.parent[k]
                     /\ u.red[k] = IF k = key THEN TRUE ELSE t.red[k]
    BY <2>1, <2>a
  <2>4. \A s \in Sides, k \in T :
          u[s][k] = IF k = key THEN 0 ELSE IF k = r /\ s = side THEN key ELSE t[s][k]
    BY <2>1, <2>a
  <2>5. QED
    BY <2>2, <2>3, <2>4
<1>4. /\ E[key] = {key}
      /\ \A x \in S \cup {0} : E[x] = IF r \in D[x] THEN D[x] \cup {key} ELSE D[x]
      /\ E = [x \in RB!Nodes |-> E[x]] /\ \A x \in RB!Nodes \ T : E[x] = {}
  BY <1>0
<1>5. H \in [RB!Nodes -> Nat] /\ H[key] = 0 /\ \A k \in S \cup {0} : H[k] = h[k]
  BY <1>0 DEF Good, Heights
<1> HIDE DEF E, H, side
<1>e. /\ \A x \in S \cup {0} : \A y : y \in E[x] <=> (y \in D[x] \/ (y = key /\ r \in D[x]))
      /\ \A y : y \in E[key] <=> y = key
  BY <1>4
<1>6. E[0] = {} /\ r # key
  BY <1>0, <1>2, <1>4
<1>7. r = 0 => S = {}
  BY <1>0, <1>2
<1>8. r # 0 => r \in S /\ r \in D[r] /\ r \notin D[t[RB!Other(side)][r]]
  <2>1. ASSUME r # 0 PROVE r \in S /\ r \in D[r] /\ r \notin D[t[RB!Other(side)][r]]
    <3>1. r \in S /\ RB!Other(side) \in Sides
      BY <1>1, <1>2, <2>1, OtherSide
    <3>2. QED
      BY <1>0, <3>1, ChildIs
  <2>2. QED
    BY <2>1
<1>9. \A s \in Sides, k \in S : t[s][k] \in S \cup {0} /\ D[k] = {k} \cup D[t[s][k]] \cup D[t[RB!Other(s)][k]]
  BY <1>0, ChildIs
<1>10. Whole(u, T, E)
  <2>1. T \in SUBSET RB!Keys
    BY <1>0
  <2>2. E \in [RB!Nodes -> SUBSET T]
    <3>1. ASSUME NEW x \in RB!Nodes PROVE E[x] \in SUBSET T
      <4>1. x = key => E[x] \in SUBSET T
        BY <1>4
      <4>2. x \in S => E[x] \in SUBSET T
        BY <1>0, <1>e
      <4>3. x \notin T => E[x] \in SUBSET T
        BY <1>4
      <4>4. QED
        BY <4>1, <4>2, <4>3
    <3>2. QED
      BY <1>4, <3>1
  <2>3. u.root \in T \cup {0} /\ E[u.root] = T
    <3>1. CASE r = 0
      BY <1>3, <1>4, <1>7, <3>1
    <3>2. CASE r # 0
      BY <1>0, <1>3, <1>4, <1>8, <3>2
    <3>3. QED
      BY <3>1, <3>2
  <2>4. ASSUME NEW k \in T, NEW s \in Sides
        PROVE  u[s][k] \in T \cup {0} /\ E[k] = {k} \cup E[u[s][k]] \cup E[u[RB!Other(s)][k]]
    <3>0. RB!Other(s) \in Sides /\ RB!Other(s) # s
      BY OtherSide
    <3>1. CASE k = key
      BY <1>3, <1>4, <1>6, <3>0, <3>1
    <3>2. CASE k = r
      <4>1. /\ k \in S /\ k # key /\ r # 0 /\ E[k] = D[k] \cup {key} /\ t[side][r] = 0
            /\ t[RB!Other(side)][r] \in S \cup {0} /\ r \notin D[t[RB!Other(side)][r]]
            /\ D[r] = {r} \cup D[0] \cup D[t[RB!Other(side)][r]]
        <5>1. k \in S /\ k # key /\ r # 0
          BY <1>0, <1>6, <3>2
        <5>2. RB!Other(side) \in Sides
          BY <1>1, OtherSide
        <5>3. E[k] = D[k] \cup {key} /\ t[side][r] = 0
          BY <1>2, <1>4, <1>8, <3>2, <5>1
        <5>4. t[RB!Other(side)][r] \in S \cup {0} /\ r \notin D[t[RB!Other(side)][r]]
          BY <1>8, <1>9, <3>2, <5>1, <5>2
        <5>5. D[r] = {r} \cup D[t[side][r]] \cup D[t[RB!Other(side)][r]]
          BY <1>1, <1>9, <3>2, <5>1
        <5>6. QED
          BY <5>1, <5>3, <5>4, <5>5
      <4>2. E[t[RB!Other(side)][r]] = D[t[RB!Other(side)][r]]
        BY <1>4, <4>1
      <4>3. (s = side /\ RB!Other(s) = RB!Other(side)) \/ (RB!Other(s) = side /\ s = RB!Other(side))
        BY <1>1, OtherSide
      <4>4. u[side][r] = key /\ u[RB!Other(side)][r] = t[RB!Other(side)][r]
        <5>1. RB!Other(side) \in Sides /\ RB!Other(side) # side
          BY <1>1, OtherSide
        <5>2. QED
          BY <1>1, <1>3, <3>2, <4>1, <5>1
      <4>5. D[k] = {k} \cup D[t[RB!Other(side)][r]]
        BY <1>0, <3>2, <4>1
      <4>6. QED
        BY <1>4, <3>2, <4>1, <4>2, <4>3, <4>4, <4>5
    <3>3. CASE k # key /\ k # r
      <4>1. /\ k \in S /\ u[s][k] = t[s][k] /\ u[RB!Other(s)][k] = t[RB!Other(s)][k]
            /\ t[s][k] \in S \cup {0} /\ t[RB!Other(s)][k] \in S \cup {0}
            /\ D[k] = {k} \cup D[t[s][k]] \cup D[t[RB!Other(s)][k]]
        BY <1>3, <1>9, <3>0, <3>3
      <4> DEFINE a == t[s][k]
                 b == t[RB!Other(s)][k]
      <4>2. /\ E[k] = IF r \in D[k] THEN D[k] \cup {key} ELSE D[k]
            /\ E[a] = IF r \in D[a] THEN D[a] \cup {key} ELSE D[a]
            /\ E[b] = IF r \in D[b] THEN D[b] \cup {key} ELSE D[b]
        BY <1>4, <4>1
      <4>3. D[k] = {k} \cup D[a] \cup D[b] /\ a \in S \cup {0} /\ u[s][k] = a /\ u[RB!Other(s)][k] = b
        BY <4>1
      <4> HIDE DEF a, b
      <4>4. E[k] = {k} \cup E[a] \cup E[b]
        BY <3>3, <4>2, <4>3
      <4>5. QED
        BY <4>3, <4>4
    <3>4. QED
      BY <3>1, <3>2, <3>3
  <2>5. QED
    BY <1>3, <1>4, <2>1, <2>2, <2>3, <2>4 DEF Whole
<1>11. Ordered(u, T, E)
  <2> SUFFICES ASSUME NEW k \in T, NEW s \in Sides, NEW x \in E[u[s][k]]
               PROVE  Below(s, x, k)
    BY DEF Ordered
  <2>1. CASE k = key
    BY <1>3, <1>6, <2>1
  <2>2. CASE k = r /\ s = side /\ k # key
    BY <1>0, <1>2, <1>3, <1>4, <2>2
  <2>3. CASE k # key /\ ~(k = r /\ s = side)
    <3>1. k \in S /\ u[s][k] = t[s][k] /\ t[s][k] \in S \cup {0}
      BY <1>3, <1>9, <2>3
    <3>2. x \in D[t[s][k]] \/ (x = key /\ r \in D[t[s][k]])
      <4>1. x \in E[t[s][k]]
        BY <3>1
      <4>2. QED
        BY <1>e, <3>1, <4>1
    <3>3. x \in D[t[s][k]] => Below(s, x, k)
      BY <1>0, <3>1, ChildIs
    <3>4. QED
      BY <1>2, <3>1, <3>2, <3>3
  <2>4. QED
    BY <2>1, <2>2, <2>3
<1>12. Linked(u, T)
  <2> SUFFICES ASSUME NEW k \in T, NEW s \in Sides, u[s][k] # 0
               PROVE  u.parent[u[s][k]] = k
    BY DEF Linked
  <2>1. k # key
    BY <1>3
  <2>2. CASE k = r /\ s = side
    BY <1>3, <2>1, <2>2
  <2>3. CASE ~(k = r /\ s = side)
    <3>1. k \in S /\ u[s][k] = t[s][k] /\ t[s][k] \in S
      BY <1>3, <1>9, <2>1, <2>3
    <3>2. t.parent[t[s][k]] = k
      BY <1>0, <3>1, ChildIs
    <3>3. t[s][k] # key
      BY <3>1
    <3>4. QED
      BY <1>3, <3>1, <3>2, <3>3
  <2>4. QED
    BY <2>2, <2>3
<1>13. Rooted(u, T)
  <2> SUFFICES ASSUME NEW k \in T
               PROVE  IF k = u.root THEN u.parent[k] = 0
                      ELSE u.parent[k] \in T /\ \E s \in Sides : u[s][u.parent[k]] = k
    BY DEF Rooted
  <2>1. CASE k = key
    <3>1. CASE r = 0
      BY <1>3, <2>1, <3>1
    <3>2. CASE r # 0
      <4>1. u.root = t.root /\ t.root # key /\ u.parent[k] = r
        BY <1>0, <1>3, <2>1, <3>2
      <4>2. r \in T /\ u[side][r] = key
        BY <1>1, <1>2, <1>3, <1>6, <3>2
      <4>3. QED
        BY <1>1, <2>1, <4>1, <4>2
    <3>3. QED
      BY <3>1, <3>2
  <2>2. CASE k # key
    <3>1. k \in S /\ r # 0 /\ u.root = t.root /\ u.parent[k] = t.parent[k]
      BY <1>3, <1>7, <2>2
    <3>2. CASE k = t.root
      BY <1>0, <3>1, <3>2, ParentOf
    <3>3. CASE k # t.root
      <4> DEFINE j == t.parent[k]
                 o == RB!SideOf(t, k, j)
      <4>1. j \in S /\ t[o][j] = k /\ o \in Sides
        BY <1>0, <3>1, <3>3, ParentOf, SideIs
      <4>2. u.parent[k] = j /\ u.root # k
        BY <3>1, <3>3
      <4> HIDE DEF j, o
      <4>3. u[o][j] = k
        BY <1>0, <1>2, <1>3, <3>1, <4>1
      <4>4. QED
        BY <4>1, <4>2, <4>3
    <3>4. QED
      BY <3>2, <3>3
  <2>3. QED
    BY <2>1, <2>2
<1>14. Nested(u, T, E)
  <2>0. \A x \in S : \A c \in D[x] : c \in S /\ D[c] \subseteq D[x] /\ (c # x => t.parent[c] \in D[x])
    BY <1>0 DEF Shape, Nested
  <2> SUFFICES ASSUME NEW x \in T, NEW c \in E[x]
               PROVE  E[c] \subseteq E[x] /\ (c # x => u.parent[c] \in E[x])
    BY DEF Nested
  <2>1. CASE x = key
    BY <1>4, <2>1
  <2>2. CASE x # key /\ c = key
    <3>1. x \in S /\ r \in D[x] /\ key \notin D[x]
      <4>1. x \in S /\ key \notin D[x]
        BY <1>0, <2>2
      <4>2. QED
        BY <1>e, <2>2, <4>1
    <3>2. E[c] \subseteq E[x]
      BY <1>4, <2>2
    <3>3. u.parent[c] = r /\ r \in E[x]
      BY <1>3, <1>e, <2>2, <3>1
    <3>4. QED
      BY <3>2, <3>3
  <2>3. CASE x # key /\ c # key
    <3>1. x \in S /\ c \in D[x]
      BY <1>e, <2>3
    <3>2. c \in S /\ D[c] \subseteq D[x] /\ (c # x => t.parent[c] \in D[x])
      BY <2>0, <3>1
    <3>3. E[c] \subseteq E[x]
      BY <1>e, <3>1, <3>2
    <3>4. u.parent[c] = t.parent[c]
      BY <1>3, <2>3, <3>2
    <3>5. c # x => t.parent[c] \in E[x]
      BY <1>e, <3>1, <3>2
    <3>6. QED
      BY <3>3, <3>4, <3>5
  <2>4. QED
    BY <2>1, <2>2, <2>3
<1>15. Heights(u, T, H, 0, "left")
  <2>1. \A k \in S, s \in Sides : h[k] = h[t[s][k]] + Black(t, k) + (IF k = 0 /\ s = "left" THEN 1 ELSE 0)
    BY DEF Good, Heights
  <2>0. h[0] = 0
    BY DEF Good, Heights
  <2>2. ASSUME NEW k \in T, NEW s \in Sides
        PROVE  H[k] = H[u[s][k]] + Black(u, k) + (IF k = 0 /\ s = "left" THEN 1 ELSE 0)
    <3>1. CASE k = key
      <4>1. u[s][k] = 0 /\ Black(u, k) = 0 /\ k # 0
        BY <1>0, <1>3, <3>1 DEF Black
      <4>2. H[k] = 0 /\ H[0] = 0
        BY <1>5, <2>0, <3>1
      <4>3. QED
        BY <4>1, <4>2
    <3>2. CASE k # key
      <4>1. k \in S /\ H[k] = h[k] /\ Black(u, k) = Black(t, k)
        BY <1>3, <1>5, <3>2 DEF Black
      <4>2. H[u[s][k]] = h[t[s][k]]
        <5>1. CASE k = r /\ s = side
          <6>1. u[s][k] = key /\ t[s][k] = 0
            BY <1>0, <1>2, <1>3, <3>2, <4>1, <5>1
          <6>2. QED
            BY <1>5, <2>0, <6>1
        <5>2. CASE ~(k = r /\ s = side)
          <6>1. u[s][k] = t[s][k] /\ t[s][k] \in S \cup {0}
            BY <1>3, <1>9, <3>2, <4>1, <5>2
          <6>2. QED
            BY <1>5, <6>1
        <5>3. QED
          BY <5>1, <5>2
      <4>3. QED
        BY <2>1, <4>1, <4>2
    <3>3. QED
      BY <3>1, <3>2
  <2>3. QED
    BY <1>5, <2>0, <2>2 DEF Heights
<1>16. NoRedRed(u, T, key)
  <2> SUFFICES ASSUME NEW k \in T, NEW s \in Sides, u.red[k], u[s][k] # key, RB!IsRed(u, u[s][k])
               PROVE  FALSE
    BY DEF NoRedRed
  <2>1. k # key
    BY <1>3 DEF RB!IsRed
  <2>2. k \in S /\ t.red[k] /\ u[s][k] = t[s][k] /\ t[s][k] \in S \cup {0}
    <3>1. k \in S /\ t[s][k] \in S \cup {0}
      BY <1>9, <2>1
    <3>2. t.red[k]
      BY <1>3, <2>1
    <3>3. u[s][k] = t[s][k]
      BY <1>3, <2>1
    <3>4. QED
      BY <3>1, <3>2, <3>3
  <2>3. t[s][k] = 0 \/ ~RB!IsRed(t, t[s][k])
    BY <2>2 DEF Good, NoRedRed
  <2>4. QED
    BY <1>3, <2>2, <2>3 DEF RB!IsRed
<1>17. RB!IsRed(u, u.root) => u.root = key
  <2>1. t.root \in S => ~t.red[t.root]
    BY <1>0 DEF Good, RB!IsRed
  <2>2. QED
    BY <1>0, <1>3, <2>1 DEF RB!IsRed
<1>18. u.red[key]
  BY <1>3
<1>19. Shape(u, T, E)
  BY <1>10, <1>11, <1>12, <1>13, <1>14 DEF Shape
<1>20. InsertKept(u, T, E, H, key)
  BY <1>15, <1>16, <1>17, <1>18, <1>19 DEF InsertKept
<1>21. QED
  BY <1>20

(* Adding a key. *)
LEMMA AddKeeps ==
  ASSUME TreeUsed, NEW D, NEW h, Good(tree, added, D, h), NEW key \in RB!Keys, RB!Add(key)
  PROVE  \E E, H : Good(tree', added', E, H)
<1> DEFINE r == RB!Bottom(tree, key)
<1>1. RB!Find(tree, key) = 0 /\ tree' = RB!RebalanceAfterInsert(Link(tree, key, r), key)
      /\ added' = added \cup {key}
  BY DEF RB!Add, Link
<1> HIDE DEF r
<1>2. Shape(tree, added, D)
  BY DEF Good
<1>3. key # 0
  BY NodesAre
<1>4. key \notin added
  BY <1>1, <1>2, <1>3, FindIs
<1>5. FreePlace(tree, added, D, key, r)
  BY <1>2, <1>4, BottomIs DEF r
<1>6. tree \in RB!Tree /\ r \in RB!Nodes /\ r # key
  BY <1>2, <1>3, <1>4, <1>5, ShapeKeys DEF FreePlace
<1>7. LinkedTo(tree, Link(tree, key, r), key, r)
  BY <1>6, LinkIs
<1>8. PICK E, H : InsertKept(Link(tree, key, r), added \cup {key}, E, H, key)
  BY <1>4, <1>5, <1>7, LinkKeeps
<1>9. QED
  BY <1>1, <1>8, Inserted

(* What the loop of a deletion keeps: the paths through node lack a black node. *)
RemoveKept(t, S, D, h, node, p, cis) ==
    /\ Shape(t, S, D) /\ NoRedRed(t, S, 0) /\ ~RB!IsRed(t, t.root)
    /\ p \in S /\ cis \in Sides /\ t[cis][p] = node /\ ~RB!IsRed(t, node)
    /\ Heights(t, S, h, p, cis)

(* What it ends with. *)
Ends(t, S, node) ==
    /\ node \in S \cup {0} /\ t \in RB!Tree /\ (node = t.root \/ RB!IsRed(t, node))
    /\ \E D, h : Good(RB!Paint(t, node, FALSE), S, D, h)

(* What the numbers of black nodes say of one node. *)
LEMMA HeightOf ==
  ASSUME TreeUsed, NEW t, NEW S, NEW D, Shape(t, S, D), NEW h, NEW p, NEW cis, Heights(t, S, h, p, cis),
         NEW k \in S, NEW s \in Sides
  PROVE  /\ h[k] \in Nat /\ h[t[s][k]] \in Nat /\ h[0] = 0
         /\ k = p /\ s = cis => h[k] = h[t[s][k]] + Black(t, k) + 1
         /\ ~(k = p /\ s = cis) => h[k] = h[t[s][k]] + Black(t, k)
         /\ Black(t, k) \in {0, 1} /\ (t.red[k] <=> Black(t, k) = 0)
<1>1. t[s][k] \in RB!Nodes /\ k \in RB!Nodes
  BY ShapeKeys, ChildIs
<1>2. h[k] \in Nat /\ h[t[s][k]] \in Nat /\ h[0] = 0
  BY <1>1 DEF Heights
<1>3. h[k] = h[t[s][k]] + Black(t, k) + (IF k = p /\ s = cis THEN 1 ELSE 0)
  BY DEF Heights
<1>4. Black(t, k) \in {0, 1} /\ (t.red[k] <=> Black(t, k) = 0)
  BY DEF Black
<1>5. QED
  BY <1>2, <1>3, <1>4

Beside(t, b, p, cis) == b = t[RB!Other(cis)][p]

(* Node's sibling is not NULL. *)
LEMMA SiblingIs ==
  ASSUME TreeUsed, NEW t, NEW S, NEW D, NEW h, NEW node, NEW p, NEW cis,
         RemoveKept(t, S, D, h, node, p, cis), NEW b, Beside(t, b, p, cis)
  PROVE  /\ b \in S /\ b # p /\ b # node /\ t.parent[b] = p /\ p # 0 /\ h[b] = h[node] + 1
         /\ node \in S \cup {0} /\ node # p /\ cis = RB!SideOf(t, node, p)
         /\ node # 0 => node \in S /\ t.parent[node] = p /\ node # t.root
<1> DEFINE trans == RB!Other(cis)
<1>1. /\ Shape(t, S, D) /\ NoRedRed(t, S, 0) /\ p \in S /\ cis \in Sides /\ t[cis][p] = node
      /\ Heights(t, S, h, p, cis)
  BY DEF RemoveKept
<1>2. trans \in Sides /\ trans # cis /\ RB!Other(trans) = cis
  BY <1>1, OtherSide
<1>g. b = t[trans][p]
  BY DEF Beside
<1> HIDE DEF trans
<1>3. 0 \notin S /\ S \subseteq RB!Keys /\ t \in RB!Tree
  BY <1>1, ShapeKeys
<1>4. /\ h[p] = h[node] + Black(t, p) + 1 /\ h[p] = h[b] + Black(t, p)
      /\ h[node] \in Nat /\ h[b] \in Nat /\ Black(t, p) \in {0, 1} /\ h[0] = 0
  BY <1>1, <1>2, <1>g, HeightOf
<1>5. h[b] = h[node] + 1
  BY <1>4
<1>6. b # 0 /\ b # node
  BY <1>4, <1>5
<1>7. /\ b \in S \cup {0} /\ b # p /\ (b # 0 => t.parent[b] = p)
      /\ node \in S \cup {0} /\ node # p /\ (node # 0 => t.parent[node] = p)
  BY <1>1, <1>2, <1>g, ChildIs
<1>8. cis = RB!SideOf(t, node, p)
  <2>1. t.left[p] = t["left"][p] /\ t.right[p] = t["right"][p]
    BY <1>1, <1>3, Fields
  <2>2. CASE cis = "left"
    BY <1>1, <2>1, <2>2 DEF RB!SideOf
  <2>3. CASE cis = "right"
    <3>1. trans = "left"
      BY <1>2, <2>3 DEF Sides
    <3>2. t.left[p] # node
      BY <1>6, <1>g, <2>1, <3>1
    <3>3. QED
      BY <2>3, <3>2 DEF RB!SideOf
  <2>4. QED
    BY <1>1, <2>2, <2>3 DEF Sides
<1>9. node # 0 => node # t.root
  <2>1. ASSUME node # 0 PROVE node # t.root
    <3>1. node \in S /\ t.parent[node] # 0
      BY <1>1, <1>3, <1>7, <2>1
    <3>2. QED
      BY <1>1, <3>1, ParentOf
  <2>2. QED
    BY <2>1
<1>10. QED
  BY <1>1, <1>3, <1>5, <1>6, <1>7, <1>8, <1>9

SiblingUp(t, b, p, cis) == RB!Rotate(RB!Paint(RB!Paint(t, b, FALSE), p, TRUE), p, cis)

(* A red child goes up, its black parent down and red; nothing else changes. *)
LEMMA Promoted ==
  ASSUME TreeUsed, NEW t, NEW S, NEW D, Shape(t, S, D), NEW h, NEW e, NEW side, Heights(t, S, h, e, side),
         NoRedRed(t, S, 0), NEW p \in S, NEW cis \in Sides, NEW b, Beside(t, b, p, cis), b \in S, t.red[b],
         ~RB!IsRed(t, t[cis][p]), b # e, e = p => side = cis
  PROVE  \E E, H :
            LET v == SiblingUp(t, b, p, cis)
            IN  /\ Shape(v, S, E) /\ Heights(v, S, H, e, side) /\ NoRedRed(v, S, 0)
                /\ v.red[p] /\ ~RB!IsRed(v, b) /\ \A k \in S \ {p, b} : v.red[k] = t.red[k]
                /\ v[cis][p] = t[cis][p] /\ v[RB!Other(cis)][p] = t[cis][b] /\ ~RB!IsRed(v, t[cis][b])
                /\ v[cis][b] = p /\ v[RB!Other(cis)][b] = t[RB!Other(cis)][b]
                /\ \A k \in S \ {p, b}, s \in Sides : v[s][k] = IF t[s][k] = p THEN b ELSE t[s][k]
                /\ (~RB!IsRed(t, t.root) => ~RB!IsRed(v, v.root))
                /\ ~RB!IsRed(v, v[cis][p])
<1> DEFINE trans == RB!Other(cis)
           X == {p, b}
           H == [k \in RB!Nodes |-> IF k = b THEN h[p] ELSE IF k = p THEN h[b] ELSE h[k]]
           node == t[cis][p]
<1>1. /\ Shape(t, S, D) /\ NoRedRed(t, S, 0) /\ p \in S /\ cis \in Sides /\ t[cis][p] = node
      /\ Heights(t, S, h, e, side) /\ ~RB!IsRed(t, node)
  OBVIOUS
<1>2. trans \in Sides /\ trans # cis /\ RB!Other(trans) = cis /\ \A s \in Sides : s # cis => s = trans
  BY <1>1, OtherSide
<1>g. b = t[trans][p] /\ trans = RB!Other(cis)
  BY DEF Beside
<1> HIDE DEF trans, H, X, node
<1>j. 0 \notin S
  BY ShapeKeys
<1>3. /\ b \in S /\ b # p /\ b # node /\ t.parent[b] = p
      /\ node \in S \cup {0} /\ node # p /\ p # 0
  <2>1. t[trans][p] # p /\ t[trans][p] # t[RB!Other(trans)][p] /\ t.parent[t[trans][p]] = p
    BY <1>1, <1>2, <1>g, <1>j, ChildIs
  <2>2. t[cis][p] \in S \cup {0} /\ t[cis][p] # p
    BY <1>1, ChildIs
  <2>3. QED
    BY <1>1, <1>2, <1>g, <1>j, <2>1, <2>2
<1>0. /\ 0 \notin S /\ S \subseteq RB!Keys /\ S \subseteq RB!Nodes /\ 0 \in RB!Nodes /\ S \cup {0} \subseteq RB!Nodes
      /\ t.root \in S \cup {0}
  BY <1>1, ShapeKeys
<1> DEFINE t1 == RB!Paint(t, b, FALSE)
           t2 == RB!Paint(t1, p, TRUE)
<1>4. Shape(t1, S, D) /\ Painted(t, t1, b, FALSE) /\ SamePointers(t, t1)
  BY <1>1, <1>3, PaintShape
<1>5. Shape(t2, S, D) /\ Painted(t1, t2, p, TRUE) /\ SamePointers(t1, t2)
  BY <1>1, <1>4, PaintShape
<1> DEFINE v == SiblingUp(t, b, p, cis)
<1>h. v = RB!Rotate(t2, p, cis)
  BY DEF SiblingUp
<1> HIDE DEF t1, t2, v
<1>6. /\ \A k \in S, s \in Sides : t2[s][k] = t[s][k]
      /\ \A k \in S : t2.red[k] = IF k = p THEN TRUE ELSE IF k = b THEN FALSE ELSE t.red[k]
      /\ t2.root = t.root
  <2>1. \A k \in S, s \in Sides : t2[s][k] = t[s][k]
    BY <1>0, <1>4, <1>5 DEF SamePointers
  <2>2. /\ \A k \in S : t2.red[k] = IF k = p THEN TRUE ELSE t1.red[k]
        /\ \A k \in S : t1.red[k] = IF k = b THEN FALSE ELSE t.red[k]
    BY <1>0, <1>4, <1>5 DEF Painted
  <2>3. t2.root = t.root
    BY <1>4, <1>5 DEF Painted
  <2>4. QED
    BY <2>1, <2>2, <2>3
<1> DEFINE E == After(t2, D, p, cis)
           m == t[cis][b]
           c == t[trans][b]
<1>7. t2[RB!Other(cis)][p] = b /\ b # 0
  BY <1>0, <1>1, <1>2, <1>3, <1>6, <1>g
<1>8. Rotated(t2, v, p, cis) /\ Shape(v, S, E)
  BY <1>1, <1>5, <1>7, <1>h, RotateKeeps
<1>i. t[cis][b] = m /\ t[trans][b] = c /\ t2[cis][b] = m /\ t2[trans][b] = c /\ t2[cis][p] = node
  BY <1>1, <1>2, <1>3, <1>6
<1> HIDE DEF E, m, c
<1>9. /\ m \in S \cup {0} /\ m # b /\ m # p
      /\ v.root = IF p = t2.root THEN b ELSE t2.root
      /\ v[cis][b] = p /\ v[trans][b] = t2[trans][b] /\ v[trans][p] = m /\ v[cis][p] = t2[cis][p]
      /\ \A k \in S \ {p, b}, s \in Sides : t2[s][k] # b /\ (t2[s][k] = m => m = 0)
  BY <1>1, <1>3, <1>5, <1>7, <1>8, <1>g, <1>i, Turned
<1>10. v[cis][p] = node /\ v[trans][p] = m /\ v[cis][b] = p /\ v[trans][b] = c
  BY <1>9, <1>i
<1>11. v.red = t2.red
  BY <1>8 DEF Rotated
<1>12. ~t.red[p]
  <2>1. t.red[p] => (t[trans][p] = 0 \/ ~RB!IsRed(t, t[trans][p]))
    BY <1>1, <1>2 DEF NoRedRed
  <2>2. QED
    BY <1>7, <1>g, <2>1 DEF RB!IsRed
<1>13. c \in S \cup {0} /\ c # b /\ c # p
  <2>1. c \in S \cup {0} /\ c # b /\ D[c] \subseteq D[b] /\ (c # 0 => c \in D[b])
    BY <1>1, <1>2, <1>3, <1>i, ChildIs
  <2>2. p \notin D[b]
    BY <1>1, <1>2, <1>g, ChildIs
  <2>3. QED
    BY <1>0, <1>1, <2>1, <2>2
<1>14. ~RB!IsRed(v, m) /\ ~RB!IsRed(v, node)
  <2>1. t[cis][b] = 0 \/ ~RB!IsRed(t, t[cis][b])
    BY <1>1, <1>3 DEF NoRedRed
  <2>2. ~RB!IsRed(t, m)
    BY <1>i, <2>1 DEF RB!IsRed
  <2>3. \A k \in S \ {p} : RB!IsRed(v, k) => RB!IsRed(t, k)
    BY <1>6, <1>11 DEF RB!IsRed
  <2>4. ~RB!IsRed(v, 0)
    BY DEF RB!IsRed
  <2>5. QED
    BY <1>1, <1>3, <1>9, <2>2, <2>3, <2>4
<1>15. Repainted(t2, t, S, X) /\ Entered(t2, S, X, p)
  <2>1. Repainted(t2, t, S, X)
    BY <1>6 DEF Repainted, X
  <2>2. Entered(t2, S, X, p)
    BY <1>9 DEF Entered, X
  <2>3. QED
    BY <2>1, <2>2
<1>16. X \in SUBSET S /\ p \in X /\ t2[RB!Other(cis)][p] \in X /\ t2[RB!Other(cis)][p] # 0
  BY <1>1, <1>3, <1>7 DEF X
<1>17. NoRedRed(v, S, 0)
  <2>1. ~t2.red[b]
    BY <1>3, <1>6
  <2>2. Calm(t2, v, X, 0)
    BY <1>2, <1>10, <1>14, <2>1 DEF Calm, X
  <2>3. 0 \in X \cup {0} /\ 0 # p /\ (t2.red[t2[RB!Other(cis)][p]] => t.red[p])
    BY <1>3, <1>7, <2>1
  <2>4. QED
    BY <1>1, <1>5, <1>8, <1>15, <1>16, <2>2, <2>3, ColoursAfter
<1>18. Heights(v, S, H, e, side)
  <2> DEFINE d == IF p = e THEN 1 ELSE 0
  <2>1. h \in [RB!Nodes -> Nat] /\ h[0] = 0
    BY <1>1 DEF Heights
  <2>2. H[b] = h[p] /\ H[p] = h[b] /\ H[node] = h[node] /\ H[m] = h[m] /\ H[c] = h[c]
    BY <1>0, <1>1, <1>3, <1>9, <1>13 DEF H
  <2>3. NewIn(H, h, X)
    BY <1>0, <1>1, <1>3, <2>1 DEF NewIn, H, X
  <2>4. h[p] \in Nat /\ h[b] \in Nat /\ h[node] \in Nat /\ h[m] \in Nat /\ h[c] \in Nat
    BY <1>0, <1>1, <1>3, <1>9, <1>13, <2>1
  <2>5. h[p] = h[b] + Black(t, p) /\ h[b] = h[m] + Black(t, b) /\ h[b] = h[c] + Black(t, b)
    BY <1>1, <1>2, <1>3, <1>g, <1>i, HeightOf
  <2>a. h[p] = h[node] + Black(t, p) + d /\ d \in Nat
    <3>1. p = e => h[p] = h[node] + Black(t, p) + 1
      BY <1>1, HeightOf
    <3>2. p # e => h[p] = h[node] + Black(t, p)
      BY <1>1, HeightOf
    <3>3. h[node] + Black(t, p) \in Nat
      BY <2>4 DEF Black
    <3>4. QED
      BY <3>1, <3>2, <3>3
  <2> HIDE DEF d
  <2>6. Black(t, p) = 1 /\ Black(t, b) = 0 /\ Black(t2, p) = 0 /\ Black(t2, b) = 1
    BY <1>1, <1>3, <1>6, <1>12 DEF Black
  <2>7. h[p] = h[b] + 1 /\ h[b] = h[m] /\ h[b] = h[c] /\ h[b] = h[node] + d
    BY <1>3, <2>4, <2>5, <2>6, <2>a
  <2>8. /\ H[p] = H[v[cis][p]] + Black(t2, p) + d /\ H[p] = H[v[trans][p]] + Black(t2, p)
        /\ H[b] = H[v[cis][b]] + Black(t2, b) /\ H[b] = H[v[trans][b]] + Black(t2, b)
    <3>1. /\ H[v[cis][p]] = h[node] /\ H[v[trans][p]] = h[m]
          /\ H[v[cis][b]] = h[b] /\ H[v[trans][b]] = h[c]
      BY <1>10, <2>2
    <3>2. h[b] = h[node] + Black(t2, p) + d /\ h[b] = h[m] + Black(t2, p)
      BY <2>4, <2>6, <2>7, <2>a
    <3>3. h[p] = h[b] + Black(t2, b) /\ h[p] = h[c] + Black(t2, b)
      BY <2>4, <2>6, <2>7
    <3>4. QED
      BY <2>2, <3>1, <3>2, <3>3
  <2>9. CountedIn(t2, v, X, H, e, side)
    <3> SUFFICES ASSUME NEW k \in X, NEW s \in Sides
                 PROVE  H[k] = H[v[s][k]] + Black(t2, k) + (IF k = e /\ s = side THEN 1 ELSE 0)
      BY DEF CountedIn
    <3>1. (k = p \/ k = b) /\ (s = cis \/ s = trans) /\ trans # cis
      BY <1>2 DEF X
    <3>2. H[p] \in Nat /\ H[b] \in Nat
      BY <2>2, <2>4
    <3>3. CASE k = p /\ s = cis
      BY <2>8, <3>3 DEF d
    <3>4. CASE k = p /\ s = trans
      BY <2>8, <3>1, <3>2, <3>4
    <3>5. CASE k = b
      <4>1. H[k] = H[v[s][k]] + Black(t2, k)
        BY <2>8, <3>1, <3>5
      <4>2. QED
        BY <1>3, <3>2, <3>5, <4>1
    <3>6. QED
      BY <3>1, <3>3, <3>4, <3>5
  <2>10. StaysShort(S, X, e, side, e, side) /\ H[t2[RB!Other(cis)][p]] = h[p]
    BY <1>7, <2>2 DEF StaysShort
  <2>11. QED
    BY <1>1, <1>5, <1>8, <1>15, <1>16, <2>3, <2>9, <2>10, HeightsAfter
<1>19. ASSUME ~RB!IsRed(t, t.root) PROVE ~RB!IsRed(v, v.root)
  <2>1. CASE p = t.root
    BY <1>3, <1>6, <1>9, <1>11, <2>1 DEF RB!IsRed
  <2>2. CASE p # t.root
    <3> DEFINE r == t.root
    <3>1. v.root = r /\ r \in S \cup {0} /\ ~RB!IsRed(t, r) /\ r # p
      BY <1>0, <1>1, <1>6, <1>9, <1>19, <2>2
    <3> HIDE DEF r
    <3>2. QED
      BY <1>6, <1>11, <3>1 DEF RB!IsRed
  <2>3. QED
    BY <2>1, <2>2
<1>20. \A k \in S \ {p, b}, s \in Sides : v[s][k] = IF t[s][k] = p THEN b ELSE t[s][k]
  <2>1. \A k \in S \ {p, b}, s \in Sides : v[s][k] = IF t2[s][k] = p THEN b ELSE t2[s][k]
    BY <1>1, <1>3, <1>5, <1>7, <1>8, <1>g, Turned
  <2>2. QED
    BY <1>6, <2>1
<1>21. v.red[p] /\ ~RB!IsRed(v, b) /\ \A k \in S \ {p, b} : v.red[k] = t.red[k]
  BY <1>1, <1>3, <1>6, <1>11 DEF RB!IsRed
<1>22. /\ Shape(v, S, E) /\ Heights(v, S, H, e, side) /\ NoRedRed(v, S, 0)
       /\ v.red[p] /\ ~RB!IsRed(v, b) /\ \A k \in S \ {p, b} : v.red[k] = t.red[k]
       /\ v[cis][p] = t[cis][p] /\ v[RB!Other(cis)][p] = t[cis][b] /\ ~RB!IsRed(v, t[cis][b])
       /\ v[cis][b] = p /\ v[RB!Other(cis)][b] = t[RB!Other(cis)][b]
       /\ \A k \in S \ {p, b}, s \in Sides : v[s][k] = IF t[s][k] = p THEN b ELSE t[s][k]
       /\ (~RB!IsRed(t, t.root) => ~RB!IsRed(v, v.root))
       /\ ~RB!IsRed(v, v[cis][p])
  BY <1>1, <1>8, <1>10, <1>14, <1>17, <1>18, <1>19, <1>20, <1>21, <1>g, <1>i
<1>23. QED
  BY <1>22 DEF v

(* The sibling is red: after a rotation there is a black one, below a red parent. *)
LEMMA RedSibling ==
  ASSUME TreeUsed, NEW t, NEW S, NEW D, NEW h, NEW node, NEW p, NEW cis,
         RemoveKept(t, S, D, h, node, p, cis), NEW b, Beside(t, b, p, cis), t.red[b]
  PROVE  /\ \E E, H : RemoveKept(SiblingUp(t, b, p, cis), S, E, H, node, p, cis)
         /\ SiblingUp(t, b, p, cis).red[p]
         /\ ~RB!IsRed(SiblingUp(t, b, p, cis), SiblingUp(t, b, p, cis)[RB!Other(cis)][p])
<1> DEFINE v == SiblingUp(t, b, p, cis)
<1>1. /\ Shape(t, S, D) /\ NoRedRed(t, S, 0) /\ p \in S /\ cis \in Sides /\ t[cis][p] = node
      /\ Heights(t, S, h, p, cis) /\ ~RB!IsRed(t, t.root) /\ ~RB!IsRed(t, t[cis][p])
  BY DEF RemoveKept
<1>2. b \in S /\ b # p
  BY SiblingIs
<1>3. PICK E, H :
         /\ Shape(v, S, E) /\ Heights(v, S, H, p, cis) /\ NoRedRed(v, S, 0)
         /\ v.red[p] /\ ~RB!IsRed(v, b) /\ \A k \in S \ {p, b} : v.red[k] = t.red[k]
         /\ v[cis][p] = t[cis][p] /\ v[RB!Other(cis)][p] = t[cis][b] /\ ~RB!IsRed(v, t[cis][b])
         /\ v[cis][b] = p /\ v[RB!Other(cis)][b] = t[RB!Other(cis)][b]
         /\ \A k \in S \ {p, b}, s \in Sides : v[s][k] = IF t[s][k] = p THEN b ELSE t[s][k]
         /\ (~RB!IsRed(t, t.root) => ~RB!IsRed(v, v.root))
         /\ ~RB!IsRed(v, v[cis][p])
  BY <1>1, <1>2, Promoted
<1> HIDE DEF v
<1>4. RemoveKept(v, S, E, H, node, p, cis)
  BY <1>1, <1>3 DEF RemoveKept
<1>5. ~RB!IsRed(v, v[RB!Other(cis)][p])
  BY <1>3
<1>6. QED
  BY <1>3, <1>4, <1>5 DEF v

(* The sibling's child on node's side is red, the other not: after a rotation it is the other. *)
LEMMA NearRed ==
  ASSUME TreeUsed, NEW t, NEW S, NEW D, NEW h, NEW node, NEW p, NEW cis,
         RemoveKept(t, S, D, h, node, p, cis), NEW b, Beside(t, b, p, cis), ~RB!IsRed(t, b),
         ~RB!IsRed(t, t[RB!Other(cis)][b]), RB!IsRed(t, t[cis][b])
  PROVE  LET v == SiblingUp(t, t[cis][b], b, RB!Other(cis))
         IN  /\ \E E, H : RemoveKept(v, S, E, H, node, p, cis)
             /\ ~RB!IsRed(v, v[RB!Other(cis)][p])
             /\ RB!IsRed(v, v[RB!Other(cis)][v[RB!Other(cis)][p]])
<1> DEFINE trans == RB!Other(cis)
           n == t[cis][b]
           v == SiblingUp(t, n, b, trans)
<1>1. /\ Shape(t, S, D) /\ NoRedRed(t, S, 0) /\ p \in S /\ cis \in Sides /\ t[cis][p] = node
      /\ Heights(t, S, h, p, cis) /\ ~RB!IsRed(t, t.root) /\ ~RB!IsRed(t, node)
  BY DEF RemoveKept
<1>2. trans \in Sides /\ trans # cis /\ RB!Other(trans) = cis
  BY <1>1, OtherSide
<1>3. b \in S /\ b # p /\ b # node /\ node \in S \cup {0} /\ node # p
  BY SiblingIs
<1>4. b = t[trans][p] /\ n = t[cis][b] /\ ~RB!IsRed(t, t[trans][b]) /\ RB!IsRed(t, n)
  BY DEF Beside
<1> HIDE DEF trans
<1>0. 0 \notin S
  BY <1>1, ShapeKeys
<1>5. n # 0 /\ t.red[n]
  BY <1>4 DEF RB!IsRed
<1>6. n \in S /\ n # b /\ t.parent[n] = b
  BY <1>1, <1>3, <1>5, ChildIs
<1>7. t.parent[b] = p /\ (node # 0 => t.parent[node] = p)
  BY <1>0, <1>1, <1>2, <1>3, <1>4, ChildIs
<1>8. n # p /\ n # node
  <2>1. n # p
    <3>1. t[cis][b] # t.parent[b] \/ t[cis][b] = 0
      BY <1>1, <1>3, ParentOf
    <3>2. QED
      BY <1>5, <1>7, <3>1
  <2>2. n # node
    BY <1>3, <1>5, <1>6, <1>7
  <2>3. QED
    BY <2>1, <2>2
<1>9. Beside(t, n, b, trans)
  BY <1>2 DEF Beside
<1>g. v = SiblingUp(t, t[cis][b], b, RB!Other(cis)) /\ trans = RB!Other(cis)
  BY DEF trans
<1>k. ~RB!IsRed(t, t[trans][b]) /\ t.red[n] /\ n \in S /\ n # p /\ b # p /\ b \in S /\ trans \in Sides
  BY <1>2, <1>3, <1>4, <1>5, <1>6, <1>8
<1>l. Shape(t, S, D) /\ NoRedRed(t, S, 0) /\ Heights(t, S, h, p, cis)
  BY <1>1
<1> HIDE DEF n
<1>10. PICK E, H :
         /\ Shape(v, S, E) /\ Heights(v, S, H, p, cis) /\ NoRedRed(v, S, 0)
         /\ v.red[b] /\ ~RB!IsRed(v, n) /\ \A k \in S \ {b, n} : v.red[k] = t.red[k]
         /\ v[trans][b] = t[trans][b] /\ v[RB!Other(trans)][b] = t[trans][n] /\ ~RB!IsRed(v, t[trans][n])
         /\ v[trans][n] = b /\ v[RB!Other(trans)][n] = t[RB!Other(trans)][n]
         /\ \A k \in S \ {b, n}, s \in Sides : v[s][k] = IF t[s][k] = b THEN n ELSE t[s][k]
         /\ (~RB!IsRed(t, t.root) => ~RB!IsRed(v, v.root))
         /\ ~RB!IsRed(v, v[trans][b])
  BY <1>9, <1>k, <1>l, Promoted
<1> HIDE DEF v
<1>11. v[cis][p] = node /\ v[trans][p] = n
  BY <1>1, <1>2, <1>3, <1>4, <1>8, <1>10
<1>12. ~RB!IsRed(v, node)
  BY <1>1, <1>3, <1>8, <1>10 DEF RB!IsRed
<1>13. RemoveKept(v, S, E, H, node, p, cis)
  BY <1>1, <1>10, <1>11, <1>12 DEF RemoveKept
<1>14. ~RB!IsRed(v, v[trans][p]) /\ RB!IsRed(v, v[trans][v[trans][p]])
  BY <1>0, <1>3, <1>10, <1>11 DEF RB!IsRed
<1>15. QED
  BY <1>13, <1>14, <1>g

(* The sibling's other child is red: a rotation gives node's side its black node back. *)
LastTurn(t, b, f, p, cis) ==
    RB!Rotate(RB!Paint(RB!Paint(RB!Paint(t, b, t.red[p]), p, FALSE), f, FALSE), p, cis)

(* The sibling's child away from the node is red: one rotation ends the repair. *)
LEMMA FarRed ==
  ASSUME TreeUsed, NEW t, NEW S, NEW D, NEW h, NEW node, NEW p, NEW cis,
         RemoveKept(t, S, D, h, node, p, cis), NEW b, Beside(t, b, p, cis), ~RB!IsRed(t, b),
         NEW f, f = t[RB!Other(cis)][b], RB!IsRed(t, f)
  PROVE  Ends(LastTurn(t, b, f, p, cis), S, LastTurn(t, b, f, p, cis).root)
<1> DEFINE trans == RB!Other(cis)
           v == LastTurn(t, b, f, p, cis)
           X == {p, b, f}
           H == [k \in RB!Nodes |-> IF k = b THEN h[p] ELSE IF k = p THEN h[b] ELSE IF k = f THEN h[b] ELSE h[k]]
           t1 == RB!Paint(t, b, t.red[p])
           t2 == RB!Paint(t1, p, FALSE)
           t3 == RB!Paint(t2, f, FALSE)
<1>1. /\ Shape(t, S, D) /\ NoRedRed(t, S, 0) /\ p \in S /\ cis \in Sides /\ t[cis][p] = node
      /\ Heights(t, S, h, p, cis) /\ ~RB!IsRed(t, t.root) /\ ~RB!IsRed(t, node)
  BY DEF RemoveKept
<1>2. trans \in Sides /\ trans # cis /\ RB!Other(trans) = cis /\ \A s \in Sides : s # cis => s = trans
  BY <1>1, OtherSide
<1>3. /\ b \in S /\ b # p /\ b # node /\ t.parent[b] = p /\ node \in S \cup {0} /\ node # p /\ p # 0
      /\ h[b] = h[node] + 1 /\ (node # 0 => t.parent[node] = p)
  BY SiblingIs
<1>4. b = t[trans][p] /\ f = t[trans][b] /\ f # 0 /\ t.red[f]
  BY DEF Beside, RB!IsRed
<1>h. v = RB!Rotate(t3, p, cis)
  BY DEF LastTurn
<1> HIDE DEF trans, H, X, v, t1, t2, t3
<1>0. /\ 0 \notin S /\ S \subseteq RB!Keys /\ S \subseteq RB!Nodes /\ 0 \in RB!Nodes /\ S \cup {0} \subseteq RB!Nodes
      /\ t.root \in S \cup {0} /\ t \in RB!Tree
  BY <1>1, ShapeKeys
<1>5. f \in S /\ f # b /\ t.parent[f] = b
  BY <1>1, <1>2, <1>3, <1>4, ChildIs
<1>6. f # p /\ f # node
  <2>1. t[trans][b] # t.parent[b] \/ t[trans][b] = 0
    BY <1>1, <1>2, <1>3, ParentOf
  <2>2. f # p
    BY <1>3, <1>4, <2>1
  <2>3. f # node
    BY <1>3, <1>4, <1>5
  <2>4. QED
    BY <2>2, <2>3
<1>a. t.red[p] \in BOOLEAN
  BY <1>0, <1>1, Fields
<1>7. Shape(t1, S, D) /\ Painted(t, t1, b, t.red[p]) /\ SamePointers(t, t1)
  BY <1>1, <1>3, <1>a, PaintShape DEF t1
<1>8. Shape(t2, S, D) /\ Painted(t1, t2, p, FALSE) /\ SamePointers(t1, t2)
  BY <1>1, <1>7, PaintShape DEF t2
<1>9. Shape(t3, S, D) /\ Painted(t2, t3, f, FALSE) /\ SamePointers(t2, t3)
  BY <1>5, <1>8, PaintShape DEF t3
<1>10. /\ \A k \in S, s \in Sides : t3[s][k] = t[s][k]
       /\ \A k \in S : t3.red[k] = IF k = f THEN FALSE ELSE IF k = p THEN FALSE
                                   ELSE IF k = b THEN t.red[p] ELSE t.red[k]
  <2>1. \A k \in S, s \in Sides : t3[s][k] = t[s][k]
    BY <1>0, <1>7, <1>8, <1>9 DEF SamePointers
  <2>2. /\ \A k \in S : t3.red[k] = IF k = f THEN FALSE ELSE t2.red[k]
        /\ \A k \in S : t2.red[k] = IF k = p THEN FALSE ELSE t1.red[k]
        /\ \A k \in S : t1.red[k] = IF k = b THEN t.red[p] ELSE t.red[k]
    BY <1>0, <1>7, <1>8, <1>9 DEF Painted
  <2>3. QED
    BY <2>1, <2>2
<1> DEFINE E == After(t3, D, p, cis)
           m == t[cis][b]
<1>11. t3[RB!Other(cis)][p] = b /\ b # 0 /\ trans = RB!Other(cis)
  BY <1>0, <1>1, <1>2, <1>3, <1>4, <1>10 DEF trans
<1>12. Rotated(t3, v, p, cis) /\ Shape(v, S, E)
  BY <1>1, <1>9, <1>11, <1>h, RotateKeeps
<1>i. t[cis][b] = m /\ t3[cis][b] = m /\ t3[trans][b] = f /\ t3[cis][p] = node
  BY <1>1, <1>2, <1>3, <1>4, <1>10
<1> HIDE DEF E, m
<1>13. /\ m \in S \cup {0} /\ m # b /\ m # p
       /\ v[cis][b] = p /\ v[trans][b] = t3[trans][b] /\ v[trans][p] = m /\ v[cis][p] = t3[cis][p]
       /\ \A k \in S \ {p, b}, s \in Sides : v[s][k] = IF t3[s][k] = p THEN b ELSE t3[s][k]
       /\ \A k \in S \ {p, b}, s \in Sides : t3[s][k] # b
  BY <1>1, <1>3, <1>9, <1>11, <1>12, <1>i, Turned
<1>14. v[cis][p] = node /\ v[trans][p] = m /\ v[cis][b] = p /\ v[trans][b] = f
  BY <1>13, <1>i
<1>15. v.red = t3.red
  BY <1>12 DEF Rotated
<1>16. m # f
  BY <1>1, <1>2, <1>3, <1>4, <1>i, ChildIs
<1>17. ASSUME NEW s \in Sides
       PROVE  v[s][f] = t[s][f] /\ t[s][f] \in S \cup {0} /\ t[s][f] # p /\ t[s][f] # b /\ t[s][f] # f
  <2>1. t[s][f] \in S \cup {0} /\ t[s][f] # f /\ (t[s][f] # 0 => t.parent[t[s][f]] = f)
    BY <1>1, <1>5, ChildIs
  <2>2. p \notin D[b] /\ D[f] \subseteq D[b] /\ D[t[s][f]] \subseteq D[f] /\ (t[s][f] # 0 => t[s][f] \in D[f])
    <3>1. D[t[s][f]] \subseteq D[f] /\ (t[s][f] # 0 => t[s][f] \in D[f])
      BY <1>1, <1>5, ChildIs
    <3>2. p \notin D[b] /\ D[f] \subseteq D[b]
      BY <1>1, <1>2, <1>3, <1>4, <1>5, ChildIs
    <3>3. QED
      BY <3>1, <3>2
  <2> DEFINE x == t[s][f]
  <2>3. x \in S \cup {0} /\ x # f /\ (x # 0 => t.parent[x] = f /\ x \in D[b])
    BY <2>1, <2>2
  <2>4. t3[s][f] = x
    BY <1>5, <1>10
  <2> HIDE DEF x
  <2>5. x # p /\ x # b
    BY <1>0, <1>1, <1>3, <1>6, <2>2, <2>3
  <2>6. v[s][f] = x
    BY <1>5, <1>6, <1>13, <2>4, <2>5
  <2>7. QED
    BY <2>3, <2>5, <2>6 DEF x
<1>18. Repainted(t3, t, S, X)
  BY <1>10 DEF Repainted, X
<1>19. Entered(t3, S, X, p)
  <2>1. \A k \in S, s \in Sides : t[s][k] = f => k = b
    BY <1>1, <1>4, <1>5 DEF Shape, Linked
  <2>2. QED
    BY <1>10, <1>13, <2>1 DEF Entered, X
<1>20. /\ X \in SUBSET S /\ p \in X /\ t3[RB!Other(cis)][p] \in X /\ t3[RB!Other(cis)][p] # 0
  BY <1>1, <1>3, <1>5, <1>11 DEF X
<1>21. NoRedRed(v, S, 0)
  <2>1. ~RB!IsRed(v, p) /\ ~RB!IsRed(v, f) /\ ~t3.red[p] /\ ~t3.red[f] /\ t3.red[b] = t.red[p]
    BY <1>1, <1>3, <1>5, <1>6, <1>10, <1>15 DEF RB!IsRed
  <2>2. Calm(t3, v, X, 0)
    BY <1>2, <1>14, <2>1 DEF Calm, X
  <2>3. 0 \in X \cup {0} /\ 0 # p /\ (t3.red[t3[RB!Other(cis)][p]] => t.red[p])
    BY <1>3, <1>11, <2>1
  <2>4. QED
    BY <1>1, <1>9, <1>12, <1>18, <1>20, <1>19, <2>2, <2>3, ColoursAfter
<1>22. Heights(v, S, H, 0, "left")
  <2>1. h \in [RB!Nodes -> Nat] /\ h[0] = 0
    BY <1>1 DEF Heights
  <2>2. /\ H[b] = h[p] /\ H[p] = h[b] /\ H[node] = h[node] /\ H[f] = h[b]
        /\ H[m] = h[m]
    BY <1>0, <1>1, <1>3, <1>5, <1>6, <1>13, <1>16 DEF H
  <2>3. NewIn(H, h, X)
    BY <1>0, <1>1, <1>3, <1>5, <2>1 DEF NewIn, H, X
  <2>4. h[p] \in Nat /\ h[b] \in Nat /\ h[node] \in Nat /\ h[m] \in Nat /\ h[f] \in Nat
    BY <1>0, <1>1, <1>3, <1>5, <1>13, <2>1
  <2>5. h[p] = h[b] + Black(t, p) /\ h[b] = h[m] + Black(t, b) /\ h[b] = h[f] + Black(t, b)
    BY <1>1, <1>2, <1>3, <1>4, <1>i, HeightOf
  <2>6. Black(t, b) = 1 /\ Black(t3, p) = 1 /\ Black(t3, f) = 1 /\ Black(t3, b) = Black(t, p) /\ Black(t, f) = 0
    BY <1>0, <1>1, <1>3, <1>4, <1>5, <1>6, <1>10 DEF Black, RB!IsRed
  <2>7. h[b] = h[m] + 1 /\ h[b] = h[f] + 1 /\ h[b] = h[node] + 1
    BY <1>3, <2>4, <2>5, <2>6
  <2>8. /\ H[p] = H[v[cis][p]] + Black(t3, p) /\ H[p] = H[v[trans][p]] + Black(t3, p)
        /\ H[b] = H[v[cis][b]] + Black(t3, b) /\ H[b] = H[v[trans][b]] + Black(t3, b)
    <3>1. /\ H[v[cis][p]] = h[node] /\ H[v[trans][p]] = h[m]
          /\ H[v[cis][b]] = h[b] /\ H[v[trans][b]] = h[b]
      BY <1>14, <2>2
    <3>2. h[b] = h[node] + Black(t3, p) /\ h[b] = h[m] + Black(t3, p)
      BY <2>6, <2>7
    <3>3. h[p] = h[b] + Black(t3, b)
      BY <2>5, <2>6
    <3>4. QED
      BY <2>2, <3>1, <3>2, <3>3
  <2>9. ASSUME NEW s \in Sides PROVE H[f] = H[v[s][f]] + Black(t3, f)
    <3> DEFINE x == t[s][f]
    <3>1. h[f] = h[x] + Black(t, f) /\ h[x] \in Nat
      BY <1>1, <1>5, <1>6, HeightOf
    <3>2. H[x] = h[x] /\ v[s][f] = x
      BY <1>0, <1>17 DEF H
    <3> HIDE DEF x
    <3>3. QED
      BY <2>2, <2>4, <2>6, <2>7, <3>1, <3>2
  <2>10. CountedIn(t3, v, X, H, 0, "left")
    <3> SUFFICES ASSUME NEW k \in X, NEW s \in Sides
                 PROVE  H[k] = H[v[s][k]] + Black(t3, k) + (IF k = 0 /\ s = "left" THEN 1 ELSE 0)
      BY DEF CountedIn
    <3>1. k # 0 /\ H[k] \in Nat
      BY <1>0, <1>1, <1>3, <1>5, <2>2, <2>4 DEF X
    <3>2. H[k] = H[v[s][k]] + Black(t3, k)
      BY <1>2, <2>8, <2>9 DEF X
    <3>3. QED
      BY <3>1, <3>2
  <2>11. StaysShort(S, X, p, cis, 0, "left")
    BY <1>0 DEF StaysShort, X
  <2>12. H[t3[RB!Other(cis)][p]] = h[p]
    BY <1>11, <2>2
  <2>13. QED
    BY <1>1, <1>9, <1>12, <1>18, <1>19, <1>20, <2>3, <2>10, <2>11, <2>12, HeightsAfter
<1>23. \E K : Good(RB!Paint(v, v.root, FALSE), S, E, K)
  BY <1>12, <1>21, <1>22, PaintRoot
<1>24. v \in RB!Tree /\ v.root \in S \cup {0}
  BY <1>12, ShapeKeys
<1>25. QED
  BY <1>23, <1>24 DEF Ends, v

(* The three steps of a round, on a tree that lacks a black node below p on side cis. *)
LEMMA BlackSiblingIs ==
  ASSUME TreeUsed, NEW t, NEW S, NEW D, NEW h, NEW node, NEW p, NEW cis, RemoveKept(t, S, D, h, node, p, cis)
  PROVE  LET u == RB!BlackSibling(t, p, cis)
         IN  /\ \E E, H : RemoveKept(u, S, E, H, node, p, cis) /\ (E = D \/ u.red[p])
             /\ ~RB!IsRed(u, u[RB!Other(cis)][p])
<1> DEFINE b == t[RB!Other(cis)][p]
<1>1. Beside(t, b, p, cis)
  BY DEF Beside
<1> HIDE DEF b
<1>2. b \in S /\ b # 0
  BY <1>1, SiblingIs, ShapeKeys DEF RemoveKept
<1>3. CASE ~RB!IsRed(t, b)
  <2>1. RB!BlackSibling(t, p, cis) = t
    BY <1>3 DEF RB!BlackSibling, b
  <2>2. QED
    BY <1>3, <2>1 DEF b
<1>4. CASE RB!IsRed(t, b)
  <2>1. RB!BlackSibling(t, p, cis) = SiblingUp(t, b, p, cis)
    BY <1>4 DEF RB!BlackSibling, SiblingUp, b
  <2>2. t.red[b]
    BY <1>4 DEF RB!IsRed
  <2>3. /\ \E E, H : RemoveKept(SiblingUp(t, b, p, cis), S, E, H, node, p, cis)
        /\ SiblingUp(t, b, p, cis).red[p]
        /\ ~RB!IsRed(SiblingUp(t, b, p, cis), SiblingUp(t, b, p, cis)[RB!Other(cis)][p])
    BY <1>1, <2>2, RedSibling
  <2>4. QED
    BY <2>1, <2>3
<1>5. QED
  BY <1>3, <1>4

LEMMA RedOutsideIs ==
  ASSUME TreeUsed, NEW t, NEW S, NEW D, NEW h, NEW node, NEW p, NEW cis, RemoveKept(t, S, D, h, node, p, cis),
         NEW b, Beside(t, b, p, cis), ~RB!IsRed(t, b), RB!IsRed(t, t.left[b]) \/ RB!IsRed(t, t.right[b])
  PROVE  LET u == RB!RedOutside(t, b, RB!Other(cis))
         IN  /\ \E E, H : RemoveKept(u, S, E, H, node, p, cis)
             /\ ~RB!IsRed(u, u[RB!Other(cis)][p])
             /\ RB!IsRed(u, u[RB!Other(cis)][u[RB!Other(cis)][p]])
<1> DEFINE trans == RB!Other(cis)
<1>1. cis \in Sides /\ trans \in Sides /\ RB!Other(trans) = cis /\ \A s \in Sides : s # cis => s = trans
  BY OtherSide DEF RemoveKept
<1>2. b = t[trans][p]
  BY DEF Beside
<1>3. b \in RB!Keys /\ t \in RB!Tree
  BY SiblingIs, ShapeKeys DEF RemoveKept
<1>4. t.left[b] = t["left"][b] /\ t.right[b] = t["right"][b]
  BY <1>3, Fields
<1>5. RB!IsRed(t, t[trans][b]) \/ RB!IsRed(t, t[cis][b])
  BY <1>1, <1>4 DEF Sides
<1> HIDE DEF trans
<1>6. CASE RB!IsRed(t, t[trans][b])
  <2>1. RB!RedOutside(t, b, trans) = t
    BY <1>6 DEF RB!RedOutside
  <2>2. QED
    BY <1>2, <1>6, <2>1 DEF trans
<1>7. CASE ~RB!IsRed(t, t[trans][b])
  <2>1. RB!RedOutside(t, b, trans) = SiblingUp(t, t[cis][b], b, trans)
    BY <1>1, <1>7 DEF RB!RedOutside, SiblingUp
  <2>2. LET v == SiblingUp(t, t[cis][b], b, RB!Other(cis))
        IN  /\ \E E, H : RemoveKept(v, S, E, H, node, p, cis)
            /\ ~RB!IsRed(v, v[RB!Other(cis)][p])
            /\ RB!IsRed(v, v[RB!Other(cis)][v[RB!Other(cis)][p]])
    BY <1>5, <1>7, NearRed DEF trans
  <2>3. QED
    BY <2>1, <2>2 DEF trans
<1>8. QED
  BY <1>6, <1>7

LEMMA BlackForIs ==
  ASSUME TreeUsed, NEW t, NEW S, NEW D, NEW h, NEW node, NEW p, NEW cis, RemoveKept(t, S, D, h, node, p, cis),
         ~RB!IsRed(t, t[RB!Other(cis)][p]), RB!IsRed(t, t[RB!Other(cis)][t[RB!Other(cis)][p]])
  PROVE  Ends(RB!BlackFor(t, p, cis), S, RB!BlackFor(t, p, cis).root)
<1> DEFINE b == t[RB!Other(cis)][p]
           f == t[RB!Other(cis)][b]
<1>1. Beside(t, b, p, cis)
  BY DEF Beside
<1>2. RB!BlackFor(t, p, cis) = LastTurn(t, b, f, p, cis)
  BY DEF RB!BlackFor, LastTurn
<1>3. Ends(LastTurn(t, b, f, p, cis), S, LastTurn(t, b, f, p, cis).root)
  BY <1>1, FarRed
<1>4. QED
  BY <1>2, <1>3

(* A sibling without red children turns red; both sides of p lack a black node then. *)
Recoloured(t, S, D, h, node, p, cis, b) ==
    /\ RemoveKept(t, S, D, h, node, p, cis) /\ Beside(t, b, p, cis)
    /\ ~RB!IsRed(t, b) /\ \A s \in Sides : ~RB!IsRed(t, t[s][b])

BothShort(t, u, S, D, p, b) ==
    /\ b \in S /\ p \in S /\ b # p /\ t.parent[b] = p /\ 0 \notin S /\ S \subseteq RB!Nodes
    /\ t.root \in S \cup {0} /\ t.root # b
    /\ Shape(u, S, D) /\ u.root = t.root /\ u.parent = t.parent
    /\ \A k \in S, s \in Sides : u[s][k] = t[s][k]
    /\ \A k \in S : u.red[k] = IF k = b THEN TRUE ELSE t.red[k]
    /\ \A k \in S, s \in Sides : t[s][k] \in S \cup {0} /\ t[s][k] # k /\ (t[s][k] = b => k = p)

(* The sibling and its children are black: it becomes red, the flaw goes up. *)
LEMMA RecolouredIs ==
  ASSUME TreeUsed, NEW t, NEW S, NEW D, NEW h, NEW node, NEW p, NEW cis, NEW b, Recoloured(t, S, D, h, node, p, cis, b)
  PROVE  BothShort(t, RB!Paint(t, b, TRUE), S, D, p, b)
<1>1. /\ Shape(t, S, D) /\ p \in S /\ Beside(t, b, p, cis)
  BY DEF Recoloured, RemoveKept
<1>2. b \in S /\ b # p /\ t.parent[b] = p /\ p # 0
  BY SiblingIs DEF Recoloured
<1>3. 0 \notin S /\ S \subseteq RB!Nodes /\ S \subseteq RB!Keys /\ t.root \in S \cup {0}
  BY <1>1, ShapeKeys
<1>4. t.root # b
  BY <1>1, <1>2, ParentOf
<1> DEFINE u == RB!Paint(t, b, TRUE)
<1>5. Shape(u, S, D) /\ Painted(t, u, b, TRUE) /\ SamePointers(t, u)
  BY <1>1, <1>2, PaintShape
<1> HIDE DEF u
<1>6. /\ u.root = t.root /\ u.parent = t.parent
      /\ \A k \in S, s \in Sides : u[s][k] = t[s][k]
      /\ \A k \in S : u.red[k] = IF k = b THEN TRUE ELSE t.red[k]
  BY <1>3, <1>5 DEF Painted, SamePointers
<1>7. \A k \in S, s \in Sides : t[s][k] \in S \cup {0} /\ t[s][k] # k
  BY <1>1, ChildIs
<1>8. \A k \in S, s \in Sides : t[s][k] = b => k = p
  BY <1>1, <1>2, <1>3 DEF Shape, Linked
<1>9. QED
  BY <1>1, <1>2, <1>3, <1>4, <1>5, <1>6, <1>7, <1>8 DEF BothShort, u

(* What is said of the numbers at each node. *)
LEMMA RecolouredHeights ==
  ASSUME TreeUsed, NEW t, NEW S, NEW D, NEW h, NEW node, NEW p, NEW cis, NEW b, Recoloured(t, S, D, h, node, p, cis, b)
  PROVE  /\ h \in [RB!Nodes -> Nat] /\ h[0] = 0 /\ h[b] >= 1 /\ h[p] >= 1
         /\ \A s \in Sides : h[b] = h[t[s][b]] + 1
         /\ \A s \in Sides : t[s][p] # b => h[p] = h[t[s][p]] + Black(t, p) + 1
         /\ h[p] = h[b] + Black(t, p)
         /\ \A k \in S \ {p}, s \in Sides : h[k] = h[t[s][k]] + Black(t, k)
         /\ \A k \in S, s \in Sides : h[k] \in Nat /\ h[t[s][k]] \in Nat
<1>1. /\ Shape(t, S, D) /\ p \in S /\ Beside(t, b, p, cis) /\ Heights(t, S, h, p, cis) /\ cis \in Sides
  BY DEF Recoloured, RemoveKept
<1>2. b \in S /\ b # p /\ h[b] = h[node] + 1 /\ node \in S \cup {0}
  BY SiblingIs DEF Recoloured
<1>3. h \in [RB!Nodes -> Nat] /\ h[0] = 0 /\ S \subseteq RB!Nodes /\ 0 \in RB!Nodes
  BY <1>1, ShapeKeys DEF Heights
<1>4. \A k \in S, s \in Sides : h[k] \in Nat /\ h[t[s][k]] \in Nat
  BY <1>1, HeightOf
<1>5. h[node] \in Nat
  BY <1>2, <1>3
<1>6. Black(t, b) = 1
  BY <1>2, ShapeKeys, <1>1 DEF Recoloured, RB!IsRed, Black
<1>7. ASSUME NEW k \in S \ {p}, NEW s \in Sides PROVE h[k] = h[t[s][k]] + Black(t, k)
  BY <1>1, HeightOf
<1>8. b = t[RB!Other(cis)][p] /\ RB!Other(cis) \in Sides /\ RB!Other(cis) # cis
      /\ \A s \in Sides : s = cis \/ s = RB!Other(cis)
  BY <1>1, OtherSide DEF Beside
<1>9. h[p] = h[b] + Black(t, p)
  BY <1>1, <1>8, HeightOf
<1>10. ASSUME NEW s \in Sides, t[s][p] # b PROVE h[p] = h[t[s][p]] + Black(t, p) + 1
  <2>1. s = cis
    BY <1>8, <1>10
  <2>2. QED
    BY <1>1, <2>1, HeightOf
<1>11. Black(t, p) \in Nat
  BY DEF Black
<1>12. h[b] >= 1 /\ h[p] >= 1
  BY <1>2, <1>4, <1>5, <1>9, <1>11
<1>13. \A s \in Sides : h[b] = h[t[s][b]] + 1
  BY <1>2, <1>6, <1>7
<1>14. QED
  BY <1>3, <1>4, <1>7, <1>9, <1>10, <1>12, <1>13

(* The parent is red: painting it black, at the end, makes up for it. *)
LEMMA RecolouredBelowRed ==
  ASSUME TreeUsed, NEW t, NEW S, NEW D, NEW h, NEW node, NEW p, NEW cis, NEW b, Recoloured(t, S, D, h, node, p, cis, b),
         RB!IsRed(t, p)
  PROVE  Ends(RB!Paint(t, b, TRUE), S, p)
<1> DEFINE u == RB!Paint(t, b, TRUE)
           w == RB!Paint(u, p, FALSE)
           H == [h EXCEPT ![b] = h[b] - 1]
<1>0. BothShort(t, u, S, D, p, b)
  BY RecolouredIs
<1> HIDE DEF u
<1>1. /\ b \in S /\ p \in S /\ b # p /\ t.parent[b] = p /\ 0 \notin S /\ S \subseteq RB!Nodes
      /\ t.root \in S \cup {0} /\ t.root # b
      /\ Shape(u, S, D) /\ u.root = t.root /\ u.parent = t.parent
      /\ \A k \in S, s \in Sides : u[s][k] = t[s][k]
      /\ \A k \in S : u.red[k] = IF k = b THEN TRUE ELSE t.red[k]
      /\ \A k \in S, s \in Sides : t[s][k] \in S \cup {0} /\ t[s][k] # k /\ (t[s][k] = b => k = p)
  BY <1>0 DEF BothShort
<1>2. Shape(w, S, D) /\ Painted(u, w, p, FALSE) /\ SamePointers(u, w) /\ S \subseteq RB!Keys
  <2>1. Shape(u, S, D) /\ p \in S \cup {0} /\ FALSE \in BOOLEAN
    BY <1>1
  <2>2. QED
    BY <2>1, PaintShape, ShapeKeys
<1>r. t.red[p]
  BY DEF RB!IsRed
<1> HIDE DEF w
<1>3. /\ \A k \in S, s \in Sides : w[s][k] = t[s][k]
      /\ \A k \in S : w.red[k] = IF k = b THEN TRUE ELSE IF k = p THEN FALSE ELSE t.red[k]
      /\ w.root = t.root
  <2>1. \A k \in S, s \in Sides : w[s][k] = t[s][k]
    BY <1>1, <1>2 DEF SamePointers
  <2>2. \A k \in S : w.red[k] = IF k = p THEN FALSE ELSE u.red[k]
    BY <1>2 DEF Painted
  <2>3. w.root = t.root
    BY <1>1, <1>2 DEF Painted
  <2>4. \A k \in S : u.red[k] = IF k = b THEN TRUE ELSE t.red[k]
    BY <1>1
  <2>5. QED
    BY <1>1, <2>1, <2>2, <2>3, <2>4
<1>a. /\ h \in [RB!Nodes -> Nat] /\ h[0] = 0 /\ h[b] >= 1 /\ h[p] >= 1
      /\ \A s \in Sides : h[b] = h[t[s][b]] + 1
      /\ \A s \in Sides : t[s][p] # b => h[p] = h[t[s][p]] + Black(t, p) + 1
      /\ h[p] = h[b] + Black(t, p)
      /\ \A k \in S \ {p}, s \in Sides : h[k] = h[t[s][k]] + Black(t, k)
      /\ \A k \in S, s \in Sides : h[k] \in Nat /\ h[t[s][k]] \in Nat
  BY RecolouredHeights
<1>4. /\ H \in [RB!Nodes -> Nat] /\ H[0] = 0 /\ H[b] = h[b] - 1 /\ \A k \in S \cup {0} : k # b => H[k] = h[k]
  BY <1>1, <1>a, ShapeKeys
<1> HIDE DEF H
<1>5. ASSUME NEW k \in S, NEW s \in Sides PROVE H[k] = H[w[s][k]] + Black(w, k)
  <2> DEFINE c == t[s][k]
  <2>1. c \in S \cup {0} /\ c # k /\ (c = b => k = p) /\ w[s][k] = c
    BY <1>1, <1>3
  <2>2. /\ k = b => h[k] = h[c] + 1
        /\ k = p => h[p] = h[b] + Black(t, p) /\ (c # b => h[p] = h[c] + Black(t, p) + 1)
        /\ k # p => h[k] = h[c] + Black(t, k)
        /\ h[k] \in Nat /\ h[c] \in Nat /\ h[b] \in Nat
    BY <1>1, <1>a
  <2> HIDE DEF c
  <2>3. CASE k = b
    <3>1. Black(w, k) = 0 /\ H[k] = h[b] - 1 /\ H[c] = h[c]
      BY <1>3, <1>4, <2>1, <2>3 DEF Black
    <3>2. QED
      BY <2>1, <2>2, <2>3, <3>1
  <2>4. CASE k = p
    <3>1. Black(w, k) = 1 /\ Black(t, p) = 0 /\ H[k] = h[p]
      BY <1>1, <1>3, <1>4, <1>r, <2>4 DEF Black
    <3>2. CASE c = b
      BY <1>4, <2>1, <2>2, <2>4, <3>1, <3>2
    <3>3. CASE c # b
      <4>1. H[c] = h[c]
        BY <1>4, <2>1, <3>3
      <4>2. QED
        BY <2>1, <2>2, <2>4, <3>1, <3>3, <4>1
    <3>4. QED
      BY <3>2, <3>3
  <2>5. CASE k # b /\ k # p
    <3>1. Black(w, k) = Black(t, k) /\ H[k] = h[k] /\ H[c] = h[c]
      BY <1>3, <1>4, <2>1, <2>5 DEF Black
    <3>2. QED
      BY <2>1, <2>2, <2>5, <3>1
  <2>6. QED
    BY <2>3, <2>4, <2>5
<1>6. Heights(w, S, H, 0, "left")
  <2> SUFFICES ASSUME NEW k \in S, NEW s \in Sides
               PROVE  H[k] = H[w[s][k]] + Black(w, k) + (IF k = 0 /\ s = "left" THEN 1 ELSE 0)
    BY <1>4 DEF Heights
  <2>1. k # 0 /\ H[k] \in Nat
    BY <1>1, <1>4
  <2>2. QED
    BY <1>5, <2>1
<1>7. NoRedRed(w, S, 0)
  <2> SUFFICES ASSUME NEW k \in S, NEW s \in Sides, w.red[k] PROVE ~RB!IsRed(w, w[s][k])
    BY DEF NoRedRed
  <2> DEFINE c == t[s][k]
  <2>1. c \in S \cup {0} /\ c # k /\ (c = b => k = p) /\ w[s][k] = c /\ k # p
    BY <1>1, <1>3
  <2>2. ~RB!IsRed(t, c)
    <3>1. CASE k = b
      BY <3>1 DEF Recoloured
    <3>2. CASE k # b
      <4>1. t.red[k] /\ NoRedRed(t, S, 0)
        BY <1>3, <2>1, <3>2 DEF Recoloured, RemoveKept
      <4>2. c = 0 \/ ~RB!IsRed(t, c)
        BY <4>1 DEF NoRedRed
      <4>3. QED
        BY <4>2 DEF RB!IsRed
    <3>3. QED
      BY <3>1, <3>2
  <2> HIDE DEF c
  <2>3. QED
    BY <1>3, <2>1, <2>2 DEF RB!IsRed
<1>8. ~RB!IsRed(w, w.root) /\ p # t.root
  <2> DEFINE r == t.root
  <2>1. ~RB!IsRed(t, r) /\ r \in S \cup {0} /\ r # b /\ w.root = r
    BY <1>1, <1>3 DEF Recoloured, RemoveKept
  <2> HIDE DEF r
  <2>2. r # p
    BY <1>1, <1>r, <2>1 DEF RB!IsRed
  <2>3. r # 0 => w.red[r] = t.red[r]
    BY <1>3, <2>1, <2>2
  <2>4. QED
    BY <2>1, <2>2, <2>3 DEF RB!IsRed, r
<1>9. Good(w, S, D, H)
  BY <1>2, <1>6, <1>7, <1>8 DEF Good
<1>10. RB!IsRed(u, p) /\ u \in RB!Tree
  BY <1>1, ShapeKeys DEF RB!IsRed
<1>11. QED
  BY <1>1, <1>9, <1>10 DEF Ends, w, u

(* The parent is black: it is the node that lacks one now, or the root. *)
LEMMA RecolouredBelowBlack ==
  ASSUME TreeUsed, NEW t, NEW S, NEW D, NEW h, NEW node, NEW p, NEW cis, NEW b, Recoloured(t, S, D, h, node, p, cis, b),
         ~RB!IsRed(t, p)
  PROVE  \/ Ends(RB!Paint(t, b, TRUE), S, p)
         \/ \E H : RemoveKept(RB!Paint(t, b, TRUE), S, D, H, p, t.parent[p], RB!SideOf(t, p, t.parent[p]))
<1> DEFINE u == RB!Paint(t, b, TRUE)
           P == t.parent[p]
           side == RB!SideOf(t, p, P)
           H == [k \in RB!Nodes |-> IF k = b \/ k = p THEN h[k] - 1 ELSE h[k]]
<1>0. BothShort(t, u, S, D, p, b)
  BY RecolouredIs
<1> HIDE DEF u
<1>1. /\ b \in S /\ p \in S /\ b # p /\ t.parent[b] = p /\ 0 \notin S /\ S \subseteq RB!Nodes
      /\ t.root \in S \cup {0} /\ t.root # b
      /\ Shape(u, S, D) /\ u.root = t.root /\ u.parent = t.parent
      /\ \A k \in S, s \in Sides : u[s][k] = t[s][k]
      /\ \A k \in S : u.red[k] = IF k = b THEN TRUE ELSE t.red[k]
      /\ \A k \in S, s \in Sides : t[s][k] \in S \cup {0} /\ t[s][k] # k /\ (t[s][k] = b => k = p)
  BY <1>0 DEF BothShort
<1>2. /\ P = 0 <=> p = t.root
      /\ P # 0 => P \in S /\ P # p /\ t[side][P] = p
      /\ \A j \in S, s \in Sides : t[s][j] = p => P = j /\ s = side
  BY <1>1, ParentOf DEF Recoloured, RemoveKept
<1>s. side \in Sides
  BY SideIs
<1>a. /\ h \in [RB!Nodes -> Nat] /\ h[0] = 0 /\ h[b] >= 1 /\ h[p] >= 1
      /\ \A s \in Sides : h[b] = h[t[s][b]] + 1
      /\ \A s \in Sides : t[s][p] # b => h[p] = h[t[s][p]] + Black(t, p) + 1
      /\ h[p] = h[b] + Black(t, p)
      /\ \A k \in S \ {p}, s \in Sides : h[k] = h[t[s][k]] + Black(t, k)
      /\ \A k \in S, s \in Sides : h[k] \in Nat /\ h[t[s][k]] \in Nat
  BY RecolouredHeights
<1>r. ~t.red[p]
  BY <1>1 DEF RB!IsRed
<1> HIDE DEF P, side
<1>4. /\ H \in [RB!Nodes -> Nat] /\ H[0] = 0 /\ H[b] = h[b] - 1 /\ H[p] = h[p] - 1
      /\ \A k \in S \cup {0} : k # b /\ k # p => H[k] = h[k]
  BY <1>1, <1>a, ShapeKeys
<1> HIDE DEF H
<1>5. ASSUME NEW k \in S, NEW s \in Sides
      PROVE  H[k] = H[u[s][k]] + Black(u, k) + (IF k = P /\ s = side THEN 1 ELSE 0)
  <2> DEFINE c == t[s][k]
             d == IF k = P /\ s = side THEN 1 ELSE 0
  <2>1. c \in S \cup {0} /\ c # k /\ (c = b => k = p) /\ (c = p => P = k /\ s = side) /\ u[s][k] = c
    BY <1>1, <1>2
  <2>2. /\ k = b => h[k] = h[c] + 1
        /\ k = p => h[p] = h[b] + Black(t, p) /\ (c # b => h[p] = h[c] + Black(t, p) + 1)
        /\ k # p => h[k] = h[c] + Black(t, k)
        /\ h[k] \in Nat /\ h[c] \in Nat /\ h[b] \in Nat /\ h[p] \in Nat
    BY <1>1, <1>a
  <2>d. d = IF c = p THEN 1 ELSE 0
    BY <1>1, <1>2, <2>1
  <2> HIDE DEF c, d
  <2>3. CASE k = b
    <3>0. c # p
      <4>1. ASSUME c = p PROVE FALSE
        <5>1. t[s][b] = p /\ t.parent[b] = p
          BY <1>1, <2>3, <4>1 DEF c
        <5>2. t[s][b] # t.parent[b] \/ t[s][b] = 0
          BY <1>1, ParentOf DEF Recoloured, RemoveKept
        <5>3. QED
          BY <1>1, <5>1, <5>2
      <4>2. QED
        BY <4>1
    <3>1. Black(u, k) = 0 /\ H[k] = h[b] - 1 /\ H[c] = h[c] /\ d = 0
      BY <1>1, <1>4, <2>1, <2>3, <2>d, <3>0 DEF Black
    <3>2. H[k] = H[u[s][k]] + Black(u, k) + d
      BY <2>1, <2>2, <2>3, <3>1
    <3>3. QED
      BY <3>2 DEF d
  <2>4. CASE k = p
    <3>1. Black(u, k) = Black(t, k) /\ Black(t, p) = 1 /\ H[k] = h[p] - 1 /\ d = 0
      BY <1>1, <1>4, <1>r, <2>1, <2>4, <2>d DEF Black
    <3>2. CASE c = b
      <4>1. H[k] = H[u[s][k]] + Black(u, k) + d
        BY <1>4, <2>1, <2>2, <2>4, <3>1, <3>2
      <4>2. QED
        BY <4>1 DEF d
    <3>3. CASE c # b
      <4>1. H[c] = h[c]
        BY <1>4, <2>1, <2>4, <3>3
      <4>2. H[k] = H[u[s][k]] + Black(u, k) + d
        BY <2>1, <2>2, <2>4, <3>1, <3>3, <4>1
      <4>3. QED
        BY <4>2 DEF d
    <3>4. QED
      BY <3>2, <3>3
  <2>5. CASE k # b /\ k # p
    <3>1. Black(u, k) = Black(t, k) /\ H[k] = h[k] /\ c # b /\ Black(t, k) \in {0, 1}
      BY <1>1, <1>4, <2>1, <2>5 DEF Black
    <3>2. h[k] = h[c] + Black(t, k)
      BY <2>2, <2>5
    <3>3. CASE c = p
      <4>1. H[c] = h[c] - 1 /\ d = 1
        BY <1>4, <2>d, <3>3
      <4>2. H[k] = H[u[s][k]] + Black(u, k) + d
        BY <2>1, <2>2, <3>1, <3>2, <4>1
      <4>3. QED
        BY <4>2 DEF d
    <3>4. CASE c # p
      <4>1. H[c] = h[c] /\ d = 0
        BY <1>4, <2>1, <2>d, <3>1, <3>4
      <4>2. H[k] = H[u[s][k]] + Black(u, k) + d
        BY <2>1, <2>2, <3>1, <3>2, <4>1
      <4>3. QED
        BY <4>2 DEF d
    <3>5. QED
      BY <3>3, <3>4
  <2>6. QED
    BY <2>3, <2>4, <2>5
<1>6. Heights(u, S, H, P, side)
  BY <1>4, <1>5 DEF Heights
<1>7. NoRedRed(u, S, 0)
  <2> SUFFICES ASSUME NEW k \in S, NEW s \in Sides, u.red[k] PROVE ~RB!IsRed(u, u[s][k])
    BY DEF NoRedRed
  <2> DEFINE c == t[s][k]
  <2>1. c \in S \cup {0} /\ c # k /\ (c = b => k = p) /\ u[s][k] = c
    BY <1>1
  <2>2. ~RB!IsRed(t, c) /\ c # b
    <3>1. CASE k = b
      BY <2>1, <3>1 DEF Recoloured
    <3>2. CASE k # b
      <4>1. t.red[k] /\ NoRedRed(t, S, 0)
        BY <1>1, <3>2 DEF Recoloured, RemoveKept
      <4>2. c = 0 \/ ~RB!IsRed(t, c)
        BY <4>1 DEF NoRedRed
      <4>3. c # b
        BY <1>r, <2>1, <4>1
      <4>4. QED
        BY <4>2, <4>3 DEF RB!IsRed
    <3>3. QED
      BY <3>1, <3>2
  <2> HIDE DEF c
  <2>3. QED
    BY <1>1, <2>1, <2>2 DEF RB!IsRed
<1>8. u \in RB!Tree
  BY <1>1, ShapeKeys
<1>9. CASE P = 0
  <2>1. Heights(u, S, H, 0, "left")
    BY <1>1, <1>6, <1>9 DEF Heights
  <2>2. p = u.root
    BY <1>1, <1>2, <1>9
  <2>3. \E K : Good(RB!Paint(u, p, FALSE), S, D, K)
    BY <1>1, <1>7, <2>1, <2>2, PaintRoot
  <2>4. QED
    BY <1>1, <1>8, <2>2, <2>3 DEF Ends, u
<1>10. CASE P # 0
  <2>1. P \in S /\ u[side][P] = p /\ ~RB!IsRed(u, p)
    BY <1>1, <1>2, <1>10, <1>s DEF RB!IsRed
  <2>2. ~RB!IsRed(u, u.root)
    <3> DEFINE r == t.root
    <3>1. ~RB!IsRed(t, r) /\ r \in S \cup {0} /\ r # b /\ u.root = r
      BY <1>1 DEF Recoloured, RemoveKept
    <3> HIDE DEF r
    <3>2. ~RB!IsRed(u, r)
      BY <1>1, <3>1 DEF RB!IsRed
    <3>3. QED
      BY <3>1, <3>2
  <2>3. RemoveKept(u, S, D, H, p, P, side)
    BY <1>1, <1>6, <1>7, <1>s, <2>1, <2>2 DEF RemoveKept
  <2>4. QED
    BY <2>3 DEF u, P, side
<1>11. QED
  BY <1>9, <1>10

GoesOn(s, cis) ==
    s.node # s.tree.root /\ ~RB!IsRed(s.tree, s.node) /\ RB!SideOf(s.tree, s.node, s.parent) = cis
RedBelow(t, b) == RB!IsRed(t, t.left[b]) \/ RB!IsRed(t, t.right[b])
LastTree(t, p, cis) ==
    RB!BlackFor(RB!RedOutside(RB!BlackSibling(t, p, cis),
                              RB!BlackSibling(t, p, cis)[RB!Other(cis)][p], RB!Other(cis)), p, cis)

(* The cases of a round after a removal. *)
LEMMA RemoveStays ==
  ASSUME NEW s, s.node = s.tree.root \/ RB!IsRed(s.tree, s.node)
  PROVE  RB!RemoveRound(s) = s
BY DEF RB!RemoveRound

LEMMA RemoveLast ==
  ASSUME NEW s, NEW cis, GoesOn(s, cis),
         RedBelow(RB!BlackSibling(s.tree, s.parent, cis), RB!BlackSibling(s.tree, s.parent, cis)[RB!Other(cis)][s.parent])
  PROVE  RB!RemoveRound(s) = [tree |-> LastTree(s.tree, s.parent, cis),
                              node |-> LastTree(s.tree, s.parent, cis).root, parent |-> 0]
BY DEF RB!RemoveRound, GoesOn, RedBelow, LastTree

LEMMA RemoveUp ==
  ASSUME NEW s, NEW cis, GoesOn(s, cis),
         ~RedBelow(RB!BlackSibling(s.tree, s.parent, cis), RB!BlackSibling(s.tree, s.parent, cis)[RB!Other(cis)][s.parent])
  PROVE  RB!RemoveRound(s) =
            [tree |-> RB!Paint(RB!BlackSibling(s.tree, s.parent, cis),
                               RB!BlackSibling(s.tree, s.parent, cis)[RB!Other(cis)][s.parent], TRUE),
             node |-> s.parent, parent |-> RB!BlackSibling(s.tree, s.parent, cis).parent[s.parent]]
BY DEF RB!RemoveRound, GoesOn, RedBelow

RemoveStates == [tree : RB!Tree, node : RB!Nodes, parent : RB!Nodes]

(* A round goes up a level, or it is the last. *)
LEMMA RemoveRoundIs ==
  ASSUME TreeUsed, NEW s \in RemoveStates, NEW S, NEW D, NEW h, NEW cis,
         RemoveKept(s.tree, S, D, h, s.node, s.parent, cis)
  PROVE  /\ RB!RemoveRound(s) \in RemoveStates
         /\ \/ Ends(RB!RemoveRound(s).tree, S, RB!RemoveRound(s).node)
            \/ \E H, side : /\ RemoveKept(RB!RemoveRound(s).tree, S, D, H, RB!RemoveRound(s).node,
                                          RB!RemoveRound(s).parent, side)
                            /\ Cardinality(D[s.parent]) < Cardinality(D[RB!RemoveRound(s).parent])
<1> DEFINE t == s.tree
           node == s.node
           p == s.parent
           v == RB!BlackSibling(t, p, cis)
           b == v[RB!Other(cis)][p]
           r == RB!RemoveRound(s)
<1>g. s.tree = t /\ s.node = node /\ s.parent = p /\ r = RB!RemoveRound(s) /\ v = RB!BlackSibling(t, p, cis)
  OBVIOUS
<1>1. RemoveKept(t, S, D, h, node, p, cis)
  OBVIOUS
<1>2. GoesOn(s, cis)
  <2>1. Beside(t, t[RB!Other(cis)][p], p, cis)
    BY DEF Beside
  <2>2. cis = RB!SideOf(t, node, p) /\ (node # 0 => node # t.root)
    BY <1>1, <2>1, SiblingIs
  <2>3. t.root # 0
    BY <1>1, ShapeKeys DEF RemoveKept
  <2>4. QED
    BY <1>1, <2>2, <2>3 DEF GoesOn, RemoveKept
<1>3. /\ \E E, H : RemoveKept(v, S, E, H, node, p, cis) /\ (E = D \/ v.red[p])
      /\ ~RB!IsRed(v, v[RB!Other(cis)][p])
  BY <1>1, BlackSiblingIs
<1>4. PICK E, H : RemoveKept(v, S, E, H, node, p, cis) /\ (E = D \/ v.red[p])
  BY <1>3
<1>5. Beside(v, b, p, cis) /\ ~RB!IsRed(v, b)
  BY <1>3 DEF Beside
<1>6. CASE RedBelow(v, b)
  <2> DEFINE u == RB!RedOutside(v, b, RB!Other(cis))
             w == RB!BlackFor(u, p, cis)
  <2>1. LastTree(t, p, cis) = w
    BY DEF LastTree
  <2>2. r = [tree |-> LastTree(t, p, cis), node |-> LastTree(t, p, cis).root, parent |-> 0]
    BY <1>2, <1>6, RemoveLast
  <2> HIDE DEF v, b, r, t, p, node, w
  <2>3. /\ \E F, K : RemoveKept(u, S, F, K, node, p, cis)
        /\ ~RB!IsRed(u, u[RB!Other(cis)][p])
        /\ RB!IsRed(u, u[RB!Other(cis)][u[RB!Other(cis)][p]])
    BY <1>4, <1>5, <1>6, RedOutsideIs DEF RedBelow
  <2> HIDE DEF u
  <2>4. Ends(w, S, w.root)
    BY <2>3, BlackForIs DEF w
  <2>5. w \in RB!Tree /\ w.root \in RB!Nodes /\ 0 \in RB!Nodes
    BY <2>4, Fields, NodesAre DEF Ends
  <2>6. r.tree = w /\ r.node = w.root /\ r \in RemoveStates
    BY <2>1, <2>2, <2>5 DEF RemoveStates
  <2>7. QED
    BY <1>g, <2>4, <2>6
<1>7. CASE ~RedBelow(v, b)
  <2> DEFINE u == RB!Paint(v, b, TRUE)
  <2>1. r = [tree |-> u, node |-> p, parent |-> v.parent[p]]
    BY <1>2, <1>7, RemoveUp
  <2>t. v \in RB!Tree /\ p \in S /\ S \subseteq RB!Keys /\ cis \in Sides
    BY <1>4, ShapeKeys DEF RemoveKept
  <2>b. b \in S
    BY <1>4, <1>5, SiblingIs
  <2> HIDE DEF v, b, r, t, p, node
  <2>2. Recoloured(v, S, E, H, node, p, cis, b)
    <3>1. v["left"][b] = v.left[b] /\ v["right"][b] = v.right[b]
      BY <2>t, <2>b, Fields
    <3>2. \A s1 \in Sides : ~RB!IsRed(v, v[s1][b])
      BY <1>7, <3>1 DEF RedBelow, Sides
    <3>3. QED
      BY <1>4, <1>5, <3>2 DEF Recoloured
  <2>a. BothShort(v, u, S, E, p, b)
    BY <2>2, RecolouredIs
  <2> HIDE DEF u
  <2>3. u \in RB!Tree /\ p \in RB!Nodes /\ v.parent[p] \in RB!Nodes /\ Shape(u, S, E) /\ u.parent = v.parent
    <3>1. Shape(u, S, E) /\ u.parent = v.parent
      BY <2>a DEF BothShort
    <3>2. u \in RB!Tree /\ S \subseteq RB!Nodes
      BY <3>1, ShapeKeys
    <3>3. v.parent[p] \in RB!Nodes
      BY <2>t, Fields
    <3>4. QED
      BY <2>t, <3>1, <3>2, <3>3
  <2>4. r.tree = u /\ r.node = p /\ r.parent = v.parent[p] /\ r \in RemoveStates
    BY <2>1, <2>3 DEF RemoveStates
  <2>5. CASE RB!IsRed(v, p)
    <3>1. Ends(u, S, p)
      BY <2>2, <2>5, RecolouredBelowRed DEF u
    <3>2. QED
      BY <1>g, <2>4, <3>1
  <2>6. CASE ~RB!IsRed(v, p)
    <3>1. \/ Ends(u, S, p)
          \/ \E K : RemoveKept(u, S, E, K, p, v.parent[p], RB!SideOf(v, p, v.parent[p]))
      BY <2>2, <2>6, RecolouredBelowBlack DEF u
    <3>2. E = D
      <4>1. p # 0
        BY <2>t, NodesAre
      <4>2. QED
        BY <1>4, <2>6, <4>1 DEF RB!IsRed
    <3>3. CASE Ends(u, S, p)
      BY <1>g, <2>4, <3>3
    <3>4. CASE \E K : RemoveKept(u, S, E, K, p, v.parent[p], RB!SideOf(v, p, v.parent[p]))
      <4> DEFINE q == v.parent[p]
                 side == RB!SideOf(v, p, q)
      <4>1. PICK K : RemoveKept(u, S, D, K, p, q, side)
        BY <3>2, <3>4
      <4> HIDE DEF q, side
      <4>2. Shape(u, S, D) /\ q \in S /\ side \in Sides /\ u[side][q] = p
        BY <4>1 DEF RemoveKept
      <4>3. D[p] \subseteq D[q] /\ D[p] # D[q]
        BY <4>2, ChildIs
      <4>4. D[p] \in SUBSET RB!Keys /\ D[q] \in SUBSET RB!Keys
        BY <2>t, <4>2, ShapeKeys
      <4>5. Cardinality(D[p]) < Cardinality(D[q])
        BY <4>3, <4>4, Smaller
      <4>6. r.parent = q
        BY <2>4 DEF q
      <4>7. QED
        BY <1>g, <2>4, <4>1, <4>5, <4>6
    <3>5. QED
      BY <3>1, <3>3, <3>4
  <2>7. QED
    BY <2>5, <2>6
<1>8. QED
  BY <1>6, <1>7

(* What the loop of a deletion leaves behind is a red-black tree. *)
LEMMA Removed ==
  ASSUME TreeUsed, NEW t, NEW S, NEW node, NEW p \in RB!Nodes,
         (\E D, h, cis : RemoveKept(t, S, D, h, node, p, cis)) \/ Ends(t, S, node)
  PROVE  \E D, H : Good(RB!RebalanceAfterRemove(t, node, p), S, D, H)
<1> DEFINE States == [tree : RB!Tree, node : RB!Nodes, parent : RB!Nodes]
           step == [s \in States |-> RB!RemoveRound(s)]
           start == [tree |-> t, node |-> node, parent |-> p]
           last == RB!Walk(step, start)
<1>1. start \in States
  <2>1. CASE \E D, h, cis : RemoveKept(t, S, D, h, node, p, cis)
    BY <2>1, ShapeKeys, ChildIs DEF RemoveKept
  <2>2. CASE Ends(t, S, node)
    <3>1. PICK D, h : Good(RB!Paint(t, node, FALSE), S, D, h)
      BY <2>2 DEF Ends
    <3>2. S \cup {0} \subseteq RB!Nodes
      BY <3>1, ShapeKeys DEF Good
    <3>3. QED
      BY <2>2, <3>2 DEF Ends
  <2>3. QED
    BY <2>1, <2>2
<1>2. RB!RebalanceAfterRemove(t, node, p) = RB!Paint(last.tree, last.node, FALSE)
  BY DEF RB!RebalanceAfterRemove
<1>3. \A s \in States : step[s] = RB!RemoveRound(s)
  OBVIOUS
<1>4. start.tree = t /\ start.node = node /\ start.parent = p /\ States = RemoveStates
  BY DEF RemoveStates
<1> HIDE DEF step, States, start, last
<1>5. PICK at : /\ at[0] = start
                /\ \A n \in 0..(MaxKey - 1) : at[n + 1] = step[at[n]]
                /\ last = at[MaxKey]
  BY WalkIs DEF last
<1> DEFINE Rising(n) == \E D, H, side : /\ RemoveKept(at[n].tree, S, D, H, at[n].node, at[n].parent, side)
                                        /\ Cardinality(D[at[n].parent]) > n
           N == {n \in 0..MaxKey : /\ at[n] \in States
                                   /\ Ends(at[n].tree, S, at[n].node) \/ Rising(n)}
<1>6. MaxKey \in Nat /\ 0 \in 0..MaxKey
  BY DEF TreeUsed
<1>7. 0 \in N
  <2>1. CASE \E D, h, cis : RemoveKept(t, S, D, h, node, p, cis)
    <3>1. PICK D, h, cis : RemoveKept(t, S, D, h, node, p, cis)
      BY <2>1
    <3>2. Shape(t, S, D) /\ p \in S /\ cis \in Sides
      BY <3>1 DEF RemoveKept
    <3>3. D[p] \in SUBSET RB!Keys /\ p \in D[p]
      BY <3>2, ShapeKeys, ChildIs
    <3>4. Cardinality({}) = 0 /\ {} # D[p] /\ {} \subseteq D[p] /\ {} \in SUBSET RB!Keys
      BY <3>3, FS_EmptySet
    <3>5. Cardinality(D[p]) > 0
      BY <3>3, <3>4, Smaller
    <3>6. Rising(0)
      BY <1>4, <1>5, <3>1, <3>5
    <3>7. QED
      BY <1>1, <1>5, <1>6, <3>6
  <2>2. CASE Ends(t, S, node)
    BY <1>1, <1>4, <1>5, <1>6, <2>2
  <2>3. QED
    BY <2>1, <2>2
<1>8. ASSUME NEW n \in 0..(MaxKey - 1), n \in N
      PROVE  n + 1 \in N
  <2>1. at[n + 1] = RB!RemoveRound(at[n]) /\ at[n] \in States /\ n + 1 \in 0..MaxKey
    BY <1>3, <1>5, <1>6, <1>8
  <2>2. CASE Ends(at[n].tree, S, at[n].node)
    <3>1. at[n + 1] = at[n]
      BY <2>1, <2>2, RemoveStays DEF Ends
    <3>2. QED
      BY <2>1, <2>2, <3>1
  <2>3. CASE Rising(n)
    <3>1. PICK D, H, side : /\ RemoveKept(at[n].tree, S, D, H, at[n].node, at[n].parent, side)
                            /\ Cardinality(D[at[n].parent]) > n
      BY <2>3
    <3>2. /\ at[n + 1] \in States
          /\ \/ Ends(at[n + 1].tree, S, at[n + 1].node)
             \/ \E K, other : /\ RemoveKept(at[n + 1].tree, S, D, K, at[n + 1].node, at[n + 1].parent, other)
                              /\ Cardinality(D[at[n].parent]) < Cardinality(D[at[n + 1].parent])
      BY <1>4, <2>1, <3>1, RemoveRoundIs
    <3>3. CASE Ends(at[n + 1].tree, S, at[n + 1].node)
      BY <2>1, <3>2, <3>3
    <3>4. CASE ~Ends(at[n + 1].tree, S, at[n + 1].node)
      <4>1. PICK K, other : /\ RemoveKept(at[n + 1].tree, S, D, K, at[n + 1].node, at[n + 1].parent, other)
                            /\ Cardinality(D[at[n].parent]) < Cardinality(D[at[n + 1].parent])
        BY <3>2, <3>4
      <4>2. D[at[n].parent] \in SUBSET RB!Keys /\ D[at[n + 1].parent] \in SUBSET RB!Keys
        BY <3>1, <4>1, ShapeKeys DEF RemoveKept
      <4>3. Cardinality(D[at[n].parent]) \in Int /\ Cardinality(D[at[n + 1].parent]) \in Int
        BY <4>2, KeysCounted
      <4>4. Cardinality(D[at[n + 1].parent]) > n + 1
        BY <3>1, <4>1, <4>3
      <4>5. Rising(n + 1)
        BY <4>1, <4>4
      <4>6. QED
        BY <2>1, <3>2, <4>5
    <3>5. QED
      BY <3>3, <3>4
  <2>4. QED
    BY <1>8, <2>2, <2>3
<1> HIDE DEF N
<1>9. MaxKey \in N
  BY <1>6, <1>7, <1>8, UpTo
<1>10. Ends(last.tree, S, last.node)
  <2>1. ASSUME Rising(MaxKey) PROVE FALSE
    <3>1. PICK D, H, side : /\ RemoveKept(at[MaxKey].tree, S, D, H, at[MaxKey].node, at[MaxKey].parent, side)
                            /\ Cardinality(D[at[MaxKey].parent]) > MaxKey
      BY <2>1
    <3>2. D[at[MaxKey].parent] \in SUBSET RB!Keys
      BY <3>1, ShapeKeys DEF RemoveKept
    <3>3. Cardinality(D[at[MaxKey].parent]) \in 0..MaxKey
      BY <3>2, KeysCounted
    <3>4. QED
      BY <1>6, <3>1, <3>3
  <2>2. QED
    BY <1>5, <1>9, <2>1 DEF N
<1>11. QED
  BY <1>2, <1>10 DEF Ends

(* m, which has no child but c, is out of the tree; c has come up to p. *)
SplicedOut(t, u, S, m, c, p) ==
    /\ u \in RB!Tree /\ u.root = IF p = 0 THEN c ELSE t.root
    /\ \A k \in S \ {m}, s \in Sides : u[s][k] = IF t[s][k] = m THEN c ELSE t[s][k]
    /\ \A k \in S \ {m} : u.parent[k] = IF k = c THEN p ELSE t.parent[k]
    /\ \A k \in S \ {m} : u.red[k] = t.red[k]
OnlyChild(t, m, c, p) == t.parent[m] = p /\ \E x \in Sides : t[x][m] = c /\ t[RB!Other(x)][m] = 0
Without(D, m) == [x \in RB!Nodes |-> IF x = m THEN {} ELSE D[x] \ {m}]

(* m has at most one child c, which moves up to m's parent p. *)
LEMMA OnlyChildIs ==
  ASSUME TreeUsed, NEW t, NEW S, NEW D, Shape(t, S, D), NEW m \in S, NEW c, NEW p, OnlyChild(t, m, c, p)
  PROVE  /\ c \in S \cup {0} /\ c # m /\ (c # 0 => t.parent[c] = m) /\ D[m] = {m} \cup D[c] /\ m \notin D[c]
         /\ \A k \in S : t.parent[k] = m => k = c
         /\ p = 0 <=> m = t.root
         /\ p # 0 => p \in S /\ p # m /\ p # c /\ t[RB!SideOf(t, m, p)][p] = m
         /\ \A k \in S, s \in Sides : t[s][k] = m => k = p /\ s = RB!SideOf(t, m, p)
         /\ \A k \in S, s \in Sides : t[s][k] = c => c = 0 \/ k = m
<1>0. 0 \notin S /\ D[0] = {}
  BY ShapeKeys
<1>1. PICK x \in Sides : t[x][m] = c /\ t[RB!Other(x)][m] = 0
  BY DEF OnlyChild
<1>2. t.parent[m] = p
  BY DEF OnlyChild
<1>3. c \in S \cup {0} /\ c # m /\ (c # 0 => t.parent[c] = m) /\ D[m] = {m} \cup D[c] /\ m \notin D[c]
  <2>1. /\ t[x][m] \in S \cup {0} /\ t[x][m] # m
        /\ D[m] = {m} \cup D[t[x][m]] \cup D[t[RB!Other(x)][m]] /\ m \notin D[t[x][m]]
        /\ t[x][m] # 0 => t.parent[t[x][m]] = m
    BY ChildIs
  <2>2. QED
    BY <1>0, <1>1, <2>1
<1>4. ASSUME NEW k \in S, t.parent[k] = m PROVE k = c
  <2>1. t[RB!SideOf(t, k, m)][m] = k /\ RB!SideOf(t, k, m) \in Sides
    BY <1>0, <1>4, ParentOf, SideIs
  <2>2. RB!SideOf(t, k, m) = x \/ RB!SideOf(t, k, m) = RB!Other(x)
    BY <2>1, OtherSide
  <2>3. QED
    BY <1>0, <1>1, <2>1, <2>2
<1>5. /\ p = 0 <=> m = t.root
      /\ p # 0 => p \in S /\ p # m /\ t[RB!SideOf(t, m, p)][p] = m
      /\ \A k \in S, s \in Sides : t[s][k] = m => k = p /\ s = RB!SideOf(t, m, p)
  BY <1>2, ParentOf
<1>6. p # 0 => p # c
  <2>1. t[x][m] # t.parent[m] \/ t[x][m] = 0
    BY ParentOf
  <2>2. QED
    BY <1>1, <1>2, <2>1
<1>7. \A k \in S, s \in Sides : t[s][k] = c => c = 0 \/ k = m
  BY <1>0, <1>3 DEF Shape, Linked
<1>8. QED
  BY <1>3, <1>4, <1>5, <1>6, <1>7

(* Without m the tree is the same tree of the other keys. *)
LEMMA SpliceShape ==
  ASSUME TreeUsed, NEW t, NEW S, NEW D, Shape(t, S, D), NEW m \in S, NEW c, NEW p, OnlyChild(t, m, c, p),
         NEW u, SplicedOut(t, u, S, m, c, p)
  PROVE  Shape(u, S \ {m}, Without(D, m))
<1> DEFINE E == Without(D, m)
           T == S \ {m}
<1>0. /\ S \subseteq RB!Keys /\ S \subseteq RB!Nodes /\ 0 \notin S /\ 0 \in RB!Nodes /\ D[0] = {}
      /\ t.root \in S \cup {0} /\ D[t.root] = S /\ T \subseteq S /\ T \in SUBSET RB!Keys
      /\ \A x \in RB!Nodes : D[x] \in SUBSET S /\ (x \notin S => D[x] = {})
  BY ShapeKeys
<1>1. /\ c \in S \cup {0} /\ c # m /\ (c # 0 => t.parent[c] = m) /\ D[m] = {m} \cup D[c] /\ m \notin D[c]
      /\ \A k \in S : t.parent[k] = m => k = c
      /\ p = 0 <=> m = t.root
      /\ p # 0 => p \in S /\ p # m /\ p # c /\ t[RB!SideOf(t, m, p)][p] = m
      /\ \A k \in S, s \in Sides : t[s][k] = m => k = p /\ s = RB!SideOf(t, m, p)
      /\ \A k \in S, s \in Sides : t[s][k] = c => c = 0 \/ k = m
  BY OnlyChildIs
<1>2. /\ u \in RB!Tree /\ u.root = IF p = 0 THEN c ELSE t.root
      /\ \A k \in T, s \in Sides : u[s][k] = IF t[s][k] = m THEN c ELSE t[s][k]
      /\ \A k \in T : u.parent[k] = IF k = c THEN p ELSE t.parent[k]
  BY DEF SplicedOut
<1>3. /\ E \in [RB!Nodes -> SUBSET T] /\ E[m] = {} /\ E[c] = D[c] /\ E[0] = {}
      /\ \A x \in RB!Nodes : x # m => E[x] = D[x] \ {m}
  <2>1. \A x \in RB!Nodes : E[x] = IF x = m THEN {} ELSE D[x] \ {m}
    BY DEF Without
  <2>2. E = [x \in RB!Nodes |-> E[x]]
    BY DEF Without
  <2> HIDE DEF E
  <2>3. c \in RB!Nodes /\ m \in RB!Nodes /\ m # 0
    BY <1>0, <1>1
  <2>4. ASSUME NEW x \in RB!Nodes PROVE E[x] \in SUBSET T
    <3>1. D[x] \in SUBSET S
      BY <1>0
    <3>2. E[x] = IF x = m THEN {} ELSE D[x] \ {m}
      BY <2>1
    <3>3. QED
      BY <3>1, <3>2
  <2>5. E \in [RB!Nodes -> SUBSET T]
    BY <2>2, <2>4
  <2>6. E[m] = {} /\ E[c] = D[c] \ {m} /\ E[0] = D[0] \ {m} /\ D[0] = {} /\ m \notin D[c]
    BY <1>0, <1>1, <2>1, <2>3
  <2>7. QED
    BY <2>1, <2>5, <2>6
<1> HIDE DEF E, T
<1>t. \A k \in S : k \in T <=> k # m
  BY DEF T
<1>4. \A k \in T, s \in Sides : u[s][k] \in T \cup {0} /\ E[u[s][k]] = D[t[s][k]] \ {m}
  <2> SUFFICES ASSUME NEW k \in T, NEW s \in Sides
               PROVE  u[s][k] \in T \cup {0} /\ E[u[s][k]] = D[t[s][k]] \ {m}
    OBVIOUS
  <2> DEFINE x == t[s][k]
  <2>1. x \in S \cup {0} /\ u[s][k] = IF x = m THEN c ELSE x
    BY <1>0, <1>2, ChildIs
  <2> HIDE DEF x
  <2>2. CASE x = m
    <3>1. u[s][k] = c /\ c \in T \cup {0}
      BY <1>1, <1>t, <2>1, <2>2
    <3>2. E[c] = D[m] \ {m}
      BY <1>1, <1>3
    <3>3. QED
      BY <2>2, <3>1, <3>2 DEF x
  <2>3. CASE x # m
    <3>1. u[s][k] = x /\ x \in T \cup {0} /\ x \in RB!Nodes
      BY <1>0, <1>t, <2>1, <2>3
    <3>2. E[x] = D[x] \ {m}
      BY <1>3, <2>3, <3>1
    <3>3. QED
      BY <3>1, <3>2 DEF x
  <2>4. QED
    BY <2>2, <2>3
<1>5. Whole(u, T, E)
  <2>1. u.root \in T \cup {0} /\ E[u.root] = T
    <3>1. CASE p = 0
      <4>1. u.root = c /\ D[m] = S
        BY <1>0, <1>1, <1>2, <3>1
      <4>2. D[c] = S \ {m}
        BY <1>1, <4>1
      <4>3. QED
        BY <1>1, <1>3, <1>t, <4>1, <4>2 DEF T
    <3>2. CASE p # 0
      <4>1. u.root = t.root /\ t.root # m
        BY <1>1, <1>2, <3>2
      <4> DEFINE r == t.root
      <4>2. r \in S \cup {0} /\ D[r] = S /\ u.root = r /\ r # m
        BY <1>0, <4>1
      <4> HIDE DEF r
      <4>3. E[r] = S \ {m} /\ r \in T \cup {0}
        BY <1>0, <1>3, <1>t, <4>2
      <4>4. QED
        BY <4>2, <4>3 DEF T
    <3>3. QED
      BY <3>1, <3>2
  <2>2. \A x \in RB!Nodes \ T : E[x] = {}
    BY <1>0, <1>3, <1>t
  <2>3. ASSUME NEW k \in T, NEW s \in Sides
        PROVE  u[s][k] \in T \cup {0} /\ E[k] = {k} \cup E[u[s][k]] \cup E[u[RB!Other(s)][k]]
    <3>1. RB!Other(s) \in Sides /\ k \in S /\ k # m
      BY <1>0, <1>t, OtherSide
    <3>2. D[k] = {k} \cup D[t[s][k]] \cup D[t[RB!Other(s)][k]]
      BY <3>1, ChildIs
    <3>3. /\ u[s][k] \in T \cup {0} /\ E[u[s][k]] = D[t[s][k]] \ {m}
          /\ E[u[RB!Other(s)][k]] = D[t[RB!Other(s)][k]] \ {m} /\ E[k] = D[k] \ {m}
      BY <1>0, <1>3, <1>4, <3>1
    <3>4. QED
      BY <3>1, <3>2, <3>3
  <2>4. QED
    BY <1>0, <1>2, <1>3, <2>1, <2>2, <2>3 DEF Whole
<1>6. Ordered(u, T, E)
  <2> SUFFICES ASSUME NEW k \in T, NEW s \in Sides, NEW x \in E[u[s][k]] PROVE Below(s, x, k)
    BY DEF Ordered
  <2>1. x \in D[t[s][k]] /\ k \in S
    BY <1>0, <1>4
  <2>2. QED
    BY <2>1, ChildIs
<1>7. Linked(u, T)
  <2> SUFFICES ASSUME NEW k \in T, NEW s \in Sides, u[s][k] # 0 PROVE u.parent[u[s][k]] = k
    BY DEF Linked
  <2> DEFINE x == t[s][k]
  <2>1. k \in S /\ k # m /\ x \in S \cup {0} /\ u[s][k] = (IF x = m THEN c ELSE x) /\ u[s][k] \in T
    BY <1>0, <1>2, <1>4, <1>t, ChildIs
  <2>2. x # 0 => t.parent[x] = k
    BY <2>1, ChildIs
  <2>3. x = m => k = p
    BY <1>1, <2>1
  <2>4. x = c => c = 0
    BY <1>1, <2>1
  <2> HIDE DEF x
  <2>5. CASE x = m
    BY <1>2, <2>1, <2>3, <2>5
  <2>6. CASE x # m
    BY <1>2, <2>1, <2>2, <2>4, <2>6
  <2>7. QED
    BY <2>5, <2>6
<1>8. Rooted(u, T)
  <2> SUFFICES ASSUME NEW k \in T
               PROVE  IF k = u.root THEN u.parent[k] = 0
                      ELSE u.parent[k] \in T /\ \E s \in Sides : u[s][u.parent[k]] = k
    BY DEF Rooted
  <2>1. k \in S /\ k # m /\ k # 0 /\ u.parent[k] = IF k = c THEN p ELSE t.parent[k]
    BY <1>0, <1>2, <1>t
  <2>2. CASE k = c
    <3>1. t.parent[c] = m /\ u.parent[k] = p
      BY <1>1, <2>1, <2>2
    <3>2. k # t.root
      BY <1>0, <2>1, <2>2, <3>1, ParentOf
    <3>3. CASE p = 0
      BY <1>2, <2>2, <3>1, <3>3
    <3>4. CASE p # 0
      <4> DEFINE s == RB!SideOf(t, m, p)
      <4>1. u.root # k /\ p \in T /\ s \in Sides /\ t[s][p] = m
        BY <1>1, <1>2, <1>t, <3>2, <3>4, SideIs
      <4> HIDE DEF s
      <4>2. u[s][p] = c
        BY <1>2, <4>1
      <4>3. QED
        BY <2>2, <3>1, <4>1, <4>2
    <3>5. QED
      BY <3>3, <3>4
  <2>3. CASE k # c
    <3> DEFINE q == t.parent[k]
    <3>1. q # m /\ u.parent[k] = q
      BY <1>1, <2>1, <2>3
    <3>2. /\ q = 0 <=> k = t.root
          /\ q # 0 => q \in S /\ t[RB!SideOf(t, k, q)][q] = k
      BY <2>1, ParentOf
    <3> HIDE DEF q
    <3>3. CASE q = 0
      <4>1. k = t.root /\ k # m
        BY <2>1, <3>2, <3>3
      <4>2. p # 0
        BY <1>1, <4>1
      <4>3. QED
        BY <1>2, <3>1, <3>3, <4>1, <4>2
    <3>4. CASE q # 0
      <4> DEFINE s == RB!SideOf(t, k, q)
      <4>1. q \in T /\ s \in Sides /\ t[s][q] = k /\ k # t.root
        BY <1>t, <3>1, <3>2, <3>4, SideIs
      <4>2. k # u.root
        BY <1>2, <2>3, <4>1
      <4> HIDE DEF s
      <4>3. u[s][q] = k
        BY <1>2, <2>1, <4>1
      <4>4. QED
        BY <3>1, <4>1, <4>2, <4>3
    <3>5. QED
      BY <3>3, <3>4
  <2>4. QED
    BY <2>2, <2>3
<1>9. Nested(u, T, E)
  <2> SUFFICES ASSUME NEW y \in T, NEW z \in E[y]
               PROVE  E[z] \subseteq E[y] /\ (z # y => u.parent[z] \in E[y])
    BY DEF Nested
  <2>1. y \in S /\ y # m /\ E[y] = D[y] \ {m} /\ y \in RB!Nodes
    BY <1>0, <1>3, <1>t
  <2>2. z \in D[y] /\ z # m /\ z \in S /\ z \in T /\ z \in RB!Nodes
    BY <1>0, <1>t, <2>1
  <2>3. E[z] = D[z] \ {m}
    BY <1>3, <2>2
  <2>4. \A x \in D[y] : D[x] \subseteq D[y] /\ (x # y => t.parent[x] \in D[y])
    BY <2>1 DEF Shape, Nested
  <2>5. ASSUME z # y PROVE u.parent[z] \in E[y]
    <3>1. t.parent[z] \in D[y] /\ u.parent[z] = IF z = c THEN p ELSE t.parent[z]
      BY <1>2, <2>2, <2>4, <2>5
    <3>2. CASE z = c
      <4>1. m \in D[y] /\ u.parent[z] = p
        BY <1>0, <1>1, <2>2, <3>1, <3>2
      <4>2. t.parent[m] \in D[y] /\ t.parent[m] = p
        BY <2>1, <2>4, <4>1 DEF OnlyChild
      <4>3. p # m
        BY <1>0, <1>1
      <4>4. QED
        BY <2>1, <4>1, <4>2, <4>3
    <3>3. CASE z # c
      <4>1. t.parent[z] # m
        BY <1>1, <2>2, <3>3
      <4>2. QED
        BY <2>1, <3>1, <3>3, <4>1
    <3>4. QED
      BY <3>2, <3>3
  <2>6. QED
    BY <2>1, <2>3, <2>4, <2>2, <2>5
<1>10. QED
  BY <1>5, <1>6, <1>7, <1>8, <1>9 DEF Shape, T, E

(* A node has left; unless it was red, the paths through c, on a side of p, lack it. *)
Spliced(u, S, D, h, c, p, side, red) ==
    /\ Shape(u, S, D) /\ c \in S \cup {0} /\ p \in S \cup {0} /\ side \in Sides
    /\ (p = 0 => u.root = c) /\ (p # 0 => u[side][p] = c)
    /\ Heights(u, S, h, IF red THEN 0 ELSE p, side)
    /\ NoRedRed(u, S, IF red THEN 0 ELSE c)
    /\ (RB!IsRed(u, u.root) => ~red /\ u.root = c)

(* Unless m was red, the ways through its place lack a black node. *)
LEMMA SpliceIs ==
  ASSUME TreeUsed, NEW t, NEW S, NEW D, NEW h, Good(t, S, D, h), NEW m \in S, NEW c, NEW p, OnlyChild(t, m, c, p),
         NEW u, SplicedOut(t, u, S, m, c, p)
  PROVE  Spliced(u, S \ {m}, Without(D, m), h, c, p, RB!SideOf(t, m, p), t.red[m])
<1> DEFINE T == S \ {m}
           side == RB!SideOf(t, m, p)
           E == Without(D, m)
           red == t.red[m]
           e == IF red THEN 0 ELSE p
           f == IF red THEN 0 ELSE c
<1>g. Shape(t, S, D) /\ Heights(t, S, h, 0, "left") /\ NoRedRed(t, S, 0) /\ ~RB!IsRed(t, t.root)
  BY DEF Good
<1>1. /\ c \in S \cup {0} /\ c # m /\ (c # 0 => t.parent[c] = m) /\ D[m] = {m} \cup D[c] /\ m \notin D[c]
      /\ \A k \in S : t.parent[k] = m => k = c
      /\ p = 0 <=> m = t.root
      /\ p # 0 => p \in S /\ p # m /\ p # c /\ t[RB!SideOf(t, m, p)][p] = m
      /\ \A k \in S, s \in Sides : t[s][k] = m => k = p /\ s = RB!SideOf(t, m, p)
      /\ \A k \in S, s \in Sides : t[s][k] = c => c = 0 \/ k = m
  BY <1>g, OnlyChildIs
<1>0. 0 \notin S /\ S \subseteq RB!Nodes /\ t.root \in S \cup {0} /\ side \in Sides
  BY <1>g, ShapeKeys, SideIs
<1>2. /\ u \in RB!Tree /\ u.root = IF p = 0 THEN c ELSE t.root
      /\ \A k \in T, s \in Sides : u[s][k] = IF t[s][k] = m THEN c ELSE t[s][k]
      /\ \A k \in T : u.red[k] = t.red[k]
  BY DEF SplicedOut
<1>3. Shape(u, T, E)
  BY <1>g, SpliceShape
<1> HIDE DEF E
<1>4. \A k \in S : k \in T <=> k # m
  OBVIOUS
<1>x. PICK x \in Sides : t[x][m] = c
  BY DEF OnlyChild
<1>5. /\ h \in [RB!Nodes -> Nat] /\ h[0] = 0 /\ h[m] = h[c] + Black(t, m) /\ h[m] \in Nat /\ h[c] \in Nat
      /\ Black(t, m) = IF red THEN 0 ELSE 1
  <2>1. h[m] = h[t[x][m]] + Black(t, m) /\ h[m] \in Nat /\ h[t[x][m]] \in Nat
    BY <1>0, <1>g, HeightOf
  <2>2. QED
    BY <1>g, <1>x, <2>1 DEF Heights, Black
<1>s. p # 0 => t[side][p] = m
  BY <1>1
<1>r. red => p # 0 /\ ~RB!IsRed(t, c)
  <2>1. ASSUME red PROVE p # 0 /\ ~RB!IsRed(t, c)
    <3>1. RB!IsRed(t, m)
      BY <1>0, <2>1 DEF RB!IsRed
    <3>2. p # 0
      BY <1>1, <1>g, <3>1
    <3>3. t[x][m] = 0 \/ ~RB!IsRed(t, t[x][m])
      BY <1>g, <2>1 DEF NoRedRed
    <3>4. QED
      BY <1>x, <3>2, <3>3 DEF RB!IsRed
  <2>2. QED
    BY <2>1
<1>i. \A k \in S, s \in Sides : t[s][k] = m => k = p /\ s = side
  BY <1>1
<1>j. e = (IF red THEN 0 ELSE p) /\ f = (IF red THEN 0 ELSE c)
  OBVIOUS
<1> HIDE DEF T, side, red, e, f
<1>6. Heights(u, T, h, e, side)
  <2> SUFFICES ASSUME NEW k \in T, NEW s \in Sides
               PROVE  h[k] = h[u[s][k]] + Black(u, k) + (IF k = e /\ s = side THEN 1 ELSE 0)
    BY <1>5 DEF Heights
  <2> DEFINE y == t[s][k]
             d == IF k = e /\ s = side THEN 1 ELSE 0
  <2>1. k \in S /\ k # m /\ k # 0 /\ u[s][k] = IF y = m THEN c ELSE y
    BY <1>0, <1>2 DEF T
  <2>2. h[k] = h[y] + Black(t, k) /\ h[k] \in Nat /\ h[y] \in Nat /\ Black(t, k) \in {0, 1}
    BY <1>0, <1>g, <2>1, HeightOf
  <2>3. Black(u, k) = Black(t, k)
    BY <1>2 DEF Black
  <2>4. (k = e /\ s = side) <=> (~red /\ y = m)
    BY <1>i, <1>j, <1>s, <2>1
  <2>5. d = IF ~red /\ y = m THEN 1 ELSE 0
    BY <2>4
  <2> HIDE DEF d, y
  <2>6. CASE y = m
    <3>1. d = Black(t, m) /\ u[s][k] = c
      BY <1>5, <2>1, <2>5, <2>6
    <3>2. h[k] = h[c] + Black(t, m) + Black(t, k)
      BY <1>5, <2>2, <2>6
    <3>3. d \in {0, 1}
      BY <2>5
    <3>4. h[k] = h[u[s][k]] + Black(u, k) + d
      BY <1>5, <2>2, <2>3, <3>1, <3>2, <3>3
    <3>5. QED
      BY <3>4 DEF d
  <2>7. CASE y # m
    <3>1. d = 0 /\ u[s][k] = y
      BY <2>1, <2>5, <2>7
    <3>2. h[k] = h[u[s][k]] + Black(u, k) + d
      BY <2>2, <2>3, <3>1
    <3>3. QED
      BY <3>2 DEF d
  <2>8. QED
    BY <2>6, <2>7
<1>7. \A k \in T \cup {0} : RB!IsRed(u, k) <=> RB!IsRed(t, k)
  BY <1>2 DEF RB!IsRed
<1>t. c \in T \cup {0} /\ p \in T \cup {0}
  BY <1>1, <1>4
<1>8. NoRedRed(u, T, f)
  <2> SUFFICES ASSUME NEW k \in T, NEW s \in Sides, u.red[k]
               PROVE  u[s][k] = f \/ ~RB!IsRed(u, u[s][k])
    BY DEF NoRedRed
  <2> DEFINE y == t[s][k]
  <2>1. k \in S /\ k # m /\ t.red[k] /\ u[s][k] = (IF y = m THEN c ELSE y) /\ y \in S \cup {0}
    BY <1>2, <1>g, ChildIs DEF T
  <2>2. y = 0 \/ ~RB!IsRed(t, y)
    BY <1>g, <2>1 DEF NoRedRed
  <2> HIDE DEF y
  <2>3. CASE y = m
    BY <1>7, <1>j, <1>r, <1>t, <2>1, <2>3
  <2>4. CASE y # m
    <3>1. y \in T \cup {0}
      BY <1>4, <2>1, <2>4
    <3>2. ~RB!IsRed(t, y)
      BY <2>2 DEF RB!IsRed
    <3>3. QED
      BY <1>7, <2>1, <2>4, <3>1, <3>2
  <2>5. QED
    BY <2>3, <2>4
<1>9. RB!IsRed(u, u.root) => ~red /\ u.root = c
  <2>1. CASE p = 0
    BY <1>2, <1>r, <2>1
  <2>2. CASE p # 0
    <3> DEFINE y == t.root
    <3>1. u.root = y /\ ~RB!IsRed(t, y) /\ y \in S \cup {0} /\ y # m
      BY <1>0, <1>1, <1>2, <1>g, <2>2
    <3> HIDE DEF y
    <3>2. y \in T \cup {0}
      BY <1>4, <3>1
    <3>3. QED
      BY <1>7, <3>1, <3>2
  <2>3. QED
    BY <2>1, <2>2
<1>10. (p = 0 => u.root = c) /\ (p # 0 => u[side][p] = c)
  <2>1. p # 0 => p \in T /\ t[side][p] = m
    BY <1>s, <1>t
  <2>2. QED
    BY <1>0, <1>2, <2>1
<1>11. Spliced(u, T, E, h, c, p, side, red)
  BY <1>0, <1>3, <1>6, <1>8, <1>9, <1>10, <1>j, <1>t DEF Spliced
<1>12. QED
  BY <1>11 DEF T, E, side, red

(* What tree_del makes of it. *)
Repaired(u, c, p, red) ==
    IF red THEN u ELSE IF RB!IsRed(u, c) THEN RB!Paint(u, c, FALSE) ELSE RB!RebalanceAfterRemove(u, c, p)

LEMMA SplicedBlack ==
  ASSUME TreeUsed, NEW u, NEW S, NEW D, NEW h, NEW c, NEW p, NEW side, Spliced(u, S, D, h, c, p, side, FALSE), RB!IsRed(u, c)
  PROVE  \E H : Good(RB!Paint(u, c, FALSE), S, D, H)
<1> DEFINE w == RB!Paint(u, c, FALSE)
           H == [h EXCEPT ![c] = h[c] + 1]
<1>1. /\ Shape(u, S, D) /\ c \in S \cup {0} /\ p \in S \cup {0} /\ side \in Sides
      /\ (p = 0 => u.root = c) /\ (p # 0 => u[side][p] = c)
      /\ Heights(u, S, h, p, side) /\ NoRedRed(u, S, c)
      /\ (RB!IsRed(u, u.root) => u.root = c)
  BY DEF Spliced
<1>0. 0 \notin S /\ S \subseteq RB!Nodes /\ u.root \in S \cup {0} /\ S \subseteq RB!Keys
  BY <1>1, ShapeKeys
<1>c. c # 0 /\ c \in S /\ u.red[c]
  BY <1>1 DEF RB!IsRed
<1>2. Shape(w, S, D) /\ Painted(u, w, c, FALSE) /\ SamePointers(u, w)
  <2>1. Shape(u, S, D) /\ c \in S \cup {0} /\ FALSE \in BOOLEAN
    BY <1>1
  <2>2. QED
    BY <2>1, PaintShape
<1> HIDE DEF w
<1>3. /\ \A k \in S, s \in Sides : w[s][k] = u[s][k]
      /\ \A k \in S : w.red[k] = IF k = c THEN FALSE ELSE u.red[k]
      /\ w.root = u.root
  BY <1>0, <1>2 DEF Painted, SamePointers
<1>4. ASSUME NEW k \in S, NEW s \in Sides, u[s][k] = c PROVE k = p /\ s = side
  <2>1. CASE p = 0
    <3>1. u.parent[c] = 0
      BY <1>1, <1>c, <2>1, ParentOf
    <3>2. u.parent[u[s][k]] = k
      BY <1>1, <1>4, <1>c DEF Shape, Linked
    <3>3. QED
      BY <1>0, <1>4, <3>1, <3>2
  <2>2. CASE p # 0
    <3>1. p \in S /\ u[side][p] = c
      BY <1>1, <2>2
    <3>2. u.parent[c] = k /\ s = RB!SideOf(u, c, k)
      BY <1>1, <1>4, <1>c, ParentOf
    <3>3. u.parent[c] = p /\ side = RB!SideOf(u, c, p)
      BY <1>1, <1>c, <3>1, ParentOf
    <3>4. QED
      BY <3>2, <3>3
  <2>3. QED
    BY <2>1, <2>2
<1>h. h \in [RB!Nodes -> Nat] /\ h[0] = 0
  BY <1>1 DEF Heights
<1>5. H \in [RB!Nodes -> Nat] /\ H[0] = 0 /\ H[c] = h[c] + 1 /\ \A k \in S \cup {0} : k # c => H[k] = h[k]
  BY <1>0, <1>c, <1>h, ShapeKeys, <1>1
<1> HIDE DEF H
<1>6. Heights(w, S, H, 0, "left")
  <2> SUFFICES ASSUME NEW k \in S, NEW s \in Sides
               PROVE  H[k] = H[w[s][k]] + Black(w, k) + (IF k = 0 /\ s = "left" THEN 1 ELSE 0)
    BY <1>5 DEF Heights
  <2> DEFINE y == u[s][k]
  <2>1. k # 0 /\ y \in S \cup {0} /\ y # k /\ w[s][k] = y /\ (y = c => k = p /\ s = side)
    BY <1>0, <1>1, <1>3, <1>4, ChildIs
  <2>2. /\ h[k] \in Nat /\ h[y] \in Nat /\ Black(u, k) \in {0, 1}
        /\ k = p /\ s = side => h[k] = h[y] + Black(u, k) + 1
        /\ ~(k = p /\ s = side) => h[k] = h[y] + Black(u, k)
    BY <1>1, HeightOf
  <2>3. k = p /\ s = side => y = c
    BY <1>1, <2>1
  <2>a. H[k] \in Nat /\ H[y] \in Nat
    BY <1>0, <1>1, <1>5, <2>1, ShapeKeys
  <2> HIDE DEF y
  <2>4. H[k] = H[y] + Black(w, k)
    <3>1. CASE k = c
      <4>1. Black(w, k) = 1 /\ Black(u, k) = 0
        BY <1>3, <1>c, <3>1 DEF Black
      <4>2. H[k] = h[k] + 1 /\ H[y] = h[y] /\ h[k] = h[y] + Black(u, k)
        BY <1>5, <2>1, <2>2, <2>3, <3>1
      <4>3. QED
        BY <2>2, <4>1, <4>2
    <3>2. CASE k # c
      <4>1. Black(w, k) = Black(u, k) /\ H[k] = h[k]
        BY <1>3, <1>5, <3>2 DEF Black
      <4>2. CASE y = c
        <5>1. H[y] = h[y] + 1 /\ h[k] = h[y] + Black(u, k) + 1
          BY <1>5, <2>1, <2>2, <4>2
        <5>2. QED
          BY <2>2, <4>1, <5>1
      <4>3. CASE y # c
        <5>1. H[y] = h[y] /\ h[k] = h[y] + Black(u, k)
          BY <1>5, <2>1, <2>2, <2>3, <4>3
        <5>2. QED
          BY <4>1, <5>1
      <4>4. QED
        BY <4>2, <4>3
    <3>3. QED
      BY <3>1, <3>2
  <2>5. H[k] = H[w[s][k]] + Black(w, k)
    BY <2>1, <2>4
  <2>6. QED
    BY <2>1, <2>a, <2>5
<1>7. NoRedRed(w, S, 0)
  <2> SUFFICES ASSUME NEW k \in S, NEW s \in Sides, w.red[k] PROVE ~RB!IsRed(w, w[s][k])
    BY DEF NoRedRed
  <2> DEFINE y == u[s][k]
  <2>0. u.red[k]
    <3>1. w.red[k] = IF k = c THEN FALSE ELSE u.red[k]
      BY <1>3
    <3>2. QED
      BY <3>1
  <2>1. y \in S \cup {0} /\ w[s][k] = y
    BY <1>1, <1>3, ChildIs
  <2>2. y = c \/ ~RB!IsRed(u, y)
    BY <1>1, <2>0 DEF NoRedRed
  <2> HIDE DEF y
  <2>3. QED
    BY <1>3, <2>1, <2>2 DEF RB!IsRed
<1>8. ~RB!IsRed(w, w.root)
  <2> DEFINE y == u.root
  <2>1. w.root = y /\ y \in S \cup {0} /\ (RB!IsRed(u, y) => y = c)
    BY <1>0, <1>1, <1>3
  <2> HIDE DEF y
  <2>2. ASSUME y # 0, w.red[y] PROVE FALSE
    <3>1. y # c /\ u.red[y]
      BY <1>3, <2>1, <2>2
    <3>2. QED
      BY <2>1, <2>2, <3>1 DEF RB!IsRed
  <2>3. QED
    BY <2>1, <2>2 DEF RB!IsRed
<1>9. QED
  BY <1>2, <1>6, <1>7, <1>8 DEF Good, w

(* The end of tree_del repairs that. *)
LEMMA RepairedIs ==
  ASSUME TreeUsed, NEW u, NEW S, NEW D, NEW h, NEW c, NEW p, NEW side, NEW red \in BOOLEAN,
         Spliced(u, S, D, h, c, p, side, red)
  PROVE  \E E, H : Good(Repaired(u, c, p, red), S, E, H)
<1>1. /\ Shape(u, S, D) /\ c \in S \cup {0} /\ p \in S \cup {0} /\ side \in Sides
      /\ (p = 0 => u.root = c) /\ (p # 0 => u[side][p] = c)
      /\ (RB!IsRed(u, u.root) => ~red /\ u.root = c)
  BY DEF Spliced
<1>0. 0 \notin S /\ S \cup {0} \subseteq RB!Nodes /\ u \in RB!Tree
  BY <1>1, ShapeKeys
<1>2. CASE red
  <2>1. Heights(u, S, h, 0, side) /\ NoRedRed(u, S, 0) /\ ~RB!IsRed(u, u.root)
    BY <1>1, <1>2 DEF Spliced
  <2>2. Heights(u, S, h, 0, "left")
    BY <1>0, <2>1 DEF Heights
  <2>3. Good(u, S, D, h)
    BY <1>1, <2>1, <2>2 DEF Good
  <2>4. Repaired(u, c, p, red) = u
    BY <1>2 DEF Repaired
  <2>5. QED
    BY <2>3, <2>4
<1>3. CASE ~red /\ RB!IsRed(u, c)
  <2>1. Spliced(u, S, D, h, c, p, side, FALSE)
    BY <1>3
  <2>2. \E H : Good(RB!Paint(u, c, FALSE), S, D, H)
    BY <1>3, <2>1, SplicedBlack
  <2>3. Repaired(u, c, p, red) = RB!Paint(u, c, FALSE)
    BY <1>3 DEF Repaired
  <2>4. QED
    BY <2>2, <2>3
<1>4. CASE ~red /\ ~RB!IsRed(u, c)
  <2>1. Heights(u, S, h, p, side) /\ NoRedRed(u, S, c) /\ ~RB!IsRed(u, u.root)
    BY <1>1, <1>4 DEF Spliced
  <2>2. NoRedRed(u, S, 0)
    BY <1>4, <2>1 DEF NoRedRed
  <2>3. Repaired(u, c, p, red) = RB!RebalanceAfterRemove(u, c, p)
    BY <1>4 DEF Repaired
  <2>4. (\E F, g, cis : RemoveKept(u, S, F, g, c, p, cis)) \/ Ends(u, S, c)
    <3>1. CASE p = 0
      <4>1. Heights(u, S, h, 0, "left")
        BY <1>0, <2>1, <3>1 DEF Heights
      <4>2. \E H : Good(RB!Paint(u, u.root, FALSE), S, D, H)
        BY <1>1, <2>2, <4>1, PaintRoot
      <4>3. QED
        BY <1>0, <1>1, <3>1, <4>2 DEF Ends
    <3>2. CASE p # 0
      <4>1. RemoveKept(u, S, D, h, c, p, side)
        BY <1>1, <1>4, <2>1, <2>2, <3>2 DEF RemoveKept
      <4>2. QED
        BY <4>1
    <3>3. QED
      BY <3>1, <3>2
  <2>5. p \in RB!Nodes
    BY <1>0, <1>1
  <2>6. QED
    BY <2>3, <2>4, <2>5, Removed
<1>5. QED
  BY <1>2, <1>3, <1>4

Swap(key, m, x) == IF x = key THEN m ELSE IF x = m THEN key ELSE x

(* w is v with m, which is not in it, in the place of key. *)
Renamed(v, w, S, key, m) ==
    /\ w \in RB!Tree /\ w.root = Swap(key, m, v.root)
    /\ \A k \in S, s \in Sides : w[s][Swap(key, m, k)] = Swap(key, m, v[s][k])
    /\ \A k \in S : w.parent[Swap(key, m, k)] = Swap(key, m, v.parent[k])
    /\ \A k \in S : w.red[Swap(key, m, k)] = v.red[k]

(* m is, for every other key of the tree, on the side where key is. *)
Fits(v, S, D, key, m) ==
    /\ \A s \in Sides : \A x \in D[v[s][key]] : Below(s, x, m)
    /\ \A k \in S, s \in Sides : key \in D[v[s][k]] => Below(s, m, k)

NewKeys(S, key, m) == (S \ {key}) \cup {m}
NewBelow(D, key, m) == [y \in RB!Nodes |-> {Swap(key, m, x) : x \in D[Swap(key, m, y)]}]
NewHeights(h, key, m) == [y \in RB!Nodes |-> h[Swap(key, m, y)]]

(* The renaming is its own inverse. *)
LEMMA SwapIs ==
  ASSUME TreeUsed, NEW S \in SUBSET RB!Keys, NEW key \in S, NEW m \in RB!Keys \ S
  PROVE  /\ \A x : Swap(key, m, Swap(key, m, x)) = x
         /\ \A x \in RB!Nodes : Swap(key, m, x) \in RB!Nodes
         /\ Swap(key, m, 0) = 0 /\ Swap(key, m, key) = m
         /\ \A x \in S : x # key => Swap(key, m, x) = x
         /\ \A x \in S : Swap(key, m, x) \in NewKeys(S, key, m)
         /\ \A x \in NewKeys(S, key, m) : Swap(key, m, x) \in S
         /\ NewKeys(S, key, m) \in SUBSET RB!Keys /\ 0 \notin NewKeys(S, key, m)
         /\ \A x \in RB!Nodes : Swap(key, m, x) \in S => x \in NewKeys(S, key, m)
<1>1. /\ RB!Nodes = RB!Keys \cup {0} /\ 0 \notin RB!Keys /\ key # m /\ key # 0 /\ m # 0
      /\ key \in RB!Nodes /\ m \in RB!Nodes /\ S \subseteq RB!Nodes /\ m \notin S
  BY NodesAre
<1>2. \A x : Swap(key, m, Swap(key, m, x)) = x
  BY <1>1 DEF Swap
<1>3. \A x \in RB!Nodes : Swap(key, m, x) \in RB!Nodes
  BY <1>1 DEF Swap
<1>4. Swap(key, m, 0) = 0 /\ Swap(key, m, key) = m
  BY <1>1 DEF Swap
<1>5. \A x \in S : x # key => Swap(key, m, x) = x
  BY <1>1 DEF Swap
<1>6. \A x \in S : Swap(key, m, x) \in NewKeys(S, key, m)
  BY <1>1 DEF Swap, NewKeys
<1>7. \A x \in NewKeys(S, key, m) : Swap(key, m, x) \in S
  BY <1>1 DEF Swap, NewKeys
<1>8. NewKeys(S, key, m) \in SUBSET RB!Keys /\ 0 \notin NewKeys(S, key, m)
  BY <1>1 DEF NewKeys
<1>9. \A x \in RB!Nodes : Swap(key, m, x) \in S => x \in NewKeys(S, key, m)
  BY <1>1 DEF Swap, NewKeys
<1>10. QED
  BY <1>2, <1>3, <1>4, <1>5, <1>6, <1>7, <1>8, <1>9

(* A renamed tree is one of the renamed keys, if m fits where key was. *)
LEMMA RenameShape ==
  ASSUME TreeUsed, NEW v, NEW S, NEW D, Shape(v, S, D), NEW key \in S, NEW m \in RB!Keys \ S,
         Fits(v, S, D, key, m), NEW w, Renamed(v, w, S, key, m)
  PROVE  Shape(w, NewKeys(S, key, m), NewBelow(D, key, m))
<1> DEFINE sw(x) == Swap(key, m, x)
           T == NewKeys(S, key, m)
           E == NewBelow(D, key, m)
<1>0. /\ S \in SUBSET RB!Keys /\ S \subseteq RB!Nodes /\ 0 \notin S /\ 0 \in RB!Nodes /\ D[0] = {}
      /\ v.root \in S \cup {0} /\ D[v.root] = S /\ S \cup {0} \subseteq RB!Nodes
      /\ \A x \in RB!Nodes : D[x] \in SUBSET S /\ (x \notin S => D[x] = {})
  BY ShapeKeys
<1>1. /\ \A x : sw(sw(x)) = x
      /\ \A x \in RB!Nodes : sw(x) \in RB!Nodes
      /\ sw(0) = 0 /\ sw(key) = m
      /\ \A x \in S : x # key => sw(x) = x
      /\ \A x \in S : sw(x) \in T
      /\ \A x \in T : sw(x) \in S
      /\ T \in SUBSET RB!Keys /\ 0 \notin T
      /\ \A x \in RB!Nodes : sw(x) \in S => x \in T
  BY <1>0, SwapIs
<1>2. /\ w \in RB!Tree /\ w.root = sw(v.root)
      /\ \A k \in S, s \in Sides : w[s][sw(k)] = sw(v[s][k])
      /\ \A k \in S : w.parent[sw(k)] = sw(v.parent[k])
  BY DEF Renamed
<1>3. \A y \in RB!Nodes : E[y] = {sw(x) : x \in D[sw(y)]}
  BY DEF NewBelow
<1>e. E = [y \in RB!Nodes |-> E[y]]
  BY DEF NewBelow
<1> HIDE DEF sw, T, E
<1>4. \A y \in RB!Nodes : \A x : x \in E[y] <=> sw(x) \in D[sw(y)]
  BY <1>1, <1>3
<1>5. \A k \in T, s \in Sides : w[s][k] = sw(v[s][sw(k)]) /\ sw(w[s][k]) = v[s][sw(k)]
  BY <1>1, <1>2
<1>6. \A k \in T : w.parent[k] = sw(v.parent[sw(k)]) /\ sw(k) \in S
  BY <1>1, <1>2
<1>n. T \subseteq RB!Nodes
  BY <1>1, NodesAre
<1>7. \A k \in T, s \in Sides : w[s][k] \in T \cup {0}
  <2> SUFFICES ASSUME NEW k \in T, NEW s \in Sides PROVE w[s][k] \in T \cup {0}
    OBVIOUS
  <2> DEFINE x == v[s][sw(k)]
  <2>1. x \in S \cup {0} /\ w[s][k] = sw(x)
    BY <1>5, <1>6, ChildIs
  <2> HIDE DEF x
  <2>2. QED
    BY <1>1, <2>1
<1>8. Whole(w, T, E)
  <2>1. ASSUME NEW x \in RB!Nodes PROVE E[x] \in SUBSET T /\ (x \notin T => E[x] = {})
    <3>1. D[sw(x)] \in SUBSET S /\ (sw(x) \notin S => D[sw(x)] = {})
      BY <1>0, <1>1
    <3>2. \A y : y \in E[x] => sw(y) \in S
      BY <1>4, <3>1
    <3>3. \A y : sw(y) \in S => y \in T
      BY <1>1
    <3>4. sw(x) \in S => x \in T
      BY <1>1
    <3>5. QED
      BY <1>4, <3>1, <3>2, <3>3, <3>4
  <2>2. w.root \in T \cup {0} /\ E[w.root] = T
    <3> DEFINE r == v.root
    <3>1. r \in S \cup {0} /\ D[r] = S /\ w.root = sw(r)
      BY <1>0, <1>2
    <3> HIDE DEF r
    <3>2. sw(r) \in T \cup {0} /\ sw(sw(r)) = r /\ sw(r) \in RB!Nodes
      BY <1>0, <1>1, <3>1
    <3>3. \A y : y \in E[sw(r)] <=> sw(y) \in S
      BY <1>4, <3>1, <3>2
    <3>4. \A y : sw(y) \in S <=> y \in T
      BY <1>1
    <3>5. E[sw(r)] = T
      BY <3>3, <3>4
    <3>6. QED
      BY <3>1, <3>2, <3>5
  <2>3. ASSUME NEW k \in T, NEW s \in Sides
        PROVE  E[k] = {k} \cup E[w[s][k]] \cup E[w[RB!Other(s)][k]]
    <3> DEFINE j == sw(k)
               a == w[s][k]
               b == w[RB!Other(s)][k]
    <3>1. /\ RB!Other(s) \in Sides /\ j \in S /\ sw(j) = k /\ a \in RB!Nodes /\ b \in RB!Nodes /\ k \in RB!Nodes
          /\ sw(a) = v[s][j] /\ sw(b) = v[RB!Other(s)][j] /\ sw(k) = j
      BY <1>0, <1>1, <1>5, <1>7, <1>n, OtherSide
    <3> HIDE DEF j, a, b
    <3>2. D[j] = {j} \cup D[sw(a)] \cup D[sw(b)]
      BY <3>1, ChildIs
    <3>3. \A y : y \in E[k] <=> (sw(y) = j \/ sw(y) \in D[sw(a)] \/ sw(y) \in D[sw(b)])
      BY <1>4, <3>1, <3>2
    <3>4. \A y : y \in E[k] <=> (y = k \/ y \in E[a] \/ y \in E[b])
      BY <1>1, <1>4, <3>1, <3>3
    <3>5. E[k] = {k} \cup E[a] \cup E[b]
      BY <3>4
    <3>6. QED
      BY <3>5 DEF a, b
  <2>4. E \in [RB!Nodes -> SUBSET T]
    BY <1>e, <2>1
  <2>5. QED
    BY <1>1, <1>2, <1>7, <2>1, <2>2, <2>3, <2>4 DEF Whole
<1>9. Ordered(w, T, E)
  <2> SUFFICES ASSUME NEW k \in T, NEW s \in Sides, NEW y \in E[w[s][k]] PROVE Below(s, y, k)
    BY DEF Ordered
  <2> DEFINE j == sw(k)
             x == sw(y)
             c == v[s][j]
  <2>1. j \in S /\ x \in D[c] /\ sw(j) = k /\ sw(x) = y
    <3>1. w[s][k] \in RB!Nodes
      BY <1>0, <1>7, <1>n
    <3>2. QED
      BY <1>1, <1>4, <1>5, <1>6, <3>1
  <2>2. Below(s, x, j) /\ x \in S
    BY <2>1, ChildIs
  <2>3. j = key => Below(s, x, m)
    BY <2>1 DEF Fits
  <2>4. x = key => Below(s, m, j)
    BY <2>1 DEF Fits
  <2>5. ~(x = key /\ j = key)
    <3>1. j \notin D[c]
      BY <2>1, ChildIs
    <3>2. QED
      BY <2>1, <3>1
  <2> HIDE DEF j, x, c
  <2>6. QED
    BY <1>1, <2>1, <2>2, <2>3, <2>4, <2>5
<1>10. Linked(w, T)
  <2> SUFFICES ASSUME NEW k \in T, NEW s \in Sides, w[s][k] # 0 PROVE w.parent[w[s][k]] = k
    BY DEF Linked
  <2> DEFINE j == sw(k)
             c == v[s][j]
  <2>1. j \in S /\ sw(j) = k /\ w[s][k] = sw(c) /\ c # 0
    BY <1>1, <1>5, <1>6
  <2>2. c \in S /\ v.parent[c] = j
    BY <2>1, ChildIs
  <2> HIDE DEF j, c
  <2>3. w.parent[sw(c)] = sw(j)
    BY <1>2, <2>2
  <2>4. QED
    BY <2>1, <2>3
<1>11. Rooted(w, T)
  <2> SUFFICES ASSUME NEW k \in T
               PROVE  IF k = w.root THEN w.parent[k] = 0
                      ELSE w.parent[k] \in T /\ \E s \in Sides : w[s][w.parent[k]] = k
    BY DEF Rooted
  <2> DEFINE j == sw(k)
             q == v.parent[j]
             s == RB!SideOf(v, j, q)
  <2>1. j \in S /\ sw(j) = k /\ w.parent[k] = sw(q)
    BY <1>1, <1>6
  <2>2. /\ q = 0 <=> j = v.root
        /\ q # 0 => q \in S /\ v[s][q] = j
        /\ s \in Sides
    BY <2>1, ParentOf, SideIs
  <2>3. k = w.root <=> j = v.root
    BY <1>1, <1>2, <2>1
  <2> HIDE DEF j, q, s
  <2>4. CASE q = 0
    BY <1>1, <2>1, <2>2, <2>3, <2>4
  <2>5. CASE q # 0
    <3>1. sw(q) \in T /\ w[s][sw(q)] = sw(j)
      BY <1>1, <1>2, <2>2, <2>5
    <3>2. QED
      BY <2>1, <2>2, <2>3, <2>5, <3>1
  <2>6. QED
    BY <2>4, <2>5
<1>12. Nested(w, T, E)
  <2> SUFFICES ASSUME NEW y \in T, NEW z \in E[y]
               PROVE  E[z] \subseteq E[y] /\ (z # y => w.parent[z] \in E[y])
    BY DEF Nested
  <2>1. sw(y) \in S /\ sw(z) \in D[sw(y)] /\ y \in RB!Nodes
    BY <1>4, <1>6, <1>n
  <2>2. sw(z) \in S /\ z \in T /\ z \in RB!Nodes
    <3>1. E[y] \subseteq T
      BY <1>8, <2>1 DEF Whole
    <3>2. QED
      BY <1>6, <1>n, <3>1
  <2>3. D[sw(z)] \subseteq D[sw(y)] /\ (sw(z) # sw(y) => v.parent[sw(z)] \in D[sw(y)])
    BY <2>1 DEF Shape, Nested
  <2>4. E[z] \subseteq E[y]
    BY <1>4, <2>1, <2>2, <2>3
  <2>5. ASSUME z # y PROVE w.parent[z] \in E[y]
    <3>1. sw(z) # sw(y)
      BY <1>1, <2>5
    <3>2. w.parent[z] = sw(v.parent[sw(z)]) /\ v.parent[sw(z)] \in D[sw(y)]
      BY <1>6, <2>2, <2>3, <3>1
    <3>3. sw(w.parent[z]) \in D[sw(y)]
      BY <1>1, <3>2
    <3>4. QED
      BY <1>4, <2>1, <3>3
  <2>6. QED
    BY <2>4, <2>5
<1>13. QED
  BY <1>8, <1>9, <1>10, <1>11, <1>12 DEF Shape, T, E

(* The heights and colours are renamed with it. *)
LEMMA RenameIs ==
  ASSUME TreeUsed, NEW v, NEW S, NEW D, NEW h, NEW c, NEW p, NEW side, NEW red,
         Spliced(v, S, D, h, c, p, side, red), NEW key \in S, NEW m \in RB!Keys \ S,
         Fits(v, S, D, key, m), NEW w, Renamed(v, w, S, key, m)
  PROVE  Spliced(w, NewKeys(S, key, m), NewBelow(D, key, m), NewHeights(h, key, m),
                 Swap(key, m, c), Swap(key, m, p), side, red)
<1> DEFINE sw(x) == Swap(key, m, x)
           T == NewKeys(S, key, m)
           E == NewBelow(D, key, m)
           H == NewHeights(h, key, m)
           e == IF red THEN 0 ELSE p
           f == IF red THEN 0 ELSE c
<1>1. /\ Shape(v, S, D) /\ c \in S \cup {0} /\ p \in S \cup {0} /\ side \in Sides
      /\ (p = 0 => v.root = c) /\ (p # 0 => v[side][p] = c)
      /\ Heights(v, S, h, e, side) /\ NoRedRed(v, S, f)
      /\ (RB!IsRed(v, v.root) => ~red /\ v.root = c)
  BY DEF Spliced
<1>2. Shape(w, T, E)
  BY <1>1, RenameShape
<1>0. S \in SUBSET RB!Keys /\ S \subseteq RB!Nodes /\ 0 \notin S /\ 0 \in RB!Nodes /\ v.root \in S \cup {0}
      /\ S \cup {0} \subseteq RB!Nodes
  BY <1>1, ShapeKeys
<1>3. /\ \A x : sw(sw(x)) = x
      /\ \A x \in RB!Nodes : sw(x) \in RB!Nodes
      /\ sw(0) = 0
      /\ \A x \in S : sw(x) \in T
      /\ \A x \in T : sw(x) \in S
      /\ T \in SUBSET RB!Keys /\ 0 \notin T
  BY <1>0, SwapIs
<1>4. /\ w \in RB!Tree /\ w.root = sw(v.root)
      /\ \A k \in S, s \in Sides : w[s][sw(k)] = sw(v[s][k])
      /\ \A k \in S : w.red[sw(k)] = v.red[k]
  BY DEF Renamed
<1>n. T \subseteq RB!Nodes
  BY <1>3, NodesAre
<1>h. h \in [RB!Nodes -> Nat] /\ h[0] = 0
  BY <1>1 DEF Heights
<1>5. H \in [RB!Nodes -> Nat] /\ H[0] = 0 /\ \A x \in RB!Nodes : H[x] = h[sw(x)]
  <2>1. \A x \in RB!Nodes : H[x] = h[sw(x)]
    BY DEF NewHeights
  <2>2. H = [x \in RB!Nodes |-> H[x]]
    BY DEF NewHeights
  <2> HIDE DEF H, sw
  <2>3. \A x \in RB!Nodes : H[x] \in Nat
    BY <1>3, <1>h, <2>1
  <2>4. QED
    BY <1>0, <1>3, <1>h, <2>1, <2>2, <2>3
<1>j. e = (IF red THEN 0 ELSE p) /\ f = (IF red THEN 0 ELSE c)
  OBVIOUS
<1> HIDE DEF sw, T, E, H, e, f
<1>6. \A k \in T : sw(k) \in S /\ w.red[k] = v.red[sw(k)]
  BY <1>3, <1>4
<1>7. \A k \in T, s \in Sides : w[s][k] = sw(v[s][sw(k)])
  BY <1>3, <1>4
<1>8. \A x \in S \cup {0} : RB!IsRed(w, sw(x)) <=> RB!IsRed(v, x)
  <2> SUFFICES ASSUME NEW x \in S \cup {0} PROVE RB!IsRed(w, sw(x)) <=> RB!IsRed(v, x)
    OBVIOUS
  <2>1. CASE x = 0
    BY <1>3, <2>1 DEF RB!IsRed
  <2>2. CASE x # 0
    <3>1. x \in S /\ sw(x) # 0 /\ w.red[sw(x)] = v.red[x]
      BY <1>0, <1>3, <1>4, <2>2
    <3>2. QED
      BY <2>2, <3>1 DEF RB!IsRed
  <2>3. QED
    BY <2>1, <2>2
<1>9. Heights(w, T, H, sw(e), side)
  <2> SUFFICES ASSUME NEW k \in T, NEW s \in Sides
               PROVE  H[k] = H[w[s][k]] + Black(w, k) + (IF k = sw(e) /\ s = side THEN 1 ELSE 0)
    BY <1>5 DEF Heights
  <2> DEFINE j == sw(k)
             x == v[s][j]
  <2>1. j \in S /\ sw(j) = k /\ w[s][k] = sw(x) /\ w.red[k] = v.red[j] /\ sw(sw(x)) = x
    BY <1>3, <1>6, <1>7
  <2>2. x \in S \cup {0}
    BY <1>1, <2>1, ChildIs
  <2>3. h[j] = h[x] + Black(v, j) + (IF j = e /\ s = side THEN 1 ELSE 0)
    BY <1>1, <2>1 DEF Heights
  <2>4. j = e <=> k = sw(e)
    BY <1>3, <2>1
  <2>5. Black(w, k) = Black(v, j)
    BY <2>1 DEF Black
  <2>6. H[k] = h[j]
    BY <1>5, <1>n
  <2> HIDE DEF j, x
  <2>7. H[sw(x)] = h[x]
    BY <1>0, <1>3, <1>5, <2>1, <2>2
  <2>8. (IF j = e /\ s = side THEN 1 ELSE 0) = (IF k = sw(e) /\ s = side THEN 1 ELSE 0)
    BY <2>4
  <2>9. QED
    BY <2>1, <2>3, <2>5, <2>6, <2>7, <2>8
<1>10. NoRedRed(w, T, sw(f))
  <2> SUFFICES ASSUME NEW k \in T, NEW s \in Sides, w.red[k]
               PROVE  w[s][k] = sw(f) \/ ~RB!IsRed(w, w[s][k])
    BY DEF NoRedRed
  <2> DEFINE j == sw(k)
             x == v[s][j]
  <2>1. j \in S /\ w[s][k] = sw(x) /\ v.red[j]
    BY <1>3, <1>6, <1>7
  <2>2. x \in S \cup {0}
    BY <1>1, <2>1, ChildIs
  <2>3. x = f \/ ~RB!IsRed(v, x)
    BY <1>1, <2>1 DEF NoRedRed
  <2> HIDE DEF j, x
  <2>4. QED
    BY <1>8, <2>1, <2>2, <2>3
<1>11. sw(e) = (IF red THEN 0 ELSE sw(p)) /\ sw(f) = (IF red THEN 0 ELSE sw(c))
  BY <1>3, <1>j
<1>12. sw(c) \in T \cup {0} /\ sw(p) \in T \cup {0} /\ (sw(p) = 0 <=> p = 0)
  BY <1>1, <1>3
<1>13. (sw(p) = 0 => w.root = sw(c)) /\ (sw(p) # 0 => w[side][sw(p)] = sw(c))
  <2>1. CASE p = 0
    BY <1>1, <1>4, <1>12, <2>1
  <2>2. CASE p # 0
    BY <1>1, <1>4, <1>12, <2>2
  <2>3. QED
    BY <2>1, <2>2
<1>14. RB!IsRed(w, w.root) => ~red /\ w.root = sw(c)
  <2> DEFINE r == v.root
  <2>1. r \in S \cup {0} /\ (RB!IsRed(v, r) => ~red /\ r = c) /\ w.root = sw(r)
    BY <1>0, <1>1, <1>4
  <2> HIDE DEF r
  <2>2. QED
    BY <1>8, <2>1
<1>15. Spliced(w, T, E, H, sw(c), sw(p), side, red)
  BY <1>1, <1>2, <1>9, <1>10, <1>11, <1>12, <1>13, <1>14 DEF Spliced
<1>16. QED
  BY <1>15 DEF sw, T, E, H

(* The leftmost node below r: the least key there. *)
LEMMA LeftmostIs ==
  ASSUME TreeUsed, NEW t, NEW S, NEW D, Shape(t, S, D), NEW r \in S
  PROVE  /\ RB!Leftmost(t, r) \in D[r] /\ RB!Leftmost(t, r) \in S /\ t.left[RB!Leftmost(t, r)] = 0
         /\ \A y \in D[r] : y = RB!Leftmost(t, r) \/ RB!Leftmost(t, r) < y
         /\ RB!Leftmost(t, r) # r => /\ t.parent[RB!Leftmost(t, r)] \in D[r]
                                     /\ t.left[t.parent[RB!Leftmost(t, r)]] = RB!Leftmost(t, r)
<1> DEFINE step == [k \in RB!Nodes |-> IF k = 0 \/ t.left[k] = 0 THEN k ELSE t.left[k]]
           m == RB!Leftmost(t, r)
           I == {k \in D[r] : \A y \in D[r] : y \in D[k] \/ k < y}
<1>0. /\ S \subseteq RB!Keys /\ S \subseteq RB!Nodes /\ 0 \notin S /\ S \subseteq Int /\ t \in RB!Tree
      /\ \A x \in RB!Nodes : D[x] \in SUBSET S
  BY ShapeKeys
<1>1. m = RB!Walk(step, r)
  BY DEF RB!Leftmost
<1>2. \A k \in S : step[k] = IF t.left[k] = 0 THEN k ELSE t.left[k]
  BY <1>0
<1> HIDE DEF step, m
<1>3. r \in D[r] /\ D[r] \in SUBSET S
  BY <1>0, ChildIs DEF Sides
<1>4. r \in I
  BY <1>3
<1>5. ASSUME NEW k \in S
      PROVE  LET l == t.left[k]
             IN  /\ l \in S \cup {0} /\ D[l] \subseteq D[k] /\ D[l] # D[k] /\ (l # 0 => l \in D[k] /\ l < k)
                 /\ D[k] = {k} \cup D[l] \cup D[t.right[k]]
                 /\ \A x \in D[t.right[k]] : k < x
                 /\ (l = 0 => D[l] = {}) /\ k \in Int
  <2>1. t["left"][k] = t.left[k] /\ t["right"][k] = t.right[k] /\ "left" \in Sides /\ "right" \in Sides
    BY <1>0, Fields DEF Sides
  <2>2. RB!Other("left") = "right"
    BY DEF RB!Other
  <2> DEFINE l == t["left"][k]
             g == t["right"][k]
  <2>3. /\ l \in S \cup {0} /\ D[k] = {k} \cup D[l] \cup D[g] /\ D[l] \subseteq D[k] /\ D[l] # D[k]
        /\ l # 0 => l \in D[l] /\ l \in D[k]
        /\ \A x \in D[l] : Below("left", x, k)
    BY <2>1, <2>2, ChildIs
  <2>4. \A x \in D[g] : Below("right", x, k)
    BY <2>1, ChildIs
  <2>5. D[0] = {}
    BY ShapeKeys
  <2> HIDE DEF l, g
  <2>6. (l # 0 => l < k) /\ \A x \in D[g] : k < x
    BY <2>3, <2>4 DEF Below
  <2>7. k \in Int
    BY <1>0
  <2>8. l = t.left[k] /\ g = t.right[k]
    BY <2>1 DEF l, g
  <2>9. QED
    BY <2>3, <2>5, <2>6, <2>7, <2>8
<1>6. \A x \in S : \A c \in D[x] : D[c] \subseteq D[x] /\ (c # x => t.parent[c] \in D[x])
  BY DEF Shape, Nested
<1>7. ASSUME NEW x \in I
      PROVE  /\ step[x] \in I /\ D[x] \in SUBSET RB!Keys
             /\ step[x] # x => D[step[x]] \subseteq D[x] /\ D[step[x]] # D[x]
  <2> DEFINE l == t.left[x]
             g == t.right[x]
  <2>1. x \in S /\ x \in D[r] /\ \A y \in D[r] : y \in D[x] \/ x < y
    BY <1>3
  <2>2. /\ l \in S \cup {0} /\ D[l] \subseteq D[x] /\ D[l] # D[x] /\ (l # 0 => l \in D[x] /\ l < x)
        /\ D[x] = {x} \cup D[l] \cup D[g] /\ x \in Int
        /\ \A y \in D[g] : x < y
    BY <1>5, <2>1
  <2>3. D[x] \in SUBSET RB!Keys /\ step[x] = IF l = 0 THEN x ELSE l
    BY <1>0, <1>2, <2>1
  <2>d. D[x] \subseteq D[r] /\ D[r] \subseteq Int
    BY <1>0, <1>3, <1>6, <2>1
  <2> HIDE DEF l, g
  <2>4. CASE l = 0
    BY <2>3, <2>4
  <2>5. CASE l # 0
    <3>1. l \in D[r] /\ l \in S /\ l \in Int
      BY <1>0, <2>2, <2>5, <2>d
    <3>2. ASSUME NEW y \in D[r] PROVE y \in D[l] \/ l < y
      <4>0. y \in Int
        BY <2>d
      <4>1. CASE y \in D[x]
        BY <2>2, <2>5, <3>1, <4>0, <4>1
      <4>2. CASE x < y
        BY <2>2, <2>5, <3>1, <4>0, <4>2
      <4>3. QED
        BY <2>1, <4>1, <4>2
    <3>3. l \in I
      BY <3>1, <3>2
    <3>4. QED
      BY <2>2, <2>3, <2>5, <3>3
  <2>6. QED
    BY <2>4, <2>5
<1> HIDE DEF I
<1>8. m \in I /\ step[m] = m
  BY <1>1, <1>4, <1>7, WalkEnds
<1>9. m \in D[r] /\ m \in S /\ \A y \in D[r] : y \in D[m] \/ m < y
  BY <1>3, <1>8 DEF I
<1>10. t.left[m] = 0
  <2> DEFINE l == t.left[m]
  <2>1. step[m] = (IF l = 0 THEN m ELSE l) /\ m \in Int
    BY <1>0, <1>2, <1>9
  <2>2. l # 0 => l < m
    BY <1>5, <1>9
  <2> HIDE DEF l
  <2>3. l = 0
    BY <1>8, <2>1, <2>2
  <2>4. QED
    BY <2>3 DEF l
<1>11. ASSUME NEW y \in D[r] PROVE y = m \/ m < y
  <2>1. D[m] = {m} \cup D[t.right[m]] /\ \A x \in D[t.right[m]] : m < x
    BY <1>5, <1>9, <1>10
  <2>2. QED
    BY <1>9, <2>1
<1>12. ASSUME m # r PROVE t.parent[m] \in D[r] /\ t.left[t.parent[m]] = m
  <2> DEFINE q == t.parent[m]
             s == RB!SideOf(t, m, q)
  <2>1. q \in D[r] /\ q \in S /\ q # 0
    BY <1>0, <1>3, <1>6, <1>9, <1>12
  <2>2. t[s][q] = m /\ s \in Sides /\ q \notin D[m]
    BY <1>9, <2>1, ParentOf, SideIs
  <2>3. m < q /\ q \in Int /\ m \in Int
    <3>1. q # m
      BY <1>9, <2>1, ParentOf
    <3>2. QED
      BY <1>0, <1>9, <1>11, <2>1, <3>1
  <2>4. t["left"][q] = t.left[q] /\ t["right"][q] = t.right[q]
    BY <1>0, <2>1, Fields
  <2>5. Below(s, m, q)
    <3>1. \A x \in D[t[s][q]] : Below(s, x, q)
      BY <2>1, <2>2, ChildIs
    <3>2. m \in D[m]
      BY <1>9, ChildIs DEF Sides
    <3>3. QED
      BY <2>2, <3>1, <3>2
  <2> HIDE DEF q, s
  <2>6. s = "left"
    BY <2>2, <2>3, <2>5 DEF Below, Sides
  <2>7. QED
    BY <2>1, <2>2, <2>4, <2>6 DEF q
<1>13. QED
  BY <1>9, <1>10, <1>11, <1>12 DEF m

(* Replace and Attach take m out. *)
LEMMA SpliceMade ==
  ASSUME TreeUsed, NEW t, NEW S, NEW D, Shape(t, S, D), NEW m \in S, NEW c, NEW p, OnlyChild(t, m, c, p)
  PROVE  SplicedOut(t, RB!Attach(RB!Replace(t, p, m, c), c, p), S, m, c, p)
<1> DEFINE u1 == RB!Replace(t, p, m, c)
           u == RB!Attach(u1, c, p)
           side == RB!SideOf(t, m, p)
<1>0. /\ S \subseteq RB!Keys /\ 0 \notin S /\ S \cup {0} \subseteq RB!Nodes /\ t \in RB!Tree
  BY ShapeKeys
<1>1. /\ c \in S \cup {0} /\ (p # 0 => p \in S /\ t[side][p] = m)
      /\ \A k \in S, s \in Sides : t[s][k] = m => k = p /\ s = side
  BY OnlyChildIs
<1>2. c \in RB!Nodes /\ p \in RB!Nodes
  BY <1>0, <1>1
<1> HIDE DEF u1, u, side
<1>3. Replaced(t, u1, p, m, c) /\ u1 \in RB!Tree
  <2>1. Replaced(t, u1, p, m, c)
    BY <1>0, <1>2, ReplaceIs DEF u1
  <2>2. QED
    BY <2>1 DEF Replaced
<1>4. Attached(u1, u, c, p) /\ u \in RB!Tree
  <2>1. Attached(u1, u, c, p)
    BY <1>2, <1>3, AttachIs DEF u
  <2>2. QED
    BY <2>1 DEF Attached
<1>5. SamePointers(u1, u)
  BY <1>3, <1>4, SameAre DEF Attached
<1>6. \A k \in S \ {m}, s \in Sides : u[s][k] = IF t[s][k] = m THEN c ELSE t[s][k]
  <2> SUFFICES ASSUME NEW k \in S \ {m}, NEW s \in Sides
               PROVE  u[s][k] = IF t[s][k] = m THEN c ELSE t[s][k]
    OBVIOUS
  <2>1. u[s][k] = u1[s][k]
    BY <1>0, <1>5 DEF SamePointers
  <2>2. u1[s][k] = IF k = p /\ s = side THEN c ELSE t[s][k]
    BY <1>0, <1>3 DEF Replaced, side
  <2>3. k = p /\ s = side <=> t[s][k] = m
    BY <1>0, <1>1
  <2>4. QED
    BY <2>1, <2>2, <2>3
<1>7. u.root = IF p = 0 THEN c ELSE t.root
  BY <1>3, <1>4 DEF Attached, Replaced
<1>8. \A k \in S \ {m} : u.parent[k] = IF k = c THEN p ELSE t.parent[k]
  BY <1>0, <1>3, <1>4 DEF Attached, Replaced
<1>9. u.red = t.red
  BY <1>3, <1>4 DEF Attached, Replaced
<1>10. QED
  BY <1>4, <1>6, <1>7, <1>8, <1>9 DEF SplicedOut, u, u1

-----------------------------------------------------------------------------
(* key has two children; m is the least key on its right, and has at most a right child. *)
Family(t, S, D, key, l, r, m, c, q, p) ==
    /\ Shape(t, S, D) /\ key \in S /\ l = t.left[key] /\ r = t.right[key] /\ l # 0 /\ r # 0
    /\ m = RB!Leftmost(t, r) /\ c = t.right[m] /\ q = t.parent[m] /\ p = t.parent[key]

(* Who is who when key has two children. *)
LEMMA FamilyIs ==
  ASSUME TreeUsed, NEW t, NEW S, NEW D, NEW key, NEW l, NEW r, NEW m, NEW c, NEW q, NEW p,
         Family(t, S, D, key, l, r, m, c, q, p)
  PROVE  /\ l \in S /\ r \in S /\ m \in S /\ q \in S /\ c \in S \cup {0} /\ p \in S \cup {0}
         /\ t.parent[l] = key /\ t.parent[r] = key /\ l # r /\ l # key /\ r # key /\ l # m /\ m # key
         /\ c # key /\ c # l /\ c # r /\ c # m /\ (c # 0 => t.parent[c] = m)
         /\ p # key /\ p # m /\ q # m /\ q # p /\ (q = key <=> m = r) /\ OnlyChild(t, m, c, q)
         /\ m # t.root /\ (p = 0 <=> key = t.root) /\ q # l
         /\ m # r => t.left[q] = m
         /\ \A y \in D[r] : y = m \/ m < y
         /\ m \in D[r] /\ D[r] \subseteq D[key] /\ m \in D[key]
         /\ \A y \in D[r] : key < y /\ y \in S
         /\ \A k \in S : t.parent[k] = key => k = l \/ k = r
<1>0. /\ S \subseteq RB!Keys /\ 0 \notin S /\ S \subseteq Int /\ t \in RB!Tree /\ S \subseteq RB!Nodes
      /\ Shape(t, S, D) /\ key \in S /\ "left" \in Sides /\ "right" \in Sides
      /\ RB!Other("left") = "right" /\ RB!Other("right") = "left"
  BY ShapeKeys DEF Family, RB!Other, Sides
<1>1. /\ t["left"][key] = l /\ t["right"][key] = r /\ l # 0 /\ r # 0 /\ t.parent[key] = p
  BY <1>0, Fields DEF Family
<1>2. /\ l \in S /\ l # key /\ t.parent[l] = key /\ l # r /\ l \in D[l]
      /\ \A x \in D[l] : Below("left", x, key)
  BY <1>0, <1>1, ChildIs
<1>3. /\ r \in S /\ r # key /\ t.parent[r] = key /\ r \in D[r] /\ key \notin D[r] /\ D[r] \subseteq D[key]
      /\ \A x \in D[r] : Below("right", x, key) /\ x \in S
  BY <1>0, <1>1, ChildIs
<1>4. \A y \in D[r] : key < y /\ y \in S
  BY <1>3 DEF Below
<1>5. l < key
  BY <1>2 DEF Below
<1>6. l \notin D[r]
  <2>1. l \in Int /\ key \in Int
    BY <1>0, <1>2
  <2>2. ~(key < l)
    BY <1>5, <2>1
  <2>3. QED
    BY <1>4, <2>2
<1>7. /\ m \in D[r] /\ m \in S /\ t.left[m] = 0 /\ \A y \in D[r] : y = m \/ m < y
      /\ m # r => t.parent[m] \in D[r] /\ t.left[t.parent[m]] = m
  BY <1>0, <1>3, LeftmostIs DEF Family
<1>8. t.parent[m] = q /\ t["left"][m] = 0 /\ t["right"][m] = c
  BY <1>0, <1>7, Fields DEF Family
<1>9. OnlyChild(t, m, c, q)
  BY <1>0, <1>8 DEF OnlyChild
<1>10. /\ c \in S \cup {0} /\ c # m /\ (c # 0 => t.parent[c] = m)
       /\ q = 0 <=> m = t.root
       /\ q # 0 => q \in S /\ q # m
  BY <1>0, <1>7, <1>9, OnlyChildIs
<1>11. \A x \in S : \A y \in D[x] : D[y] \subseteq D[x]
  BY <1>0 DEF Shape, Nested
<1>12. q = key <=> m = r
  BY <1>3, <1>7, <1>8
<1>13. m # r => q \in D[r] /\ t.left[q] = m
  BY <1>7, <1>8
<1>14. q \in S
  BY <1>0, <1>4, <1>12, <1>13
<1>15. c # key /\ c # l /\ c # r
  <2>1. CASE c = 0
    BY <1>0, <1>1, <2>1
  <2>2. CASE c # 0
    <3>1. c \in S /\ t.parent[c] = m
      BY <1>10, <2>2
    <3>2. key # m
      BY <1>3, <1>7
    <3>3. c # l /\ c # r
      BY <1>2, <1>3, <3>1, <3>2
    <3>4. c \in D[m] /\ D[m] \subseteq D[r]
      <4>1. c \in D[m]
        BY <1>0, <1>7, <1>8, <2>2, ChildIs
      <4>2. QED
        BY <1>3, <1>7, <1>11, <4>1
    <3>5. QED
      BY <1>3, <3>3, <3>4
  <2>3. QED
    BY <2>1, <2>2
<1>16. /\ p = 0 <=> key = t.root
       /\ p # 0 => p \in S /\ p # key /\ p \notin D[key]
  BY <1>0, <1>1, ParentOf
<1>17. key \in D[key]
  BY <1>0, ChildIs
<1>18. q \in D[key] /\ m \in D[key]
  BY <1>3, <1>7, <1>12, <1>13, <1>17
<1>19. p # m /\ q # p /\ p # key
  BY <1>0, <1>14, <1>16, <1>18, <1>7
<1>20. l # m /\ m # key /\ q # l
  BY <1>2, <1>3, <1>6, <1>7, <1>12, <1>13
<1>21. \A k \in S : t.parent[k] = key => k = l \/ k = r
  <2> SUFFICES ASSUME NEW k \in S, t.parent[k] = key PROVE k = l \/ k = r
    OBVIOUS
  <2> DEFINE s == RB!SideOf(t, k, key)
  <2>1. t[s][key] = k /\ s \in Sides
    BY <1>0, ParentOf, SideIs
  <2> HIDE DEF s
  <2>2. QED
    BY <1>1, <2>1 DEF Sides
<1>22. m # t.root /\ q # m /\ p \in S \cup {0}
  BY <1>0, <1>10, <1>14, <1>16
<1>23. QED
  BY <1>2, <1>3, <1>4, <1>7, <1>9, <1>10, <1>12, <1>13, <1>14, <1>15, <1>16, <1>18, <1>19, <1>20, <1>21, <1>22

IsPlaced(t, u, l, m, p, red) ==
    /\ u \in RB!Tree /\ u.root = t.root /\ u.right = t.right
    /\ \A k \in RB!Keys : u.left[k] = IF k = m THEN l ELSE t.left[k]
    /\ \A k \in RB!Keys : u.parent[k] = IF k = m THEN p ELSE IF k = l THEN m ELSE t.parent[k]
    /\ \A k \in RB!Keys : u.red[k] = IF k = m THEN red ELSE t.red[k]

IsFreed(t, u, r, m, c, q) ==
    /\ u \in RB!Tree /\ u.root = t.root /\ u.red = t.red
    /\ \A k \in RB!Keys : u.left[k] = IF k = q THEN c ELSE t.left[k]
    /\ \A k \in RB!Keys : u.right[k] = IF k = m THEN r ELSE t.right[k]
    /\ \A k \in RB!Keys : u.parent[k] = IF k = r THEN m ELSE t.parent[k]

(* What tree_del assigns then, field by field. *)
LEMMA PlacedIs ==
  ASSUME TreeUsed, NEW t \in RB!Tree, NEW l \in RB!Keys, NEW m \in RB!Keys, NEW p \in RB!Nodes,
         NEW red \in BOOLEAN
  PROVE  IsPlaced(t, RB!Placed(t, m, l, p, red), l, m, p, red)
<1> DEFINE u == RB!Placed(t, m, l, p, red)
<1>1. l \in RB!Nodes /\ m \in RB!Nodes
  BY NodesAre
<1>2. u \in RB!Tree /\ u.root = t.root /\ u.right = t.right
  BY <1>1 DEF RB!Placed, RB!Tree
<1>3. /\ \A k \in RB!Keys : u.left[k] = IF k = m THEN l ELSE t.left[k]
      /\ \A k \in RB!Keys : u.red[k] = IF k = m THEN red ELSE t.red[k]
  BY DEF RB!Placed, RB!Tree
<1>4. \A k \in RB!Keys : u.parent[k] = IF k = m THEN p ELSE IF k = l THEN m ELSE t.parent[k]
  BY DEF RB!Placed, RB!Tree
<1> HIDE DEF u
<1>5. IsPlaced(t, u, l, m, p, red)
  BY <1>2, <1>3, <1>4 DEF IsPlaced
<1>6. QED
  BY <1>5 DEF u

LEMMA FreedIs ==
  ASSUME TreeUsed, NEW t \in RB!Tree, NEW r \in RB!Keys, NEW m \in RB!Keys, NEW c \in RB!Nodes, NEW q \in RB!Keys
  PROVE  IsFreed(t, RB!Freed(t, m, r, c, q), r, m, c, q)
<1> DEFINE u == RB!Freed(t, m, r, c, q)
<1>1. r \in RB!Nodes /\ m \in RB!Nodes
  BY NodesAre
<1>2. u \in RB!Tree /\ u.root = t.root /\ u.red = t.red
  BY <1>1 DEF RB!Freed, RB!Tree
<1>3. /\ \A k \in RB!Keys : u.left[k] = IF k = q THEN c ELSE t.left[k]
      /\ \A k \in RB!Keys : u.right[k] = IF k = m THEN r ELSE t.right[k]
      /\ \A k \in RB!Keys : u.parent[k] = IF k = r THEN m ELSE t.parent[k]
  BY DEF RB!Freed, RB!Tree
<1> HIDE DEF u
<1>4. IsFreed(t, u, r, m, c, q)
  BY <1>2, <1>3 DEF IsFreed
<1>5. QED
  BY <1>4 DEF u

Up(t, key, m, p) == RB!Replace(t, p, key, m)
PlacedTree(t, key, l, m, p) == RB!Placed(Up(t, key, m, p), m, l, p, t.red[key])
MovedTree(t, key, l, r, m, c, q, p) ==
    IF m = r THEN PlacedTree(t, key, l, m, p) ELSE RB!Freed(PlacedTree(t, key, l, m, p), m, r, c, q)

(* The three cases of tree_del: the successor is the right child, or further down. *)
LEMMA UnlinkNext ==
  ASSUME NEW t, NEW key, NEW l, NEW m, NEW c, NEW p,
         t.left[key] = l, t.right[key] = m, l # 0, m # 0, RB!Leftmost(t, m) = m, t.right[m] = c, t.parent[key] = p
  PROVE  RB!Unlink(t, key) = [tree |-> RB!Attach(PlacedTree(t, key, l, m, p), c, m),
                              child |-> c, parent |-> m, red |-> t.red[m]]
BY DEF RB!Unlink, PlacedTree, Up

LEMMA UnlinkFar ==
  ASSUME NEW t, NEW key, NEW l, NEW r, NEW m, NEW c, NEW p, NEW q, m # r, t.parent[m] = q,
         t.left[key] = l, t.right[key] = r, l # 0, r # 0, RB!Leftmost(t, r) = m, t.right[m] = c, t.parent[key] = p
  PROVE  RB!Unlink(t, key) = [tree |-> RB!Attach(RB!Freed(PlacedTree(t, key, l, m, p), m, r, c, q), c, q),
                              child |-> c, parent |-> q, red |-> t.red[m]]
<1> DEFINE u == RB!Unlink(t, key)
<1>1. u.child = c
  BY DEF RB!Unlink
<1>2. u.parent = q
  BY DEF RB!Unlink
<1>3. u.red = t.red[m]
  BY DEF RB!Unlink
<1>4. u.tree = RB!Attach(RB!Freed(PlacedTree(t, key, l, m, p), m, r, c, q), c, q)
  BY DEF RB!Unlink, PlacedTree, Up
<1>5. u = [tree |-> u.tree, child |-> u.child, parent |-> u.parent, red |-> u.red]
  BY DEF RB!Unlink
<1>6. QED
  BY <1>1, <1>2, <1>3, <1>4, <1>5

LEMMA UnlinkTwo ==
  ASSUME NEW t, NEW S, NEW D, NEW key, NEW l, NEW r, NEW m, NEW c, NEW q, NEW p,
         Family(t, S, D, key, l, r, m, c, q, p)
  PROVE  RB!Unlink(t, key) =
            [tree |-> RB!Attach(MovedTree(t, key, l, r, m, c, q, p), c, IF m = r THEN m ELSE q),
             child |-> c, parent |-> IF m = r THEN m ELSE q, red |-> t.red[m]]
<1>1. CASE m = r
  <2>1. /\ t.left[key] = l /\ t.right[key] = m /\ l # 0 /\ m # 0 /\ RB!Leftmost(t, m) = m
        /\ t.right[m] = c /\ t.parent[key] = p
    BY <1>1 DEF Family
  <2>2. RB!Unlink(t, key) = [tree |-> RB!Attach(PlacedTree(t, key, l, m, p), c, m),
                             child |-> c, parent |-> m, red |-> t.red[m]]
    BY <2>1, UnlinkNext
  <2>3. QED
    BY <1>1, <2>2 DEF MovedTree
<1>2. CASE m # r
  <2>1. /\ t.left[key] = l /\ t.right[key] = r /\ l # 0 /\ r # 0 /\ RB!Leftmost(t, r) = m
        /\ t.right[m] = c /\ t.parent[m] = q /\ t.parent[key] = p
    BY DEF Family
  <2>2. RB!Unlink(t, key) = [tree |-> RB!Attach(RB!Freed(PlacedTree(t, key, l, m, p), m, r, c, q), c, q),
                             child |-> c, parent |-> q, red |-> t.red[m]]
    BY <1>2, <2>1, UnlinkFar
  <2>3. QED
    BY <1>2, <2>2 DEF MovedTree
<1>3. QED
  BY <1>1, <1>2

(* m has taken the place of key, and c that of m. *)
Replacing(t, u, S, key, l, r, m, c, q, p) ==
    /\ u \in RB!Tree /\ u.root = IF p = 0 THEN m ELSE t.root
    /\ \A k \in S \ {m, key}, s \in Sides :
          u[s][k] = IF t[s][k] = key THEN m ELSE IF t[s][k] = m THEN c ELSE t[s][k]
    /\ u["left"][m] = l /\ u["right"][m] = IF m = r THEN c ELSE r
    /\ \A k \in S \ {key} :
          u.parent[k] = IF k = c THEN (IF q = key THEN m ELSE q)
                        ELSE IF k = m THEN p ELSE IF t.parent[k] = key THEN m ELSE t.parent[k]
    /\ \A k \in S \ {key} : u.red[k] = IF k = m THEN t.red[key] ELSE t.red[k]

(* What tree_del has made of the tree, whichever case it was. *)
LEMMA ReplacingIs ==
  ASSUME TreeUsed, NEW t, NEW S, NEW D, NEW key, NEW l, NEW r, NEW m, NEW c, NEW q, NEW p,
         Family(t, S, D, key, l, r, m, c, q, p)
  PROVE  Replacing(t, RB!Attach(MovedTree(t, key, l, r, m, c, q, p), c, IF m = r THEN m ELSE q),
                   S, key, l, r, m, c, q, p)
<1> DEFINE up == Up(t, key, m, p)
           pl == PlacedTree(t, key, l, m, p)
           mv == MovedTree(t, key, l, r, m, c, q, p)
           e == IF m = r THEN m ELSE q
           u == RB!Attach(mv, c, e)
           side == RB!SideOf(t, key, p)
<1>0. /\ Shape(t, S, D) /\ key \in S /\ S \subseteq RB!Keys /\ 0 \notin S /\ t \in RB!Tree
      /\ S \cup {0} \subseteq RB!Nodes /\ t["left"][key] = l /\ t["right"][key] = r
  <2>1. Shape(t, S, D) /\ key \in S
    BY DEF Family
  <2>2. S \subseteq RB!Keys /\ 0 \notin S /\ t \in RB!Tree /\ S \cup {0} \subseteq RB!Nodes
    BY <2>1, ShapeKeys
  <2>3. QED
    BY <2>1, <2>2, Fields DEF Family
<1>1. /\ l \in S /\ r \in S /\ m \in S /\ q \in S /\ c \in S \cup {0} /\ p \in S \cup {0}
      /\ t.parent[l] = key /\ t.parent[r] = key /\ l # r /\ l # key /\ r # key /\ l # m /\ m # key
      /\ c # key /\ c # l /\ c # r /\ c # m
      /\ p # key /\ p # m /\ q # m /\ q # p /\ (q = key <=> m = r) /\ OnlyChild(t, m, c, q)
      /\ m # r => t.left[q] = m
      /\ \A k \in S : t.parent[k] = key => k = l \/ k = r
  BY FamilyIs
<1>2. /\ p # 0 => t[side][p] = key
      /\ \A k \in S, s \in Sides : t[s][k] = key => k = p /\ s = side
      /\ side \in Sides
  <2>1. t.parent[key] = p
    BY DEF Family
  <2>2. QED
    BY <1>0, <2>1, ParentOf, SideIs
<1>3. /\ \A k \in S, s \in Sides : t[s][k] = m => k = q /\ s = RB!SideOf(t, m, q)
      /\ t[RB!SideOf(t, m, q)][q] = m
  BY <1>0, <1>1, OnlyChildIs
<1>c. t["right"][m] = c
  BY <1>0, <1>1, Fields DEF Family
<1>r. t.red[key] \in BOOLEAN
  BY <1>0, Fields
<1>g. /\ up = RB!Replace(t, p, key, m) /\ pl = RB!Placed(up, m, l, p, t.red[key])
      /\ mv = (IF m = r THEN pl ELSE RB!Freed(pl, m, r, c, q)) /\ u = RB!Attach(mv, c, e)
  BY DEF Up, PlacedTree, MovedTree
<1>h. e = IF q = key THEN m ELSE q
  BY <1>1
<1> HIDE DEF up, pl, mv, e, u
<1>4. Replaced(t, up, p, key, m)
  BY <1>0, <1>1, <1>g, ReplaceIs
<1>5. /\ up \in RB!Tree /\ up.parent = t.parent /\ up.red = t.red /\ up.root = IF p = 0 THEN m ELSE t.root
      /\ \A s \in Sides, x \in RB!Keys : up[s][x] = IF x = p /\ s = side THEN m ELSE t[s][x]
  BY <1>4 DEF Replaced
<1> HIDE DEF side
<1>6. /\ pl \in RB!Tree /\ pl.root = up.root /\ pl.right = up.right
      /\ \A k \in RB!Keys : pl.left[k] = IF k = m THEN l ELSE up.left[k]
      /\ \A k \in RB!Keys : pl.parent[k] = IF k = m THEN p ELSE IF k = l THEN m ELSE up.parent[k]
      /\ \A k \in RB!Keys : pl.red[k] = IF k = m THEN t.red[key] ELSE up.red[k]
  <2>1. l \in RB!Keys /\ m \in RB!Keys /\ p \in RB!Nodes /\ key \in RB!Keys
    BY <1>0, <1>1
  <2>2. up \in RB!Tree
    BY <1>5
  <2>3. IsPlaced(up, RB!Placed(up, m, l, p, t.red[key]), l, m, p, t.red[key])
    BY <1>r, <2>1, <2>2, PlacedIs
  <2>4. IsPlaced(up, pl, l, m, p, t.red[key])
    BY <1>g, <2>3
  <2>5. QED
    BY <2>4 DEF IsPlaced
<1>7. /\ mv \in RB!Tree /\ mv.root = up.root
      /\ \A k \in RB!Keys : mv.left[k] = IF m # r /\ k = q THEN c ELSE pl.left[k]
      /\ \A k \in RB!Keys : mv.right[k] = IF m # r /\ k = m THEN r ELSE pl.right[k]
      /\ \A k \in RB!Keys : mv.parent[k] = IF m # r /\ k = r THEN m ELSE pl.parent[k]
      /\ mv.red = pl.red
  <2>1. CASE m = r
    BY <1>6, <1>g, <2>1
  <2>2. CASE m # r
    <3>1. r \in RB!Keys /\ m \in RB!Keys /\ c \in RB!Nodes /\ q \in RB!Keys
      BY <1>0, <1>1
    <3>2. IsFreed(pl, RB!Freed(pl, m, r, c, q), r, m, c, q)
      <4>1. pl \in RB!Tree
        BY <1>6
      <4>2. QED
        BY <3>1, <4>1, FreedIs
    <3>3. mv = RB!Freed(pl, m, r, c, q)
      BY <1>g, <2>2
    <3>4. IsFreed(pl, mv, r, m, c, q)
      BY <3>2, <3>3
    <3>5. pl.root = up.root
      BY <1>6
    <3>6. \A k \in RB!Keys : mv.left[k] = IF m # r /\ k = q THEN c ELSE pl.left[k]
      BY <2>2, <3>4 DEF IsFreed
    <3>7. \A k \in RB!Keys : mv.right[k] = IF m # r /\ k = m THEN r ELSE pl.right[k]
      BY <2>2, <3>4 DEF IsFreed
    <3>8. \A k \in RB!Keys : mv.parent[k] = IF m # r /\ k = r THEN m ELSE pl.parent[k]
      BY <2>2, <3>4 DEF IsFreed
    <3>9. mv \in RB!Tree /\ mv.root = up.root /\ mv.red = pl.red
      BY <3>4, <3>5 DEF IsFreed
    <3>10. QED
      BY <3>6, <3>7, <3>8, <3>9
  <2>3. QED
    BY <2>1, <2>2
<1>8. Attached(mv, u, c, e)
  <2>1. c \in RB!Nodes /\ e \in RB!Nodes
    BY <1>0, <1>1, <1>h
  <2>2. QED
    BY <1>7, <1>g, <2>1, AttachIs
<1>9. /\ u \in RB!Tree /\ u.root = mv.root /\ u.left = mv.left /\ u.right = mv.right /\ u.red = mv.red
      /\ \A x \in RB!Keys : u.parent[x] = IF x = c THEN e ELSE mv.parent[x]
  BY <1>8 DEF Attached
<1>10. /\ \A k \in S : u["left"][k] = u.left[k] /\ u["right"][k] = u.right[k]
       /\ \A k \in S : t["left"][k] = t.left[k] /\ t["right"][k] = t.right[k]
       /\ \A k \in S : up["left"][k] = up.left[k] /\ up["right"][k] = up.right[k]
  <2>1. \A k \in RB!Keys : u["left"][k] = u.left[k] /\ u["right"][k] = u.right[k]
    BY <1>9, Fields
  <2>2. \A k \in RB!Keys : t["left"][k] = t.left[k] /\ t["right"][k] = t.right[k]
    BY <1>0, Fields
  <2>3. \A k \in RB!Keys : up["left"][k] = up.left[k] /\ up["right"][k] = up.right[k]
    BY <1>5, Fields
  <2>4. QED
    BY <1>0, <2>1, <2>2, <2>3
<1>11. /\ \A k \in S : u["left"][k] = IF m # r /\ k = q THEN c ELSE IF k = m THEN l ELSE up["left"][k]
       /\ \A k \in S : u["right"][k] = IF m # r /\ k = m THEN r ELSE up["right"][k]
  BY <1>0, <1>6, <1>7, <1>9, <1>10
<1>12. "left" \in Sides /\ "right" \in Sides /\ \A s \in Sides : s = "left" \/ s = "right"
  BY DEF Sides
<1>13. \A k \in S, s \in Sides : up[s][k] = IF t[s][k] = key THEN m ELSE t[s][k]
  <2> SUFFICES ASSUME NEW k \in S, NEW s \in Sides PROVE up[s][k] = IF t[s][k] = key THEN m ELSE t[s][k]
    OBVIOUS
  <2>1. up[s][k] = IF k = p /\ s = side THEN m ELSE t[s][k]
    BY <1>0, <1>5
  <2>2. k = p /\ s = side <=> t[s][k] = key
    BY <1>0, <1>2
  <2>3. QED
    BY <2>1, <2>2
<1>14. m # r => RB!SideOf(t, m, q) = "left" /\ t["left"][q] = m
  BY <1>1, <1>10 DEF RB!SideOf
<1>15. ASSUME NEW k \in S \ {m, key}, NEW s \in Sides
       PROVE  u[s][k] = IF t[s][k] = key THEN m ELSE IF t[s][k] = m THEN c ELSE t[s][k]
  <2>1. up[s][k] = IF t[s][k] = key THEN m ELSE t[s][k]
    BY <1>13
  <2>2. CASE s = "right"
    <3>1. u[s][k] = up[s][k]
      BY <1>11, <2>2
    <3>2. t[s][k] # m
      <4>1. ASSUME t[s][k] = m PROVE FALSE
        <5>1. k = q /\ s = RB!SideOf(t, m, q)
          BY <1>3, <4>1
        <5>2. m # r
          BY <1>1, <5>1
        <5>3. QED
          BY <1>14, <2>2, <5>1, <5>2
      <4>2. QED
        BY <4>1
    <3>3. QED
      BY <2>1, <3>1, <3>2
  <2>3. CASE s = "left"
    <3>1. u[s][k] = IF m # r /\ k = q THEN c ELSE up[s][k]
      BY <1>11, <2>3
    <3>2. m # r /\ k = q <=> t[s][k] = m
      <4>1. ASSUME t[s][k] = m PROVE m # r /\ k = q
        BY <1>1, <1>3, <4>1
      <4>2. QED
        BY <1>14, <2>3, <4>1
    <3>3. QED
      BY <1>1, <2>1, <3>1, <3>2
  <2>4. QED
    BY <1>12, <2>2, <2>3
<1>16. u["left"][m] = l /\ u["right"][m] = IF m = r THEN c ELSE r
  <2>1. u["left"][m] = l
    BY <1>1, <1>11
  <2>2. up["right"][m] = t["right"][m]
    <3>1. t["right"][m] # key
      BY <1>1, <1>c
    <3>2. QED
      BY <1>1, <1>12, <1>13, <3>1
  <2>3. QED
    BY <1>1, <1>11, <1>c, <2>2
<1>17. ASSUME NEW k \in S \ {key}
       PROVE  u.parent[k] = IF k = c THEN (IF q = key THEN m ELSE q)
                            ELSE IF k = m THEN p ELSE IF t.parent[k] = key THEN m ELSE t.parent[k]
  <2>1. k \in RB!Keys
    BY <1>0
  <2>2. u.parent[k] = IF k = c THEN e ELSE mv.parent[k]
    BY <1>9, <2>1
  <2>3. mv.parent[k] = IF m # r /\ k = r THEN m ELSE IF k = m THEN p ELSE IF k = l THEN m ELSE t.parent[k]
    BY <1>5, <1>6, <1>7, <2>1
  <2>4. t.parent[k] = key <=> k = l \/ k = r
    BY <1>1
  <2>5. QED
    BY <1>1, <1>h, <2>2, <2>3, <2>4
<1>18. ASSUME NEW k \in S \ {key} PROVE u.red[k] = IF k = m THEN t.red[key] ELSE t.red[k]
  <2>1. k \in RB!Keys
    BY <1>0
  <2>2. u.red[k] = pl.red[k] /\ up.red[k] = t.red[k]
    BY <1>5, <1>7, <1>9
  <2>3. pl.red[k] = IF k = m THEN t.red[key] ELSE up.red[k]
    BY <1>6, <2>1
  <2>4. QED
    BY <2>2, <2>3
<1>19. u.root = IF p = 0 THEN m ELSE t.root
  BY <1>5, <1>7, <1>9
<1>20. Replacing(t, u, S, key, l, r, m, c, q, p)
  BY <1>9, <1>15, <1>16, <1>17, <1>18, <1>19 DEF Replacing
<1>21. QED
  BY <1>20 DEF u, e, mv

(* The successor is on the right side of every key where the removed key was. *)
LEMMA FitsIs ==
  ASSUME TreeUsed, NEW t, NEW S, NEW D, NEW key, NEW l, NEW r, NEW m, NEW c, NEW q, NEW p,
         Family(t, S, D, key, l, r, m, c, q, p), NEW v, SplicedOut(t, v, S, m, c, q)
  PROVE  Fits(v, S \ {m}, Without(D, m), key, m)
<1> DEFINE T == S \ {m}
           E == Without(D, m)
<1>0. /\ Shape(t, S, D) /\ key \in S /\ 0 \notin S /\ S \subseteq Int /\ S \subseteq RB!Nodes /\ 0 \in RB!Nodes
      /\ t["left"][key] = l /\ t["right"][key] = r /\ D[0] = {}
      /\ "left" \in Sides /\ "right" \in Sides /\ \A s \in Sides : s = "left" \/ s = "right"
      /\ \A x \in RB!Nodes : D[x] \in SUBSET S /\ (x \notin S => D[x] = {})
  <2>1. Shape(t, S, D) /\ key \in S /\ t.left[key] = l /\ t.right[key] = r
    BY DEF Family
  <2>2. /\ 0 \notin S /\ S \subseteq Int /\ S \subseteq RB!Nodes /\ t \in RB!Tree /\ S \subseteq RB!Keys /\ 0 \in RB!Nodes
        /\ D[0] = {} /\ \A x \in RB!Nodes : D[x] \in SUBSET S /\ (x \notin S => D[x] = {})
    BY <2>1, ShapeKeys
  <2>3. QED
    BY <2>1, <2>2, Fields DEF Sides
<1>1. /\ l \in S /\ r \in S /\ m \in S /\ c \in S \cup {0} /\ l # m /\ m # key /\ OnlyChild(t, m, c, q)
      /\ \A y \in D[r] : y = m \/ m < y
      /\ m \in D[r] /\ m \in D[key]
      /\ \A y \in D[r] : key < y /\ y \in S
  BY FamilyIs
<1>2. D[m] = {m} \cup D[c]
  BY <1>0, <1>1, OnlyChildIs
<1>3. \A x \in S : \A y \in D[x] : D[y] \subseteq D[x]
  BY <1>0 DEF Shape, Nested
<1>4. D[c] \subseteq D[r]
  BY <1>1, <1>2, <1>3
<1>5. \A k \in T, s \in Sides : v[s][k] = IF t[s][k] = m THEN c ELSE t[s][k]
  BY DEF SplicedOut
<1>6. \A y \in RB!Nodes : y # m => E[y] = D[y] \ {m}
  BY DEF Without
<1>7. c # m
  BY <1>0, <1>1, OnlyChildIs
<1>8. E[c] = D[c] \ {m}
  BY <1>0, <1>1, <1>6, <1>7
<1>9. \A k \in S, s \in Sides : t[s][k] \in S \cup {0} /\ \A x \in D[t[s][k]] : Below(s, x, k)
  BY <1>0, ChildIs
<1> HIDE DEF E
<1>10. ASSUME NEW s \in Sides, NEW x \in E[v[s][key]] PROVE Below(s, x, m)
  <2>1. CASE s = "left"
    <3>1. t["left"][key] # m
      BY <1>0, <1>1
    <3>2. v["left"][key] = l
      BY <1>0, <1>1, <1>5, <3>1
    <3>3. x \in D[l]
      BY <1>0, <1>1, <1>6, <2>1, <3>2
    <3>4. Below("left", x, key)
      BY <1>0, <1>9, <3>3
    <3>5. x < key /\ key < m /\ x \in Int /\ key \in Int /\ m \in Int
      BY <1>0, <1>1, <3>3, <3>4 DEF Below
    <3>6. x < m
      BY <3>5
    <3>7. QED
      BY <2>1, <3>6 DEF Below
  <2>2. CASE s = "right"
    <3>1. v["right"][key] = IF r = m THEN c ELSE r
      BY <1>0, <1>1, <1>5
    <3>2. x \in D[r] /\ x # m
      BY <1>0, <1>1, <1>4, <1>6, <1>8, <2>2, <3>1
    <3>3. m < x
      BY <1>1, <3>2
    <3>4. QED
      BY <2>2, <3>3 DEF Below
  <2>3. QED
    BY <1>0, <2>1, <2>2
<1>11. ASSUME NEW k \in T, NEW s \in Sides, key \in E[v[s][k]] PROVE Below(s, m, k)
  <2>1. v[s][k] = IF t[s][k] = m THEN c ELSE t[s][k]
    BY <1>5
  <2>2. t[s][k] # m
    <3>1. ASSUME t[s][k] = m PROVE FALSE
      <4>1. key \in D[c]
        BY <1>8, <1>11, <2>1, <3>1
      <4>2. key < key /\ key \in Int
        BY <1>0, <1>1, <1>4, <4>1
      <4>3. QED
        BY <4>2
    <3>2. QED
      BY <3>1
  <2>3. t[s][k] \in S \cup {0} /\ v[s][k] = t[s][k]
    BY <1>9, <2>1, <2>2
  <2>4. key \in D[t[s][k]]
    BY <1>0, <1>6, <1>11, <2>2, <2>3
  <2>5. t[s][k] \in S
    BY <1>0, <2>3, <2>4
  <2>6. m \in D[t[s][k]]
    BY <1>1, <1>3, <2>4, <2>5
  <2>7. QED
    BY <1>9, <2>6
<1>12. QED
  BY <1>10, <1>11 DEF Fits, E

(* The tree of tree_del is the one without m, with m in the place of key. *)
LEMMA RenamedIs ==
  ASSUME TreeUsed, NEW t, NEW S, NEW D, NEW key, NEW l, NEW r, NEW m, NEW c, NEW q, NEW p,
         Family(t, S, D, key, l, r, m, c, q, p), NEW v, SplicedOut(t, v, S, m, c, q),
         NEW w, Replacing(t, w, S, key, l, r, m, c, q, p)
  PROVE  Renamed(v, w, S \ {m}, key, m)
<1> DEFINE T == S \ {m}
<1>0. /\ Shape(t, S, D) /\ key \in S /\ 0 \notin S
      /\ t["left"][key] = l /\ t["right"][key] = r
      /\ "left" \in Sides /\ "right" \in Sides /\ \A s \in Sides : s = "left" \/ s = "right"
  <2>1. Shape(t, S, D) /\ key \in S /\ t.left[key] = l /\ t.right[key] = r
    BY DEF Family
  <2>2. 0 \notin S /\ t \in RB!Tree /\ S \subseteq RB!Keys
    BY <2>1, ShapeKeys
  <2>3. QED
    BY <2>1, <2>2, Fields DEF Sides
<1>p. t.parent[key] = p
  BY DEF Family
<1>1. /\ l \in S /\ r \in S /\ m \in S /\ q \in S /\ c \in S \cup {0}
      /\ l # key /\ r # key /\ l # m /\ m # key /\ c # key /\ c # m
      /\ p # key /\ p # m /\ q # m /\ OnlyChild(t, m, c, q)
      /\ m # t.root /\ (p = 0 <=> key = t.root)
  BY FamilyIs
<1>2. \A k \in S : t.parent[k] = m => k = c
  BY <1>0, <1>1, OnlyChildIs
<1>3. /\ v.root = IF q = 0 THEN c ELSE t.root
      /\ \A k \in T, s \in Sides : v[s][k] = IF t[s][k] = m THEN c ELSE t[s][k]
      /\ \A k \in T : v.parent[k] = IF k = c THEN q ELSE t.parent[k]
      /\ \A k \in T : v.red[k] = t.red[k]
  BY DEF SplicedOut
<1>4. /\ w \in RB!Tree /\ w.root = IF p = 0 THEN m ELSE t.root
      /\ \A k \in S \ {m, key}, s \in Sides :
            w[s][k] = IF t[s][k] = key THEN m ELSE IF t[s][k] = m THEN c ELSE t[s][k]
      /\ w["left"][m] = l /\ w["right"][m] = IF m = r THEN c ELSE r
      /\ \A k \in S \ {key} :
            w.parent[k] = IF k = c THEN (IF q = key THEN m ELSE q)
                          ELSE IF k = m THEN p ELSE IF t.parent[k] = key THEN m ELSE t.parent[k]
      /\ \A k \in S \ {key} : w.red[k] = IF k = m THEN t.red[key] ELSE t.red[k]
  BY DEF Replacing
<1>5. \A k \in T : k # key => k \in S \ {m, key} /\ k \in S \ {key} /\ Swap(key, m, k) = k
  BY DEF Swap
<1>6. /\ Swap(key, m, key) = m /\ Swap(key, m, c) = c /\ Swap(key, m, l) = l
      /\ Swap(key, m, p) = p /\ Swap(key, m, q) = IF q = key THEN m ELSE q
      /\ r # m => Swap(key, m, r) = r
  BY <1>1 DEF Swap
<1>7. w.root = Swap(key, m, v.root)
  <2>1. v.root = t.root
    BY <1>0, <1>1, <1>3
  <2>2. QED
    BY <1>1, <1>4, <2>1 DEF Swap
<1>8. ASSUME NEW k \in T, NEW s \in Sides PROVE w[s][Swap(key, m, k)] = Swap(key, m, v[s][k])
  <2>1. CASE k = key /\ s = "left"
    <3>1. v["left"][key] = l
      BY <1>0, <1>1, <1>3, <2>1
    <3>2. QED
      BY <1>4, <1>6, <2>1, <3>1
  <2>2. CASE k = key /\ s = "right"
    <3>1. v["right"][key] = IF r = m THEN c ELSE r
      BY <1>0, <1>1, <1>3, <2>2
    <3>2. w["right"][m] = Swap(key, m, v["right"][key])
      BY <1>4, <1>6, <3>1
    <3>3. QED
      BY <1>6, <2>2, <3>2
  <2>3. CASE k # key
    <3>1. w[s][k] = IF t[s][k] = key THEN m ELSE IF t[s][k] = m THEN c ELSE t[s][k]
      BY <1>4, <1>5, <2>3
    <3>2. v[s][k] = IF t[s][k] = m THEN c ELSE t[s][k]
      BY <1>3
    <3>3. Swap(key, m, v[s][k]) = IF t[s][k] = key THEN m ELSE IF t[s][k] = m THEN c ELSE t[s][k]
      BY <1>1, <3>2 DEF Swap
    <3>4. QED
      BY <1>5, <2>3, <3>1, <3>3
  <2>4. QED
    BY <1>0, <2>1, <2>2, <2>3
<1>9. ASSUME NEW k \in T PROVE w.parent[Swap(key, m, k)] = Swap(key, m, v.parent[k])
  <2>1. CASE k = key
    <3>1. v.parent[key] = p
      BY <1>0, <1>1, <1>3, <1>p, <2>1
    <3>2. w.parent[m] = p
      BY <1>1, <1>4
    <3>3. QED
      BY <1>6, <2>1, <3>1, <3>2
  <2>2. CASE k # key
    <3>1. w.parent[k] = IF k = c THEN (IF q = key THEN m ELSE q)
                        ELSE IF t.parent[k] = key THEN m ELSE t.parent[k]
      BY <1>4, <1>5, <2>2
    <3>2. v.parent[k] = IF k = c THEN q ELSE t.parent[k]
      BY <1>3
    <3>3. k = c \/ t.parent[k] # m
      BY <1>2
    <3>4. Swap(key, m, v.parent[k]) = IF k = c THEN (IF q = key THEN m ELSE q)
                                      ELSE IF t.parent[k] = key THEN m ELSE t.parent[k]
      BY <1>6, <3>2, <3>3 DEF Swap
    <3>5. QED
      BY <1>5, <2>2, <3>1, <3>4
  <2>3. QED
    BY <2>1, <2>2
<1>10. ASSUME NEW k \in T PROVE w.red[Swap(key, m, k)] = v.red[k]
  <2>1. CASE k = key
    <3>1. w.red[m] = t.red[key]
      BY <1>1, <1>4
    <3>2. QED
      BY <1>3, <1>6, <2>1, <3>1
  <2>2. CASE k # key
    <3>1. w.red[k] = t.red[k]
      BY <1>4, <1>5, <2>2
    <3>2. QED
      BY <1>3, <1>5, <2>2, <3>1
  <2>3. QED
    BY <2>1, <2>2
<1>11. QED
  BY <1>4, <1>7, <1>8, <1>9, <1>10 DEF Renamed

(* With two children: splice the successor out, rename it. *)
LEMMA TwoChildren ==
  ASSUME TreeUsed, NEW t, NEW S, NEW D, NEW h, Good(t, S, D, h),
         NEW key, NEW l, NEW r, NEW m, NEW c, NEW q, NEW p, Family(t, S, D, key, l, r, m, c, q, p)
  PROVE  \E E, H, side : Spliced(RB!Unlink(t, key).tree, S \ {key}, E, H, RB!Unlink(t, key).child,
                                 RB!Unlink(t, key).parent, side, RB!Unlink(t, key).red)
<1> DEFINE u == RB!Unlink(t, key)
           v == RB!Attach(RB!Replace(t, q, m, c), c, q)
           w == RB!Attach(MovedTree(t, key, l, r, m, c, q, p), c, IF m = r THEN m ELSE q)
           e == IF m = r THEN m ELSE q
           red == t.red[m]
           side == RB!SideOf(t, m, q)
           E == NewBelow(Without(D, m), key, m)
           H == NewHeights(h, key, m)
<1>0. Shape(t, S, D) /\ key \in S /\ S \subseteq RB!Keys
  <2>1. Shape(t, S, D) /\ key \in S
    BY DEF Family
  <2>2. QED
    BY <2>1, ShapeKeys
<1>1. m \in S /\ m # key /\ c # key /\ c # m /\ q # m /\ (q = key <=> m = r) /\ OnlyChild(t, m, c, q)
  BY FamilyIs
<1>2. SplicedOut(t, v, S, m, c, q)
  BY <1>0, <1>1, SpliceMade
<1>3. Replacing(t, w, S, key, l, r, m, c, q, p)
  BY ReplacingIs
<1>4. u.tree = w /\ u.child = c /\ u.parent = e /\ u.red = red
  BY UnlinkTwo
<1> HIDE DEF u, v, w
<1>5. Spliced(v, S \ {m}, Without(D, m), h, c, q, side, red)
  BY <1>1, <1>2, SpliceIs
<1>6. Fits(v, S \ {m}, Without(D, m), key, m)
  BY <1>2, FitsIs
<1>7. Renamed(v, w, S \ {m}, key, m)
  BY <1>2, <1>3, RenamedIs
<1> HIDE DEF side, red
<1>8. Spliced(w, NewKeys(S \ {m}, key, m), E, H, Swap(key, m, c), Swap(key, m, q), side, red)
  <2>1. key \in S \ {m} /\ m \in RB!Keys \ (S \ {m})
    BY <1>0, <1>1
  <2>2. QED
    BY <1>5, <1>6, <1>7, <2>1, RenameIs
<1>9. NewKeys(S \ {m}, key, m) = S \ {key}
  BY <1>1 DEF NewKeys
<1>10. Swap(key, m, c) = c /\ Swap(key, m, q) = e
  BY <1>1 DEF Swap
<1> HIDE DEF e, E, H
<1>11. Spliced(u.tree, S \ {key}, E, H, u.child, u.parent, side, u.red)
  BY <1>4, <1>8, <1>9, <1>10
<1>12. QED
  BY <1>11 DEF u

LEMMA UnlinkOne ==
  ASSUME NEW t, NEW key, t.left[key] = 0 \/ t.right[key] = 0
  PROVE  LET c == IF t.left[key] = 0 THEN t.right[key] ELSE t.left[key]
             p == t.parent[key]
         IN  RB!Unlink(t, key) = [tree |-> RB!Attach(RB!Replace(t, p, key, c), c, p),
                                  child |-> c, parent |-> p, red |-> t.red[key]]
<1>1. CASE t.left[key] = 0
  BY <1>1 DEF RB!Unlink
<1>2. CASE t.left[key] # 0 /\ t.right[key] = 0
  BY <1>2 DEF RB!Unlink
<1>3. QED
  BY <1>1, <1>2

(* With at most one: splice the key itself out. *)
LEMMA OneChild ==
  ASSUME TreeUsed, NEW t, NEW S, NEW D, NEW h, Good(t, S, D, h), NEW key \in S,
         t.left[key] = 0 \/ t.right[key] = 0
  PROVE  \E E, H, side : Spliced(RB!Unlink(t, key).tree, S \ {key}, E, H, RB!Unlink(t, key).child,
                                 RB!Unlink(t, key).parent, side, RB!Unlink(t, key).red)
<1> DEFINE u == RB!Unlink(t, key)
           c == IF t.left[key] = 0 THEN t.right[key] ELSE t.left[key]
           p == t.parent[key]
           v == RB!Attach(RB!Replace(t, p, key, c), c, p)
           red == t.red[key]
           side == RB!SideOf(t, key, p)
           E == Without(D, key)
<1>0. Shape(t, S, D) /\ t["left"][key] = t.left[key] /\ t["right"][key] = t.right[key]
  <2>1. Shape(t, S, D)
    BY DEF Good
  <2>2. t \in RB!Tree /\ S \subseteq RB!Keys
    BY <2>1, ShapeKeys
  <2>3. QED
    BY <2>1, <2>2, Fields
<1>1. OnlyChild(t, key, c, p)
  <2>1. \E x \in Sides : t[x][key] = c /\ t[RB!Other(x)][key] = 0
    BY <1>0 DEF Sides, RB!Other
  <2>2. QED
    BY <2>1 DEF OnlyChild
<1>2. u.tree = v /\ u.child = c /\ u.parent = p /\ u.red = red
  BY UnlinkOne
<1> HIDE DEF u, c, p
<1>3. SplicedOut(t, v, S, key, c, p)
  BY <1>0, <1>1, SpliceMade
<1> HIDE DEF v
<1>4. Spliced(v, S \ {key}, E, h, c, p, side, red)
  BY <1>1, <1>3, SpliceIs
<1> HIDE DEF E, side, red
<1>5. Spliced(u.tree, S \ {key}, E, h, u.child, u.parent, side, u.red)
  BY <1>2, <1>4
<1>6. QED
  BY <1>5 DEF u

(* Either way what is left is a tree of the other keys with at most one flaw. *)
LEMMA UnlinkIs ==
  ASSUME TreeUsed, NEW t, NEW S, NEW D, NEW h, Good(t, S, D, h), NEW key \in S
  PROVE  \E E, H, side : Spliced(RB!Unlink(t, key).tree, S \ {key}, E, H, RB!Unlink(t, key).child,
                                 RB!Unlink(t, key).parent, side, RB!Unlink(t, key).red)
<1>1. CASE t.left[key] = 0 \/ t.right[key] = 0
  BY <1>1, OneChild
<1>2. CASE t.left[key] # 0 /\ t.right[key] # 0
  <2> DEFINE l == t.left[key]
             r == t.right[key]
             m == RB!Leftmost(t, r)
             c == t.right[m]
             q == t.parent[m]
             p == t.parent[key]
  <2>1. Family(t, S, D, key, l, r, m, c, q, p)
    BY <1>2 DEF Family, Good
  <2> HIDE DEF l, r, m, c, q, p
  <2>2. QED
    BY <2>1, TwoChildren
<1>3. QED
  BY <1>1, <1>2

LEMMA UnlinkColour ==
  ASSUME TreeUsed, NEW t, NEW S, NEW D, Shape(t, S, D), NEW key \in S
  PROVE  RB!Unlink(t, key).red \in BOOLEAN
<1>0. t \in RB!Tree /\ S \in SUBSET RB!Keys
  BY ShapeKeys
<1>1. CASE t.left[key] = 0 \/ t.right[key] = 0
  <2>1. RB!Unlink(t, key).red = t.red[key]
    BY <1>1, UnlinkOne
  <2>2. QED
    BY <1>0, <2>1, RedIs
<1>2. CASE t.left[key] # 0 /\ t.right[key] # 0
  <2> DEFINE l == t.left[key]
             r == t.right[key]
             m == RB!Leftmost(t, r)
             c == t.right[m]
             q == t.parent[m]
             p == t.parent[key]
  <2>1. Family(t, S, D, key, l, r, m, c, q, p)
    BY <1>2 DEF Family
  <2> HIDE DEF l, r, m, c, q, p
  <2>2. m \in S
    BY <2>1, FamilyIs
  <2>3. RB!Unlink(t, key).red = t.red[m]
    BY <2>1, UnlinkTwo
  <2>4. QED
    BY <1>0, <2>2, <2>3, RedIs
<1>3. QED
  BY <1>1, <1>2

LEMMA ClearIs ==
  ASSUME TreeUsed, NEW t \in RB!Tree, NEW key \in RB!Keys
  PROVE  /\ RB!Clear(t, key) \in RB!Tree /\ RB!Clear(t, key).root = t.root
         /\ \A k \in RB!Keys : k # key => /\ RB!Clear(t, key).parent[k] = t.parent[k]
                                        /\ RB!Clear(t, key).red[k] = t.red[k]
                                        /\ RB!Clear(t, key).left[k] = t.left[k]
                                        /\ RB!Clear(t, key).right[k] = t.right[k]
<1> DEFINE u == RB!Clear(t, key)
<1>1. 0 \in RB!Nodes
  BY NodesAre
<1>2. u \in RB!Tree /\ u.root = t.root
  BY <1>1 DEF RB!Clear, RB!Tree
<1>3. \A k \in RB!Keys : k # key => /\ u.parent[k] = t.parent[k] /\ u.red[k] = t.red[k]
                                   /\ u.left[k] = t.left[k] /\ u.right[k] = t.right[k]
  BY DEF RB!Clear, RB!Tree
<1>4. QED
  BY <1>2, <1>3

(* The fields of a node that is not in the tree do not matter. *)
LEMMA ClearKeeps ==
  ASSUME TreeUsed, NEW t, NEW S, NEW D, NEW h, Good(t, S, D, h), NEW key \in RB!Keys \ S
  PROVE  Good(RB!Clear(t, key), S, D, h)
<1> DEFINE u == RB!Clear(t, key)
<1>1. Shape(t, S, D) /\ Heights(t, S, h, 0, "left") /\ NoRedRed(t, S, 0) /\ ~RB!IsRed(t, t.root)
  BY DEF Good
<1>0. t \in RB!Tree /\ S \subseteq RB!Keys /\ t.root \in S \cup {0} /\ 0 \notin S
  BY <1>1, ShapeKeys
<1>2. /\ u \in RB!Tree /\ u.root = t.root
      /\ \A k \in S : /\ u.parent[k] = t.parent[k] /\ u.red[k] = t.red[k]
                      /\ u.left[k] = t.left[k] /\ u.right[k] = t.right[k]
  BY <1>0, ClearIs
<1> HIDE DEF u
<1>3. \A k \in S, s \in Sides : u[s][k] = t[s][k]
  <2>1. \A k \in S : /\ u["left"][k] = u.left[k] /\ u["right"][k] = u.right[k]
                    /\ t["left"][k] = t.left[k] /\ t["right"][k] = t.right[k]
    BY <1>0, <1>2, Fields
  <2>2. QED
    BY <1>2, <2>1 DEF Sides
<1>4. Shape(u, S, D)
  BY <1>1, <1>2, <1>3, SameShape
<1>5. \A k \in S : Black(u, k) = Black(t, k)
  BY <1>2 DEF Black
<1>6. Heights(u, S, h, 0, "left")
  BY <1>1, <1>3, <1>5 DEF Heights
<1>7. \A k \in S \cup {0} : RB!IsRed(u, k) <=> RB!IsRed(t, k)
  BY <1>0, <1>2 DEF RB!IsRed
<1>8. NoRedRed(u, S, 0)
  <2>1. \A k \in S, s \in Sides : t[s][k] \in S \cup {0}
    BY <1>1, ChildIs
  <2>2. QED
    BY <1>1, <1>2, <1>3, <1>7, <2>1 DEF NoRedRed
<1>9. ~RB!IsRed(u, u.root)
  BY <1>0, <1>1, <1>2, <1>7
<1>10. Good(u, S, D, h)
  BY <1>4, <1>6, <1>8, <1>9 DEF Good
<1>11. QED
  BY <1>10 DEF u

(* tree_del as a whole. *)
LEMMA DelKeeps ==
  ASSUME TreeUsed, NEW D, NEW h, Good(tree, added, D, h), NEW key \in RB!Keys, RB!Del(key)
  PROVE  \E E, H : Good(tree', added', E, H)
<1> DEFINE u == RB!Unlink(tree, key)
           w == Repaired(u.tree, u.child, u.parent, u.red)
           S == added \ {key}
<1>1. RB!Find(tree, key) # 0 /\ tree' = RB!Clear(w, key) /\ added' = S
  BY DEF RB!Del, Repaired
<1>2. Shape(tree, added, D)
  BY DEF Good
<1>3. key \in added
  BY <1>1, <1>2, FindIs
<1>4. PICK E, H, side : Spliced(u.tree, S, E, H, u.child, u.parent, side, u.red)
  BY <1>3, UnlinkIs
<1>5. u.red \in BOOLEAN
  BY <1>2, <1>3, UnlinkColour
<1> HIDE DEF u
<1>6. PICK F, G : Good(w, S, F, G)
  BY <1>4, <1>5, RepairedIs
<1> HIDE DEF w
<1>7. key \in RB!Keys \ S
  OBVIOUS
<1>8. Good(RB!Clear(w, key), S, F, G)
  BY <1>6, <1>7, ClearKeeps
<1>9. QED
  BY <1>1, <1>8

-----------------------------------------------------------------------------
(* All the paths down from the root have as many black nodes as its height says. *)
LEMMA HeightsAreEqual ==
  ASSUME TreeUsed, NEW t, NEW S, NEW D, NEW h, Good(t, S, D, h)
  PROVE  RB!BlackHeights(t, t.root) = {h[t.root]}
<1> DEFINE all == [RB!Nodes -> SUBSET Nat]
           Up1(heights, k) == {x + (IF t.red[k] THEN 0 ELSE 1) : x \in heights[t.left[k]] \cup heights[t.right[k]]}
           step == [heights \in all |-> [k \in RB!Nodes |-> IF k = 0 THEN {0} ELSE Up1(heights, k)]]
           start == [k \in RB!Nodes |-> IF k = 0 THEN {0} ELSE {}]
<1>g. Shape(t, S, D) /\ Heights(t, S, h, 0, "left")
  BY DEF Good
<1>0. /\ t \in RB!Tree /\ S \subseteq RB!Keys /\ S \subseteq RB!Nodes /\ 0 \notin S /\ 0 \in RB!Nodes
      /\ t.root \in S \cup {0} /\ RB!Nodes = RB!Keys \cup {0} /\ 0 \notin RB!Keys
      /\ \A x \in RB!Nodes : D[x] \in SUBSET S
  BY <1>g, ShapeKeys, NodesAre
<1>1. RB!BlackHeights(t, t.root) = RB!Walk(step, start)[t.root]
  BY DEF RB!BlackHeights
<1>2. start \in all /\ start[0] = {0}
  BY <1>0
<1>3. \A k \in RB!Keys : t.left[k] \in RB!Nodes /\ t.right[k] \in RB!Nodes /\ t.red[k] \in BOOLEAN
  BY <1>0 DEF RB!Tree
<1>4. ASSUME NEW f \in all
      PROVE  /\ step[f] \in all /\ step[f][0] = {0}
             /\ \A k \in RB!Keys : step[f][k] = Up1(f, k)
  <2>1. \A k \in RB!Keys : Up1(f, k) \in SUBSET Nat
    <3> SUFFICES ASSUME NEW k \in RB!Keys PROVE Up1(f, k) \in SUBSET Nat
      OBVIOUS
    <3>1. f[t.left[k]] \cup f[t.right[k]] \subseteq Nat
      BY <1>3
    <3>2. \A x \in Nat : x + (IF t.red[k] THEN 0 ELSE 1) \in Nat
      OBVIOUS
    <3>3. QED
      BY <3>1, <3>2
  <2> HIDE DEF Up1
  <2>2. QED
    BY <1>0, <2>1
<1> HIDE DEF step, start, Up1
<1>5. PICK at : /\ at[0] = start
                /\ \A n \in 0..(MaxKey - 1) : at[n + 1] = step[at[n]]
                /\ RB!Walk(step, start) = at[MaxKey]
  BY WalkIs
<1>6. \A k \in S : /\ t.left[k] \in S \cup {0} /\ t.right[k] \in S \cup {0}
                  /\ Cardinality(D[k]) \in 0..MaxKey /\ Cardinality(D[k]) > 0
                  /\ (t.left[k] # 0 => Cardinality(D[t.left[k]]) < Cardinality(D[k]))
                  /\ (t.right[k] # 0 => Cardinality(D[t.right[k]]) < Cardinality(D[k]))
                  /\ h[k] = h[t.left[k]] + Black(t, k) /\ h[k] = h[t.right[k]] + Black(t, k)
  <2> SUFFICES ASSUME NEW k \in S
               PROVE  /\ t.left[k] \in S \cup {0} /\ t.right[k] \in S \cup {0}
                      /\ Cardinality(D[k]) \in 0..MaxKey /\ Cardinality(D[k]) > 0
                      /\ (t.left[k] # 0 => Cardinality(D[t.left[k]]) < Cardinality(D[k]))
                      /\ (t.right[k] # 0 => Cardinality(D[t.right[k]]) < Cardinality(D[k]))
                      /\ h[k] = h[t.left[k]] + Black(t, k) /\ h[k] = h[t.right[k]] + Black(t, k)
    OBVIOUS
  <2>1. ASSUME NEW s \in Sides
        PROVE  /\ t[s][k] \in S \cup {0} /\ k \in D[k]
               /\ Cardinality(D[t[s][k]]) < Cardinality(D[k])
               /\ h[k] = h[t[s][k]] + Black(t, k)
    <3>1. t[s][k] \in S \cup {0} /\ k \in D[k] /\ D[t[s][k]] \subseteq D[k] /\ D[t[s][k]] # D[k]
      BY <1>g, ChildIs
    <3>2. D[t[s][k]] \in SUBSET RB!Keys /\ D[k] \in SUBSET RB!Keys
      BY <1>0, <3>1
    <3>3. Cardinality(D[t[s][k]]) < Cardinality(D[k])
      BY <3>1, <3>2, Smaller
    <3>4. h[k] = h[t[s][k]] + Black(t, k)
      BY <1>0, <1>g, HeightOf
    <3>5. QED
      BY <3>1, <3>3, <3>4
  <2>2. /\ t["left"][k] = t.left[k] /\ t["right"][k] = t.right[k]
        /\ "left" \in Sides /\ "right" \in Sides
    BY <1>0, Fields DEF Sides
  <2>3. Cardinality(D[k]) \in 0..MaxKey /\ Cardinality({}) \in 0..MaxKey /\ Cardinality({}) < Cardinality(D[k])
    <3>1. D[k] \in SUBSET RB!Keys /\ D[k] # {} /\ {} \in SUBSET RB!Keys
      BY <1>0, <2>1, <2>2
    <3>2. QED
      BY <3>1, Smaller
  <2>4. QED
    BY <2>1, <2>2, <2>3
<1>7. h[0] = 0 /\ \A k \in S : h[k] \in Nat
  BY <1>0, <1>g DEF Heights
<1> DEFINE R == {n \in 0..MaxKey : /\ at[n] \in all /\ at[n][0] = {0}
                                  /\ \A k \in S : (Cardinality(D[k]) <= n => at[n][k] = {h[k]})}
<1>8. 0 \in R
  <2>1. \A k \in S : ~(Cardinality(D[k]) <= 0)
    BY <1>6
  <2>2. 0 \in 0..MaxKey
    BY DEF TreeUsed
  <2>3. QED
    BY <1>2, <1>5, <2>1, <2>2
<1>9. ASSUME NEW n \in 0..(MaxKey - 1), n \in R PROVE n + 1 \in R
  <2>1. at[n] \in all /\ at[n + 1] = step[at[n]]
    BY <1>5, <1>9
  <2>2. at[n + 1] \in all /\ at[n + 1][0] = {0} /\ \A k \in S : at[n + 1][k] = Up1(at[n], k)
    BY <1>0, <1>4, <2>1
  <2>3. ASSUME NEW k \in S, Cardinality(D[k]) <= n + 1 PROVE at[n + 1][k] = {h[k]}
    <3>1. at[n][t.left[k]] = {h[t.left[k]]}
      BY <1>6, <1>7, <1>9, <2>3
    <3>2. at[n][t.right[k]] = {h[t.right[k]]}
      BY <1>6, <1>7, <1>9, <2>3
    <3>3. Up1(at[n], k) = {h[t.left[k]] + Black(t, k), h[t.right[k]] + Black(t, k)}
      BY <3>1, <3>2 DEF Black, Up1
    <3>4. QED
      BY <1>6, <2>2, <3>3
  <2>4. n + 1 \in 0..MaxKey
    BY DEF TreeUsed
  <2>5. QED
    BY <2>2, <2>3, <2>4
<1> HIDE DEF R
<1>10. MaxKey \in R
  BY <1>8, <1>9, UpTo DEF TreeUsed
<1>11. at[MaxKey][t.root] = {h[t.root]}
  <2>1. at[MaxKey][0] = {0} /\ \A k \in S : Cardinality(D[k]) <= MaxKey => at[MaxKey][k] = {h[k]}
    BY <1>10 DEF R
  <2>2. QED
    BY <1>0, <1>6, <1>7, <2>1 DEF TreeUsed
<1>12. QED
  BY <1>1, <1>5, <1>11

LEMMA GoodIsCorrect ==
  ASSUME TreeUsed, NEW D, NEW h, Good(tree, added, D, h)
  PROVE  RB!TypeOK /\ RB!TreeCorrect
<1>1. Shape(tree, added, D) /\ NoRedRed(tree, added, 0) /\ ~RB!IsRed(tree, tree.root)
  BY DEF Good
<1>0. tree \in RB!Tree /\ added \subseteq RB!Keys /\ 0 \notin added /\ 0 \notin RB!Keys
  BY <1>1, ShapeKeys, NodesAre
<1>s. /\ "left" \in Sides /\ "right" \in Sides
      /\ \A k \in added : tree["left"][k] = tree.left[k] /\ tree["right"][k] = tree.right[k]
  BY <1>0, Fields DEF Sides
<1>2. \A key \in RB!Keys : RB!Find(tree, key) # 0 <=> key \in added
  <2>1. \A key \in RB!Keys : RB!Find(tree, key) = IF key \in added THEN key ELSE 0
    BY <1>1, FindIs
  <2>2. QED
    BY <1>0, <2>1
<1>3. ASSUME NEW key \in added
      PROVE  IF tree.parent[key] = 0 THEN tree.root = key
             ELSE key \in {tree.left[tree.parent[key]], tree.right[tree.parent[key]]}
  <2> DEFINE p == tree.parent[key]
             s == RB!SideOf(tree, key, p)
  <2>1. p = 0 <=> key = tree.root
    BY <1>1, ParentOf
  <2>2. p # 0 => p \in added /\ tree[s][p] = key
    BY <1>1, ParentOf
  <2>3. s \in Sides
    BY SideIs
  <2> HIDE DEF p, s
  <2>4. p # 0 => key \in {tree.left[p], tree.right[p]}
    BY <1>s, <2>2, <2>3 DEF Sides
  <2>5. IF p = 0 THEN tree.root = key ELSE key \in {tree.left[p], tree.right[p]}
    BY <2>1, <2>4
  <2>6. QED
    BY <2>5 DEF p
<1>4. ASSUME NEW key \in added, tree.red[key]
      PROVE  ~RB!IsRed(tree, tree.left[key]) /\ ~RB!IsRed(tree, tree.right[key])
  <2>1. \A s \in Sides : ~RB!IsRed(tree, tree[s][key])
    <3> SUFFICES ASSUME NEW s \in Sides, RB!IsRed(tree, tree[s][key]) PROVE FALSE
      OBVIOUS
    <3>1. tree[s][key] = 0
      BY <1>1, <1>4 DEF NoRedRed
    <3>2. QED
      BY <3>1 DEF RB!IsRed
  <2>2. QED
    BY <1>s, <2>1
<1>5. Cardinality(RB!BlackHeights(tree, tree.root)) = 1
  <2>1. RB!BlackHeights(tree, tree.root) = {h[tree.root]}
    BY HeightsAreEqual
  <2>2. \A x : Cardinality({x}) = 1
    BY FS_Singleton
  <2>3. QED
    BY <2>1, <2>2
<1>6. RB!FindsWhatWasAdded
  BY <1>2, <1>3 DEF RB!FindsWhatWasAdded
<1>7. RB!Balanced
  <2>1. \A key \in added :
           tree.red[key] => ~RB!IsRed(tree, tree.left[key]) /\ ~RB!IsRed(tree, tree.right[key])
    BY <1>4
  <2>2. QED
    BY <1>1, <1>5, <2>1 DEF RB!Balanced, RB!Cardinality, Cardinality
<1>8. RB!TypeOK
  BY <1>0 DEF RB!TypeOK
<1>9. QED
  BY <1>6, <1>7, <1>8 DEF RB!TreeCorrect

(* The inductive invariant: the tree is one of the added keys, ordered and   *)
(* linked, for some D that says what is below each node, and good, for some  *)
(* h that says the black nodes below it.                                     *)
TreeKept == \E D, h : Good(tree, added, D, h)

(* The empty tree is a tree. *)
LEMMA EmptyTree ==
  ASSUME TreeUsed, RB!Init
  PROVE  TreeKept
<1> DEFINE D == [x \in RB!Nodes |-> {}]
           h == [x \in RB!Nodes |-> 0]
<1>1. /\ tree \in RB!Tree /\ tree.root = 0 /\ added = {} /\ 0 \in RB!Nodes
  BY NodesAre DEF RB!Init, RB!Tree
<1>2. Shape(tree, added, D)
  BY <1>1 DEF Shape, Whole, Ordered, Linked, Rooted, Nested
<1>3. Heights(tree, added, h, 0, "left") /\ NoRedRed(tree, added, 0)
  BY <1>1 DEF Heights, NoRedRed
<1>4. ~RB!IsRed(tree, tree.root)
  BY <1>1 DEF RB!IsRed
<1> HIDE DEF D, h
<1>5. Good(tree, added, D, h)
  BY <1>2, <1>3, <1>4 DEF Good
<1>6. QED
  BY <1>5 DEF TreeKept

(* Whatever keys are added and deleted, in whatever order and however many, *)
(* tree_find finds those that are in the tree and no others, every node     *)
(* knows its parent, no red node has a red child and all the paths down     *)
(* have as many black nodes: TREE__ROTATE and the two rebalancing loops lose *)
(* no node.                                                                 *)
THEOREM TreeIsCorrect ==
  ASSUME TreeUsed
  PROVE  RB!Spec => [](RB!TypeOK /\ RB!TreeCorrect)
<1>1. RB!Init => TreeKept
  BY EmptyTree
<1>2. TreeKept /\ [RB!Next]_(RB!vars) => TreeKept'
  <2> SUFFICES ASSUME TreeKept, [RB!Next]_(RB!vars) PROVE TreeKept'
    OBVIOUS
  <2>1. PICK D, h : Good(tree, added, D, h)
    BY DEF TreeKept
  <2>2. ASSUME NEW key \in RB!Keys, RB!Add(key) PROVE TreeKept'
    BY <2>1, <2>2, AddKeeps DEF TreeKept
  <2>3. ASSUME NEW key \in RB!Keys, RB!Del(key) PROVE TreeKept'
    BY <2>1, <2>3, DelKeeps DEF TreeKept
  <2>4. CASE UNCHANGED RB!vars
    <3>1. tree' = tree /\ added' = added
      BY <2>4 DEF RB!vars
    <3>2. Good(tree', added', D, h)
      BY <2>1, <3>1
    <3>3. QED
      BY <3>2 DEF TreeKept
  <2>5. QED
    BY <2>2, <2>3, <2>4 DEF RB!Next
<1>3. TreeKept => RB!TypeOK /\ RB!TreeCorrect
  BY GoodIsCorrect DEF TreeKept
<1>4. QED
  BY <1>1, <1>2, <1>3, PTL DEF RB!Spec
=============================================================================
