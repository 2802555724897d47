-------------------------- MODULE ResourcePoolProofs --------------------------
(***************************************************************************)
(* Theorems about src/Util/ResourcePool.h, for any threads, objects, sizes *)
(* and numbers of copies; and about the buffers of src/Network/Buffer.h,   *)
(* which lie in such a pool.                                               *)
(***************************************************************************)
EXTENDS ResourcePool, SequenceTheorems, TLAPS

Elements(s) == {s[i] : i \in DOMAIN s}

Injective(s) == \A i, j \in DOMAIN s : s[i] = s[j] => i = j

LEMMA PopLast ==
  ASSUME NEW s \in Seq(Objects), s # <<>>, Injective(s)
  PROVE  LET front == SubSeq(s, 1, Len(s) - 1)
         IN  /\ front \in Seq(Objects)
             /\ Len(front) = Len(s) - 1
             /\ Injective(front)
             /\ s[Len(s)] \in Objects
             /\ s[Len(s)] \in Elements(s)
             /\ Elements(front) = Elements(s) \ {s[Len(s)]}
<1> DEFINE front == SubSeq(s, 1, Len(s) - 1)
<1>1. Len(s) \in Nat \ {0} /\ DOMAIN s = 1..Len(s)
  OBVIOUS
<1>2. /\ front \in Seq(Objects)
      /\ Len(front) = Len(s) - 1
      /\ DOMAIN front = 1..(Len(s) - 1)
      /\ \A i \in 1..(Len(s) - 1) : front[i] = s[i]
  BY <1>1, SubSeqProperties
<1>3. Injective(front)
  BY <1>1, <1>2 DEF Injective
<1>4. s[Len(s)] \in Objects /\ s[Len(s)] \in Elements(s)
  BY <1>1 DEF Elements
<1>5. Elements(front) \subseteq Elements(s) \ {s[Len(s)]}
  BY <1>1, <1>2 DEF Elements, Injective
<1>6. Elements(s) \ {s[Len(s)]} \subseteq Elements(front)
  <2>1. SUFFICES ASSUME NEW i \in 1..Len(s), s[i] # s[Len(s)]
                 PROVE  s[i] \in Elements(front)
    BY <1>1 DEF Elements
  <2>2. i \in 1..(Len(s) - 1)
    BY <1>1, <2>1
  <2>3. QED
    BY <1>2, <2>2 DEF Elements
<1>7. QED
  BY <1>2, <1>3, <1>4, <1>5, <1>6

LEMMA PushOne ==
  ASSUME NEW s \in Seq(Objects), NEW o \in Objects, Injective(s), o \notin Elements(s)
  PROVE  /\ Append(s, o) \in Seq(Objects)
         /\ Injective(Append(s, o))
         /\ Elements(Append(s, o)) = Elements(s) \cup {o}
<1> DEFINE more == Append(s, o)
<1>1. Len(s) \in Nat /\ DOMAIN s = 1..Len(s)
  OBVIOUS
<1>2. /\ more \in Seq(Objects)
      /\ DOMAIN more = 1..(Len(s) + 1)
      /\ \A i \in 1..Len(s) : more[i] = s[i]
      /\ more[Len(s) + 1] = o
  BY <1>1, AppendProperties
<1>3. Injective(more)
  <2>1. SUFFICES ASSUME NEW i \in 1..(Len(s) + 1), NEW j \in 1..(Len(s) + 1),
                        more[i] = more[j]
                 PROVE  i = j
    BY <1>2 DEF Injective
  <2>2. CASE i = Len(s) + 1 /\ j \in 1..Len(s)
    BY <1>1, <1>2, <2>1, <2>2 DEF Elements
  <2>3. CASE j = Len(s) + 1 /\ i \in 1..Len(s)
    BY <1>1, <1>2, <2>1, <2>3 DEF Elements
  <2>4. CASE i \in 1..Len(s) /\ j \in 1..Len(s)
    BY <1>1, <1>2, <2>1, <2>4 DEF Injective
  <2>5. QED
    BY <1>1, <2>2, <2>3, <2>4
<1>4. Elements(more) = Elements(s) \cup {o}
  BY <1>1, <1>2 DEF Elements
<1>5. QED
  BY <1>2, <1>3, <1>4

-----------------------------------------------------------------------------
(* The flag is a lock, and what a thread has in hand is known.              *)
Lock ==
    /\ \A t \in Threads : pc[t] \in Inside => busy_
    /\ \A t, u \in Threads : pc[t] \in Inside /\ pc[u] \in Inside => t = u
    /\ \A t \in Threads :
          /\ pc[t] = "pop" => free_list_ # <<>> /\ obj[t] = {free_list_[Len(free_list_)]}
          /\ pc[t] = "push" => Len(free_list_) < pool_size_
          /\ pc[t] \in Disposing => \E o \in Objects : obj[t] = {o}

(* Who uses the pool keeps it.                                              *)
Kept ==
    \A t \in Threads :
        /\ pc[t] \in {"obtain", "get", "pop", "alloc"} => Owner \in strong
        /\ pc[t] \in {"recycle", "put", "push"} => t \in strong

(* SingleOwner, object by object.                                           *)
Owned ==
    /\ Injective(free_list_)
    /\ \A o \in Elements(free_list_) : refs[o] = 0
    /\ \A t \in Threads : \A o \in Hand(t) : o \notin Elements(free_list_) /\ refs[o] = 0
    /\ \A t, u \in Threads : \A o \in Hand(t) \cap Hand(u) : t = u
    /\ \A o \in Objects :
          o \in live <=> \/ o \in Elements(free_list_)
                         \/ refs[o] > 0
                         \/ \E t \in Threads : o \in Hand(t)

Inv == TypeOK /\ Lock /\ Kept /\ Owned

LEMMA OwnedIsSingleOwner == TypeOK /\ Owned => SingleOwner
<1> SUFFICES ASSUME TypeOK, Owned
             PROVE  SingleOwner
  OBVIOUS
<1>1. Pooled = Elements(free_list_) /\ Pooled \subseteq Objects
  BY DEF Pooled, Elements, TypeOK
<1>2. \A t \in Threads : Hand(t) \subseteq Objects
  BY DEF Hand, TypeOK
<1>3. \A o \in Objects : o \in Held <=> refs[o] > 0
  BY DEF Held
<1>4. /\ \A i, j \in DOMAIN free_list_ : free_list_[i] = free_list_[j] => i = j
      /\ Pooled \cap Held = {}
  BY <1>1, <1>3 DEF Owned, Injective, Held
<1>5. ASSUME NEW t \in Threads
      PROVE  /\ Hand(t) \cap (Pooled \cup Held) = {}
             /\ \A u \in Threads \ {t} : Hand(t) \cap Hand(u) = {}
  BY <1>1, <1>2, <1>3 DEF Owned
<1>6. live = Pooled \cup Held \cup UNION {Hand(t) : t \in Threads}
  <2>1. \A o \in UNION {Hand(t) : t \in Threads} : \E t \in Threads : o \in Hand(t)
    OBVIOUS
  <2>2. \A t \in Threads : Hand(t) \subseteq UNION {Hand(u) : u \in Threads}
    OBVIOUS
  <2> DEFINE hands == UNION {Hand(t) : t \in Threads}
  <2>3. hands \subseteq Objects
    BY <1>2, <2>1
  <2>4. live \subseteq Objects /\ Held \subseteq Objects
    BY DEF TypeOK, Held
  <2> HIDE DEF hands
  <2>5. \A o \in Objects : o \in hands <=> \E t \in Threads : o \in Hand(t)
    BY <2>1, <2>2 DEF hands
  <2>6. live = Pooled \cup Held \cup hands
    BY <1>1, <1>3, <2>3, <2>4, <2>5 DEF Owned
  <2>7. QED
    BY <2>6 DEF hands
<1>7. QED
  BY <1>4, <1>5, <1>6 DEF SingleOwner

LEMMA InitInv == Init => Inv
<1> SUFFICES ASSUME Init
             PROVE  Inv
  OBVIOUS
<1>1. TypeOK
  <2>1. MaxRefs \in Nat /\ 0 \in 0..MaxRefs /\ <<>> \in Seq(Objects)
    BY ResourcePoolAssumption
  <2>2. refs \in [Objects -> 0..MaxRefs]
    BY <2>1 DEF Init
  <2>3. pc \in [Threads -> {"idle"}] /\ obj \in [Threads -> SUBSET Objects]
    BY DEF Init
  <2>4. QED
    BY <2>1, <2>2, <2>3 DEF Init, TypeOK
<1>2. Lock /\ Kept
  BY DEF Init, Lock, Kept, Inside, Disposing
<1>3. Owned
  BY DEF Init, Owned, Injective, Elements, Hand, Disposing
<1>4. QED
  BY <1>1, <1>2, <1>3 DEF Inv

-----------------------------------------------------------------------------
(* The steps.  Each lemma is about those that change the same things.       *)

(* Steps that only look at the flag, or enter the pool. *)
LEMMA EnterStep ==
  ASSUME Inv, NEW t \in Threads,
         Obtain(t) \/ TryGet(t) \/ AllocThrows(t) \/ TryPut(t) \/ HasRoom(t)
  PROVE  Inv'
<1> USE DEF Inside, Disposing
<1>1. TypeOK'
  BY DEF Inv, TypeOK, Goto, Obtain, TryGet, AllocThrows, TryPut, HasRoom
<1>2. Lock'
  <2>1. CASE Obtain(t) \/ AllocThrows(t)
    BY <2>1 DEF Inv, TypeOK, Lock, Goto, Obtain, AllocThrows
  <2>2. CASE TryGet(t)
    BY <2>2 DEF Inv, TypeOK, Lock, Goto, TryGet
  <2>3. CASE TryPut(t)
    BY <2>3 DEF Inv, TypeOK, Lock, Goto, TryPut
  <2>4. CASE HasRoom(t)
    BY <2>4 DEF Inv, TypeOK, Lock, Goto, HasRoom
  <2>5. QED
    BY <2>1, <2>2, <2>3, <2>4
<1>3. Kept'
  BY DEF Inv, TypeOK, Kept, Goto, Obtain, TryGet, AllocThrows, TryPut, HasRoom
<1>4. Owned'
  <2>1. UNCHANGED <<free_list_, refs, live>> /\ \A u \in Threads : Hand(u)' = Hand(u)
    BY DEF Inv, TypeOK, Hand, Goto, Obtain, TryGet, AllocThrows, TryPut, HasRoom
  <2>2. QED
    BY <2>1 DEF Inv, Owned
<1>5. QED
  BY <1>1, <1>2, <1>3, <1>4 DEF Inv

(* An object is taken from the list. *)
LEMMA TakeStep ==
  ASSUME Inv, NEW t \in Threads, NEW o \in Objects,
         GetBack(t) \/ PopBack(t, o)
  PROVE  Inv'
<1> USE DEF Inside, Disposing
<1> DEFINE last == free_list_[Len(free_list_)]
<1>1. /\ free_list_ \in Seq(Objects) /\ free_list_ # <<>>
      /\ Injective(free_list_)
  BY DEF Inv, TypeOK, Lock, Owned, GetBack, PopBack
<1>2. last \in Objects /\ last \in Elements(free_list_)
  BY <1>1, PopLast
<1>3. CASE GetBack(t)
  <2> HIDE DEF last
  <2>0. obj' = [obj EXCEPT ![t] = {last}]
    BY <1>3 DEF GetBack, InHand, last
  <2>1. TypeOK'
    BY <1>2, <1>3, <2>0 DEF Inv, TypeOK, Goto, GetBack
  <2>2. Lock'
    <3>1. last' = last
      BY <1>3 DEF GetBack, last
    <3>2. obj'[t] = {free_list_'[Len(free_list_')]} /\ free_list_' # <<>>
      BY <1>1, <1>3, <2>0 DEF Inv, TypeOK, GetBack, last
    <3>3. QED
      BY <1>3, <2>0, <3>2 DEF Inv, TypeOK, Lock, Goto, GetBack
  <2>3. Kept'
    BY <1>3 DEF Inv, TypeOK, Kept, Goto, GetBack
  <2>4. UNCHANGED <<free_list_, refs, live>> /\ \A u \in Threads : Hand(u)' = Hand(u)
    BY <1>3, <2>0 DEF Inv, TypeOK, Hand, Goto, GetBack
  <2>5. QED
    BY <2>1, <2>2, <2>3, <2>4 DEF Inv, Owned
<1>4. CASE PopBack(t, o)
  <2>1. o = last
    BY <1>4 DEF Inv, Lock, PopBack
  <2>2. /\ free_list_' \in Seq(Objects)
        /\ Injective(free_list_')
        /\ Elements(free_list_') = Elements(free_list_) \ {o}
    BY <1>1, <1>4, <2>1, PopLast DEF PopBack
  <2> HIDE DEF last
  <2>3. /\ pc[t] = "pop" /\ busy_' = FALSE
        /\ pc' = [pc EXCEPT ![t] = "idle"]
        /\ obj' = [obj EXCEPT ![t] = {}]
        /\ refs' = [refs EXCEPT ![o] = 1]
        /\ quit' = [quit EXCEPT ![o] = FALSE]
        /\ UNCHANGED <<pool_size_, strong, live>>
    BY <1>4 DEF PopBack, Wrap, Goto, InHand
  <2>4. TypeOK'
    <3>1. 1 \in 0..MaxRefs
      BY ResourcePoolAssumption
    <3>2. QED
      BY <2>2, <2>3, <3>1 DEF Inv, TypeOK
  <2>5. Lock'
    BY <2>3 DEF Inv, TypeOK, Lock
  <2>6. Kept'
    BY <2>3 DEF Inv, TypeOK, Kept
  <2>7. Owned'
    <3>1. \A u \in Threads : Hand(u)' = Hand(u)
      BY <2>3 DEF Inv, TypeOK, Hand
    <3>2. o \in Elements(free_list_) /\ \A u \in Threads : o \notin Hand(u)
      BY <1>2, <2>1 DEF Inv, Owned
    <3>3. refs'[o] = 1 /\ \A p \in Objects \ {o} : refs'[p] = refs[p]
      BY <2>3 DEF Inv, TypeOK
    <3>4. Elements(free_list_) \subseteq Objects /\ \A u \in Threads : Hand(u) \subseteq Objects
      BY DEF Inv, TypeOK, Elements, Hand
    <3> HIDE DEF Disposing
    <3>5. QED
      BY <2>2, <2>3, <3>1, <3>2, <3>3, <3>4 DEF Inv, Owned
  <2>8. QED
    BY <2>4, <2>5, <2>6, <2>7 DEF Inv
<1>5. QED
  BY <1>3, <1>4

(* A new object gets a handle. *)
LEMMA AllocStep ==
  ASSUME Inv, NEW t \in Threads, NEW o \in Objects, Alloc(t, o)
  PROVE  Inv'
<1> USE DEF Inside, Disposing
<1>1. /\ pc[t] \in {"get", "alloc"}
      /\ \/ pc[t] = "get" /\ busy_' = FALSE
         \/ pc[t] = "alloc" /\ busy_' = busy_
      /\ o \notin live /\ live' = live \cup {o}
      /\ pc' = [pc EXCEPT ![t] = "idle"]
      /\ refs' = [refs EXCEPT ![o] = 1]
      /\ quit' = [quit EXCEPT ![o] = FALSE]
      /\ UNCHANGED <<obj, free_list_, pool_size_, strong>>
  BY DEF Alloc, Wrap, Goto
<1>2. TypeOK'
  <2>1. 1 \in 0..MaxRefs
    BY ResourcePoolAssumption
  <2>2. QED
    BY <1>1, <2>1 DEF Inv, TypeOK
<1>3. Lock'
  BY <1>1 DEF Inv, TypeOK, Lock
<1>4. Kept'
  BY <1>1 DEF Inv, TypeOK, Kept
<1>5. Owned'
  <2>1. \A u \in Threads : Hand(u)' = Hand(u)
    BY <1>1 DEF Inv, TypeOK, Hand
  <2>2. o \notin Elements(free_list_) /\ \A u \in Threads : o \notin Hand(u)
    BY <1>1 DEF Inv, Owned
  <2>3. refs'[o] = 1 /\ \A p \in Objects \ {o} : refs'[p] = refs[p]
    BY <1>1 DEF Inv, TypeOK
  <2>4. Elements(free_list_) \subseteq Objects /\ \A u \in Threads : Hand(u) \subseteq Objects
    BY DEF Inv, TypeOK, Elements, Hand
  <2> HIDE DEF Disposing
  <2>5. QED
    BY <1>1, <2>1, <2>2, <2>3, <2>4 DEF Inv, Owned
<1>6. QED
  BY <1>2, <1>3, <1>4, <1>5 DEF Inv

(* Handles are copied, and asked to quit. *)
LEMMA HandleStep ==
  ASSUME Inv, NEW o \in Objects,
         Copy(o) \/ \E flag \in BOOLEAN : SetQuit(o, flag)
  PROVE  Inv'
<1>1. CASE Copy(o)
  <2>1. /\ refs[o] \in 1..(MaxRefs - 1) /\ refs' = [refs EXCEPT ![o] = refs[o] + 1]
        /\ UNCHANGED <<pc, obj, busy_, free_list_, pool_size_, strong, quit, live>>
    BY <1>1 DEF Copy
  <2>2. refs[o] + 1 \in 0..MaxRefs /\ refs[o] > 0 /\ refs[o] + 1 > 0
    BY <2>1, ResourcePoolAssumption
  <2>3. TypeOK' /\ Lock' /\ Kept'
    BY <2>1, <2>2 DEF Inv, TypeOK, Lock, Kept
  <2>4. \A u \in Threads : Hand(u)' = Hand(u)
    BY <2>1 DEF Hand
  <2>5. refs'[o] > 0 /\ \A p \in Objects \ {o} : refs'[p] = refs[p]
    BY <2>1, <2>2 DEF Inv, TypeOK
  <2>6. Elements(free_list_) \subseteq Objects /\ \A u \in Threads : Hand(u) \subseteq Objects
    BY DEF Inv, TypeOK, Elements, Hand
  <2>7. Owned'
    BY <2>1, <2>2, <2>4, <2>5, <2>6 DEF Inv, Owned
  <2>8. QED
    BY <2>3, <2>7 DEF Inv
<1>2. ASSUME NEW flag \in BOOLEAN, SetQuit(o, flag)
      PROVE  Inv'
  BY <1>2 DEF SetQuit, Inv, TypeOK, Lock, Kept, Owned, Hand
<1>3. QED
  BY <1>1, <1>2

(* A handle goes. *)
LEMMA DropStep ==
  ASSUME Inv, NEW t \in Threads, NEW o \in Objects, Drop(t, o)
  PROVE  Inv'
<1> USE DEF Inside, Disposing
<1>1. /\ pc[t] = "idle" /\ refs[o] > 0
      /\ refs' = [refs EXCEPT ![o] = refs[o] - 1]
      /\ UNCHANGED <<busy_, free_list_, pool_size_, strong, quit, live>>
  BY DEF Drop
<1>2. refs[o] \in 1..MaxRefs /\ refs[o] - 1 \in 0..MaxRefs
  <2>1. refs[o] \in 0..MaxRefs /\ MaxRefs \in Nat
    BY ResourcePoolAssumption DEF Inv, TypeOK
  <2>2. QED
    BY <1>1, <2>1
<1>3. /\ o \notin Elements(free_list_) /\ o \in live
      /\ \A u \in Threads : o \notin Hand(u)
  BY <1>1 DEF Inv, Owned
<1>4. \A p \in Objects \ {o} : refs'[p] = refs[p]
  BY <1>1 DEF Inv, TypeOK
<1>5. Elements(free_list_) \subseteq Objects /\ \A u \in Threads : Hand(u) \subseteq Objects
  BY DEF Inv, TypeOK, Elements, Hand
<1>6. CASE refs[o] = 1
  <2>1. pc' = [pc EXCEPT ![t] = "deleter"] /\ obj' = [obj EXCEPT ![t] = {o}]
    BY <1>6 DEF Drop, Goto, InHand
  <2>2. TypeOK' /\ Lock' /\ Kept'
    BY <1>1, <1>2, <2>1 DEF Inv, TypeOK, Lock, Kept
  <2>3. /\ Hand(t)' = {o} /\ Hand(t) = {}
        /\ \A u \in Threads \ {t} : Hand(u)' = Hand(u)
    BY <1>1, <2>1 DEF Inv, TypeOK, Hand
  <2>4. refs'[o] = 0
    BY <1>1, <1>6 DEF Inv, TypeOK
  <2> HIDE DEF Disposing
  <2>5. Owned'
    BY <1>1, <1>3, <1>4, <1>5, <2>3, <2>4 DEF Inv, Owned
  <2>6. QED
    BY <2>2, <2>5 DEF Inv
<1>7. CASE refs[o] # 1
  <2>1. UNCHANGED <<pc, obj>>
    BY <1>7 DEF Drop
  <2>2. TypeOK' /\ Lock' /\ Kept'
    BY <1>1, <1>2, <2>1 DEF Inv, TypeOK, Lock, Kept
  <2>3. \A u \in Threads : Hand(u)' = Hand(u)
    BY <2>1 DEF Hand
  <2>4. refs'[o] > 0
    BY <1>1, <1>2, <1>7 DEF Inv, TypeOK
  <2>5. Owned'
    BY <1>1, <1>3, <1>4, <1>5, <2>3, <2>4 DEF Inv, Owned
  <2>6. QED
    BY <2>2, <2>5 DEF Inv
<1>8. QED
  BY <1>6, <1>7

(* The deleter takes hold of the pool. *)
LEMMA LockPoolStep ==
  ASSUME Inv, NEW t \in Threads, LockPool(t)
  PROVE  Inv'
<1> USE DEF Inside, Disposing
<1>1. PICK o \in obj[t] : Goto(t, IF strong # {} /\ ~quit[o] THEN "recycle" ELSE "delete")
  BY DEF LockPool
<1>2. /\ pc[t] = "deleter"
      /\ strong' = IF strong # {} THEN strong \cup {t} ELSE {}
      /\ UNCHANGED <<obj, busy_, free_list_, pool_size_, refs, quit, live>>
  BY DEF LockPool
<1>3. \/ pc' = [pc EXCEPT ![t] = "delete"]
      \/ pc' = [pc EXCEPT ![t] = "recycle"] /\ t \in strong'
  BY <1>1, <1>2 DEF Goto
<1>4. strong \subseteq strong' /\ strong' \subseteq Threads \cup {Owner}
  BY <1>2 DEF Inv, TypeOK
<1>5. TypeOK' /\ Lock'
  <2>1. TypeOK'
    BY <1>2, <1>3, <1>4 DEF Inv, TypeOK
  <2>2. Lock'
    BY <1>2, <1>3 DEF Inv, TypeOK, Lock
  <2>3. QED
    BY <2>1, <2>2
<1>6. Kept'
  BY <1>2, <1>3, <1>4 DEF Inv, TypeOK, Kept
<1>7. \A u \in Threads : Hand(u)' = Hand(u)
  BY <1>2, <1>3 DEF Inv, TypeOK, Hand
<1>8. Owned'
  BY <1>2, <1>7 DEF Inv, Owned
<1>9. QED
  BY <1>5, <1>6, <1>8 DEF Inv

(* A deleter disposes of its object. *)
LEMMA DisposeStep ==
  ASSUME Inv, NEW t \in Threads, NEW o \in Objects, Push(t, o) \/ Delete(t, o)
  PROVE  Inv'
<1> USE DEF Inside, Disposing
<1>1. /\ pc[t] \in {"put", "push", "delete"}
      /\ o \in obj[t]
      /\ pc' = [pc EXCEPT ![t] = "leave"]
      /\ obj' = [obj EXCEPT ![t] = {}]
      /\ pc[t] # "delete" => busy_' = FALSE
      /\ pc[t] = "delete" => busy_' = busy_
      /\ UNCHANGED <<pool_size_, strong, refs, quit>>
  BY DEF Push, Delete, Goto, InHand
<1>2. Hand(t) = {o} /\ Hand(t)' = {} /\ \A u \in Threads \ {t} : Hand(u)' = Hand(u)
  BY <1>1 DEF Inv, TypeOK, Lock, Hand
<1>3. /\ o \notin Elements(free_list_) /\ refs[o] = 0
      /\ \A u \in Threads \ {t} : o \notin Hand(u)
  BY <1>2 DEF Inv, Owned
<1>4. free_list_ \in Seq(Objects) /\ Injective(free_list_)
  BY DEF Inv, TypeOK, Owned
<1>5. Elements(free_list_) \subseteq Objects /\ \A u \in Threads : Hand(u) \subseteq Objects
  BY DEF Inv, TypeOK, Elements, Hand
<1>6. Kept'
  BY <1>1 DEF Inv, TypeOK, Kept
<1>7. CASE Push(t, o)
  <2>1. /\ free_list_' = Append(free_list_, o) /\ live' = live /\ busy_' = FALSE
        /\ pc[t] = "push"
    BY <1>7 DEF Push
  <2>2. /\ free_list_' \in Seq(Objects)
        /\ Injective(free_list_')
        /\ Elements(free_list_') = Elements(free_list_) \cup {o}
    BY <1>3, <1>4, <2>1, PushOne
  <2>3. TypeOK'
    BY <1>1, <2>1, <2>2 DEF Inv, TypeOK
  <2>4. Lock'
    BY <1>1, <2>1 DEF Inv, TypeOK, Lock
  <2> HIDE DEF Disposing
  <2>5. Owned'
    BY <1>1, <1>2, <1>3, <1>5, <2>1, <2>2 DEF Inv, Owned
  <2>6. QED
    BY <1>6, <2>3, <2>4, <2>5 DEF Inv
<1>8. CASE Delete(t, o)
  <2>1. free_list_' = free_list_ /\ live' = live \ {o}
    BY <1>8 DEF Delete
  <2>2. TypeOK'
    BY <1>1, <2>1 DEF Inv, TypeOK
  <2>3. Lock'
    BY <1>1, <2>1 DEF Inv, TypeOK, Lock
  <2> HIDE DEF Disposing
  <2>4. Owned'
    BY <1>1, <1>2, <1>3, <1>5, <2>1 DEF Inv, Owned
  <2>5. QED
    BY <1>6, <2>2, <2>3, <2>4 DEF Inv
<1>9. QED
  BY <1>7, <1>8

(* A deleter, or the owner, lets go of the pool. *)
LEMMA LetGoStep ==
  ASSUME Inv,
         Destroy \/ \E t \in Threads : Leave(t)
  PROVE  Inv'
<1> USE DEF Inside, Disposing
<1>1. PICK x \in Threads \cup {Owner} :
         /\ LetGo(x)
         /\ \/ x = Owner /\ pc' = pc /\ \A t \in Threads : pc[t] \notin {"obtain", "get", "pop", "alloc"}
            \/ x \in Threads /\ pc[x] = "leave" /\ pc' = [pc EXCEPT ![x] = "idle"]
         /\ UNCHANGED <<obj, busy_, pool_size_, refs, quit>>
  <2>1. CASE Destroy
    BY <2>1 DEF Destroy
  <2>2. ASSUME NEW t \in Threads, Leave(t)
        PROVE  LetGo(t) /\ pc[t] = "leave" /\ pc' = [pc EXCEPT ![t] = "idle"]
               /\ UNCHANGED <<obj, busy_, pool_size_, refs, quit>>
    BY <2>2 DEF Leave, Goto
  <2>3. QED
    BY <2>1, <2>2
<1>2. strong' = strong \ {x} /\ strong' \subseteq Threads \cup {Owner}
  BY <1>1 DEF LetGo, Inv, TypeOK
<1>3. Kept'
  BY <1>1, <1>2, ResourcePoolAssumption DEF Inv, TypeOK, Kept
<1>4. \A t \in Threads : Hand(t)' = Hand(t)
  BY <1>1 DEF Inv, TypeOK, Hand
<1>5. CASE x \in strong /\ strong' = {}
  <2>1. live' = live \ Pooled /\ free_list_' = <<>>
    BY <1>1, <1>5 DEF LetGo
  <2>2. Pooled = Elements(free_list_)
    BY DEF Pooled, Elements
  <2>3. /\ free_list_' \in Seq(Objects) /\ Injective(free_list_')
        /\ Elements(free_list_') = {}
    BY <2>1 DEF Injective, Elements
  <2>4. TypeOK'
    BY <1>1, <1>2, <2>1, <2>3 DEF Inv, TypeOK
  <2>5. \A t \in Threads : pc'[t] \notin Inside
    BY <1>5, <1>3 DEF Kept
  <2>6. Lock'
    BY <1>1, <2>5 DEF Inv, TypeOK, Lock
  <2> HIDE DEF Disposing
  <2>7. Owned'
    BY <1>1, <1>4, <2>1, <2>2, <2>3 DEF Inv, Owned
  <2>8. QED
    BY <1>3, <2>4, <2>6, <2>7 DEF Inv
<1>6. CASE ~(x \in strong /\ strong' = {})
  <2>1. UNCHANGED <<live, free_list_>>
    BY <1>1, <1>6 DEF LetGo
  <2>2. TypeOK'
    BY <1>1, <1>2, <2>1 DEF Inv, TypeOK
  <2>3. Lock'
    BY <1>1, <2>1 DEF Inv, TypeOK, Lock
  <2> HIDE DEF Disposing
  <2>4. Owned'
    BY <1>1, <1>4, <2>1 DEF Inv, Owned
  <2>5. QED
    BY <1>3, <2>2, <2>3, <2>4 DEF Inv
<1>7. QED
  BY <1>5, <1>6

LEMMA SetSizeStep ==
  ASSUME Inv, NEW n \in Sizes, SetSize(n)
  PROVE  Inv'
<1>1. TypeOK' /\ Kept' /\ Owned'
  BY DEF SetSize, Inv, TypeOK, Kept, Owned, Hand
<1>2. Lock'
  BY DEF SetSize, Inv, TypeOK, Lock, Inside
<1>3. QED
  BY <1>1, <1>2 DEF Inv

LEMMA NextInv == Inv /\ [Next]_vars => Inv'
<1> SUFFICES ASSUME Inv, [Next]_vars
             PROVE  Inv'
  OBVIOUS
<1>1. CASE UNCHANGED vars
  BY <1>1 DEF vars, Inv, TypeOK, Lock, Kept, Owned, Hand
<1>2. ASSUME NEW t \in Threads, Step(t)
      PROVE  Inv'
  <2>1. CASE TryGet(t) \/ AllocThrows(t) \/ TryPut(t) \/ HasRoom(t)
    BY <2>1, EnterStep
  <2>2. CASE GetBack(t) \/ \E o \in Objects : PopBack(t, o)
    <3>1. CASE GetBack(t)
      <4>1. free_list_[Len(free_list_)] \in Objects
        BY <3>1 DEF GetBack, Inv, TypeOK
      <4>2. QED
        BY <3>1, <4>1, TakeStep
    <3>2. QED
      BY <2>2, <3>1, TakeStep
  <2>3. CASE \E o \in Objects : Alloc(t, o)
    BY <2>3, AllocStep
  <2>4. CASE LockPool(t)
    BY <2>4, LockPoolStep
  <2>5. CASE \E o \in Objects : Push(t, o) \/ Delete(t, o)
    BY <2>5, DisposeStep
  <2>6. CASE Leave(t)
    BY <2>6, LetGoStep
  <2>7. QED
    BY <1>2, <2>1, <2>2, <2>3, <2>4, <2>5, <2>6 DEF Step
<1>3. ASSUME NEW t \in Threads, Obtain(t)
      PROVE  Inv'
  BY <1>3, EnterStep
<1>4. ASSUME NEW t \in Threads, NEW o \in Objects, Drop(t, o)
      PROVE  Inv'
  BY <1>4, DropStep
<1>5. ASSUME NEW o \in Objects, Copy(o) \/ \E flag \in BOOLEAN : SetQuit(o, flag)
      PROVE  Inv'
  BY <1>5, HandleStep
<1>6. ASSUME NEW n \in Sizes, SetSize(n)
      PROVE  Inv'
  BY <1>6, SetSizeStep
<1>7. CASE Destroy
  BY <1>7, LetGoStep
<1>8. QED
  BY <1>1, <1>2, <1>3, <1>4, <1>5, <1>6, <1>7 DEF Next

LEMMA Invariant == SafetySpec => []Inv
BY InitInv, NextInv, PTL DEF SafetySpec

-----------------------------------------------------------------------------
(* The state of the pool and of its users is well formed. *)
THEOREM TypeCorrect == SafetySpec => []TypeOK
<1>1. Inv => TypeOK
  BY DEF Inv
<1>2. QED
  BY <1>1, Invariant, PTL

(* getPtr, recycle, the deleters and the destructor hand out no object      *)
(* twice, keep none twice, delete none that is used, and leak none.         *)
THEOREM ObjectsHaveOneOwner == SafetySpec => []SingleOwner
<1>1. Inv => SingleOwner
  BY OwnedIsSingleOwner DEF Inv
<1>2. QED
  BY <1>1, Invariant, PTL

(* The destructor of the pool does not run while a thread is in getPtr or   *)
(* recycle.                                                                 *)
THEOREM PoolOutlivesItsUsers == SafetySpec => []PoolOutlivesUse
<1>1. Inv => PoolOutlivesUse
  BY DEF Inv, Kept, PoolOutlivesUse, Inside
<1>2. QED
  BY <1>1, Invariant, PTL

(* recycle does not put an object in a list that is full. *)
THEOREM ListStaysWithinSize == SafetySpec => SizeRespected
<1> DEFINE Within == Len(free_list_') > Len(free_list_) => Len(free_list_') <= pool_size_
<1>1. ASSUME Inv, [Next]_vars
      PROVE  [Within]_vars
  <2> SUFFICES ASSUME Len(free_list_') > Len(free_list_)
               PROVE  Len(free_list_') <= pool_size_
    OBVIOUS
  <2>0. free_list_ \in Seq(Objects) /\ Len(free_list_) \in Nat /\ pool_size_ \in Nat
    BY <1>1, ResourcePoolAssumption DEF Inv, TypeOK
  <2>1. CASE \E t \in Threads, o \in Objects : Push(t, o)
    <3>1. PICK t \in Threads, o \in Objects : Push(t, o)
      BY <2>1
    <3>2. Len(free_list_) < pool_size_ /\ Len(free_list_') = Len(free_list_) + 1
      BY <1>1, <2>0, <3>1 DEF Push, Inv, Lock
    <3>3. QED
      BY <2>0, <3>2
  <2>2. CASE \E t \in Threads, o \in Objects : PopBack(t, o)
    <3>1. PICK t \in Threads, o \in Objects : PopBack(t, o)
      BY <2>2
    <3>2. free_list_ # <<>> /\ free_list_' = SubSeq(free_list_, 1, Len(free_list_) - 1)
          /\ Injective(free_list_)
      BY <1>1, <3>1 DEF PopBack, Inv, Lock, Owned
    <3>3. Len(free_list_') = Len(free_list_) - 1
      BY <2>0, <3>2, PopLast
    <3>4. QED
      BY <2>0, <3>3
  <2>3. CASE \E x \in Threads \cup {Owner} : LetGo(x)
    BY <2>0, <2>3 DEF LetGo
  <2>4. CASE UNCHANGED free_list_
    BY <2>0, <2>4
  <2>5. QED
    <3>1. CASE UNCHANGED vars
      BY <2>4, <3>1 DEF vars
    <3>2. ASSUME NEW t \in Threads, Step(t)
          PROVE  Len(free_list_') <= pool_size_
      BY <2>1, <2>2, <2>3, <2>4, <3>2
         DEF Step, TryGet, GetBack, AllocThrows, LockPool, TryPut, HasRoom,
             Leave, Alloc, Delete
    <3>3. CASE \/ \E t \in Threads : Obtain(t) \/ \E o \in Objects : Drop(t, o)
               \/ \E o \in Objects : Copy(o) \/ \E flag \in BOOLEAN : SetQuit(o, flag)
               \/ \E n \in Sizes : SetSize(n)
      BY <2>4, <3>3 DEF Obtain, Drop, Copy, SetQuit, SetSize
    <3>4. CASE Destroy
      BY <2>3, <3>4 DEF Destroy
    <3>5. QED
      BY <1>1, <3>1, <3>2, <3>3, <3>4 DEF Next
<1>2. QED
  BY <1>1, Invariant, PTL DEF SafetySpec, SizeRespected

-----------------------------------------------------------------------------
(* The buffers that lie in such a pool, src/Network/Buffer.h and Buffer.cpp  *)
(* (Buffers.tla): any number of them, any sizes asked for, any threshold     *)
(* below which memory is always reused, any size of the pool.                *)
CONSTANTS Raw, Capacities, Small, PoolSize

VARIABLES place, state, asked, shrunk, starved

Buf == INSTANCE Buffers WITH Buffers <- Raw, Sizes <- Capacities

(* What Buffers.tla assumes of its constants. *)
BuffersUsed == Capacities \subseteq Nat /\ Small \in Nat /\ PoolSize \in Nat

RawState == [size : Nat, capacity : Nat, data : {"null", "memory", "freed"}]

(* The functions have their types, and until an allocation fails the memory  *)
(* of a buffer that waits in the pool is its own too: create may reuse it.   *)
BuffersKept ==
    /\ Buf!TypeOK
    /\ state \in [Raw -> RawState]
    /\ ~starved => \A b \in Raw : place[b] = "pool" => state[b].data = "memory"
    /\ Buf!BuffersRight

(* What setCapacity leaves in a buffer when it has got what was asked for:   *)
(* memory of its own unless that was lost before, enough of it, and not      *)
(* twice too much.                                                           *)

LEMMA CapacitySet ==
  ASSUME BuffersUsed, NEW s \in RawState, NEW n \in Nat, NEW succeeds \in BOOLEAN
  PROVE  LET r == Buf!setCapacity(s, n, succeeds)
         IN  /\ r \in RawState
             /\ r.size = s.size
             /\ Buf!Reusable(s, n) \/ succeeds =>
                   /\ s.data # "freed" => r.data = "memory"
                   /\ n <= r.capacity
                   /\ r.capacity < Small \/ r.capacity <= 2 * n
<1>1. s.size \in Nat /\ s.capacity \in Nat /\ s.data \in {"null", "memory", "freed"} /\ Small \in Nat
  BY DEF RawState, BuffersUsed
<1>2. CASE Buf!Reusable(s, n)
  BY <1>1, <1>2 DEF Buf!setCapacity, Buf!Reusable
<1>3. CASE ~Buf!Reusable(s, n) /\ succeeds
  <2>1. Buf!setCapacity(s, n, succeeds) = [s EXCEPT !.capacity = n, !.data = "memory"]
    BY <1>3 DEF Buf!setCapacity
  <2> DEFINE r == [s EXCEPT !.capacity = n, !.data = "memory"]
  <2>2. r \in RawState /\ r.size = s.size /\ r.capacity = n /\ r.data = "memory"
    BY DEF RawState
  <2>3. n <= n /\ n <= 2 * n
    OBVIOUS
  <2> HIDE DEF r
  <2>4. QED
    BY <2>1, <2>2, <2>3 DEF r
<1>4. CASE ~Buf!Reusable(s, n) /\ ~succeeds
  <2>1. Buf!setCapacity(s, n, succeeds) \in {s, [s EXCEPT !.data = "freed"]}
    BY <1>4 DEF Buf!setCapacity
  <2>2. QED
    BY <1>1, <1>4, <2>1 DEF RawState
<1>5. QED
  BY <1>2, <1>3, <1>4

LEMMA SizeSet ==
  ASSUME NEW s \in RawState, NEW n \in Nat
  PROVE  LET r == Buf!setSize(s, n)
         IN  /\ r \in RawState
             /\ r.data = s.data /\ r.capacity = s.capacity
             /\ r.size = IF n > s.capacity THEN s.size ELSE n
BY DEF RawState, Buf!setSize

(* A call that asks for memory: it got enough, or an allocation has failed.  *)
LEMMA MemoryAsked ==
  ASSUME BuffersUsed, BuffersKept, NEW b \in Raw, NEW s \in RawState, NEW n \in Nat,
         NEW succeeds \in BOOLEAN, NEW after \in RawState,
         Buf!Ask(b, s, n, succeeds, after)
  PROVE  /\ state' \in [Raw -> RawState]
         /\ asked' \in [Raw -> Nat] /\ asked'[b] = n
         /\ starved' \in BOOLEAN /\ (starved => starved')
         /\ \A c \in Raw \ {b} : state'[c] = state[c] /\ asked'[c] = asked[c]
         /\ ~starved' => (Buf!Reusable(s, n) \/ succeeds) /\ state'[b] = after
<1>1. /\ state \in [Raw -> RawState] /\ asked \in [Raw -> Nat] /\ starved \in BOOLEAN
  BY DEF BuffersKept, Buf!TypeOK
<1> DEFINE got == Buf!Reusable(s, n) \/ succeeds
           new == IF got THEN after ELSE Buf!setCapacity(s, n, succeeds)
<1>2. new \in RawState
  BY CapacitySet
<1>3. /\ state' = [state EXCEPT ![b] = new]
      /\ asked' = [asked EXCEPT ![b] = n]
      /\ starved' = (starved \/ ~got)
  BY DEF Buf!Ask
<1>4. got \in BOOLEAN
  BY DEF Buf!Reusable
<1>5. starved' \in BOOLEAN /\ (starved => starved') /\ (~starved' => got)
  BY <1>1, <1>3, <1>4
<1> HIDE DEF got
<1>6. got => new = after
  OBVIOUS
<1> HIDE DEF new
<1>7. /\ state' \in [Raw -> RawState] /\ state'[b] = new
      /\ asked' \in [Raw -> Nat] /\ asked'[b] = n
      /\ \A c \in Raw \ {b} : state'[c] = state[c] /\ asked'[c] = asked[c]
  BY <1>1, <1>2, <1>3
<1>8. QED
  BY <1>5, <1>6, <1>7 DEF got

(* A step keeps the promise to every buffer but the one it is about.         *)
LEMMA OthersKept ==
  ASSUME BuffersKept, NEW b \in Raw,
         starved => starved', starved \in BOOLEAN, starved' \in BOOLEAN,
         shrunk \ {b} \subseteq shrunk',
         \A c \in Raw \ {b} : /\ state'[c] = state[c] /\ asked'[c] = asked[c]
                              /\ place'[c] = place[c]
  PROVE  ~starved' =>
            \A c \in Raw \ {b} :
               /\ place'[c] = "pool" => state'[c].data = "memory"
               /\ place'[c] = "owner" =>
                     /\ state'[c].data = "memory"
                     /\ asked'[c] <= state'[c].capacity
                     /\ state'[c].capacity < Small \/ state'[c].capacity <= 2 * asked'[c]
                     /\ c \in shrunk' \/ state'[c].size <= state'[c].capacity
BY DEF BuffersKept, Buf!BuffersRight, Buf!Owned

(* Gathers what has to be shown of a step: types, and the buffer it is about. *)
LEMMA KeptIf ==
  ASSUME BuffersKept, NEW b \in Raw,
         place' \in [Raw -> {"none", "owner", "pool"}],
         state' \in [Raw -> RawState], asked' \in [Raw -> Nat],
         shrunk' \subseteq Raw, starved' \in BOOLEAN,
         starved => starved', shrunk \ {b} \subseteq shrunk',
         \A c \in Raw \ {b} : /\ state'[c] = state[c] /\ asked'[c] = asked[c]
                              /\ place'[c] = place[c],
         ~starved' => /\ place'[b] = "pool" => state'[b].data = "memory"
                      /\ place'[b] = "owner" =>
                            /\ state'[b].data = "memory"
                            /\ asked'[b] <= state'[b].capacity
                            /\ state'[b].capacity < Small \/ state'[b].capacity <= 2 * asked'[b]
                            /\ b \in shrunk' \/ state'[b].size <= state'[b].capacity
  PROVE  BuffersKept'
<1>1. starved \in BOOLEAN
  BY DEF BuffersKept, Buf!TypeOK
<1>2. ~starved' =>
         \A c \in Raw :
            /\ place'[c] = "pool" => state'[c].data = "memory"
            /\ place'[c] = "owner" =>
                  /\ state'[c].data = "memory"
                  /\ asked'[c] <= state'[c].capacity
                  /\ state'[c].capacity < Small \/ state'[c].capacity <= 2 * asked'[c]
                  /\ c \in shrunk' \/ state'[c].size <= state'[c].capacity
  BY <1>1, OthersKept
<1>3. \A c \in Raw : /\ state'[c].size \in Nat /\ state'[c].capacity \in Nat
                     /\ state'[c].data \in {"null", "memory", "freed"}
  BY DEF RawState
<1>4. QED
  BY <1>2, <1>3 DEF BuffersKept, Buf!TypeOK, Buf!BuffersRight, Buf!Owned

LEMMA BuffersStep ==
  ASSUME BuffersUsed, BuffersKept, [Buf!Next]_(Buf!vars)
  PROVE  BuffersKept'
<1>1. /\ state \in [Raw -> RawState] /\ asked \in [Raw -> Nat] /\ starved \in BOOLEAN
      /\ place \in [Raw -> {"none", "owner", "pool"}] /\ shrunk \subseteq Raw
  BY DEF BuffersKept, Buf!TypeOK
<1>2. ASSUME NEW b \in Raw, NEW n \in Capacities, Buf!Create(b, n)
      PROVE  BuffersKept'
  <2> DEFINE s == IF place[b] = "pool" THEN state[b] ELSE Buf!New
  <2>1. n \in Nat /\ place[b] # "owner"
    BY <1>1, <1>2 DEF BuffersUsed, Buf!Create, Buf!Owned
  <2>2. s \in RawState /\ (~starved => s.data # "freed")
    BY <1>1 DEF RawState, Buf!New, BuffersKept
  <2> HIDE DEF s
  <2>3. PICK succeeds \in BOOLEAN :
           /\ Buf!Ask(b, s, n, succeeds, Buf!setSize(Buf!setCapacity(s, n, succeeds), 0))
           /\ IF succeeds \/ Buf!Reusable(s, n) THEN place' = [place EXCEPT ![b] = "owner"]
              ELSE \E to \in {"pool", "none"} : Buf!Recycled(b, to)
    BY <1>2 DEF Buf!Create, s
  <2> DEFINE full == Buf!setCapacity(s, n, succeeds)
             after == Buf!setSize(full, 0)
  <2>4. /\ full \in RawState
        /\ Buf!Reusable(s, n) \/ succeeds =>
              /\ s.data # "freed" => full.data = "memory"
              /\ n <= full.capacity
              /\ full.capacity < Small \/ full.capacity <= 2 * n
    BY <2>1, <2>2, CapacitySet
  <2> HIDE DEF full
  <2>5. after \in RawState /\ after.data = full.data /\ after.capacity = full.capacity /\ after.size = 0
    BY <2>4, SizeSet DEF RawState
  <2>6. Buf!Ask(b, s, n, succeeds, after)
    BY <2>3 DEF full
  <2> HIDE DEF after
  <2>7. /\ state' \in [Raw -> RawState]
        /\ asked' \in [Raw -> Nat] /\ asked'[b] = n
        /\ starved' \in BOOLEAN /\ (starved => starved')
        /\ \A c \in Raw \ {b} : state'[c] = state[c] /\ asked'[c] = asked[c]
        /\ ~starved' => (Buf!Reusable(s, n) \/ succeeds) /\ state'[b] = after
    BY <2>1, <2>2, <2>5, <2>6, MemoryAsked
  <2>8. /\ place' \in [Raw -> {"none", "owner", "pool"}]
        /\ \A c \in Raw \ {b} : place'[c] = place[c]
        /\ succeeds \/ Buf!Reusable(s, n) => place'[b] = "owner"
    BY <1>1, <2>3 DEF Buf!Recycled
  <2>9. shrunk' = shrunk \ {b}
    BY <1>2 DEF Buf!Create
  <2>10. ~starved' =>
            /\ place'[b] = "owner" /\ state'[b].data = "memory"
            /\ asked'[b] <= state'[b].capacity
            /\ state'[b].capacity < Small \/ state'[b].capacity <= 2 * asked'[b]
            /\ state'[b].size <= state'[b].capacity
    BY <1>1, <2>2, <2>4, <2>5, <2>7, <2>8 DEF RawState
  <2>11. QED
    BY <1>1, <2>7, <2>8, <2>9, <2>10, KeptIf
<1>3. ASSUME NEW b \in Raw, NEW n \in Capacities, Buf!SetCapacity(b, n)
      PROVE  BuffersKept'
  <2>1. n \in Nat /\ place[b] = "owner" /\ state[b] \in RawState
    BY <1>1, <1>3 DEF BuffersUsed, Buf!SetCapacity, Buf!Owned
  <2>2. ~starved => state[b].data # "freed"
    BY <2>1 DEF BuffersKept, Buf!BuffersRight, Buf!Owned
  <2>3. PICK succeeds \in BOOLEAN :
           Buf!Ask(b, state[b], n, succeeds, Buf!setCapacity(state[b], n, succeeds))
    BY <1>3 DEF Buf!SetCapacity
  <2> DEFINE after == Buf!setCapacity(state[b], n, succeeds)
  <2>4. /\ after \in RawState /\ after.size = state[b].size
        /\ Buf!Reusable(state[b], n) \/ succeeds =>
              /\ state[b].data # "freed" => after.data = "memory"
              /\ n <= after.capacity
              /\ after.capacity < Small \/ after.capacity <= 2 * n
    BY <2>1, CapacitySet
  <2>5. Buf!Ask(b, state[b], n, succeeds, after)
    BY <2>3
  <2> HIDE DEF after
  <2>6. /\ state' \in [Raw -> RawState]
        /\ asked' \in [Raw -> Nat] /\ asked'[b] = n
        /\ starved' \in BOOLEAN /\ (starved => starved')
        /\ \A c \in Raw \ {b} : state'[c] = state[c] /\ asked'[c] = asked[c]
        /\ ~starved' => (Buf!Reusable(state[b], n) \/ succeeds) /\ state'[b] = after
    BY <2>1, <2>4, <2>5, MemoryAsked
  <2>7. /\ place' = place
        /\ shrunk' = IF n < state[b].size THEN shrunk \cup {b} ELSE shrunk
    BY <1>3 DEF Buf!SetCapacity
  <2>8. ~starved' =>
            /\ state'[b].data = "memory"
            /\ asked'[b] <= state'[b].capacity
            /\ state'[b].capacity < Small \/ state'[b].capacity <= 2 * asked'[b]
            /\ b \in shrunk' \/ state'[b].size <= state'[b].capacity
    BY <1>1, <2>1, <2>2, <2>4, <2>6, <2>7 DEF RawState
  <2>9. shrunk' \subseteq Raw /\ shrunk \ {b} \subseteq shrunk'
    BY <1>1, <2>7
  <2>10. QED
    BY <1>1, <2>1, <2>6, <2>7, <2>8, <2>9, KeptIf
<1>4. ASSUME NEW b \in Raw, NEW n \in Capacities, Buf!Assign(b, n)
      PROVE  BuffersKept'
  <2>1. n \in Nat /\ n + 1 \in Nat /\ place[b] = "owner" /\ state[b] \in RawState
    BY <1>1, <1>4 DEF BuffersUsed, Buf!Assign, Buf!Owned
  <2>2. ~starved => state[b].data # "freed"
    BY <2>1 DEF BuffersKept, Buf!BuffersRight, Buf!Owned
  <2>3. PICK succeeds \in BOOLEAN :
           Buf!Ask(b, state[b], n + 1, succeeds,
                   Buf!setSize(Buf!setCapacity(state[b], n + 1, succeeds), n))
    BY <1>4 DEF Buf!Assign
  <2> DEFINE full == Buf!setCapacity(state[b], n + 1, succeeds)
             after == Buf!setSize(full, n)
  <2>4. /\ full \in RawState
        /\ Buf!Reusable(state[b], n + 1) \/ succeeds =>
              /\ state[b].data # "freed" => full.data = "memory"
              /\ n + 1 <= full.capacity
              /\ full.capacity < Small \/ full.capacity <= 2 * (n + 1)
    BY <2>1, CapacitySet
  <2>5. Buf!Ask(b, state[b], n + 1, succeeds, after)
    BY <2>3
  <2> HIDE DEF full
  <2>6. /\ after \in RawState /\ after.data = full.data /\ after.capacity = full.capacity
        /\ n <= full.capacity => after.size = n
    <3>1. full.capacity \in Nat
      BY <2>4 DEF RawState
    <3>2. /\ after \in RawState /\ after.data = full.data /\ after.capacity = full.capacity
          /\ after.size = IF n > full.capacity THEN full.size ELSE n
      BY <2>1, <2>4, SizeSet
    <3>3. QED
      BY <2>1, <3>1, <3>2
  <2> HIDE DEF after
  <2>7. /\ state' \in [Raw -> RawState]
        /\ asked' \in [Raw -> Nat] /\ asked'[b] = n + 1
        /\ starved' \in BOOLEAN /\ (starved => starved')
        /\ \A c \in Raw \ {b} : state'[c] = state[c] /\ asked'[c] = asked[c]
        /\ ~starved' => (Buf!Reusable(state[b], n + 1) \/ succeeds) /\ state'[b] = after
    BY <2>1, <2>5, <2>6, MemoryAsked
  <2>8. place' = place /\ shrunk' = shrunk \ {b}
    BY <1>4 DEF Buf!Assign
  <2>9. ~starved' =>
            /\ state'[b].data = "memory"
            /\ asked'[b] <= state'[b].capacity
            /\ state'[b].capacity < Small \/ state'[b].capacity <= 2 * asked'[b]
            /\ state'[b].size <= state'[b].capacity
    BY <1>1, <2>1, <2>2, <2>4, <2>6, <2>7 DEF RawState
  <2>10. QED
    BY <1>1, <2>1, <2>7, <2>8, <2>9, KeptIf
<1>5. ASSUME NEW b \in Raw, NEW n \in Capacities, Buf!SetSize(b, n)
      PROVE  BuffersKept'
  <2>1. n \in Nat /\ place[b] = "owner" /\ state[b] \in RawState
    BY <1>1, <1>5 DEF BuffersUsed, Buf!SetSize, Buf!Owned
  <2>2. /\ state' = [state EXCEPT ![b] = Buf!setSize(state[b], n)]
        /\ shrunk' = IF n > state[b].capacity THEN shrunk ELSE shrunk \ {b}
        /\ place' = place /\ asked' = asked /\ starved' = starved
    BY <1>5 DEF Buf!SetSize
  <2> DEFINE after == Buf!setSize(state[b], n)
  <2>3. /\ after \in RawState
        /\ after.data = state[b].data /\ after.capacity = state[b].capacity
        /\ after.size = IF n > state[b].capacity THEN state[b].size ELSE n
    BY <2>1, SizeSet
  <2>4. state' = [state EXCEPT ![b] = after]
    BY <2>2
  <2> HIDE DEF after
  <2>5. /\ state' \in [Raw -> RawState] /\ state'[b] = after
        /\ \A c \in Raw \ {b} : state'[c] = state[c]
    BY <1>1, <2>3, <2>4
  <2>6. ~starved =>
            /\ state[b].data = "memory"
            /\ asked[b] <= state[b].capacity
            /\ state[b].capacity < Small \/ state[b].capacity <= 2 * asked[b]
            /\ b \in shrunk \/ state[b].size <= state[b].capacity
    BY <2>1 DEF BuffersKept, Buf!BuffersRight, Buf!Owned
  <2>7. ~starved' =>
            /\ state'[b].data = "memory"
            /\ asked'[b] <= state'[b].capacity
            /\ state'[b].capacity < Small \/ state'[b].capacity <= 2 * asked'[b]
            /\ b \in shrunk' \/ state'[b].size <= state'[b].capacity
    BY <1>1, <2>1, <2>2, <2>3, <2>5, <2>6 DEF RawState
  <2>8. shrunk' \subseteq Raw /\ shrunk \ {b} \subseteq shrunk'
    BY <1>1, <2>2
  <2>9. QED
    BY <1>1, <2>1, <2>2, <2>5, <2>7, <2>8, KeptIf
<1>6. ASSUME NEW b \in Raw, Buf!Drop(b)
      PROVE  BuffersKept'
  <2>1. place[b] = "owner" /\ state[b] \in RawState
    BY <1>1, <1>6 DEF Buf!Drop, Buf!Owned
  <2>2. PICK to \in {"pool", "none"} :
           /\ place' = [place EXCEPT ![b] = to]
           /\ state' = IF to = "none" THEN [state EXCEPT ![b] = Buf!New] ELSE state
    BY <1>6 DEF Buf!Drop, Buf!Recycled
  <2>3. asked' = [asked EXCEPT ![b] = 0] /\ shrunk' = shrunk \ {b} /\ starved' = starved
    BY <1>6 DEF Buf!Drop
  <2>4. Buf!New \in RawState
    BY DEF Buf!New, RawState
  <2>5. /\ state' \in [Raw -> RawState] /\ (to = "pool" => state'[b] = state[b])
        /\ \A c \in Raw \ {b} : state'[c] = state[c]
    BY <1>1, <2>2, <2>4
  <2>6. /\ place' \in [Raw -> {"none", "owner", "pool"}] /\ place'[b] = to
        /\ asked' \in [Raw -> Nat]
        /\ \A c \in Raw \ {b} : place'[c] = place[c] /\ asked'[c] = asked[c]
    BY <1>1, <2>2, <2>3
  <2>7. ~starved' => (place'[b] = "pool" => state'[b].data = "memory") /\ place'[b] # "owner"
    BY <2>1, <2>3, <2>5, <2>6 DEF BuffersKept, Buf!BuffersRight, Buf!Owned
  <2>8. QED
    BY <1>1, <2>3, <2>5, <2>6, <2>7, KeptIf
<1>7. CASE UNCHANGED Buf!vars
  BY <1>7 DEF BuffersKept, Buf!vars, Buf!TypeOK, Buf!BuffersRight, Buf!Owned
<1>8. QED
  BY <1>2, <1>3, <1>4, <1>5, <1>6, <1>7 DEF Buf!Next

(* Until an allocation fails, every buffer somebody owns has memory of its   *)
(* own, as large as was asked for last and not more than twice as large      *)
(* unless it is small, and size() does not promise more than is there unless *)
(* the owner itself made the capacity less: whatever the buffer was used for *)
(* before it came out of the pool.                                           *)
THEOREM Allocation ==
  ASSUME BuffersUsed
  PROVE  Buf!Spec => [](Buf!TypeOK /\ Buf!BuffersRight)
<1>1. Buf!Init => BuffersKept
  <2> SUFFICES ASSUME Buf!Init PROVE BuffersKept
    OBVIOUS
  <2>1. Buf!New \in RawState
    BY DEF Buf!New, RawState
  <2>2. state \in [Raw -> RawState]
    BY <2>1 DEF Buf!Init
  <2>3. \A b \in Raw : /\ state[b].size \in Nat /\ state[b].capacity \in Nat
                       /\ state[b].data \in {"null", "memory", "freed"}
    BY <2>2 DEF RawState
  <2>4. QED
    BY <2>2, <2>3 DEF Buf!Init, BuffersKept, Buf!TypeOK, Buf!BuffersRight, Buf!Owned
<1>2. BuffersKept /\ [Buf!Next]_(Buf!vars) => BuffersKept'
  BY BuffersStep
<1>3. BuffersKept => Buf!TypeOK /\ Buf!BuffersRight
  BY DEF BuffersKept
<1>4. QED
  BY <1>1, <1>2, <1>3, PTL DEF Buf!Spec
=============================================================================
