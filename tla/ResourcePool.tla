----------------------------- MODULE ResourcePool -----------------------------
(***************************************************************************)
(* src/Util/ResourcePool.h: objects that are kept for reuse when the last  *)
(* handle to them goes.                                                    *)
(*                                                                         *)
(* The list of kept objects is guarded by a flag that nobody waits for: a  *)
(* thread that finds it set allocates, or deletes, instead.  The steps     *)
(* below are the accesses to the flag and to the list, so that what two    *)
(* threads inside at a time would do to the list can be seen.  The pool is *)
(* held by its owner and, through a weak pointer, by every deleter that    *)
(* runs while it exists.                                                   *)
(*                                                                         *)
(* A handle is a shared_ptr; copies count in `refs`.  What obtain2 returns *)
(* is a handle that nobody calls quit on.                                  *)
(***************************************************************************)
EXTENDS Integers, FiniteSets, Sequences

CONSTANTS
    Threads,     \* all may obtain, copy and drop handles
    Scheduled,   \* the threads that are assumed to keep running
    Owner,       \* stands for the ResourcePool object
    Objects,     \* BOUND: objects that exist at a time
    Sizes,       \* what setSize is called with, and the initial pool_size_
    MaxRefs      \* BOUND: copies of a handle

ASSUME ResourcePoolAssumption ==
    /\ IsFiniteSet(Threads) /\ IsFiniteSet(Objects)
    /\ Scheduled \subseteq Threads
    /\ Owner \notin Threads
    /\ Sizes \subseteq Nat
    /\ MaxRefs \in Nat \ {0}

VARIABLES
    pc,
    obj,           \* thread -> the pointer it has in hand, at most one
    busy_, free_list_, pool_size_,
    strong,        \* who keeps the pool alive
    refs,          \* object -> handles to it
    quit,          \* object -> quit_ of its handles
    live           \* the objects that exist

vars == <<pc, obj, busy_, free_list_, pool_size_, strong, refs, quit, live>>

Inside == {"get", "pop", "put", "push"}
Disposing == {"deleter", "recycle", "put", "push", "delete"}

TypeOK ==
    /\ pc \in [Threads -> {"idle", "obtain", "alloc", "leave"} \cup Inside \cup Disposing]
    /\ obj \in [Threads -> SUBSET Objects]
    /\ busy_ \in BOOLEAN
    /\ free_list_ \in Seq(Objects)
    /\ pool_size_ \in Sizes
    /\ strong \subseteq Threads \cup {Owner}
    /\ refs \in [Objects -> 0..MaxRefs]
    /\ quit \in [Objects -> BOOLEAN]
    /\ live \subseteq Objects

Init ==
    /\ pc = [t \in Threads |-> "idle"]
    /\ obj = [t \in Threads |-> {}]
    /\ busy_ = FALSE /\ free_list_ = <<>>
    /\ pool_size_ \in Sizes
    /\ strong = {Owner}
    /\ refs = [o \in Objects |-> 0]
    /\ quit = [o \in Objects |-> FALSE]
    /\ live = {}

Goto(t, label) == pc' = [pc EXCEPT ![t] = label]

InHand(t, S) == obj' = [obj EXCEPT ![t] = S]

Pooled == {free_list_[i] : i \in DOMAIN free_list_}

Held == {o \in Objects : refs[o] > 0}

-----------------------------------------------------------------------------
(* obtain, obtain2.  They are calls on the pool, which therefore exists.    *)
Obtain(t) ==
    /\ pc[t] = "idle"
    /\ Owner \in strong
    /\ Cardinality(live) + Cardinality({u \in Threads : pc[u] \in {"obtain", "get", "alloc"}})
         < Cardinality(Objects)
    /\ Goto(t, "obtain")
    /\ UNCHANGED <<obj, busy_, free_list_, pool_size_, strong, refs, quit, live>>

(* Mutation: the flag is set without looking at what it was. *)
TryGetUnguarded(t) ==
    /\ pc[t] = "obtain"
    /\ busy_' = TRUE
    /\ Goto(t, "get")
    /\ UNCHANGED <<obj, free_list_, pool_size_, strong, refs, quit, live>>

(* Mutation: a thread waits for the flag. *)
TryGetWaiting(t) ==
    /\ pc[t] = "obtain" /\ ~busy_
    /\ busy_' = TRUE
    /\ Goto(t, "get")
    /\ UNCHANGED <<obj, free_list_, pool_size_, strong, refs, quit, live>>

(* getPtr: busy_.test_and_set().                                            *)
TryGet(t) ==
    /\ pc[t] = "obtain"
    /\ busy_' = TRUE
    /\ Goto(t, IF busy_ THEN "alloc" ELSE "get")
    /\ UNCHANGED <<obj, free_list_, pool_size_, strong, refs, quit, live>>

(* free_list_.back() *)
GetBack(t) ==
    /\ pc[t] = "get"
    /\ free_list_ # <<>>
    /\ InHand(t, {free_list_[Len(free_list_)]})
    /\ Goto(t, "pop")
    /\ UNCHANGED <<busy_, free_list_, pool_size_, strong, refs, quit, live>>

(* A handle is made of the pointer. *)
Wrap(t, o) ==
    /\ refs' = [refs EXCEPT ![o] = 1]
    /\ quit' = [quit EXCEPT ![o] = FALSE]
    /\ Goto(t, "idle")

(* free_list_.pop_back(), and the lock is given up. *)
PopBack(t, o) ==
    /\ pc[t] = "pop" /\ o \in obj[t]
    /\ free_list_' = SubSeq(free_list_, 1, Len(free_list_) - 1)
    /\ busy_' = FALSE
    /\ InHand(t, {})
    /\ Wrap(t, o)
    /\ UNCHANGED <<pool_size_, strong, live>>

(* alloc_(), with the lock when the list is empty and without it when the   *)
(* lock was taken.                                                          *)
Alloc(t, o) ==
    /\ \/ pc[t] = "get" /\ free_list_ = <<>> /\ busy_' = FALSE
       \/ pc[t] = "alloc" /\ UNCHANGED busy_
    /\ o \notin live
    /\ live' = live \cup {o}
    /\ Wrap(t, o)
    /\ UNCHANGED <<obj, free_list_, pool_size_, strong>>

(* The constructor throws: obtain does, and the flag stays as it is.        *)
AllocThrows(t) ==
    /\ \/ pc[t] = "get" /\ free_list_ = <<>>
       \/ pc[t] = "alloc"
    /\ Goto(t, "idle")
    /\ UNCHANGED <<obj, busy_, free_list_, pool_size_, strong, refs, quit, live>>

-----------------------------------------------------------------------------
(* Handles. *)
Copy(o) ==
    /\ refs[o] \in 1..(MaxRefs - 1)
    /\ refs' = [refs EXCEPT ![o] = @ + 1]
    /\ UNCHANGED <<pc, obj, busy_, free_list_, pool_size_, strong, quit, live>>

(* A shared_ptr_imp that was reset still has its quit_, and may be asked to *)
(* change it while the deleter runs in another thread.                      *)
SetQuit(o, flag) ==
    /\ o \in Held \/ \E t \in Threads : pc[t] \in Disposing /\ o \in obj[t]
    /\ quit' = [quit EXCEPT ![o] = flag]
    /\ UNCHANGED <<pc, obj, busy_, free_list_, pool_size_, strong, refs, live>>

Drop(t, o) ==
    /\ pc[t] = "idle"
    /\ refs[o] > 0
    /\ refs' = [refs EXCEPT ![o] = @ - 1]
    /\ IF refs[o] = 1 THEN InHand(t, {o}) /\ Goto(t, "deleter")
       ELSE UNCHANGED <<obj, pc>>
    /\ UNCHANGED <<busy_, free_list_, pool_size_, strong, quit, live>>

(* Mutation: the deleter looks whether the pool exists but does not keep it. *)
LockPoolWeakly(t) ==
    /\ pc[t] = "deleter"
    /\ \E o \in obj[t] :
          Goto(t, IF strong # {} /\ ~quit[o] THEN "recycle" ELSE "delete")
    /\ UNCHANGED <<obj, busy_, free_list_, pool_size_, strong, refs, quit, live>>

(* The deleter: after on_recycle, weakPool.lock() and the look at quit.     *)
LockPool(t) ==
    /\ pc[t] = "deleter"
    /\ \E o \in obj[t] :
          Goto(t, IF strong # {} /\ ~quit[o] THEN "recycle" ELSE "delete")
    /\ strong' = IF strong # {} THEN strong \cup {t} ELSE {}
    /\ UNCHANGED <<obj, busy_, free_list_, pool_size_, refs, quit, live>>

(* recycle: busy_.test_and_set() *)
TryPut(t) ==
    /\ pc[t] = "recycle"
    /\ busy_' = TRUE
    /\ Goto(t, IF busy_ THEN "delete" ELSE "put")
    /\ UNCHANGED <<obj, free_list_, pool_size_, strong, refs, quit, live>>

(* Mutation: the list is filled to one beyond the size. *)
HasRoomForOneMore(t) ==
    /\ pc[t] = "put"
    /\ Len(free_list_) <= pool_size_
    /\ Goto(t, "push")
    /\ UNCHANGED <<obj, busy_, free_list_, pool_size_, strong, refs, quit, live>>

(* free_list_.size() < pool_size_ *)
HasRoom(t) ==
    /\ pc[t] = "put"
    /\ Len(free_list_) < pool_size_
    /\ Goto(t, "push")
    /\ UNCHANGED <<obj, busy_, free_list_, pool_size_, strong, refs, quit, live>>

Push(t, o) ==
    /\ pc[t] = "push" /\ o \in obj[t]
    /\ free_list_' = Append(free_list_, o)
    /\ busy_' = FALSE
    /\ InHand(t, {})
    /\ Goto(t, "leave")
    /\ UNCHANGED <<pool_size_, strong, refs, quit, live>>

(* The object is deleted: with the lock when there is no room, without it   *)
(* when the lock was taken, the pool is gone or the handle has quit.        *)
Delete(t, o) ==
    /\ o \in obj[t]
    /\ \/ pc[t] = "put" /\ Len(free_list_) >= pool_size_ /\ busy_' = FALSE
       \/ pc[t] = "delete" /\ UNCHANGED busy_
    /\ live' = live \ {o}
    /\ InHand(t, {})
    /\ Goto(t, "leave")
    /\ UNCHANGED <<free_list_, pool_size_, strong, refs, quit>>

(* Somebody lets go of the pool; the last one destroys it, and what it      *)
(* kept.                                                                    *)
LetGo(x) ==
    /\ strong' = strong \ {x}
    /\ IF x \in strong /\ strong' = {} THEN live' = live \ Pooled /\ free_list_' = <<>>
       ELSE UNCHANGED <<live, free_list_>>

(* The deleter returns and its strongPool goes. *)
Leave(t) ==
    /\ pc[t] = "leave"
    /\ LetGo(t)
    /\ Goto(t, "idle")
    /\ UNCHANGED <<obj, busy_, pool_size_, refs, quit>>

(* ~ResourcePool; nobody is in a call on it. *)
Destroy ==
    /\ Owner \in strong
    /\ \A t \in Threads : pc[t] \notin {"obtain", "get", "pop", "alloc"}
    /\ LetGo(Owner)
    /\ UNCHANGED <<pc, obj, busy_, pool_size_, refs, quit>>

(* Mutation: the size is one more than what was asked for. *)
SetSizeBeyond(n) ==
    /\ Owner \in strong
    /\ \A t \in Threads : pc[t] \notin Inside
    /\ pool_size_' = n + 1
    /\ UNCHANGED <<pc, obj, busy_, free_list_, strong, refs, quit, live>>

(* setSize: the callers see to it that nobody uses the list meanwhile.      *)
SetSize(n) ==
    /\ Owner \in strong
    /\ \A t \in Threads : pc[t] \notin Inside
    /\ pool_size_' = n
    /\ UNCHANGED <<pc, obj, busy_, free_list_, strong, refs, quit, live>>

-----------------------------------------------------------------------------
(* What a thread does once it is in a call. *)
Step(t) ==
    \/ TryGet(t) \/ GetBack(t) \/ AllocThrows(t)
    \/ LockPool(t) \/ TryPut(t) \/ HasRoom(t) \/ Leave(t)
    \/ \E o \in Objects : PopBack(t, o) \/ Alloc(t, o) \/ Push(t, o) \/ Delete(t, o)

Next ==
    \/ \E t \in Threads : Step(t) \/ Obtain(t) \/ \E o \in Objects : Drop(t, o)
    \/ \E o \in Objects : Copy(o) \/ \E flag \in BOOLEAN : SetQuit(o, flag)
    \/ \E n \in Sizes : SetSize(n)
    \/ Destroy

SafetySpec == Init /\ [][Next]_vars

(* Only some threads are known to be scheduled: the others may stop         *)
(* anywhere, also with the flag set.                                        *)
Spec == SafetySpec /\ \A t \in Scheduled : WF_vars(Step(t))

-----------------------------------------------------------------------------
Hand(t) == IF pc[t] \in Disposing THEN obj[t] ELSE {}

(* Every object that exists belongs to the list, once, or to its handles,   *)
(* or to one deleter: none is handed out twice, kept twice, deleted while   *)
(* it is used, or leaked - also by threads that find the flag set, by a     *)
(* constructor that throws, or by a pool that goes while deleters run.      *)
SingleOwner ==
    /\ \A i, j \in DOMAIN free_list_ : free_list_[i] = free_list_[j] => i = j
    /\ Pooled \cap Held = {}
    /\ \A t \in Threads :
          /\ Hand(t) \cap (Pooled \cup Held) = {}
          /\ \A u \in Threads \ {t} : Hand(t) \cap Hand(u) = {}
    /\ live = Pooled \cup Held \cup UNION {Hand(t) : t \in Threads}

(* A deleter that works on the list keeps the pool: it is not destroyed     *)
(* under it, though the owner may let go at any time.                       *)
PoolOutlivesUse ==
    \A t \in Threads : pc[t] \in Inside \cup {"recycle"} => strong # {}

(* The list never grows beyond the size, though the size is read before the *)
(* object is put.                                                           *)
SizeRespected ==
    [][Len(free_list_') > Len(free_list_) => Len(free_list_') <= pool_size_]_vars

(* Nobody waits: a thread that runs gets its object, or disposes of it,     *)
(* even if another one never runs again, or has left the flag set.          *)
NobodyWaits ==
    \A t \in Scheduled : pc[t] # "idle" ~> pc[t] = "idle"
=============================================================================
