------------------------------- MODULE Buffers -------------------------------
(***************************************************************************)
(* src/Network/Buffer.h, Buffer.cpp: buffers that are kept for reuse with  *)
(* the memory they have.  Each has one owner at a time, or lies in the     *)
(* pool (see ResourcePool.tla), so that calls on one do not overlap.       *)
(***************************************************************************)
EXTENDS Integers, FiniteSets

CONSTANTS
    Buffers,         \* BOUND: buffers that exist at a time
    Sizes,           \* BOUND: what is asked for
    Small,           \* below this capacity memory is always reused: 2 * 1024
    PoolSize         \* packet_pool.setSize

BuffersAssumption == Sizes \subseteq Nat /\ Small \in Nat /\ PoolSize \in Nat

VARIABLES
    place,           \* buffer -> "none", "owner" or "pool"
    state,           \* buffer -> size_, capacity_ and what data_ points to
    asked,           \* buffer -> the capacity it was last asked to have
    shrunk,          \* buffers whose owner made the capacity less than the size
    starved          \* an allocation has failed

vars == <<place, state, asked, shrunk, starved>>

New == [size |-> 0, capacity |-> 0, data |-> "null"]

TypeOK ==
    /\ place \in [Buffers -> {"none", "owner", "pool"}]
    /\ \A b \in Buffers : /\ state[b].size \in Nat /\ state[b].capacity \in Nat
                          /\ state[b].data \in {"null", "memory", "freed"}
    /\ asked \in [Buffers -> Nat]
    /\ shrunk \subseteq Buffers /\ starved \in BOOLEAN

Init ==
    /\ place = [b \in Buffers |-> "none"]
    /\ state = [b \in Buffers |-> New]
    /\ asked = [b \in Buffers |-> 0]
    /\ shrunk = {} /\ starved = FALSE

Owned == {b \in Buffers : place[b] = "owner"}
Pooled == {b \in Buffers : place[b] = "pool"}

-----------------------------------------------------------------------------
(* setCapacity: what there is does unless it is too small, or neither small nor *)
(* half used.                                                                   *)
Reusable(s, capacity) ==
    /\ s.data # "null"
    /\ capacity <= s.capacity
    /\ s.capacity < Small \/ s.capacity < 2 * capacity

(* The old memory is freed before the new one is there: if there is none, data_ *)
(* and capacity_ stay as they were.                                             *)
setCapacity(s, capacity, succeeds) ==
    IF Reusable(s, capacity) THEN s
    ELSE IF succeeds THEN [s EXCEPT !.capacity = capacity, !.data = "memory"]
    ELSE IF s.data = "null" THEN s
    ELSE [s EXCEPT !.data = "freed"]

setSize(s, size) == IF size > s.capacity THEN s ELSE [s EXCEPT !.size = size]

(* A call on b, which is in state s, that asks for memory and, if it got some, *)
(* leaves b in state after.  To go on where data_ points to freed memory is    *)
(* undefined; so is to free it again.                                          *)
Ask(b, s, capacity, succeeds, after) ==
    LET got == Reusable(s, capacity) \/ succeeds
    IN  /\ state' = [state EXCEPT ![b] = IF got THEN after ELSE setCapacity(s, capacity, succeeds)]
        /\ asked' = [asked EXCEPT ![b] = capacity]
        /\ starved' = (starved \/ ~got)

SetCapacity(b, capacity) ==
    /\ b \in Owned
    /\ \E succeeds \in BOOLEAN :
          Ask(b, state[b], capacity, succeeds, setCapacity(state[b], capacity, succeeds))
    /\ shrunk' = IF capacity < state[b].size THEN shrunk \cup {b} ELSE shrunk
    /\ UNCHANGED place

(* assign: the bytes, and a zero behind them. *)
Assign(b, size) ==
    /\ b \in Owned
    /\ \E succeeds \in BOOLEAN :
          Ask(b, state[b], size + 1, succeeds,
              setSize(setCapacity(state[b], size + 1, succeeds), size))
    /\ shrunk' = shrunk \ {b}
    /\ UNCHANGED place

(* A size that does not fit is refused. *)
SetSize(b, size) ==
    /\ b \in Owned
    /\ state' = [state EXCEPT ![b] = setSize(@, size)]
    /\ shrunk' = IF size > state[b].capacity THEN shrunk ELSE shrunk \ {b}
    /\ UNCHANGED <<place, asked, starved>>

(* recycle, or ~BufferRaw if the pool is full or in use. *)
Recycled(b, to) ==
    /\ to \in {"pool", "none"} /\ (to = "pool" => Cardinality(Pooled \ {b}) < PoolSize)
    /\ place' = [place EXCEPT ![b] = to]

(* Mutation: a buffer from the pool has the size it had. *)
CreateAsItWas(b, size) ==
    /\ b \notin Owned
    /\ \E succeeds \in BOOLEAN :
          LET s == IF place[b] = "pool" THEN state[b] ELSE New
          IN  /\ Ask(b, s, size, succeeds, setCapacity(s, size, succeeds))
              /\ IF succeeds \/ Reusable(s, size) THEN place' = [place EXCEPT ![b] = "owner"]
                 ELSE \E to \in {"pool", "none"} : Recycled(b, to)
    /\ shrunk' = shrunk \ {b}

(* create: an object of the pool or a new one.  Where setCapacity throws the *)
(* object goes back as it is.                                                *)
Create(b, size) ==
    /\ b \notin Owned
    /\ \E succeeds \in BOOLEAN :
          LET s == IF place[b] = "pool" THEN state[b] ELSE New
          IN  /\ Ask(b, s, size, succeeds, setSize(setCapacity(s, size, succeeds), 0))
              /\ IF succeeds \/ Reusable(s, size) THEN place' = [place EXCEPT ![b] = "owner"]
                 ELSE \E to \in {"pool", "none"} : Recycled(b, to)
    /\ shrunk' = shrunk \ {b}

(* The last handle goes. *)
Drop(b) ==
    /\ b \in Owned
    /\ \E to \in {"pool", "none"} :
          /\ Recycled(b, to)
          /\ state' = IF to = "none" THEN [state EXCEPT ![b] = New] ELSE state
    /\ asked' = [asked EXCEPT ![b] = 0]
    /\ shrunk' = shrunk \ {b}
    /\ UNCHANGED starved

Next ==
    \E b \in Buffers :
        \/ Drop(b)
        \/ \E n \in Sizes : Create(b, n) \/ SetCapacity(b, n) \/ Assign(b, n) \/ SetSize(b, n)

Spec == Init /\ [][Next]_vars

-----------------------------------------------------------------------------
(* Until an allocation fails, whatever a buffer was used for before and in which *)
(* order its owner calls, its memory is its own, as large as was asked for last, *)
(* and not more than twice as large unless it is small; and what size() promises *)
(* is there, unless the owner itself has made the capacity less than that.       *)
BuffersRight ==
    ~starved =>
        \A b \in Owned :
            LET s == state[b]
            IN  /\ s.data = "memory"
                /\ asked[b] <= s.capacity
                /\ s.capacity < Small \/ s.capacity <= 2 * asked[b]
                /\ b \in shrunk \/ s.size <= s.capacity
===============================================================================
