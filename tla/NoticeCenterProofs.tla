-------------------------- MODULE NoticeCenterProofs --------------------------
(***************************************************************************)
(* Theorems about src/Util/NoticeCenter.h, for any calls, listeners, tags  *)
(* and dispatchers; and about the other register of callbacks, that of     *)
(* src/Util/CMD.h, for any threads, names and commands.                    *)
(***************************************************************************)
EXTENDS NoticeCenter, TLAPS

(* What is being added is known, and is added by one call.                  *)
Adding ==
    /\ \A x \in Activities : pc[x] = "add" => \A l \in what[x] : added[l] = "begun"
    /\ \A x, y \in Activities : \A l \in what[x] \cap what[y] :
          pc[x] = "add" /\ pc[y] = "add" => x = y
    /\ \A l \in gone : added[l] = "yes"
    /\ \A x \in Activities : \A l \in aim[x] : added[l] = "yes"

(* What a deletion leaves behind is not on the event, and an emission that  *)
(* began afterwards has looked up a dispatcher that is without it.          *)
Deleted ==
    /\ center # NoDispatcher => \A l \in gone : l \notin listeners[center]
    /\ \A x \in Activities :
          /\ Deleting(x) /\ center \notin {NoDispatcher, at[x]} =>
                \A l \in aim[x] : l \notin listeners[center]
          /\ pc[x] = "del" => aim[x] \subseteq what[x]
          /\ pc[x] = "forget" => \A l \in aim[x] : l \notin listeners[at[x]]
          /\ pc[x] # "call" => copy[x] = {}
          /\ \A l \in barred[x] : /\ l \in gone
                                  /\ pc[x] = "copy" => l \notin listeners[at[x]]
                                  /\ l \notin copy[x]

(* What is added, or about to be, is where the event finds it, or in the    *)
(* reach of a deletion.                                                     *)
Reachable ==
    /\ \A x \in Activities :
          pc[x] = "add" => \A l \in what[x] : center = at[x] \/ l \in raced \/ l \in doomed
    /\ \A x, y \in Activities :
          pc[x] = "add" /\ Deleting(y) => \A l \in what[x] : l \in raced
    /\ \A x \in Activities :
          Deleting(x) => \A l \in what[x] : added[l] # "no" => l \in doomed
    /\ \A x \in Activities :
          pc[x] = "forget" /\ center = at[x] => \A l \in listeners[center] : l \in raced
    /\ \A l \in Listeners :
          added[l] = "yes" => Attached(l) \/ l \in raced \/ l \in doomed

Inv == TypeOK /\ Adding /\ Deleted /\ Reachable

LEMMA InitInv == Init => Inv
BY NoticeCenterAssumption
   DEF Init, Inv, TypeOK, Adding, Deleted, Reachable, Attached, Deleting

-----------------------------------------------------------------------------
LEMMA AddListenerStep ==
  ASSUME Inv, NEW x \in Activities, NEW l \in Listeners, AddListener(x, l)
  PROVE  Inv'
<1>1. PICK d \in Dispatchers :
         /\ pc' = [pc EXCEPT ![x] = "add"] /\ at' = [at EXCEPT ![x] = d]
         /\ center' = d
         /\ \/ center = d /\ listeners' = listeners
            \/ /\ center = NoDispatcher /\ d # NoDispatcher
               /\ \A y \in Activities : at[y] # d
               /\ listeners' = [listeners EXCEPT ![d] = {}]
  BY NoticeCenterAssumption DEF AddListener, Proceed, With, Inv, TypeOK
<1>2. /\ pc[x] = "idle" /\ added[l] = "no"
      /\ what' = [what EXCEPT ![x] = {l}]
      /\ added' = [added EXCEPT ![l] = "begun"]
      /\ doomed' = doomed \cup {m \in {l} : \E y \in Activities : Deleting(y) /\ l \in what[y]}
      /\ raced' = raced \cup {m \in {l} : \E y \in Activities : Deleting(y)}
      /\ UNCHANGED <<copy, gone, aim, barred, owed>>
  BY DEF AddListener, With
<1>3. TypeOK'
  BY <1>1, <1>2 DEF Inv, TypeOK
<1>4. Adding'
  BY <1>1, <1>2 DEF Inv, TypeOK, Adding
<1>5. Deleted'
  BY <1>1, <1>2 DEF Inv, TypeOK, Deleted, Deleting
<1>6. Reachable'
  <2>1. \A y \in Activities : Deleting(y)' <=> Deleting(y)
    BY <1>1, <1>2 DEF Inv, TypeOK, Deleting
  <2>2. \A m \in Listeners : (added[m] = "yes" /\ Attached(m)) => Attached(m)'
    BY <1>1, <1>2, NoticeCenterAssumption DEF Inv, TypeOK, Attached
  <2>3. ASSUME NEW y \in Activities, pc'[y] = "add", NEW m \in what'[y]
        PROVE  /\ center' = at'[y] \/ m \in raced' \/ m \in doomed'
               /\ (\E z \in Activities : Deleting(z)) => m \in raced'
    <3>1. CASE y = x
      BY <1>1, <1>2, <2>3, <3>1 DEF Inv, TypeOK
    <3>2. CASE y # x
      <4>1. /\ pc[y] = "add" /\ m \in what[y] /\ at'[y] = at[y]
            /\ at[y] \in Dispatchers
        BY <1>1, <1>2, <2>3, <3>2 DEF Inv, TypeOK
      <4>2. center' = at'[y] \/ m \in raced' \/ m \in doomed'
        BY <1>1, <1>2, <4>1, NoticeCenterAssumption DEF Inv, Reachable
      <4>3. (\E z \in Activities : Deleting(z)) => m \in raced'
        BY <1>2, <4>1 DEF Inv, Reachable
      <4>4. QED
        BY <4>2, <4>3
    <3>3. QED
      BY <3>1, <3>2
  <2>4. ASSUME NEW y \in Activities, Deleting(y), NEW m \in what'[y], added'[m] # "no"
        PROVE  m \in doomed'
    BY <1>1, <1>2, <2>4 DEF Inv, TypeOK, Reachable, Deleting
  <2>5. ASSUME NEW y \in Activities, pc'[y] = "forget", center' = at'[y],
               NEW m \in listeners'[center']
        PROVE  m \in raced'
    BY <1>1, <1>2, <2>5 DEF Inv, TypeOK, Reachable
  <2>6. \A m \in Listeners :
           added'[m] = "yes" => Attached(m)' \/ m \in raced' \/ m \in doomed'
    BY <1>2, <2>2 DEF Inv, TypeOK, Reachable
  <2>7. QED
    BY <2>1, <2>3, <2>4, <2>5, <2>6 DEF Reachable
<1>7. QED
  BY <1>3, <1>4, <1>5, <1>6 DEF Inv

LEMMA EmplaceStep ==
  ASSUME Inv, NEW x \in Activities, Emplace(x)
  PROVE  Inv'
<1>1. /\ pc[x] = "add" /\ at[x] \in Dispatchers /\ what[x] \subseteq Listeners
      /\ listeners' = [listeners EXCEPT ![at[x]] = listeners[at[x]] \cup what[x]]
      /\ added' = [l \in Listeners |-> IF l \in what[x] THEN "yes" ELSE added[l]]
      /\ what' = [what EXCEPT ![x] = {}]
      /\ pc' = [pc EXCEPT ![x] = "idle"] /\ at' = [at EXCEPT ![x] = NoDispatcher]
      /\ UNCHANGED <<center, copy, doomed, raced, gone, aim, barred, owed>>
  BY DEF Emplace, Return, With, Inv, TypeOK
<1>2. TypeOK'
  BY <1>1 DEF Inv, TypeOK
<1>3. Adding'
  BY <1>1 DEF Inv, TypeOK, Adding
<1>4. \A l \in what[x] : /\ l \notin gone
                         /\ \A y \in Activities : l \notin aim[y] /\ l \notin barred[y]
  BY <1>1 DEF Inv, Adding, Deleted
<1>5. Deleted'
  BY <1>1, <1>4 DEF Inv, TypeOK, Deleted, Deleting
<1>6. Reachable'
  <2>1. \A y \in Activities : Deleting(y)' <=> Deleting(y)
    BY <1>1 DEF Inv, TypeOK, Deleting
  <2>2. \A l \in what[x] : center = at[x] \/ l \in raced \/ l \in doomed
    BY <1>1 DEF Inv, Reachable
  <2>3. ASSUME NEW l \in Listeners, added'[l] = "yes"
        PROVE  Attached(l)' \/ l \in raced' \/ l \in doomed'
    BY <1>1, <2>2, <2>3, NoticeCenterAssumption DEF Inv, TypeOK, Reachable, Attached
  <2>4. ASSUME NEW y \in Activities, pc'[y] = "forget", center' = at'[y],
               NEW l \in listeners'[center']
        PROVE  l \in raced'
    BY <1>1, <2>4 DEF Inv, TypeOK, Reachable, Deleting
  <2>5. ASSUME NEW y \in Activities, Deleting(y), NEW l \in what'[y], added'[l] # "no"
        PROVE  l \in doomed'
    BY <1>1, <2>5 DEF Inv, TypeOK, Reachable, Adding, Deleting
  <2>6. ASSUME NEW y \in Activities, pc'[y] = "add", NEW l \in what'[y]
        PROVE  /\ center' = at'[y] \/ l \in raced' \/ l \in doomed'
               /\ (\E z \in Activities : Deleting(z)) => l \in raced'
    BY <1>1, <2>6 DEF Inv, TypeOK, Reachable
  <2>7. QED
    BY <2>1, <2>3, <2>4, <2>5, <2>6 DEF Reachable
<1>7. QED
  BY <1>2, <1>3, <1>5, <1>6 DEF Inv

LEMMA DelListenerStep ==
  ASSUME Inv, NEW x \in Activities, NEW tag \in Tags, DelListener(x, tag)
  PROVE  Inv'
<1> DEFINE S == Tagged(tag)
<1>1. /\ pc[x] = "idle" /\ S \subseteq Listeners
      /\ doomed' = doomed \cup {l \in S : added[l] # "no"}
      /\ raced' = raced \cup {l \in Listeners : added[l] = "begun"}
      /\ UNCHANGED <<center, listeners, copy, added, barred, owed>>
  BY DEF DelListener, DeletionBegins, Begun, Tagged
<1>2. CASE center # NoDispatcher
  <2>1. /\ center \in Dispatchers
        /\ pc' = [pc EXCEPT ![x] = "del"] /\ at' = [at EXCEPT ![x] = center]
        /\ what' = [what EXCEPT ![x] = S]
        /\ aim' = [aim EXCEPT ![x] = {l \in S : added[l] = "yes"}]
        /\ gone' = gone
    BY <1>2 DEF DelListener, Proceed, With, Added, Inv, TypeOK
  <2> HIDE DEF S
  <2>2. TypeOK'
    BY <1>1, <2>1 DEF Inv, TypeOK
  <2>3. Adding'
    BY <1>1, <2>1 DEF Inv, TypeOK, Adding
  <2>4. Deleted'
    BY <1>1, <2>1 DEF Inv, TypeOK, Deleted, Deleting
  <2>5. Reachable'
    BY <1>1, <2>1 DEF Inv, TypeOK, Adding, Reachable, Deleting, Attached
  <2>6. QED
    BY <2>2, <2>3, <2>4, <2>5 DEF Inv
<1>3. CASE center = NoDispatcher
  <2>1. /\ gone' = gone \cup {l \in S : added[l] = "yes"}
        /\ UNCHANGED <<pc, at, what, aim>>
    BY <1>3 DEF DelListener, Added
  <2> HIDE DEF S
  <2>2. TypeOK'
    BY <1>1, <2>1 DEF Inv, TypeOK
  <2>3. Adding'
    BY <1>1, <2>1 DEF Inv, TypeOK, Adding
  <2>4. Deleted'
    BY <1>1, <1>3, <2>1 DEF Inv, TypeOK, Deleted, Deleting
  <2>5. Reachable'
    BY <1>1, <2>1 DEF Inv, TypeOK, Adding, Reachable, Deleting, Attached
  <2>6. QED
    BY <2>2, <2>3, <2>4, <2>5 DEF Inv
<1>4. QED
  BY <1>2, <1>3

(* A deletion erases and goes on, or erases and returns, or removes the     *)
(* dispatcher and returns.                                                  *)
LEMMA EraseStep ==
  ASSUME Inv, NEW x \in Activities, Erase(x)
  PROVE  Inv'
<1>1. /\ pc[x] = "del" /\ at[x] \in Dispatchers
      /\ listeners' = [listeners EXCEPT ![at[x]] = listeners[at[x]] \ what[x]]
      /\ UNCHANGED <<center, copy, added, doomed, raced, barred, owed>>
  BY DEF Erase, With, Inv, TypeOK
<1>2. \A l \in aim[x] : l \notin listeners'[at[x]]
  BY <1>1 DEF Inv, TypeOK, Deleted
<1>3. \A l \in Listeners :
         Attached(l) => Attached(l)' \/ l \in doomed \/ added[l] = "no"
  BY <1>1 DEF Inv, TypeOK, Attached, Reachable, Deleting
<1>4. CASE listeners'[at[x]] = {}
  <2>1. /\ pc' = [pc EXCEPT ![x] = "forget"] /\ at' = [at EXCEPT ![x] = at[x]]
        /\ UNCHANGED <<what, gone, aim>>
    BY <1>4 DEF Erase, Proceed, With
  <2>2. TypeOK'
    BY <1>1, <2>1 DEF Inv, TypeOK
  <2>3. Adding'
    BY <1>1, <2>1 DEF Inv, TypeOK, Adding
  <2>4. Deleted'
    BY <1>1, <1>2, <2>1 DEF Inv, TypeOK, Deleted, Deleting
  <2>5. Reachable'
    BY <1>1, <1>3, <1>4, <2>1 DEF Inv, TypeOK, Reachable, Deleting
  <2>6. QED
    BY <2>2, <2>3, <2>4, <2>5 DEF Inv
<1>5. CASE listeners'[at[x]] # {}
  <2>1. /\ pc' = [pc EXCEPT ![x] = "idle"] /\ at' = [at EXCEPT ![x] = NoDispatcher]
        /\ what' = [what EXCEPT ![x] = {}]
        /\ gone' = gone \cup aim[x]
        /\ aim' = [aim EXCEPT ![x] = {}]
    BY <1>5 DEF Erase, DeletionReturns, Return, With
  <2>2. TypeOK'
    BY <1>1, <2>1 DEF Inv, TypeOK
  <2>3. Adding'
    BY <1>1, <2>1 DEF Inv, TypeOK, Adding
  <2>4. Deleted'
    BY <1>1, <1>2, <2>1 DEF Inv, TypeOK, Deleted, Deleting
  <2>5. Reachable'
    BY <1>1, <1>3, <2>1 DEF Inv, TypeOK, Reachable, Deleting
  <2>6. QED
    BY <2>2, <2>3, <2>4, <2>5 DEF Inv
<1>6. QED
  BY <1>4, <1>5

LEMMA ForgetStep ==
  ASSUME Inv, NEW x \in Activities, Forget(x)
  PROVE  Inv'
<1>1. /\ pc[x] = "forget" /\ at[x] \in Dispatchers
      /\ center' = IF center = at[x] THEN NoDispatcher ELSE center
      /\ pc' = [pc EXCEPT ![x] = "idle"] /\ at' = [at EXCEPT ![x] = NoDispatcher]
      /\ what' = [what EXCEPT ![x] = {}]
      /\ gone' = gone \cup aim[x]
      /\ aim' = [aim EXCEPT ![x] = {}]
      /\ UNCHANGED <<listeners, copy, added, doomed, raced, barred, owed>>
  BY DEF Forget, DeletionReturns, Return, With, Inv, TypeOK
<1>2. TypeOK'
  BY <1>1 DEF Inv, TypeOK
<1>3. Adding'
  BY <1>1 DEF Inv, TypeOK, Adding
<1>4. Deleted'
  BY <1>1 DEF Inv, TypeOK, Deleted, Deleting
<1>5. Reachable'
  <2>1. \A y \in Activities \ {x} :
           pc'[y] = pc[y] /\ at'[y] = at[y] /\ what'[y] = what[y]
    BY <1>1 DEF Inv, TypeOK
  <2>2. pc'[x] = "idle" /\ Deleting(x)
    BY <1>1 DEF Inv, TypeOK, Deleting
  <2>3. \A y \in Activities : Deleting(y)' => Deleting(y) /\ y # x
    BY <2>1, <2>2 DEF Deleting
  <2>4. ASSUME NEW y \in Activities, pc'[y] = "add", NEW l \in what'[y]
        PROVE  l \in raced'
    BY <1>1, <2>1, <2>2, <2>4 DEF Inv, Reachable
  <2>5. ASSUME NEW y \in Activities, Deleting(y)', NEW l \in what'[y], added'[l] # "no"
        PROVE  l \in doomed'
    BY <1>1, <2>1, <2>3, <2>5 DEF Inv, Reachable
  <2>6. ASSUME NEW y \in Activities, pc'[y] = "forget", center' = at'[y],
               NEW l \in listeners'[center']
        PROVE  l \in raced'
    <3>1. y # x /\ pc[y] = "forget" /\ at[y] \in Dispatchers /\ at'[y] = at[y]
      BY <2>1, <2>2, <2>6 DEF Inv, TypeOK
    <3>2. center' = center
      BY <1>1, <2>6, <3>1, NoticeCenterAssumption
    <3>3. QED
      BY <1>1, <2>6, <3>1, <3>2 DEF Inv, Reachable
  <2>7. ASSUME NEW l \in Listeners, added'[l] = "yes"
        PROVE  Attached(l)' \/ l \in raced' \/ l \in doomed'
    BY <1>1, <2>7 DEF Inv, Reachable, Attached
  <2>8. QED
    BY <2>4, <2>5, <2>6, <2>7 DEF Reachable
<1>6. QED
  BY <1>2, <1>3, <1>4, <1>5 DEF Inv

LEMMA ClearAllStep ==
  ASSUME Inv, ClearAll
  PROVE  Inv'
<1>1. /\ center' = NoDispatcher
      /\ doomed' = doomed \cup {l \in Listeners : added[l] # "no"}
      /\ raced' = raced \cup {l \in Listeners : added[l] = "begun"}
      /\ gone' = gone \cup {l \in Listeners : added[l] = "yes"}
      /\ UNCHANGED <<listeners, pc, at, what, copy, added, aim, barred, owed>>
  BY DEF ClearAll, DeletionBegins, Begun, Added
<1>2. TypeOK' /\ Adding'
  BY <1>1 DEF Inv, TypeOK, Adding
<1>3. Deleted'
  BY <1>1 DEF Inv, TypeOK, Deleted, Deleting
<1>4. Reachable'
  BY <1>1, NoticeCenterAssumption DEF Inv, TypeOK, Adding, Reachable, Deleting, Attached
<1>5. QED
  BY <1>2, <1>3, <1>4 DEF Inv

LEMMA EmissionStep ==
  ASSUME Inv, NEW x \in Activities,
         \/ EmitEvent(x) \/ CopyMap(x) \/ EmitReturns(x)
         \/ \E l \in Listeners : CallListener(x, l)
  PROVE  Inv'
<1>1. /\ UNCHANGED <<center, listeners, what, added, doomed, raced, gone, aim>>
      /\ pc[x] \in {"idle", "copy", "call"}
      /\ pc' \in {[pc EXCEPT ![x] = label] : label \in {"idle", "copy", "call"}}
      /\ at' \in {[at EXCEPT ![x] = d] : d \in Dispatchers \cup {NoDispatcher}}
  BY DEF EmitEvent, CopyMap, CallListener, EmitReturns, Proceed, Return, With,
         history, Inv, TypeOK
<1>2. /\ \A y \in Activities \ {x} : pc'[y] = pc[y] /\ at'[y] = at[y]
      /\ pc'[x] \in {"idle", "copy", "call"}
  BY <1>1 DEF Inv, TypeOK
<1>3. Adding' /\ Reachable'
  BY <1>1, <1>2 DEF Inv, TypeOK, Adding, Reachable, Deleting, Attached
<1>4. TypeOK' /\ Deleted'
  <2>1. CASE EmitEvent(x)
    <3>1. /\ pc[x] = "idle" /\ center \in Dispatchers /\ center # NoDispatcher
          /\ pc' = [pc EXCEPT ![x] = "copy"] /\ at' = [at EXCEPT ![x] = center]
          /\ barred' = [barred EXCEPT ![x] = gone]
          /\ owed' = [owed EXCEPT ![x] = Added(listeners[center])]
          /\ copy' = copy
      BY <2>1 DEF EmitEvent, Proceed, With, Inv, TypeOK
    <3>2. Added(listeners[center]) \subseteq Listeners
      BY <3>1 DEF Added, Inv, TypeOK
    <3>3. TypeOK'
      BY <1>1, <3>1, <3>2 DEF Inv, TypeOK
    <3>4. Deleted'
      BY <1>1, <3>1 DEF Inv, TypeOK, Deleted, Deleting
    <3>5. QED
      BY <3>3, <3>4
  <2>2. CASE CopyMap(x)
    <3>1. /\ pc[x] = "copy" /\ at[x] \in Dispatchers
          /\ pc' = [pc EXCEPT ![x] = "call"] /\ at' = [at EXCEPT ![x] = at[x]]
          /\ copy' = [copy EXCEPT ![x] = listeners[at[x]]]
          /\ UNCHANGED <<barred, owed>>
      BY <2>2 DEF CopyMap, Proceed, With, history, Inv, TypeOK
    <3>2. TypeOK'
      BY <1>1, <3>1 DEF Inv, TypeOK
    <3>3. Deleted'
      BY <1>1, <3>1 DEF Inv, TypeOK, Deleted, Deleting
    <3>4. QED
      BY <3>2, <3>3
  <2>3. ASSUME NEW l \in Listeners, CallListener(x, l)
        PROVE  TypeOK' /\ Deleted'
    <3>1. /\ pc[x] = "call"
          /\ copy' = [copy EXCEPT ![x] = copy[x] \ {l}]
          /\ UNCHANGED <<pc, at, barred, owed>>
      BY <2>3 DEF CallListener, With, history
    <3>2. TypeOK'
      BY <1>1, <3>1 DEF Inv, TypeOK
    <3>3. Deleted'
      BY <1>1, <3>1 DEF Inv, TypeOK, Deleted, Deleting
    <3>4. QED
      BY <3>2, <3>3
  <2>4. CASE EmitReturns(x)
    <3>1. /\ pc[x] = "call"
          /\ pc' = [pc EXCEPT ![x] = "idle"] /\ at' = [at EXCEPT ![x] = NoDispatcher]
          /\ copy' = [copy EXCEPT ![x] = {}]
          /\ barred' = [barred EXCEPT ![x] = {}]
          /\ owed' = [owed EXCEPT ![x] = {}]
      BY <2>4 DEF EmitReturns, Return, With
    <3>2. TypeOK'
      BY <1>1, <3>1 DEF Inv, TypeOK
    <3>3. Deleted'
      BY <1>1, <3>1 DEF Inv, TypeOK, Deleted, Deleting
    <3>4. QED
      BY <3>2, <3>3
  <2>5. QED
    BY <2>1, <2>2, <2>3, <2>4
<1>5. QED
  BY <1>3, <1>4 DEF Inv

LEMMA NextInv == Inv /\ [Next]_vars => Inv'
<1> SUFFICES ASSUME Inv, [Next]_vars
             PROVE  Inv'
  OBVIOUS
<1>1. CASE UNCHANGED vars
  BY <1>1 DEF vars, code, history, Inv, TypeOK, Adding, Deleted, Reachable,
              Attached, Deleting
<1>2. ASSUME NEW x \in Activities, Emplace(x) \/ Erase(x) \/ Forget(x)
      PROVE  Inv'
  BY <1>2, EmplaceStep, EraseStep, ForgetStep
<1>3. ASSUME NEW x \in Activities, EmitEvent(x) \/ CopyMap(x) \/ EmitReturns(x)
      PROVE  Inv'
  BY <1>3, EmissionStep
<1>4. ASSUME NEW x \in Activities, NEW l \in Listeners,
             AddListener(x, l) \/ CallListener(x, l)
      PROVE  Inv'
  BY <1>4, AddListenerStep, EmissionStep
<1>5. ASSUME NEW x \in Activities, NEW tag \in Tags, DelListener(x, tag)
      PROVE  Inv'
  BY <1>5, DelListenerStep
<1>6. CASE ClearAll
  BY <1>6, ClearAllStep
<1>7. QED
  BY <1>1, <1>2, <1>3, <1>4, <1>5, <1>6 DEF Next

LEMMA Invariant == Spec => []Inv
BY InitInv, NextInv, PTL DEF Spec

-----------------------------------------------------------------------------
(* The state of the centre, of the calls in progress and of the history is  *)
(* well formed; in particular a call works on a dispatcher that exists.     *)
THEOREM TypeCorrect == Spec => []TypeOK
<1>1. Inv => TypeOK
  BY DEF Inv
<1>2. QED
  BY <1>1, Invariant, PTL

(* emitEvent calls no listener whose delListener returned before it began.  *)
THEOREM NothingDeletedIsCalled == Spec => []NoStaleCall
<1>1. Inv => NoStaleCall
  BY DEF Inv, TypeOK, Deleted, NoStaleCall
<1>2. QED
  BY <1>1, Invariant, PTL

(* addListener leaves the listener where emitEvent finds it, unless a       *)
(* delListener was in progress meanwhile.                                   *)
THEOREM ListenersStay == Spec => []StaysUnlessRaced
<1>1. Inv => StaysUnlessRaced
  BY DEF Inv, Reachable, StaysUnlessRaced, Added
<1>2. QED
  BY <1>1, Invariant, PTL

-----------------------------------------------------------------------------
(* What an emission owes stays in the dispatcher it has looked up: that one  *)
(* is not taken for a new one meanwhile, and who takes listeners out of it   *)
(* has doomed them before.                                                   *)
Owing ==
    \A x \in Activities :
        /\ \A l \in owed[x] : added[l] = "yes"
        /\ pc[x] = "copy" => owed[x] \ doomed \subseteq listeners[at[x]]

LEMMA OwingStep ==
  ASSUME Inv, Owing, [Next]_vars
  PROVE  Owing'
<1> USE DEF Inv, TypeOK, Owing
<1>1. ASSUME NEW x \in Activities, NEW l \in Listeners, AddListener(x, l)
      PROVE  Owing'
  <2>1. \A y \in Activities : pc'[y] = "copy" => pc[y] = "copy" /\ at'[y] = at[y]
                                                 /\ listeners'[at[y]] = listeners[at[y]]
    BY <1>1 DEF AddListener, Proceed, With
  <2>2. owed' = owed /\ doomed \subseteq doomed' /\ \A m \in Listeners : added[m] = "yes" => added'[m] = "yes"
    BY <1>1 DEF AddListener, With
  <2>3. QED
    BY <2>1, <2>2
<1>2. ASSUME NEW x \in Activities, Emplace(x)
      PROVE  Owing'
  <2>1. \A y \in Activities : pc'[y] = "copy" => pc[y] = "copy" /\ at'[y] = at[y]
                                                 /\ listeners[at[y]] \subseteq listeners'[at[y]]
    BY <1>2 DEF Emplace, Return, With
  <2>2. owed' = owed /\ doomed' = doomed /\ \A m \in Listeners : added[m] = "yes" => added'[m] = "yes"
    BY <1>2 DEF Emplace
  <2>3. QED
    BY <2>1, <2>2
<1>3. ASSUME NEW x \in Activities, Erase(x)
      PROVE  Owing'
  <2>1. \A y \in Activities : pc'[y] = "copy" => pc[y] = "copy" /\ at'[y] = at[y]
                                                 /\ listeners[at[y]] \ what[x] \subseteq listeners'[at[y]]
    BY <1>3 DEF Erase, DeletionReturns, Return, Proceed, With
  <2>2. UNCHANGED <<owed, doomed, added>>
    BY <1>3 DEF Erase
  <2>3. \A l \in what[x] : added[l] # "no" => l \in doomed
    BY <1>3 DEF Erase, Deleting, Reachable
  <2>4. \A y \in Activities : \A l \in owed[y] : l \in what[x] => l \in doomed
    BY <2>3
  <2>5. QED
    BY <2>1, <2>2, <2>4
<1>4. ASSUME NEW x \in Activities,
             \/ Forget(x) \/ CopyMap(x) \/ \E l \in Listeners : CallListener(x, l)
             \/ \E tag \in Tags : DelListener(x, tag)
      PROVE  Owing'
  <2>1. \A y \in Activities : pc'[y] = "copy" => pc[y] = "copy" /\ at'[y] = at[y]
    BY <1>4 DEF Forget, DeletionReturns, Return, CopyMap, CallListener, DelListener, Proceed, With
  <2>2. UNCHANGED <<owed, added, listeners>> /\ doomed \subseteq doomed'
    BY <1>4 DEF Forget, CopyMap, CallListener, DelListener, DeletionBegins, history
  <2>3. QED
    BY <2>1, <2>2
<1>5. ASSUME NEW x \in Activities, EmitEvent(x)
      PROVE  Owing'
  BY <1>5 DEF EmitEvent, Proceed, With, Added
<1>6. ASSUME NEW x \in Activities, EmitReturns(x)
      PROVE  Owing'
  BY <1>6 DEF EmitReturns, Return, With
<1>7. CASE ClearAll
  BY <1>7 DEF ClearAll, DeletionBegins
<1>8. CASE UNCHANGED vars
  BY <1>8 DEF vars, code, history
<1>9. QED
  BY <1>1, <1>2, <1>3, <1>4, <1>5, <1>6, <1>7, <1>8 DEF Next

(* emitEvent looks up the dispatcher, and copies its map of listeners later: *)
(* every listener that was there at first, and that nobody asked to delete,  *)
(* is in the copy and so is called.                                          *)
THEOREM NobodySkipped == Spec => NothingSkipped
<1> DEFINE Finds == \A x \in Activities :
                       pc[x] = "copy" /\ pc'[x] = "call" => owed[x] \ doomed \subseteq copy'[x]
<1>1. Init => Owing
  BY DEF Init, Owing
<1>2. Inv /\ Owing /\ [Next]_vars => Owing'
  BY OwingStep
<1>3. Inv /\ Owing /\ [Next]_vars => [Finds]_vars
  <2> SUFFICES ASSUME Inv, Owing, Next, NEW x \in Activities, pc[x] = "copy", pc'[x] = "call"
               PROVE  owed[x] \ doomed \subseteq copy'[x]
    OBVIOUS
  <2>1. CopyMap(x)
    BY DEF Inv, TypeOK, Next, AddListener, Emplace, DelListener, Erase, Forget, ClearAll, EmitEvent,
           CallListener, EmitReturns, DeletionReturns, Return, Proceed, With, CopyMap
  <2>2. QED
    BY <2>1 DEF Inv, TypeOK, Owing, CopyMap, With
<1>4. QED
  BY <1>1, <1>2, <1>3, Invariant, PTL DEF Spec, NothingSkipped

-----------------------------------------------------------------------------
(* The register of commands, src/Util/CMD.h and CMD.cpp                      *)
(* (CommandRegister.tla): any threads, names and commands.                   *)
CONSTANTS Threads, Names, Commands, Helps

VARIABLES cmd_map, mtx, s_mtx_opt, args, call, mixed, aborted

Reg == INSTANCE CommandRegister

(* What CommandRegister.tla assumes of its constants. *)
RegisterUsed == Helps \subseteq Commands /\ Reg!Nobody \notin Threads

Run == [pc : {"clear", "lock", "parse", "callback"}, how : {"line", "name"}, command : Commands]

(* A call by line has the register's lock for as long as it runs, so that no *)
(* other may take its command away; and two calls of one command are mixed.  *)
(* The others find the arguments as they themselves left them.               *)
Apart ==
    /\ DOMAIN cmd_map \subseteq Names /\ \A n \in DOMAIN cmd_map : cmd_map[n] \in Commands
    /\ mtx \in Threads \cup {Reg!Nobody} /\ s_mtx_opt \in Threads \cup {Reg!Nobody}
    /\ args \in [Commands -> SUBSET Threads]
    /\ call \in [Threads -> {Reg!Idle} \cup Run]
    /\ mixed \subseteq Reg!Busy
    /\ \A t \in Threads : call[t].pc # "idle" /\ call[t].how = "line" =>
          mtx = t /\ \E n \in DOMAIN cmd_map : cmd_map[n] = call[t].command
    /\ \A t, u \in Threads :
          t # u /\ call[t].pc # "idle" /\ call[u].pc # "idle" /\ call[t].command = call[u].command
             => t \in mixed
    /\ \A t \in Threads : call[t].pc # "idle" /\ t \notin mixed =>
          /\ call[t].pc \in {"lock", "parse"} => args[call[t].command] = {}
          /\ call[t].pc = "callback" => args[call[t].command] = {t}

LEMMA RunStep ==
  ASSUME NEW r \in Run, NEW label \in {"clear", "lock", "parse", "callback"}
  PROVE  LET s == [r EXCEPT !.pc = label]
         IN  s \in Run /\ s.pc = label /\ s.how = r.how /\ s.command = r.command
BY DEF Run

LEMMA Kinds ==
  ASSUME Apart, NEW t \in Threads
  PROVE  /\ call[t].pc = "idle" \/ call[t] \in Run
         /\ call[t].pc # "idle" => /\ call[t] \in Run /\ call[t].command \in Commands
                                   /\ call[t].how \in {"line", "name"}
                                   /\ call[t].pc \in {"clear", "lock", "parse", "callback"}
BY DEF Apart, Reg!Idle, Run

(* A command is looked up and its call begins. *)
LEMMA Entered ==
  ASSUME RegisterUsed, Apart, NEW t \in Threads, NEW n \in Names, NEW how \in {"line", "name"},
         call[t].pc = "idle", mtx = Reg!Nobody, n \in DOMAIN cmd_map,
         call' = [call EXCEPT ![t] = Reg!Running(how, cmd_map[n])],
         mtx' = IF how = "line" THEN t ELSE mtx,
         mixed \subseteq mixed', mixed' \subseteq mixed \cup {t} \cup Reg!Others(cmd_map[n]),
         \A u \in Reg!Others(cmd_map[n]) : u \in mixed' /\ t \in mixed',
         UNCHANGED <<cmd_map, s_mtx_opt, args>>
  PROVE  Apart'
<1> DEFINE c == cmd_map[n]
           r == Reg!Running(how, c)
<1>1. c \in Commands
  BY DEF Apart
<1> HIDE DEF c
<1>2. r \in Run /\ r.pc = "clear" /\ r.how = how /\ r.command = c
  BY <1>1 DEF Reg!Running, Run
<1>3. call' = [call EXCEPT ![t] = r]
  BY DEF c
<1> HIDE DEF r
<1>4. /\ call' \in [Threads -> {Reg!Idle} \cup Run] /\ call'[t] = r
      /\ \A u \in Threads \ {t} : call'[u] = call[u]
  BY <1>2, <1>3 DEF Apart
<1>5. Reg!Others(c) = {u \in Threads : call[u].pc # "idle" /\ call[u].command = c}
  BY DEF Reg!Others, Reg!Busy
<1>6. mixed' \subseteq Threads /\ mixed' \subseteq Reg!Busy'
  BY <1>2, <1>4, <1>5 DEF Apart, Reg!Busy, c
<1>7. \A u \in Threads : call[u].pc # "idle" => call[u].how = "name"
  BY Kinds DEF Apart, RegisterUsed
<1>8. ASSUME NEW u \in Threads, call'[u].pc # "idle", call'[u].how = "line"
      PROVE  mtx' = u /\ \E m \in DOMAIN cmd_map : cmd_map[m] = call'[u].command
  BY <1>2, <1>4, <1>7, <1>8 DEF c
<1>9. ASSUME NEW u \in Threads, NEW v \in Threads, u # v, call'[u].pc # "idle",
             call'[v].pc # "idle", call'[u].command = call'[v].command
      PROVE  u \in mixed'
  <2>1. CASE u # t /\ v # t
    BY <1>4, <1>9, <2>1 DEF Apart
  <2>2. CASE u = t
    <3>1. v \in Reg!Others(c)
      BY <1>2, <1>4, <1>5, <1>9, <2>2
    <3>2. QED
      BY <2>2, <3>1 DEF c
  <2>3. CASE v = t
    <3>1. u \in Reg!Others(c)
      BY <1>2, <1>4, <1>5, <1>9, <2>3
    <3>2. QED
      BY <3>1 DEF c
  <2>4. QED
    BY <2>1, <2>2, <2>3
<1>10. ASSUME NEW u \in Threads, call'[u].pc # "idle", u \notin mixed'
       PROVE  /\ call'[u].pc \in {"lock", "parse"} => args[call'[u].command] = {}
              /\ call'[u].pc = "callback" => args[call'[u].command] = {u}
  BY <1>2, <1>4, <1>10 DEF Apart
<1>11. mtx' \in Threads \cup {Reg!Nobody}
  BY DEF Apart
<1>12. QED
  BY <1>4, <1>6, <1>8, <1>9, <1>10, <1>11 DEF Apart

(* A call goes on to another place, and may set its command's arguments. *)
LEMMA GoneOn ==
  ASSUME Apart, NEW t \in Threads, NEW label \in {"lock", "parse", "callback"},
         call[t].pc # "idle", Reg!Goto(t, label),
         NEW a \in SUBSET Threads, args' = [args EXCEPT ![call[t].command] = a],
         t \notin mixed => a = IF label = "callback" THEN {t} ELSE {},
         s_mtx_opt' \in Threads \cup {Reg!Nobody},
         UNCHANGED <<cmd_map, mtx, mixed>>
  PROVE  Apart'
<1> DEFINE r == [call[t] EXCEPT !.pc = label]
           c == call[t].command
<1>1. call[t] \in Run /\ c \in Commands
  BY Kinds
<1>2. r \in Run /\ r.pc = label /\ r.how = call[t].how /\ r.command = c
  <2>1. label \in {"clear", "lock", "parse", "callback"}
    OBVIOUS
  <2>2. QED
    BY <1>1, <2>1, RunStep
<1>3. call' = [call EXCEPT ![t] = r]
  BY DEF Reg!Goto
<1> HIDE DEF r, c
<1>4. /\ call' \in [Threads -> {Reg!Idle} \cup Run] /\ call'[t] = r
      /\ \A u \in Threads \ {t} : call'[u] = call[u]
  BY <1>2, <1>3 DEF Apart
<1>5. \A u \in Threads : /\ call'[u].pc = "idle" <=> call[u].pc = "idle"
                         /\ call[u].pc # "idle" => /\ call'[u].how = call[u].how
                                                   /\ call'[u].command = call[u].command
  BY <1>2, <1>4 DEF c
<1>6. Reg!Busy' = Reg!Busy
  BY <1>5 DEF Reg!Busy
<1>7. /\ args' \in [Commands -> SUBSET Threads] /\ args'[c] = a
      /\ \A d \in Commands \ {c} : args'[d] = args[d]
  BY <1>1 DEF Apart, c
<1>8. ASSUME NEW u \in Threads, call'[u].pc # "idle", u \notin mixed
      PROVE  /\ call'[u].pc \in {"lock", "parse"} => args'[call'[u].command] = {}
             /\ call'[u].pc = "callback" => args'[call'[u].command] = {u}
  <2>1. CASE u = t
    BY <1>2, <1>4, <1>7, <1>8, <2>1
  <2>2. CASE u # t
    <3>1. call[u].command # c /\ call[u].command \in Commands
      BY <1>5, <1>8, <2>2, Kinds DEF Apart, c
    <3>2. QED
      BY <1>4, <1>7, <1>8, <2>2, <3>1 DEF Apart
  <2>3. QED
    BY <2>1, <2>2
<1>9. QED
  BY <1>4, <1>5, <1>6, <1>7, <1>8 DEF Apart

LEMMA Left ==
  ASSUME RegisterUsed, Apart, NEW t \in Threads, call[t].pc # "idle", Reg!Leave(t)
  PROVE  Apart'
<1>1. CASE UNCHANGED <<cmd_map, mtx, s_mtx_opt, args, call, mixed>>
  BY <1>1 DEF Apart, Reg!Busy
<1>2. CASE ~UNCHANGED <<cmd_map, mtx, s_mtx_opt, args, call, mixed>>
  <2>1. /\ call' = [call EXCEPT ![t] = Reg!Idle] /\ mixed' = mixed \ {t}
        /\ cmd_map' = cmd_map /\ args' = args
        /\ mtx' = IF mtx = t THEN Reg!Nobody ELSE mtx
        /\ s_mtx_opt' = IF s_mtx_opt = t THEN Reg!Nobody ELSE s_mtx_opt
    BY <1>2 DEF Reg!Leave
  <2>2. /\ call' \in [Threads -> {Reg!Idle} \cup Run] /\ call'[t].pc = "idle"
        /\ \A u \in Threads \ {t} : call'[u] = call[u]
    BY <2>1 DEF Apart, Reg!Idle
  <2>3. mixed' \subseteq Reg!Busy'
    BY <2>1, <2>2 DEF Apart, Reg!Busy
  <2>4. mtx' \in Threads \cup {Reg!Nobody} /\ s_mtx_opt' \in Threads \cup {Reg!Nobody}
    BY <2>1 DEF Apart
  <2>5. ASSUME NEW u \in Threads, call'[u].pc # "idle"
        PROVE  /\ call'[u].how = "line" =>
                     mtx' = u /\ \E n \in DOMAIN cmd_map : cmd_map[n] = call'[u].command
               /\ u \notin mixed' =>
                     /\ call'[u].pc \in {"lock", "parse"} => args[call'[u].command] = {}
                     /\ call'[u].pc = "callback" => args[call'[u].command] = {u}
    <3>1. u # t /\ call'[u] = call[u]
      BY <2>2, <2>5
    <3>2. QED
      BY <2>1, <2>5, <3>1 DEF Apart
  <2>6. ASSUME NEW u \in Threads, NEW v \in Threads, u # v, call'[u].pc # "idle",
               call'[v].pc # "idle", call'[u].command = call'[v].command
        PROVE  u \in mixed'
    <3>1. u # t /\ v # t /\ call'[u] = call[u] /\ call'[v] = call[v]
      BY <2>2, <2>6
    <3>2. QED
      BY <2>1, <2>6, <3>1 DEF Apart
  <2>7. QED
    BY <2>1, <2>2, <2>3, <2>4, <2>5, <2>6 DEF Apart
<1>3. QED
  BY <1>1, <1>2

LEMMA ApartStep ==
  ASSUME RegisterUsed, Apart, [Reg!Next]_(Reg!vars)
  PROVE  Apart'
<1>1. ASSUME NEW t \in Threads, NEW n \in Names, NEW c \in Commands, Reg!Register(t, n, c)
      PROVE  Apart'
  <2>1. UNCHANGED <<mtx, s_mtx_opt, args, call, mixed>> /\ mtx = Reg!Nobody
    BY <1>1 DEF Reg!Register
  <2>2. cmd_map' = IF n \in DOMAIN cmd_map THEN cmd_map
                   ELSE [m \in DOMAIN cmd_map \cup {n} |-> IF m = n THEN c ELSE cmd_map[m]]
    BY <1>1 DEF Reg!Register
  <2>3. DOMAIN cmd_map' \subseteq Names /\ \A m \in DOMAIN cmd_map' : cmd_map'[m] \in Commands
    BY <2>2 DEF Apart
  <2>4. \A u \in Threads : ~(call[u].pc # "idle" /\ call[u].how = "line")
    BY <2>1 DEF Apart, RegisterUsed
  <2>5. QED
    BY <2>1, <2>3, <2>4 DEF Apart, Reg!Busy
<1>2. ASSUME NEW t \in Threads, NEW without, Reg!Unregister(t, without)
      PROVE  Apart'
  <2>1. UNCHANGED <<mtx, s_mtx_opt, args, call, mixed>> /\ mtx = Reg!Nobody
    BY <1>2 DEF Reg!Unregister
  <2>2. cmd_map' = [m \in DOMAIN cmd_map \ without |-> cmd_map[m]]
    BY <1>2 DEF Reg!Unregister, Reg!Restrict
  <2>3. DOMAIN cmd_map' \subseteq Names /\ \A m \in DOMAIN cmd_map' : cmd_map'[m] \in Commands
    BY <2>2 DEF Apart
  <2>4. \A u \in Threads : ~(call[u].pc # "idle" /\ call[u].how = "line")
    BY <2>1 DEF Apart, RegisterUsed
  <2>5. QED
    BY <2>1, <2>3, <2>4 DEF Apart, Reg!Busy
<1>3. ASSUME NEW t \in Threads, NEW n \in Names, Reg!RunLine(t, n)
      PROVE  Apart'
  <2>1. \A u \in Threads : call[u].pc # "idle" => call[u].how = "name"
    BY <1>3, Kinds DEF Apart, RegisterUsed, Reg!RunLine
  <2>2. \A u \in Reg!Others(cmd_map[n]) : call[u].how = "name"
    BY <2>1 DEF Reg!Others, Reg!Busy
  <2>3. /\ mixed' = mixed \cup {u \in Reg!Others(cmd_map[n]) : call[u].how = "name"}
                          \cup {u \in {t} : \E v \in Reg!Others(cmd_map[n]) : call[v].how = "name"}
        /\ call[t].pc = "idle" /\ mtx = Reg!Nobody /\ n \in DOMAIN cmd_map /\ mtx' = t
        /\ call' = [call EXCEPT ![t] = Reg!Running("line", cmd_map[n])]
        /\ UNCHANGED <<cmd_map, s_mtx_opt, args>>
    BY <1>3 DEF Reg!RunLine
  <2>4. /\ mixed \subseteq mixed' /\ mixed' \subseteq mixed \cup {t} \cup Reg!Others(cmd_map[n])
        /\ \A u \in Reg!Others(cmd_map[n]) : u \in mixed' /\ t \in mixed'
    BY <2>2, <2>3
  <2>5. QED
    BY <2>3, <2>4, Entered
<1>4. ASSUME NEW t \in Threads, NEW n \in Names, Reg!RunNamed(t, n)
      PROVE  Apart'
  <2>1. /\ mixed' = IF Reg!Others(cmd_map[n]) = {} THEN mixed
                    ELSE mixed \cup Reg!Others(cmd_map[n]) \cup {t}
        /\ call[t].pc = "idle" /\ mtx = Reg!Nobody /\ n \in DOMAIN cmd_map /\ mtx' = mtx
        /\ call' = [call EXCEPT ![t] = Reg!Running("name", cmd_map[n])]
        /\ UNCHANGED <<cmd_map, s_mtx_opt, args>>
    BY <1>4 DEF Reg!RunNamed
  <2>2. /\ mixed \subseteq mixed' /\ mixed' \subseteq mixed \cup {t} \cup Reg!Others(cmd_map[n])
        /\ \A u \in Reg!Others(cmd_map[n]) : u \in mixed' /\ t \in mixed'
    BY <2>1
  <2>3. QED
    BY <2>1, <2>2, Entered
<1>5. ASSUME NEW t \in Threads, Reg!Clear(t)
      PROVE  Apart'
  <2>1. call[t].pc # "idle" /\ Reg!Goto(t, "lock") /\ args' = [args EXCEPT ![call[t].command] = {}]
        /\ UNCHANGED <<cmd_map, mtx, s_mtx_opt, mixed>>
    BY <1>5 DEF Reg!Clear
  <2>2. s_mtx_opt' \in Threads \cup {Reg!Nobody}
    BY <2>1 DEF Apart
  <2>3. {} \in SUBSET Threads
    OBVIOUS
  <2>4. QED
    BY <2>1, <2>2, <2>3, GoneOn
<1>6. ASSUME NEW t \in Threads, Reg!Lock(t)
      PROVE  Apart'
  <2>1. call[t].pc = "lock" /\ Reg!Goto(t, "parse") /\ s_mtx_opt' = t
        /\ UNCHANGED <<cmd_map, mtx, args, mixed>>
    BY <1>6 DEF Reg!Lock
  <2> DEFINE a == args[call[t].command]
  <2>2. a \in SUBSET Threads /\ args' = [args EXCEPT ![call[t].command] = a]
    BY <2>1, Kinds DEF Apart
  <2>3. t \notin mixed => a = {}
    BY <2>1 DEF Apart
  <2> HIDE DEF a
  <2>4. QED
    BY <2>1, <2>2, <2>3, GoneOn
<1>7. ASSUME NEW t \in Threads, Reg!ParseArgs(t)
      PROVE  Apart'
  <2> DEFINE a == args[call[t].command] \cup {t}
  <2>1. call[t].pc = "parse" /\ Reg!Goto(t, "callback") /\ args' = [args EXCEPT ![call[t].command] = a]
        /\ UNCHANGED <<cmd_map, mtx, s_mtx_opt, mixed>>
    BY <1>7 DEF Reg!ParseArgs
  <2>2. a \in SUBSET Threads /\ s_mtx_opt' \in Threads \cup {Reg!Nobody}
    BY <2>1, Kinds DEF Apart
  <2>3. t \notin mixed => a = {t}
    BY <2>1 DEF Apart
  <2> HIDE DEF a
  <2>4. QED
    BY <2>1, <2>2, <2>3, GoneOn
<1>8. ASSUME NEW t \in Threads, Reg!ParseFails(t) \/ Reg!Callback(t)
      PROVE  Apart'
  BY <1>8, Left DEF Reg!ParseFails, Reg!Callback
<1>9. CASE UNCHANGED Reg!vars
  BY <1>9 DEF Apart, Reg!vars, Reg!Busy
<1>10. ASSUME NEW t \in Threads, Reg!PrintHelp(t)
       PROVE  Apart'
  BY <1>10 DEF Apart, Reg!PrintHelp, Reg!Busy
<1>11. QED
  BY <1>1, <1>2, <1>3, <1>4, <1>5, <1>6, <1>7, <1>8, <1>9, <1>10
  DEF Reg!Next, Reg!Proceed, Reg!Begin

(* A command that a thread runs by line is not taken away meanwhile, and the *)
(* callback of a command sees the arguments of its own call unless another   *)
(* thread runs the same command by name.                                     *)
THEOREM OwnArguments ==
  ASSUME RegisterUsed
  PROVE  Reg!Spec => []Reg!CallsApart
<1>1. Reg!Init => Apart
  BY DEF Reg!Init, Apart, Reg!Idle, Reg!Busy
<1>2. Apart /\ [Reg!Next]_(Reg!vars) => Apart'
  BY ApartStep
<1>3. Apart => Reg!CallsApart
  BY Kinds DEF Apart, Reg!CallsApart, Reg!Busy, Reg!Range
<1>4. QED
  BY <1>1, <1>2, <1>3, PTL DEF Reg!Spec
=============================================================================
