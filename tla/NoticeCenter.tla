----------------------------- MODULE NoticeCenter -----------------------------
(***************************************************************************)
(* src/Util/NoticeCenter.h: listeners of an event, and its emission.       *)
(*                                                                         *)
(* There are two locks, one for the map of dispatchers and one in every    *)
(* dispatcher, and no call holds both: it looks up the dispatcher under    *)
(* the first and works on it under the second.  The steps below are the    *)
(* critical sections.  Callbacks run under neither, on a copy of the map   *)
(* of listeners, so the calls a callback makes interleave like those of    *)
(* another thread: an activity is a call of a thread, or one made by a     *)
(* callback in the middle of an emission.                                  *)
(*                                                                         *)
(* One event is modelled; events share nothing but the outer lock.         *)
(***************************************************************************)
EXTENDS Naturals, FiniteSets

CONSTANTS
    Activities,  \* BOUND: calls in progress at a time
    Listeners,   \* BOUND: calls of addListener
    Tags,
    Tag,         \* listener -> the tag it is added under
    Dispatchers, \* more than there are activities
    NoDispatcher

ASSUME NoticeCenterAssumption ==
    /\ Tag \in [Listeners -> Tags]
    /\ NoDispatcher \notin Dispatchers

VARIABLES
    center,      \* _mapListener of the center: the dispatcher of the event
    listeners,   \* dispatcher -> its _mapListener
    pc, at,      \* activity -> where it is, the dispatcher it has looked up
    what,        \* activity -> the listener it adds or the tags it deletes
    copy,        \* activity -> the listeners its emission has yet to call
    (* The history the properties speak of. *)
    added,       \* listeners whose addListener has begun / has returned
    doomed,      \* ... that a delListener or clearAll was called for since
    raced,       \* ... whose addListener overlapped some delListener
    gone,        \* ... and whose deletion has returned
    aim,         \* activity -> what its deletion is to remove
    barred,      \* activity -> `gone` when its emission began
    owed         \* activity -> the listeners there were when it began

code == <<center, listeners, pc, at, what, copy>>
history == <<added, doomed, raced, gone, aim, barred, owed>>
vars == <<code, history>>

TypeOK ==
    /\ center \in Dispatchers \cup {NoDispatcher}
    /\ listeners \in [Dispatchers -> SUBSET Listeners]
    /\ pc \in [Activities -> {"idle", "add", "del", "forget", "copy", "call"}]
    /\ at \in [Activities -> Dispatchers \cup {NoDispatcher}]
    /\ what \in [Activities -> SUBSET Listeners]
    /\ copy \in [Activities -> SUBSET Listeners]
    /\ added \in [Listeners -> {"no", "begun", "yes"}]
    /\ doomed \subseteq Listeners /\ raced \subseteq Listeners
    /\ gone \subseteq Listeners
    /\ aim \in [Activities -> SUBSET Listeners]
    /\ barred \in [Activities -> SUBSET Listeners]
    /\ owed \in [Activities -> SUBSET Listeners]
    /\ \A x \in Activities : pc[x] # "idle" => at[x] \in Dispatchers

Init ==
    /\ center = NoDispatcher
    /\ listeners = [d \in Dispatchers |-> {}]
    /\ pc = [x \in Activities |-> "idle"]
    /\ at = [x \in Activities |-> NoDispatcher]
    /\ what = [x \in Activities |-> {}]
    /\ copy = [x \in Activities |-> {}]
    /\ added = [l \in Listeners |-> "no"]
    /\ doomed = {} /\ raced = {} /\ gone = {}
    /\ aim = [x \in Activities |-> {}]
    /\ barred = [x \in Activities |-> {}]
    /\ owed = [x \in Activities |-> {}]

With(f, x, v) == [f EXCEPT ![x] = v]

(* The call returns. *)
Return(x) == pc' = With(pc, x, "idle") /\ at' = With(at, x, NoDispatcher)

Proceed(x, label, d) == pc' = With(pc, x, label) /\ at' = With(at, x, d)

Tagged(tag) == {l \in Listeners : Tag[l] = tag}

Begun(S) == {l \in S : added[l] # "no"}
Added(S) == {l \in S : added[l] = "yes"}

Deleting(x) == pc[x] \in {"del", "forget"}

-----------------------------------------------------------------------------
(* addListener: getDispatcher(event, true) *)
AddListener(x, l) ==
    /\ pc[x] = "idle" /\ added[l] = "no"
    /\ \/ /\ center # NoDispatcher
          /\ Proceed(x, "add", center)
          /\ UNCHANGED <<center, listeners>>
       \/ /\ center = NoDispatcher
          /\ \E d \in Dispatchers \ {at[y] : y \in Activities} :
                /\ center' = d /\ listeners' = With(listeners, d, {})
                /\ Proceed(x, "add", d)
    /\ what' = With(what, x, {l})
    /\ added' = With(added, l, "begun")
    /\ doomed' = doomed \cup {m \in {l} : \E y \in Activities : Deleting(y) /\ l \in what[y]}
    /\ raced' = raced \cup {m \in {l} : \E y \in Activities : Deleting(y)}
    /\ UNCHANGED <<copy, gone, aim, barred, owed>>

(* EventDispatcher::addListener *)
Emplace(x) ==
    /\ pc[x] = "add"
    /\ listeners' = With(listeners, at[x], listeners[at[x]] \cup what[x])
    /\ added' = [l \in Listeners |-> IF l \in what[x] THEN "yes" ELSE added[l]]
    /\ what' = With(what, x, {})
    /\ Return(x)
    /\ UNCHANGED <<center, copy, doomed, raced, gone, aim, barred, owed>>

-----------------------------------------------------------------------------
DeletionBegins(S) ==
    /\ doomed' = doomed \cup Begun(S)
    /\ raced' = raced \cup {l \in Listeners : added[l] = "begun"}

(* Mutation: a dispatcher that does not exist is used all the same. *)
DelListenerUnchecked(x, tag) ==
    /\ pc[x] = "idle"
    /\ DeletionBegins(Tagged(tag))
    /\ Proceed(x, "del", center)
    /\ what' = With(what, x, Tagged(tag))
    /\ aim' = With(aim, x, Added(Tagged(tag)))
    /\ UNCHANGED <<center, listeners, copy, added, gone, barred, owed>>

(* delListener: getDispatcher(event, false) *)
DelListener(x, tag) ==
    /\ pc[x] = "idle"
    /\ DeletionBegins(Tagged(tag))
    /\ \/ /\ center # NoDispatcher
          /\ Proceed(x, "del", center)
          /\ what' = With(what, x, Tagged(tag))
          /\ aim' = With(aim, x, Added(Tagged(tag)))
          /\ UNCHANGED gone
       \/ /\ center = NoDispatcher
          /\ gone' = gone \cup Added(Tagged(tag))
          /\ UNCHANGED <<pc, at, what, aim>>
    /\ UNCHANGED <<center, listeners, copy, added, barred, owed>>

DeletionReturns(x) ==
    /\ Return(x)
    /\ what' = With(what, x, {})
    /\ gone' = gone \cup aim[x]
    /\ aim' = With(aim, x, {})

(* Mutation: one listener of the tag is erased. *)
EraseOne(x) ==
    /\ pc[x] = "del"
    /\ \/ what[x] \cap listeners[at[x]] = {} /\ UNCHANGED listeners
       \/ \E l \in what[x] \cap listeners[at[x]] :
             listeners' = With(listeners, at[x], listeners[at[x]] \ {l})
    /\ IF listeners'[at[x]] = {}
       THEN Proceed(x, "forget", at[x]) /\ UNCHANGED <<what, gone, aim>>
       ELSE DeletionReturns(x)
    /\ UNCHANGED <<center, copy, added, doomed, raced, barred, owed>>

(* Mutation: the whole map is cleared. *)
EraseAll(x) ==
    /\ pc[x] = "del"
    /\ listeners' = With(listeners, at[x], {})
    /\ Proceed(x, "forget", at[x])
    /\ UNCHANGED <<center, what, copy, added, doomed, raced, gone, aim, barred, owed>>

(* Mutation: the dispatcher is forgotten whether it is empty or not. *)
EraseAndForget(x) ==
    /\ pc[x] = "del"
    /\ listeners' = With(listeners, at[x], listeners[at[x]] \ what[x])
    /\ Proceed(x, "forget", at[x])
    /\ UNCHANGED <<center, what, copy, added, doomed, raced, gone, aim, barred, owed>>

(* EventDispatcher::delListener, which reports whether the map is empty.    *)
Erase(x) ==
    /\ pc[x] = "del"
    /\ listeners' = With(listeners, at[x], listeners[at[x]] \ what[x])
    /\ IF listeners'[at[x]] = {}
       THEN Proceed(x, "forget", at[x]) /\ UNCHANGED <<what, gone, aim>>
       ELSE DeletionReturns(x)
    /\ UNCHANGED <<center, copy, added, doomed, raced, barred, owed>>

(* delDispatcher: the dispatcher that was empty is removed, if it is still  *)
(* the one of the event.                                                    *)
Forget(x) ==
    /\ pc[x] = "forget"
    /\ center' = IF center = at[x] THEN NoDispatcher ELSE center
    /\ DeletionReturns(x)
    /\ UNCHANGED <<listeners, copy, added, doomed, raced, barred, owed>>

ClearAll ==
    /\ center' = NoDispatcher
    /\ DeletionBegins(Listeners)
    /\ gone' = gone \cup Added(Listeners)
    /\ UNCHANGED <<listeners, pc, at, what, copy, added, aim, barred, owed>>

-----------------------------------------------------------------------------
(* emitEvent: getDispatcher(event) *)
EmitEvent(x) ==
    /\ pc[x] = "idle"
    /\ center # NoDispatcher
    /\ Proceed(x, "copy", center)
    /\ barred' = With(barred, x, gone)
    /\ owed' = With(owed, x, Added(listeners[center]))
    /\ UNCHANGED <<center, listeners, what, copy, added, doomed, raced, gone, aim>>

(* EventDispatcher::emitEvent *)
CopyMap(x) ==
    /\ pc[x] = "copy"
    /\ copy' = With(copy, x, listeners[at[x]])
    /\ Proceed(x, "call", at[x])
    /\ UNCHANGED <<center, listeners, what, history>>

CallListener(x, l) ==
    /\ pc[x] = "call" /\ l \in copy[x]
    /\ copy' = With(copy, x, copy[x] \ {l})
    /\ UNCHANGED <<center, listeners, pc, at, what, history>>

(* Everything was called, or a callback has interrupted the emission, or    *)
(* thrown something else.                                                   *)
EmitReturns(x) ==
    /\ pc[x] = "call"
    /\ copy' = With(copy, x, {})
    /\ barred' = With(barred, x, {})
    /\ owed' = With(owed, x, {})
    /\ Return(x)
    /\ UNCHANGED <<center, listeners, what, added, doomed, raced, gone, aim>>

-----------------------------------------------------------------------------
Next ==
    \/ \E x \in Activities :
          \/ Emplace(x) \/ Erase(x) \/ Forget(x)
          \/ EmitEvent(x) \/ CopyMap(x) \/ EmitReturns(x)
          \/ \E l \in Listeners : AddListener(x, l) \/ CallListener(x, l)
          \/ \E tag \in Tags : DelListener(x, tag)
    \/ ClearAll

Spec == Init /\ [][Next]_vars

-----------------------------------------------------------------------------
Attached(l) == center # NoDispatcher /\ l \in listeners[center]

(* An emission that begins after a deletion has returned does not call what *)
(* was deleted, whatever happened to the dispatchers in between.            *)
NoStaleCall == \A x \in Activities : copy[x] \cap barred[x] = {}

(* An emission finds every listener that was there when it began and that   *)
(* nobody deletes, though it looks up the dispatcher first and copies its   *)
(* map later.                                                               *)
NothingSkipped ==
    [][\A x \in Activities :
          pc[x] = "copy" /\ pc'[x] = "call" => owed[x] \ doomed \subseteq copy'[x]]_vars

(* A listener stays on the event until somebody asks to delete it, provided *)
(* that no deletion, of whatever tag, was going on while it was added.      *)
StaysUnlessRaced == \A l \in Added(Listeners) \ (doomed \cup raced) : Attached(l)

(* A listener that was added to the event is on it until somebody asks to   *)
(* delete it: what addListener and the comments of the tests promise.       *)
StaysUntilDeleted == \A l \in Added(Listeners) \ doomed : Attached(l)
=============================================================================
