---------------------------- MODULE PollerEvents ----------------------------
(***************************************************************************)
(* The descriptors of src/Poller/EventPoller.cpp, in the build that uses   *)
(* select(): addEvent, delEvent, modifyEvent and the batch of callbacks    *)
(* that follows each select().                                             *)
(*                                                                         *)
(* The three operations take effect at once on the loop thread, and are    *)
(* queued as tasks by every other thread.  The queue's wake-up is the      *)
(* subject of EventPoller.tla; here the pipe is readable exactly while     *)
(* tasks are queued.                                                       *)
(*                                                                         *)
(* The user of a descriptor is well behaved: between an addEvent and the   *)
(* end of its deletion there is no second addEvent, and the descriptor is  *)
(* closed only afterwards.  `CloseEarly` says what ends a deletion for it: *)
(* the value 0 returned by delEvent, or the completion callback.           *)
(***************************************************************************)
EXTENDS Naturals, FiniteSets, Sequences

CONSTANTS
    Fds,         \* descriptor numbers, reused by the system after a close
    PipeFd,      \* the reading end of the poller's own pipe
    Kinds,       \* Event_Read, Event_Write, Event_Error, or some of them
    MaxAdds,     \* BOUND: calls of addEvent for a descriptor number
    MaxQueue,    \* BOUND: queued operations
    CloseEarly

ASSUME PollerEventsAssumption ==
    /\ PipeFd \notin Fds
    /\ MaxAdds \in Nat /\ MaxQueue \in Nat
    /\ CloseEarly \in BOOLEAN

VARIABLES
    pc,              \* "select", "dispatch", "callback" or "tasks"
    event_map,       \* event_map_: descriptor -> its record, 0 if it has none
    event,           \* the record's Poll_Record::event
    callback_list,   \* records of the batch still to be called; the order
                     \* is that of an unordered_map, that is any
    expired,         \* event_cache_expired_
    running,         \* records whose callback is executing, at most one
    list_task,       \* operations queued by other threads
    tasks,           \* the list the loop has taken
    adds,            \* calls of addEvent so far, which number the records
    view,            \* what the user of a descriptor believes of it
    open,            \* descriptors that are open
    ready            \* descriptor -> what it is ready for

loop == <<pc, callback_list, running>>
queues == <<list_task, tasks>>
system == <<open, ready>>
vars == <<loop, event_map, event, expired, queues, adds, view, system>>

Records == Fds \X (Nat \ {0})
Pipe == <<PipeFd, 0>>

(* What other threads queue for the loop. *)
Operations ==
    [op : {"add"}, fd : Fds, reg : Nat \ {0}, event : SUBSET Kinds]
        \cup [op : {"modify"}, fd : Fds, event : SUBSET Kinds]
        \cup [op : {"del"}, fd : Fds]

TypeOK ==
    /\ pc \in {"select", "dispatch", "callback", "tasks"}
    /\ event_map \in [Fds -> Nat]
    /\ event \in [Fds -> SUBSET Kinds]
    /\ callback_list \subseteq Records \cup {Pipe}
    /\ expired \subseteq Fds
    /\ running \subseteq Records
    /\ list_task \in Seq(Operations) /\ tasks \in Seq(Operations)
    /\ adds \in [Fds -> Nat]
    /\ view \in [Fds -> {"none", "added", "deleting", "deleted"}]
    /\ open \subseteq Fds
    /\ ready \in [Fds -> SUBSET Kinds]
    /\ pc = "callback" <=> running # {}
    /\ pc = "select" => callback_list = {}

Init ==
    /\ pc = "select"
    /\ event_map = [fd \in Fds |-> 0]
    /\ event = [fd \in Fds |-> {}]
    /\ callback_list = {} /\ expired = {} /\ running = {}
    /\ list_task = <<>> /\ tasks = <<>>
    /\ adds = [fd \in Fds |-> 0]
    /\ view = [fd \in Fds |-> "none"]
    /\ open = Fds
    /\ ready = [fd \in Fds |-> {}]

Watched == {fd \in Fds : event_map[fd] # 0}

-----------------------------------------------------------------------------
(* The operations as the loop thread executes them. *)

(* emplace does not replace a record that is already there. *)
Emplace(fd, reg, interest) ==
    /\ event_map' = IF fd \in Watched THEN event_map
                    ELSE [event_map EXCEPT ![fd] = reg]
    /\ event' = IF fd \in Watched THEN event ELSE [event EXCEPT ![fd] = interest]

(* Mutation: the descriptor is not put into event_cache_expired_. *)
EraseKeepingCache(fd) ==
    /\ event_map' = [event_map EXCEPT ![fd] = 0]
    /\ event' = [event EXCEPT ![fd] = {}]
    /\ UNCHANGED expired

Erase(fd) ==
    /\ event_map' = [event_map EXCEPT ![fd] = 0]
    /\ event' = [event EXCEPT ![fd] = {}]
    /\ expired' = IF fd \in Watched THEN expired \cup {fd} ELSE expired

(* Mutation: the completion callback always hears of a success. *)
AlwaysDeleted(fd) == TRUE

(* What delEvent returns on the loop thread, and what its callback is told. *)
Deleted(fd) == fd \in Watched

Modify(fd, interest) ==
    event' = IF fd \in Watched THEN [event EXCEPT ![fd] = interest] ELSE event

See(fd, what) == view' = [view EXCEPT ![fd] = what]

-----------------------------------------------------------------------------
(* Calls.  User code runs on the loop thread inside callbacks and tasks. *)
OnLoop == pc \in {"callback", "tasks"}

MayAdd(fd) ==
    /\ adds[fd] < MaxAdds
    /\ fd \in open /\ view[fd] \in {"none", "deleted"}

AddEvent(fd, interest) ==
    /\ OnLoop
    /\ MayAdd(fd)
    /\ Emplace(fd, adds[fd] + 1, interest)
    /\ adds' = [adds EXCEPT ![fd] = @ + 1]
    /\ See(fd, "added")
    /\ UNCHANGED <<loop, expired, queues, system>>

QueueAdd(fd, interest) ==
    /\ Len(list_task) < MaxQueue
    /\ MayAdd(fd)
    /\ list_task' = Append(list_task,
          [op |-> "add", fd |-> fd, reg |-> adds[fd] + 1, event |-> interest])
    /\ adds' = [adds EXCEPT ![fd] = @ + 1]
    /\ See(fd, "added")
    /\ UNCHANGED <<loop, event_map, event, expired, tasks, system>>

DelEvent(fd) ==
    /\ OnLoop
    /\ view[fd] = "added"
    /\ Erase(fd)
    /\ See(fd, IF Deleted(fd) THEN "deleted" ELSE "added")
    /\ UNCHANGED <<loop, queues, adds, system>>

(* The caller is told 0, success, before anything has been deleted. *)
QueueDel(fd) ==
    /\ Len(list_task) < MaxQueue
    /\ view[fd] = "added"
    /\ list_task' = Append(list_task, [op |-> "del", fd |-> fd])
    /\ See(fd, IF CloseEarly THEN "deleted" ELSE "deleting")
    /\ UNCHANGED <<loop, event_map, event, expired, tasks, adds, system>>

ModifyEvent(fd, interest) ==
    /\ OnLoop
    /\ view[fd] = "added"
    /\ Modify(fd, interest)
    /\ UNCHANGED <<loop, event_map, expired, queues, adds, view, system>>

QueueModify(fd, interest) ==
    /\ Len(list_task) < MaxQueue
    /\ view[fd] = "added"
    /\ list_task' = Append(list_task,
          [op |-> "modify", fd |-> fd, event |-> interest])
    /\ UNCHANGED <<loop, event_map, event, expired, tasks, adds, view, system>>

-----------------------------------------------------------------------------
(* The descriptors themselves. *)

BecomeReady(fd, kind) ==
    /\ fd \in open
    /\ ready' = [ready EXCEPT ![fd] = @ \cup {kind}]
    /\ UNCHANGED <<loop, event_map, event, expired, queues, adds, view, open>>

(* A callback reads or writes until the descriptor would block. *)
Consume(fd, kind) ==
    /\ fd \in {r[1] : r \in running}
    /\ ready' = [ready EXCEPT ![fd] = @ \ {kind}]
    /\ UNCHANGED <<loop, event_map, event, expired, queues, adds, view, open>>

Close(fd) ==
    /\ fd \in open /\ view[fd] = "deleted"
    /\ open' = open \ {fd}
    /\ ready' = [ready EXCEPT ![fd] = {}]
    /\ UNCHANGED <<loop, event_map, event, expired, queues, adds, view>>

Open(fd) ==
    /\ fd \notin open
    /\ open' = open \cup {fd}
    /\ See(fd, "none")
    /\ UNCHANGED <<loop, event_map, event, expired, queues, adds, ready>>

-----------------------------------------------------------------------------
(* The loop thread. *)

Polled == {fd \in Watched : event[fd] # {}}
Hits == {fd \in Watched : event[fd] \cap ready[fd] # {}}

(* Mutation: the pipe's turn comes when no other descriptor is ready. *)
BatchPipeLast ==
    IF Hits # {} THEN {<<fd, event_map[fd]>> : fd \in Hits}
    ELSE IF list_task # <<>> THEN {Pipe} ELSE {}

Batch ==
    {<<fd, event_map[fd]>> : fd \in Hits}
        \cup (IF list_task # <<>> THEN {Pipe} ELSE {})

(* Mutation: the descriptors deleted during a batch are never forgotten. *)
SelectKeepingCache ==
    /\ pc = "select"
    /\ Polled \subseteq open
    /\ Batch # {}
    /\ callback_list' = Batch
    /\ pc' = "dispatch"
    /\ UNCHANGED <<running, expired, event_map, event, queues, adds, view, system>>

(* select() returns; the records that are ready form the batch.  With a     *)
(* closed descriptor in the sets it fails, and the loop tries again.        *)
Select ==
    /\ pc = "select"
    /\ Polled \subseteq open
    /\ Batch # {}
    /\ callback_list' = Batch
    /\ expired' = {}
    /\ pc' = "dispatch"
    /\ UNCHANGED <<running, event_map, event, queues, adds, view, system>>

(* A record of the batch: its callback is called unless its descriptor was  *)
(* deleted earlier in the batch.                                            *)
CallBack(r) ==
    /\ pc = "dispatch" /\ r # Pipe
    /\ callback_list' = callback_list \ {r}
    /\ IF r[1] \in expired
       THEN UNCHANGED <<pc, running>>
       ELSE pc' = "callback" /\ running' = {r}
    /\ UNCHANGED <<event_map, event, expired, queues, adds, view, system>>

(* Mutation: an exception of a callback ends the batch. *)
CallBackThrows ==
    /\ pc = "callback"
    /\ pc' = "select" /\ running' = {}
    /\ UNCHANGED <<callback_list, event_map, event, expired, queues, adds, view, system>>

(* The callback returns, or throws, which only gets logged. *)
CallBackEnds ==
    /\ pc = "callback"
    /\ pc' = "dispatch" /\ running' = {}
    /\ UNCHANGED <<callback_list, event_map, event, expired, queues, adds, view, system>>

BatchEnds ==
    /\ pc = "dispatch" /\ callback_list = {}
    /\ pc' = "select"
    /\ UNCHANGED <<callback_list, running, event_map, event, expired, queues, adds, view, system>>

(* onPipeEvent: take the list ... *)
PipeEvent ==
    /\ pc = "dispatch" /\ Pipe \in callback_list
    /\ callback_list' = callback_list \ {Pipe}
    /\ pc' = "tasks"
    /\ tasks' = list_task /\ list_task' = <<>>
    /\ UNCHANGED <<running, event_map, event, expired, adds, view, system>>

(* ... and execute it, here the operations queued by other threads. *)
Task(op) == pc = "tasks" /\ tasks # <<>> /\ Head(tasks).op = op /\ tasks' = Tail(tasks)

TaskAdd ==
    /\ Task("add")
    /\ Emplace(Head(tasks).fd, Head(tasks).reg, Head(tasks).event)
    /\ UNCHANGED <<loop, expired, list_task, adds, view, system>>

TaskDel ==
    /\ Task("del")
    /\ LET fd == Head(tasks).fd IN
       /\ Erase(fd)
       /\ IF CloseEarly THEN UNCHANGED view
          ELSE See(fd, IF Deleted(fd) THEN "deleted" ELSE "added")
    /\ UNCHANGED <<loop, list_task, adds, system>>

TaskModify ==
    /\ Task("modify")
    /\ Modify(Head(tasks).fd, Head(tasks).event)
    /\ UNCHANGED <<loop, event_map, expired, list_task, adds, view, system>>

TasksDone ==
    /\ pc = "tasks" /\ tasks = <<>>
    /\ pc' = "dispatch"
    /\ UNCHANGED <<callback_list, running, event_map, event, expired, queues, adds, view, system>>

-----------------------------------------------------------------------------
User ==
    \/ \E fd \in Fds : DelEvent(fd) \/ QueueDel(fd) \/ Close(fd) \/ Open(fd)
    \/ \E fd \in Fds, interest \in SUBSET Kinds :
          \/ AddEvent(fd, interest) \/ QueueAdd(fd, interest)
          \/ ModifyEvent(fd, interest) \/ QueueModify(fd, interest)
    \/ \E fd \in Fds, kind \in Kinds : BecomeReady(fd, kind) \/ Consume(fd, kind)

Loop ==
    \/ Select \/ CallBackEnds \/ BatchEnds \/ PipeEvent
    \/ TaskAdd \/ TaskDel \/ TaskModify \/ TasksDone
    \/ \E r \in callback_list : CallBack(r)

Next == User \/ Loop

SafetySpec == Init /\ [][Next]_vars

(* The loop thread keeps running, and callbacks and tasks end. *)
Spec == SafetySpec /\ WF_vars(Loop)

-----------------------------------------------------------------------------
(* A batch is computed before its callbacks run, and these may delete and   *)
(* add descriptors, the same number included.  No callback is called for a  *)
(* record that has been deleted.                                            *)
NoStaleCallback ==
    [][\A r \in running' \ running : event_map[r[1]] = r[2]]_vars

(* A user that waits for the completion callback of delEvent closes no      *)
(* descriptor that select() still watches, in whatever order the immediate  *)
(* and the queued operations on it are executed.                            *)
WatchedOpen == Watched \subseteq open

(* A descriptor that stays ready for something it is watched for gets its   *)
(* callback, whatever was deleted and added under the same number before.   *)
Due(fd) == fd \in Hits /\ fd \notin {r[1] : r \in running}
ReadyServed == \A fd \in Fds : Due(fd) ~> ~Due(fd)

(* A deletion requested by another thread is executed and reported, however *)
(* busy the descriptors keep the loop.                                      *)
DeletionReported ==
    \A fd \in Fds : view[fd] = "deleting" ~> view[fd] # "deleting"

(* What delEvent reports is true: a descriptor of which it said "success"   *)
(* gets deleted, if it is not already.                                      *)
SuccessMeansDeleted ==
    \A fd \in Fds :
        view[fd] = "deleted" ~> fd \notin Watched \/ view[fd] # "deleted"
=============================================================================
