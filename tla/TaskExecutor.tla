----------------------------- MODULE TaskExecutor -----------------------------
(***************************************************************************)
(* The contract of TaskExecutorInterface (src/Thread/TaskExecutor.h), the  *)
(* interface that ThreadPool and EventPoller implement: async() and        *)
(* async_first() accept a task, an accepted task is run once or, when it   *)
(* was cancelled before it started, skipped, and the destructor of the     *)
(* executor does not return before that has happened to every task.        *)
(*                                                                         *)
(* Which thread runs a task and in which order is left open: async_first   *)
(* may overtake, and a call made on a thread of the executor may run the   *)
(* task at once, inside the call.                                          *)
(***************************************************************************)
CONSTANT Tasks          \* closures handed to async, each at most once

VARIABLES
    stage,              \* task -> where it is in its life
    cancelled,          \* tasks whose handle was cancelled before they ran
    late,               \* tasks accepted while the destructor was running
    phase               \* "open", "closing" (in the destructor) or "closed"

vars == <<stage, cancelled, late, phase>>

Stages == {"new", "accepted", "running", "done", "skipped"}

TypeOK ==
    /\ stage \in [Tasks -> Stages]
    /\ cancelled \subseteq Tasks
    /\ late \subseteq Tasks
    /\ phase \in {"open", "closing", "closed"}

Init ==
    /\ stage = [t \in Tasks |-> "new"]
    /\ cancelled = {}
    /\ late = {}
    /\ phase = "open"

Move(t, from, to) ==
    /\ stage[t] = from
    /\ stage' = [stage EXCEPT ![t] = to]

(* async() queues the task.  What is handed over while the executor is      *)
(* being destroyed may be marked late: the executor need not serve it.      *)
Accept(t) ==
    /\ phase # "closed"
    /\ Move(t, "new", "accepted")
    /\ late' \in {late} \cup (IF phase = "closing" THEN {late \cup {t}} ELSE {})
    /\ UNCHANGED <<cancelled, phase>>

(* async() on a thread of the executor may run the task inside the call. *)
Inline(t) ==
    /\ phase # "closed"
    /\ Move(t, "new", "running")
    /\ UNCHANGED <<cancelled, late, phase>>

Start(t) ==
    /\ t \notin cancelled
    /\ Move(t, "accepted", "running")
    /\ UNCHANGED <<cancelled, late, phase>>

Skip(t) ==
    /\ t \in cancelled
    /\ Move(t, "accepted", "skipped")
    /\ UNCHANGED <<cancelled, late, phase>>

(* The task returned or threw. *)
Finish(t) ==
    /\ Move(t, "running", "done")
    /\ UNCHANGED <<cancelled, late, phase>>

(* Task::cancel() on a task that has not started; later it has no effect. *)
Cancel(t) ==
    /\ stage[t] = "accepted"
    /\ cancelled' = cancelled \cup {t}
    /\ UNCHANGED <<stage, late, phase>>

(* The destructor starts ... *)
BeginClose ==
    /\ phase = "open"
    /\ phase' = "closing"
    /\ UNCHANGED <<stage, cancelled, late>>

(* ... and returns when nothing is left but what came late. *)
Close ==
    /\ phase = "closing"
    /\ \A t \in Tasks : /\ stage[t] # "running"
                        /\ stage[t] = "accepted" => t \in late
    /\ phase' = "closed"
    /\ UNCHANGED <<stage, cancelled, late>>

Next ==
    \/ \E t \in Tasks :
          Accept(t) \/ Inline(t) \/ Start(t) \/ Skip(t) \/ Finish(t) \/ Cancel(t)
    \/ BeginClose
    \/ Close

SafetySpec == Init /\ [][Next]_vars

(* An accepted task is served, and the destructor returns. *)
Served(t) == t \notin late /\ (Start(t) \/ Skip(t))

Spec ==
    /\ SafetySpec
    /\ \A t \in Tasks : WF_vars(Served(t))
    /\ WF_vars(Close)
=============================================================================
