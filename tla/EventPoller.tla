------------------------------ MODULE EventPoller ------------------------------
(***************************************************************************)
(* src/Poller/EventPoller.cpp as a task executor: the list of tasks, the   *)
(* pipe that wakes the loop thread (src/Poller/PipeWrap.cpp), the start of *)
(* the loop and the destructor.                                            *)
(*                                                                         *)
(* Threads interleave where the code gives up mtx_task_ or makes a system  *)
(* call: async_I pushes under the lock and writes the byte afterwards;     *)
(* onPipeEvent empties the pipe read by read and only then takes the list. *)
(* The pipe holds at most PipeCap bytes, its writes never block and may    *)
(* fail, and it may break at any moment.                                   *)
(*                                                                         *)
(* Descriptors other than the pipe's and the timers are left to other      *)
(* modules; their callbacks reach this part of the object as task bodies   *)
(* do, by calling async on the loop thread.                                *)
(***************************************************************************)
EXTENDS Integers, FiniteSets, Sequences, FiniteSetsExt

CONSTANTS
    Loop,        \* the thread runLoop(false) creates
    Owner,       \* the thread that creates and destroys the poller
    Clients,     \* other threads that use it
    Tasks,       \* BOUND: closures, each submitted at most once
    ExitTask,    \* the closure of shutdown(), which throws ExitException
    NoTask,
    PipeCap,     \* bytes the pipe holds before a write fails
    ReadChunk,   \* sizeof(buf) in onPipeEvent
    MaxBreaks    \* BOUND: how often the pipe breaks

ASSUME EventPollerAssumption ==
    /\ Loop # Owner
    /\ Clients \cap {Loop, Owner} = {}
    /\ ExitTask \notin Tasks
    /\ NoTask \notin Tasks \cup {ExitTask}
    /\ PipeCap \in Nat \ {0}
    /\ ReadChunk \in Nat \ {0}
    /\ MaxBreaks \in Nat

VARIABLES
    pc,          \* where each thread is
    list_task,   \* list_task_
    batch,       \* list_swap_ of the onPipeEvent that is executing tasks
    stack,       \* tasks being executed there, outermost first
    pipe,        \* bytes in pipe_
    broken,      \* reading pipe_ gives EOF or an error
    breaks,      \* how often that happened
    exit_flag,   \* exit_flag_
    arg,         \* the task of the async or sync call a thread is in
    stage,       \* task -> where it is in its life
    cancelled,   \* tasks whose Task::cancel() came before they ran
    late         \* tasks queued by the tasks the destructor itself runs

tasking == <<batch, stack, stage>>
piping == <<pipe, broken, breaks>>
vars == <<pc, list_task, tasking, piping, exit_flag, arg, cancelled, late>>

Threads == {Loop, Owner} \cup Clients

LoopPC == {"start", "posted", "select", "drain", "reopen", "swap", "run",
           "write", "exited"}
OwnerPC == {"waitstart", "up", "exitwrite", "join", "swap", "run", "write", "dead"}
ClientPC == {"idle", "write", "syncwrite", "syncwait"}

Stages == {"new", "queued", "running", "done", "skipped"}

TypeOK ==
    /\ pc \in [Threads -> LoopPC \cup OwnerPC \cup ClientPC]
    /\ pc[Loop] \in LoopPC
    /\ pc[Owner] \in OwnerPC
    /\ \A c \in Clients : pc[c] \in ClientPC
    /\ list_task \in Seq(Tasks \cup {ExitTask})
    /\ batch \in Seq(Tasks \cup {ExitTask})
    /\ stack \in Seq(Tasks)
    /\ pipe \in 0..PipeCap
    /\ broken \in BOOLEAN
    /\ breaks \in 0..MaxBreaks
    /\ exit_flag \in BOOLEAN
    /\ arg \in [Threads -> Tasks \cup {NoTask}]
    /\ stage \in [Tasks -> Stages]
    /\ cancelled \subseteq Tasks
    /\ late \subseteq Tasks

(* The owner has constructed the object and is inside runLoop(false).  The  *)
(* constructor does not initialise exit_flag_.                              *)
Init ==
    /\ pc = [x \in Threads |-> CASE x = Loop -> "start"
                                 [] x = Owner -> "waitstart"
                                 [] OTHER -> "idle"]
    /\ list_task = <<>>
    /\ batch = <<>>
    /\ stack = <<>>
    /\ pipe = 0
    /\ broken = FALSE
    /\ breaks = 0
    /\ exit_flag \in BOOLEAN
    /\ arg = [x \in Threads |-> NoTask]
    /\ stage = [t \in Tasks |-> "new"]
    /\ cancelled = {}
    /\ late = {}

At(x, label) == pc[x] = label

Goto(x, label) == pc' = [pc EXCEPT ![x] = label]

Move(t, to) == stage' = [stage EXCEPT ![t] = to]

-----------------------------------------------------------------------------
(* async, async_first, sync, sync_first. *)

(* Who may call: a client while somebody keeps the poller alive, and the    *)
(* thread that is executing a task, be it the loop or the destructor.       *)
Usable(x) ==
    IF x \in Clients
    THEN At(x, "idle") /\ At(Owner, "up")
    ELSE At(x, "run") /\ stack # <<>>

(* isCurrentThread(): on the loop thread, and everywhere once shutdown()    *)
(* has reset loop_thread_, which is when the destructor executes tasks.     *)
IsCurrentThread(x) == x \notin Clients

(* The first half of async_I, under mtx_task_. *)
Enqueue(x, t, first, next) ==
    /\ list_task' = IF first THEN <<t>> \o list_task ELSE Append(list_task, t)
    /\ arg' = [arg EXCEPT ![x] = t]
    /\ Goto(x, next)
    /\ Move(t, "queued")
    /\ late' = IF x = Owner THEN late \cup {t} ELSE late
    /\ UNCHANGED <<batch, stack, piping, exit_flag, cancelled>>

Async(x, t, maySync, first) ==
    /\ Usable(x)
    /\ stage[t] = "new"
    /\ ~(maySync /\ IsCurrentThread(x))
    /\ Enqueue(x, t, first, "write")

(* sync() lets the task run inline, so only other threads queue and wait. *)
Sync(x, t, first) ==
    /\ Usable(x)
    /\ stage[t] = "new"
    /\ ~IsCurrentThread(x)
    /\ Enqueue(x, t, first, "syncwrite")

(* The fast path: the task runs inside the call, on top of the caller. *)
RunInline(x, t) ==
    /\ Usable(x)
    /\ stage[t] = "new"
    /\ IsCurrentThread(x)
    /\ stack' = Append(stack, t)
    /\ Move(t, "running")
    /\ UNCHANGED <<pc, list_task, batch, piping, exit_flag, arg, cancelled, late>>

AfterWrite(x) ==
    CASE pc[x] = "syncwrite" -> "syncwait"
      [] pc[x] = "exitwrite" -> "join"
      [] pc[x] = "write" -> IF x \in Clients THEN "idle" ELSE "run"

(* Mutation: write only when the list was empty, "to save system calls". *)
ByteIfFirst ==
    pipe' = IF broken \/ pipe = PipeCap \/ Len(list_task) > 1
            THEN pipe ELSE pipe + 1

(* Mutation: a pipe without a bound. *)
ByteAlways == pipe' = pipe + 1

(* One byte, unless the pipe is full or broken: the result is ignored. *)
Byte == pipe' = IF broken \/ pipe = PipeCap THEN pipe ELSE pipe + 1

(* The second half of async_I, without the lock. *)
WritePipe(x) ==
    /\ pc[x] \in {"write", "syncwrite", "exitwrite"}
    /\ Byte
    /\ arg' = IF pc[x] = "write" THEN [arg EXCEPT ![x] = NoTask] ELSE arg
    /\ Goto(x, AfterWrite(x))
    /\ UNCHANGED <<list_task, tasking, broken, breaks, exit_flag, cancelled, late>>

(* sync() returns when the OnceToken of the task has posted its semaphore. *)
SyncReturn(x) ==
    /\ At(x, "syncwait")
    /\ stage[arg[x]] = "done"
    /\ Goto(x, "idle")
    /\ arg' = [arg EXCEPT ![x] = NoTask]
    /\ UNCHANGED <<list_task, tasking, piping, exit_flag, cancelled, late>>

(* cancel() through the handle async() returned; sync() keeps its own. *)
Cancel(t) ==
    /\ stage[t] = "queued"
    /\ ~At(Owner, "dead")
    /\ \A x \in Threads : arg[x] # t
    /\ cancelled' = cancelled \cup {t}
    /\ UNCHANGED <<pc, list_task, tasking, piping, exit_flag, arg, late>>

(* The other end of the pipe is gone; bytes in it are lost. *)
BreakPipe ==
    /\ ~At(Owner, "dead")
    /\ ~broken
    /\ breaks < MaxBreaks
    /\ broken' = TRUE
    /\ breaks' = breaks + 1
    /\ pipe' = 0
    /\ UNCHANGED <<pc, list_task, tasking, exit_flag, arg, cancelled, late>>

-----------------------------------------------------------------------------
(* The loop thread, runLoop(true): sem_loop_start_.post() and only then     *)
(* exit_flag_ = false.                                                      *)
LoopPost ==
    /\ At(Loop, "start")
    /\ Goto(Loop, "posted")
    /\ UNCHANGED <<list_task, tasking, piping, exit_flag, arg, cancelled, late>>

LoopReset ==
    /\ At(Loop, "posted")
    /\ exit_flag' = FALSE
    /\ Goto(Loop, "select")
    /\ UNCHANGED <<list_task, tasking, piping, arg, cancelled, late>>

(* select() reports the read end of the pipe: data, or EOF. *)
SelectReturns ==
    /\ At(Loop, "select")
    /\ pipe > 0 \/ broken
    /\ Goto(Loop, "drain")
    /\ UNCHANGED <<list_task, tasking, piping, exit_flag, arg, cancelled, late>>

(* onPipeEvent(false): read until the pipe is empty (EAGAIN) ... *)
DrainRead ==
    /\ At(Loop, "drain")
    /\ ~broken /\ pipe > 0
    /\ pipe' = Max({0, pipe - ReadChunk})
    /\ UNCHANGED <<pc, list_task, tasking, broken, breaks, exit_flag, arg,
                   cancelled, late>>

DrainEmpty ==
    /\ At(Loop, "drain")
    /\ ~broken /\ pipe = 0
    /\ Goto(Loop, "swap")
    /\ UNCHANGED <<list_task, tasking, piping, exit_flag, arg, cancelled, late>>

(* ... or until it turns out to be broken, and then open a new one.  Bytes  *)
(* written meanwhile go to the old pipe.                                    *)
DrainBroken ==
    /\ At(Loop, "drain")
    /\ broken
    /\ Goto(Loop, "reopen")
    /\ UNCHANGED <<list_task, tasking, piping, exit_flag, arg, cancelled, late>>

(* Mutation: after a successful reopen, return without taking the list. *)
ReopenAndReturn ==
    /\ At(Loop, "reopen")
    /\ broken' = FALSE
    /\ pipe' = 0
    /\ Goto(Loop, "select")
    /\ UNCHANGED <<list_task, tasking, breaks, exit_flag, arg, cancelled, late>>

Reopen ==
    /\ At(Loop, "reopen")
    /\ broken' = FALSE
    /\ pipe' = 0
    /\ Goto(Loop, "swap")
    /\ UNCHANGED <<list_task, tasking, breaks, exit_flag, arg, cancelled, late>>

(* Take the whole list, under mtx_task_.  The destructor comes here too. *)
SwapTasks(x) ==
    /\ At(x, "swap")
    /\ batch' = list_task
    /\ list_task' = <<>>
    /\ Goto(x, "run")
    /\ UNCHANGED <<stack, stage, piping, exit_flag, arg, cancelled, late>>

(* for_each over the batch: call a task, skip a cancelled one ... *)
Begin(x) ==
    /\ At(x, "run") /\ stack = <<>>
    /\ batch # <<>> /\ Head(batch) \in Tasks \ cancelled
    /\ batch' = Tail(batch)
    /\ stack' = <<Head(batch)>>
    /\ Move(Head(batch), "running")
    /\ UNCHANGED <<pc, list_task, piping, exit_flag, arg, cancelled, late>>

SkipCancelled(x) ==
    /\ At(x, "run") /\ stack = <<>>
    /\ batch # <<>> /\ Head(batch) \in cancelled
    /\ batch' = Tail(batch)
    /\ Move(Head(batch), "skipped")
    /\ UNCHANGED <<pc, list_task, stack, piping, exit_flag, arg, cancelled, late>>

(* ... catch ExitException and go on with the rest of the batch ... *)
RunExit(x) ==
    /\ At(x, "run") /\ stack = <<>>
    /\ batch # <<>> /\ Head(batch) = ExitTask
    /\ batch' = Tail(batch)
    /\ exit_flag' = TRUE
    /\ UNCHANGED <<pc, list_task, stack, stage, piping, arg, cancelled, late>>

(* ... and the innermost task returns or throws. *)
Finish(x) ==
    /\ At(x, "run") /\ stack # <<>>
    /\ Move(stack[Len(stack)], "done")
    /\ stack' = SubSeq(stack, 1, Len(stack) - 1)
    /\ UNCHANGED <<pc, list_task, batch, piping, exit_flag, arg, cancelled, late>>

(* Mutation: the flag is not looked at between two calls of select(). *)
LoopForever ==
    /\ At(Loop, "run") /\ stack = <<>> /\ batch = <<>>
    /\ Goto(Loop, "select")
    /\ UNCHANGED <<list_task, tasking, piping, exit_flag, arg, cancelled, late>>

(* The batch is done: while (!exit_flag_). *)
LoopTest ==
    /\ At(Loop, "run") /\ stack = <<>> /\ batch = <<>>
    /\ Goto(Loop, IF exit_flag THEN "exited" ELSE "select")
    /\ UNCHANGED <<list_task, tasking, piping, exit_flag, arg, cancelled, late>>

-----------------------------------------------------------------------------
(* The owner: runLoop(false) returns when the loop has posted. *)
RunLoopReturns ==
    /\ At(Owner, "waitstart")
    /\ ~At(Loop, "start")
    /\ Goto(Owner, "up")
    /\ UNCHANGED <<list_task, tasking, piping, exit_flag, arg, cancelled, late>>

(* ~EventPoller: shutdown() queues the exit task in front of everything.    *)
(* Nobody else holds a reference any more.                                  *)
Shutdown ==
    /\ At(Owner, "up")
    /\ \A c \in Clients : At(c, "idle")
    /\ list_task' = <<ExitTask>> \o list_task
    /\ Goto(Owner, "exitwrite")
    /\ UNCHANGED <<tasking, piping, exit_flag, arg, cancelled, late>>

(* Mutation: detach instead of join. *)
JoinWithoutWaiting ==
    /\ At(Owner, "join")
    /\ Goto(Owner, "swap")
    /\ UNCHANGED <<list_task, tasking, piping, exit_flag, arg, cancelled, late>>

(* loop_thread_->join(), loop_thread_ = nullptr, then onPipeEvent(true). *)
Join ==
    /\ At(Owner, "join")
    /\ At(Loop, "exited")
    /\ Goto(Owner, "swap")
    /\ UNCHANGED <<list_task, tasking, piping, exit_flag, arg, cancelled, late>>

(* The destructor returns; what its own tasks have queued is dropped. *)
Destroyed ==
    /\ At(Owner, "run") /\ stack = <<>> /\ batch = <<>>
    /\ Goto(Owner, "dead")
    /\ UNCHANGED <<list_task, tasking, piping, exit_flag, arg, cancelled, late>>

Terminated == At(Owner, "dead") /\ UNCHANGED vars

-----------------------------------------------------------------------------
LoopStep ==
    \/ LoopPost \/ LoopReset
    \/ SelectReturns \/ DrainRead \/ DrainEmpty \/ DrainBroken \/ Reopen
    \/ LoopTest

(* onPipeEvent after the pipe has been read, on either thread. *)
TaskStep(x) ==
    SwapTasks(x) \/ Begin(x) \/ SkipCancelled(x) \/ RunExit(x) \/ Finish(x)

OwnerStep == RunLoopReturns \/ Join \/ Destroyed

Next ==
    \/ LoopStep
    \/ OwnerStep
    \/ \E x \in {Loop, Owner} :
          \/ TaskStep(x)
          \/ \E t \in Tasks : RunInline(x, t)
    \/ \E x \in Threads :
          \/ WritePipe(x) \/ SyncReturn(x)
          \/ \E t \in Tasks, first \in BOOLEAN :
                \/ Sync(x, t, first)
                \/ \E maySync \in BOOLEAN : Async(x, t, maySync, first)
    \/ \E t \in Tasks : Cancel(t)
    \/ BreakPipe \/ Shutdown
    \/ Terminated

(* Threads keep running, select() returns when the pipe is readable, and    *)
(* task bodies end.  Nobody is obliged to submit, to cancel, to break the   *)
(* pipe or to destroy the poller.                                           *)
Fairness ==
    /\ WF_vars(LoopStep)
    /\ WF_vars(OwnerStep)
    /\ \A x \in {Loop, Owner} : WF_vars(TaskStep(x))
    /\ \A x \in Threads : WF_vars(WritePipe(x)) /\ WF_vars(SyncReturn(x))

SafetySpec == Init /\ [][Next]_vars

Spec == SafetySpec /\ Fairness

-----------------------------------------------------------------------------
(* The loop will not look at the list again. *)
LoopOver ==
    \/ At(Loop, "exited")
    \/ exit_flag /\ pc[Loop] \notin {"start", "posted"}

(* The byte is written after the list was unlocked, may be dropped by a     *)
(* full or broken pipe, and is read before the list is taken.  In spite of  *)
(* that a task in the list is never overlooked: something is still to be    *)
(* read, or a byte is about to be written, or the loop is on its way to the *)
(* list - unless the loop is over, and then the destructor takes it.        *)
NoLostWakeup ==
    list_task # <<>> =>
        \/ pipe > 0
        \/ broken
        \/ \E x \in Threads : pc[x] \in {"write", "syncwrite", "exitwrite"}
        \/ pc[Loop] \in {"drain", "reopen", "swap"}
        \/ LoopOver

InTasks(x) == pc[x] \in {"swap", "run", "write"}

(* Tasks run one at a time: the thread that destroys the poller executes    *)
(* what is left only after the loop thread has gone.                        *)
OneThreadRuns == ~(InTasks(Loop) /\ InTasks(Owner))

(* The poller is a task executor: each accepted task is run once or         *)
(* skipped, a cancelled one never starts, every task is served, by the loop *)
(* or by the destructor, and the destructor returns.  The only tasks that   *)
(* it may drop are those which the tasks it executes itself put in the list *)
(* (async with may_sync = false).                                           *)
Executor == INSTANCE TaskExecutor WITH
    stage <- [t \in Tasks |-> IF stage[t] = "queued"
                              THEN "accepted" ELSE stage[t]],
    phase <- CASE pc[Owner] \in {"waitstart", "up"} -> "open"
               [] pc[Owner] = "dead" -> "closed"
               [] OTHER -> "closing"

ExecutorSpec == Executor!Spec
=============================================================================
