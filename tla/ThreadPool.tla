------------------------------ MODULE ThreadPool ------------------------------
(***************************************************************************)
(* src/Thread/ThreadPool.h with the TaskQueue and the ThreadGroup it is    *)
(* made of and the sync() of src/Thread/TaskExecutor.cpp.                  *)
(*                                                                         *)
(* Threads interleave at the points where the code gives up a lock:        *)
(*   - push_task releases the queue's mutex before it posts the semaphore; *)
(*   - get_task takes a permit and then, in a second critical section,     *)
(*     takes a task, or finds the queue empty and ends the thread;         *)
(*   - shutdown posts one permit per thread and join_all waits.            *)
(* The semaphore is the one of AbstractSemaphore.tla: `permits`, and the   *)
(* workers at "wait" as the blocked threads.                               *)
(*                                                                         *)
(* A task body is any finite sequence of calls on the pool, cancellations  *)
(* included, that ends by returning or by throwing a std::exception.       *)
(***************************************************************************)
EXTENDS Integers, FiniteSets, Sequences

CONSTANTS
    Workers,     \* the threads of the pool; thread_num_ is their number
    Clients,     \* other threads that use the pool
    Tasks,       \* BOUND: closures, each submitted at most once
    NoTask,
    AutoRun      \* the constructor's auto_run argument

ASSUME ThreadPoolAssumption ==
    /\ IsFiniteSet(Workers)
    /\ IsFiniteSet(Clients)
    /\ Workers \cap Clients = {}
    /\ NoTask \notin Tasks
    /\ AutoRun \in BOOLEAN

VARIABLES
    owner,       \* the thread that constructs, starts and destroys the pool
    pc,          \* where each worker and client is
    queue,       \* task_queue_.queue_
    permits,     \* task_queue_.sem_
    arg,         \* the task of the async or sync call a thread is in
    stack,       \* worker -> tasks it is executing, outermost first
    held,        \* worker -> the local `task` of run()
    stage,       \* task -> where it is in its life
    cancelled    \* tasks whose Task::cancel() came before they ran

vars == <<owner, pc, queue, permits, arg, stack, held, stage, cancelled>>

Threads == Workers \cup Clients

ClientPC == {"idle", "post", "postsync", "syncwait"}
WorkerPC == {"new", "wait", "got", "have", "run", "exited",
             "post", "postsync", "syncwait"}
Stages == {"new", "queued", "taken", "running", "done", "skipped"}

TypeOK ==
    /\ owner \in {"start", "up", "join", "dead"}
    /\ pc \in [Threads -> ClientPC \cup WorkerPC]
    /\ \A c \in Clients : pc[c] \in ClientPC
    /\ \A w \in Workers : pc[w] \in WorkerPC
    /\ queue \in Seq(Tasks)
    /\ permits \in Nat
    /\ arg \in [Threads -> Tasks \cup {NoTask}]
    /\ stack \in [Workers -> Seq(Tasks)]
    /\ held \in [Workers -> Tasks \cup {NoTask}]
    /\ stage \in [Tasks -> Stages]
    /\ cancelled \subseteq Tasks
    /\ \A w \in Workers : pc[w] = "have" => held[w] \in Tasks

Init ==
    /\ owner = "start"
    /\ pc = [x \in Threads |-> IF x \in Workers THEN "new" ELSE "idle"]
    /\ queue = <<>>
    /\ permits = 0
    /\ arg = [x \in Threads |-> NoTask]
    /\ stack = [w \in Workers |-> <<>>]
    /\ held = [w \in Workers |-> NoTask]
    /\ stage = [t \in Tasks |-> "new"]
    /\ cancelled = {}

Goto(x, label) == pc' = [pc EXCEPT ![x] = label]

Move(t, to) == stage' = [stage EXCEPT ![t] = to]

-----------------------------------------------------------------------------
(* The owner. *)

(* start() creates the threads one after the other. *)
CreateThread(w) ==
    /\ owner = "start"
    /\ pc[w] = "new"
    /\ Goto(w, "wait")
    /\ UNCHANGED <<owner, queue, permits, arg, stack, held, stage, cancelled>>

StartDone ==
    /\ owner = "start"
    /\ \A w \in Workers : pc[w] # "new"
    /\ owner' = "up"
    /\ UNCHANGED <<pc, queue, permits, arg, stack, held, stage, cancelled>>

(* Mutation: push_exit(1) instead of one permit per thread. *)
ShutdownOnePermit ==
    /\ owner = "up"
    /\ \A c \in Clients : pc[c] = "idle"
    /\ owner' = "join"
    /\ permits' = permits + 1
    /\ UNCHANGED <<pc, queue, arg, stack, held, stage, cancelled>>

(* ~ThreadPool, first half: shutdown().  No other thread than the pool's    *)
(* own may still be using the object.                                       *)
Shutdown ==
    /\ owner = "up"
    /\ \A c \in Clients : pc[c] = "idle"
    /\ owner' = "join"
    /\ permits' = permits + Cardinality(Workers)
    /\ UNCHANGED <<pc, queue, arg, stack, held, stage, cancelled>>

(* ~ThreadPool, second half: wait(), i.e. join_all() on every thread. *)
JoinAll ==
    /\ owner = "join"
    /\ \A w \in Workers : pc[w] = "exited"
    /\ owner' = "dead"
    /\ UNCHANGED <<pc, queue, permits, arg, stack, held, stage, cancelled>>

-----------------------------------------------------------------------------
(* async(), async_first() and sync(). *)

(* The pool can be called: a client has no reference to it before the       *)
(* constructor is done, and with auto_run that includes start().            *)
Usable(x) ==
    IF x \in Workers
    THEN pc[x] = "run"
    ELSE /\ pc[x] = "idle"
         /\ owner \in (IF AutoRun THEN {"up"} ELSE {"start", "up"})

(* Mutation: no fast path, calls on pool threads are queued like others. *)
InGroupNever(x) == {FALSE}

(* is_this_thread_in().  While create_thread is writing thread_id_ and      *)
(* threads_ without a lock, a pool thread may look itself up in vain.       *)
InGroup(x) ==
    IF x \notin Workers THEN {FALSE}
    ELSE IF owner = "start" THEN BOOLEAN ELSE {TRUE}

(* Push at either end, under the queue's mutex; the post comes later. *)
Enqueue(x, t, first, next) ==
    /\ queue' = IF first THEN <<t>> \o queue ELSE Append(queue, t)
    /\ arg' = [arg EXCEPT ![x] = t]
    /\ Goto(x, next)
    /\ Move(t, "queued")
    /\ UNCHANGED <<owner, permits, stack, held, cancelled>>

Async(x, t, maySync, first) ==
    /\ Usable(x)
    /\ stage[t] = "new"
    /\ \E found \in InGroup(x) : ~(maySync /\ found)
    /\ Enqueue(x, t, first, "post")

(* sync() and sync_first() always allow the inline execution. *)
Sync(x, t, first) ==
    /\ Usable(x)
    /\ stage[t] = "new"
    /\ FALSE \in InGroup(x)
    /\ Enqueue(x, t, first, "postsync")

(* The fast path: the task runs inside the call, on top of the caller. *)
RunInline(w, t) ==
    /\ pc[w] = "run"
    /\ stage[t] = "new"
    /\ TRUE \in InGroup(w)
    /\ stack' = [stack EXCEPT ![w] = Append(@, t)]
    /\ Move(t, "running")
    /\ UNCHANGED <<owner, pc, queue, permits, arg, held, cancelled>>

Resume(x) == IF x \in Workers THEN "run" ELSE "idle"

(* Mutation: no post for what is queued before the threads exist. *)
PostAfterStart(x) ==
    /\ pc[x] \in {"post", "postsync"}
    /\ permits' = IF owner = "start" THEN permits ELSE permits + 1
    /\ IF pc[x] = "post"
       THEN Goto(x, Resume(x)) /\ arg' = [arg EXCEPT ![x] = NoTask]
       ELSE Goto(x, "syncwait") /\ UNCHANGED arg
    /\ UNCHANGED <<owner, queue, stack, held, stage, cancelled>>

(* sem_.post() at the end of push_task. *)
Post(x) ==
    /\ pc[x] \in {"post", "postsync"}
    /\ permits' = permits + 1
    /\ IF pc[x] = "post"
       THEN Goto(x, Resume(x)) /\ arg' = [arg EXCEPT ![x] = NoTask]
       ELSE Goto(x, "syncwait") /\ UNCHANGED arg
    /\ UNCHANGED <<owner, queue, stack, held, stage, cancelled>>

(* sync() returns when the OnceToken of the task has posted its semaphore. *)
SyncReturn(x) ==
    /\ pc[x] = "syncwait"
    /\ stage[arg[x]] = "done"
    /\ Goto(x, Resume(x))
    /\ arg' = [arg EXCEPT ![x] = NoTask]
    /\ UNCHANGED <<owner, queue, permits, stack, held, stage, cancelled>>

(* cancel() through the handle async() returned; sync() keeps its own.      *)
(* After the task has started it has no effect.                             *)
Cancel(t) ==
    /\ owner # "dead"
    /\ stage[t] \in {"queued", "taken"}
    /\ \A x \in Threads : arg[x] # t
    /\ cancelled' = cancelled \cup {t}
    /\ UNCHANGED <<owner, pc, queue, permits, arg, stack, held, stage>>

-----------------------------------------------------------------------------
(* The loop of a pool thread, run(). *)

(* Mutation: wait() that does not test the counter, an unsigned number. *)
AcquireUnchecked(w) ==
    /\ pc[w] = "wait"
    /\ permits' = permits - 1
    /\ Goto(w, "got")
    /\ UNCHANGED <<owner, queue, arg, stack, held, stage, cancelled>>

(* Mutation: wait() that forgets to consume its permit. *)
AcquireForFree(w) ==
    /\ pc[w] = "wait"
    /\ permits > 0
    /\ Goto(w, "got")
    /\ UNCHANGED <<owner, queue, permits, arg, stack, held, stage, cancelled>>

(* get_task: sem_.wait() ... *)
Acquire(w) ==
    /\ pc[w] = "wait"
    /\ permits > 0
    /\ permits' = permits - 1
    /\ Goto(w, "got")
    /\ UNCHANGED <<owner, queue, arg, stack, held, stage, cancelled>>

(* ... then a task off the front of the queue ... *)
GetTask(w) ==
    /\ pc[w] = "got"
    /\ queue # <<>>
    /\ queue' = Tail(queue)
    /\ held' = [held EXCEPT ![w] = Head(queue)]
    /\ Move(Head(queue), "taken")
    /\ Goto(w, "have")
    /\ UNCHANGED <<owner, permits, arg, stack, cancelled>>

(* Mutation: a thread ends as soon as shutdown was called. *)
ExitOnShutdown(w) ==
    /\ pc[w] = "got"
    /\ queue = <<>> \/ owner = "join"
    /\ held' = [held EXCEPT ![w] = NoTask]
    /\ Goto(w, "exited")
    /\ UNCHANGED <<owner, queue, permits, arg, stack, stage, cancelled>>

(* ... or an empty queue, on which the thread ends. *)
ExitThread(w) ==
    /\ pc[w] = "got"
    /\ queue = <<>>
    /\ held' = [held EXCEPT ![w] = NoTask]
    /\ Goto(w, "exited")
    /\ UNCHANGED <<owner, queue, permits, arg, stack, stage, cancelled>>

(* Mutation: operator() ignores cancel(). *)
BeginAnyway(w) ==
    /\ pc[w] = "have"
    /\ stack' = [stack EXCEPT ![w] = <<held[w]>>]
    /\ Move(held[w], "running")
    /\ Goto(w, "run")
    /\ UNCHANGED <<owner, queue, permits, arg, held, cancelled>>

(* Calling the task: lock the weak reference, call if it is still there.   *)
Begin(w) ==
    /\ pc[w] = "have"
    /\ held[w] \notin cancelled
    /\ stack' = [stack EXCEPT ![w] = <<held[w]>>]
    /\ Move(held[w], "running")
    /\ Goto(w, "run")
    /\ UNCHANGED <<owner, queue, permits, arg, held, cancelled>>

SkipCancelled(w) ==
    /\ pc[w] = "have"
    /\ held[w] \in cancelled
    /\ Move(held[w], "skipped")
    /\ held' = [held EXCEPT ![w] = NoTask]
    /\ Goto(w, "wait")
    /\ UNCHANGED <<owner, queue, permits, arg, stack, cancelled>>

(* The innermost task of the thread ends: an inline one goes back to its    *)
(* caller, the outermost one is dropped by `task = nullptr`.                *)
Finish(w) ==
    /\ pc[w] = "run"
    /\ LET depth == Len(stack[w]) IN
       /\ Move(stack[w][depth], "done")
       /\ stack' = [stack EXCEPT ![w] = SubSeq(@, 1, depth - 1)]
       /\ IF depth = 1
          THEN Goto(w, "wait") /\ held' = [held EXCEPT ![w] = NoTask]
          ELSE UNCHANGED <<pc, held>>
    /\ UNCHANGED <<owner, queue, permits, arg, cancelled>>

(* The outermost task throws: the catch of run() logs and goes on, and the  *)
(* assignment that drops the task was jumped over.                          *)
Throw(w) ==
    /\ pc[w] = "run"
    /\ Len(stack[w]) = 1
    /\ Move(stack[w][1], "done")
    /\ stack' = [stack EXCEPT ![w] = <<>>]
    /\ Goto(w, "wait")
    /\ UNCHANGED <<owner, queue, permits, arg, held, cancelled>>

-----------------------------------------------------------------------------
Terminated == owner = "dead" /\ UNCHANGED vars

Next ==
    \/ \E w \in Workers :
          \/ CreateThread(w) \/ Acquire(w) \/ GetTask(w) \/ ExitThread(w)
          \/ Begin(w) \/ SkipCancelled(w) \/ Finish(w) \/ Throw(w)
          \/ \E t \in Tasks : RunInline(w, t)
    \/ \E x \in Threads :
          \/ Post(x) \/ SyncReturn(x)
          \/ \E t \in Tasks, first \in BOOLEAN :
                \/ Sync(x, t, first)
                \/ \E maySync \in BOOLEAN : Async(x, t, maySync, first)
    \/ \E t \in Tasks : Cancel(t)
    \/ StartDone \/ Shutdown \/ JoinAll
    \/ Terminated

(* Threads keep running, started calls go on, and task bodies end.  Nothing *)
(* obliges clients to submit, to cancel, or the owner to destroy the pool.  *)
(* Permits go to some waiting thread, which is what AbstractSemaphore       *)
(* promises and Semaphore.tla keeps.                                        *)
Fairness ==
    /\ \A w \in Workers :
          /\ WF_vars(CreateThread(w))
          /\ WF_vars(GetTask(w) \/ ExitThread(w))
          /\ WF_vars(Begin(w) \/ SkipCancelled(w))
          /\ WF_vars(Finish(w) \/ Throw(w))
    /\ WF_vars(\E w \in Workers : Acquire(w))
    /\ \A x \in Threads : WF_vars(Post(x)) /\ WF_vars(SyncReturn(x))
    /\ WF_vars(StartDone) /\ WF_vars(JoinAll)

SafetySpec == Init /\ [][Next]_vars

Spec == SafetySpec /\ Fairness

-----------------------------------------------------------------------------
Got == {w \in Workers : pc[w] = "got"}
Exited == {w \in Workers : pc[w] = "exited"}
Posting == {x \in Threads : pc[x] \in {"post", "postsync"}}
Destroying == owner \in {"join", "dead"}

(* Threads that shutdown() has told to end and that have not ended yet. *)
ExitsDue ==
    IF Destroying THEN Cardinality(Workers) - Cardinality(Exited) ELSE 0

(* The semaphore and the queue are changed in separate critical sections,   *)
(* by different threads.  Between them this stays true: every task in the   *)
(* queue has its permit - waiting in the semaphore, held by a thread on its *)
(* way to the queue, or still to be posted - and during destruction there   *)
(* is one more for every thread that has not ended.                         *)
PermitBalance ==
    permits + Cardinality(Got) + Cardinality(Posting) = Len(queue) + ExitsDue

(* get_task tells a thread to end by an empty queue alone.  No thread ever  *)
(* draws that conclusion from a queue that is empty for the moment while    *)
(* the pool is in use.                                                      *)
NoEarlyExit == Exited # {} => Destroying

(* The destructor does not leave tasks behind, not even those that running  *)
(* tasks submitted after shutdown(): when join_all has seen the last thread *)
(* end, the queue is empty and no thread is in a task.                      *)
JoinedDrained ==
    (Workers # {} /\ \A w \in Workers : pc[w] = "exited") => queue = <<>>

(* A pool that starts its threads in the constructor is a task executor:    *)
(* each accepted task is run once or skipped, a cancelled one never starts, *)
(* every task is served, and the destructor returns when all are.           *)
Executor == INSTANCE TaskExecutor WITH
    stage <- [t \in Tasks |-> IF stage[t] \in {"queued", "taken"}
                              THEN "accepted" ELSE stage[t]],
    late <- {},
    phase <- CASE owner = "join" -> "closing"
               [] owner = "dead" -> "closed"
               [] OTHER -> "open"

ExecutorSpec == Executor!Spec

(* sync() returns, also when it is called by a task of the same pool and    *)
(* also when the task it waits for throws.                                  *)
SyncReturns ==
    \A x \in Threads : pc[x] = "postsync" ~> pc[x] = Resume(x)

(* With auto_run off, tasks may be queued before start().  They are all     *)
(* served, unless threads of the pool block in sync() on the pool itself,   *)
(* which they can when they look themselves up before they are registered.  *)
ServedUnlessSelfSync ==
    \A t \in Tasks :
        stage[t] = "queued" ~> \/ stage[t] \in {"running", "done", "skipped"}
                               \/ \E w \in Workers : pc[w] = "syncwait"

(* run() lets go of a task once it has ended (`task = nullptr`): what the   *)
(* closure keeps alive is released without waiting for another task.        *)
ClosureReleased ==
    \A t \in Tasks : stage[t] = "done" ~> \A w \in Workers : held[w] # t
=============================================================================
