# FFZKit: TLA+ models and proofs

FFZKit is a C++11 toolkit: an event loop with a cross-thread task list
(`src/Poller`), a thread pool and its synchronisation primitives
(`src/Thread`), a logger, an object pool, a broadcast centre, command line and
INI helpers (`src/Util`) and socket helpers (`src/Network`). This directory
holds TLA+ models of it, the TLC runs that check them and the TLAPS proofs.
All source paths below are relative to the repository (`src/src/...` is the
library, `src/tests/...` its test programs).

## 1. Inventory

| Component | State | Operations | Interacts with |
|---|---|---|---|
| semaphore (`Thread/semaphore.h`) | `_count`, wait set of `_condition` | `post(n)`, `wait()` | TaskQueue, `sync`, AsyncLogWriter, loop start |
| TaskQueue (`Thread/TaskQueue.h`) | `queue_`, `sem_` | `push_task`, `push_task_first`, `push_exit`, `get_task` | ThreadPool |
| ThreadGroup (`Thread/ThreadGroup.h`) | `threads_`, `thread_id_` | `create_thread`, `remove_thread`, `is_this_thread_in`, `join_all` | ThreadPool, tests |
| ThreadPool (`Thread/ThreadPool.h`) | a TaskQueue, a ThreadGroup, one `task` local per thread | `start`, `async`, `async_first`, `run`, `shutdown`, `wait`, destructor | callers of any thread, tasks that submit tasks |
| Task / TaskCancelableImp (`Thread/TaskExecutor.h`) | `_strongTask`, `_weakTask` | call, `cancel`, `operator bool` | both executors |
| TaskExecutorInterface (`Thread/TaskExecutor.cpp`) | a `semaphore` on the caller's stack | `sync`, `sync_first` | both executors |
| ThreadLoadCounter (`Thread/TaskExecutor.cpp`) | `_sleeping`, last times, `_time_list` | `startSleep`, `sleepWakeUp`, `load` | ThreadPool, EventPoller, getExecutor |
| TaskExecutorGetterImp (`Thread/TaskExecutor.cpp`) | `threads_`, `thread_pos_` | `getExecutor`, `getExecutorDelay`, `addPoller`, `for_each` | EventPollerPool |
| EventPoller: tasks (`Poller/EventPoller.cpp`) | `list_task_`, wake-up pipe, `exit_flag_`, `loop_thread_` | `async_I`, `onPipeEvent`, `runLoop`, `shutdown`, destructor | every thread that submits a task |
| EventPoller: descriptors | `event_map_`, `event_cache_expired_` | `addEvent`, `delEvent`, `modifyEvent`, select/epoll loop | Pipe, users' callbacks |
| EventPoller: timers | `delay_task_map_` | `doDelayTask`, `flushDelayTask`, `getMinDelay` | millisecond clock, task list |
| EventPollerPool | the pollers, `prefer_current_thread_` | `getPoller`, `getFirstPoller` | TaskExecutorGetterImp |
| PipeWrap, Pipe (`Poller/Pipe*.cpp`) | two descriptors | `reOpen`, `read`, `write`, `send` | EventPoller |
| Logger, AsyncLogWriter (`Util/logger.cpp`) | `_pending`, `_exit_flag`, `_last_log`, `_channels` | `write`, `writeChannels`, `run`, `flushAll`, destructors | every thread that logs |
| FileChannel (`Util/logger.cpp`) | `_log_file_map`, `_index`, `_last_day`, `_last_check_time`, `_can_write` | `write`, `changeFile`, `checkSize`, `clean` | Logger (re-entered through `ErrorL`), clock, file system |
| ResourcePool (`Util/ResourcePool.h`) | `free_list_`, `pool_size_`, `busy_` | `obtain`, `obtain2`, `recycle`, `setSize`, `quit` | Buffer, users |
| NoticeCenter (`Util/NoticeCenter.h`) | map of dispatchers, map of listeners each | `addListener`, `delListener`, `emitEvent`, `clearAll` | users' callbacks |
| CMD (`Util/CMD.{h,cpp}`) | command map, parser, two mutexes | `registCMD`, calls by name and by line, `OptionParser()` | getopt's global state |
| getopt (`win32/getopt.c`) | `optind`, `first_nonopt`, `last_nonopt`, `nextchar` | `getopt_long` | CMD |
| mINI, variant (`Util/mini.h`) | a map | `parse`, `dump` | CMD |
| Millisecond clock (`Util/util.cpp`) | four atomics | stamp thread, `getCurrentMillisecond` | timers, load counter |
| DnsCache, SockUtil (`Network/sockutil.cpp`) | `dns_cache_`, descriptors | `getDomainIP`, `connect`, `listen`, `bindUdpSock` | PipeWrap on Windows |
| wepoll (`win32/wepoll.c`) | ports, `sock_state`s in a tree and two queues, poll groups, reflocks | `epoll_ctl`, `epoll_wait`, `epoll_close` | EventPoller on Windows, AFD, the completion port |
| File (`Util/File.cpp`) | the file system | `create_file`, `create_path`, `delete_file`, `deleteEmptyDir`, `absolutePath` | FileChannel |
| local time (`Util/local_time.cpp`) | `_current_timezone`, `_daylight_active` | `local_time_init`, `no_locks_localtime` | logger, FileChannel |
| Buffer (`Network/Buffer.{h,cpp}`) | `size_`, `capacity_`, `data_` | `setCapacity`, `setSize`, `assign`, `create` | ResourcePool |
| Any, Creator, OnceToken, uv_errno, other win32 shims | | | |

### How the components interact

Everything that runs asynchronously goes through one of two executors.
`ThreadPool` gives tasks to a group of threads through a locked list and a
semaphore. `EventPoller` gives them to one loop thread through a locked list
and a byte in a pipe, which the same loop watches with `select()` beside the
users' descriptors and the timers. The loop's three jobs share one thread and
one object: a task or a timer may call `addEvent`, a descriptor's callback may
call `async`, and on the loop's own thread all of these take effect at once
while from other threads they are queued. `sync` puts a semaphore on the
caller's stack and waits for the task to post it. The logger has a writer
thread fed by a locked list and a semaphore of its own. `ResourcePool` and
`NoticeCenter` are passive objects called by any thread, which call user code
(constructors, `on_recycle`, listeners) outside their locks.

### What is hard

- *Two critical sections for one operation.* `TaskQueue::get_task` takes a
  permit and then a task; `async_I` pushes a task and then writes the byte;
  `addListener` finds the dispatcher and then adds to it; `getDomainIP` looks
  up and then fills. What the first section saw may be stale in the second.
- *Callbacks into the object that is calling.* A timer adds timers, a
  descriptor's callback deletes descriptors of the batch being dispatched, a
  listener deletes listeners, a task submits tasks to the executor that is
  being destroyed.
- *Destruction.* Executors, pools and the logger must not leave behind what
  was handed to them; the poller's destructor runs tasks on another thread
  than the loop's; a pool may go while deleters of its objects run.
- *Failure.* Tasks and constructors throw, the pipe fills up and breaks, a
  thread is descheduled while it holds a flag, the clock drops intervals.
- *Liveness.* Lost wake-ups, `sync` on the caller's own executor, a timer
  added while the loop computes how long to sleep.

### What makes each component correct

| Component | Properties |
|---|---|
| semaphore | a permit wakes somebody; permits are neither lost nor invented |
| ThreadPool | no thread ends early; each task is run once or skipped; the destructor drains the queue; `sync` returns |
| EventPoller: tasks | no lost wake-up; tasks run one at a time; the destructor serves what is left |
| EventPoller: descriptors | no callback of a deleted record; nothing ready is forgotten; nothing closed is watched; deletions complete |
| EventPoller: timers | none early, none lost, in deadline order, each fires |
| ResourcePool | one owner per object; nobody waits; the pool outlives its users |
| NoticeCenter | a deleted listener is not called; one that was added is; none is skipped |
| Logger | every message is written or counted as repeated, in order per thread, before the destructor ends |
| FileChannel | the files on disk are known and as many as they should be; older ones go before newer ones; the file written to stays |
| CMD, getopt | a command line means what it says from left to right; arguments are those of one's own call; no deadlock but one between the two mutexes |
| DnsCache, SockUtil | an answer is not older than the expiry; a failing step leaks no descriptor; the right adapter is told |
| mINI | `parse` of what `dump` wrote gives back the map |
| wepoll | no `sock_state` is freed while the kernel may write to it; nobody sleeps over a change; every event is reported; the close returns |
| the tree of wepoll | what was added and not deleted is found; no path is twice as long as another |
| load counter, getExecutor | the load is the share of the recent time; idle threads are used in turn; a measurement ends once |
| File | deleting spares what it was not asked to delete; no path leads out of its directory |
| Buffer | the memory is the buffer's own, and enough |
| local time | a time is given the date it has in the calendar; the day counted is the day named |

`PROJECT.json` lists the hazards of all of these at their lines, with the
properties that cover them or the reason why none does.

## 2. Plan

Order of work: first the executors, on which everything else rests, then the
objects shared by threads, then the mostly sequential parts.

1. *(done)* `Semaphore` with `AbstractSemaphore`: the primitive. Its
   refinement justifies the atomic semaphore and the fairness of the others.
2. *(done)* `TaskExecutor`, the contract; `ThreadPool` and `EventPoller`,
   which implement it.
3. *(done)* `PollerEvents` and `DelayTask`, the other two jobs of the loop.
4. *(done)* `ResourcePool`, `NoticeCenter`.
5. *(done)* `Logger`: the threads that log, `LogContext`'s repetition count,
   the writer thread and the destructors.
6. *(done)* `Wepoll`, the event loop's other half on Windows, with
   `RedBlackTree`.
7. *(done)* `FileChannel`, `Files`, `Paths`, `LocalTime`; `Sockets`;
   `CommandRegister`, `OptionParser` on `Getopt`; `LoadCounter`, `Executors`;
   `Ini`; `Buffers`.
8. *(open)* `Pipe` on an `EventPoller`, whose `addEvent` and `delEvent` may
   overtake each other; the size and the flushing of a log file.
9. *(done)* Proofs of the safety properties of each of these, but for what a
   command line and an ini file come to, and of the safety part of every
   refinement; see section 6.

## 3. Modules

`X.tla` is a component, `MCX.tla` with `MCX.cfg` an instance of it for TLC,
`XProofs.tla` its theorems. Definitions keep the names of the code where they
have one; `PROJECT.json` maps each of them to its lines. A comment that starts
with "Mutation:" precedes an alternative form of the definition that follows
it, a plausible bug that is used to show that a property notices it; no
specification refers to it.

### Semaphore, AbstractSemaphore

`count` is `_count`. A thread in `_condition.wait` is in `waiting`, and in
`notified` from the moment it is woken until it has `_mutex` back. One action
per critical section: `Post(n)` with `Notify` (one waiter for `n = 1`, all of
them otherwise, none when the wait set is empty), and the two outcomes of the
loop of `wait()`, `Take` and `Sleep`, entered for the first time (`EnterWait`)
or again (`Wake`). `Spurious` wakes a thread for no reason, and a caller that
was never asleep may take the permit of one that was woken. The abstract
semaphore has permits and a set of blocked threads; a thread is blocked there
from `Sleep` until it takes.

### TaskExecutor

The contract of `TaskExecutorInterface`: a task is accepted, or run inside the
call; an accepted one is run once, or skipped if cancelled; the destructor
returns when nothing is running and nothing accepted is left, other than tasks
marked `late`, which an implementation may drop. Fairness: accepted tasks that
are not late are served.

### ThreadPool

`TaskQueue`, `ThreadGroup`, `ThreadPool` and `sync` in one module, because the
interesting interleavings are between them. `queue` and `permits` are changed
in separate steps, as in `push_task` (`Async` or `Sync` puts the task in the
list, `Post` posts) and `get_task` (`Acquire` takes a permit, `GetTask` a
task, or `ExitThread` finds none). `owner` runs `start`, `shutdown` and
`join_all`. `stack` is the nesting of tasks that run inside `async` or `sync`
on a pool thread (`RunInline`), `held` the local `task` of `run()`, which
`Throw` leaves in place. `pc[w] = "new"` until `start()` has created the
thread; a thread that looks itself up before it is registered does not find
itself, which is why `maySync` alone does not decide.

### EventPoller

`list_task`, the pipe as a number of bytes (`pipe`, at most `PipeCap`, written
by `WritePipe` after the lock was given up, dropped when full), and the loop:
`"select"`, `"drain"` (the reads of `onPipeEvent`, `ReadChunk` bytes at a
time), `"reopen"` when a read reports EOF or an error, `"swap"`, `"run"`. The
owner waits for the loop to start, may `Shutdown`, which puts a task that
throws `ExitException` (`ExitTask`) in front of the list, joins, and then
executes what is left itself. The exit task only sets `exit_flag_`: the rest
of its batch is still executed before the loop looks at the flag. The flag
starts with any value, as the constructor does not set it.

### PollerEvents

`event_map` gives each descriptor the number of its record (0 for none), so
that a descriptor number that was closed, opened and added again has another
record. A batch is `callback_list`; `event_cache_expired_` is `expired`. Users
act through `view`, what they believe of a descriptor: they do not add it
twice, and close it only after its deletion, as told by `delEvent`'s value
(`CloseEarly`) or by the completion callback. Callbacks, tasks and other
threads use the three operations; on the loop thread these act at once,
elsewhere they append to `list_task`.

### DelayTask

Deadlines are on the library's clock `stamp`, sleeps on `real`. `Stamp` is one
round of the stamp thread, which drops what has passed if it is `Limit` or
more. The loop: `getMinDelay` (`NothingDue` or `FlushBegins`),
`flushDelayTask` entry by entry (`Flush`, then `TaskEnds`, or `TaskRepeats`
with the delay the task returns), `FlushEnds` merging the map back, `Select`
computing the time-out, and `WakeUp`, in which the pipe's callback inserts the
timers other threads `Post`ed; the other callbacks last until `EventsDone`. `Insert`
is `doDelayTask` on the loop thread; it happens between the steps of a flush
when a timer's task makes the call.

### ResourcePool

The steps are the accesses to `busy_` and to the list, kept apart on purpose:
an implementation of the lock that lets two threads in is visible in the model.
`strong` is who holds the pool: its `Owner` and each deleter whose
`weak_ptr::lock()` succeeded. `refs[o]` counts handles. `Destroy` lets the
owner go at any time after which the last deleter destroys the pool and the
kept objects with it. `alloc_` may throw, in `get` with the flag set.

### NoticeCenter

An *activity* is a call in progress: of a thread, or made by a callback during
an emission. `center` is the dispatcher the event is mapped to, `listeners`
the map inside each dispatcher, `at[x]` the dispatcher an activity has looked
up and holds by `shared_ptr`. Lookup and work are separate steps in
`addListener` (`AddListener`, `Emplace`), `delListener` (`DelListener`,
`Erase`, `Forget`) and `emitEvent` (`EmitEvent`, `CopyMap`, `CallListener`,
`EmitReturns`); `ClearAll` is one. The history variables record which
listeners were asked to be deleted and which additions overlapped a deletion.

### Logger

`Logger` and `AsyncLogWriter` in one module. A thread that logs is `"idle"`,
between its push and its post (`Push`, `Post`), or, without a writer, inside
`writeChannels` itself (`WriteDirect`, `Direct`). `writer` is where `run()` is:
`"test"` of the exit flag, `"wait"`, `"swap"` and `"flush"`, which hands over one
message at a time. `owner` is the thread that calls `setWriter` or `~Logger`: it
sets the flag, posts, joins and flushes (`SetExitFlag`, `PostExit`, `Join`,
`FlushAll`), then installs what follows (`then`). `batch` holds the local lists
`tmp` of the two callers of `writeChannels`. That function is `Different` for a
message unlike the last and `Repeated` for one like it; whether 500 ms have gone
by since the last line is the parameter `late`. A line is represented by the
messages it stands for: "Last message repeated n times" by n copies. `logged` is
a history variable. As `_writer` and, without a writer, `_last_log` are not
protected, the model has no writer changed while somebody logs, and only one
thread logging without a writer.

### Wepoll, RedBlackTree

The epoll that the Windows build uses. `socks` are the `sock_state` objects
there is memory for, `op` the request that each has in the kernel, `iocp` the
completion port, `taken[t]` the packets `GetQueuedCompletionStatusEx` gave to a
thread. The kernel may end a request because its event occurs, because it was
cancelled, or because the socket was closed, at any later time (`Kernel`); it
needs the memory of the `sock_state` until the packet has been taken, which is
what `SockDelete` (delayed deletion) and `FeedEvent` are about. `lock` is the
port's critical section; `UpdateEvents` takes one socket off the update queue
in each step, inside it. `registered`, `refs`, `destroy` and `signal` are the
handle tree and the reflock. A thread is `"gqcs"` while it waits, outside of
the lock and counted in `active_poll_count`.

`RedBlackTree` is the tree of handles and of sockets, pointer by pointer:
`Rotate`, `Replace` and the repair of colours after `Add` and `Del`, with the
sides as parameters, as the macros of the source have them. Each loop is a `Walk`,
its body (`Child`, `InsertRound`, `RemoveRound`) taken as often as there are
keys; a body that finds the loop at its end leaves everything as it is. That
this is often enough is part of what is proved.

### Getopt, OptionParser

`Getopt` is `getopt_long` as a function: a record of its static variables is
mapped to the next one, with what the call returned. `Exchange` is the swap of
segments of `argv`. `OptionParser` keeps the options under the numbers of the
code (`AddOption`, `DelOption`) and calls `getopt_long` (`NextOption`,
`Complete`) for one command line after the other. `Meaning` is what a command
line means, read once from left to right without moving anything. `<<` numbers
an option by how many there are, and drops one whose number is in use; its
letter then stands for the option that has the number, and still does when the
dropped option is added again and gets another. Such an option is in `lost`
until `delOption` meets it. `LettersRight` says that there are none as long as
only the last option is ever deleted, and that every other option's letter is
its own; what `ScansAll` and `CalledRight` say of the values given, they say of
every command line that has no letter of a lost option (`Unambiguous`), for
options with a history of any kind.

### CommandRegister

Threads that run commands by line (`RunLine`, the register's recursive lock
`mtx` is kept) or by name (`RunNamed`), then clear the command's arguments
(`Clear`), take the parsers' common lock (`Lock`), fill the arguments
(`ParseArgs`) and are called back (`Callback`), while others change the register.
`args[c]` is whose arguments a command holds; a command is its own `mINI`.
Every call ends with the deletion of `std::cout`: `CMD::operator()` makes an
owning `coutPtr` of it, whether it was given a stream or not. So does
`printHelp` without a stream (`PrintHelp`). That is undefined; `Leave` lets the
process end there (`aborted`, after which nothing happens) or go on with the
locks free. What a later use of the deleted stream may do is no more than that.

### FileChannel, LocalTime

A log file is a day and a number; `disk` is what exists, `log_file_map` what
the channel knows, ordered by name (`Rank`: with `Base` digits a number, as the
code has ten). Every record is written at once (`Write`): it opens a new file
for another day (`WriteOtherDay`) or, where `checkSize` says so, for the same
(`WriteSlice`), and opening calls `clean`. The time of a record may be that of
the last hour of the day before, and a restart finds what is on disk.
`daylight` tells whether daylight saving was in effect at the start: then the
last hour of a day is named after the next (`Named`) while days are counted
without. `LocalTime` is the calendar itself, `no_locks_localtime` step by step,
against the rule of the calendar (`DayNumber`).

### Files, Paths

`Files` is a directory tree that threads change by system calls: each of
`create_file` (`Access`, `Mkdir`, `OpenFile`) and `delete_file` (`Enter`,
`ReadEntry`, `Rmdir`, a frame of `stack` for every level of the recursion, then
`Look` for directories that became empty) is a step. `does[t]` is the local
state of the call a thread is in. `harmed`, `raced`, `alone` and `fresh` are
history. The names used are assumed to be consistent (`FilesAssumption`): what
is a file for one call is not a directory for another. `Paths` is `absolutePath` over characters,
with the lengths the code compares, against what a path means (`Meaning`). Its
loops are written as a recursive function of the round (`Loop`), one round of
the code after the other: `Read` a character of `split`, `Walk` a piece of the
path. Directories are assumed to be named as the system names them: absolute,
with single slashes, without `.` and `..` (`Directory`). A current directory may
be relative to the program's, and is then resolved first (`CurrentPath`). If it
is `..` of a program right under the root, what comes out is the empty string,
and resolving a path in it reads the last character of that; so does resolving
a directory such as `../..`, which comes to the root's parent. Both are
`undefined`, and so is `parentDir` of the empty string; `PathsRight` says that
the first two are so exactly in these cases, and that below the root there are
no others.

### LoadCounter, Executors

`LoadCounter` is `ThreadLoadCounter`, with `past` for what the thread really
did and `waits` for where it is: `startSleep` and `sleepWakeUp` are called by
turns, around the wait of one thread (`EventPoller.cpp:139-141`). The counter
itself begins with `_sleeping` set, before the thread has begun to wait: until
then (`Unstarted`) `load` takes all time for sleep and answers 0, and the first
`startSleep` records the same time as run. A `ThreadPool` has one counter for
all of its threads; with more than one its `load` is nobody's share, and the
model does not speak of it. `Executors` is `TaskExecutorGetterImp`: `Start` and `Compare` are the
search of `getExecutor`, which no lock protects, with loads that change
meanwhile; `Delay`, `DelayGive`, `DelayReturn`, `RunClosure` and `DropClosure`
the measurement, whose last owner (`Settle`) calls the callback.

### Ini, Buffers, Sockets

`Ini` assigns keys, dumps and parses, by way of the lines of a file and across
restarts (the file itself is written in one step). `Buffers` is
`BufferRaw` and its pool; a place is `"none"`, `"owner"` or `"pool"`, `data` is
null, memory of its own, or freed. `Sockets` has the descriptors of the process
(`fds`), the DNS cache with ages instead of times (`dns_cache`), the
initialisation of the static in `support_ipv6` (`flag`), and the calls of
`connect`, `listen` and `bindUdpSock` system call by system call, each of which
may fail; and the questions about network adapters.

### MCToolkit

The modules that share no state with others, side by side in one state space.
`component` is chosen at the beginning and is the one that runs. There are two
or three instances of a module where different bounds ask different questions
(`Slices` and `Days`; `Search`, `Delays` and `Overlap`; `Names`, `Descriptors`
and `Addresses`). Each property speaks of its component's states; the type
invariants of the components are conjuncts of their properties here, and of
`MemorySafe` in `Wepoll`.

## 4. Runs

Run one with `tlc -workers 2 -config <cfg> <module>`; all of them finish in
minutes.

| Run | Configuration | Question |
|---|---|---|
| `thread_pool` | `MCThreadPool.cfg` | is the pool a task executor, with tasks that submit, cancel, synchronise and throw? |
| `thread_pool_throw` | `MCThreadPoolThrow.cfg` | finding 1 |
| `event_poller` | `MCEventPoller.cfg` | is the poller a task executor, with a pipe that fills up and breaks? |
| `poller_events` | `MCPollerEvents.cfg` | are the right callbacks called, whatever callbacks and threads do? |
| `poller_events_close` | `MCPollerEventsClose.cfg` | finding 2 |
| `delay_task` | `MCDelayTask.cfg` | do timers fire, in order and in time, on a clock that loses time? |
| `resource_pool` | `MCResourcePool.cfg` | does every object have one owner, and does nobody wait? |
| `notice_center` | `MCNoticeCenter.cfg` | who is called, when additions, deletions and emissions overlap? |
| `notice_center_race` | `MCNoticeCenterRace.cfg` | finding 3 |
| `logger` | `MCLogger.cfg` | is each message reported, in order, through repetitions, a change of the writer and destruction? |
| `wepoll` | `MCWepoll.cfg` | is memory safe, is every change noticed and every event reported, does the close return? |
| `toolkit` | `MCToolkit.cfg` | everything that stands alone: see below |

`toolkit` asks, component by component:

| Component | Property | Question |
|---|---|---|
| semaphore | `AbstractSpec` | is the code a semaphore, liveness included? |
| ThreadPool with `auto_run` off | `ServedUnlessSelfSync` | are tasks served that were queued before and during `start()`? |
| RedBlackTree | `TreeCorrect` | is it a red-black tree of what was added, after every sequence of calls? |
| Getopt, OptionParser | `OptionsRight` | does each option get its value, whichever were added and deleted before, and are the arguments left in order? |
| CommandRegister | `CallsApart`, `CallsReturn` | are a call's arguments its own, and does every call return that outlives the deletion of `std::cout`? |
| FileChannel | `FilesKept`, `NewerStay` | are the files on disk known and few enough, and is it the oldest that go? |
| Files, Paths | `FilesKept` | is nothing deleted that was not asked for, does no path lead out, and when is one undefined? |
| Buffers | `BuffersRight` | is there memory for what was asked? |
| LocalTime | `DatesRight` | are dates those of the calendar, and days those of the names? |
| LoadCounter, Executors | `LoadsRight` | is the load right, the work spread, the measurement complete? |
| Ini | `ReadsBack` | is what was written read back, and again when it is written again? |
| Sockets | `SocketsRight` | is a descriptor lost, an address stale, a server exposed? |

The properties say where they do not hold, in the code's own terms: a command
that several threads run by name, letters of options that were added with a
number in use, files from slice number 100 of a day on or named with daylight
saving, entries of an ini file that were taken for a section when they were
read (`Mistaken`), buffers after a failed allocation, a thread that has not yet
begun to wait, two calls that wait for each other crosswise (`Crossed`: this
deadlock is in the code, and the property says that there is no other).

Not every invariant that is proved has a run of its own any more:
`WakeupCovered`, `NoEarlyExit`, and the type invariants.

Bounds, and why they are enough:

- *thread_pool*: two threads, two clients, three closures. Two threads are
  what it takes for one to find the queue empty because of the other, three
  tasks for one to be nested in another while a third waits.
- *event_poller*: two clients, three closures, a pipe of two bytes that is
  drained a byte at a time and breaks once: it can be full, half drained, and
  broken with tasks in the list.
- *poller_events*: two descriptors, two registrations each, so that a number
  is reused within a batch; one queued operation at a time, as the interesting
  orders are between a queued operation and those of the loop thread, and an
  operation that is taken while another is queued makes two. One kind of
  event: nothing is said about a record's several kinds.
- *delay_task*: two timers that repeat, delays 0 and 1, a clock that drops
  intervals of 2 and more, up to 2 in all. `MaxTime` 8 is larger than the last
  deadline (`Horizon` 3) plus what may be lost (2) plus the sleeps, so that
  every timer has time to fire; `MaxBusy` keeps a round from lasting for ever.
- *resource_pool*: two threads, three objects, sizes 1 and 2, so that the list
  fills up. One thread is not assumed to keep running. The number of objects
  bounds `obtain`. Deadlock is not checked: once the pool and all handles are
  gone there is nothing left to do.
- *notice_center*: two activities (two threads, or an emission and the calls
  of its callbacks), three listeners of which two share a tag, three
  dispatchers, one more than activities, so that one is always free.
  Activities and dispatchers are symmetric; no property of the run is a
  liveness property, so symmetry is sound.
- *logger*: two threads and four messages of two texts: three can be equal, so
  that a count reaches two and a fourth, different one pushes it out. `setWriter`
  is called up to twice, so that a writer is set and then replaced or removed
  before the destructor. Deadlock is checked: a destructor that hangs would show as one.
- *wepoll*: one thread that waits for ever and one that does everything else;
  two sockets, of which one always has an event and the other is added, changed,
  closed and deleted in up to three calls; groups of one socket and calls that
  return one event, so that there is more than one of each; two `sock_state`s,
  so that memory is reused. Deadlock is checked.
- *toolkit*: deadlock is not checked, as several components come to an end.
  - semaphore: four threads and posts of 0 to 3 permits. An error needs a
    sleeper, an overtaker and two woken threads; a fourth is to spare.
  - pool: two threads, a client, two tasks: one that runs while threads are
    created and synchronises, and one that it waits for.
  - tree: eight keys, which make a tree of four levels, so that every case of
    both repairs happens on both sides.
  - options: three options, one of each kind, with names that are
    abbreviations of others; command lines of up to two of six arguments, and
    longer ones in which arguments are moved twice; four edits, so that
    a number is used again. In a second instance (`Edits`), two options, three
    command lines and seven edits: it takes six until an option that was dropped
    is there again and its letter gives its value to the other.
  - commands: two threads, two names, a plain command and the help.
  - log: numbers of two digits in base 2, so that names are out of order from
    number 4 on, as they are from 100 on in the code; two files, two days for the slices; three days with
    one slice a day and daylight saving. The setters allow no less than one each.
  - files: two threads, a file two directories deep, another created beside it.
  - paths: all texts of up to four of slash, dot and a letter, below eight
    current directories, of which one comes to no characters at all and one to
    the root's parent.
  - buffers: one buffer, four sizes around the small capacity of 3, a
    pool of one. Calls on different buffers do not meet but in the pool, which is
    `ResourcePool`.
  - calendar: days of 24 hours of 4 seconds each (the code's lengths are
    constants of the module), with the ends of months in common and leap years,
    the leap days of 1972 and 2000 and the one 2100 has not; one zone east
    and one west.
  - load: three records, four units of time, five in all, so that records fall
    out of the window by number and by age.
  - executors: three threads of loads 0 and 50; two for callers that overlap; two
    measurements, as a closure of the first may be left when the second begins.
  - ini: two keys at a time out of twelve, with sections, without, and with every
    character that means something; with `.[a.b` and the value `]` the entry that
    is taken for a section is among them.
  - sockets: two threads and two descriptors; one name; all lists of
    up to two adapters.

## 5. Fairness

Each `Spec` says what the code's scheduling gives and no more.

- Threads of the library keep running, locks that are free are obtained,
  `select` returns when it was woken; task bodies and callbacks end.
- `ThreadPool` assumes that *some* waiting thread gets a permit when there is
  one (`WF_vars(\E w \in Workers : Acquire(w))`), not that a particular one
  does. That is what `AbstractSemaphore` promises and `semaphore` checks.
- Nobody is obliged to submit, cancel, delete, break the pipe or destroy.
- `DelayTask`: time passes and the stamp thread runs.
- `ResourcePool`: only the threads in `Scheduled` run. The others may stop
  anywhere, with the flag set too, which is how `NobodyWaits` shows that the
  pool does not block.
- `NoticeCenter` needs none: its properties are safety properties.
- `CommandRegister`, `Wepoll`: a thread that tries to get a lock that is let go
  time and again gets it (strong fairness, as a mutex and a critical section
  give), and a thread that is inside goes on.
- `Wepoll`: the kernel ends requests that can end and hands packets to some
  thread that waits, not to a particular one; the threads in `Loops` call
  `epoll_wait` again. Nobody is obliged to change sockets or close.
- The other modules of `toolkit` need none; where nothing is promised to happen
  eventually, nothing has to be fair.
- `Logger`: the writer's thread runs, a call of `write`, `setWriter` or `~Logger`
  that was begun goes on. Nobody is obliged to log or to destroy.

## 6. Proofs

All theorems are about `SafetySpec` (`Spec` where there is no fairness), for
every value of the constants that the named assumptions allow: any number of
threads, tasks, descriptors, files, and so on. The runs show the same on the
instances of section 4, and liveness besides.

### What is proved, and from which inductive invariants

- `ThreadPoolProofs`: `PermitBalance`, `NoEarlyExit` and `JoinedDrained` are
  inductive only together. The balance gives the other two (a thread that
  found the queue empty held a permit that was not a task's, so it was an exit
  permit), and `NoEarlyExit` is needed for the balance to count the threads
  that are still to end. `ImplementsExecutor` is the safety part of the
  refinement: `Tracked` says where a task is, in the queue, in the hand of one
  thread or on one stack, and only there. It assumes that there is a thread (`Workers # {}`): a pool of
  none drops what it is given, and its destructor returns all the same.
- The same module has the theorems of `Semaphore`. `WakeupCovered` is
  inductive with the types: a post of one permit to a non-empty wait set makes
  one more notified thread, any other post empties the wait set, and a thread
  leaves `notified` only by taking a permit or finding none.
  `SemaphoreImplementsAbstract`: every step is one of the abstract semaphore
  or stutters.
- `EventPollerProofs`: `NoLostWakeup` needs no strengthening beyond the types;
  a writer between its push and its byte, the byte, and the loop on its way
  from the pipe to the list hand the task on to each other. `OneThreadRuns`
  follows from `OwnerLast`, the owner gets to the tasks only after the loop
  thread has ended. `ImplementsExecutor` from `Tracked`: a task is in the list, the
  batch or the stack, these last two are those of the one thread that executes,
  and what the list holds once the owner has taken it came late.
- The same module has `Executors`. `MeasuredOnceEach` from `Accounted`: each
  thread that was turned to has its closure, has run it or has dropped it, and
  the callback was called when the caller and the closures had let go. `Spread` from `SearchesRight`, which says of a search in progress what
  it has seen of the loads it has passed, and `InTurn`, which says how the
  position and the executors given out in this round determine each other.
- And `LoadCounter`: `LoadIsShared` from `LoadKept`: the recorded spells lie
  behind each other without a gap up to the last sleep or wake-up, each says
  of its moments what the thread really did, and since then it has done what
  it is doing, or has not begun to wait and the list is empty. That dropping
  records from the front keeps this is an induction over the list, by the
  least number principle (`WFMin` of the library).
- `PollerEventsProofs`: `NoStaleCallback` from `CacheInv`, a record of the
  batch is current or its number is in the cache of deletions. `WatchedOpen`
  from `UserInv`, which ties the user's view of each descriptor to what is
  queued for it: at most one addition, none behind a deletion, and a
  descriptor that is deleted for its user is neither watched nor about to be.
  This needs users that wait for the completion callback.
- The same module has `Sockets`. `Descriptors` from `SocketsKept`: the calls in
  progress and the open descriptors point at each other. `Freshness` from
  `FreshKept`: an answer is at most `MaxResolve` seconds older than its entry in
  the cache, and was served while the entry was valid. `Addresses` from
  `ToldKept`: a reply belongs to the question and to the adapters that were
  listed. That the loops over the adapters come to the right one (the first
  private address, else the last usable one; the first with the name) is a
  lemma for each.
- `DelayTaskProofs`: `RoundInv`, the time a round goes by is not ahead of the
  clock, what enters the map meanwhile is due no earlier than that time, and
  what runs is not behind what is left. The same module has `LocalTime`:
  `Dates` from `CalendarKept`. The loops that take a year, or a month, off the days as
  long as there are enough are compared with a closed form, the days `Before`
  a year: the loop ends, and the number that is left determines the date.
- `ResourcePoolProofs`: `Lock` (whoever is inside has set the flag and is
  alone), `Kept` (whoever uses the list keeps the pool), `Owned` (the disjoint
  owners, object by object). A constructor that throws leaves the flag set
  with nobody inside, which `Lock` allows. The same module has `Buffers`:
  `Allocation` from `BuffersKept`, what is left of a buffer's last use when it
  lies in the pool.
- `NoticeCenterProofs`: `Adding`, `Deleted` and `Reachable`: what a deletion
  leaves behind is neither in the current dispatcher nor in one an emission
  began with afterwards; what was added is in the current dispatcher or was
  asked to go or overlapped a deletion. `NobodySkipped`, an action property,
  from `Owing`: whom an emission owes a call is in the map it is about to copy,
  or in its copy. The same module has `CommandRegister`: `OwnArguments` from
  `Apart`: a call by line has the register's lock for as long as it runs, two
  calls of one command are `mixed`, and the others find the arguments as they
  left them.
- `LoggerProofs`: `InOrder`, an equation of sequences, is inductive together
  with `Hands`, which says who may have messages in hand: the writer's thread
  and the destructor never both, and nobody beside a thread that logs directly.
  `WriteChannelsStep` is the heart of it: whatever `writeChannels` does with a
  message, it adds the message once at the end of what is printed and counted.
- The same module has `FileChannel`. `LogFiles` from `FilesInv`: as long as no
  file failed to open, the channel's map is what is on disk. That names are
  totally ordered (`Rank`, by digits) is a lemma of its own, and so is what is
  left by taking files from the front of that order one by one. `NewerFilesStay`
  is an action property that follows from the same invariant.
- It also has `Files`. `DeletionSpares` from `DiskInv`, six parts that are
  inductive only together: the directories of what exists, exist (`Tree`); a
  deletion is at or below its path, frame by frame, and below a directory found
  empty is only what came later (`CallsInv`, hence `NoHarm`); a creation that
  is alone finds the directories it has made (`AloneInv`); without overlapping
  creations a deletion has seen all there is in an open directory, and what it
  has read is gone but for what it is working on (`GoneInv`); and then every
  empty directory has a call that will remove or fill it (`Owed`).
- And it has `Paths`. `PathsResolved` rests on `Fitting`, an induction over the
  pieces of the path: as long as no more `..` have come than there were names to
  take, the string is the directory followed by a way whose pieces are the
  names that are left (`At`), and once there have been too many, one that may
  not go up has been sent back for good. For that `split` must respect
  concatenation (`SplitConcat`) and `parentDir` must take exactly one piece
  (`ParentIs`), which both need that slashes are single. `PathStaysInside`
  needs nothing of the directory: what the code compares are lengths. It is
  undefined for a directory of no name and for no other, as what a path comes to
  is never shorter than the directory with its slash.
- `WepollProofs`: `MemorySafe` is inductive as it stands. `AcquireWell` and
  `ReleaseWell` show that the poll groups stay sorted and their counts right,
  `PacketsMove` that a packet is in one place whether it is on its way, in the
  port or in a thread's hands, so that one that is taken twice, or after its
  `sock_state` was freed, cannot be. `Armed` needs `Watched`: outside of the critical
  section the update queue is empty while a thread waits (`QueueServed`), and a
  request covers what is asked for unless its socket is queued (`Requested`).
- The same module has `RedBlackTree`. `TreeIsCorrect` from `TreeKept`: there
  are a function that says what is below each node and one that says how many
  black nodes are on a way down from it, and with these the tree is ordered,
  linked both ways, complete (`Shape`), of equal black heights and without red
  below red (`Good`). Both are given explicitly for the tree after each change, so
  that no step needs an induction over the tree; the loops do, over the number of
  rounds, by the least number principle. Between the rounds of an
  insertion one node may be red below red (`InsertKept`), between those of a
  removal the ways through one node lack a black one (`RemoveKept`), and each round
  moves the flaw up or ends it (`Inserted`, `Removed`). A removal from the
  middle is the removal of the successor where it is (`SpliceIs`), followed by
  renaming it (`RenameIs`); that the pointers of `tree_del` come to this is
  `ReplacingIs`.

### Assumptions

Each module's constants are assumed to be what the code gives them
(`...Assumption`, which TLC evaluates in the runs). `SocketsUsed`,
`AdaptersUsed`, `RegisterUsed`, `BuffersUsed`, `ExecutorsUsed`, `LoadUsed`,
`CalendarUsed`, `TreeUsed`, `SemaphoreUsed`, `FilesUsed` (for
`FileChannel`) and `PathsUsed` (for
`Files`) restate them in the modules that prove about an instance. They say that sets of
names and threads are sets of values of the right kind, that limits are numbers
(positive where the setters see to that), for `Files` that names are
consistent, and for `Paths` that directories are named as the system does. Nothing is assumed of the schedule.

### Only model-checked

- Everything under fairness (`ExecutorSpec` and `AbstractSpec` with their
  liveness parts, `SyncReturns`, `ServedUnlessSelfSync`, `ReadyServed`,
  `DeletionReported`, `EveryTimerFires`, `NobodyWaits`, `EachHandled`,
  `EventReported`, `CloseReturns`, `CallsReturn`): liveness and `ENABLED` are
  beyond the prover.
- What a command line (`OptionsRight`) or an ini file (`ReadsBack`) comes to:
  recursive functions over sequences, compared with another reading of the whole
  sequence. The installed provers cannot instantiate
  the library's induction theorems, and the inductions that are proved above
  (over rounds of a loop, records of a list, pieces of a path, years) were set up by hand
  from the least number principle.
- The properties of `toolkit` name its instances of the components. The
  theorems are about the components themselves: `TreeCorrect`, `CallsApart`,
  `BuffersRight`, `NewerStay`, `DatesRight`, `LoadsRight`, `SocketsRight` and
  `FilesKept` are proved whole.

## 7. What the code does not do as it says

1. A task that throws jumps over `task = nullptr` (`ThreadPool.h:129`): what
   its closure owns stays alive until its thread gets another task, for ever
   on an idle pool. `test_threadPool.cpp` waits for exactly such a release.
   Run `thread_pool_throw`.
2. `delEvent` returns 0 on other threads before anything is deleted. A user
   that goes by it and closes the descriptor leaves `select()` with a bad
   descriptor: the loop spins, and no longer serves its pipe, so that the
   deletion is never executed. `EventPoller.h:67-70` promises "0: success".
   Run `poller_events_close`; waiting for the completion callback is safe.
3. `addListener` and `delListener` each work in two critical sections: a
   listener added while the last other one is deleted may end up in a
   dispatcher that no event reaches. Run `notice_center_race`; `StaysUnlessRaced`
   shows that nothing else loses a listener.

## 8. Not modelled, and why

- ThreadPool: thread priorities and affinity (no effect on the order of
  steps), a pool destroyed before it was started (its `join_all` has nothing
  to wait for), a pool that is started twice, a pool destroyed by its own task.
- EventPoller: a `reOpen` that fails, the last reference dropped on the loop
  thread (undefined afterwards), the epoll build, which CMake selects on
  Windows only, and events computed into `attach` before `modifyEvent` changes
  the interest.
- Timers: overflow of 64-bit milliseconds; changes of the system's time.
- ResourcePool: `setSize` while others use the pool, a data race the callers
  must avoid; an `on_recycle` that throws, which ends the program.
- NoticeCenter: argument types and the bad cast that a wrong one throws.
- Logger: the set of channels and their levels, which play no part in the
  repetition count. With a synchronous logger, the `ErrorL` in `changeFile`
  calls the channel that is writing.
- FileChannel: when a file is large enough (any time, in the model), buffering;
  files of other programs that end in `.log`, which `clean` would delete.
- Wepoll: the initialisation of the library; requests that fail for other reasons than a
  closed handle, and a cancellation that fails; a socket handle that the
  system gives out again while its old one is watched; `port_delete` with
  requests still in the kernel, whose memory it frees; and the assertion in
  `epoll_ctl` that fails if the port's handle is closed before a new group
  opens its device.
- Getopt: `getopt_long_only`, `-W`, the prefixes `+` and `-` of the short
  options (`RETURN_IN_ORDER`), messages: the parser asks for none of them.
- CommandRegister: a callback that runs another command, which would take the
  parsers' lock again and stop; a command by line that removes itself while
  it runs; what is printed, so that the use of a deleted `std::cout` counts as
  a part of its deletion.
- Executors: a pool of no threads, for which `addPoller` divides by zero; the
  preference for the calling poller, which is a test without state.
- Sockets: the options of a socket, conversions of addresses, multicast, the
  Windows and macOS branches, a `connect` that reports `ENOBUFS` and is
  taken to be in progress.
- Ini: a file half written by `dumpFile`, which is not atomic; `variant`.
- Buffers: the bytes. A `new` that throws in `setCapacity` comes after the
  `delete[]`; the buffer is then left with memory that is not its own, and
  `create` gives it back to the pool. The model goes through it (`"freed"`),
  and `BuffersRight` promises nothing from there on.
- Files: links, permissions, other kinds of failure than those of paths
  that are or are not there. Two threads that create the same directory may
  make one of them fail, and `deleteEmptyDir` may take a file that was created
  in the directory it had found empty: `FilesSpared` allows for both.
- Paths: what comes of reading the last character of an empty string
  (`undefined`: `back()` in `parentDir` and twice in `absolutePath`), and names
  appended to it beyond the root with `can_access_parent`.
- LocalTime: the Windows branch of `local_time_init`, whose value is not used
  there; times before 1970.
- Components with status `not_modelled` in `PROJECT.json`: wrappers of single
  system calls, tables, formatting, string helpers, third-party code.
