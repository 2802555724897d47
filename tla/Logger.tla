-------------------------------- MODULE Logger --------------------------------
(***************************************************************************)
(* The Logger of src/Util/logger.cpp with its AsyncLogWriter: what happens *)
(* to a message between the thread that logs it and the channels.          *)
(*                                                                         *)
(* With a writer, write() appends the message to a locked list and posts a *)
(* semaphore; the writer's thread takes the whole list and hands message   *)
(* after message to writeChannels.  Without one, the thread that logs does *)
(* that itself, and since nothing is locked only one thread may.           *)
(*                                                                         *)
(* writeChannels suppresses a message that equals the last one (same line, *)
(* text and thread) and counts it there.  A line with "Last message        *)
(* repeated n times" stands for n messages; `reported` is what the lines   *)
(* given to the channels stand for, in their order.                        *)
(***************************************************************************)
EXTENDS Integers, Sequences

CONSTANTS
    Producers,   \* threads that log
    Texts,       \* what distinguishes messages: their line and their text
    NoMessage,   \* the LogContext that _last_log has at first
    MaxMessages, \* BOUND: messages logged
    MaxWriters   \* BOUND: calls of setWriter

Messages == [text : Texts, thread : Producers]

ASSUME LoggerAssumption ==
    /\ NoMessage \notin Messages
    /\ MaxMessages \in Nat /\ MaxWriters \in Nat

VARIABLES
    producer,    \* producer -> "idle", "post" or "direct"
    owner,       \* the thread that calls setWriter and ~Logger
    then,        \* why it destroys the writer: "async", "none" or "dead"
    writer,      \* where the thread of the writer is, "none" without one
    writers,     \* calls of setWriter so far
    _exit_flag, _sem, _pending,
    batch,       \* the local lists of writeChannels' two callers
    _last_log, repeat,    \* repeat is _last_log->_repeat
    logged,      \* HISTORY: all messages, in the order of their write()
    reported

(* Who calls writeChannels: the writer's thread, or the thread that destroys *)
(* the writer, respectively the one that logs without a writer.              *)
Callers == {"writer", "caller"}

queue == <<_sem, _pending>>
channels == <<_last_log, repeat, reported>>
vars == <<producer, owner, then, writer, writers, _exit_flag, queue, batch,
          channels, logged>>

TypeOK ==
    /\ producer \in [Producers -> {"idle", "post", "direct"}]
    /\ owner \in {"up", "flag", "post", "join", "flush", "final", "dead"}
    /\ then \in {"async", "none", "dead"}
    /\ writer \in {"none", "test", "wait", "swap", "flush", "exited"}
    /\ writers \in Nat
    /\ _exit_flag \in BOOLEAN
    /\ _sem \in Nat
    /\ _pending \in Seq(Messages)
    /\ batch \in [Callers -> Seq(Messages)]
    /\ _last_log \in Messages \cup {NoMessage}
    /\ repeat \in Nat
    /\ logged \in Seq(Messages) /\ reported \in Seq(Messages)
    /\ repeat > 0 => _last_log # NoMessage

Init ==
    /\ producer = [p \in Producers |-> "idle"]
    /\ owner = "up" /\ then = "dead"
    /\ writer = "none" /\ writers = 0
    /\ _exit_flag = FALSE /\ _sem = 0 /\ _pending = <<>>
    /\ batch = [c \in Callers |-> <<>>]
    /\ _last_log = NoMessage /\ repeat = 0
    /\ logged = <<>> /\ reported = <<>>

Copies(m, n) == [i \in 1..n |-> m]

-----------------------------------------------------------------------------
(* writeChannels. *)

(* A message like the last one is counted, and printed with the count when  *)
(* the last line is more than 500 ms old.                                   *)
Repeated(m, late) ==
    /\ m = _last_log
    /\ IF late
       THEN reported' = reported \o Copies(m, repeat + 1) /\ repeat' = 0
       ELSE reported' = reported /\ repeat' = repeat + 1
    /\ UNCHANGED _last_log

(* Mutation: the count of a message is not set back when it was printed. *)
DifferentKeepingCount(m) ==
    /\ m # _last_log
    /\ reported' = Append(reported \o Copies(_last_log, repeat), m)
    /\ _last_log' = m
    /\ UNCHANGED repeat

(* Another message is printed behind what was suppressed of the last one.   *)
Different(m) ==
    /\ m # _last_log
    /\ reported' = Append(reported \o Copies(_last_log, repeat), m)
    /\ _last_log' = m
    /\ repeat' = 0

WriteChannels(m) == Different(m) \/ \E late \in BOOLEAN : Repeated(m, late)

(* A caller hands over the next message of its list. *)
Hand(c) ==
    /\ batch[c] # <<>>
    /\ WriteChannels(Head(batch[c]))
    /\ batch' = [batch EXCEPT ![c] = Tail(@)]

-----------------------------------------------------------------------------
(* Threads that log. *)
Message(p, m) ==
    /\ owner = "up"
    /\ producer[p] = "idle"
    /\ m.thread = p
    /\ Len(logged) < MaxMessages
    /\ logged' = Append(logged, m)

Become(p, label) == producer' = [producer EXCEPT ![p] = label]

(* AsyncLogWriter::write *)
Push(p, m) ==
    /\ Message(p, m)
    /\ writer # "none"
    /\ _pending' = Append(_pending, m)
    /\ Become(p, "post")
    /\ UNCHANGED <<owner, then, writer, writers, _exit_flag, _sem, batch, channels>>

(* Mutation: no permit for a thread that is busy anyway. *)
PostIfWaiting(p) ==
    /\ producer[p] = "post"
    /\ _sem' = IF writer = "wait" THEN _sem + 1 ELSE _sem
    /\ Become(p, "idle")
    /\ UNCHANGED <<owner, then, writer, writers, _exit_flag, _pending, batch, channels, logged>>

Post(p) ==
    /\ producer[p] = "post"
    /\ _sem' = _sem + 1
    /\ Become(p, "idle")
    /\ UNCHANGED <<owner, then, writer, writers, _exit_flag, _pending, batch, channels, logged>>

(* Logger::write without a writer. *)
WriteDirect(p, m) ==
    /\ Message(p, m)
    /\ writer = "none"
    /\ \A other \in Producers : producer[other] = "idle"
    /\ batch' = [batch EXCEPT !["caller"] = <<m>>]
    /\ Become(p, "direct")
    /\ UNCHANGED <<owner, then, writer, writers, _exit_flag, queue, channels>>

Direct(p) ==
    /\ producer[p] = "direct"
    /\ Hand("caller")
    /\ Become(p, "idle")
    /\ UNCHANGED <<owner, then, writer, writers, _exit_flag, queue, logged>>

-----------------------------------------------------------------------------
(* The writer's thread: run and flushAll. *)
Goto(label) == writer' = label

TestExitFlag ==
    /\ writer = "test"
    /\ Goto(IF _exit_flag THEN "exited" ELSE "wait")
    /\ UNCHANGED <<producer, owner, then, writers, _exit_flag, queue, batch, channels, logged>>

(* Mutation: wait() returns whatever the count. *)
WaitNot ==
    /\ writer = "wait"
    /\ _sem' = _sem - 1
    /\ Goto("swap")
    /\ UNCHANGED <<producer, owner, then, writers, _exit_flag, _pending, batch, channels, logged>>

Wait ==
    /\ writer = "wait"
    /\ _sem > 0
    /\ _sem' = _sem - 1
    /\ Goto("swap")
    /\ UNCHANGED <<producer, owner, then, writers, _exit_flag, _pending, batch, channels, logged>>

TakePending(c) ==
    /\ batch' = [batch EXCEPT ![c] = _pending]
    /\ _pending' = <<>>

Swap ==
    /\ writer = "swap"
    /\ TakePending("writer")
    /\ Goto("flush")
    /\ UNCHANGED <<producer, owner, then, writers, _exit_flag, _sem, channels, logged>>

Flush ==
    /\ writer = "flush"
    /\ Hand("writer")
    /\ UNCHANGED <<producer, owner, then, writer, writers, _exit_flag, queue, logged>>

Flushed ==
    /\ writer = "flush" /\ batch["writer"] = <<>>
    /\ Goto("test")
    /\ UNCHANGED <<producer, owner, then, writers, _exit_flag, queue, batch, channels, logged>>

-----------------------------------------------------------------------------
(* setWriter and ~Logger.  Nobody logs meanwhile, as _writer has no lock.   *)
Quiet == \A p \in Producers : producer[p] = "idle"

(* A new writer comes with a list, a semaphore and a flag of its own.       *)
Install(what) ==
    /\ writer' = IF what = "async" THEN "test" ELSE "none"
    /\ owner' = IF what = "dead" THEN "final" ELSE "up"
    /\ _exit_flag' = FALSE /\ _sem' = 0 /\ _pending' = <<>>

CountWriters(what) ==
    writers' = IF what = "dead" THEN writers ELSE writers + 1

(* There was no writer. *)
SetFirstWriter(what) ==
    /\ owner = "up" /\ Quiet
    /\ what # "dead" => writers < MaxWriters
    /\ writer = "none"
    /\ Install(what)
    /\ CountWriters(what)
    /\ UNCHANGED <<producer, then, batch, channels, logged>>

(* The old one is destroyed; `what` follows. *)
ReplaceWriter(what) ==
    /\ owner = "up" /\ Quiet
    /\ what # "dead" => writers < MaxWriters
    /\ writer # "none"
    /\ owner' = "flag" /\ then' = what
    /\ CountWriters(what)
    /\ UNCHANGED <<producer, writer, _exit_flag, queue, batch, channels, logged>>

(* ~AsyncLogWriter *)
SetExitFlag ==
    /\ owner = "flag"
    /\ _exit_flag' = TRUE
    /\ owner' = "post"
    /\ UNCHANGED <<producer, then, writer, writers, queue, batch, channels, logged>>

PostExit ==
    /\ owner = "post"
    /\ _sem' = _sem + 1
    /\ owner' = "join"
    /\ UNCHANGED <<producer, then, writer, writers, _exit_flag, _pending, batch, channels, logged>>

(* Mutation: no flushAll after the join. *)
JoinOnly ==
    /\ owner = "join" /\ writer = "exited"
    /\ owner' = "flush"
    /\ UNCHANGED <<producer, then, writer, writers, _exit_flag, queue, batch, channels, logged>>

(* join, and the swap of flushAll *)
Join ==
    /\ owner = "join" /\ writer = "exited"
    /\ TakePending("caller")
    /\ owner' = "flush"
    /\ UNCHANGED <<producer, then, writer, writers, _exit_flag, _sem, channels, logged>>

FlushAll ==
    /\ owner = "flush"
    /\ Hand("caller")
    /\ UNCHANGED <<producer, owner, then, writer, writers, _exit_flag, queue, logged>>

Destroyed ==
    /\ owner = "flush" /\ batch["caller"] = <<>>
    /\ Install(then)
    /\ UNCHANGED <<producer, then, writers, batch, channels, logged>>

(* ~Logger logs an empty message, which pushes out what was suppressed.     *)
Final ==
    /\ owner = "final"
    /\ reported' = reported \o Copies(_last_log, repeat)
    /\ repeat' = 0
    /\ owner' = "dead"
    /\ UNCHANGED <<producer, then, writer, writers, _exit_flag, queue, batch, _last_log, logged>>

Terminated == owner = "dead" /\ UNCHANGED vars

-----------------------------------------------------------------------------
WriterStep == TestExitFlag \/ Wait \/ Swap \/ Flush \/ Flushed

OwnerStep == SetExitFlag \/ PostExit \/ Join \/ FlushAll \/ Destroyed \/ Final

Next ==
    \/ \E p \in Producers : Post(p) \/ Direct(p)
    \/ \E p \in Producers, m \in Messages : Push(p, m) \/ WriteDirect(p, m)
    \/ WriterStep \/ OwnerStep
    \/ \E what \in {"async", "none", "dead"} : SetFirstWriter(what) \/ ReplaceWriter(what)
    \/ Terminated

SafetySpec == Init /\ [][Next]_vars

(* Threads keep running; nobody is obliged to log or to destroy the logger. *)
Spec ==
    /\ SafetySpec
    /\ WF_vars(WriterStep) /\ WF_vars(OwnerStep)
    /\ \A p \in Producers : WF_vars(Post(p)) /\ WF_vars(Direct(p))

-----------------------------------------------------------------------------
(* What has been logged is what the lines printed so far stand for, then    *)
(* what is suppressed, then what the writer's thread and the destructor     *)
(* have in hand, then what is queued: nothing is lost, printed twice or     *)
(* overtaken, through any number of repetitions and changes of the writer.  *)
InOrder ==
    logged = reported \o Copies(_last_log, repeat)
                 \o batch["writer"] \o batch["caller"] \o _pending

(* When ~Logger has returned everything is on the channels, suppressed      *)
(* repetitions included.                                                    *)
AllReported == owner = "dead" => reported = logged

(* Each message is printed or counted without waiting for the next one.     *)
Handled == Len(reported) + repeat
EachHandled == \A n \in 1..MaxMessages : Len(logged) >= n ~> Handled >= n
=============================================================================
