-------------------------- MODULE EventPollerProofs --------------------------
(***************************************************************************)
(* Theorems about the task side of src/Poller/EventPoller.cpp, for any     *)
(* clients and tasks, any capacity of the pipe, any size of the read       *)
(* buffer, and a pipe that breaks as often as one likes; and about         *)
(* src/Thread/TaskExecutor.cpp, the pool of pollers, of any size, and the  *)
(* load counter of each thread, with any limits.                           *)
(***************************************************************************)
EXTENDS EventPoller, FiniteSetTheorems, SequenceTheorems, WellFoundedInduction, TLAPS

-----------------------------------------------------------------------------
(* A read takes something out of the pipe, never more than is in it. *)
LEMMA ReadBound ==
  ASSUME NEW n \in Nat, NEW k \in Nat
  PROVE  /\ Max({0, n - k}) \in Nat
         /\ Max({0, n - k}) <= n
<1>1. \E x \in {0, n - k} : \A y \in {0, n - k} : x >= y
  <2>1. CASE n - k >= 0
    BY <2>1
  <2>2. CASE n - k < 0
    BY <2>2
  <2>3. QED
    BY <2>1, <2>2
<1>2. Max({0, n - k}) \in {0, n - k}
      /\ \A y \in {0, n - k} : Max({0, n - k}) >= y
  BY <1>1 DEF Max
<1>3. QED
  BY <1>2

LEMMA TypeStep ==
  ASSUME TypeOK, [Next]_vars
  PROVE  TypeOK'
<1> USE EventPollerAssumption
    DEF TypeOK, Threads, LoopPC, OwnerPC, ClientPC, Stages, Goto, Move, At,
        tasking, piping
<1>1. ASSUME LoopPost \/ LoopReset \/ SelectReturns \/ DrainEmpty
             \/ DrainBroken \/ LoopTest
      PROVE  TypeOK'
  BY <1>1 DEF LoopPost, LoopReset, SelectReturns, DrainEmpty, DrainBroken,
              LoopTest
<1>2. CASE DrainRead
  <2>1. /\ pipe \in Nat /\ ReadChunk \in Nat /\ PipeCap \in Nat
        /\ pipe <= PipeCap
        /\ pipe' = Max({0, pipe - ReadChunk})
    BY <1>2 DEF DrainRead
  <2>2. pipe' \in Nat /\ pipe' <= pipe
    BY <2>1, ReadBound
  <2>3. pipe' \in 0..PipeCap
    BY <2>1, <2>2
  <2>4. QED
    BY <1>2, <2>3 DEF DrainRead
<1>3. CASE Reopen
  <2>1. pipe' = 0 /\ broken' = FALSE /\ 0 \in 0..PipeCap
    BY <1>3 DEF Reopen
  <2>2. pc' = [pc EXCEPT ![Loop] = "swap"]
    BY <1>3 DEF Reopen
  <2>3. QED
    BY <1>3, <2>1, <2>2 DEF Reopen
<1>4. CASE OwnerStep
  BY <1>4 DEF OwnerStep, RunLoopReturns, Join, Destroyed
<1>5. ASSUME NEW x \in {Loop, Owner}, SwapTasks(x)
      PROVE  TypeOK'
  <2>1. list_task' \in Seq(Tasks \cup {ExitTask})
    BY <1>5, EmptySeq DEF SwapTasks
  <2>2. QED
    BY <1>5, <2>1 DEF SwapTasks
<1>6. ASSUME NEW x \in {Loop, Owner}, Begin(x)
      PROVE  TypeOK'
  <2>1. /\ Head(batch) \in Tasks
        /\ Tail(batch) \in Seq(Tasks \cup {ExitTask})
        /\ <<Head(batch)>> \in Seq(Tasks)
    BY <1>6 DEF Begin
  <2>2. QED
    BY <1>6, <2>1 DEF Begin
<1>7. ASSUME NEW x \in {Loop, Owner}, SkipCancelled(x) \/ RunExit(x)
      PROVE  TypeOK'
  <2>1. Tail(batch) \in Seq(Tasks \cup {ExitTask})
    BY <1>7 DEF SkipCancelled, RunExit
  <2>2. QED
    BY <1>7, <2>1 DEF SkipCancelled, RunExit
<1>8. ASSUME NEW x \in {Loop, Owner}, Finish(x)
      PROVE  TypeOK'
  <2>1. SubSeq(stack, 1, Len(stack) - 1) \in Seq(Tasks)
    OBVIOUS
  <2>2. QED
    BY <1>8, <2>1 DEF Finish
<1>9. ASSUME NEW x \in {Loop, Owner}, NEW t \in Tasks, RunInline(x, t)
      PROVE  TypeOK'
  <2>1. Append(stack, t) \in Seq(Tasks)
    OBVIOUS
  <2>2. QED
    BY <1>9, <2>1 DEF RunInline
<1>10. ASSUME NEW x \in Threads, WritePipe(x)
       PROVE  TypeOK'
  <2>1. pipe' \in 0..PipeCap
    <3>1. pipe' = IF broken \/ pipe = PipeCap THEN pipe ELSE pipe + 1
      BY <1>10 DEF WritePipe, Byte
    <3>2. QED
      BY <3>1
  <2>2. arg' \in [Threads -> Tasks \cup {NoTask}]
    BY <1>10 DEF WritePipe
  <2>3. CASE x = Loop
    BY <1>10, <2>1, <2>2, <2>3 DEF WritePipe, AfterWrite
  <2>4. CASE x = Owner
    BY <1>10, <2>1, <2>2, <2>4 DEF WritePipe, AfterWrite
  <2>5. CASE x \in Clients
    BY <1>10, <2>1, <2>2, <2>5 DEF WritePipe, AfterWrite
  <2>6. QED
    BY <2>3, <2>4, <2>5
<1>11. ASSUME NEW x \in Threads, SyncReturn(x)
       PROVE  TypeOK'
  BY <1>11 DEF SyncReturn
<1>12. ASSUME NEW x \in Threads, NEW t \in Tasks, NEW first \in BOOLEAN,
              NEW next, next = "write" \/ (next = "syncwrite" /\ x \in Clients),
              Usable(x), Enqueue(x, t, first, next)
       PROVE  TypeOK'
  <2>1. list_task' \in Seq(Tasks \cup {ExitTask})
    <3>1. <<t>> \in Seq(Tasks \cup {ExitTask})
      OBVIOUS
    <3>2. CASE first
      BY <1>12, <3>1, <3>2, ConcatProperties DEF Enqueue
    <3>3. CASE ~first
      BY <1>12, <3>3 DEF Enqueue
    <3>4. QED
      BY <3>2, <3>3
  <2>2. CASE x = Loop
    BY <1>12, <2>1, <2>2 DEF Enqueue
  <2>3. CASE x = Owner
    BY <1>12, <2>1, <2>3 DEF Enqueue
  <2>4. CASE x \in Clients
    BY <1>12, <2>1, <2>4 DEF Enqueue
  <2>5. QED
    BY <2>2, <2>3, <2>4
<1>13. ASSUME NEW t \in Tasks, Cancel(t)
       PROVE  TypeOK'
  BY <1>13 DEF Cancel
<1>14. CASE BreakPipe
  <2>1. /\ pipe' \in 0..PipeCap /\ broken' \in BOOLEAN
        /\ breaks' \in 0..MaxBreaks
    BY <1>14 DEF BreakPipe
  <2>2. QED
    BY <1>14, <2>1 DEF BreakPipe
<1>15. CASE Shutdown
  <2>1. list_task' \in Seq(Tasks \cup {ExitTask})
    BY <1>15 DEF Shutdown
  <2>2. QED
    BY <1>15, <2>1 DEF Shutdown
<1>16. CASE UNCHANGED vars
  BY <1>16 DEF vars
<1> HIDE DEF TypeOK, Threads, Goto, Move, At
<1>17. QED
  BY <1>1, <1>2, <1>3, <1>4, <1>5, <1>6, <1>7, <1>8, <1>9, <1>10, <1>11,
     <1>12, <1>13, <1>14, <1>15, <1>16
     DEF Next, LoopStep, TaskStep, Sync, Async, IsCurrentThread, Terminated

(* The variables of the poller keep their types: in particular the pipe     *)
(* never holds more than its capacity.                                      *)
THEOREM TypeCorrect == SafetySpec => []TypeOK
<1>1. Init => TypeOK
  <2> SUFFICES ASSUME Init
               PROVE  TypeOK
    OBVIOUS
  <2> USE EventPollerAssumption
  <2>1. /\ pc \in [Threads -> LoopPC \cup OwnerPC \cup ClientPC]
        /\ pc[Loop] = "start" /\ pc[Owner] = "waitstart"
        /\ \A c \in Clients : pc[c] = "idle"
    BY DEF Init, Threads, LoopPC, OwnerPC, ClientPC
  <2>2. /\ list_task \in Seq(Tasks \cup {ExitTask})
        /\ batch \in Seq(Tasks \cup {ExitTask})
        /\ stack \in Seq(Tasks)
    BY EmptySeq DEF Init
  <2>3. pipe \in 0..PipeCap /\ breaks \in 0..MaxBreaks
    BY DEF Init
  <2>4. QED
    BY <2>1, <2>2, <2>3 DEF Init, TypeOK, LoopPC, OwnerPC, ClientPC, Stages
<1>2. TypeOK /\ [Next]_vars => TypeOK'
  BY TypeStep
<1>3. QED
  BY <1>1, <1>2, PTL DEF SafetySpec

-----------------------------------------------------------------------------
(* Why tasks run one at a time: the owner comes to the list only through    *)
(* join(), and the loop never leaves its last state.                        *)
OwnerLast == pc[Owner] \in {"swap", "run", "write", "dead"} => pc[Loop] = "exited"

(* What a step may do to a thread other than by its own hand. *)
LEMMA OwnerLastStep ==
  ASSUME TypeOK, OwnerLast, [Next]_vars
  PROVE  OwnerLast'
<1> USE EventPollerAssumption DEF OwnerLast, At, Goto
<1>0. /\ Loop \in DOMAIN pc /\ Owner \in DOMAIN pc /\ Loop # Owner
      /\ \A c \in Clients : c # Loop /\ c # Owner
  BY DEF TypeOK, Threads
<1>1. CASE LoopStep
  <2>1. /\ pc[Loop] # "exited"
        /\ pc'[Owner] = pc[Owner]
    BY <1>0, <1>1 DEF LoopStep, LoopPost, LoopReset, SelectReturns, DrainRead,
                      DrainEmpty, DrainBroken, Reopen, LoopTest
  <2>2. QED
    BY <2>1
<1>2. CASE OwnerStep
  BY <1>0, <1>2 DEF OwnerStep, RunLoopReturns, Join, Destroyed
<1>3. ASSUME NEW x \in {Loop, Owner}, TaskStep(x)
      PROVE  OwnerLast'
  <2>1. \/ pc' = pc
        \/ pc[x] = "swap" /\ pc' = [pc EXCEPT ![x] = "run"]
    BY <1>3 DEF TaskStep, SwapTasks, Begin, SkipCancelled, RunExit, Finish
  <2>2. QED
    BY <1>0, <2>1
<1>4. ASSUME NEW x \in Threads, WritePipe(x)
      PROVE  OwnerLast'
  <2>1. CASE x = Loop
    BY <1>0, <1>4, <2>1 DEF WritePipe, AfterWrite, TypeOK, LoopPC
  <2>2. CASE x = Owner
    BY <1>0, <1>4, <2>2 DEF WritePipe, AfterWrite, TypeOK, OwnerPC
  <2>3. CASE x \in Clients
    BY <1>0, <1>4, <2>3 DEF WritePipe
  <2>4. QED
    BY <2>1, <2>2, <2>3 DEF Threads
<1>5. ASSUME NEW x \in Threads, SyncReturn(x)
      PROVE  OwnerLast'
  <2>1. x \in Clients
    BY <1>5 DEF SyncReturn, Threads, TypeOK, LoopPC, OwnerPC
  <2>2. QED
    BY <1>0, <1>5, <2>1 DEF SyncReturn
<1>6. ASSUME NEW x \in Threads, NEW t, NEW first, NEW next,
             Usable(x), Enqueue(x, t, first, next)
      PROVE  OwnerLast'
  <2>1. CASE x = Loop
    BY <1>0, <1>6, <2>1 DEF Enqueue, Usable
  <2>2. CASE x = Owner
    BY <1>0, <1>6, <2>2 DEF Enqueue, Usable
  <2>3. CASE x \in Clients
    BY <1>0, <1>6, <2>3 DEF Enqueue
  <2>4. QED
    BY <2>1, <2>2, <2>3 DEF Threads
<1>7. CASE Shutdown
  BY <1>0, <1>7 DEF Shutdown
<1>8. ASSUME pc' = pc
      PROVE  OwnerLast'
  BY <1>8
<1> HIDE DEF OwnerLast, At, Goto
<1>9. CASE \/ \E x \in {Loop, Owner}, t \in Tasks : RunInline(x, t)
           \/ \E t \in Tasks : Cancel(t)
           \/ BreakPipe \/ Terminated \/ UNCHANGED vars
  BY <1>8, <1>9 DEF RunInline, Cancel, BreakPipe, Terminated, vars
<1>10. QED
  BY <1>1, <1>2, <1>3, <1>4, <1>5, <1>6, <1>7, <1>9 DEF Next, Sync, Async

(* Tasks never run on two threads at once: the thread that destroys the     *)
(* poller executes what is left only after the loop thread has ended.       *)
THEOREM RunsOneAtATime == SafetySpec => []OneThreadRuns
<1>1. Init => OwnerLast
  BY EventPollerAssumption DEF Init, OwnerLast, Threads
<1>2. TypeOK /\ OwnerLast /\ [Next]_vars => OwnerLast'
  BY OwnerLastStep
<1>3. OwnerLast => OneThreadRuns
  BY DEF OwnerLast, OneThreadRuns, InTasks
<1>4. QED
  BY <1>1, <1>2, <1>3, TypeCorrect, PTL DEF SafetySpec

-----------------------------------------------------------------------------
(* NoLostWakeup is inductive as it stands: a push is covered by the byte to *)
(* come, the byte by the pipe it is in, or by the pipe being full or        *)
(* broken, and what is read by the loop being on its way to the list.       *)
Writer == \E x \in Threads : pc[x] \in {"write", "syncwrite", "exitwrite"}

LEMMA WakeupStep ==
  ASSUME TypeOK, NoLostWakeup, [Next]_vars
  PROVE  NoLostWakeup'
<1> USE EventPollerAssumption DEF NoLostWakeup, LoopOver, At, Goto
<1>0. /\ Loop \in DOMAIN pc /\ Owner \in DOMAIN pc /\ Loop # Owner
      /\ \A c \in Clients : c # Loop /\ c # Owner
      /\ DOMAIN pc = Threads
  BY DEF TypeOK, Threads
(* A step that changes at most the exit flag (from false to true), and what *)
(* threads execute. *)
<1>1. ASSUME UNCHANGED <<pc, list_task, pipe, broken>>, exit_flag => exit_flag'
      PROVE  NoLostWakeup'
  BY <1>1
(* A step of a thread that was not writing and is not the loop. *)
<1>2. ASSUME NEW x \in Threads, x # Loop, NEW label,
             pc[x] \notin {"write", "syncwrite", "exitwrite"},
             Goto(x, label), UNCHANGED <<list_task, pipe, broken, exit_flag>>
      PROVE  NoLostWakeup'
  BY <1>0, <1>2
<1>3. ASSUME LoopPost \/ LoopReset \/ SelectReturns \/ DrainEmpty
             \/ DrainBroken \/ LoopTest
      PROVE  NoLostWakeup'
  <2>1. /\ UNCHANGED <<list_task, pipe, broken>>
        /\ \A x \in Threads \ {Loop} : pc'[x] = pc[x]
        /\ pc[Loop] \notin {"write", "syncwrite", "exitwrite"}
    BY <1>0, <1>3 DEF LoopPost, LoopReset, SelectReturns, DrainEmpty,
                      DrainBroken, LoopTest, piping
  <2>2. Writer => Writer'
    BY <2>1 DEF Writer
  <2>3. \/ pc'[Loop] \in {"drain", "reopen", "swap", "exited"}
        \/ /\ pc[Loop] \notin {"drain", "reopen", "swap"}
           /\ ~LoopOver
    BY <1>0, <1>3 DEF LoopPost, LoopReset, SelectReturns, DrainEmpty,
                      DrainBroken, LoopTest
  <2>4. QED
    BY <2>1, <2>2, <2>3 DEF Writer
<1>4. CASE DrainRead
  BY <1>4 DEF DrainRead
<1>5. CASE Reopen
  BY <1>0, <1>5 DEF Reopen
<1>6. ASSUME NEW x \in {Loop, Owner}, SwapTasks(x)
      PROVE  NoLostWakeup'
  BY <1>6 DEF SwapTasks
<1>7. ASSUME NEW x \in {Loop, Owner},
             Begin(x) \/ SkipCancelled(x) \/ RunExit(x) \/ Finish(x)
      PROVE  NoLostWakeup'
  <2>1. UNCHANGED <<pc, list_task, pipe, broken>> /\ (exit_flag => exit_flag')
    BY <1>7 DEF Begin, SkipCancelled, RunExit, Finish, piping
  <2>2. QED
    BY <1>1, <2>1
<1>8. ASSUME NEW x \in Threads, WritePipe(x)
      PROVE  NoLostWakeup'
  <2>1. pipe' = IF broken \/ pipe = PipeCap THEN pipe ELSE pipe + 1
    BY <1>8 DEF WritePipe, Byte
  <2>2. pipe' > 0 \/ broken
    BY <2>1 DEF TypeOK
  <2>3. broken' = broken
    BY <1>8 DEF WritePipe
  <2>4. QED
    BY <2>2, <2>3
<1>9. ASSUME NEW x \in Threads, NEW t, NEW first,
             NEW next \in {"write", "syncwrite"}, Enqueue(x, t, first, next)
      PROVE  NoLostWakeup'
  BY <1>0, <1>9 DEF Enqueue
<1>10. CASE Shutdown
  BY <1>0, <1>10 DEF Shutdown, Threads
<1>11. CASE BreakPipe
  BY <1>11 DEF BreakPipe
<1>12. CASE OwnerStep
  <2>1. PICK label : /\ Goto(Owner, label)
                     /\ pc[Owner] \notin {"write", "syncwrite", "exitwrite"}
                     /\ UNCHANGED <<list_task, pipe, broken, exit_flag>>
    BY <1>12 DEF OwnerStep, RunLoopReturns, Join, Destroyed, piping
  <2>2. QED
    BY <1>0, <1>2, <2>1
<1>13. ASSUME NEW x \in Threads, SyncReturn(x)
       PROVE  NoLostWakeup'
  <2>1. /\ Goto(x, "idle") /\ pc[x] = "syncwait"
        /\ UNCHANGED <<list_task, pipe, broken, exit_flag>>
    BY <1>13 DEF SyncReturn, piping
  <2>2. x # Loop
    BY <2>1 DEF TypeOK, LoopPC
  <2>3. QED
    BY <1>2, <2>1, <2>2
<1>14. CASE \/ \E x \in {Loop, Owner}, t \in Tasks : RunInline(x, t)
            \/ \E t \in Tasks : Cancel(t)
            \/ Terminated \/ UNCHANGED vars
  <2>1. UNCHANGED <<pc, list_task, pipe, broken, exit_flag>>
    BY <1>14 DEF RunInline, Cancel, Terminated, vars, piping
  <2>2. QED
    BY <1>1, <2>1
<1> HIDE DEF NoLostWakeup, LoopOver, At, Goto
<1>15. QED
  BY <1>3, <1>4, <1>5, <1>6, <1>7, <1>8, <1>9, <1>10, <1>11, <1>12, <1>13,
     <1>14 DEF Next, LoopStep, TaskStep, Sync, Async

(* A task in the list is never overlooked, although the byte that wakes the *)
(* loop is written outside the lock, may be dropped, and is read before the *)
(* list is taken.                                                           *)
THEOREM WakeupNotLost == SafetySpec => []NoLostWakeup
<1>1. Init => NoLostWakeup
  BY DEF Init, NoLostWakeup
<1>2. TypeOK /\ NoLostWakeup /\ [Next]_vars => NoLostWakeup'
  BY WakeupStep
<1>3. QED
  BY <1>1, <1>2, TypeCorrect, PTL DEF SafetySpec

-----------------------------------------------------------------------------
(* Queues in which no task occurs twice. *)
LEMMA PushProperties ==
  ASSUME NEW S, NEW q \in Seq(S), IsInjective(q), NEW t \in S, t \notin Range(q),
         NEW r, r = <<t>> \o q \/ r = Append(q, t)
  PROVE  r \in Seq(S) /\ IsInjective(r) /\ Range(r) = Range(q) \cup {t}
<1>1. Len(q) \in Nat /\ DOMAIN q = 1 .. Len(q)
  BY LenProperties
<1>2. CASE r = <<t>> \o q
  <2>1. /\ r \in Seq(S) /\ Len(r) = Len(q) + 1
        /\ \A n \in 1 .. Len(r) : r[n] = IF n = 1 THEN t ELSE q[n - 1]
    BY <1>1, <1>2
  <2>2. Range(r) = Range(q) \cup {t}
    <3>1. ASSUME NEW n \in DOMAIN q
          PROVE  n + 1 \in DOMAIN r /\ r[n + 1] = q[n]
      BY <1>1, <2>1
    <3>2. 1 \in DOMAIN r /\ r[1] = t
      BY <1>1, <2>1
    <3>3. \A n \in DOMAIN r : r[n] = t \/ (n - 1 \in DOMAIN q /\ r[n] = q[n - 1])
      BY <1>1, <2>1
    <3>4. QED
      BY <3>1, <3>2, <3>3 DEF Range
  <2>3. IsInjective(r)
    <3>1. \A n \in DOMAIN r : n # 1 => n - 1 \in DOMAIN q /\ r[n] = q[n - 1]
      BY <1>1, <2>1
    <3>2. \A n \in DOMAIN q : q[n] # t
      BY DEF Range
    <3>3. DOMAIN r \subseteq Int /\ (1 \in DOMAIN r => r[1] = t)
      BY <1>1, <2>1
    <3>4. SUFFICES ASSUME NEW m \in DOMAIN r, NEW n \in DOMAIN r, r[m] = r[n]
                   PROVE  m = n
      BY DEF IsInjective
    <3>5. m # 1 /\ n # 1 => m - 1 = n - 1
      BY <3>1, <3>4 DEF IsInjective
    <3>6. QED
      BY <3>1, <3>2, <3>3, <3>4, <3>5
  <2>4. QED
    BY <2>1, <2>2, <2>3
<1>3. CASE r = Append(q, t)
  <2>1. /\ r \in Seq(S) /\ Len(r) = Len(q) + 1
        /\ \A n \in 1 .. Len(q) : r[n] = q[n]
        /\ r[Len(q) + 1] = t
    BY <1>3, AppendProperties
  <2>2. DOMAIN r = DOMAIN q \cup {Len(q) + 1} /\ Len(q) + 1 \notin DOMAIN q
    BY <1>1, <2>1
  <2>3. \A n \in DOMAIN q : r[n] = q[n] /\ q[n] # t
    BY <1>1, <2>1 DEF Range
  <2>4. Range(r) = Range(q) \cup {t}
    BY <2>1, <2>2, <2>3 DEF Range
  <2>5. IsInjective(r)
    BY <2>1, <2>2, <2>3 DEF IsInjective
  <2>6. QED
    BY <2>1, <2>4, <2>5
<1>4. QED
  BY <1>2, <1>3

LEMMA PopProperties ==
  ASSUME NEW S, NEW q \in Seq(S), IsInjective(q), q # <<>>
  PROVE  /\ Tail(q) \in Seq(S) /\ IsInjective(Tail(q))
         /\ Head(q) \in Range(q) /\ Range(Tail(q)) = Range(q) \ {Head(q)}
<1>1. Len(q) \in Nat \ {0} /\ DOMAIN q = 1 .. Len(q) /\ Head(q) = q[1]
  BY LenProperties, EmptySeq
<1>2. /\ Tail(q) \in Seq(S) /\ Len(Tail(q)) = Len(q) - 1
      /\ \A n \in 1 .. Len(Tail(q)) : Tail(q)[n] = q[n + 1]
  BY HeadTailProperties
<1>3. /\ \A n \in DOMAIN Tail(q) : n + 1 \in DOMAIN q /\ n + 1 # 1 /\ Tail(q)[n] = q[n + 1]
      /\ \A n \in DOMAIN q : n # 1 => n - 1 \in DOMAIN Tail(q) /\ Tail(q)[n - 1] = q[n]
      /\ DOMAIN Tail(q) \subseteq Int /\ 1 \in DOMAIN q
  BY <1>1, <1>2
<1>4. IsInjective(Tail(q))
  <2>1. SUFFICES ASSUME NEW m \in DOMAIN Tail(q), NEW n \in DOMAIN Tail(q), Tail(q)[m] = Tail(q)[n]
                 PROVE  m = n
    BY DEF IsInjective
  <2>2. m + 1 = n + 1
    BY <1>3, <2>1 DEF IsInjective
  <2>3. QED
    BY <1>3, <2>2
<1>5. Range(Tail(q)) = Range(q) \ {Head(q)}
  <2>1. \A n \in DOMAIN q : n # 1 => q[n] # Head(q)
    BY <1>1, <1>3 DEF IsInjective
  <2>2. Range(Tail(q)) \subseteq Range(q) \ {Head(q)}
    BY <1>3, <2>1 DEF Range
  <2>3. Range(q) \ {Head(q)} \subseteq Range(Tail(q))
    BY <1>1, <1>3 DEF Range
  <2>4. QED
    BY <2>2, <2>3
<1>6. QED
  BY <1>1, <1>2, <1>3, <1>4, <1>5 DEF Range

(* ... and from which the last one is taken. *)
LEMMA DropLastProperties ==
  ASSUME NEW S, NEW q \in Seq(S), IsInjective(q), q # <<>>
  PROVE  LET r == SubSeq(q, 1, Len(q) - 1) IN
         /\ r \in Seq(S) /\ IsInjective(r)
         /\ q[Len(q)] \in Range(q) /\ q[Len(q)] \in S
         /\ Range(r) = Range(q) \ {q[Len(q)]}
         /\ Len(q) = 1 <=> r = <<>>
<1> DEFINE r == SubSeq(q, 1, Len(q) - 1)
<1>1. Len(q) \in Nat \ {0} /\ DOMAIN q = 1 .. Len(q) /\ \A n \in 1 .. Len(q) : q[n] \in S
  BY LenProperties, EmptySeq
<1>2. /\ r \in Seq(S) /\ Len(r) = Len(q) - 1
      /\ \A n \in 1 .. (Len(q) - 1) : r[n] = q[n]
  <2>1. /\ r \in Seq(S)
        /\ Len(r) = IF 1 <= Len(q) - 1 THEN (Len(q) - 1) - 1 + 1 ELSE 0
        /\ \A n \in 1 .. ((Len(q) - 1) - 1 + 1) : r[n] = q[1 + n - 1]
    BY <1>1, SubSeqProperties
  <2>2. QED
    BY <1>1, <2>1
<1> HIDE DEF r
<1>3. /\ DOMAIN q = DOMAIN r \cup {Len(q)} /\ Len(q) \notin DOMAIN r
      /\ \A n \in DOMAIN r : r[n] = q[n]
  BY <1>1, <1>2
<1>4. IsInjective(r)
  BY <1>3 DEF IsInjective
<1>5. Range(r) = Range(q) \ {q[Len(q)]}
  <2>1. \A n \in DOMAIN r : q[n] # q[Len(q)]
    BY <1>3 DEF IsInjective
  <2>2. QED
    BY <1>3, <2>1 DEF Range
<1>6. Len(q) = 1 <=> r = <<>>
  BY <1>1, <1>2, EmptySeq
<1>7. QED
  BY <1>1, <1>2, <1>3, <1>4, <1>5, <1>6 DEF Range, r

-----------------------------------------------------------------------------
(* Where a task is: in the list, in the batch, or in execution. *)

Those(s) == {t \in Tasks : stage[t] = s}

Queued ==
    /\ IsInjective(list_task) /\ IsInjective(batch)
    /\ Range(list_task) \cap Range(batch) = {}
    /\ (Range(list_task) \cup Range(batch)) \cap Tasks = Those("queued")

InExecution == IsInjective(stack) /\ Range(stack) = Those("running")

Executing == {x \in {Loop, Owner} : pc[x] \in {"run", "write"}}

(* Batch and stack are those of the one thread that executes tasks ... *)
OneBatch == Executing = {} => batch = <<>> /\ stack = <<>>

(* ... what the list holds once the owner has taken it came late ... *)
OnlyLate == Owner \in Executing => Range(list_task) \subseteq late

(* ... and the exit task is queued by the destructor alone. *)
ExitOnce ==
    pc[Owner] \in {"waitstart", "up"} => ExitTask \notin Range(list_task) \cup Range(batch)

Tracked == Queued /\ InExecution /\ OneBatch /\ OnlyLate /\ ExitOnce

LEMMA ThoseMove ==
  ASSUME TypeOK, NEW t \in Tasks, NEW to, Move(t, to)
  PROVE  /\ Those("queued")' = IF to = "queued" THEN Those("queued") \cup {t} ELSE Those("queued") \ {t}
         /\ Those("running")' = IF to = "running" THEN Those("running") \cup {t} ELSE Those("running") \ {t}
         /\ t \in Those("queued") <=> stage[t] = "queued"
         /\ t \in Those("running") <=> stage[t] = "running"
BY DEF TypeOK, Move, Those

LEMMA SameTasks ==
  ASSUME Tracked
  PROVE  /\ UNCHANGED <<list_task, batch>> /\ Those("queued")' = Those("queued") => Queued'
         /\ UNCHANGED stack /\ Those("running")' = Those("running") => InExecution'
<1>1. Queued /\ InExecution
  BY DEF Tracked
<1>2. UNCHANGED <<list_task, batch>> /\ Those("queued")' = Those("queued") => Queued'
  BY <1>1 DEF Queued
<1>3. UNCHANGED stack /\ Those("running")' = Those("running") => InExecution'
  BY <1>1 DEF InExecution
<1>4. QED
  BY <1>2, <1>3

(* Steps that leave the tasks where they are. *)
LEMMA SameTracked ==
  ASSUME Tracked, UNCHANGED <<list_task, batch, stack, stage, late>>,
         Executing' = Executing \/ (batch = <<>> /\ stack = <<>> /\ Owner \notin Executing'),
         pc'[Owner] \in {"waitstart", "up"} => pc[Owner] \in {"waitstart", "up"}
  PROVE  Tracked'
<1>1. \A s : Those(s)' = Those(s)
  BY DEF Those
<1>2. Queued' /\ InExecution'
  BY <1>1, SameTasks
<1>3. OneBatch' /\ OnlyLate'
  BY DEF Tracked, OneBatch, OnlyLate
<1>4. ExitOnce'
  BY DEF Tracked, ExitOnce
<1>5. QED
  BY <1>2, <1>3, <1>4 DEF Tracked

LEMMA EnqueueTracked ==
  ASSUME TypeOK, OwnerLast, Tracked, NEW x \in Threads, NEW t \in Tasks, NEW first, NEW next,
         Usable(x), stage[t] = "new", Enqueue(x, t, first, next),
         next = "write" \/ x \in Clients
  PROVE  Tracked'
<1>1. /\ Those("queued")' = Those("queued") \cup {t} /\ t \notin Those("queued")
      /\ Those("running")' = Those("running")
  BY ThoseMove DEF Enqueue
<1>2. t \notin Range(list_task) /\ t \notin Range(batch)
  BY <1>1 DEF Tracked, Queued
<1>3. IsInjective(list_task') /\ Range(list_task') = Range(list_task) \cup {t}
  <2>1. PICK S : S = Tasks \cup {ExitTask}
    OBVIOUS
  <2>2. list_task \in Seq(S) /\ t \in S /\ IsInjective(list_task)
    BY <2>1 DEF TypeOK, Tracked, Queued
  <2>3. list_task' = <<t>> \o list_task \/ list_task' = Append(list_task, t)
    BY DEF Enqueue
  <2>4. QED
    BY <1>2, <2>2, <2>3, PushProperties
<1>4. batch' = batch /\ stack' = stack /\ late' = IF x = Owner THEN late \cup {t} ELSE late
  BY DEF Enqueue
<1>5. Queued'
  BY <1>1, <1>2, <1>3, <1>4 DEF Tracked, Queued
<1>6. InExecution'
  BY <1>1, <1>4, SameTasks
<1>7. /\ \A y \in Threads : pc'[y] = IF y = x THEN next ELSE pc[y]
      /\ Loop \in Threads /\ Owner \in Threads /\ Clients \cap {Loop, Owner} = {}
  BY EventPollerAssumption DEF Enqueue, Goto, TypeOK, Threads
<1>8. Executing' = Executing
  BY <1>7 DEF Executing, Usable, At
<1>9. OneBatch'
  BY <1>4, <1>8 DEF Tracked, OneBatch
<1>10. OnlyLate'
  <2>1. CASE x = Owner
    BY <1>3, <1>4, <1>8, <2>1 DEF Tracked, OnlyLate
  <2>2. CASE x # Owner
    <3>1. Owner \notin Executing
      BY <2>2, EventPollerAssumption DEF Usable, At, Executing, OwnerLast, Threads
    <3>2. QED
      BY <1>8, <3>1 DEF OnlyLate
  <2>3. QED
    BY <2>1, <2>2
<1>11. ExitOnce'
  <2>1. pc'[Owner] \in {"waitstart", "up"} => pc[Owner] \in {"waitstart", "up"}
    BY <1>7
  <2>2. t # ExitTask
    BY EventPollerAssumption
  <2>3. QED
    BY <1>3, <1>4, <2>1, <2>2 DEF Tracked, ExitOnce
<1>12. QED
  BY <1>5, <1>6, <1>9, <1>10, <1>11 DEF Tracked

LEMMA InlineTracked ==
  ASSUME TypeOK, Tracked, NEW x \in {Loop, Owner}, NEW t \in Tasks, RunInline(x, t)
  PROVE  Tracked'
<1>1. /\ Those("queued")' = Those("queued")
      /\ Those("running")' = Those("running") \cup {t} /\ t \notin Those("running")
  BY ThoseMove DEF RunInline
<1>2. IsInjective(stack') /\ Range(stack') = Range(stack) \cup {t}
  <2>1. stack \in Seq(Tasks) /\ IsInjective(stack) /\ t \notin Range(stack)
    BY <1>1 DEF TypeOK, Tracked, InExecution
  <2>2. stack' = <<t>> \o stack \/ stack' = Append(stack, t)
    BY DEF RunInline
  <2>3. QED
    BY <2>1, <2>2, PushProperties
<1>3. InExecution'
  BY <1>1, <1>2 DEF Tracked, InExecution
<1>4. x \in Executing /\ UNCHANGED <<pc, list_task, batch, late>>
  BY EventPollerAssumption DEF RunInline, IsCurrentThread, Usable, At, Executing
<1>5. Executing' = Executing
  BY <1>4 DEF Executing
<1>6. Queued'
  BY <1>1, <1>4, SameTasks
<1>7. OneBatch' /\ OnlyLate' /\ ExitOnce'
  BY <1>4, <1>5 DEF Tracked, OneBatch, OnlyLate, ExitOnce
<1>8. QED
  BY <1>3, <1>6, <1>7 DEF Tracked

LEMMA SwapTracked ==
  ASSUME TypeOK, OwnerLast, Tracked, NEW x \in {Loop, Owner}, SwapTasks(x)
  PROVE  Tracked'
<1>1. Executing = {}
  BY EventPollerAssumption DEF SwapTasks, At, Executing, OwnerLast
<1>2. batch = <<>> /\ Range(batch) = {} /\ stack = <<>>
  BY <1>1 DEF Tracked, OneBatch, Range
<1>3. list_task' = <<>> /\ batch' = list_task /\ UNCHANGED <<stack, stage, late>>
  BY DEF SwapTasks
<1>4. IsInjective(<<>>) /\ Range(<<>>) = {}
  BY DEF IsInjective, Range
<1>5. \A s : Those(s)' = Those(s)
  BY <1>3 DEF Those
<1>6. Queued'
  BY <1>2, <1>3, <1>4, <1>5 DEF Tracked, Queued
<1>7. InExecution'
  BY <1>3, <1>5, SameTasks
<1>8. /\ pc'[x] = "run" /\ \A y \in Threads : y # x => pc'[y] = pc[y]
      /\ Loop \in Threads /\ Owner \in Threads
  BY DEF SwapTasks, Goto, TypeOK, Threads
<1>9. x \in Executing'
  BY <1>8 DEF Executing
<1>10. OneBatch' /\ OnlyLate'
  BY <1>3, <1>4, <1>9 DEF OneBatch, OnlyLate
<1>11. ExitOnce'
  <2>1. pc'[Owner] \in {"waitstart", "up"} => pc[Owner] \in {"waitstart", "up"}
    BY <1>8
  <2>2. QED
    BY <1>2, <1>3, <1>4, <2>1 DEF Tracked, ExitOnce
<1>12. QED
  BY <1>6, <1>7, <1>10, <1>11 DEF Tracked

(* The head of the batch is called, skipped, or is the exit task. *)
LEMMA HeadTracked ==
  ASSUME TypeOK, Tracked, NEW x \in {Loop, Owner}, Begin(x) \/ SkipCancelled(x) \/ RunExit(x)
  PROVE  /\ Tracked'
         /\ Begin(x) => stage[Head(batch)] = "queued"
         /\ SkipCancelled(x) => Head(batch) \in Tasks /\ stage[Head(batch)] = "queued"
<1> DEFINE t == Head(batch)
<1>1. /\ batch # <<>> /\ batch' = Tail(batch) /\ x \in Executing /\ stack = <<>>
      /\ UNCHANGED <<pc, list_task, late>>
  BY DEF Begin, SkipCancelled, RunExit, At, Executing
<1>2. IsInjective(batch') /\ t \in Range(batch) /\ Range(batch') = Range(batch) \ {t}
  <2>1. PICK S : S = Tasks \cup {ExitTask}
    OBVIOUS
  <2>2. batch \in Seq(S) /\ IsInjective(batch)
    BY <2>1 DEF TypeOK, Tracked, Queued
  <2>3. QED
    BY <1>1, <2>2, PopProperties
<1> HIDE DEF t
<1>3. t \in Tasks => t \in Those("queued") /\ stage[t] = "queued"
  BY <1>2 DEF Tracked, Queued, Those
<1>4. /\ t \in Tasks => Those("queued")' = Those("queued") \ {t}
      /\ t \notin Tasks => Those("queued")' = Those("queued")
      /\ Those("running")' = IF Begin(x) THEN Those("running") \cup {t} ELSE Those("running")
  <2>1. CASE Begin(x)
    <3>1. t \in Tasks /\ Move(t, "running")
      BY <2>1 DEF Begin, t
    <3>2. QED
      BY <2>1, <3>1, ThoseMove
  <2>2. CASE SkipCancelled(x)
    <3>1. t \in Tasks /\ Move(t, "skipped") /\ stack # <<t>> /\ stack' = stack
      BY <1>1, <2>2 DEF SkipCancelled, TypeOK, t
    <3>2. ~Begin(x)
      BY <2>2 DEF Begin, SkipCancelled
    <3>3. QED
      BY <1>3, <3>1, <3>2, ThoseMove
  <2>3. CASE RunExit(x)
    <3>1. t \notin Tasks /\ UNCHANGED stage /\ ~Begin(x)
      BY <2>3, EventPollerAssumption DEF RunExit, Begin, t
    <3>2. QED
      BY <3>1 DEF Those
  <2>4. QED
    BY <2>1, <2>2, <2>3
<1>5. Queued'
  <2>1. (Range(list_task) \cup Range(batch)) \cap Tasks = Those("queued") /\ t \notin Range(list_task)
    BY <1>2 DEF Tracked, Queued
  <2>2. (Range(list_task) \cup (Range(batch) \ {t})) \cap Tasks
            = IF t \in Tasks THEN Those("queued") \ {t} ELSE Those("queued")
    BY <2>1
  <2>3. QED
    BY <1>1, <1>2, <1>4, <2>2 DEF Tracked, Queued
<1>6. InExecution'
  <2>1. Range(<<>>) = {} /\ Range(<<t>>) = {t} /\ IsInjective(<<t>>)
    BY DEF Range, IsInjective
  <2>2. CASE Begin(x)
    <3>1. stack' = <<t>> /\ Those("running") = {}
      BY <1>1, <2>1, <2>2 DEF Begin, t, Tracked, InExecution
    <3>2. QED
      BY <1>4, <2>1, <2>2, <3>1 DEF InExecution
  <2>3. CASE ~Begin(x)
    <3>1. stack' = stack
      BY <2>3 DEF SkipCancelled, RunExit
    <3>2. QED
      BY <1>4, <2>3, <3>1, SameTasks
  <2>4. QED
    BY <2>2, <2>3
<1>7. Executing' = Executing
  BY <1>1 DEF Executing
<1>8. OneBatch' /\ OnlyLate' /\ ExitOnce'
  BY <1>1, <1>2, <1>7 DEF Tracked, OneBatch, OnlyLate, ExitOnce
<1>9. QED
  BY <1>3, <1>5, <1>6, <1>8 DEF Tracked, Begin, SkipCancelled, TypeOK, t

LEMMA FinishTracked ==
  ASSUME TypeOK, Tracked, NEW x \in {Loop, Owner}, Finish(x)
  PROVE  /\ Tracked'
         /\ \E t \in Tasks : stage[t] = "running" /\ Move(t, "done")
<1> DEFINE t == stack[Len(stack)]
           rest == SubSeq(stack, 1, Len(stack) - 1)
<1>1. /\ stack # <<>> /\ IsInjective(stack) /\ stack \in Seq(Tasks) /\ x \in Executing
      /\ UNCHANGED <<pc, list_task, batch, late>>
  BY DEF Finish, At, Executing, Tracked, InExecution, TypeOK
<1>2. IsInjective(rest) /\ t \in Range(stack) /\ t \in Tasks /\ Range(rest) = Range(stack) \ {t}
  BY <1>1, DropLastProperties
<1>3. Move(t, "done") /\ stack' = rest
  BY DEF Finish
<1> HIDE DEF t, rest
<1>4. t \in Those("running") /\ stage[t] = "running"
  BY <1>2 DEF Tracked, InExecution, Those
<1>5. Those("queued")' = Those("queued") /\ Those("running")' = Those("running") \ {t}
  <2>1. t \in Tasks /\ Move(t, "done")
    BY <1>2, <1>3
  <2>2. QED
    BY <1>4, <2>1, ThoseMove
<1>6. Queued'
  BY <1>1, <1>5, SameTasks
<1>7. InExecution'
  BY <1>2, <1>3, <1>5 DEF Tracked, InExecution
<1>8. Executing' = Executing
  BY <1>1 DEF Executing
<1>9. OneBatch' /\ OnlyLate' /\ ExitOnce'
  BY <1>1, <1>8 DEF Tracked, OneBatch, OnlyLate, ExitOnce
<1>10. QED
  BY <1>2, <1>3, <1>4, <1>6, <1>7, <1>9 DEF Tracked

LEMMA ShutdownTracked ==
  ASSUME TypeOK, Tracked, Shutdown
  PROVE  Tracked'
<1>1. /\ pc[Owner] = "up" /\ list_task' = <<ExitTask>> \o list_task
      /\ UNCHANGED <<batch, stack, stage, late>>
  BY DEF Shutdown, At, tasking
<1>2. ExitTask \notin Range(list_task) /\ ExitTask \notin Range(batch) /\ ExitTask \notin Tasks
  BY <1>1, EventPollerAssumption DEF Tracked, ExitOnce
<1>3. IsInjective(list_task') /\ Range(list_task') = Range(list_task) \cup {ExitTask}
  <2>1. PICK S : S = Tasks \cup {ExitTask}
    OBVIOUS
  <2>2. list_task \in Seq(S) /\ ExitTask \in S /\ IsInjective(list_task)
    BY <2>1 DEF TypeOK, Tracked, Queued
  <2>3. list_task' = <<ExitTask>> \o list_task \/ list_task' = Append(list_task, ExitTask)
    BY <1>1
  <2>4. QED
    BY <1>2, <2>2, <2>3, PushProperties
<1>4. \A s : Those(s)' = Those(s)
  BY <1>1 DEF Those
<1>5. Queued'
  BY <1>1, <1>2, <1>3, <1>4 DEF Tracked, Queued
<1>6. InExecution'
  BY <1>1, <1>4, SameTasks
<1>7. pc'[Owner] = "exitwrite" /\ pc'[Loop] = pc[Loop]
  BY EventPollerAssumption DEF Shutdown, Goto, TypeOK, Threads
<1>8. Executing' = Executing /\ Owner \notin Executing'
  BY <1>1, <1>7 DEF Executing
<1>9. OneBatch' /\ OnlyLate' /\ ExitOnce'
  BY <1>1, <1>7, <1>8 DEF Tracked, OneBatch, OnlyLate, ExitOnce
<1>10. QED
  BY <1>5, <1>6, <1>9 DEF Tracked

LEMMA TrackedStep ==
  ASSUME TypeOK, OwnerLast, Tracked, [Next]_vars
  PROVE  Tracked'
<1>0. Loop \in Threads /\ Owner \in Threads /\ Clients \subseteq Threads
      /\ Loop # Owner /\ Loop \notin Clients /\ Owner \notin Clients
  BY EventPollerAssumption DEF Threads
<1>1. CASE LoopStep
  <2>1. UNCHANGED <<list_task, batch, stack, stage, late>> /\ pc'[Owner] = pc[Owner]
    BY <1>0, <1>1 DEF LoopStep, LoopPost, LoopReset, SelectReturns, DrainRead, DrainEmpty,
                      DrainBroken, Reopen, LoopTest, Goto, TypeOK, tasking
  <2>2. CASE LoopTest
    <3>1. pc[Loop] = "run" /\ batch = <<>> /\ stack = <<>>
      BY <2>2 DEF LoopTest, At
    <3>2. Owner \notin Executing'
      BY <2>1, <3>1 DEF OwnerLast, Executing
    <3>3. QED
      BY <2>1, <3>1, <3>2, SameTracked
  <2>3. CASE ~LoopTest
    <3>1. pc[Loop] \notin {"run", "write"} /\ pc'[Loop] \notin {"run", "write"}
      BY <1>0, <1>1, <2>3 DEF LoopStep, LoopPost, LoopReset, SelectReturns, DrainRead, DrainEmpty,
                              DrainBroken, Reopen, Goto, At, TypeOK
    <3>2. Executing' = Executing
      BY <2>1, <3>1 DEF Executing
    <3>3. QED
      BY <2>1, <3>2, SameTracked
  <2>4. QED
    BY <2>2, <2>3
<1>2. CASE OwnerStep
  <2>1. UNCHANGED <<list_task, batch, stack, stage, late>> /\ pc'[Loop] = pc[Loop]
    BY <1>0, <1>2 DEF OwnerStep, RunLoopReturns, Join, Destroyed, Goto, TypeOK, tasking
  <2>2. pc'[Owner] \in {"waitstart", "up"} => pc[Owner] \in {"waitstart", "up"}
    BY <1>0, <1>2 DEF OwnerStep, RunLoopReturns, Join, Destroyed, Goto, At, TypeOK
  <2>3. CASE Destroyed
    <3>1. batch = <<>> /\ stack = <<>> /\ Owner \notin Executing'
      BY <1>0, <2>3 DEF Destroyed, Goto, TypeOK, Executing
    <3>2. QED
      BY <2>1, <2>2, <3>1, SameTracked
  <2>4. CASE ~Destroyed
    <3>1. pc[Owner] \notin {"run", "write"} /\ pc'[Owner] \notin {"run", "write"}
      BY <1>0, <1>2, <2>4 DEF OwnerStep, RunLoopReturns, Join, Goto, At, TypeOK
    <3>2. Executing' = Executing
      BY <2>1, <3>1 DEF Executing
    <3>3. QED
      BY <2>1, <2>2, <3>2, SameTracked
  <2>5. QED
    BY <2>3, <2>4
<1>3. ASSUME NEW x \in Threads, WritePipe(x)
      PROVE  Tracked'
  <2>1. /\ UNCHANGED <<list_task, batch, stack, stage, late>>
        /\ \A y \in Threads : pc'[y] = IF y = x THEN AfterWrite(x) ELSE pc[y]
    BY <1>3 DEF WritePipe, Goto, TypeOK, tasking
  <2>2. /\ x \in {Loop, Owner} => (x \in Executing <=> AfterWrite(x) \in {"run", "write"})
        /\ AfterWrite(x) \notin {"waitstart", "up"}
    BY <1>0, <1>3 DEF WritePipe, AfterWrite, Executing
  <2>3. Executing' = Executing
    BY <1>0, <2>1, <2>2 DEF Executing
  <2>4. QED
    BY <1>0, <2>1, <2>2, <2>3, SameTracked
<1>4. ASSUME NEW x \in Threads, SyncReturn(x)
      PROVE  Tracked'
  <2>1. x \in Clients
    BY <1>4 DEF SyncReturn, At, Threads, TypeOK, LoopPC, OwnerPC
  <2>2. /\ UNCHANGED <<list_task, batch, stack, stage, late>>
        /\ pc'[Loop] = pc[Loop] /\ pc'[Owner] = pc[Owner]
    BY <1>0, <1>4, <2>1 DEF SyncReturn, Goto, TypeOK, tasking
  <2>3. Executing' = Executing
    BY <2>2 DEF Executing
  <2>4. QED
    BY <2>2, <2>3, SameTracked
<1>5. ASSUME \/ \E t \in Tasks : Cancel(t)
             \/ BreakPipe \/ Terminated \/ UNCHANGED vars
      PROVE  Tracked'
  <2>1. UNCHANGED <<pc, list_task, batch, stack, stage, late>>
    BY <1>5 DEF Cancel, BreakPipe, Terminated, vars, tasking
  <2>2. Executing' = Executing
    BY <2>1 DEF Executing
  <2>3. QED
    BY <2>1, <2>2, SameTracked
<1>6. ASSUME NEW x \in Threads, NEW t \in Tasks, NEW first \in BOOLEAN,
             Sync(x, t, first) \/ \E maySync \in BOOLEAN : Async(x, t, maySync, first)
      PROVE  Tracked'
  BY <1>6, EnqueueTracked DEF Sync, Async, IsCurrentThread
<1>7. ASSUME NEW x \in {Loop, Owner}, TaskStep(x) \/ \E t \in Tasks : RunInline(x, t)
      PROVE  Tracked'
  BY <1>7, SwapTracked, HeadTracked, FinishTracked, InlineTracked DEF TaskStep
<1>8. QED
  BY <1>1, <1>2, <1>3, <1>4, <1>5, <1>6, <1>7, ShutdownTracked DEF Next

LEMMA AlwaysTracked == SafetySpec => [](OwnerLast /\ Tracked)
<1>1. Init => OwnerLast /\ Tracked
  <2> SUFFICES ASSUME Init
               PROVE  OwnerLast /\ Tracked
    OBVIOUS
  <2>1. pc[Loop] = "start" /\ pc[Owner] = "waitstart"
    BY EventPollerAssumption DEF Init, Threads
  <2>2. Those("queued") = {} /\ Those("running") = {}
    BY DEF Init, Those
  <2>3. IsInjective(<<>>) /\ Range(<<>>) = {}
    BY DEF IsInjective, Range
  <2>4. list_task = <<>> /\ batch = <<>> /\ stack = <<>>
    BY DEF Init
  <2>5. Queued /\ InExecution
    BY <2>2, <2>3, <2>4 DEF Queued, InExecution
  <2>6. OneBatch /\ OnlyLate /\ ExitOnce
    BY <2>3, <2>4 DEF OneBatch, OnlyLate, ExitOnce
  <2>7. QED
    BY <2>1, <2>5, <2>6 DEF OwnerLast, Tracked
<1>2. TypeOK /\ OwnerLast /\ Tracked /\ [Next]_vars => OwnerLast' /\ Tracked'
  BY OwnerLastStep, TrackedStep
<1>3. QED
  BY <1>1, <1>2, TypeCorrect, PTL DEF SafetySpec

(* What the users of the poller see of a task and of the poller. *)
Shown == [t \in Tasks |-> IF stage[t] = "queued" THEN "accepted" ELSE stage[t]]

Phase == CASE pc[Owner] \in {"waitstart", "up"} -> "open"
           [] pc[Owner] = "dead" -> "closed"
           [] OTHER -> "closing"

LEMMA ShownMoves ==
  ASSUME TypeOK, NEW t \in Tasks, NEW to, Move(t, to)
  PROVE  Shown' = [Shown EXCEPT ![t] = IF to = "queued" THEN "accepted" ELSE to]
BY DEF TypeOK, Move, Shown

LEMMA ExecutorStep ==
  ASSUME TypeOK, OwnerLast, Tracked, [Next]_vars
  PROVE  Executor!Next \/ UNCHANGED Executor!vars
<1>0. /\ UNCHANGED <<Shown, cancelled, late, Phase>> => UNCHANGED Executor!vars
      /\ Loop \in Threads /\ Owner \in Threads /\ Clients \subseteq Threads
      /\ Loop # Owner /\ Loop \notin Clients /\ Owner \notin Clients
  BY EventPollerAssumption DEF Executor!vars, Shown, Phase, Threads
<1>1. ASSUME NEW x \in Threads, NEW t \in Tasks, NEW first, NEW next,
             Usable(x), stage[t] = "new", Enqueue(x, t, first, next),
             next = "write" \/ x \in Clients
      PROVE  Executor!Accept(t)
  <2>1. Shown[t] = "new" /\ Shown' = [Shown EXCEPT ![t] = "accepted"]
    BY <1>1, ShownMoves DEF Enqueue, Shown
  <2>2. \A y \in Threads : pc'[y] = IF y = x THEN next ELSE pc[y]
    BY <1>1 DEF Enqueue, Goto, TypeOK
  <2>3. /\ Phase # "closed" /\ Phase' = Phase
        /\ x = Owner => Phase = "closing"
    <3>1. CASE x = Owner
      BY <1>0, <1>1, <2>2, <3>1 DEF Usable, At, Phase
    <3>2. CASE x # Owner
      <4>1. pc[Owner] # "dead"
        BY <1>0, <1>1, <3>2 DEF Usable, At, OwnerLast, Threads
      <4>2. pc'[Owner] = pc[Owner]
        BY <1>0, <2>2, <3>2
      <4>3. QED
        BY <3>2, <4>1, <4>2 DEF Phase
    <3>3. QED
      BY <3>1, <3>2
  <2>4. cancelled' = cancelled /\ late' = IF x = Owner THEN late \cup {t} ELSE late
    BY <1>1 DEF Enqueue
  <2>5. late' \in {late} \cup (IF Phase = "closing" THEN {late \cup {t}} ELSE {})
    BY <2>3, <2>4
  <2>6. QED
    BY <2>1, <2>3, <2>4, <2>5 DEF Executor!Accept, Executor!Move, Shown, Phase
<1>2. ASSUME NEW x \in {Loop, Owner}, NEW t \in Tasks, RunInline(x, t)
      PROVE  Executor!Inline(t)
  <2>1. Shown[t] = "new" /\ Shown' = [Shown EXCEPT ![t] = "running"]
    BY <1>2, ShownMoves DEF RunInline, Shown
  <2>2. pc[Owner] # "dead" /\ UNCHANGED <<pc, cancelled, late>>
    BY <1>0, <1>2 DEF RunInline, Usable, At, OwnerLast
  <2>3. Phase # "closed" /\ Phase' = Phase
    BY <2>2 DEF Phase
  <2>4. QED
    BY <2>1, <2>2, <2>3 DEF Executor!Inline, Executor!Move, Shown, Phase
<1>3. ASSUME NEW x \in {Loop, Owner}, Begin(x)
      PROVE  Executor!Next
  <2>1. PICK t \in Tasks : t = Head(batch) /\ stage[t] = "queued" /\ t \notin cancelled
    BY <1>3, HeadTracked DEF Begin
  <2>2. Shown[t] = "accepted" /\ Shown' = [Shown EXCEPT ![t] = "running"]
    BY <1>3, <2>1, ShownMoves DEF Begin, Shown
  <2>3. UNCHANGED <<cancelled, late, Phase>>
    BY <1>3 DEF Begin, Phase
  <2>4. Executor!Start(t)
    BY <2>1, <2>2, <2>3 DEF Executor!Start, Executor!Move, Shown, Phase
  <2>5. QED
    BY <2>4 DEF Executor!Next
<1>4. ASSUME NEW x \in {Loop, Owner}, SkipCancelled(x)
      PROVE  Executor!Next
  <2>1. PICK t \in Tasks : t = Head(batch) /\ stage[t] = "queued" /\ t \in cancelled
    BY <1>4, HeadTracked DEF SkipCancelled
  <2>2. Shown[t] = "accepted" /\ Shown' = [Shown EXCEPT ![t] = "skipped"]
    BY <1>4, <2>1, ShownMoves DEF SkipCancelled, Shown
  <2>3. UNCHANGED <<cancelled, late, Phase>>
    BY <1>4 DEF SkipCancelled, Phase
  <2>4. Executor!Skip(t)
    BY <2>1, <2>2, <2>3 DEF Executor!Skip, Executor!Move, Shown, Phase
  <2>5. QED
    BY <2>4 DEF Executor!Next
<1>5. ASSUME NEW x \in {Loop, Owner}, Finish(x)
      PROVE  Executor!Next
  <2>1. PICK t \in Tasks : stage[t] = "running" /\ Move(t, "done")
    BY <1>5, FinishTracked
  <2>2. Shown[t] = "running" /\ Shown' = [Shown EXCEPT ![t] = "done"]
    BY <2>1, ShownMoves DEF Shown
  <2>3. UNCHANGED <<cancelled, late, Phase>>
    BY <1>5 DEF Finish, Phase
  <2>4. Executor!Finish(t)
    BY <2>2, <2>3 DEF Executor!Finish, Executor!Move, Shown, Phase
  <2>5. QED
    BY <2>4 DEF Executor!Next
<1>6. ASSUME NEW t \in Tasks, Cancel(t)
      PROVE  Executor!Cancel(t)
  <2>1. Shown[t] = "accepted" /\ UNCHANGED <<Shown, late, Phase>> /\ cancelled' = cancelled \cup {t}
    BY <1>6 DEF Cancel, Shown, Phase, tasking
  <2>2. QED
    BY <2>1 DEF Executor!Cancel, Shown, Phase
<1>7. ASSUME Shutdown
      PROVE  Executor!BeginClose
  <2>1. pc[Owner] = "up" /\ pc'[Owner] = "exitwrite" /\ UNCHANGED <<stage, cancelled, late>>
    BY <1>0, <1>7 DEF Shutdown, At, Goto, TypeOK, tasking
  <2>2. Phase = "open" /\ Phase' = "closing" /\ UNCHANGED Shown
    BY <2>1 DEF Phase, Shown
  <2>3. QED
    BY <2>1, <2>2 DEF Executor!BeginClose, Shown, Phase
<1>8. ASSUME Destroyed
      PROVE  Executor!Close
  <2>1. /\ pc[Owner] = "run" /\ pc'[Owner] = "dead" /\ UNCHANGED <<stage, cancelled, late>>
        /\ stack = <<>> /\ batch = <<>>
    BY <1>0, <1>8 DEF Destroyed, At, Goto, TypeOK, tasking
  <2>2. Phase = "closing" /\ Phase' = "closed" /\ UNCHANGED Shown
    BY <2>1 DEF Phase, Shown
  <2>3. Range(<<>>) = {} /\ Owner \in Executing
    BY <2>1 DEF Range, Executing
  <2>4. Those("queued") \subseteq late /\ Those("running") = {}
    BY <2>1, <2>3 DEF Tracked, Queued, InExecution, OnlyLate
  <2>5. \A t \in Tasks : Shown[t] # "running" /\ (Shown[t] = "accepted" => t \in late)
    BY <2>4 DEF Those, Shown, TypeOK, Stages
  <2>6. QED
    BY <2>1, <2>2, <2>5 DEF Executor!Close, Shown, Phase
<1>9. ASSUME LoopStep \/ RunLoopReturns \/ Join
      PROVE  UNCHANGED Executor!vars
  <2>1. UNCHANGED <<stage, cancelled, late>>
    BY <1>9 DEF LoopStep, LoopPost, LoopReset, SelectReturns, DrainRead, DrainEmpty, DrainBroken,
                Reopen, LoopTest, RunLoopReturns, Join, tasking
  <2>2. \/ pc'[Owner] = pc[Owner]
        \/ pc[Owner] = "waitstart" /\ pc'[Owner] = "up"
        \/ pc[Owner] = "join" /\ pc'[Owner] = "swap"
    BY <1>0, <1>9 DEF LoopStep, LoopPost, LoopReset, SelectReturns, DrainRead, DrainEmpty,
                      DrainBroken, Reopen, LoopTest, RunLoopReturns, Join, At, Goto, TypeOK
  <2>3. UNCHANGED <<Shown, Phase>>
    BY <2>1, <2>2 DEF Shown, Phase
  <2>4. QED
    BY <1>0, <2>1, <2>3
<1>10. ASSUME NEW x \in {Loop, Owner}, SwapTasks(x) \/ RunExit(x)
       PROVE  UNCHANGED Executor!vars
  <2>1. UNCHANGED <<stage, cancelled, late>>
    BY <1>10 DEF SwapTasks, RunExit
  <2>2. \/ pc'[Owner] = pc[Owner]
        \/ pc[Owner] = "swap" /\ pc'[Owner] = "run"
    BY <1>0, <1>10 DEF SwapTasks, RunExit, At, Goto, TypeOK
  <2>3. UNCHANGED <<Shown, Phase>>
    BY <2>1, <2>2 DEF Shown, Phase
  <2>4. QED
    BY <1>0, <2>1, <2>3
<1>11. ASSUME NEW x \in Threads, WritePipe(x) \/ SyncReturn(x)
       PROVE  UNCHANGED Executor!vars
  <2>1. UNCHANGED <<stage, cancelled, late>>
    BY <1>11 DEF WritePipe, SyncReturn, tasking
  <2>2. \/ pc'[Owner] = pc[Owner]
        \/ pc[Owner] \in {"write", "exitwrite"} /\ pc'[Owner] \in {"run", "join"}
    <3>1. CASE x = Owner
      BY <1>0, <1>11, <3>1 DEF WritePipe, SyncReturn, AfterWrite, At, Goto, TypeOK, OwnerPC
    <3>2. CASE x # Owner
      BY <1>0, <1>11, <3>2 DEF WritePipe, SyncReturn, Goto, TypeOK
    <3>3. QED
      BY <3>1, <3>2
  <2>3. UNCHANGED <<Shown, Phase>>
    BY <2>1, <2>2 DEF Shown, Phase
  <2>4. QED
    BY <1>0, <2>1, <2>3
<1>12. ASSUME BreakPipe \/ Terminated \/ UNCHANGED vars
       PROVE  UNCHANGED Executor!vars
  BY <1>0, <1>12 DEF BreakPipe, Terminated, vars, tasking, Shown, Phase
<1>13. ASSUME NEW x \in Threads, NEW t \in Tasks, NEW first \in BOOLEAN,
              Sync(x, t, first) \/ \E maySync \in BOOLEAN : Async(x, t, maySync, first)
       PROVE  Executor!Next
  BY <1>1, <1>13 DEF Sync, Async, IsCurrentThread, Executor!Next
<1>14. QED
  BY <1>2, <1>3, <1>4, <1>5, <1>6, <1>7, <1>8, <1>9, <1>10, <1>11, <1>12, <1>13
     DEF Next, OwnerStep, TaskStep, Executor!Next

(* The poller is a task executor: what is accepted is run once or, if it    *)
(* was cancelled in time, skipped, nothing else is run, and the destructor  *)
(* does not return before all is done except what its own tasks have handed *)
(* over; whatever happens to the pipe.                                      *)
THEOREM ImplementsExecutor == SafetySpec => Executor!SafetySpec
<1>1. Init => Executor!Init
  BY EventPollerAssumption DEF Init, Executor!Init, Threads
<1>2. TypeOK /\ OwnerLast /\ Tracked /\ [Next]_vars => [Executor!Next]_(Executor!vars)
  BY ExecutorStep
<1>3. QED
  BY <1>1, <1>2, TypeCorrect, AlwaysTracked, PTL DEF SafetySpec, Executor!SafetySpec

-----------------------------------------------------------------------------
(* How the pool of pollers hands them out, and measures how long each takes  *)
(* to come to a task: src/Thread/TaskExecutor.cpp (Executors.tla), for any   *)
(* number of pollers, callers and measurements, and any loads.               *)
CONSTANTS Size, Loads, Callers, MaxDelays

VARIABLES threads, thread_pos, loads, call, rotation,
          given, closures, measured, dropped, called, delays

Exe == INSTANCE Executors

(* What Executors.tla assumes of its constants: the pool is not empty. *)
ExecutorsUsed ==
    /\ Size \in Nat \ {0}
    /\ Loads \subseteq Nat /\ 0 \in Loads
    /\ IsFiniteSet(Callers)
    /\ MaxDelays \in Nat

(* The threads a measurement has turned to: all once the caller has returned. *)
Turned == IF given = -1 THEN Exe!Pool ELSE 0..(given - 1)

(* Each thread that was turned to has its closure, has run it or dropped it,  *)
(* and the callback was called when the caller and the closures had let go.   *)
Accounted ==
    /\ given \in -1..Size /\ called \in 0..1 /\ delays \in 0..MaxDelays
    /\ delays = 0 => given = -1 /\ closures = {} /\ measured = {} /\ dropped = {} /\ called = 0
    /\ delays > 0 =>
          /\ closures \cup measured \cup dropped = Turned
          /\ closures \cap measured = {}
          /\ closures \cap dropped = {}
          /\ measured \cap dropped = {}
          /\ called = IF Exe!Owned(given, closures) THEN 0 ELSE 1

LEMMA AccountedStep ==
  ASSUME ExecutorsUsed, Accounted, [Exe!Next]_(Exe!vars)
  PROVE  Accounted'
<1> USE DEF ExecutorsUsed, Accounted, Turned, Exe!Pool, Exe!Owned
<1>1. CASE Exe!Delay
  BY <1>1 DEF Exe!Delay
<1>2. CASE Exe!DelayGive
  <2>1. delays > 0 /\ given \in 0..(Size - 1) /\ given' = given + 1 /\ delays' = delays
    BY <1>2 DEF Exe!DelayGive
  <2>2. closures' = closures \cup {given} /\ measured' = measured /\ dropped' = dropped
    BY <1>2 DEF Exe!DelayGive
  <2>3. called' = called /\ called = 0
    BY <1>2, <2>1 DEF Exe!DelayGive, Exe!Settle
  <2>4. given \notin closures \cup measured \cup dropped
    BY <2>1
  <2>5. closures' \cup measured' \cup dropped' = 0..given
    BY <2>1, <2>2
  <2>6. given' \in 0..Size /\ given' - 1 = given
    BY <2>1
  <2>7. QED
    BY <2>1, <2>2, <2>3, <2>4, <2>5, <2>6
<1>3. CASE Exe!DelayReturn
  <2>1. delays > 0 /\ given = Size /\ given' = -1 /\ delays' = delays
    BY <1>3 DEF Exe!DelayReturn
  <2>2. closures' = closures /\ measured' = measured /\ dropped' = dropped
    BY <1>3 DEF Exe!DelayReturn
  <2>3. called' = IF closures' = {} THEN 1 ELSE 0
    BY <1>3, <2>1, <2>2 DEF Exe!DelayReturn, Exe!Settle
  <2>4. QED
    BY <2>1, <2>2, <2>3
<1>4. ASSUME NEW i \in Exe!Pool, Exe!RunClosure(i)
      PROVE  Accounted'
  <2>1. delays > 0 /\ i \in closures /\ given' = given /\ delays' = delays
    BY <1>4 DEF Exe!RunClosure
  <2>2. closures' = closures \ {i} /\ measured' = measured \cup {i} /\ dropped' = dropped
    BY <1>4 DEF Exe!RunClosure
  <2>3. called' = IF given' # -1 \/ closures' # {} THEN 0 ELSE 1
    BY <1>4, <2>1, <2>2 DEF Exe!RunClosure, Exe!Settle
  <2>4. QED
    BY <2>1, <2>2, <2>3
<1>5. ASSUME NEW i \in Exe!Pool, Exe!DropClosure(i)
      PROVE  Accounted'
  <2>1. delays > 0 /\ i \in closures /\ given' = given /\ delays' = delays
    BY <1>5 DEF Exe!DropClosure
  <2>2. closures' = closures \ {i} /\ measured' = measured /\ dropped' = dropped \cup {i}
    BY <1>5 DEF Exe!DropClosure
  <2>3. called' = IF given' # -1 \/ closures' # {} THEN 0 ELSE 1
    BY <1>5, <2>1, <2>2 DEF Exe!DropClosure, Exe!Settle
  <2>4. QED
    BY <2>1, <2>2, <2>3
<1>6. CASE UNCHANGED Exe!delayVars
  BY <1>6 DEF Exe!delayVars
<1>7. QED
  <2>1. Exe!Delay \/ Exe!DelayGive \/ Exe!DelayReturn
        \/ (\E i \in Exe!Pool : Exe!RunClosure(i) \/ Exe!DropClosure(i))
        \/ UNCHANGED Exe!delayVars
    BY DEF Exe!Next, Exe!vars, Exe!AddPoller, Exe!LoadChanges, Exe!Start, Exe!Compare, Exe!delayVars
  <2>2. QED
    BY <2>1, <1>1, <1>2, <1>3, <1>4, <1>5, <1>6

(* The callback of getExecutorDelay is called exactly once, not before every *)
(* thread has run its closure or has dropped it.                             *)
THEOREM MeasuredOnceEach ==
  ASSUME ExecutorsUsed
  PROVE  Exe!Spec => []Exe!MeasuredOnce
<1>1. Exe!Init => Accounted
  BY DEF ExecutorsUsed, Exe!Init, Accounted
<1>2. Accounted /\ [Exe!Next]_(Exe!vars) => Accounted'
  BY AccountedStep
<1>3. Accounted => Exe!MeasuredOnce
  BY DEF Accounted, Turned, Exe!MeasuredOnce, Exe!Owned
<1>4. QED
  BY <1>1, <1>2, <1>3, PTL DEF Exe!Spec
-----------------------------------------------------------------------------
(* k places before p, around the pool. *)
Back(p, k) == IF p >= k THEN p - k ELSE p - k + Size

LEMMA Around ==
  ASSUME ExecutorsUsed, NEW p \in Exe!Pool
  PROVE  /\ Exe!After(p) \in Exe!Pool
         /\ Back(p, 0) = p /\ Back(Exe!After(p), 1) = p
         /\ \A k \in 0..Size : Back(p, k) \in Exe!Pool
         /\ \A k \in 0..(Size - 1) : Back(Exe!After(p), k + 1) = Back(p, k)
         /\ \A k, l \in 1..Size : Back(p, k) = Back(p, l) => k = l
         /\ \A q \in Exe!Pool : \E k \in 0..(Size - 1) : q = Back(p, k)
<1> USE DEF ExecutorsUsed, Exe!Pool, Exe!After, Back
<1>1. \A q \in Exe!Pool : \E k \in 0..(Size - 1) : q = Back(p, k)
  <2> TAKE q \in Exe!Pool
  <2> DEFINE k == IF q <= p THEN p - q ELSE p - q + Size
  <2>1. k \in 0..(Size - 1) /\ q = Back(p, k)
    OBVIOUS
  <2>2. QED
    BY <2>1
<1>2. QED
  BY <1>1

Told == UNION {[D -> Loads] : D \in SUBSET Exe!Pool}
Search == [pc : {"search", "got"}, pos : Exe!Pool, i : 0..Size, chosen : Exe!Pool,
           min_load : Loads, asked : Told, calm : BOOLEAN]

(* What a search has learnt: it has asked the last i + 1 places, once around *)
(* at most, and what it holds is the least it was told.                      *)
Learnt(s) ==
    /\ \A k \in 0..s.i : Back(s.pos, k) \in DOMAIN s.asked
    /\ \A p \in DOMAIN s.asked : s.min_load <= s.asked[p]

NoLoad == \A i \in Exe!Pool : loads[i] = 0

(* The calls of getExecutor, the functions with their types: a search that   *)
(* goes on has found a load everywhere and has not been around.              *)
SearchesRight ==
    /\ threads \in 0..Size /\ thread_pos \in Exe!Pool
    /\ loads \in [Exe!Pool -> Loads]
    /\ call \in [Callers -> {Exe!Idle} \cup Search]
    /\ \A c \in Callers :
          /\ call[c].pc # "idle" => Learnt(call[c])
          /\ call[c].pc = "search" => call[c].i < Size
          /\ call[c].pc = "got" => call[c].min_load = 0 \/ call[c].i = Size

(* While nothing has anything to do, a search that saw no load change ends   *)
(* where it began, and the pool has been handed out in turn up to the place  *)
(* where the next search begins; of searches that overlap nothing is said.   *)
InTurn ==
    /\ rotation \in Seq(Exe!Pool) /\ Len(rotation) <= Size
    /\ NoLoad =>
          /\ \A i \in 1..Len(rotation) : rotation[i] = Back(thread_pos, Len(rotation) - i + 1)
          /\ \A c \in Callers : call[c].pc = "search" /\ call[c].calm =>
                /\ call[c].i = 0 /\ call[c].min_load = 0 /\ call[c].chosen = call[c].pos
                /\ call[c].pos = thread_pos \/ rotation = <<>>

(* A round of the loop. *)
LEMMA RoundAsked ==
  ASSUME ExecutorsUsed, SearchesRight, NEW s \in Search, Learnt(s), s.i < Size
  PROVE  LET r == Exe!Asked(s)
         IN  /\ r \in Search /\ Learnt(r)
             /\ r.pos = Exe!After(s.pos) /\ r.i = s.i + 1
             /\ r.pc = s.pc /\ r.calm = s.calm
             /\ r.chosen = IF loads[r.pos] < s.min_load THEN r.pos ELSE s.chosen
             /\ r.min_load = IF loads[r.pos] < s.min_load THEN loads[r.pos] ELSE s.min_load
<1> DEFINE pos == Exe!After(s.pos)
           load == loads[pos]
           asked == [p \in DOMAIN s.asked \cup {pos} |-> IF p = pos THEN load ELSE s.asked[p]]
           r == Exe!Asked(s)
<1>1. /\ s.pos \in Exe!Pool /\ s.i \in 0..Size /\ s.chosen \in Exe!Pool /\ s.min_load \in Loads
      /\ s.asked \in Told /\ s.calm \in BOOLEAN /\ s.pc \in {"search", "got"}
  BY DEF Search
<1>2. pos \in Exe!Pool /\ load \in Loads
  BY <1>1, Around DEF SearchesRight
<1>3. DOMAIN s.asked \subseteq Exe!Pool /\ \A p \in DOMAIN s.asked : s.asked[p] \in Loads
  BY <1>1 DEF Told
<1> HIDE DEF pos, load
<1>4. asked \in Told /\ DOMAIN asked = DOMAIN s.asked \cup {pos}
      /\ \A p \in DOMAIN asked : asked[p] = IF p = pos THEN load ELSE s.asked[p]
  <2>1. asked \in [DOMAIN s.asked \cup {pos} -> Loads]
    BY <1>2, <1>3
  <2>2. DOMAIN s.asked \cup {pos} \in SUBSET Exe!Pool
    BY <1>2, <1>3
  <2>3. asked \in Told
    BY <2>1, <2>2 DEF Told
  <2>4. QED
    BY <2>3
<1>5. r = [s EXCEPT !.pos = pos, !.i = s.i + 1, !.asked = asked,
                    !.chosen = IF load < s.min_load THEN pos ELSE s.chosen,
                    !.min_load = IF load < s.min_load THEN load ELSE s.min_load]
  BY DEF Exe!Asked, pos, load
<1> HIDE DEF asked
<1> DEFINE chosen == IF load < s.min_load THEN pos ELSE s.chosen
           least == IF load < s.min_load THEN load ELSE s.min_load
<1>6. chosen \in Exe!Pool /\ least \in Loads
  BY <1>1, <1>2
<1>7. r = [s EXCEPT !.pos = pos, !.i = s.i + 1, !.asked = asked,
                    !.chosen = chosen, !.min_load = least]
  BY <1>5
<1> HIDE DEF chosen, least, r
<1>8. s.i + 1 \in 0..Size
  BY <1>1 DEF ExecutorsUsed
<1>9. /\ r.pos = pos /\ r.i = s.i + 1 /\ r.asked = asked /\ r.chosen = chosen
      /\ r.min_load = least /\ r.pc = s.pc /\ r.calm = s.calm
      /\ r \in Search
  BY <1>1, <1>2, <1>4, <1>6, <1>7, <1>8 DEF Search
<1>10. \A k \in 0..r.i : Back(r.pos, k) \in DOMAIN r.asked
  <2> SUFFICES ASSUME NEW k \in 0..(s.i + 1) PROVE Back(pos, k) \in DOMAIN asked
    BY <1>9
  <2>1. CASE k = 0
    BY <2>1, <1>2, <1>4, Around
  <2>2. CASE k # 0
    <3>1. k - 1 \in 0..s.i /\ k - 1 \in 0..(Size - 1) /\ (k - 1) + 1 = k
      BY <2>2, <1>1 DEF ExecutorsUsed
    <3>2. Back(pos, k) = Back(s.pos, k - 1)
      BY <3>1, <1>1, Around DEF pos
    <3>3. QED
      BY <3>1, <3>2, <1>4 DEF Learnt
  <2>3. QED
    BY <2>1, <2>2
<1>11. \A p \in DOMAIN r.asked : r.min_load <= r.asked[p]
  <2> SUFFICES ASSUME NEW p \in DOMAIN asked PROVE least <= asked[p]
    BY <1>9
  <2>1. load \in Nat /\ s.min_load \in Nat /\ (p # pos => s.asked[p] \in Nat /\ s.min_load <= s.asked[p])
    BY <1>1, <1>2, <1>3, <1>4 DEF ExecutorsUsed, Learnt
  <2>2. asked[p] = IF p = pos THEN load ELSE s.asked[p]
    BY <1>4
  <2>3. least <= load /\ least <= s.min_load /\ least \in Nat
    BY <2>1 DEF least
  <2>4. QED
    BY <2>1, <2>2, <2>3
<1>12. QED
  BY <1>9, <1>10, <1>11 DEF Learnt, chosen, least, r, load, pos

LEMMA SearchesStep ==
  ASSUME ExecutorsUsed, SearchesRight, [Exe!Next]_(Exe!vars)
  PROVE  SearchesRight'
<1>1. CASE Exe!AddPoller
  BY <1>1 DEF Exe!AddPoller, SearchesRight, Learnt, ExecutorsUsed
<1>2. ASSUME NEW i \in Exe!Pool, NEW load \in Loads, Exe!LoadChanges(i, load)
      PROVE  SearchesRight'
  <2>1. /\ threads' = threads /\ thread_pos' = thread_pos /\ loads' = [loads EXCEPT ![i] = load]
        /\ call' = [c \in Callers |-> IF call[c].pc = "search" THEN [call[c] EXCEPT !.calm = FALSE]
                                      ELSE call[c]]
    BY <1>2 DEF Exe!LoadChanges
  <2>2. \A c \in Callers :
           /\ call'[c] \in {Exe!Idle} \cup Search
           /\ call'[c].pc = call[c].pc
           /\ call[c].pc # "idle" => /\ call'[c].i = call[c].i /\ call'[c].pos = call[c].pos
                                     /\ call'[c].min_load = call[c].min_load
                                     /\ call'[c].asked = call[c].asked
    <3> TAKE c \in Callers
    <3>1. call[c] \in {Exe!Idle} \cup Search
      BY DEF SearchesRight
    <3>2. CASE call[c].pc = "search"
      <4>1. call[c] \in Search /\ call'[c] = [call[c] EXCEPT !.calm = FALSE]
        BY <2>1, <3>1, <3>2 DEF Exe!Idle
      <4>2. QED
        BY <4>1 DEF Search
    <3>3. CASE call[c].pc # "search"
      BY <2>1, <3>1, <3>3
    <3>4. QED
      BY <3>2, <3>3
  <2>3. loads' \in [Exe!Pool -> Loads]
    BY <2>1 DEF SearchesRight
  <2>4. call' \in [Callers -> {Exe!Idle} \cup Search]
    BY <2>1, <2>2
  <2>5. ASSUME NEW c \in Callers
        PROVE  /\ call'[c].pc # "idle" => Learnt(call'[c])
               /\ call'[c].pc = "search" => call'[c].i < Size
               /\ call'[c].pc = "got" => call'[c].min_load = 0 \/ call'[c].i = Size
    BY <2>2 DEF SearchesRight, Learnt
  <2>6. QED
    BY <2>1, <2>3, <2>4, <2>5 DEF SearchesRight
<1>3. ASSUME NEW c \in Callers, Exe!Start(c)
      PROVE  SearchesRight'
  <2> DEFINE s == [pc |-> "search", pos |-> thread_pos, i |-> 0, chosen |-> thread_pos,
                   min_load |-> loads[thread_pos],
                   asked |-> [p \in {thread_pos} |-> loads[thread_pos]], calm |-> TRUE]
  <2>1. threads' = threads /\ thread_pos' = thread_pos /\ loads' = loads
        /\ call' = [call EXCEPT ![c] = s]
    BY <1>3 DEF Exe!Start
  <2>2. thread_pos \in Exe!Pool /\ loads[thread_pos] \in Loads /\ loads[thread_pos] \in Nat
    BY DEF SearchesRight, ExecutorsUsed
  <2>3. s \in Search
    <3>1. [p \in {thread_pos} |-> loads[thread_pos]] \in [{thread_pos} -> Loads]
      BY <2>2
    <3>2. [p \in {thread_pos} |-> loads[thread_pos]] \in Told
      BY <2>2, <3>1 DEF Told
    <3>3. 0 \in 0..Size
      BY DEF ExecutorsUsed
    <3>4. QED
      BY <2>2, <3>2, <3>3 DEF Search
  <2>4. Learnt(s)
    <3>1. \A k \in 0..0 : Back(thread_pos, k) = thread_pos
      BY <2>2, Around
    <3>2. QED
      BY <2>2, <3>1 DEF Learnt
  <2>5. s.pc = "search" /\ s.i < Size
    BY DEF ExecutorsUsed
  <2> HIDE DEF s
  <2>6. /\ call' \in [Callers -> {Exe!Idle} \cup Search] /\ call'[c] = s
        /\ \A d \in Callers \ {c} : call'[d] = call[d]
    BY <2>1, <2>3 DEF SearchesRight
  <2>7. QED
    BY <2>1, <2>4, <2>5, <2>6 DEF SearchesRight, Learnt
<1>4. ASSUME NEW c \in Callers, Exe!Compare(c)
      PROVE  SearchesRight'
  <2>1. call[c] \in Search /\ call[c].pc = "search" /\ Learnt(call[c]) /\ call[c].i < Size
    BY <1>4 DEF Exe!Compare, Exe!Searching, Exe!Idle, SearchesRight
  <2> DEFINE s == Exe!Asked(call[c])
             got == [s EXCEPT !.pc = "got"]
             over == s.min_load = 0 \/ s.i = Size
  <2>2. s \in Search /\ Learnt(s) /\ s.pc = "search" /\ s.i = call[c].i + 1
    BY <2>1, RoundAsked
  <2>3. /\ over => call' = [call EXCEPT ![c] = got] /\ thread_pos' = s.pos
        /\ ~over => call' = [call EXCEPT ![c] = s] /\ thread_pos' = thread_pos
        /\ threads' = threads /\ loads' = loads
    BY <1>4 DEF Exe!Compare
  <2> HIDE DEF s
  <2>4. /\ got \in Search /\ got.pc = "got" /\ got.i = s.i /\ got.pos = s.pos
        /\ got.min_load = s.min_load /\ got.asked = s.asked
    BY <2>2 DEF Search
  <2>5. Learnt(got)
    BY <2>2, <2>4 DEF Learnt
  <2>6. s.pos \in Exe!Pool /\ s.i \in 0..Size
    BY <2>2 DEF Search
  <2>7. ~over => s.i < Size
    BY <2>6 DEF ExecutorsUsed
  <2> DEFINE new == IF over THEN got ELSE s
  <2>8. /\ new \in Search /\ Learnt(new)
        /\ new.pc = "search" => new.i < Size
        /\ new.pc = "got" => new.min_load = 0 \/ new.i = Size
    BY <2>2, <2>4, <2>5, <2>7
  <2>9. call' = [call EXCEPT ![c] = new]
    BY <2>3
  <2>10. thread_pos' \in Exe!Pool
    BY <2>3, <2>6 DEF SearchesRight
  <2> HIDE DEF new
  <2>11. /\ call' \in [Callers -> {Exe!Idle} \cup Search] /\ call'[c] = new
         /\ \A d \in Callers \ {c} : call'[d] = call[d]
    BY <2>8, <2>9 DEF SearchesRight
  <2>12. QED
    BY <2>3, <2>8, <2>10, <2>11 DEF SearchesRight, Learnt
<1>5. CASE UNCHANGED <<threads, thread_pos, loads, call>>
  BY <1>5 DEF SearchesRight, Learnt
<1>6. QED
  BY <1>1, <1>2, <1>3, <1>4, <1>5
     DEF Exe!Next, Exe!vars, Exe!Delay, Exe!DelayGive, Exe!DelayReturn, Exe!RunClosure, Exe!DropClosure

LEMMA InTurnStep ==
  ASSUME ExecutorsUsed, SearchesRight, InTurn, [Exe!Next]_(Exe!vars)
  PROVE  InTurn'
<1>1. CASE Exe!AddPoller
  BY <1>1 DEF Exe!AddPoller, InTurn, NoLoad
<1>2. ASSUME NEW i \in Exe!Pool, NEW load \in Loads, Exe!LoadChanges(i, load)
      PROVE  InTurn'
  <2>1. rotation' = <<>>
    BY <1>2 DEF Exe!LoadChanges
  <2>2. \A c \in Callers : ~(call'[c].pc = "search" /\ call'[c].calm)
    <3> TAKE c \in Callers
    <3>1. call'[c] = IF call[c].pc = "search" THEN [call[c] EXCEPT !.calm = FALSE] ELSE call[c]
      BY <1>2 DEF Exe!LoadChanges
    <3>2. call[c] \in {Exe!Idle} \cup Search
      BY DEF SearchesRight
    <3>3. CASE call[c].pc = "search"
      <4>1. call[c] \in Search /\ call'[c] = [call[c] EXCEPT !.calm = FALSE]
        BY <3>1, <3>2, <3>3 DEF Exe!Idle
      <4>2. call'[c].calm = FALSE
        BY <4>1 DEF Search
      <4>3. QED
        BY <4>2
    <3>4. QED
      BY <3>1, <3>3
  <2>3. QED
    BY <2>1, <2>2 DEF InTurn, ExecutorsUsed
<1>3. ASSUME NEW c \in Callers, Exe!Start(c)
      PROVE  InTurn'
  <2>1. /\ thread_pos' = thread_pos /\ loads' = loads
        /\ rotation' = IF Exe!Searching = {} THEN rotation ELSE <<>>
        /\ call' = [call EXCEPT ![c] =
              [pc |-> "search", pos |-> thread_pos, i |-> 0, chosen |-> thread_pos,
               min_load |-> loads[thread_pos],
               asked |-> [p \in {thread_pos} |-> loads[thread_pos]], calm |-> TRUE]]
    BY <1>3 DEF Exe!Start
  <2>2. /\ call'[c].i = 0 /\ call'[c].pos = thread_pos /\ call'[c].chosen = thread_pos
        /\ call'[c].min_load = loads[thread_pos]
        /\ \A d \in Callers \ {c} : call'[d] = call[d]
    BY <2>1 DEF SearchesRight
  <2>3. rotation' = rotation \/ rotation' = <<>>
    BY <2>1
  <2>4. rotation' \in Seq(Exe!Pool) /\ Len(rotation') <= Size
    <3>1. rotation \in Seq(Exe!Pool) /\ Len(rotation) <= Size
      BY DEF InTurn
    <3>2. <<>> \in Seq(Exe!Pool) /\ Len(<<>>) <= Size
      BY DEF ExecutorsUsed
    <3>3. QED
      BY <2>3, <3>1, <3>2
  <2>5. ASSUME NoLoad'
        PROVE  /\ \A i \in 1..Len(rotation') : rotation'[i] = Back(thread_pos', Len(rotation') - i + 1)
               /\ \A d \in Callers : call'[d].pc = "search" /\ call'[d].calm =>
                     /\ call'[d].i = 0 /\ call'[d].min_load = 0 /\ call'[d].chosen = call'[d].pos
                     /\ call'[d].pos = thread_pos' \/ rotation' = <<>>
    <3>1. NoLoad /\ loads[thread_pos] = 0
      BY <2>1, <2>5 DEF NoLoad, SearchesRight
    <3>2. \A i \in 1..Len(rotation') : rotation'[i] = Back(thread_pos', Len(rotation') - i + 1)
      BY <2>1, <2>3, <3>1 DEF InTurn
    <3>3. ASSUME NEW d \in Callers, call'[d].pc = "search", call'[d].calm
          PROVE  /\ call'[d].i = 0 /\ call'[d].min_load = 0 /\ call'[d].chosen = call'[d].pos
                 /\ call'[d].pos = thread_pos' \/ rotation' = <<>>
      <4>1. CASE d = c
        BY <4>1, <2>1, <2>2, <3>1
      <4>2. CASE d # c
        BY <4>2, <2>1, <2>2, <2>3, <3>1, <3>3 DEF InTurn
      <4>3. QED
        BY <4>1, <4>2
    <3>4. QED
      BY <3>2, <3>3
  <2>6. QED
    BY <2>4, <2>5 DEF InTurn
<1>4. ASSUME NEW c \in Callers, Exe!Compare(c)
      PROVE  InTurn'
  <2>1. call[c] \in Search /\ call[c].pc = "search" /\ Learnt(call[c]) /\ call[c].i < Size
    BY <1>4 DEF Exe!Compare, Exe!Searching, Exe!Idle, SearchesRight
  <2> DEFINE s == Exe!Asked(call[c])
             over == s.min_load = 0 \/ s.i = Size
  <2>2. /\ s \in Search /\ s.pos = Exe!After(call[c].pos) /\ s.i = call[c].i + 1
        /\ s.pc = call[c].pc /\ s.calm = call[c].calm
        /\ s.chosen = IF loads[s.pos] < call[c].min_load THEN s.pos ELSE call[c].chosen
        /\ s.min_load = IF loads[s.pos] < call[c].min_load THEN loads[s.pos] ELSE call[c].min_load
    BY <2>1, RoundAsked
  <2>3. /\ over => /\ call' = [call EXCEPT ![c] = [s EXCEPT !.pc = "got"]] /\ thread_pos' = s.pos
                   /\ rotation' = Exe!Returned(c, s)
        /\ ~over => call' = [call EXCEPT ![c] = s] /\ thread_pos' = thread_pos /\ rotation' = rotation
        /\ loads' = loads
    BY <1>4 DEF Exe!Compare
  <2> HIDE DEF s
  <2>4. s.pos \in Exe!Pool /\ s.chosen \in Exe!Pool /\ call[c].pos \in Exe!Pool
        /\ s.calm \in BOOLEAN /\ call[c].min_load \in Nat
    BY <2>1, <2>2 DEF Search, ExecutorsUsed
  <2>5. /\ over => call'[c].pc = "got"
        /\ ~over => call'[c] = s
        /\ \A d \in Callers \ {c} : call'[d] = call[d]
    BY <2>2, <2>3 DEF SearchesRight, Search
  <2>6. NoLoad /\ s.calm => /\ call[c].i = 0 /\ call[c].min_load = 0 /\ call[c].chosen = call[c].pos
                            /\ call[c].pos = thread_pos \/ rotation = <<>>
                            /\ s.chosen = call[c].pos /\ s.min_load = 0 /\ over
    <3> SUFFICES ASSUME NoLoad, s.calm
                 PROVE  /\ call[c].i = 0 /\ call[c].min_load = 0 /\ call[c].chosen = call[c].pos
                        /\ call[c].pos = thread_pos \/ rotation = <<>>
                        /\ s.chosen = call[c].pos /\ s.min_load = 0 /\ over
      OBVIOUS
    <3>1. /\ call[c].i = 0 /\ call[c].min_load = 0 /\ call[c].chosen = call[c].pos
          /\ call[c].pos = thread_pos \/ rotation = <<>>
      BY <2>1, <2>2 DEF InTurn
    <3>2. loads[s.pos] = 0
      BY <2>4 DEF NoLoad
    <3>3. QED
      BY <2>2, <3>1, <3>2
  <2>7. CASE ~over
    <3>1. thread_pos' = thread_pos /\ rotation' = rotation /\ call'[c] = s /\ NoLoad' = NoLoad
      BY <2>3, <2>5, <2>7 DEF NoLoad
    <3>2. NoLoad => ~s.calm
      BY <2>6, <2>7
    <3>3. ASSUME NoLoad, NEW d \in Callers, call'[d].pc = "search", call'[d].calm
          PROVE  /\ call'[d].i = 0 /\ call'[d].min_load = 0 /\ call'[d].chosen = call'[d].pos
                 /\ call'[d].pos = thread_pos' \/ rotation' = <<>>
      <4>1. d # c
        BY <3>1, <3>2, <3>3
      <4>2. call'[d] = call[d]
        BY <4>1, <2>5
      <4>3. QED
        BY <3>1, <3>3, <4>2 DEF InTurn
    <3>4. QED
      BY <3>1, <3>3 DEF InTurn
  <2>8. CASE over /\ (Exe!Searching # {c} \/ ~s.calm)
    <3>1. rotation' = <<>> /\ loads' = loads /\ call'[c].pc = "got"
      BY <2>3, <2>5, <2>8 DEF Exe!Returned
    <3>2. NoLoad' = NoLoad
      BY <3>1 DEF NoLoad
    <3>3. ASSUME NoLoad, NEW d \in Callers, call'[d].pc = "search", call'[d].calm
          PROVE  /\ call'[d].i = 0 /\ call'[d].min_load = 0 /\ call'[d].chosen = call'[d].pos
                 /\ call'[d].pos = thread_pos' \/ rotation' = <<>>
      <4>1. d # c
        BY <3>1, <3>3
      <4>2. call'[d] = call[d]
        BY <4>1, <2>5
      <4>3. QED
        BY <3>1, <3>3, <4>2 DEF InTurn
    <3>4. QED
      BY <3>1, <3>2, <3>3 DEF InTurn, ExecutorsUsed
  <2>9. CASE over /\ Exe!Searching = {c} /\ s.calm
    <3> DEFINE kept == IF Len(rotation) < Size THEN rotation ELSE Tail(rotation)
               n == Len(kept)
    <3>1. rotation' = Append(kept, s.chosen) /\ thread_pos' = s.pos /\ loads' = loads
      BY <2>3, <2>9 DEF Exe!Returned
    <3>2. rotation \in Seq(Exe!Pool) /\ Len(rotation) \in 0..Size /\ Size >= 1
      BY DEF InTurn, ExecutorsUsed
    <3>3. /\ kept \in Seq(Exe!Pool) /\ n \in 0..(Size - 1)
          /\ \A i \in 1..n : kept[i] = rotation[i + (Len(rotation) - n)]
          /\ Len(rotation) - n \in {0, 1}
      <4>1. CASE Len(rotation) < Size
        BY <3>2, <4>1 DEF ExecutorsUsed
      <4>2. CASE ~(Len(rotation) < Size)
        <5>1. Len(rotation) = Size /\ rotation # <<>> /\ kept = Tail(rotation)
          BY <3>2, <4>2 DEF ExecutorsUsed
        <5>2. /\ Tail(rotation) \in Seq(Exe!Pool) /\ Len(Tail(rotation)) = Size - 1
              /\ \A i \in 1..(Size - 1) : Tail(rotation)[i] = rotation[i + 1]
          BY <3>2, <5>1, HeadTailProperties DEF ExecutorsUsed
        <5>3. Size - (Size - 1) = 1 /\ Size - 1 \in 0..(Size - 1)
          BY DEF ExecutorsUsed
        <5>4. n = Size - 1
          BY <5>1, <5>2
        <5> HIDE DEF kept
        <5>5. QED
          BY <5>1, <5>2, <5>3, <5>4
      <4>3. QED
        BY <4>1, <4>2
    <3> HIDE DEF kept
    <3>4. /\ rotation' \in Seq(Exe!Pool) /\ Len(rotation') = n + 1 /\ n + 1 <= Size
          /\ rotation'[n + 1] = s.chosen
          /\ \A i \in 1..n : rotation'[i] = kept[i]
      <4>1. kept \in Seq(Exe!Pool) /\ Len(kept) \in 0..(Size - 1)
        BY <3>3
      <4>2. /\ Append(kept, s.chosen) \in Seq(Exe!Pool)
            /\ Len(Append(kept, s.chosen)) = Len(kept) + 1
            /\ Append(kept, s.chosen)[Len(kept) + 1] = s.chosen
            /\ \A i \in 1..Len(kept) : Append(kept, s.chosen)[i] = kept[i]
        BY <4>1, <2>4, AppendProperties
      <4>3. Len(kept) + 1 <= Size
        BY <4>1, <3>2 DEF ExecutorsUsed
      <4>4. QED
        BY <4>2, <4>3, <3>1
    <3>5. \A d \in Callers : call'[d].pc # "search"
      BY <2>5, <2>9 DEF Exe!Searching
    <3>6. ASSUME NoLoad, NEW i \in 1..(n + 1)
          PROVE  rotation'[i] = Back(s.pos, (n + 1) - i + 1)
      <4>1. s.chosen = call[c].pos /\ (call[c].pos = thread_pos \/ rotation = <<>>)
        BY <2>6, <2>9, <3>6
      <4>2. CASE i = n + 1
        <5>1. (n + 1) - i + 1 = 1
          BY <4>2, <3>3
        <5>2. Back(s.pos, 1) = call[c].pos
          BY <2>2, <2>4, Around
        <5>3. QED
          BY <4>1, <4>2, <5>1, <5>2, <3>4
      <4>3. CASE i # n + 1
        <5> DEFINE L == Len(rotation)
                   k == n - i + 1
        <5>1. i \in 1..n /\ L \in 0..Size /\ n \in 0..(Size - 1) /\ L - n \in {0, 1}
          BY <4>3, <3>2, <3>3
        <5> HIDE DEF L, n
        <5>2. /\ i + (L - n) \in 1..L /\ L - (i + (L - n)) + 1 = k /\ k \in 0..(Size - 1)
              /\ (n + 1) - i + 1 = k + 1 /\ L # 0
          BY <5>1 DEF ExecutorsUsed
        <5>3. rotation # <<>> /\ thread_pos = call[c].pos
          BY <5>2, <4>1, <3>2 DEF L
        <5>4. kept[i] = rotation[i + (L - n)]
          BY <3>3, <5>1 DEF L, n
        <5>5. rotation[i + (L - n)] = Back(thread_pos, L - (i + (L - n)) + 1)
          BY <3>6, <5>2 DEF InTurn, L
        <5>6. Back(s.pos, k + 1) = Back(thread_pos, k)
          BY <5>2, <5>3, <2>2, <2>4, Around
        <5>7. rotation'[i] = kept[i]
          BY <3>4, <5>1 DEF n
        <5>8. QED
          BY <5>2, <5>4, <5>5, <5>6, <5>7
      <4>4. QED
        BY <4>2, <4>3
    <3>7. NoLoad' = NoLoad
      BY <3>1 DEF NoLoad
    <3>8. QED
      BY <3>1, <3>4, <3>5, <3>6, <3>7 DEF InTurn
  <2>10. QED
    BY <2>4, <2>7, <2>8, <2>9
<1>5. CASE UNCHANGED <<thread_pos, loads, call, rotation>>
  BY <1>5 DEF InTurn, NoLoad
<1>6. QED
  BY <1>1, <1>2, <1>3, <1>4, <1>5
     DEF Exe!Next, Exe!vars, Exe!Delay, Exe!DelayGive, Exe!DelayReturn, Exe!RunClosure, Exe!DropClosure

(* Whoever gets an executor was told by no other of a lower load; and while  *)
(* nothing has anything to do, calls that do not overlap go to each executor *)
(* once before they go to one again.                                         *)
THEOREM Spread ==
  ASSUME ExecutorsUsed
  PROVE  Exe!Spec => []Exe!SpreadsLoad
<1>1. Exe!Init => SearchesRight /\ InTurn
  <2> SUFFICES ASSUME Exe!Init PROVE SearchesRight /\ InTurn
    OBVIOUS
  <2>1. /\ threads = 0 /\ thread_pos = 0 /\ loads = [i \in Exe!Pool |-> 0]
        /\ call = [c \in Callers |-> Exe!Idle] /\ rotation = <<>>
    BY DEF Exe!Init
  <2>2. 0 \in 0..Size /\ 0 \in Exe!Pool /\ 0 <= Size /\ 0 \in Loads
    BY DEF ExecutorsUsed, Exe!Pool
  <2>3. \A c \in Callers : call[c].pc = "idle"
    BY <2>1 DEF Exe!Idle
  <2>4. QED
    BY <2>1, <2>2, <2>3 DEF SearchesRight, InTurn
<1>2. SearchesRight /\ InTurn /\ [Exe!Next]_(Exe!vars) => (SearchesRight /\ InTurn)'
  BY SearchesStep, InTurnStep
<1>3. SearchesRight /\ InTurn => Exe!SpreadsLoad
  <2> SUFFICES ASSUME SearchesRight, InTurn PROVE Exe!SpreadsLoad
    OBVIOUS
  <2>1. ASSUME NEW c \in Callers, call[c].pc = "got"
        PROVE  /\ DOMAIN call[c].asked = Exe!Pool \/ call[c].min_load = 0
               /\ \A p \in DOMAIN call[c].asked : call[c].min_load <= call[c].asked[p]
    <3>1. call[c] \in Search /\ Learnt(call[c])
      BY <2>1 DEF SearchesRight, Exe!Idle
    <3>2. /\ DOMAIN call[c].asked \subseteq Exe!Pool /\ call[c].pos \in Exe!Pool
      BY <3>1 DEF Search, Told
    <3>3. CASE call[c].i = Size
      <4>1. \A k \in 0..(Size - 1) : Back(call[c].pos, k) \in DOMAIN call[c].asked
        BY <3>1, <3>3 DEF Learnt, ExecutorsUsed
      <4>2. ASSUME NEW q \in Exe!Pool
            PROVE  q \in DOMAIN call[c].asked
        <5>1. \E k \in 0..(Size - 1) : q = Back(call[c].pos, k)
          BY <3>2, Around
        <5>2. QED
          BY <5>1, <4>1
      <4>3. QED
        BY <4>2, <3>1, <3>2 DEF Learnt
    <3>4. QED
      BY <2>1, <3>1, <3>3 DEF SearchesRight, Learnt
  <2>2. ASSUME \A i \in Exe!Pool : loads[i] = 0
        PROVE  Exe!IsInjective(rotation)
    <3>1. \A i \in 1..Len(rotation) : rotation[i] = Back(thread_pos, Len(rotation) - i + 1)
      BY <2>2 DEF InTurn, NoLoad
    <3>2. rotation \in Seq(Exe!Pool) /\ Len(rotation) \in Nat /\ Len(rotation) <= Size /\ Size \in Nat
          /\ DOMAIN rotation = 1..Len(rotation)
      BY DEF InTurn, ExecutorsUsed
    <3>3. ASSUME NEW i \in DOMAIN rotation, NEW j \in DOMAIN rotation, rotation[i] = rotation[j]
          PROVE  i = j
      <4> DEFINE L == Len(rotation)
      <4>1. i \in 1..L /\ j \in 1..L /\ L \in Nat /\ L <= Size /\ Size \in Nat
        BY <3>2
      <4>2. Back(thread_pos, L - i + 1) = Back(thread_pos, L - j + 1)
        BY <3>1, <3>3, <4>1
      <4> HIDE DEF L
      <4>3. L - i + 1 \in 1..Size /\ L - j + 1 \in 1..Size
        BY <4>1
      <4>4. L - i + 1 = L - j + 1
        BY <4>2, <4>3, Around DEF SearchesRight
      <4>5. QED
        BY <4>1, <4>4
    <3>4. QED
      BY <3>3 DEF Exe!IsInjective
  <2>3. QED
    BY <2>1, <2>2 DEF Exe!SpreadsLoad
<1>4. QED
  BY <1>1, <1>2, <1>3, PTL DEF Exe!Spec

-----------------------------------------------------------------------------
(* The load of a thread, ThreadLoadCounter in src/Thread/TaskExecutor.cpp    *)
(* (LoadCounter.tla), for any limits on the number of records and on the     *)
(* time they cover.                                                          *)
CONSTANTS max_size, max_usec, MaxTime

VARIABLES sleeping, last_sleep_time, last_wake_time, time_list, waits, past, answer

Load == INSTANCE LoadCounter

(* What LoadCounter.tla assumes of its constants. *)
LoadUsed == max_size \in Nat \ {0} /\ max_usec \in Nat \ {0} /\ MaxTime \in Nat

(* Induction up to a number, over a set. *)
LEMMA LeastOf ==
  ASSUME NEW S \in SUBSET Nat, S # {}
  PROVE  \E n \in S : \A m \in S : n <= m
<1> DEFINE R == {ss \in Nat \X Nat : ss[1] < ss[2]}
<1>1. IsWellFoundedOn(R, Nat)
  BY NatLessThanWellFounded DEF OpToRel
<1>2. \A x, y \in Nat : y < x => <<y, x>> \in R
  <2> SUFFICES ASSUME NEW x \in Nat, NEW y \in Nat, y < x PROVE <<y, x>> \in R
    OBVIOUS
  <2>1. <<y, x>> \in Nat \X Nat /\ <<y, x>>[1] < <<y, x>>[2]
    OBVIOUS
  <2>2. QED
    BY <2>1
<1> HIDE DEF R
<1>3. PICK x \in S : \A y \in S : ~ (<<y, x>> \in R)
  BY <1>1, WFMin
<1>4. ASSUME NEW m \in S PROVE x <= m
  <2>1. x \in Nat /\ m \in Nat
    OBVIOUS
  <2>2. ~ (m < x)
    BY <1>2, <1>3, <2>1
  <2>3. QED
    BY <2>1, <2>2
<1>5. QED
  BY <1>4

LEMMA UpTo ==
  ASSUME NEW N \in Nat, NEW S, 0 \in S, \A n \in 0..(N - 1) : n \in S => n + 1 \in S
  PROVE  0..N \subseteq S
<1> SUFFICES ASSUME (0..N) \ S # {} PROVE FALSE
  OBVIOUS
<1>1. (0..N) \ S \in SUBSET Nat
  OBVIOUS
<1>2. PICK n \in (0..N) \ S : \A m \in (0..N) \ S : n <= m
  BY <1>1, LeastOf
<1>3. n # 0 /\ n - 1 \in 0..(N - 1)
  BY <1>2
<1>4. n - 1 \in S
  BY <1>2, <1>3
<1>5. QED
  BY <1>2, <1>3, <1>4

Records == [time : Nat, sleep : BOOLEAN]

LEMMA RecordsAre ==
  ASSUME NEW list \in Seq(Records)
  PROVE  /\ Len(list) \in Nat
         /\ \A i \in 1..Len(list) : list[i] \in Records /\ list[i].time \in Nat /\ list[i].sleep \in BOOLEAN
<1>1. Len(list) \in Nat /\ \A i \in 1..Len(list) : list[i] \in Records
  OBVIOUS
<1>2. QED
  BY <1>1 DEF Records

(* The sum of records exists, and grows by one record at a time. *)
LEMMA SumExists ==
  ASSUME NEW list \in Seq(Records)
  PROVE  \E f \in [0..Len(list) -> Nat] :
            f = [m \in 0..Len(list) |-> IF m = 0 THEN 0 ELSE f[m - 1] + list[m].time]
<1> DEFINE Sums(k, f) == f[0] = 0 /\ \A m \in 1..k : f[m] = f[m - 1] + list[m].time
           S == {k \in 0..Len(list) : \E f \in [0..k -> Nat] : Sums(k, f)}
<1>1. 0 \in S
  <2>1. [m \in 0..0 |-> 0] \in [0..0 -> Nat] /\ Sums(0, [m \in 0..0 |-> 0])
    OBVIOUS
  <2>2. 0 \in 0..Len(list)
    BY RecordsAre
  <2>3. QED
    BY <2>1, <2>2
<1>2. ASSUME NEW k \in 0..(Len(list) - 1), k \in S
      PROVE  k + 1 \in S
  <2>1. PICK f \in [0..k -> Nat] : Sums(k, f)
    BY <1>2
  <2> DEFINE g == [m \in 0..(k + 1) |-> IF m = k + 1 THEN f[k] + list[k + 1].time ELSE f[m]]
  <2>2. list[k + 1].time \in Nat /\ f[k] \in Nat
    BY RecordsAre, k + 1 \in 1..Len(list)
  <2>3. g \in [0..(k + 1) -> Nat]
    BY <2>1, <2>2
  <2>4. Sums(k + 1, g)
    BY <2>1, <2>2
  <2>5. k + 1 \in 0..Len(list)
    BY RecordsAre
  <2>6. QED
    BY <2>3, <2>4, <2>5
<1>3. Len(list) \in S
  <2> HIDE DEF S
  <2>1. 0..Len(list) \subseteq S
    BY <1>1, <1>2, UpTo, RecordsAre
  <2>2. QED
    BY <2>1, RecordsAre
<1>4. PICK f \in [0..Len(list) -> Nat] : Sums(Len(list), f)
  BY <1>3
<1>5. f = [m \in 0..Len(list) |-> IF m = 0 THEN 0 ELSE f[m - 1] + list[m].time]
  BY <1>4
<1>6. QED
  BY <1>5

LEMMA SumStep ==
  ASSUME NEW list \in Seq(Records)
  PROVE  /\ \A n \in 0..Len(list) : Load!Sum(list, n) \in Nat
         /\ Load!Sum(list, 0) = 0
         /\ \A n \in 1..Len(list) : Load!Sum(list, n) = Load!Sum(list, n - 1) + list[n].time
<1> DEFINE Good(f) == f = [m \in 0..Len(list) |-> IF m = 0 THEN 0 ELSE f[m - 1] + list[m].time]
           F == CHOOSE f : Good(f)
           S == {n \in 0..Len(list) : F[n] \in Nat}
<1>1. \E f : Good(f)
  BY SumExists
<1>2. Good(F)
  <2> HIDE DEF Good
  <2> QED BY <1>1
<1>3. \A n : Load!Sum(list, n) = F[n]
  BY DEF Load!Sum
<1> HIDE DEF F
<1>4. F[0] = 0 /\ \A n \in 1..Len(list) : F[n] = F[n - 1] + list[n].time
  BY <1>2
<1>5. 0 \in S
  BY <1>4
<1>6. ASSUME NEW n \in 0..(Len(list) - 1), n \in S PROVE n + 1 \in S
  <2>1. F[n + 1] = F[n] + list[n + 1].time /\ list[n + 1].time \in Nat
    BY <1>4, RecordsAre, n + 1 \in 1..Len(list), (n + 1) - 1 = n
  <2>2. QED
    BY <1>6, <2>1
<1>7. 0..Len(list) \subseteq S
  <2> HIDE DEF S
  <2> QED BY <1>5, <1>6, UpTo, RecordsAre
<1>8. QED
  BY <1>3, <1>4, <1>7

(* Where two lists have the same times, their sums differ by what was before. *)
LEMMA SumShift ==
  ASSUME NEW list \in Seq(Records), NEW other \in Seq(Records),
         NEW k \in Nat, NEW n \in 0..Len(other), k + n <= Len(list),
         \A i \in 1..n : other[i].time = list[k + i].time
  PROVE  Load!Sum(other, n) = Load!Sum(list, k + n) - Load!Sum(list, k)
<1>0. Len(list) \in Nat /\ Len(other) \in Nat /\ n \in Nat
  BY RecordsAre
<1> DEFINE S == {m \in 0..n : Load!Sum(other, m) = Load!Sum(list, k + m) - Load!Sum(list, k)}
<1>1. 0 \in S
  BY SumStep, <1>0, k + 0 = k, k \in 0..Len(list)
<1>2. ASSUME NEW m \in 0..(n - 1), m \in S PROVE m + 1 \in S
  <2>0. m \in Nat /\ k + (m + 1) \in 1..Len(list) /\ m + 1 \in 1..n /\ m + 1 \in 1..Len(other) /\ k + m \in 0..Len(list)
    BY <1>0
  <2>1. Load!Sum(other, m + 1) = Load!Sum(other, m) + other[m + 1].time
    BY SumStep, <2>0, (m + 1) - 1 = m
  <2>2. Load!Sum(list, k + (m + 1)) = Load!Sum(list, k + m) + list[k + (m + 1)].time
    BY SumStep, <2>0, (k + (m + 1)) - 1 = k + m
  <2>3. other[m + 1].time = list[k + (m + 1)].time /\ list[k + (m + 1)].time \in Nat
    BY RecordsAre, <2>0
  <2>4. Load!Sum(list, k + m) \in Nat /\ Load!Sum(list, k) \in Nat
    BY SumStep, <2>0, <1>0, k \in 0..Len(list)
  <2>5. QED
    BY <1>2, <2>1, <2>2, <2>3, <2>4
<1>3. 0..n \subseteq S
  <2> HIDE DEF S
  <2> QED BY <1>0, <1>1, <1>2, UpTo
<1>4. QED
  BY <1>3

LEMMA TotalIs ==
  ASSUME NEW list \in Seq(Records), NEW n \in 0..Len(list)
  PROVE  /\ Load!Total(list) \in Nat /\ Load!Sum(list, n) \in Nat
         /\ Load!Sum(list, n) <= Load!Total(list)
<1>0. Len(list) \in Nat /\ n \in Nat
  BY RecordsAre
<1> DEFINE rest == SubSeq(list, n + 1, Len(list))
<1>1. /\ rest \in Seq(Records) /\ Len(rest) = Len(list) - n
      /\ \A i \in 1..Len(rest) : rest[i] = list[n + i]
  <2>1. n + 1 \in 1..(Len(list) + 1)
    BY <1>0
  <2>2. QED
    BY <1>0, <2>1, SubSeqProperties
<1> HIDE DEF rest
<1>3. n + Len(rest) = Len(list) /\ Len(rest) \in 0..Len(rest) /\ Len(list) \in 0..Len(list)
  BY <1>0, <1>1
<1>2. Load!Sum(rest, Len(rest)) = Load!Sum(list, n + Len(rest)) - Load!Sum(list, n)
  <2>1. \A i \in 1..Len(rest) : rest[i].time = list[n + i].time
    BY <1>1
  <2>2. n + Len(rest) <= Len(list)
    BY <1>0, <1>3
  <2>3. QED
    BY <1>0, <1>1, <1>3, <2>1, <2>2, SumShift
<1>4. Load!Sum(rest, Len(rest)) \in Nat /\ Load!Sum(list, Len(list)) \in Nat /\ Load!Sum(list, n) \in Nat
  BY <1>1, <1>3, SumStep
<1>5. QED
  BY <1>2, <1>3, <1>4 DEF Load!Total

(* The records of a list cover, one after the other, the time up to some end. *)
Covered(list, end, ran) ==
    \A k \in 1..Len(list) :
        \A i \in (end - Load!Total(list) + Load!Sum(list, k - 1) + 1)..(end - Load!Total(list) + Load!Sum(list, k)) :
            ran[i] = ~list[k].sleep

(* So do those that are left when the first ones go, *)
LEMMA CoveredRest ==
  ASSUME NEW list \in Seq(Records), NEW n \in 0..Len(list), NEW end \in Nat, NEW ran,
         Covered(list, end, ran)
  PROVE  LET rest == SubSeq(list, n + 1, Len(list))
         IN  /\ rest \in Seq(Records) /\ Len(rest) = Len(list) - n
             /\ \A i \in 1..Len(rest) : rest[i] = list[n + i]
             /\ Load!Total(rest) = Load!Total(list) - Load!Sum(list, n)
             /\ Covered(rest, end, ran)
<1>0. Len(list) \in Nat /\ n \in Nat
  BY RecordsAre
<1> DEFINE rest == SubSeq(list, n + 1, Len(list))
<1>1. /\ rest \in Seq(Records) /\ Len(rest) = Len(list) - n
      /\ \A i \in 1..Len(rest) : rest[i] = list[n + i]
  <2>1. n + 1 \in 1..(Len(list) + 1)
    BY <1>0
  <2>2. QED
    BY <1>0, <2>1, SubSeqProperties
<1> HIDE DEF rest
<1>2. \A m \in 0..Len(rest) : Load!Sum(rest, m) = Load!Sum(list, n + m) - Load!Sum(list, n)
  <2> TAKE m \in 0..Len(rest)
  <2>1. \A i \in 1..m : rest[i].time = list[n + i].time
    BY <1>0, <1>1
  <2>2. n + m <= Len(list)
    BY <1>0, <1>1
  <2>3. QED
    BY <1>0, <1>1, <2>1, <2>2, SumShift
<1>3. Load!Total(rest) = Load!Total(list) - Load!Sum(list, n)
  <2>1. Len(rest) \in 0..Len(rest) /\ n + Len(rest) = Len(list)
    BY <1>0, <1>1
  <2>2. QED
    BY <1>2, <2>1 DEF Load!Total
<1>4. Covered(rest, end, ran)
  <2> SUFFICES ASSUME NEW k \in 1..Len(rest)
               PROVE  \A i \in (end - Load!Total(rest) + Load!Sum(rest, k - 1) + 1)..(end - Load!Total(rest) + Load!Sum(rest, k)) :
                         ran[i] = ~rest[k].sleep
    BY DEF Covered
  <2>1. k \in 0..Len(rest) /\ k - 1 \in 0..Len(rest) /\ n + k \in 1..Len(list) /\ n + (k - 1) = (n + k) - 1
        /\ n + k \in 0..Len(list) /\ (n + k) - 1 \in 0..Len(list) /\ n \in 0..Len(list)
    BY <1>0, <1>1
  <2>2. /\ Load!Sum(rest, k) = Load!Sum(list, n + k) - Load!Sum(list, n)
        /\ Load!Sum(rest, k - 1) = Load!Sum(list, (n + k) - 1) - Load!Sum(list, n)
        /\ rest[k] = list[n + k]
    BY <1>1, <1>2, <2>1
  <2>3. /\ Load!Sum(list, n + k) \in Nat /\ Load!Sum(list, (n + k) - 1) \in Nat /\ Load!Sum(list, n) \in Nat
        /\ Load!Total(list) \in Nat
    BY <2>1, TotalIs
  <2>4. /\ end - Load!Total(rest) + Load!Sum(rest, k - 1) + 1 = end - Load!Total(list) + Load!Sum(list, (n + k) - 1) + 1
        /\ end - Load!Total(rest) + Load!Sum(rest, k) = end - Load!Total(list) + Load!Sum(list, n + k)
    BY <1>3, <2>2, <2>3
  <2>5. QED
    BY <2>1, <2>2, <2>4 DEF Covered
<1>5. QED
  BY <1>1, <1>3, <1>4 DEF rest

(* and those with a record more. *)
LEMMA CoveredLonger ==
  ASSUME NEW list \in Seq(Records), NEW record \in Records, NEW end \in Nat, NEW ran,
         Covered(list, end, ran),
         \A i \in (end + 1)..(end + record.time) : ran[i] = ~record.sleep
  PROVE  LET longer == Append(list, record)
         IN  /\ longer \in Seq(Records) /\ Len(longer) = Len(list) + 1
             /\ \A i \in 1..Len(list) : longer[i] = list[i]
             /\ longer[Len(list) + 1] = record
             /\ Load!Total(longer) = Load!Total(list) + record.time
             /\ Covered(longer, end + record.time, ran)
<1>0. Len(list) \in Nat /\ record.time \in Nat
  BY RecordsAre DEF Records
<1> DEFINE longer == Append(list, record)
<1>1. /\ longer \in Seq(Records) /\ Len(longer) = Len(list) + 1
      /\ \A i \in 1..Len(list) : longer[i] = list[i]
      /\ longer[Len(list) + 1] = record
  BY AppendProperties
<1> HIDE DEF longer
<1>2. \A m \in 0..Len(list) : Load!Sum(longer, m) = Load!Sum(list, m)
  <2> TAKE m \in 0..Len(list)
  <2>1. m \in 0..Len(longer) /\ 0 \in 0..Len(list) /\ 0 + m <= Len(longer) /\ 0 + m = m
    BY <1>0, <1>1
  <2>2. \A i \in 1..m : list[i].time = longer[0 + i].time
    BY <1>0, <1>1
  <2>3. Load!Sum(list, m) = Load!Sum(longer, 0 + m) - Load!Sum(longer, 0)
    BY <1>1, <2>1, <2>2, SumShift
  <2>4. Load!Sum(longer, 0) = 0 /\ Load!Sum(longer, m) \in Nat
    BY <1>1, <2>1, SumStep
  <2>5. QED
    BY <2>1, <2>3, <2>4
<1>3. /\ Load!Total(longer) = Load!Total(list) + record.time
      /\ Load!Sum(longer, Len(list) + 1) = Load!Total(longer)
  <2>1. Len(list) + 1 \in 1..Len(longer) /\ (Len(list) + 1) - 1 = Len(list) /\ Len(list) \in 0..Len(list)
    BY <1>0, <1>1
  <2>2. QED
    BY <1>1, <1>2, <2>1, SumStep DEF Load!Total
<1>4. Load!Total(list) \in Nat /\ \A m \in 0..Len(list) : Load!Sum(list, m) \in Nat
  BY <1>0, TotalIs, 0 \in 0..Len(list)
<1>5. Covered(longer, end + record.time, ran)
  <2> DEFINE from(k) == (end + record.time) - Load!Total(longer) + Load!Sum(longer, k - 1) + 1
             to(k) == (end + record.time) - Load!Total(longer) + Load!Sum(longer, k)
  <2>1. ASSUME NEW k \in 1..Len(list)
        PROVE  \A i \in from(k)..to(k) : ran[i] = ~longer[k].sleep
    <3>1. k \in 0..Len(list) /\ k - 1 \in 0..Len(list)
      BY <1>0
    <3>2. /\ from(k) = end - Load!Total(list) + Load!Sum(list, k - 1) + 1
          /\ to(k) = end - Load!Total(list) + Load!Sum(list, k)
      BY <1>0, <1>2, <1>3, <1>4, <3>1
    <3> HIDE DEF from, to
    <3>3. QED
      BY <1>1, <3>2 DEF Covered
  <2>2. \A i \in from(Len(list) + 1)..to(Len(list) + 1) : ran[i] = ~longer[Len(list) + 1].sleep
    <3>1. (Len(list) + 1) - 1 = Len(list) /\ Len(list) \in 0..Len(list)
      BY <1>0
    <3>2. Load!Sum(longer, Len(list)) = Load!Total(list)
      BY <1>2, <3>1 DEF Load!Total
    <3>3. from(Len(list) + 1) = end + 1 /\ to(Len(list) + 1) = end + record.time
      BY <1>0, <1>3, <1>4, <3>1, <3>2
    <3> HIDE DEF from, to
    <3>4. QED
      BY <1>1, <3>3
  <2>3. \A k \in 1..Len(longer) : k \in 1..Len(list) \/ k = Len(list) + 1
    BY <1>0, <1>1
  <2> HIDE DEF from, to
  <2>4. \A k \in 1..Len(longer) : \A i \in from(k)..to(k) : ran[i] = ~longer[k].sleep
    BY <2>1, <2>2, <2>3
  <2>5. QED
    BY <2>4 DEF Covered, from, to
<1>6. QED
  BY <1>1, <1>3, <1>5 DEF longer

(* How long the thread ran between two times. *)
Ran(a, b, ran) == Cardinality({i \in (a + 1)..b : ran[i]})

LEMMA RanAdds ==
  ASSUME NEW a \in Nat, NEW b \in Nat, NEW c \in Nat, a <= b, b <= c, NEW ran
  PROVE  /\ Ran(a, b, ran) \in Nat
         /\ Ran(a, c, ran) = Ran(a, b, ran) + Ran(b, c, ran)
<1> DEFINE A == {i \in (a + 1)..b : ran[i]}
           B == {i \in (b + 1)..c : ran[i]}
<1>1. IsFiniteSet((a + 1)..b) /\ IsFiniteSet((b + 1)..c)
  BY FS_Interval
<1>2. IsFiniteSet(A) /\ IsFiniteSet(B)
  BY <1>1, FS_Subset
<1>3. {i \in (a + 1)..c : ran[i]} = A \cup B /\ A \cap B = {}
  OBVIOUS
<1>4. Cardinality(A) \in Nat /\ Cardinality(B) \in Nat
  BY <1>2, FS_CardinalityType
<1>5. Cardinality(A \cup B) = Cardinality(A) + Cardinality(B)
  <2>1. Cardinality(A \cup B) = Cardinality(A) + Cardinality(B) - Cardinality(A \cap B)
    BY <1>2, FS_Union
  <2>2. Cardinality(A \cap B) = 0
    BY <1>3, FS_EmptySet
  <2>3. QED
    BY <1>4, <2>1, <2>2
<1>6. QED
  BY <1>3, <1>4, <1>5 DEF Ran

LEMMA RanThroughout ==
  ASSUME NEW a \in Nat, NEW b \in Nat, a <= b, NEW ran, NEW slept \in BOOLEAN,
         \A i \in (a + 1)..b : ran[i] = ~slept
  PROVE  Ran(a, b, ran) = IF slept THEN 0 ELSE b - a
<1>1. CASE slept
  <2>1. {i \in (a + 1)..b : ran[i]} = {}
    BY <1>1
  <2>2. QED
    BY <1>1, <2>1, FS_EmptySet DEF Ran
<1>2. CASE ~slept
  <2>1. {i \in (a + 1)..b : ran[i]} = (a + 1)..b
    BY <1>2
  <2>2. Cardinality((a + 1)..b) = b - a
    <3>1. Cardinality((a + 1)..b) = IF (a + 1) > b THEN 0 ELSE b - (a + 1) + 1
      BY FS_Interval
    <3>2. QED
      BY <3>1
  <2>3. QED
    BY <1>2, <2>1, <2>2 DEF Ran
<1>3. QED
  BY <1>1, <1>2

LEMMA RunningIs ==
  ASSUME NEW list \in Seq(Records)
  PROVE  /\ Load!Running(list) \in Seq(Records) /\ Len(Load!Running(list)) = Len(list)
         /\ \A k \in 1..Len(list) : Load!Running(list)[k].time = IF list[k].sleep THEN 0 ELSE list[k].time
<1>1. DOMAIN list = 1..Len(list) /\ Len(list) \in Nat
  OBVIOUS
<1>2. \A k \in 1..Len(list) : /\ [list[k] EXCEPT !.time = IF list[k].sleep THEN 0 ELSE @] \in Records
                              /\ [list[k] EXCEPT !.time = IF list[k].sleep THEN 0 ELSE @].time
                                    = IF list[k].sleep THEN 0 ELSE list[k].time
  BY RecordsAre DEF Records
<1>3. Load!Running(list) = [k \in 1..Len(list) |-> [list[k] EXCEPT !.time = IF list[k].sleep THEN 0 ELSE @]]
  BY <1>1 DEF Load!Running
<1> DEFINE amount(k) == [list[k] EXCEPT !.time = IF list[k].sleep THEN 0 ELSE @]
<1>4. \A k \in 1..Len(list) : amount(k) \in Records /\ amount(k).time = IF list[k].sleep THEN 0 ELSE list[k].time
  BY <1>2
<1>5. Load!Running(list) = [k \in 1..Len(list) |-> amount(k)]
  BY <1>3
<1> HIDE DEF amount
<1>6. Load!Running(list) \in [1..Len(list) -> Records]
  BY <1>4, <1>5
<1>7. Load!Running(list) \in Seq(Records) /\ Len(Load!Running(list)) = Len(list)
  BY <1>1, <1>6
<1>8. QED
  BY <1>4, <1>5, <1>7

LEMMA RanIsCounted ==
  ASSUME NEW list \in Seq(Records), NEW end \in Nat, NEW ran,
         Covered(list, end, ran), Load!Total(list) <= end
  PROVE  Ran(end - Load!Total(list), end, ran) = Load!Total(Load!Running(list))
<1> DEFINE begin == end - Load!Total(list)
           running == Load!Running(list)
           S == {k \in 0..Len(list) : Ran(begin, begin + Load!Sum(list, k), ran) = Load!Sum(running, k)}
<1>0. Len(list) \in Nat
  BY RecordsAre
<1>1. /\ running \in Seq(Records) /\ Len(running) = Len(list)
      /\ \A k \in 1..Len(list) : running[k].time = IF list[k].sleep THEN 0 ELSE list[k].time
  BY RunningIs
<1>2. /\ begin \in Nat
      /\ \A k \in 0..Len(list) : Load!Sum(list, k) \in Nat
      /\ begin + Load!Sum(list, Len(list)) = end
  <2>1. 0 \in 0..Len(list) /\ Load!Total(list) \in Nat
    BY <1>0, TotalIs
  <2>2. QED
    BY <2>1, TotalIs DEF Load!Total
<1> HIDE DEF running, begin
<1>3. 0 \in S
  <2>1. Load!Sum(list, 0) = 0 /\ Load!Sum(running, 0) = 0 /\ 0 \in 0..Len(list)
    BY <1>0, <1>1, SumStep
  <2>2. \A i \in (begin + 1)..begin : ran[i] = ~TRUE
    BY <1>2
  <2>3. Ran(begin, begin, ran) = IF TRUE THEN 0 ELSE begin - begin
    BY <1>2, <2>2, begin <= begin, TRUE \in BOOLEAN, RanThroughout
  <2>4. QED
    BY <1>2, <2>1, <2>3
<1>4. ASSUME NEW k \in 0..(Len(list) - 1), k \in S
      PROVE  k + 1 \in S
  <2> DEFINE a == begin + Load!Sum(list, k)
             b == begin + Load!Sum(list, k + 1)
  <2>1. k + 1 \in 1..Len(list) /\ (k + 1) - 1 = k /\ k \in 0..Len(list) /\ k + 1 \in 0..Len(list)
    BY <1>0
  <2>2. /\ list[k + 1].time \in Nat /\ list[k + 1].sleep \in BOOLEAN
        /\ Load!Sum(list, k + 1) = Load!Sum(list, k) + list[k + 1].time
        /\ Load!Sum(running, k + 1) = Load!Sum(running, k) + running[k + 1].time
    BY <1>1, <2>1, SumStep, RecordsAre
  <2>3. a \in Nat /\ b \in Nat /\ begin <= a /\ a <= b /\ b - a = list[k + 1].time
    <3>1. Load!Sum(list, k) \in Nat /\ Load!Sum(list, k + 1) \in Nat
      BY <1>2, <2>1
    <3>2. QED
      BY <1>2, <2>2, <3>1
  <2>4. \A i \in (a + 1)..b : ran[i] = ~list[k + 1].sleep
    BY <2>1 DEF Covered, begin
  <2> HIDE DEF a, b
  <2>5. Ran(a, b, ran) = running[k + 1].time
    BY <1>1, <2>1, <2>2, <2>3, <2>4, RanThroughout
  <2>6. Ran(begin, b, ran) = Ran(begin, a, ran) + Ran(a, b, ran)
    <3>1. begin \in Nat /\ a \in Nat /\ b \in Nat /\ begin <= a /\ a <= b
      BY <1>2, <2>3
    <3> HIDE DEF S
    <3>2. QED
      BY ONLY <3>1, RanAdds
  <2>7. Ran(begin, a, ran) = Load!Sum(running, k)
    BY <1>4 DEF a
  <2>8. QED
    BY <2>1, <2>2, <2>5, <2>6, <2>7 DEF b
<1>5. Len(list) \in S
  <2> HIDE DEF S
  <2>1. 0..Len(list) \subseteq S
    BY <1>0, <1>3, <1>4, UpTo
  <2>2. QED
    BY <1>0, <2>1
<1>6. QED
  BY <1>1, <1>2, <1>5 DEF Load!Total, running

(* When the thread last fell asleep or awoke. *)
Mark == IF sleeping THEN last_sleep_time ELSE last_wake_time

(* The records cover the time before that without a gap, and since then the   *)
(* thread has been doing the one thing.  The counter is wrong about the       *)
(* thread only before the first record.                                       *)
LoadKept ==
    /\ sleeping \in BOOLEAN /\ waits \in BOOLEAN
    /\ sleeping = waits \/ Load!Unstarted
    /\ Load!Unstarted => time_list = <<>> /\ last_sleep_time = 0 /\ last_wake_time = 0
    /\ last_sleep_time \in 0..Len(past) /\ last_wake_time \in 0..Len(past)
    /\ time_list \in Seq(Records) /\ Len(time_list) <= max_size
    /\ \A i \in 1..Len(time_list) : time_list[i].time <= Len(past)
    /\ past \in Seq(BOOLEAN) /\ Len(past) <= MaxTime
    /\ answer \in Int
    /\ Load!Total(time_list) <= Mark
    /\ \A i \in (Mark + 1)..Len(past) : past[i] = ~waits
    /\ Covered(time_list, Mark, past)

(* What is recorded ends now; if there are too many records the first one goes. *)
LEMMA Recorded ==
  ASSUME LoadUsed, LoadKept, NEW record \in Records,
         record.time = Len(past) - Mark, record.sleep = waits
  PROVE  LET list == Load!Added(record)
         IN  /\ list \in Seq(Records) /\ Len(list) <= max_size
             /\ \A i \in 1..Len(list) : list[i].time <= Len(past)
             /\ Load!Total(list) <= Len(past)
             /\ Covered(list, Len(past), past)
<1>0. /\ Len(past) \in Nat /\ Mark \in Nat /\ Mark <= Len(past) /\ time_list \in Seq(Records)
      /\ Len(time_list) \in Nat /\ max_size \in Nat /\ max_size > 0 /\ record.time \in Nat
      /\ Load!Total(time_list) \in Nat
  <2>1. Len(past) \in Nat /\ time_list \in Seq(Records)
    BY DEF LoadKept
  <2>2. Len(time_list) \in Nat
    BY <2>1, RecordsAre
  <2>3. Load!Total(time_list) \in Nat
    BY <2>1, <2>2, TotalIs, 0 \in 0..Len(time_list)
  <2>4. QED
    BY <2>1, <2>2, <2>3 DEF LoadUsed, LoadKept, Mark, Records
<1> DEFINE longer == Append(time_list, record)
<1>1. \A i \in (Mark + 1)..(Mark + record.time) : past[i] = ~record.sleep
  BY <1>0 DEF LoadKept
<1>2. Covered(time_list, Mark, past)
  BY DEF LoadKept
<1>3. /\ longer \in Seq(Records) /\ Len(longer) = Len(time_list) + 1
      /\ \A i \in 1..Len(time_list) : longer[i] = time_list[i]
      /\ longer[Len(time_list) + 1] = record
      /\ Load!Total(longer) = Load!Total(time_list) + record.time
      /\ Covered(longer, Mark + record.time, past)
  BY <1>0, <1>1, <1>2, CoveredLonger
<1> HIDE DEF longer
<1>4. Mark + record.time = Len(past)
  BY <1>0
<1>5. Covered(longer, Len(past), past)
  BY <1>3, <1>4
<1>6. \A i \in 1..Len(longer) : longer[i].time <= Len(past)
  <2>1. ASSUME NEW i \in 1..Len(longer) PROVE longer[i].time <= Len(past)
    <3>1. CASE i = Len(time_list) + 1
      BY <1>0, <1>3, <1>4, <3>1
    <3>2. CASE i \in 1..Len(time_list)
      BY <1>3, <3>2 DEF LoadKept
    <3>3. QED
      BY <1>0, <1>3, <2>1, <3>1, <3>2
  <2>2. QED
    BY <2>1
<1>7. Load!Total(longer) <= Len(past) /\ Load!Total(longer) \in Nat
  BY <1>0, <1>3, <1>4 DEF LoadKept
<1>8. CASE Len(longer) > max_size
  <2> DEFINE rest == SubSeq(longer, 1 + 1, Len(longer))
  <2>1. 1 \in 0..Len(longer)
    BY <1>0, <1>3
  <2>2. /\ rest \in Seq(Records) /\ Len(rest) = Len(longer) - 1
        /\ \A i \in 1..Len(rest) : rest[i] = longer[1 + i]
        /\ Load!Total(rest) = Load!Total(longer) - Load!Sum(longer, 1)
        /\ Covered(rest, Len(past), past)
    BY <1>0, <1>3, <1>5, <2>1, CoveredRest
  <2>3. Tail(longer) = rest
    <3>1. longer # <<>>
      BY <1>0, <1>3
    <3>2. QED
      BY <1>3, <3>1, TailIsSubSeq
  <2> HIDE DEF rest
  <2>4. Load!Added(record) = rest
    BY <1>8, <2>3 DEF Load!Added, longer
  <2>5. Load!Sum(longer, 1) \in Nat
    BY <1>3, <2>1, SumStep
  <2>6. \A i \in 1..Len(rest) : rest[i].time <= Len(past)
    BY <1>0, <1>3, <1>6, <2>2
  <2>7. Len(rest) <= max_size
    BY <1>0, <1>3, <2>2 DEF LoadKept
  <2>8. Load!Total(rest) <= Len(past)
    BY <1>0, <1>7, <2>2, <2>5
  <2>9. QED
    BY <2>2, <2>4, <2>6, <2>7, <2>8
<1>9. CASE ~ (Len(longer) > max_size)
  <2>1. Load!Added(record) = longer
    BY <1>9 DEF Load!Added, longer
  <2>2. Len(longer) <= max_size
    BY <1>0, <1>3, <1>9
  <2>3. QED
    BY <1>3, <1>5, <1>6, <1>7, <2>1, <2>2
<1>10. QED
  BY <1>8, <1>9

(* How many records load() drops. *)
Fits(n) ==
    \/ Len(time_list) = n
    \/ /\ Load!Since + Load!Total(time_list) - Load!Sum(time_list, n) <= max_usec
       /\ Len(time_list) - n <= max_size
Drops == CHOOSE n \in 0..Len(time_list) : Fits(n) /\ \A m \in 0..(n - 1) : ~Fits(m)

LEMMA DropsAre ==
  ASSUME LoadKept
  PROVE  Drops \in 0..Len(time_list) /\ Fits(Drops)
<1> DEFINE S == {n \in 0..Len(time_list) : Fits(n)}
<1>1. Len(time_list) \in Nat
  BY RecordsAre DEF LoadKept
<1>2. Len(time_list) \in S
  BY <1>1 DEF Fits
<1>3. S \in SUBSET Nat
  BY <1>1
<1>4. PICK n \in S : \A m \in S : n <= m
  <2> HIDE DEF S
  <2> QED BY <1>2, <1>3, LeastOf
<1>5. \A m \in 0..(n - 1) : ~Fits(m)
  <2> SUFFICES ASSUME NEW m \in 0..(n - 1), Fits(m) PROVE FALSE
    OBVIOUS
  <2>1. m \in S
    BY <1>1
  <2>2. n <= m
    BY <1>4, <2>1
  <2>3. QED
    BY <1>1, <2>2
<1>6. QED
  BY <1>4, <1>5 DEF Drops

LEMMA LoadCardinality == \A S : Load!Cardinality(S) = Cardinality(S)
  BY DEF Load!Cardinality, Cardinality

LEMMA LoadAnswers ==
  ASSUME LoadUsed, LoadKept, Load!load
  PROVE  LoadKept' /\ Load!LoadIsShare'
<1> DEFINE now == Len(past)
           rest == SubSeq(time_list, Drops + 1, Len(time_list))
           total == Load!Since + Load!Total(time_list) - Load!Sum(time_list, Drops)
           run == Load!Total(Load!Running(time_list)) - Load!Sum(Load!Running(time_list), Drops)
                    + (IF sleeping THEN 0 ELSE Load!Since)
<1>0. /\ now \in Nat /\ Mark \in Nat /\ Mark <= now /\ time_list \in Seq(Records)
      /\ Len(time_list) \in Nat /\ Drops \in Nat /\ Drops \in 0..Len(time_list)
      /\ Load!Since = now - Mark
  <2>1. Len(past) \in Nat /\ time_list \in Seq(Records)
    BY DEF LoadKept
  <2>2. Len(time_list) \in Nat
    BY <2>1, RecordsAre
  <2>3. Drops \in 0..Len(time_list)
    BY DropsAre
  <2>4. Load!Since = now - Mark
    BY DEF Load!Since, Load!now, Mark
  <2>5. QED
    BY <2>1, <2>2, <2>3, <2>4 DEF LoadKept, Mark
<1>1. /\ time_list' = rest
      /\ answer' = IF total = 0 THEN 0 ELSE (run * 100) \div total
      /\ UNCHANGED <<sleeping, last_sleep_time, last_wake_time, waits, past>>
  BY DEF Load!load, Drops, Fits
<1>2. /\ rest \in Seq(Records) /\ Len(rest) = Len(time_list) - Drops
      /\ \A i \in 1..Len(rest) : rest[i] = time_list[Drops + i]
      /\ Load!Total(rest) = Load!Total(time_list) - Load!Sum(time_list, Drops)
      /\ Covered(rest, Mark, past)
  <2>1. Covered(time_list, Mark, past)
    BY DEF LoadKept
  <2>2. QED
    BY <1>0, <2>1, CoveredRest
<1>3. /\ Load!Total(time_list) \in Nat /\ Load!Sum(time_list, Drops) \in Nat
      /\ Load!Sum(time_list, Drops) <= Load!Total(time_list)
  BY <1>0, TotalIs
<1>4. Load!Total(rest) \in Nat /\ Load!Total(rest) <= Mark /\ total = (now - Mark) + Load!Total(rest)
  BY <1>0, <1>2, <1>3 DEF LoadKept
<1> DEFINE ran == Ran(now - total, now, past)
<1>5. ASSUME ~Load!Unstarted PROVE run = ran
  <2> DEFINE running == Load!Running(time_list)
             left == Load!Running(rest)
  <2>1. /\ running \in Seq(Records) /\ Len(running) = Len(time_list)
        /\ \A k \in 1..Len(time_list) : running[k].time = IF time_list[k].sleep THEN 0 ELSE time_list[k].time
    BY <1>0, RunningIs
  <2>2. /\ left \in Seq(Records) /\ Len(left) = Len(rest)
        /\ \A k \in 1..Len(rest) : left[k].time = IF rest[k].sleep THEN 0 ELSE rest[k].time
    BY <1>2, RunningIs
  <2> HIDE DEF running, left
  <2>3. Load!Total(left) = Load!Total(running) - Load!Sum(running, Drops)
    <3>0. \A i \in 1..Len(rest) : Drops + i \in 1..Len(time_list)
      BY <1>0, <1>2
    <3>1. \A i \in 1..Len(left) : left[i].time = running[Drops + i].time
      BY <1>2, <2>1, <2>2, <3>0
    <3>2. Len(left) \in 0..Len(left) /\ Drops + Len(left) = Len(running)
      BY <1>0, <1>2, <2>1, <2>2
    <3>3. Drops + Len(left) <= Len(running)
      BY <1>0, <2>1, <3>2
    <3>4. Load!Sum(left, Len(left)) = Load!Sum(running, Drops + Len(left)) - Load!Sum(running, Drops)
      BY <1>0, <2>1, <2>2, <3>1, <3>2, <3>3, SumShift
    <3>5. QED
      BY <3>2, <3>4 DEF Load!Total
  <2>4. Ran(Mark - Load!Total(rest), Mark, past) = Load!Total(left)
    BY <1>0, <1>2, <1>4, RanIsCounted DEF left
  <2>5. Ran(Mark, now, past) = IF sleeping THEN 0 ELSE now - Mark
    <3>1. sleeping \in BOOLEAN /\ \A i \in (Mark + 1)..now : past[i] = ~sleeping
      BY <1>5 DEF LoadKept
    <3>2. QED
      BY <1>0, <3>1, RanThroughout
  <2> DEFINE begin == Mark - Load!Total(rest)
  <2>6. begin \in Nat /\ begin <= Mark /\ now - total = begin
    BY <1>0, <1>4
  <2> HIDE DEF begin, now, total, rest
  <2>7. Ran(begin, now, past) = Ran(begin, Mark, past) + Ran(Mark, now, past)
    BY ONLY <1>0, <2>6, RanAdds
  <2>8. Ran(begin, now, past) = Load!Total(left) + (IF sleeping THEN 0 ELSE now - Mark)
    BY <2>4, <2>5, <2>7 DEF begin
  <2>9. QED
    BY <1>0, <2>3, <2>6, <2>8 DEF running
<1>14. ASSUME Load!Unstarted PROVE run = 0
  <2>0. time_list = <<>> /\ sleeping
    BY <1>14 DEF LoadKept, Load!Unstarted
  <2>1. Len(time_list) = 0 /\ Drops = 0
    BY <1>0, <2>0
  <2>2. Load!Running(time_list) \in Seq(Records) /\ Len(Load!Running(time_list)) = 0
    BY <1>0, <2>1, RunningIs
  <2>3. Load!Sum(Load!Running(time_list), 0) = 0
    BY <2>2, SumStep
  <2>4. QED
    BY <2>0, <2>1, <2>2, <2>3 DEF Load!Total
<1>6. ran \in Nat
  <2>1. now - total \in Nat /\ now - total <= now /\ now <= now
    BY <1>0, <1>4
  <2> HIDE DEF now, total
  <2>2. QED
    BY ONLY <1>0, <2>1, RanAdds
<1>7. (Load!Since)' = Load!Since /\ (Load!now)' = now /\ Mark' = Mark
  BY <1>1 DEF Load!Since, Load!now, Mark
<1>8. total <= now /\ total \in Nat /\ (total <= max_usec \/ total = Load!Since)
  <2>1. Fits(Drops)
    BY DropsAre
  <2>2. CASE Len(time_list) = Drops
    BY <1>0, <1>3, <1>4, <2>2 DEF Load!Total
  <2>3. CASE total <= max_usec
    BY <1>0, <1>4, <2>3
  <2>4. QED
    BY <2>1, <2>2, <2>3 DEF Fits
<1>9. LoadKept'
  <2>1. Len(rest) <= max_size
    BY <1>0, <1>2 DEF LoadKept, LoadUsed
  <2>2. \A i \in 1..Len(rest) : rest[i].time <= now
    <3>1. \A i \in 1..Len(rest) : Drops + i \in 1..Len(time_list)
      BY <1>0, <1>2
    <3>2. QED
      BY <1>2, <3>1 DEF LoadKept
  <2>3. answer' \in Int
    <3> HIDE DEF total, run, ran
    <3>1. CASE total = 0
      BY <1>1, <3>1
    <3>2. CASE total # 0
      <4>1. run * 100 \in Int /\ total \in Nat /\ total > 0
        BY <1>5, <1>14, <1>6, <1>8, <3>2
      <4>2. (run * 100) \div total \in Int
        BY <4>1
      <4>3. QED
        BY <1>1, <3>2, <4>2
    <3>3. QED
      BY <3>1, <3>2
  <2> HIDE DEF total, run, ran
  <2>4. time_list = <<>> => rest = <<>>
    BY <1>0, <1>2
  <2> HIDE DEF rest
  <2>5. /\ sleeping' = waits' \/ (Load!Unstarted)'
        /\ (Load!Unstarted)' => time_list' = <<>> /\ last_sleep_time' = 0 /\ last_wake_time' = 0
    BY <1>1, <2>4 DEF LoadKept, Load!Unstarted
  <2>6. waits' \in BOOLEAN
    BY <1>1 DEF LoadKept
  <2>7. QED
    BY <1>1, <1>2, <1>4, <1>7, <2>1, <2>2, <2>3, <2>5, <2>6 DEF LoadKept
<1>10. (Load!LoadIsShare)'
  <2> DEFINE window == (Load!Since)' + Load!Total(time_list')
  <2>1. window = total
    BY <1>0, <1>1, <1>4, <1>7
  <2>2. {i \in ((Load!now)' - window + 1)..(Load!now)' : past'[i]} = {i \in (now - total + 1)..now : past[i]}
    BY <1>1, <1>7, <2>1
  <2> HIDE DEF window, rest, total, run, ran, now
  <2>3. Load!Cardinality({i \in ((Load!now)' - window + 1)..(Load!now)' : past'[i]}) = ran
    BY <2>2, LoadCardinality DEF ran, Ran
  <2>4. answer' = IF window = 0 \/ Load!Unstarted THEN 0 ELSE (ran * 100) \div window
    <3>1. CASE Load!Unstarted
      <4>1. CASE total = 0
        BY <1>1, <3>1, <4>1
      <4>2. CASE total # 0
        <5>1. total \in Nat /\ total > 0 /\ run = 0
          BY <1>8, <1>14, <3>1, <4>2
        <5>2. (0 * 100) \div total = 0
          BY <5>1
        <5>3. QED
          BY <1>1, <3>1, <4>2, <5>1, <5>2
      <4>3. QED
        BY <4>1, <4>2
    <3>2. CASE ~Load!Unstarted
      BY <1>1, <1>5, <2>1, <3>2
    <3>3. QED
      BY <3>1, <3>2
  <2>5. window <= (Load!now)' /\ (window <= max_usec \/ window = (Load!Since)')
    BY <1>7, <1>8, <2>1
  <2>6. (Load!Unstarted)' <=> Load!Unstarted
    BY <1>1 DEF Load!Unstarted
  <2>7. QED
    BY <2>3, <2>4, <2>5, <2>6 DEF Load!LoadIsShare, window
<1>11. QED
  BY <1>9, <1>10

LEMMA LoadKeptStep ==
  ASSUME LoadUsed, LoadKept, Load!LoadIsShare, [Load!Next]_(Load!vars)
  PROVE  LoadKept' /\ Load!LoadIsShare'
<1>0. /\ Len(past) \in Nat /\ past \in Seq(BOOLEAN) /\ sleeping \in BOOLEAN
      /\ last_sleep_time \in 0..Len(past) /\ last_wake_time \in 0..Len(past)
      /\ Mark \in Nat /\ Mark <= Len(past) /\ MaxTime \in Nat
  BY DEF LoadKept, LoadUsed, Mark
<1>1. CASE Load!load
  BY <1>1, LoadAnswers
<1>2. CASE Load!startSleep \/ Load!sleepWakeUp
  <2> DEFINE record == [time |-> Len(past) - Mark, sleep |-> waits]
  <2>1. record \in Records /\ record.time = Len(past) - Mark /\ record.sleep = waits
    BY <1>0 DEF Records, LoadKept
  <2>0. Mark = IF waits THEN last_sleep_time ELSE last_wake_time
    BY DEF LoadKept, Mark, Load!Unstarted
  <2>2. /\ time_list' = Load!Added(record) /\ sleeping' = ~waits /\ waits' = ~waits
        /\ past' = past /\ answer' = Load!NoAnswer
        /\ last_sleep_time' \in {last_sleep_time, Len(past)} /\ last_wake_time' \in {last_wake_time, Len(past)}
        /\ Mark' = Len(past)
    <3>1. CASE Load!startSleep
      <4>1. waits = FALSE
        BY <3>1 DEF Load!startSleep, LoadKept
      <4>2. QED
        BY <1>0, <2>0, <3>1, <4>1 DEF Load!startSleep, Load!Record, Load!now, Mark
    <3>2. CASE Load!sleepWakeUp
      <4>1. waits = TRUE
        BY <3>2 DEF Load!sleepWakeUp, LoadKept
      <4>2. QED
        BY <1>0, <2>0, <3>2, <4>1 DEF Load!sleepWakeUp, Load!Record, Load!now, Mark
    <3>3. QED
      BY <1>2, <3>1, <3>2
  <2> HIDE DEF record
  <2>3. /\ time_list' \in Seq(Records) /\ Len(time_list') <= max_size
        /\ \A i \in 1..Len(time_list') : time_list'[i].time <= Len(past)
        /\ Load!Total(time_list') <= Len(past)
        /\ Covered(time_list', Len(past), past)
    BY <2>1, <2>2, Recorded
  <2>4. \A i \in (Len(past) + 1)..Len(past) : past[i] = ~waits'
    BY <1>0
  <2>5. LoadKept'
    <3>1. waits \in BOOLEAN
      BY DEF LoadKept
    <3>2. ~ (Load!Unstarted)' /\ sleeping' = waits' /\ sleeping' \in BOOLEAN
      BY <2>2, <3>1 DEF Load!Unstarted
    <3>3. /\ last_sleep_time' \in 0..Len(past') /\ last_wake_time' \in 0..Len(past')
          /\ answer' \in Int /\ Len(past') <= MaxTime /\ past' \in Seq(BOOLEAN)
      BY <1>0, <2>2 DEF LoadKept, Load!NoAnswer
    <3>4. QED
      BY <2>2, <2>3, <2>4, <3>2, <3>3 DEF LoadKept
  <2>6. QED
    BY <2>2, <2>5 DEF Load!LoadIsShare, Load!NoAnswer
<1>3. CASE Load!Elapse
  <2>1. /\ past' = Append(past, ~waits) /\ answer' = Load!NoAnswer /\ Len(past) < MaxTime
        /\ UNCHANGED <<sleeping, last_sleep_time, last_wake_time, time_list, waits>> /\ Mark' = Mark
    BY <1>3 DEF Load!Elapse, Load!now, Mark
  <2>2. /\ past' \in Seq(BOOLEAN) /\ Len(past') = Len(past) + 1
        /\ past'[Len(past) + 1] = ~waits
        /\ \A i \in 1..Len(past) : past'[i] = past[i]
    BY <1>0, <2>1, AppendProperties DEF LoadKept
  <2>3. \A i \in (Mark + 1)..Len(past') : past'[i] = ~waits
    <3>1. ASSUME NEW i \in (Mark + 1)..Len(past') PROVE past'[i] = ~waits
      <4>1. CASE i = Len(past) + 1
        BY <2>2, <4>1
      <4>2. CASE i # Len(past) + 1
        <5>1. i \in 1..Len(past) /\ i \in (Mark + 1)..Len(past)
          BY <1>0, <2>2, <3>1, <4>2
        <5>2. QED
          BY <2>2, <5>1 DEF LoadKept
      <4>3. QED
        BY <4>1, <4>2
    <3>2. QED
      BY <3>1
  <2>4. Covered(time_list, Mark, past')
    <3> DEFINE from(k) == Mark - Load!Total(time_list) + Load!Sum(time_list, k - 1) + 1
               to(k) == Mark - Load!Total(time_list) + Load!Sum(time_list, k)
    <3>0. time_list \in Seq(Records) /\ Len(time_list) \in Nat
      BY RecordsAre DEF LoadKept
    <3>1. ASSUME NEW k \in 1..Len(time_list), NEW i \in from(k)..to(k)
          PROVE  past'[i] = ~time_list[k].sleep
      <4>1. k \in 0..Len(time_list) /\ k - 1 \in 0..Len(time_list)
        BY <3>0
      <4>2. /\ Load!Sum(time_list, k) \in Nat /\ Load!Sum(time_list, k - 1) \in Nat /\ Load!Total(time_list) \in Nat
            /\ Load!Sum(time_list, k) <= Load!Total(time_list)
        BY <3>0, <4>1, TotalIs
      <4>3. Load!Total(time_list) <= Mark
        BY DEF LoadKept
      <4>4. i \in 1..Len(past)
        BY <1>0, <4>2, <4>3
      <4>5. past[i] = ~time_list[k].sleep
        BY DEF LoadKept, Covered
      <4>6. QED
        BY <2>2, <4>4, <4>5
    <3> HIDE DEF from, to
    <3>2. \A k \in 1..Len(time_list) : \A i \in from(k)..to(k) : past'[i] = ~time_list[k].sleep
      BY <3>1
    <3>3. QED
      BY <3>2 DEF Covered, from, to
  <2>5. \A i \in 1..Len(time_list) : time_list[i].time <= Len(past')
    <3>1. \A i \in 1..Len(time_list) : time_list[i].time \in Nat /\ time_list[i].time <= Len(past)
      BY RecordsAre DEF LoadKept
    <3>2. QED
      BY <1>0, <2>2, <3>1
  <2>6. LoadKept'
    <3>1. last_sleep_time' \in 0..Len(past') /\ last_wake_time' \in 0..Len(past') /\ Len(past') <= MaxTime
      BY <1>0, <2>1, <2>2
    <3>2. /\ time_list \in Seq(Records) /\ Len(time_list) <= max_size /\ Load!Total(time_list) <= Mark
          /\ waits \in BOOLEAN
      BY DEF LoadKept
    <3>3. /\ sleeping' = waits' \/ (Load!Unstarted)'
          /\ (Load!Unstarted)' => time_list' = <<>> /\ last_sleep_time' = 0 /\ last_wake_time' = 0
      BY <2>1 DEF LoadKept, Load!Unstarted
    <3>4. QED
      BY <1>0, <2>1, <2>2, <2>3, <2>4, <2>5, <3>1, <3>2, <3>3 DEF LoadKept, Load!NoAnswer
  <2>7. QED
    BY <2>1, <2>6 DEF Load!LoadIsShare, Load!NoAnswer
<1>4. CASE UNCHANGED Load!vars
  <2>1. UNCHANGED <<sleeping, last_sleep_time, last_wake_time, time_list, waits, past, answer>>
    BY <1>4 DEF Load!vars
  <2>2. Mark' = Mark
    BY <2>1 DEF Mark
  <2>3. LoadKept'
    BY <2>1, <2>2 DEF LoadKept, Load!Unstarted
  <2>4. (Load!Since)' = Load!Since /\ (Load!now)' = Load!now
    BY <2>1 DEF Load!Since, Load!now
  <2>5. QED
    BY <2>1, <2>3, <2>4 DEF Load!LoadIsShare, Load!Unstarted
<1>5. QED
  BY <1>1, <1>2, <1>3, <1>4 DEF Load!Next

(* The load a thread tells is the share of the time in which it ran, over a  *)
(* stretch without gaps that ends now and is no longer than max_usec unless  *)
(* the thread has been doing one thing for longer, whichever of startSleep,  *)
(* sleepWakeUp and load drops the records; and it is 0 as long as the thread *)
(* has not called startSleep.                                                *)
THEOREM LoadIsShared ==
  ASSUME LoadUsed
  PROVE  Load!Spec => [](Load!TypeOK /\ Load!LoadIsShare)
<1>1. Load!Init => LoadKept /\ Load!LoadIsShare
  <2> SUFFICES ASSUME Load!Init PROVE LoadKept /\ Load!LoadIsShare
    OBVIOUS
  <2>1. <<>> \in Seq(Records) /\ Len(<<>>) = 0 /\ past = <<>> /\ time_list = <<>>
    BY DEF Load!Init, Load!Members
  <2>2. Load!Total(time_list) = 0
    BY <2>1, SumStep DEF Load!Total
  <2>3. Covered(time_list, Mark, past)
    BY <2>1 DEF Covered
  <2>4. Mark = 0 /\ sleeping = TRUE /\ waits = FALSE /\ last_sleep_time = 0 /\ last_wake_time = 0 /\ answer = Load!NoAnswer
    BY DEF Load!Init, Load!Members, Mark
  <2>5. past \in Seq(BOOLEAN) /\ Len(past) = 0 /\ time_list \in Seq(Records) /\ Len(time_list) = 0
    BY <2>1
  <2>6. LoadKept
    <3>1. answer \in Int /\ 0 <= max_size /\ 0 <= MaxTime
      BY <2>4 DEF LoadUsed, Load!NoAnswer
    <3>2. (\A i \in 1..Len(time_list) : time_list[i].time <= Len(past)) /\ \A i \in (Mark + 1)..Len(past) : past[i] = ~waits
      BY <2>4, <2>5
    <3>3. 0 \in 0..Len(past)
      BY <2>5
    <3>4. QED
      BY <2>1, <2>2, <2>3, <2>4, <2>5, <3>1, <3>2, <3>3, 0 <= 0 DEF LoadKept, Load!Unstarted
  <2>7. QED
    BY <2>4, <2>6 DEF Load!LoadIsShare
<1>2. LoadKept /\ Load!LoadIsShare /\ [Load!Next]_(Load!vars) => LoadKept' /\ Load!LoadIsShare'
  BY LoadKeptStep
<1>3. LoadKept => Load!TypeOK
  <2> SUFFICES ASSUME LoadKept PROVE Load!TypeOK
    OBVIOUS
  <2>1. \A i \in DOMAIN time_list : time_list[i].time \in 0..Len(past) /\ time_list[i].sleep \in BOOLEAN
    <3>1. time_list \in Seq(Records) /\ Len(past) \in Nat
      BY DEF LoadKept
    <3>2. QED
      BY <3>1, RecordsAre DEF LoadKept
  <2>2. past \in Load!SeqOf(BOOLEAN, MaxTime)
    <3>1. Len(past) \in 0..MaxTime /\ past \in [1..Len(past) -> BOOLEAN]
      BY DEF LoadKept, LoadUsed
    <3>2. QED
      BY <3>1 DEF Load!SeqOf
  <2>3. QED
    BY <2>1, <2>2 DEF LoadKept, Load!TypeOK, Load!now
<1>4. QED
  BY <1>1, <1>2, <1>3, PTL DEF Load!Spec
=============================================================================
