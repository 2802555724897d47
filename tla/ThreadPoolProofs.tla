--------------------------- MODULE ThreadPoolProofs ---------------------------
(***************************************************************************)
(* Theorems about src/Thread/ThreadPool.h, for pools of any size (also of  *)
(* size 0), any finite set of clients, any set of tasks, and with auto_run *)
(* on or off; and about src/Thread/semaphore.h, which its queue waits on.  *)
(***************************************************************************)
EXTENDS ThreadPool, FiniteSetTheorems, SequenceTheorems, TLAPS

-----------------------------------------------------------------------------
LEMMA TypeStep ==
  ASSUME TypeOK, [Next]_vars
  PROVE  TypeOK'
<1> USE ThreadPoolAssumption
    DEF TypeOK, Threads, ClientPC, WorkerPC, Stages, Goto, Move
<1>1. ASSUME NEW w \in Workers, CreateThread(w)
      PROVE  TypeOK'
  BY <1>1 DEF CreateThread
<1>2. ASSUME NEW w \in Workers, Acquire(w)
      PROVE  TypeOK'
  BY <1>2 DEF Acquire
<1>3. ASSUME NEW w \in Workers, GetTask(w)
      PROVE  TypeOK'
  <2>1. Head(queue) \in Tasks /\ Tail(queue) \in Seq(Tasks)
    BY <1>3 DEF GetTask
  <2>2. QED
    BY <1>3, <2>1 DEF GetTask
<1>4. ASSUME NEW w \in Workers, ExitThread(w)
      PROVE  TypeOK'
  BY <1>4 DEF ExitThread
<1>5. ASSUME NEW w \in Workers, Begin(w)
      PROVE  TypeOK'
  <2>1. <<held[w]>> \in Seq(Tasks)
    BY <1>5 DEF Begin
  <2>2. QED
    BY <1>5, <2>1 DEF Begin
<1>6. ASSUME NEW w \in Workers, SkipCancelled(w)
      PROVE  TypeOK'
  BY <1>6 DEF SkipCancelled
<1>7. ASSUME NEW w \in Workers, Finish(w)
      PROVE  TypeOK'
  <2>1. SubSeq(stack[w], 1, Len(stack[w]) - 1) \in Seq(Tasks)
    OBVIOUS
  <2>2. QED
    BY <1>7, <2>1 DEF Finish
<1>8. ASSUME NEW w \in Workers, Throw(w)
      PROVE  TypeOK'
  <2>1. PICK none \in Seq(Tasks) : none = <<>>
    BY EmptySeq
  <2>2. stack' = [stack EXCEPT ![w] = none]
    BY <1>8, <2>1 DEF Throw
  <2>3. stack' \in [Workers -> Seq(Tasks)]
    BY <2>2
  <2>4. stage' \in [Tasks -> Stages]
    BY <1>8 DEF Throw
  <2>5. QED
    BY <1>8, <2>3, <2>4 DEF Throw
<1>9. ASSUME NEW w \in Workers, NEW t \in Tasks, RunInline(w, t)
      PROVE  TypeOK'
  <2>1. Append(stack[w], t) \in Seq(Tasks)
    OBVIOUS
  <2>2. stack' \in [Workers -> Seq(Tasks)]
    BY <1>9, <2>1 DEF RunInline
  <2>3. QED
    BY <1>9, <2>2 DEF RunInline
<1>10. ASSUME NEW x \in Threads, Post(x)
       PROVE  TypeOK'
  <2>1. /\ permits' \in Nat
        /\ arg' \in [Threads -> Tasks \cup {NoTask}]
    BY <1>10 DEF Post
  <2>2. \E label \in {Resume(x), "syncwait"} : Goto(x, label)
    BY <1>10 DEF Post
  <2>3. QED
    BY <1>10, <2>1, <2>2 DEF Post, Resume
<1>11. ASSUME NEW x \in Threads, SyncReturn(x)
       PROVE  TypeOK'
  BY <1>11 DEF SyncReturn, Resume
<1>12. ASSUME NEW x \in Threads, NEW t \in Tasks, NEW first \in BOOLEAN,
              NEW next \in {"post", "postsync"}, Enqueue(x, t, first, next)
       PROVE  TypeOK'
  <2>1. queue' \in Seq(Tasks)
    BY <1>12 DEF Enqueue
  <2>2. QED
    BY <1>12, <2>1 DEF Enqueue
<1>13. ASSUME NEW t \in Tasks, Cancel(t)
       PROVE  TypeOK'
  BY <1>13 DEF Cancel
<1>14. CASE StartDone \/ JoinAll
  BY <1>14 DEF StartDone, JoinAll
<1>15. CASE Shutdown
  BY <1>15, FS_CardinalityType DEF Shutdown
<1>16. CASE UNCHANGED vars
  BY <1>16 DEF vars
<1> HIDE DEF TypeOK, Threads, Goto, Move
<1>17. QED
  BY <1>1, <1>2, <1>3, <1>4, <1>5, <1>6, <1>7, <1>8, <1>9, <1>10, <1>11,
     <1>12, <1>13, <1>14, <1>15, <1>16
     DEF Next, Sync, Async, Terminated

(* The variables of the pool keep their types. *)
THEOREM TypeCorrect == SafetySpec => []TypeOK
<1>1. Init => TypeOK
  BY ThreadPoolAssumption
     DEF Init, TypeOK, Threads, ClientPC, WorkerPC, Stages
<1>2. TypeOK /\ [Next]_vars => TypeOK'
  BY TypeStep
<1>3. QED
  BY <1>1, <1>2, PTL DEF SafetySpec

-----------------------------------------------------------------------------
(* Counting threads by where they are. *)

LEMMA Counts ==
  ASSUME TypeOK
  PROVE  /\ IsFiniteSet(Threads)
         /\ IsFiniteSet(Got) /\ Cardinality(Got) \in Nat
         /\ IsFiniteSet(Posting) /\ Cardinality(Posting) \in Nat
         /\ IsFiniteSet(Exited) /\ Cardinality(Exited) \in Nat
         /\ Cardinality(Workers) \in Nat
         /\ permits \in Nat /\ Len(queue) \in Nat
<1>1. IsFiniteSet(Threads)
  BY FS_Union, ThreadPoolAssumption DEF Threads
<1>2. IsFiniteSet(Got) /\ IsFiniteSet(Exited)
  <2>1. Got \subseteq Workers /\ Exited \subseteq Workers
    BY DEF Got, Exited
  <2>2. QED
    BY <2>1, FS_Subset, ThreadPoolAssumption
<1>3. IsFiniteSet(Posting)
  <2>1. Posting \subseteq Threads
    BY DEF Posting
  <2>2. QED
    BY <1>1, <2>1, FS_Subset
<1>4. QED
  BY <1>1, <1>2, <1>3, FS_CardinalityType, ThreadPoolAssumption DEF TypeOK

(* A thread that moves enters or leaves the counted sets. *)
LEMMA Move1 ==
  ASSUME TypeOK, NEW x \in Threads, NEW label, Goto(x, label)
  PROVE  /\ Cardinality(Got') = Cardinality(Got)
               - (IF x \in Got THEN 1 ELSE 0)
               + (IF x \in Workers /\ label = "got" THEN 1 ELSE 0)
         /\ Cardinality(Exited') = Cardinality(Exited)
               - (IF x \in Exited THEN 1 ELSE 0)
               + (IF x \in Workers /\ label = "exited" THEN 1 ELSE 0)
         /\ Cardinality(Posting') = Cardinality(Posting)
               - (IF x \in Posting THEN 1 ELSE 0)
               + (IF label \in {"post", "postsync"} THEN 1 ELSE 0)
<1>1. pc' = [pc EXCEPT ![x] = label] /\ x \in DOMAIN pc
  BY DEF Goto, TypeOK
<1>2. /\ Got' = IF x \in Workers /\ label = "got"
                THEN (Got \ {x}) \cup {x} ELSE Got \ {x}
      /\ Exited' = IF x \in Workers /\ label = "exited"
                   THEN (Exited \ {x}) \cup {x} ELSE Exited \ {x}
      /\ Posting' = IF label \in {"post", "postsync"}
                    THEN (Posting \ {x}) \cup {x} ELSE Posting \ {x}
  BY <1>1 DEF Got, Exited, Posting, Threads, TypeOK
<1>3. ASSUME NEW S, IsFiniteSet(S)
      PROVE  /\ Cardinality(S \ {x}) = Cardinality(S)
                    - (IF x \in S THEN 1 ELSE 0)
             /\ Cardinality((S \ {x}) \cup {x}) = Cardinality(S)
                    - (IF x \in S THEN 1 ELSE 0) + 1
  <2>1. Cardinality(S) \in Nat
    BY <1>3, FS_CardinalityType
  <2>2. Cardinality(S \ {x}) =
            IF x \in S THEN Cardinality(S) - 1 ELSE Cardinality(S)
    BY <1>3, FS_RemoveElement
  <2>3. IsFiniteSet(S \ {x}) /\ x \notin S \ {x}
    BY <1>3, FS_RemoveElement
  <2>4. Cardinality((S \ {x}) \cup {x}) = Cardinality(S \ {x}) + 1
    BY <2>3, FS_AddElement
  <2>5. QED
    BY <2>1, <2>2, <2>4
<1>4. QED
  <2>1. /\ IsFiniteSet(Got) /\ Cardinality(Got) \in Nat
        /\ IsFiniteSet(Exited) /\ Cardinality(Exited) \in Nat
        /\ IsFiniteSet(Posting) /\ Cardinality(Posting) \in Nat
    BY Counts
  <2>2. Cardinality(Got') = Cardinality(Got)
            - (IF x \in Got THEN 1 ELSE 0)
            + (IF x \in Workers /\ label = "got" THEN 1 ELSE 0)
    <3>1. /\ Cardinality(Got \ {x}) = Cardinality(Got)
                 - (IF x \in Got THEN 1 ELSE 0)
          /\ Cardinality((Got \ {x}) \cup {x}) = Cardinality(Got)
                 - (IF x \in Got THEN 1 ELSE 0) + 1
      BY <1>3, <2>1
    <3>2. QED
      BY <1>2, <2>1, <3>1
  <2>3. Cardinality(Exited') = Cardinality(Exited)
            - (IF x \in Exited THEN 1 ELSE 0)
            + (IF x \in Workers /\ label = "exited" THEN 1 ELSE 0)
    <3>1. /\ Cardinality(Exited \ {x}) = Cardinality(Exited)
                 - (IF x \in Exited THEN 1 ELSE 0)
          /\ Cardinality((Exited \ {x}) \cup {x}) = Cardinality(Exited)
                 - (IF x \in Exited THEN 1 ELSE 0) + 1
      BY <1>3, <2>1
    <3>2. QED
      BY <1>2, <2>1, <3>1
  <2>4. Cardinality(Posting') = Cardinality(Posting)
            - (IF x \in Posting THEN 1 ELSE 0)
            + (IF label \in {"post", "postsync"} THEN 1 ELSE 0)
    <3>1. /\ Cardinality(Posting \ {x}) = Cardinality(Posting)
                 - (IF x \in Posting THEN 1 ELSE 0)
          /\ Cardinality((Posting \ {x}) \cup {x}) = Cardinality(Posting)
                 - (IF x \in Posting THEN 1 ELSE 0) + 1
      BY <1>3, <2>1
    <3>2. QED
      BY <1>2, <2>1, <3>1
  <2>5. QED
    BY <2>2, <2>3, <2>4

LEMMA Stay ==
  ASSUME UNCHANGED pc
  PROVE  Got' = Got /\ Exited' = Exited /\ Posting' = Posting
BY DEF Got, Exited, Posting

-----------------------------------------------------------------------------
(* The inductive invariant.  That a thread which finds the queue empty may  *)
(* end follows from the balance of permits; that the balance survives the   *)
(* end of a thread follows from nobody ending early; and that the last      *)
(* thread leaves an empty queue follows from both.                          *)
Inv == PermitBalance /\ NoEarlyExit /\ JoinedDrained

LEMMA InvStep ==
  ASSUME TypeOK, Inv, [Next]_vars
  PROVE  Inv'
<1> USE DEF Inv, PermitBalance, NoEarlyExit, JoinedDrained
<1>0. /\ Cardinality(Got) \in Nat /\ Cardinality(Posting) \in Nat
      /\ Cardinality(Exited) \in Nat /\ Cardinality(Workers) \in Nat
      /\ permits \in Nat /\ Len(queue) \in Nat
      /\ IsFiniteSet(Got) /\ IsFiniteSet(Exited)
      /\ queue \in Seq(Tasks)
      /\ Workers \subseteq Threads /\ Workers \cap Clients = {}
  BY Counts, ThreadPoolAssumption DEF TypeOK, Threads
<1>14. /\ Cardinality(Got) \in Nat /\ Cardinality(Posting) \in Nat
       /\ permits \in Nat /\ Len(queue) \in Nat /\ ExitsDue \in Int
  BY <1>0 DEF ExitsDue
(* A step of a worker that neither counts nor changes the queue. *)
<1>1. ASSUME NEW w \in Workers, NEW label, Goto(w, label),
             pc[w] \notin {"got", "exited", "post", "postsync"},
             label \notin {"got", "exited", "post", "postsync"},
             UNCHANGED <<owner, queue, permits>>
      PROVE  Inv'
  <2>1. w \notin Got /\ w \notin Exited /\ w \notin Posting
    BY <1>0, <1>1 DEF Got, Exited, Posting
  <2>2. /\ Cardinality(Got') = Cardinality(Got)
        /\ Cardinality(Exited') = Cardinality(Exited)
        /\ Cardinality(Posting') = Cardinality(Posting)
    BY <1>0, <1>1, <2>1, Move1
  <2>3. Exited' \subseteq Exited /\ pc'[w] # "exited"
    BY <1>1 DEF Exited, Goto, TypeOK, Threads
  <2>4. ExitsDue' = ExitsDue
    BY <1>1, <2>2, <2>3 DEF ExitsDue, Destroying
  <2>5. PermitBalance'
    BY <1>14, <1>1, <2>2, <2>3, <2>4
  <2>6. NoEarlyExit'
    BY <1>1, <2>2, <2>3 DEF Destroying
  <2>7. JoinedDrained'
    BY <1>1, <2>2, <2>3
  <2>8. QED
    BY <2>5, <2>6, <2>7
<1>2. ASSUME UNCHANGED <<owner, pc, queue, permits>>
      PROVE  Inv'
  <2>1. Got' = Got /\ Exited' = Exited /\ Posting' = Posting
    BY <1>2, Stay
  <2>2. Destroying' = Destroying
    BY <1>2 DEF Destroying
  <2>3. ExitsDue' = ExitsDue
    BY <2>1, <2>2 DEF ExitsDue
  <2>4. QED
    BY <1>2, <2>1, <2>2, <2>3
<1>3. ASSUME NEW w \in Workers, Acquire(w)
      PROVE  Inv'
  <2>1. w \notin Got /\ w \notin Exited /\ w \notin Posting /\ Goto(w, "got")
    BY <1>0, <1>3 DEF Acquire, Got, Exited, Posting
  <2>2. /\ Cardinality(Got') = Cardinality(Got) + 1
        /\ Cardinality(Exited') = Cardinality(Exited)
        /\ Cardinality(Posting') = Cardinality(Posting)
    <3>1. /\ Cardinality(Got') = Cardinality(Got) - 0 + 1
          /\ Cardinality(Exited') = Cardinality(Exited) - 0 + 0
          /\ Cardinality(Posting') = Cardinality(Posting) - 0 + 0
      BY <1>0, <2>1, Move1
    <3>2. QED
      BY <1>0, <3>1
  <2>3. Exited' \subseteq Exited /\ pc'[w] # "exited"
    BY <1>3 DEF Acquire, Exited, Goto, TypeOK, Threads
  <2>4. permits' = permits - 1 /\ UNCHANGED <<owner, queue>>
    BY <1>3 DEF Acquire
  <2>5. ExitsDue' = ExitsDue
    BY <1>0, <2>2, <2>3, <2>4 DEF ExitsDue, Destroying
  <2>6. PermitBalance'
    BY <1>14, <2>2, <2>3, <2>4, <2>5
  <2>7. NoEarlyExit'
    BY <1>0, <2>2, <2>3, <2>4 DEF Destroying
  <2>8. JoinedDrained'
    BY <1>0, <2>2, <2>3, <2>4
  <2>9. QED
    BY <2>6, <2>7, <2>8
<1>4. ASSUME NEW w \in Workers, GetTask(w)
      PROVE  Inv'
  <2>1. w \in Got /\ w \notin Exited /\ w \notin Posting /\ Goto(w, "have")
    BY <1>0, <1>4 DEF GetTask, Got, Exited, Posting
  <2>2. /\ Cardinality(Got') = Cardinality(Got) - 1
        /\ Cardinality(Exited') = Cardinality(Exited)
        /\ Cardinality(Posting') = Cardinality(Posting)
    BY <1>0, <1>4, <2>1, Move1
  <2>3. Exited' \subseteq Exited /\ pc'[w] # "exited"
    BY <1>4 DEF GetTask, Exited, Goto, TypeOK, Threads
  <2>4. Len(queue') = Len(queue) - 1 /\ UNCHANGED <<owner, permits>>
    BY <1>0, <1>4 DEF GetTask
  <2>5. ExitsDue' = ExitsDue
    BY <1>0, <2>2, <2>3, <2>4 DEF ExitsDue, Destroying
  <2>6. PermitBalance'
    BY <1>14, <2>2, <2>3, <2>4, <2>5
  <2>7. NoEarlyExit'
    BY <1>0, <2>2, <2>3, <2>4 DEF Destroying
  <2>8. JoinedDrained'
    BY <1>0, <2>2, <2>3, <2>4
  <2>9. QED
    BY <2>6, <2>7, <2>8
<1>5. ASSUME NEW w \in Workers, ExitThread(w)
      PROVE  Inv'
  <2>1. w \in Got /\ w \notin Exited /\ w \notin Posting /\ Goto(w, "exited")
    BY <1>0, <1>5 DEF ExitThread, Got, Exited, Posting
  <2>2. /\ Cardinality(Got') = Cardinality(Got) - 1
        /\ Cardinality(Exited') = Cardinality(Exited) + 1
        /\ Cardinality(Posting') = Cardinality(Posting)
    BY <1>0, <1>5, <2>1, Move1
  <2>3. Cardinality(Got) # 0
    <3>1. w \in Got
      BY <1>5 DEF ExitThread, Got
    <3>2. QED
      BY <1>0, <3>1, FS_EmptySet
  <2>4. queue = <<>> /\ Len(queue) = 0 /\ UNCHANGED <<owner, queue, permits>>
    BY <1>5 DEF ExitThread
  <2>5. Destroying
    BY <1>0, <2>3, <2>4 DEF ExitsDue
  <2>10. ExitsDue' = ExitsDue - 1
    BY <1>0, <2>2, <2>4, <2>5 DEF ExitsDue, Destroying
  <2>6. PermitBalance'
    BY <1>14, <2>2, <2>4, <2>10
  <2>7. NoEarlyExit'
    BY <1>0, <2>2, <2>4, <2>5 DEF Destroying
  <2>8. JoinedDrained'
    BY <1>0, <2>2, <2>4, <2>5
  <2>9. QED
    BY <2>6, <2>7, <2>8
<1>6. ASSUME NEW x \in Threads, Post(x)
      PROVE  Inv'
  <2>1. PICK label \in {"run", "idle", "syncwait"} : Goto(x, label)
    BY <1>6 DEF Post, Resume
  <2>2. x \notin Got /\ x \notin Exited /\ x \in Posting
    BY <1>0, <1>6 DEF Post, Got, Exited, Posting
  <2>3. /\ Cardinality(Got') = Cardinality(Got)
        /\ Cardinality(Exited') = Cardinality(Exited)
        /\ Cardinality(Posting') = Cardinality(Posting) - 1
    <3>1. /\ Cardinality(Got') = Cardinality(Got) - 0 + 0
          /\ Cardinality(Exited') = Cardinality(Exited) - 0 + 0
          /\ Cardinality(Posting') = Cardinality(Posting) - 1 + 0
      BY <2>1, <2>2, Move1
    <3>2. QED
      BY <1>0, <3>1
  <2>4. Exited' \subseteq Exited
    BY <2>1 DEF Exited, Goto, TypeOK, Threads
  <2>5. permits' = permits + 1 /\ UNCHANGED <<owner, queue>>
    BY <1>6 DEF Post
  <2>6. (\A v \in Workers : pc'[v] = "exited")
            => \A v \in Workers : pc[v] = "exited"
    BY <2>4 DEF Exited
  <2>7. ExitsDue' = ExitsDue
    BY <1>0, <2>3, <2>4, <2>5, <2>6 DEF ExitsDue, Destroying
  <2>8. PermitBalance'
    BY <1>14, <2>3, <2>4, <2>5, <2>6, <2>7
  <2>9. NoEarlyExit'
    BY <1>0, <2>3, <2>4, <2>5, <2>6 DEF Destroying
  <2>10. JoinedDrained'
    BY <1>0, <2>3, <2>4, <2>5, <2>6
  <2>11. QED
    BY <2>8, <2>9, <2>10
<1>7. ASSUME NEW x \in Threads, SyncReturn(x)
      PROVE  Inv'
  <2>1. PICK label \in {"run", "idle"} : Goto(x, label)
    BY <1>7 DEF SyncReturn, Resume
  <2>2. x \notin Got /\ x \notin Exited /\ x \notin Posting
    BY <1>0, <1>7 DEF SyncReturn, Got, Exited, Posting
  <2>3. /\ Cardinality(Got') = Cardinality(Got)
        /\ Cardinality(Exited') = Cardinality(Exited)
        /\ Cardinality(Posting') = Cardinality(Posting)
    BY <1>0, <1>7, <2>1, <2>2, Move1
  <2>4. Exited' \subseteq Exited
    BY <2>1 DEF Exited, Goto, TypeOK, Threads
  <2>5. UNCHANGED <<owner, queue, permits>>
    BY <1>7 DEF SyncReturn
  <2>6. (\A v \in Workers : pc'[v] = "exited")
            => \A v \in Workers : pc[v] = "exited"
    BY <2>4 DEF Exited
  <2>7. ExitsDue' = ExitsDue
    BY <1>0, <2>3, <2>4, <2>5, <2>6 DEF ExitsDue, Destroying
  <2>8. PermitBalance'
    BY <1>14, <2>3, <2>4, <2>5, <2>6, <2>7
  <2>9. NoEarlyExit'
    BY <1>0, <2>3, <2>4, <2>5, <2>6 DEF Destroying
  <2>10. JoinedDrained'
    BY <1>0, <2>3, <2>4, <2>5, <2>6
  <2>11. QED
    BY <2>8, <2>9, <2>10
<1>8. ASSUME NEW x \in Threads, NEW t \in Tasks, NEW first \in BOOLEAN,
             NEW next \in {"post", "postsync"},
             Usable(x), Enqueue(x, t, first, next)
      PROVE  Inv'
  <2>1. pc[x] \in {"run", "idle"}
    BY <1>8 DEF Usable
  <2>2. /\ x \notin Got /\ x \notin Exited /\ x \notin Posting
        /\ Goto(x, next)
    BY <1>0, <1>8, <2>1 DEF Enqueue, Got, Exited, Posting
  <2>3. /\ Cardinality(Got') = Cardinality(Got)
        /\ Cardinality(Exited') = Cardinality(Exited)
        /\ Cardinality(Posting') = Cardinality(Posting) + 1
    BY <1>0, <1>8, <2>1, <2>2, Move1
  <2>4. Exited' \subseteq Exited
    BY <1>8 DEF Enqueue, Exited, Goto, TypeOK, Threads
  <2>5. Len(queue') = Len(queue) + 1
    <3>1. CASE first
      <4>1. <<t>> \in Seq(Tasks) /\ Len(<<t>>) = 1
        OBVIOUS
      <4>2. QED
        BY <1>0, <1>8, <3>1, <4>1, ConcatProperties DEF Enqueue
    <3>2. CASE ~first
      BY <1>0, <1>8, <3>2 DEF Enqueue
    <3>3. QED
      BY <3>1, <3>2
  <2>6. UNCHANGED <<owner, permits>>
    BY <1>8 DEF Enqueue
  <2>7. Workers # {} => ~ \A v \in Workers : pc'[v] = "exited"
    <3>1. CASE x \in Workers
      BY <1>8, <2>1, <3>1 DEF Enqueue, Goto, TypeOK, Threads
    <3>2. CASE x \in Clients
      <4>1. ~Destroying
        BY <1>0, <1>8, <3>2 DEF Usable, Destroying
      <4>2. Exited' = {}
        BY <2>4, <4>1
      <4>3. QED
        BY <4>2 DEF Exited
    <3>3. QED
      BY <3>1, <3>2 DEF Threads
  <2>8. ExitsDue' = ExitsDue
    BY <1>0, <2>3, <2>4, <2>5, <2>6, <2>7 DEF ExitsDue, Destroying
  <2>9. PermitBalance'
    BY <1>14, <2>3, <2>4, <2>5, <2>6, <2>7, <2>8
  <2>10. NoEarlyExit'
    BY <1>0, <2>3, <2>4, <2>5, <2>6, <2>7 DEF Destroying
  <2>11. JoinedDrained'
    BY <1>0, <2>3, <2>4, <2>5, <2>6, <2>7
  <2>12. QED
    BY <2>9, <2>10, <2>11
<1>9. CASE Shutdown
  <2>1. /\ Got' = Got /\ Posting' = Posting /\ Exited' = Exited
        /\ UNCHANGED <<queue, pc>>
        /\ permits' = permits + Cardinality(Workers)
    BY <1>9, Stay DEF Shutdown
  <2>2. ~Destroying /\ Destroying'
    BY <1>9 DEF Shutdown, Destroying
  <2>3. Exited = {} /\ Cardinality(Exited) = 0
    BY <2>2, FS_EmptySet
  <2>4. PermitBalance'
    <3>1. ExitsDue = 0 /\ ExitsDue' = Cardinality(Workers)
      BY <1>0, <2>1, <2>2, <2>3 DEF ExitsDue
    <3>2. QED
      BY <1>0, <1>14, <2>1, <3>1
  <2>5. NoEarlyExit'
    BY <2>2
  <2>6. JoinedDrained'
    BY <1>9, <2>3 DEF Shutdown, Exited
  <2>7. QED
    BY <2>4, <2>6, <2>5
<1>10. CASE StartDone \/ JoinAll
  <2>1. Destroying' = Destroying /\ UNCHANGED <<queue, pc, permits>>
    BY <1>10 DEF StartDone, JoinAll, Destroying
  <2>2. ExitsDue' = ExitsDue /\ Exited' = Exited
    BY <2>1, Stay DEF ExitsDue
  <2>3. QED
    BY <2>1, <2>2, Stay
<1> HIDE DEF Inv
<1>11. ASSUME NEW w \in Workers,
              \/ CreateThread(w) \/ Begin(w) \/ SkipCancelled(w)
              \/ Finish(w) \/ Throw(w)
       PROVE  Inv'
  <2>1. CASE CreateThread(w)
    BY <1>1, <2>1 DEF CreateThread
  <2>2. CASE Begin(w)
    BY <1>1, <2>2 DEF Begin
  <2>3. CASE SkipCancelled(w)
    BY <1>1, <2>3 DEF SkipCancelled
  <2>4. CASE Finish(w)
    <3>1. CASE Len(stack[w]) = 1
      BY <1>1, <2>4, <3>1 DEF Finish
    <3>2. CASE Len(stack[w]) # 1
      BY <1>2, <2>4, <3>2 DEF Finish
    <3>3. QED
      BY <3>1, <3>2
  <2>5. CASE Throw(w)
    BY <1>1, <2>5 DEF Throw
  <2>6. QED
    BY <1>11, <2>1, <2>2, <2>3, <2>4, <2>5
<1>12. ASSUME \/ \E w \in Workers, t \in Tasks : RunInline(w, t)
              \/ \E t \in Tasks : Cancel(t)
              \/ Terminated
              \/ UNCHANGED vars
       PROVE  Inv'
  BY <1>2, <1>12 DEF RunInline, Cancel, Terminated, vars
<1>13. QED
  BY <1>3, <1>4, <1>5, <1>6, <1>7, <1>8, <1>9, <1>10, <1>11, <1>12
     DEF Next, Sync, Async

LEMMA InvAlways == SafetySpec => []Inv
<1>1. Init => Inv
  <2> SUFFICES ASSUME Init
               PROVE  Inv
    OBVIOUS
  <2>1. Got = {} /\ Exited = {} /\ Posting = {} /\ ~Destroying
    BY ThreadPoolAssumption
       DEF Init, Got, Exited, Posting, Destroying, Threads
  <2>2. QED
    BY <2>1, FS_EmptySet
       DEF Init, Inv, PermitBalance, ExitsDue, NoEarlyExit, JoinedDrained
<1>2. TypeOK /\ Inv /\ [Next]_vars => Inv'
  BY InvStep
<1>3. QED
  BY <1>1, <1>2, TypeCorrect, PTL DEF SafetySpec

(* The queue and its semaphore stay in balance although they are changed in *)
(* separate critical sections: push_task posts after it has pushed,         *)
(* get_task pops after it has waited, push_exit posts without pushing.      *)
THEOREM PermitsBalanced == SafetySpec => []PermitBalance
BY InvAlways, PTL DEF Inv

(* No thread of the pool ends before the destructor has called shutdown(). *)
THEOREM NoThreadEndsEarly == SafetySpec => []NoEarlyExit
BY InvAlways, PTL DEF Inv

(* When join_all has seen the last thread end, the queue is empty: nothing  *)
(* that was submitted, also during the destruction, is left behind.         *)
THEOREM NothingLeftBehind == SafetySpec => []JoinedDrained
BY InvAlways, PTL DEF Inv

(* Queues in which no task occurs twice. *)
LEMMA PushProperties ==
  ASSUME NEW S, NEW q \in Seq(S), IsInjective(q), NEW t \in S, t \notin Range(q),
         NEW r, r = <<t>> \o q \/ r = Append(q, t)
  PROVE  r \in Seq(S) /\ IsInjective(r) /\ Range(r) = Range(q) \cup {t}
<1>1. Len(q) \in Nat /\ DOMAIN q = 1 .. Len(q)
  BY LenProperties
<1>2. CASE r = <<t>> \o q
  <2>1. /\ r \in Seq(S) /\ Len(r) = Len(q) + 1
        /\ \A n \in 1 .. Len(r) : r[n] = IF n = 1 THEN t ELSE q[n - 1]
    BY <1>1, <1>2
  <2>2. Range(r) = Range(q) \cup {t}
    <3>1. ASSUME NEW n \in DOMAIN q
          PROVE  n + 1 \in DOMAIN r /\ r[n + 1] = q[n]
      BY <1>1, <2>1
    <3>2. 1 \in DOMAIN r /\ r[1] = t
      BY <1>1, <2>1
    <3>3. \A n \in DOMAIN r : r[n] = t \/ (n - 1 \in DOMAIN q /\ r[n] = q[n - 1])
      BY <1>1, <2>1
    <3>4. QED
      BY <3>1, <3>2, <3>3 DEF Range
  <2>3. IsInjective(r)
    <3>1. \A n \in DOMAIN r : n # 1 => n - 1 \in DOMAIN q /\ r[n] = q[n - 1]
      BY <1>1, <2>1
    <3>2. \A n \in DOMAIN q : q[n] # t
      BY DEF Range
    <3>3. DOMAIN r \subseteq Int /\ (1 \in DOMAIN r => r[1] = t)
      BY <1>1, <2>1
    <3>4. SUFFICES ASSUME NEW m \in DOMAIN r, NEW n \in DOMAIN r, r[m] = r[n]
                   PROVE  m = n
      BY DEF IsInjective
    <3>5. m # 1 /\ n # 1 => m - 1 = n - 1
      BY <3>1, <3>4 DEF IsInjective
    <3>6. QED
      BY <3>1, <3>2, <3>3, <3>4, <3>5
  <2>4. QED
    BY <2>1, <2>2, <2>3
<1>3. CASE r = Append(q, t)
  <2>1. /\ r \in Seq(S) /\ Len(r) = Len(q) + 1
        /\ \A n \in 1 .. Len(q) : r[n] = q[n]
        /\ r[Len(q) + 1] = t
    BY <1>3, AppendProperties
  <2>2. DOMAIN r = DOMAIN q \cup {Len(q) + 1} /\ Len(q) + 1 \notin DOMAIN q
    BY <1>1, <2>1
  <2>3. \A n \in DOMAIN q : r[n] = q[n] /\ q[n] # t
    BY <1>1, <2>1 DEF Range
  <2>4. Range(r) = Range(q) \cup {t}
    BY <2>1, <2>2, <2>3 DEF Range
  <2>5. IsInjective(r)
    BY <2>1, <2>2, <2>3 DEF IsInjective
  <2>6. QED
    BY <2>1, <2>4, <2>5
<1>4. QED
  BY <1>2, <1>3

LEMMA PopProperties ==
  ASSUME NEW S, NEW q \in Seq(S), IsInjective(q), q # <<>>
  PROVE  /\ Tail(q) \in Seq(S) /\ IsInjective(Tail(q))
         /\ Head(q) \in Range(q) /\ Range(Tail(q)) = Range(q) \ {Head(q)}
<1>1. Len(q) \in Nat \ {0} /\ DOMAIN q = 1 .. Len(q) /\ Head(q) = q[1]
  BY LenProperties, EmptySeq
<1>2. /\ Tail(q) \in Seq(S) /\ Len(Tail(q)) = Len(q) - 1
      /\ \A n \in 1 .. Len(Tail(q)) : Tail(q)[n] = q[n + 1]
  BY HeadTailProperties
<1>3. /\ \A n \in DOMAIN Tail(q) : n + 1 \in DOMAIN q /\ n + 1 # 1 /\ Tail(q)[n] = q[n + 1]
      /\ \A n \in DOMAIN q : n # 1 => n - 1 \in DOMAIN Tail(q) /\ Tail(q)[n - 1] = q[n]
      /\ DOMAIN Tail(q) \subseteq Int /\ 1 \in DOMAIN q
  BY <1>1, <1>2
<1>4. IsInjective(Tail(q))
  <2>1. SUFFICES ASSUME NEW m \in DOMAIN Tail(q), NEW n \in DOMAIN Tail(q), Tail(q)[m] = Tail(q)[n]
                 PROVE  m = n
    BY DEF IsInjective
  <2>2. m + 1 = n + 1
    BY <1>3, <2>1 DEF IsInjective
  <2>3. QED
    BY <1>3, <2>2
<1>5. Range(Tail(q)) = Range(q) \ {Head(q)}
  <2>1. \A n \in DOMAIN q : n # 1 => q[n] # Head(q)
    BY <1>1, <1>3 DEF IsInjective
  <2>2. Range(Tail(q)) \subseteq Range(q) \ {Head(q)}
    BY <1>3, <2>1 DEF Range
  <2>3. Range(q) \ {Head(q)} \subseteq Range(Tail(q))
    BY <1>1, <1>3 DEF Range
  <2>4. QED
    BY <2>2, <2>3
<1>6. QED
  BY <1>1, <1>2, <1>3, <1>4, <1>5 DEF Range

(* ... and from which the last one is taken. *)
LEMMA DropLastProperties ==
  ASSUME NEW S, NEW q \in Seq(S), IsInjective(q), q # <<>>
  PROVE  LET r == SubSeq(q, 1, Len(q) - 1) IN
         /\ r \in Seq(S) /\ IsInjective(r)
         /\ q[Len(q)] \in Range(q) /\ q[Len(q)] \in S
         /\ Range(r) = Range(q) \ {q[Len(q)]}
         /\ Len(q) = 1 <=> r = <<>>
<1> DEFINE r == SubSeq(q, 1, Len(q) - 1)
<1>1. Len(q) \in Nat \ {0} /\ DOMAIN q = 1 .. Len(q) /\ \A n \in 1 .. Len(q) : q[n] \in S
  BY LenProperties, EmptySeq
<1>2. /\ r \in Seq(S) /\ Len(r) = Len(q) - 1
      /\ \A n \in 1 .. (Len(q) - 1) : r[n] = q[n]
  <2>1. /\ r \in Seq(S)
        /\ Len(r) = IF 1 <= Len(q) - 1 THEN (Len(q) - 1) - 1 + 1 ELSE 0
        /\ \A n \in 1 .. ((Len(q) - 1) - 1 + 1) : r[n] = q[1 + n - 1]
    BY <1>1, SubSeqProperties
  <2>2. QED
    BY <1>1, <2>1
<1> HIDE DEF r
<1>3. /\ DOMAIN q = DOMAIN r \cup {Len(q)} /\ Len(q) \notin DOMAIN r
      /\ \A n \in DOMAIN r : r[n] = q[n]
  BY <1>1, <1>2
<1>4. IsInjective(r)
  BY <1>3 DEF IsInjective
<1>5. Range(r) = Range(q) \ {q[Len(q)]}
  <2>1. \A n \in DOMAIN r : q[n] # q[Len(q)]
    BY <1>3 DEF IsInjective
  <2>2. QED
    BY <1>3, <2>1 DEF Range
<1>6. Len(q) = 1 <=> r = <<>>
  BY <1>1, <1>2, EmptySeq
<1>7. QED
  BY <1>1, <1>2, <1>3, <1>4, <1>5, <1>6 DEF Range, r

-----------------------------------------------------------------------------
(* Where a task is: in the queue, in the hand of a thread, or in execution. *)

Those(s) == {t \in Tasks : stage[t] = s}

Carrying == {w \in Workers : pc[w] = "have"}
Executing == {w \in Workers : pc[w] \in {"run", "post", "postsync", "syncwait"}}

Queued == IsInjective(queue) /\ Range(queue) = Those("queued")

InHand ==
    /\ \A v, w \in Carrying : held[v] = held[w] => v = w
    /\ {held[w] : w \in Carrying} = Those("taken")

InExecution ==
    /\ \A w \in Workers : IsInjective(stack[w])
    /\ \A v, w \in Workers : v # w => Range(stack[v]) \cap Range(stack[w]) = {}
    /\ \A t : t \in Those("running") <=> \E w \in Workers : t \in Range(stack[w])
    /\ \A w \in Workers : stack[w] # <<>> <=> w \in Executing

Gone == owner = "dead" => \A w \in Workers : pc[w] = "exited"

Tracked == Queued /\ InHand /\ InExecution /\ Gone

LEMMA ThoseMove ==
  ASSUME TypeOK, NEW t \in Tasks, NEW to, Move(t, to)
  PROVE  /\ Those("queued")' = IF to = "queued" THEN Those("queued") \cup {t} ELSE Those("queued") \ {t}
         /\ Those("taken")' = IF to = "taken" THEN Those("taken") \cup {t} ELSE Those("taken") \ {t}
         /\ Those("running")' = IF to = "running" THEN Those("running") \cup {t} ELSE Those("running") \ {t}
         /\ t \in Those("queued") <=> stage[t] = "queued"
         /\ t \in Those("taken") <=> stage[t] = "taken"
         /\ t \in Those("running") <=> stage[t] = "running"
BY DEF TypeOK, Move, Those

(* A thread that moves without a task in its hand. *)
LEMMA ThreadMoves ==
  ASSUME TypeOK, Tracked, NEW x \in Threads, NEW label, Goto(x, label),
         pc[x] \notin {"have", "exited"}, label # "have",
         x \in Workers => (x \in Executing <=> label \in {"run", "post", "postsync", "syncwait"}),
         UNCHANGED owner
  PROVE  Carrying' = Carrying /\ Executing' = Executing /\ Gone'
<1>1. pc' = [pc EXCEPT ![x] = label] /\ pc \in [Threads -> ClientPC \cup WorkerPC] /\ Workers \subseteq Threads
  BY DEF Goto, TypeOK, Threads
<1>2. \A w \in Workers : pc'[w] = IF w = x THEN label ELSE pc[w]
  BY <1>1
<1>3. Carrying' = Carrying
  BY <1>2 DEF Carrying
<1>4. Executing' = Executing
  BY <1>2 DEF Executing
<1>5. Gone'
  <2>1. CASE x \in Workers
    BY <2>1 DEF Tracked, Gone
  <2>2. CASE x \notin Workers
    BY <1>2, <2>2 DEF Tracked, Gone
  <2>3. QED
    BY <2>1, <2>2
<1>6. QED
  BY <1>3, <1>4, <1>5

LEMMA TrackedFrames ==
  ASSUME Tracked
  PROVE  /\ UNCHANGED queue /\ Those("queued")' = Those("queued") => Queued'
         /\ UNCHANGED held /\ Carrying' = Carrying /\ Those("taken")' = Those("taken") => InHand'
         /\ UNCHANGED stack /\ Executing' = Executing /\ Those("running")' = Those("running")
            => InExecution'
<1>1. Queued /\ InHand /\ InExecution
  BY DEF Tracked
<1>2. UNCHANGED queue /\ Those("queued")' = Those("queued") => Queued'
  BY <1>1 DEF Queued
<1>3. UNCHANGED held /\ Carrying' = Carrying /\ Those("taken")' = Those("taken") => InHand'
  BY <1>1 DEF InHand
<1>4. UNCHANGED stack /\ Executing' = Executing /\ Those("running")' = Those("running")
      => InExecution'
  BY <1>1 DEF InExecution
<1>5. QED
  BY <1>2, <1>3, <1>4

LEMMA EnqueueTracked ==
  ASSUME TypeOK, Tracked, NEW x \in Threads, NEW t \in Tasks, NEW first, NEW next,
         Usable(x), stage[t] = "new", Enqueue(x, t, first, next), next \in {"post", "postsync"}
  PROVE  Tracked'
<1>1. /\ Those("queued")' = Those("queued") \cup {t}
      /\ Those("taken")' = Those("taken") /\ Those("running")' = Those("running")
      /\ t \notin Those("queued")
  BY ThoseMove DEF Enqueue
<1>2. Carrying' = Carrying /\ Executing' = Executing /\ Gone'
  BY ThreadMoves DEF Enqueue, Usable, Executing
<1>3. Queued'
  <2>1. queue \in Seq(Tasks) /\ IsInjective(queue) /\ t \notin Range(queue)
    BY <1>1 DEF Tracked, Queued, TypeOK
  <2>2. queue' = <<t>> \o queue \/ queue' = Append(queue, t)
    BY DEF Enqueue
  <2>3. IsInjective(queue') /\ Range(queue') = Range(queue) \cup {t}
    BY <2>1, <2>2, PushProperties
  <2>4. QED
    BY <1>1, <2>3 DEF Tracked, Queued
<1>4. QED
  BY <1>1, <1>2, <1>3, TrackedFrames DEF Tracked, Enqueue

LEMMA GetTaskTracked ==
  ASSUME TypeOK, Tracked, NEW w \in Workers, GetTask(w)
  PROVE  Tracked'
<1> DEFINE t == Head(queue)
<1>1. /\ Tail(queue) \in Seq(Tasks) /\ IsInjective(Tail(queue))
      /\ t \in Those("queued") /\ t \in Tasks /\ Range(Tail(queue)) = Those("queued") \ {t}
  BY PopProperties DEF GetTask, Tracked, Queued, TypeOK, Those
<1> HIDE DEF t
<1>2. /\ Those("queued")' = Those("queued") \ {t}
      /\ Those("taken")' = Those("taken") \cup {t} /\ Those("running")' = Those("running")
      /\ t \notin Those("taken")
  BY <1>1, ThoseMove DEF GetTask, t
<1>3. \A v \in Workers : pc'[v] = IF v = w THEN "have" ELSE pc[v]
  BY DEF GetTask, Goto, TypeOK, Threads
<1>4. Carrying' = Carrying \cup {w} /\ w \notin Carrying /\ Executing' = Executing
  BY <1>3 DEF Carrying, Executing, GetTask
<1>5. \A v \in Workers : held'[v] = IF v = w THEN t ELSE held[v]
  BY DEF GetTask, TypeOK, t
<1>6. Queued'
  BY <1>1, <1>2 DEF Queued, GetTask
<1>7. InHand'
  <2>1. \A v \in Carrying : held'[v] = held[v] /\ held[v] # t
    BY <1>2, <1>4, <1>5 DEF Tracked, InHand, Carrying
  <2>2. held'[w] = t
    BY <1>5
  <2>3. {held'[v] : v \in Carrying \cup {w}} = {held[v] : v \in Carrying} \cup {t}
    BY <2>1, <2>2
  <2>4. \A u, v \in Carrying \cup {w} : held'[u] = held'[v] => u = v
    BY <2>1, <2>2 DEF Tracked, InHand
  <2>5. QED
    BY <1>2, <1>4, <2>3, <2>4 DEF Tracked, InHand
<1>8. Gone'
  BY DEF GetTask, Tracked, Gone
<1>9. QED
  BY <1>2, <1>4, <1>6, <1>7, <1>8, TrackedFrames DEF Tracked, GetTask

(* The thread lets go of the task in its hand, and the task moves on. *)
LEMMA HandEmptied ==
  ASSUME TypeOK, Tracked, NEW w \in Carrying, NEW to, to # "taken",
         Move(held[w], to), Carrying' = Carrying \ {w},
         \A v \in Carrying \ {w} : held'[v] = held[v]
  PROVE  InHand'
<1>1. held[w] \in Tasks
  BY DEF TypeOK, Carrying
<1>2. Those("taken")' = Those("taken") \ {held[w]}
  BY <1>1, ThoseMove DEF Those
<1>3. {held'[v] : v \in Carrying \ {w}} = {held[v] : v \in Carrying} \ {held[w]}
  BY DEF Tracked, InHand
<1>4. QED
  BY <1>2, <1>3 DEF Tracked, InHand

LEMMA BeginTracked ==
  ASSUME TypeOK, Tracked, NEW w \in Workers, Begin(w)
  PROVE  Tracked'
<1> DEFINE t == held[w]
<1>1. w \in Carrying /\ t \in Tasks /\ t \in Those("taken") /\ w \notin Executing
  BY DEF Begin, Carrying, Executing, TypeOK, Tracked, InHand
<1> HIDE DEF t
<1>2. /\ Those("queued")' = Those("queued")
      /\ Those("running")' = Those("running") \cup {t} /\ t \notin Those("running")
  <2>1. Move(t, "running")
    BY DEF Begin, t
  <2>2. QED
    BY <1>1, <2>1, ThoseMove
<1>3. \A v \in Workers : pc'[v] = IF v = w THEN "run" ELSE pc[v]
  BY DEF Begin, Goto, TypeOK, Threads
<1>4. Carrying' = Carrying \ {w} /\ Executing' = Executing \cup {w}
  BY <1>3 DEF Carrying, Executing
<1>5. InHand'
  BY <1>1, <1>4, HandEmptied DEF Begin
<1>6. InExecution'
  <2>1. \A v \in Workers : stack'[v] = IF v = w THEN <<t>> ELSE stack[v]
    BY DEF Begin, TypeOK, t
  <2>2. stack[w] = <<>>
    BY <1>1 DEF Tracked, InExecution
  <2>3. Range(stack[w]) = {} /\ Range(<<t>>) = {t} /\ IsInjective(<<t>>) /\ <<t>> # <<>>
    BY <2>2 DEF Range, IsInjective
  <2>4. \A v \in Workers : Range(stack'[v]) = IF v = w THEN {t} ELSE Range(stack[v])
    BY <2>1, <2>3
  <2>5. \A v \in Workers : t \notin Range(stack[v])
    BY <1>2 DEF Tracked, InExecution
  <2>6. \A u : u \in Those("running")' <=> \E v \in Workers : u \in Range(stack'[v])
    BY <1>2, <2>3, <2>4 DEF Tracked, InExecution
  <2>7. \A v \in Workers : IsInjective(stack'[v]) /\ (stack'[v] # <<>> <=> v \in Executing')
    BY <1>4, <2>1, <2>3 DEF Tracked, InExecution
  <2>8. \A u, v \in Workers : u # v => Range(stack'[u]) \cap Range(stack'[v]) = {}
    BY <2>4, <2>5 DEF Tracked, InExecution
  <2>9. QED
    BY <2>6, <2>7, <2>8 DEF InExecution
<1>7. Gone'
  BY DEF Begin, Tracked, Gone
<1>8. QED
  BY <1>2, <1>5, <1>6, <1>7, TrackedFrames DEF Tracked, Begin

LEMMA SkipTracked ==
  ASSUME TypeOK, Tracked, NEW w \in Workers, SkipCancelled(w)
  PROVE  Tracked'
<1>1. w \in Carrying /\ held[w] \in Tasks /\ held[w] \in Those("taken")
  BY DEF SkipCancelled, Carrying, TypeOK, Tracked, InHand
<1>2. Those("queued")' = Those("queued") /\ Those("running")' = Those("running")
  BY <1>1, ThoseMove DEF SkipCancelled, Those
<1>3. \A v \in Workers : pc'[v] = IF v = w THEN "wait" ELSE pc[v]
  BY DEF SkipCancelled, Goto, TypeOK, Threads
<1>4. Carrying' = Carrying \ {w} /\ Executing' = Executing
  BY <1>1, <1>3 DEF Carrying, Executing
<1>5. \A v \in Carrying \ {w} : held'[v] = held[v]
  BY DEF SkipCancelled, TypeOK, Carrying
<1>6. InHand'
  BY <1>1, <1>4, <1>5, HandEmptied DEF SkipCancelled
<1>7. Gone'
  BY DEF SkipCancelled, Tracked, Gone
<1>8. QED
  BY <1>2, <1>4, <1>6, <1>7, TrackedFrames DEF Tracked, SkipCancelled

(* A thread drops the innermost task it executes. *)
LEMMA TopDropped ==
  ASSUME TypeOK, Tracked, NEW w \in Workers, NEW t \in Tasks, NEW to, to # "running",
         Move(t, to), t \in Range(stack[w]), NEW rest,
         stack' = [stack EXCEPT ![w] = rest],
         IsInjective(rest), Range(rest) = Range(stack[w]) \ {t},
         Executing' = IF rest = <<>> THEN Executing \ {w} ELSE Executing, w \in Executing
  PROVE  InExecution'
<1>1. Those("running")' = Those("running") \ {t}
  BY ThoseMove DEF Those
<1>2. \A v \in Workers : stack'[v] = IF v = w THEN rest ELSE stack[v]
  BY DEF TypeOK
<1>3. \A v \in Workers : v # w => t \notin Range(stack[v])
  BY DEF Tracked, InExecution
<1>4. \A v \in Workers : Range(stack'[v]) = Range(stack[v]) \ {t}
  BY <1>2, <1>3
<1>5. \A u : u \in Those("running")' <=> \E v \in Workers : u \in Range(stack'[v])
  BY <1>1, <1>4 DEF Tracked, InExecution
<1>6. \A v \in Workers : IsInjective(stack'[v]) /\ (stack'[v] # <<>> <=> v \in Executing')
  BY <1>2 DEF Tracked, InExecution
<1>7. \A u, v \in Workers : u # v => Range(stack'[u]) \cap Range(stack'[v]) = {}
  BY <1>4 DEF Tracked, InExecution
<1>8. QED
  BY <1>5, <1>6, <1>7 DEF InExecution

LEMMA FinishTracked ==
  ASSUME TypeOK, Tracked, NEW w \in Workers, Finish(w) \/ Throw(w)
  PROVE  /\ Tracked'
         /\ \E t \in Tasks : stage[t] = "running" /\ Move(t, "done")
<1> DEFINE s == stack[w]
           t == s[Len(s)]
           rest == SubSeq(s, 1, Len(s) - 1)
<1>1. pc[w] = "run" /\ w \in Executing /\ s # <<>> /\ IsInjective(s) /\ s \in Seq(Tasks)
  BY DEF Finish, Throw, Executing, Tracked, InExecution, TypeOK
<1>2. /\ rest \in Seq(Tasks) /\ IsInjective(rest) /\ t \in Range(s) /\ t \in Tasks
      /\ Range(rest) = Range(s) \ {t} /\ (Len(s) = 1 <=> rest = <<>>)
  BY <1>1, DropLastProperties
<1>3. /\ Move(t, "done") /\ stack' = [stack EXCEPT ![w] = rest]
      /\ IF Len(s) = 1 THEN Goto(w, "wait") ELSE UNCHANGED pc
      /\ UNCHANGED <<owner, queue>>
      /\ held' = held \/ held' = [held EXCEPT ![w] = NoTask]
  <2>1. CASE Finish(w)
    BY <2>1 DEF Finish
  <2>2. CASE Throw(w)
    BY <1>2, <2>2 DEF Throw
  <2>3. QED
    BY <2>1, <2>2
<1> HIDE DEF t, rest, s
<1>4. t \in Those("running")
  BY <1>2 DEF Tracked, InExecution, s
<1>5. Those("queued")' = Those("queued") /\ Those("taken")' = Those("taken")
  <2>1. t \in Tasks /\ Move(t, "done")
    BY <1>2, <1>3
  <2>2. QED
    BY <1>4, <2>1, ThoseMove
<1>6. \A v \in Workers : pc'[v] = IF v = w /\ Len(s) = 1 THEN "wait" ELSE pc[v]
  BY <1>3 DEF Goto, TypeOK, Threads
<1>7. Carrying' = Carrying /\ w \notin Carrying
  BY <1>1, <1>6 DEF Carrying
<1>8. Executing' = IF rest = <<>> THEN Executing \ {w} ELSE Executing
  BY <1>2, <1>6 DEF Executing
<1>9. InExecution'
  BY <1>1, <1>2, <1>3, <1>8, TopDropped DEF s
<1>10. InHand'
  <2>1. \A v \in Carrying : held'[v] = held[v]
    BY <1>3, <1>7 DEF TypeOK, Carrying
  <2>2. QED
    BY <1>5, <1>7, <2>1 DEF Tracked, InHand
<1>11. Gone'
  BY <1>1, <1>3 DEF Tracked, Gone
<1>12. QED
  BY <1>2, <1>3, <1>4, <1>5, <1>9, <1>10, <1>11, TrackedFrames DEF Tracked, Those

LEMMA InlineTracked ==
  ASSUME TypeOK, Tracked, NEW w \in Workers, NEW t \in Tasks, RunInline(w, t)
  PROVE  Tracked'
<1>1. /\ Those("queued")' = Those("queued") /\ Those("taken")' = Those("taken")
      /\ Those("running")' = Those("running") \cup {t} /\ t \notin Those("running")
  BY ThoseMove DEF RunInline
<1>2. Carrying' = Carrying /\ Executing' = Executing /\ w \in Executing
  BY DEF RunInline, Carrying, Executing
<1>3. \A v \in Workers : t \notin Range(stack[v])
  BY <1>1 DEF Tracked, InExecution
<1>4. /\ IsInjective(Append(stack[w], t)) /\ Range(Append(stack[w], t)) = Range(stack[w]) \cup {t}
      /\ Append(stack[w], t) # <<>>
  <2>1. /\ stack[w] \in Seq(Tasks) /\ IsInjective(stack[w]) /\ t \notin Range(stack[w])
    BY <1>3 DEF Tracked, InExecution, TypeOK
  <2>2. PICK s \in Seq(Tasks) : s = stack[w]
    BY <2>1
  <2>3. PICK r : r = Append(s, t)
    OBVIOUS
  <2>4. IsInjective(s) /\ t \notin Range(s)
    BY <2>1, <2>2
  <2>5. IsInjective(r) /\ Range(r) = Range(s) \cup {t}
    <3>1. r = <<t>> \o s \/ r = Append(s, t)
      BY <2>3
    <3>2. QED
      BY <2>4, <3>1, PushProperties
  <2>6. r # <<>>
    BY <2>3, AppendProperties
  <2>7. QED
    BY <2>2, <2>3, <2>5, <2>6
<1>5. \A v \in Workers : stack'[v] = IF v = w THEN Append(stack[w], t) ELSE stack[v]
  BY DEF RunInline, TypeOK
<1>6. \A v \in Workers : Range(stack'[v]) = Range(stack[v]) \cup (IF v = w THEN {t} ELSE {})
  BY <1>4, <1>5
<1>7. InExecution'
  <2>1. \A u : u \in Those("running")' <=> \E v \in Workers : u \in Range(stack'[v])
    BY <1>1, <1>6 DEF Tracked, InExecution
  <2>2. \A v \in Workers : IsInjective(stack'[v]) /\ (stack'[v] # <<>> <=> v \in Executing')
    BY <1>2, <1>4, <1>5 DEF Tracked, InExecution
  <2>3. ASSUME NEW u \in Workers, NEW v \in Workers, u # v
        PROVE  Range(stack'[u]) \cap Range(stack'[v]) = {}
    <3>1. Range(stack[u]) \cap Range(stack[v]) = {}
      BY <2>3 DEF Tracked, InExecution
    <3>2. QED
      BY <1>3, <1>6, <2>3, <3>1
  <2>4. QED
    BY <2>1, <2>2, <2>3 DEF InExecution
<1>8. Gone'
  BY DEF RunInline, Tracked, Gone
<1>9. QED
  BY <1>1, <1>2, <1>7, <1>8, TrackedFrames DEF Tracked, RunInline

LEMMA TrackedStep ==
  ASSUME TypeOK, Tracked, [Next]_vars
  PROVE  Tracked'
<1>1. ASSUME NEW w \in Workers, CreateThread(w) \/ Acquire(w) \/ ExitThread(w)
      PROVE  Tracked'
  <2>1. PICK label \in {"wait", "got", "exited"} :
            /\ Goto(w, label) /\ UNCHANGED <<owner, queue, stack, stage>>
            /\ pc[w] \in {"new", "wait", "got"}
            /\ held' = held \/ held' = [held EXCEPT ![w] = NoTask]
    BY <1>1 DEF CreateThread, Acquire, ExitThread
  <2>2. Carrying' = Carrying /\ Executing' = Executing /\ Gone' /\ w \notin Carrying
    BY <2>1, ThreadMoves DEF Threads, Executing, Carrying
  <2>3. \A s : Those(s)' = Those(s)
    BY <2>1 DEF Those
  <2>4. InHand'
    <3>1. \A v \in Carrying : held'[v] = held[v]
      BY <2>1, <2>2 DEF TypeOK, Carrying
    <3>2. QED
      BY <2>2, <2>3, <3>1 DEF Tracked, InHand
  <2>5. QED
    BY <2>1, <2>2, <2>3, <2>4, TrackedFrames DEF Tracked
<1>2. ASSUME NEW x \in Threads, Post(x) \/ SyncReturn(x)
      PROVE  Tracked'
  <2>1. PICK label \in {"syncwait", Resume(x)} :
            /\ Goto(x, label) /\ UNCHANGED <<owner, queue, stack, stage, held>>
            /\ pc[x] \in {"post", "postsync", "syncwait"}
    BY <1>2 DEF Post, SyncReturn
  <2>2. Carrying' = Carrying /\ Executing' = Executing /\ Gone'
    BY <2>1, ThreadMoves DEF Threads, Executing, Resume
  <2>3. \A s : Those(s)' = Those(s)
    BY <2>1 DEF Those
  <2>4. QED
    BY <2>1, <2>2, <2>3, TrackedFrames DEF Tracked
<1>3. ASSUME \/ \E t \in Tasks : Cancel(t)
             \/ StartDone \/ Shutdown \/ JoinAll \/ Terminated
             \/ UNCHANGED vars
      PROVE  Tracked'
  <2>1. UNCHANGED <<pc, queue, stack, stage, held>>
    BY <1>3 DEF Cancel, StartDone, Shutdown, JoinAll, Terminated, vars
  <2>2. (\A s : Those(s)' = Those(s)) /\ Carrying' = Carrying /\ Executing' = Executing
    BY <2>1 DEF Those, Carrying, Executing
  <2>3. Gone'
    BY <1>3 DEF Tracked, Gone, Cancel, StartDone, Shutdown, JoinAll, Terminated, vars
  <2>4. QED
    BY <2>1, <2>2, <2>3, TrackedFrames DEF Tracked
<1>4. ASSUME NEW x \in Threads, NEW t \in Tasks, NEW first \in BOOLEAN,
             Sync(x, t, first) \/ \E maySync \in BOOLEAN : Async(x, t, maySync, first)
      PROVE  Tracked'
  BY <1>4, EnqueueTracked DEF Sync, Async
<1>5. QED
  BY <1>1, <1>2, <1>3, <1>4, GetTaskTracked, BeginTracked, SkipTracked, FinishTracked, InlineTracked
     DEF Next

LEMMA AlwaysTracked == SafetySpec => []Tracked
<1>1. Init => Tracked
  <2> SUFFICES ASSUME Init
               PROVE  Tracked
    OBVIOUS
  <2>1. \A s : s # "new" => Those(s) = {}
    BY DEF Init, Those
  <2>2. Carrying = {} /\ Executing = {}
    BY ThreadPoolAssumption DEF Init, Carrying, Executing, Threads
  <2>3. IsInjective(<<>>) /\ Range(<<>>) = {}
    BY DEF IsInjective, Range
  <2>4. queue = <<>> /\ owner # "dead" /\ \A w \in Workers : stack[w] = <<>>
    BY DEF Init
  <2>5. Queued /\ InHand
    BY <2>1, <2>2, <2>3, <2>4 DEF Queued, InHand
  <2>6. InExecution
    BY <2>1, <2>2, <2>3, <2>4 DEF InExecution
  <2>7. QED
    BY <2>4, <2>5, <2>6 DEF Tracked, Gone
<1>2. TypeOK /\ Tracked /\ [Next]_vars => Tracked'
  BY TrackedStep
<1>3. QED
  BY <1>1, <1>2, TypeCorrect, PTL DEF SafetySpec

(* What the users of the pool see of a task and of the pool. *)
Shown == [t \in Tasks |-> IF stage[t] \in {"queued", "taken"} THEN "accepted" ELSE stage[t]]

Phase == CASE owner = "join" -> "closing"
           [] owner = "dead" -> "closed"
           [] OTHER -> "open"

LEMMA ShownMoves ==
  ASSUME TypeOK, NEW t \in Tasks, NEW to, Move(t, to)
  PROVE  Shown' = [Shown EXCEPT ![t] = IF to \in {"queued", "taken"} THEN "accepted" ELSE to]
BY DEF TypeOK, Move, Shown

LEMMA ExecutorStep ==
  ASSUME TypeOK, Tracked, JoinedDrained, Workers # {}, [Next]_vars
  PROVE  Executor!Next \/ UNCHANGED Executor!vars
<1>0. UNCHANGED <<Shown, cancelled, Phase>> => UNCHANGED Executor!vars
  BY DEF Executor!vars, Shown, Phase
<1>1. ASSUME NEW x \in Threads, NEW t \in Tasks, NEW first, NEW next,
             Usable(x), stage[t] = "new", Enqueue(x, t, first, next)
      PROVE  Executor!Accept(t)
  <2>1. Shown[t] = "new" /\ Shown' = [Shown EXCEPT ![t] = "accepted"]
    BY <1>1, ShownMoves DEF Enqueue, Shown
  <2>2. owner # "dead"
    BY <1>1 DEF Usable, Tracked, Gone
  <2>3. Phase # "closed" /\ UNCHANGED <<cancelled, Phase>>
    BY <1>1, <2>2 DEF Enqueue, Phase, TypeOK
  <2>4. QED
    BY <2>1, <2>3 DEF Executor!Accept, Executor!Move, Shown, Phase
<1>2. ASSUME NEW w \in Workers, NEW t \in Tasks, RunInline(w, t)
      PROVE  Executor!Inline(t)
  <2>1. Shown[t] = "new" /\ Shown' = [Shown EXCEPT ![t] = "running"]
    BY <1>2, ShownMoves DEF RunInline, Shown
  <2>2. owner # "dead"
    BY <1>2 DEF RunInline, Tracked, Gone
  <2>3. Phase # "closed" /\ UNCHANGED <<cancelled, Phase>>
    BY <1>2, <2>2 DEF RunInline, Phase, TypeOK
  <2>4. QED
    BY <2>1, <2>3 DEF Executor!Inline, Executor!Move, Shown, Phase
<1>3. ASSUME NEW w \in Workers, Begin(w)
      PROVE  Executor!Next
  <2>1. PICK t \in Tasks : t = held[w] /\ stage[t] = "taken"
    BY <1>3 DEF Begin, TypeOK, Tracked, InHand, Carrying, Those
  <2>2. Shown[t] = "accepted" /\ Shown' = [Shown EXCEPT ![t] = "running"]
    BY <1>3, <2>1, ShownMoves DEF Begin, Shown
  <2>3. UNCHANGED <<cancelled, Phase>> /\ t \notin cancelled
    BY <1>3, <2>1 DEF Begin, Phase
  <2>4. Executor!Start(t)
    BY <2>2, <2>3 DEF Executor!Start, Executor!Move, Shown, Phase
  <2>5. QED
    BY <2>4 DEF Executor!Next
<1>4. ASSUME NEW w \in Workers, SkipCancelled(w)
      PROVE  Executor!Next
  <2>1. PICK t \in Tasks : t = held[w] /\ stage[t] = "taken"
    BY <1>4 DEF SkipCancelled, TypeOK, Tracked, InHand, Carrying, Those
  <2>2. Shown[t] = "accepted" /\ Shown' = [Shown EXCEPT ![t] = "skipped"]
    BY <1>4, <2>1, ShownMoves DEF SkipCancelled, Shown
  <2>3. UNCHANGED <<cancelled, Phase>> /\ t \in cancelled
    BY <1>4, <2>1 DEF SkipCancelled, Phase
  <2>4. Executor!Skip(t)
    BY <2>2, <2>3 DEF Executor!Skip, Executor!Move, Shown, Phase
  <2>5. QED
    BY <2>4 DEF Executor!Next
<1>5. ASSUME NEW w \in Workers, Finish(w) \/ Throw(w)
      PROVE  Executor!Next
  <2>1. PICK t \in Tasks : stage[t] = "running" /\ Move(t, "done")
    BY <1>5, FinishTracked
  <2>2. Shown[t] = "running" /\ Shown' = [Shown EXCEPT ![t] = "done"]
    BY <2>1, ShownMoves DEF Shown
  <2>3. UNCHANGED <<cancelled, Phase>>
    BY <1>5 DEF Finish, Throw, Phase
  <2>4. Executor!Finish(t)
    BY <2>2, <2>3 DEF Executor!Finish, Executor!Move, Shown, Phase
  <2>5. QED
    BY <2>4 DEF Executor!Next
<1>6. ASSUME NEW w \in Workers, GetTask(w)
      PROVE  UNCHANGED Executor!vars
  <2>1. Head(queue) \in Those("queued")
    BY <1>6, PopProperties DEF GetTask, Tracked, Queued, TypeOK
  <2>2. Head(queue) \in Tasks /\ Shown[Head(queue)] = "accepted"
    BY <2>1 DEF Those, Shown
  <2>3. Shown' = [Shown EXCEPT ![Head(queue)] = "accepted"]
    BY <1>6, <2>2, ShownMoves DEF GetTask
  <2>4. UNCHANGED <<Shown, cancelled, Phase>>
    BY <1>6, <2>2, <2>3 DEF GetTask, Phase, Shown
  <2>5. QED
    BY <1>0, <2>4
<1>7. ASSUME NEW t \in Tasks, Cancel(t)
      PROVE  Executor!Cancel(t)
  <2>1. Shown[t] = "accepted" /\ UNCHANGED <<Shown, Phase>> /\ cancelled' = cancelled \cup {t}
    BY <1>7 DEF Cancel, Shown, Phase
  <2>2. QED
    BY <2>1 DEF Executor!Cancel, Shown, Phase
<1>8. ASSUME Shutdown
      PROVE  Executor!BeginClose
  <2>1. Phase = "open" /\ Phase' = "closing" /\ UNCHANGED <<Shown, cancelled>>
    BY <1>8 DEF Shutdown, Shown, Phase
  <2>2. QED
    BY <2>1 DEF Executor!BeginClose, Shown, Phase
<1>9. ASSUME JoinAll
      PROVE  Executor!Close
  <2>1. Phase = "closing" /\ Phase' = "closed" /\ UNCHANGED <<Shown, cancelled>>
    BY <1>9 DEF JoinAll, Shown, Phase
  <2>2. queue = <<>> /\ Range(<<>>) = {}
    BY <1>9 DEF JoinAll, JoinedDrained, Range
  <2>3. Those("queued") = {}
    BY <2>2 DEF Tracked, Queued
  <2>4. Those("taken") = {}
    BY <1>9 DEF JoinAll, Tracked, InHand, Carrying
  <2>5. Those("running") = {}
    <3>1. \A w \in Workers : stack[w] = <<>>
      BY <1>9 DEF JoinAll, Tracked, InExecution, Executing
    <3>2. QED
      BY <2>2, <3>1 DEF Tracked, InExecution, Those
  <2>6. \A t \in Tasks : Shown[t] # "running" /\ Shown[t] # "accepted"
    BY <2>3, <2>4, <2>5 DEF Those, Shown, TypeOK, Stages
  <2>7. QED
    BY <2>1, <2>6 DEF Executor!Close, Shown, Phase
<1>10. ASSUME NEW w \in Workers, CreateThread(w) \/ Acquire(w) \/ ExitThread(w)
       PROVE  UNCHANGED Executor!vars
  BY <1>0, <1>10 DEF CreateThread, Acquire, ExitThread, Shown, Phase
<1>11. ASSUME NEW x \in Threads, Post(x) \/ SyncReturn(x)
       PROVE  UNCHANGED Executor!vars
  BY <1>0, <1>11 DEF Post, SyncReturn, Shown, Phase
<1>12. ASSUME StartDone \/ Terminated \/ UNCHANGED vars
       PROVE  UNCHANGED Executor!vars
  BY <1>0, <1>12 DEF StartDone, Terminated, vars, Shown, Phase
<1>13. ASSUME NEW x \in Threads, NEW t \in Tasks, NEW first \in BOOLEAN,
              Sync(x, t, first) \/ \E maySync \in BOOLEAN : Async(x, t, maySync, first)
       PROVE  Executor!Next
  BY <1>1, <1>13 DEF Sync, Async, Executor!Next
<1>14. QED
  BY <1>2, <1>3, <1>4, <1>5, <1>6, <1>7, <1>8, <1>9, <1>10, <1>11, <1>12, <1>13
     DEF Next, Executor!Next

(* A pool with threads is a task executor: what is accepted is run once or, *)
(* if it was cancelled in time, skipped, nothing else is run, and the       *)
(* destructor does not return before all that is done; whatever the number  *)
(* of threads, clients and tasks, and with auto_run on or off.              *)
THEOREM ImplementsExecutor ==
  ASSUME Workers # {}
  PROVE  SafetySpec => Executor!SafetySpec
<1>1. Init => Executor!Init
  BY DEF Init, Executor!Init
<1>2. TypeOK /\ Tracked /\ JoinedDrained /\ [Next]_vars => [Executor!Next]_(Executor!vars)
  BY ExecutorStep
<1>3. QED
  BY <1>1, <1>2, TypeCorrect, AlwaysTracked, NothingLeftBehind, PTL
     DEF SafetySpec, Executor!SafetySpec

-----------------------------------------------------------------------------
(* The semaphore of the queue, src/Thread/semaphore.h (Semaphore.tla): any  *)
(* threads, any numbers of permits posted at once, any bound on the counter.*)
CONSTANTS Callers, PostSizes, MaxCount

VARIABLES count, waiting, notified

Sem == INSTANCE Semaphore

(* What Semaphore.tla assumes of its constants. *)
SemaphoreUsed ==
    /\ IsFiniteSet(Callers)
    /\ PostSizes \subseteq Nat
    /\ MaxCount \in Nat

(* The counter and the two disjoint sets of sleeping and woken threads keep *)
(* their types: in particular wait() never takes the unsigned _count of the *)
(* code below zero.                                                         *)
THEOREM SemaphoreTypes ==
  ASSUME SemaphoreUsed
  PROVE  Sem!SafetySpec => []Sem!TypeOK
<1>1. Sem!Init => Sem!TypeOK
  BY DEF SemaphoreUsed, Sem!Init, Sem!TypeOK
<1>2. Sem!TypeOK /\ [Sem!Next]_(Sem!vars) => Sem!TypeOK'
  <2> SUFFICES ASSUME Sem!TypeOK, [Sem!Next]_(Sem!vars)
               PROVE  Sem!TypeOK'
    OBVIOUS
  <2> USE DEF SemaphoreUsed, Sem!TypeOK
  <2>1. CASE \E n \in PostSizes : Sem!Post(n)
    BY <2>1 DEF Sem!Post, Sem!Notify
  <2>2. CASE \E t \in Callers : Sem!EnterWait(t) \/ Sem!Wake(t)
    BY <2>2 DEF Sem!EnterWait, Sem!Wake, Sem!Take, Sem!Sleep
  <2>3. CASE \E t \in Callers : Sem!Spurious(t)
    BY <2>3 DEF Sem!Spurious
  <2>4. CASE UNCHANGED Sem!vars
    BY <2>4 DEF Sem!vars
  <2>5. QED
    BY <2>1, <2>2, <2>3, <2>4 DEF Sem!Next
<1>3. QED
  BY <1>1, <1>2, PTL DEF Sem!SafetySpec

-----------------------------------------------------------------------------
(* What one more or one fewer woken thread does to their number. *)
LEMMA AddOne ==
  ASSUME NEW S, IsFiniteSet(S), NEW x, x \notin S
  PROVE  /\ Cardinality(S \cup {x}) = Cardinality(S) + 1
         /\ Cardinality(S) \in Nat
BY FS_AddElement, FS_CardinalityType

LEMMA RemoveOne ==
  ASSUME NEW S, IsFiniteSet(S), NEW x
  PROVE  /\ Cardinality(S) \in Nat
         /\ Cardinality(S \ {x}) =
                IF x \in S THEN Cardinality(S) - 1 ELSE Cardinality(S)
BY FS_RemoveElement, FS_CardinalityType

(* The module counts with the Cardinality of its own FiniteSets. *)
LEMMA SemCardinality == \A S : Sem!Cardinality(S) = Cardinality(S)
BY DEF Sem!Cardinality, Cardinality

(* A step of the semaphore keeps every available permit matched by a woken  *)
(* thread as long as somebody sleeps.                                       *)
LEMMA WakeupStep ==
  ASSUME SemaphoreUsed, Sem!TypeOK, Sem!WakeupCovered, [Sem!Next]_(Sem!vars)
  PROVE  Sem!WakeupCovered'
<1> USE DEF SemaphoreUsed, Sem!TypeOK, Sem!WakeupCovered
<1>0. /\ IsFiniteSet(notified)
      /\ Cardinality(notified) \in Nat
  BY FS_Subset, FS_CardinalityType
<1> USE SemCardinality
<1>1. ASSUME NEW n \in PostSizes, Sem!Post(n)
      PROVE  Sem!WakeupCovered'
  <2>1. CASE waiting = {}
    BY <1>1, <2>1 DEF Sem!Post, Sem!Notify
  <2>2. CASE waiting # {} /\ n = 1
    <3>1. PICK t \in waiting : /\ waiting' = waiting \ {t}
                               /\ notified' = notified \cup {t}
                               /\ count' = count + 1
      BY <1>1, <2>2 DEF Sem!Post, Sem!Notify, Sem!Woken
    <3>2. Cardinality(notified') = Cardinality(notified) + 1
      BY <1>0, <3>1, AddOne
    <3>3. QED
      BY <1>0, <2>2, <3>1, <3>2
  <2>3. CASE waiting # {} /\ n # 1
    BY <1>1, <2>3 DEF Sem!Post, Sem!Notify, Sem!Woken
  <2>4. QED
    BY <2>1, <2>2, <2>3
<1>2. ASSUME NEW t \in Callers, Sem!Take(t)
      PROVE  Sem!WakeupCovered'
  <2>1. /\ count > 0
        /\ count' = count - 1
        /\ waiting' = waiting
        /\ notified' = notified \ {t}
    BY <1>2 DEF Sem!Take
  <2>2. Cardinality(notified') >= Cardinality(notified) - 1
    BY <1>0, <2>1, RemoveOne
  <2>3. IsFiniteSet(notified')
    BY <1>0, <2>1, FS_RemoveElement
  <2>4. QED
    BY <1>0, <2>1, <2>2, <2>3, FS_CardinalityType
<1>3. ASSUME NEW t \in Callers, Sem!Sleep(t)
      PROVE  Sem!WakeupCovered'
  <2>1. IsFiniteSet(notified') /\ count' = 0
    BY <1>0, <1>3, FS_RemoveElement DEF Sem!Sleep
  <2>2. QED
    BY <2>1, FS_CardinalityType
<1>4. ASSUME NEW t \in Callers, Sem!Spurious(t)
      PROVE  Sem!WakeupCovered'
  <2>1. Cardinality(notified') = Cardinality(notified) + 1
    BY <1>0, <1>4, AddOne DEF Sem!Spurious
  <2>2. QED
    BY <1>0, <1>4, <2>1 DEF Sem!Spurious
<1>5. CASE UNCHANGED Sem!vars
  BY <1>5 DEF Sem!vars
<1>6. QED
  BY <1>1, <1>2, <1>3, <1>4, <1>5 DEF Sem!Next, Sem!EnterWait, Sem!Wake

(* No wake-up is lost: while a thread sleeps in wait(), at least as many    *)
(* woken threads are on their way to the counter as there are permits.      *)
THEOREM SemaphoreWakesUp ==
  ASSUME SemaphoreUsed
  PROVE  Sem!SafetySpec => []Sem!WakeupCovered
<1>1. Sem!Init => Sem!WakeupCovered
  BY DEF Sem!Init, Sem!WakeupCovered
<1>2. Sem!TypeOK /\ Sem!WakeupCovered /\ [Sem!Next]_(Sem!vars) => Sem!WakeupCovered'
  BY WakeupStep
<1>3. QED
  BY <1>1, <1>2, SemaphoreTypes, PTL DEF Sem!SafetySpec

-----------------------------------------------------------------------------
(* Every step of the code is a step of the abstract semaphore or leaves its *)
(* variables alone: permits are neither lost nor made up, and nobody is     *)
(* released without one.                                                    *)
THEOREM SemaphoreImplementsAbstract ==
  ASSUME SemaphoreUsed
  PROVE  Sem!SafetySpec => Sem!Abstract!SafetySpec
<1>1. Sem!Init => Sem!Abstract!Init
  BY DEF Sem!Init, Sem!Abstract!Init
<1>2. Sem!TypeOK /\ [Sem!Next]_(Sem!vars) => [Sem!Abstract!Next]_(Sem!Abstract!vars)
  <2> SUFFICES ASSUME Sem!TypeOK, [Sem!Next]_(Sem!vars)
               PROVE  Sem!Abstract!Next \/ UNCHANGED Sem!Abstract!vars
    OBVIOUS
  <2> USE DEF SemaphoreUsed, Sem!TypeOK, Sem!Abstract!Next, Sem!Abstract!vars
  <2>1. ASSUME NEW n \in PostSizes, Sem!Post(n)
        PROVE  Sem!Abstract!V(n)
    BY <2>1 DEF Sem!Post, Sem!Notify, Sem!Abstract!V
  <2>2. ASSUME NEW t \in Callers, Sem!EnterWait(t)
        PROVE  Sem!Abstract!P(t) \/ Sem!Abstract!Block(t)
    BY <2>2 DEF Sem!EnterWait, Sem!Take, Sem!Sleep, Sem!Abstract!P, Sem!Abstract!Block
  <2>3. ASSUME NEW t \in Callers, Sem!Wake(t)
        PROVE  Sem!Abstract!Grant(t) \/ UNCHANGED Sem!Abstract!vars
    BY <2>3 DEF Sem!Wake, Sem!Take, Sem!Sleep, Sem!Abstract!Grant
  <2>4. ASSUME NEW t \in Callers, Sem!Spurious(t)
        PROVE  UNCHANGED Sem!Abstract!vars
    BY <2>4 DEF Sem!Spurious
  <2>5. CASE UNCHANGED Sem!vars
    BY <2>5 DEF Sem!vars
  <2>6. QED
    BY <2>1, <2>2, <2>3, <2>4, <2>5 DEF Sem!Next
<1>3. QED
  BY <1>1, <1>2, SemaphoreTypes, PTL DEF Sem!SafetySpec, Sem!Abstract!SafetySpec
=============================================================================
