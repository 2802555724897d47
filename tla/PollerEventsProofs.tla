------------------------- MODULE PollerEventsProofs -------------------------
(***************************************************************************)
(* Theorems about the descriptors of src/Poller/EventPoller.cpp, for any   *)
(* descriptors, any number of calls and any length of the queue; and about *)
(* src/Network/sockutil.cpp, where the descriptors of sockets come from.   *)
(***************************************************************************)
EXTENDS PollerEvents, SequenceTheorems, WellFoundedInduction, TLAPS

LEMMA TypeStep ==
  ASSUME TypeOK, [Next]_vars
  PROVE  TypeOK'
<1> USE PollerEventsAssumption
    DEF TypeOK, Records, Pipe, Operations, loop, queues, system, See
<1>1. ASSUME NEW fd \in Fds, DelEvent(fd) \/ QueueDel(fd) \/ Close(fd) \/ Open(fd)
      PROVE  TypeOK'
  <2>1. CASE DelEvent(fd)
    BY <2>1 DEF DelEvent, Erase, Deleted, Watched
  <2>2. CASE QueueDel(fd)
    <3>1. [op |-> "del", fd |-> fd] \in Operations
      OBVIOUS
    <3>2. list_task' \in Seq(Operations)
      BY <2>2, <3>1 DEF QueueDel
    <3>3. QED
      BY <2>2, <3>2 DEF QueueDel
  <2>3. CASE Close(fd)
    BY <2>3 DEF Close
  <2>4. CASE Open(fd)
    BY <2>4 DEF Open
  <2>5. QED
    BY <1>1, <2>1, <2>2, <2>3, <2>4
<1>2. ASSUME NEW fd \in Fds, NEW interest \in SUBSET Kinds,
             AddEvent(fd, interest) \/ ModifyEvent(fd, interest)
      PROVE  TypeOK'
  <2>1. CASE AddEvent(fd, interest)
    <3>1. event_map' \in [Fds -> Nat] /\ event' \in [Fds -> SUBSET Kinds]
      BY <2>1 DEF AddEvent, MayAdd, Emplace
    <3>2. adds' \in [Fds -> Nat] /\ view' \in [Fds -> {"none", "added", "deleting", "deleted"}]
      BY <2>1 DEF AddEvent, MayAdd
    <3>3. UNCHANGED <<pc, callback_list, running, expired, list_task, tasks, open, ready>>
      BY <2>1 DEF AddEvent
    <3> HIDE DEF Operations, Records, Pipe
    <3>4. QED
      BY <3>1, <3>2, <3>3
  <2>2. CASE ModifyEvent(fd, interest)
    BY <2>2 DEF ModifyEvent, Modify, Watched
  <2>3. QED
    BY <1>2, <2>1, <2>2
<1>3. ASSUME NEW fd \in Fds, NEW interest \in SUBSET Kinds, QueueAdd(fd, interest)
      PROVE  TypeOK'
  <2>1. [op |-> "add", fd |-> fd, reg |-> adds[fd] + 1, event |-> interest]
            \in Operations
    BY <1>3
  <2>2. list_task' \in Seq(Operations)
    BY <1>3, <2>1 DEF QueueAdd
  <2> HIDE DEF Operations, Records, Pipe
  <2>3. QED
    BY <1>3, <2>2 DEF QueueAdd, MayAdd
<1>4. ASSUME NEW fd \in Fds, NEW interest \in SUBSET Kinds, QueueModify(fd, interest)
      PROVE  TypeOK'
  <2>1. [op |-> "modify", fd |-> fd, event |-> interest] \in Operations
    BY <1>4
  <2>2. list_task' \in Seq(Operations)
    BY <1>4, <2>1 DEF QueueModify
  <2>3. QED
    BY <1>4, <2>2 DEF QueueModify
<1>5. ASSUME NEW fd \in Fds, NEW kind \in Kinds,
             BecomeReady(fd, kind) \/ Consume(fd, kind)
      PROVE  TypeOK'
  <2>1. CASE BecomeReady(fd, kind)
    BY <2>1 DEF BecomeReady
  <2>2. CASE Consume(fd, kind)
    BY <2>2 DEF Consume
  <2>3. QED
    BY <1>5, <2>1, <2>2
<1>6. CASE Select
  <2>1. Batch \subseteq Records \cup {Pipe}
    BY DEF Batch, Hits, Watched
  <2>2. QED
    BY <1>6, <2>1 DEF Select
<1>7. ASSUME NEW r \in callback_list, CallBack(r)
      PROVE  TypeOK'
  <2>1. r \in Records
    BY <1>7 DEF CallBack
  <2> HIDE DEF Operations, Records, Pipe
  <2>2. CASE r[1] \in expired
    BY <1>7, <2>2 DEF CallBack
  <2>3. CASE r[1] \notin expired
    BY <1>7, <2>1, <2>3 DEF CallBack
  <2>4. QED
    BY <2>2, <2>3
<1>8. CASE CallBackEnds \/ BatchEnds \/ PipeEvent \/ TasksDone
  <2>1. CASE CallBackEnds
    BY <2>1 DEF CallBackEnds
  <2>2. CASE BatchEnds
    BY <2>2 DEF BatchEnds
  <2>3. CASE PipeEvent
    BY <2>3 DEF PipeEvent
  <2>4. CASE TasksDone
    BY <2>4 DEF TasksDone
  <2>5. QED
    BY <1>8, <2>1, <2>2, <2>3, <2>4
<1>9. ASSUME NEW op, Task(op)
      PROVE  Head(tasks) \in Operations /\ tasks' \in Seq(Operations)
  BY <1>9 DEF Task
<1>10. CASE TaskAdd
  <2>1. /\ Head(tasks).fd \in Fds /\ Head(tasks).reg \in Nat \ {0}
        /\ Head(tasks).event \in SUBSET Kinds
    BY <1>9, <1>10 DEF TaskAdd, Task
  <2>2. QED
    BY <1>9, <1>10, <2>1 DEF TaskAdd, Task, Emplace, Watched
<1>11. CASE TaskDel
  <2>1. Head(tasks).fd \in Fds
    BY <1>9, <1>11 DEF TaskDel, Task
  <2>2. QED
    BY <1>9, <1>11, <2>1 DEF TaskDel, Task, Erase, Deleted, Watched
<1>12. CASE TaskModify
  <2>1. Head(tasks).fd \in Fds /\ Head(tasks).event \in SUBSET Kinds
    BY <1>9, <1>12 DEF TaskModify, Task
  <2>2. QED
    BY <1>9, <1>12, <2>1 DEF TaskModify, Task, Modify, Watched
<1>13. CASE UNCHANGED vars
  BY <1>13 DEF vars
<1> HIDE DEF TypeOK
<1>14. QED
  BY <1>1, <1>2, <1>3, <1>4, <1>5, <1>6, <1>7, <1>8, <1>10, <1>11, <1>12, <1>13
     DEF Next, User, Loop

(* The variables of the model keep their types; a batch is used up before   *)
(* the next select(), and a callback is executing exactly at "callback".    *)
THEOREM TypeCorrect == SafetySpec => []TypeOK
<1>1. Init => TypeOK
  BY DEF Init, TypeOK, Records, Operations
<1>2. TypeOK /\ [Next]_vars => TypeOK'
  BY TypeStep
<1>3. QED
  BY <1>1, <1>2, PTL DEF SafetySpec

-----------------------------------------------------------------------------
(* The invariant behind event_cache_expired_: a record still to be called   *)
(* is the one in event_map_, or its number has been put into the cache.     *)
CacheInv ==
    \A r \in callback_list \ {Pipe} : r[1] \in expired \/ event_map[r[1]] = r[2]

LEMMA CacheStep ==
  ASSUME TypeOK, CacheInv, [Next]_vars
  PROVE  CacheInv'
<1> USE DEF CacheInv, loop, queues, system
<1>1. \A r \in callback_list \ {Pipe} : r[1] \in Fds /\ r[2] \in Nat /\ r[2] # 0
  BY DEF TypeOK, Records
<1>2. ASSUME NEW fd \in Fds, NEW reg, NEW interest, Emplace(fd, reg, interest),
             UNCHANGED <<callback_list, expired>>
      PROVE  CacheInv'
  BY <1>1, <1>2 DEF Emplace, Watched, TypeOK
<1>3. ASSUME NEW fd \in Fds, Erase(fd), UNCHANGED callback_list
      PROVE  CacheInv'
  BY <1>1, <1>3 DEF Erase, Watched, TypeOK
<1>4. ASSUME callback_list' \subseteq callback_list, UNCHANGED <<expired, event_map>>
      PROVE  CacheInv'
  BY <1>4
<1>5. CASE Select
  BY <1>5 DEF Select, Batch, Hits, Watched, TypeOK
<1>6. ASSUME NEW op, Task(op)
      PROVE  Head(tasks) \in Operations /\ Head(tasks).fd \in Fds
  <2>1. Head(tasks) \in Operations
    BY <1>6 DEF Task, TypeOK
  <2>2. QED
    BY <2>1 DEF Operations
<1>7. CASE TaskAdd
  BY <1>2, <1>6, <1>7 DEF TaskAdd
<1>8. CASE TaskDel
  BY <1>3, <1>6, <1>8 DEF TaskDel
<1>9. ASSUME \/ TaskModify \/ CallBackEnds \/ BatchEnds \/ PipeEvent \/ TasksDone
             \/ \E r \in callback_list : CallBack(r)
             \/ UNCHANGED vars
      PROVE  CacheInv'
  BY <1>4, <1>9
     DEF TaskModify, CallBackEnds, BatchEnds, PipeEvent, TasksDone, CallBack, vars
<1>10. ASSUME NEW fd \in Fds, DelEvent(fd) \/ QueueDel(fd) \/ Close(fd) \/ Open(fd)
       PROVE  CacheInv'
  BY <1>3, <1>4, <1>10 DEF DelEvent, QueueDel, Close, Open
<1>11. ASSUME NEW fd \in Fds, NEW interest \in SUBSET Kinds,
              \/ AddEvent(fd, interest) \/ QueueAdd(fd, interest)
              \/ ModifyEvent(fd, interest) \/ QueueModify(fd, interest)
       PROVE  CacheInv'
  BY <1>2, <1>4, <1>11 DEF AddEvent, QueueAdd, ModifyEvent, QueueModify
<1>12. ASSUME NEW fd \in Fds, NEW kind \in Kinds,
              BecomeReady(fd, kind) \/ Consume(fd, kind)
       PROVE  CacheInv'
  BY <1>4, <1>12 DEF BecomeReady, Consume
<1> HIDE DEF CacheInv
<1>13. QED
  BY <1>5, <1>7, <1>8, <1>9, <1>10, <1>11, <1>12 DEF Next, User, Loop

(* No callback is called for a record that delEvent has removed, whatever   *)
(* the callbacks before it in the batch deleted and added.                  *)
THEOREM NoDeletedRecordIsCalled == SafetySpec => NoStaleCallback
<1> DEFINE Fresh == \A r \in running' \ running : event_map[r[1]] = r[2]
<1>1. Init => CacheInv
  BY DEF Init, CacheInv
<1>2. TypeOK /\ CacheInv /\ [Next]_vars => CacheInv'
  BY CacheStep
<1>3. TypeOK /\ CacheInv /\ [Next]_vars => [Fresh]_vars
  <2> SUFFICES ASSUME TypeOK, CacheInv, Next
               PROVE  Fresh
    BY DEF vars, loop
  <2>1. CASE \E r \in callback_list : CallBack(r)
    BY <2>1 DEF CallBack, CacheInv
  <2>2. CASE ~ \E r \in callback_list : CallBack(r)
    <3>1. running' = running \/ running' = {}
      BY <2>2 DEF Next, User, Loop, loop, Select, CallBackEnds, BatchEnds,
         PipeEvent, TaskAdd, TaskDel, TaskModify, TasksDone, AddEvent,
         QueueAdd, DelEvent, QueueDel, ModifyEvent, QueueModify,
         BecomeReady, Consume, Close, Open
    <3>2. QED
      BY <3>1
  <2>3. QED
    BY <2>1, <2>2
<1>4. QED
  BY <1>1, <1>2, <1>3, TypeCorrect, PTL DEF SafetySpec, NoStaleCallback

-----------------------------------------------------------------------------
(* What is queued and not executed yet, in the order of execution. *)
Pending == tasks \o list_task

(* The user's view of a descriptor, the queued operations and event_map_    *)
(* fit together: a descriptor is deleted for its user when it is not        *)
(* watched and nothing that would add or delete it is on its way; there is  *)
(* never more than one addition on its way, and none behind a deletion.     *)
ViewInv(fd) ==
    /\ view[fd] \in {"none", "deleted"} => fd \notin Watched
    /\ view[fd] \in {"added", "deleting"} => fd \in open

AddInv(i) ==
    Pending[i].op = "add" => /\ Pending[i].fd \notin Watched
                             /\ view[Pending[i].fd] \in {"added", "deleting"}

DelInv(i) == Pending[i].op = "del" => view[Pending[i].fd] = "deleting"

OrderInv(i, j) ==
    (i < j /\ Pending[i].fd = Pending[j].fd) =>
        /\ Pending[i].op = "add" => Pending[j].op # "add"
        /\ Pending[i].op = "del" => Pending[j].op \notin {"add", "del"}

UserInv ==
    /\ pc # "tasks" => tasks = <<>>
    /\ \A fd \in Fds : ViewInv(fd)
    /\ \A i \in 1..Len(Pending) : AddInv(i) /\ DelInv(i)
    /\ \A i, j \in 1..Len(Pending) : OrderInv(i, j)

LEMMA PendingType ==
  ASSUME TypeOK
  PROVE  Pending \in Seq(Operations)
BY ConcatProperties DEF TypeOK, Pending

(* An operation is queued at the end ... *)
LEMMA PendingGrows ==
  ASSUME TypeOK, NEW op \in Operations, UNCHANGED tasks,
         list_task' = Append(list_task, op)
  PROVE  /\ Len(Pending') = Len(Pending) + 1
         /\ \A i \in 1..Len(Pending) : Pending'[i] = Pending[i]
         /\ Pending'[Len(Pending) + 1] = op
<1>1. tasks \in Seq(Operations) /\ list_task \in Seq(Operations)
  BY DEF TypeOK
<1>2. list_task' \in Seq(Operations) /\ Len(list_task') = Len(list_task) + 1
      /\ list_task'[Len(list_task) + 1] = op
      /\ \A i \in 1..Len(list_task) : list_task'[i] = list_task[i]
  BY <1>1
<1>3. QED
  BY <1>1, <1>2, ConcatProperties DEF Pending

(* ... and executed from the front. *)
LEMMA PendingShrinks ==
  ASSUME TypeOK, NEW op, Task(op), UNCHANGED list_task
  PROVE  /\ Len(Pending) \in Nat \ {0}
         /\ Len(Pending') = Len(Pending) - 1
         /\ \A i \in 1..Len(Pending') : Pending'[i] = Pending[i + 1]
         /\ Pending[1] = Head(tasks)
         /\ Head(tasks).op = op /\ Head(tasks).fd \in Fds
<1>1. tasks \in Seq(Operations) /\ list_task \in Seq(Operations) /\ tasks # <<>>
      /\ tasks' = Tail(tasks) /\ Head(tasks).op = op
  BY DEF TypeOK, Task
<1>2. /\ Head(tasks) = tasks[1] /\ Len(tasks) \in Nat \ {0}
      /\ Head(tasks) \in Operations
      /\ tasks' \in Seq(Operations) /\ Len(tasks') = Len(tasks) - 1
      /\ \A i \in 1..Len(tasks') : tasks'[i] = tasks[i + 1]
  BY <1>1
<1>3. Head(tasks).fd \in Fds
  BY <1>2 DEF Operations
<1>4. /\ Len(Pending) = Len(tasks) + Len(list_task)
      /\ \A i \in 1..Len(tasks) + Len(list_task) :
            Pending[i] = IF i <= Len(tasks) THEN tasks[i]
                         ELSE list_task[i - Len(tasks)]
  BY <1>1, ConcatProperties DEF Pending
<1>5. /\ Len(Pending') = Len(tasks') + Len(list_task)
      /\ \A i \in 1..Len(tasks') + Len(list_task) :
            Pending'[i] = IF i <= Len(tasks') THEN tasks'[i]
                          ELSE list_task[i - Len(tasks')]
  BY <1>1, <1>2, ConcatProperties DEF Pending
<1>6. Len(list_task) \in Nat
  BY <1>1
<1>7. ASSUME NEW i \in 1..Len(Pending')
      PROVE  Pending'[i] = Pending[i + 1]
  <2>1. i \in 1..Len(tasks) - 1 + Len(list_task)
    BY <1>2, <1>5, <1>7
  <2>2. CASE i <= Len(tasks) - 1
    BY <1>2, <1>4, <1>5, <1>6, <2>1, <2>2
  <2>3. CASE i > Len(tasks) - 1
    BY <1>2, <1>4, <1>5, <1>6, <2>1, <2>3
  <2>4. QED
    BY <1>2, <2>2, <2>3
<1>8. QED
  BY <1>1, <1>2, <1>3, <1>4, <1>5, <1>6, <1>7

LEMMA UserStep ==
  ASSUME TypeOK, UserInv, ~CloseEarly, [Next]_vars
  PROVE  UserInv'
<1> USE DEF loop, queues, system
<1>1. /\ Len(Pending) \in Nat
      /\ \A i \in 1..Len(Pending) : Pending[i].fd \in Fds
      /\ event_map \in [Fds -> Nat] /\ adds \in [Fds -> Nat]
      /\ view \in [Fds -> {"none", "added", "deleting", "deleted"}]
  <2>1. \A op \in Operations : op.fd \in Fds
    BY DEF Operations
  <2>2. QED
    BY <2>1, PendingType DEF TypeOK
(* A step that disturbs neither the map nor the view nor the queue. *)
<1>2. ASSUME UNCHANGED <<event_map, view, open>>, Pending' = Pending,
             pc' # "tasks" => tasks' = <<>>
      PROVE  UserInv'
  BY <1>2 DEF UserInv, ViewInv, AddInv, DelInv, OrderInv, Watched
(* Queueing an operation that fits. *)
<1>3. ASSUME NEW op \in Operations, UNCHANGED <<pc, tasks, event_map, open>>,
             list_task' = Append(list_task, op),
             \A fd \in Fds \ {op.fd} : view'[fd] = view[fd],
             op.op = "add" => /\ view[op.fd] \in {"none", "deleted"}
                              /\ view'[op.fd] = "added" /\ op.fd \in open,
             op.op = "del" => /\ view[op.fd] = "added"
                              /\ view'[op.fd] = "deleting",
             op.op = "modify" => view'[op.fd] = view[op.fd]
      PROVE  UserInv'
  <2>1. op.fd \in Fds /\ op.op \in {"add", "del", "modify"}
    BY DEF Operations
  <2>2. PICK n \in Nat : n = Len(Pending)
    BY <1>1
  <2>3. /\ Len(Pending') = n + 1
        /\ \A i \in 1..n : Pending'[i] = Pending[i]
        /\ Pending'[n + 1] = op
    BY <1>3, <2>2, PendingGrows
  <2>4. ASSUME NEW i \in 1..n
        PROVE  AddInv(i)' /\ DelInv(i)'
    BY <1>1, <1>3, <2>1, <2>2, <2>3 DEF UserInv, AddInv, DelInv, Watched
  <2>5. AddInv(n + 1)' /\ DelInv(n + 1)'
    BY <1>1, <1>3, <2>1, <2>2, <2>3 DEF UserInv, AddInv, DelInv, ViewInv, Watched
  <2>6. ASSUME NEW i \in 1..n
        PROVE  OrderInv(i, n + 1)'
    BY <1>1, <1>3, <2>1, <2>2, <2>3 DEF UserInv, AddInv, DelInv, OrderInv
  <2>7. \A fd \in Fds : ViewInv(fd)'
    BY <1>1, <1>3, <2>1 DEF UserInv, ViewInv, Watched
  <2>8. ASSUME NEW i \in 1..n + 1, NEW j \in 1..n + 1
        PROVE  OrderInv(i, j)'
    <3>1. CASE i < j /\ j \in 1..n
      BY <2>2, <2>3, <3>1 DEF UserInv, OrderInv
    <3>2. CASE i < j /\ j = n + 1
      BY <2>6, <3>2
    <3>3. CASE ~(i < j)
      BY <3>3 DEF OrderInv
    <3>4. QED
      BY <3>1, <3>2, <3>3
  <2>9. pc' # "tasks" => tasks' = <<>>
    BY <1>3 DEF UserInv
  <2>10. \A i \in 1..n + 1 : AddInv(i)' /\ DelInv(i)'
    BY <2>4, <2>5
  <2>11. QED
    BY <2>3, <2>7, <2>8, <2>9, <2>10 DEF UserInv
<1>4. ASSUME NEW fd \in Fds, NEW interest \in SUBSET Kinds, QueueAdd(fd, interest)
      PROVE  UserInv'
  <2> DEFINE op == [op |-> "add", fd |-> fd, reg |-> adds[fd] + 1,
                    event |-> interest]
  <2>1. op \in Operations
    BY <1>1 DEF Operations
  <2>2. list_task' = Append(list_task, op) /\ op.op = "add" /\ op.fd = fd
        /\ UNCHANGED <<pc, tasks, event_map, open>>
    BY <1>4 DEF QueueAdd
  <2> HIDE DEF op
  <2>3. /\ view[fd] \in {"none", "deleted"} /\ view'[fd] = "added" /\ fd \in open
        /\ \A g \in Fds \ {fd} : view'[g] = view[g]
    BY <1>1, <1>4 DEF QueueAdd, MayAdd, See
  <2>4. QED
    BY <1>3, <2>1, <2>2, <2>3
<1>5. ASSUME NEW fd \in Fds, QueueDel(fd)
      PROVE  UserInv'
  <2> DEFINE op == [op |-> "del", fd |-> fd]
  <2>1. op \in Operations
    BY DEF Operations
  <2>2. list_task' = Append(list_task, op) /\ op.op = "del" /\ op.fd = fd
        /\ UNCHANGED <<pc, tasks, event_map, open>>
    BY <1>5 DEF QueueDel
  <2> HIDE DEF op
  <2>3. /\ view[fd] = "added" /\ view'[fd] = "deleting"
        /\ \A g \in Fds \ {fd} : view'[g] = view[g]
    BY <1>1, <1>5 DEF QueueDel, See
  <2>4. QED
    BY <1>3, <2>1, <2>2, <2>3
<1>6. ASSUME NEW fd \in Fds, NEW interest \in SUBSET Kinds, QueueModify(fd, interest)
      PROVE  UserInv'
  <2> DEFINE op == [op |-> "modify", fd |-> fd, event |-> interest]
  <2>1. op \in Operations
    BY DEF Operations
  <2>2. list_task' = Append(list_task, op) /\ op.op = "modify" /\ op.fd = fd
        /\ UNCHANGED <<pc, tasks, event_map, open, view>>
    BY <1>6 DEF QueueModify
  <2> HIDE DEF op
  <2>3. QED
    BY <1>3, <2>1, <2>2
(* Executing the operation at the front. *)
<1>7. ASSUME NEW what, Task(what), UNCHANGED <<list_task, open, pc>>,
             \A fd \in Fds \ {Head(tasks).fd} :
                 view'[fd] = view[fd] /\ (fd \in Watched' <=> fd \in Watched),
             LET fd == Head(tasks).fd IN
             \/ /\ what = "add"
                /\ fd \in Watched' /\ view'[fd] = view[fd]
             \/ /\ what = "del" /\ fd \notin Watched'
                /\ view'[fd] = IF fd \in Watched THEN "deleted" ELSE "added"
             \/ /\ what = "modify" /\ view'[fd] = view[fd]
                /\ (fd \in Watched' <=> fd \in Watched)
      PROVE  UserInv'
  <2> DEFINE fd == Head(tasks).fd
  <2>1. /\ Len(Pending) \in Nat \ {0}
        /\ Len(Pending') = Len(Pending) - 1
        /\ \A i \in 1..Len(Pending') : Pending'[i] = Pending[i + 1]
        /\ Pending[1].op = what /\ Pending[1].fd = fd /\ fd \in Fds
    BY <1>7, PendingShrinks
  <2>2. pc' = "tasks"
    BY <1>7 DEF Task
  <2>3. AddInv(1) /\ DelInv(1) /\ ViewInv(fd)
    BY <2>1 DEF UserInv
  <2>4. \A i \in 1..Len(Pending') :
           /\ i + 1 \in 1..Len(Pending) /\ Pending'[i] = Pending[i + 1]
           /\ AddInv(i + 1) /\ DelInv(i + 1) /\ OrderInv(1, i + 1)
    BY <2>1 DEF UserInv
  <2> HIDE DEF fd
  <2>5. ASSUME NEW i \in 1..Len(Pending')
        PROVE  (AddInv(i) /\ DelInv(i))'
    <3>1. Pending'[i].fd \in Fds
      BY <1>1, <2>4
    <3>2. CASE Pending'[i].fd # fd
      BY <1>7, <2>4, <3>1, <3>2 DEF AddInv, DelInv, fd
    <3>3. CASE Pending'[i].fd = fd
      <4>1. /\ what = "add" => Pending'[i].op # "add"
            /\ what = "del" => Pending'[i].op \notin {"add", "del"}
        BY <2>1, <2>4, <3>3 DEF OrderInv
      <4>2. QED
        BY <1>7, <2>4, <3>3, <4>1 DEF AddInv, DelInv, fd
    <3>4. QED
      BY <3>2, <3>3
  <2>6. \A g \in Fds : ViewInv(g)'
    <3> SUFFICES ASSUME NEW g \in Fds PROVE ViewInv(g)'
      OBVIOUS
    <3>1. CASE g # fd
      BY <1>7, <3>1 DEF UserInv, ViewInv, fd
    <3>2. CASE g = fd
      BY <1>1, <1>7, <2>1, <2>3, <3>2 DEF AddInv, DelInv, ViewInv, fd
    <3>3. QED
      BY <3>1, <3>2
  <2>7. ASSUME NEW i \in 1..Len(Pending'), NEW j \in 1..Len(Pending')
        PROVE  OrderInv(i, j)'
    <3>1. OrderInv(i + 1, j + 1)
      BY <2>4 DEF UserInv
    <3>2. i < j => i + 1 < j + 1
      BY <2>1
    <3>3. QED
      BY <2>4, <3>1, <3>2 DEF OrderInv
  <2>8. QED
    BY <2>2, <2>5, <2>6, <2>7 DEF UserInv
<1>8. CASE TaskAdd
  <2>1. Head(tasks).fd \in Fds /\ Task("add") /\ UNCHANGED <<list_task, open, pc, view>>
        /\ Head(tasks) = Pending[1] /\ Len(Pending) \in Nat \ {0}
    BY <1>8, PendingShrinks DEF TaskAdd
  <2>2. Head(tasks).fd \in Watched'
    <3>1. Head(tasks).fd \notin Watched
      BY <2>1 DEF UserInv, AddInv, Task
    <3>2. Head(tasks).reg \in Nat \ {0}
      <4>1. Head(tasks) \in Operations /\ Head(tasks).op = "add"
        BY <2>1 DEF Task, TypeOK
      <4>2. QED
        BY <4>1 DEF Operations
    <3>3. QED
      BY <1>1, <1>8, <2>1, <3>1, <3>2 DEF TaskAdd, Emplace, Watched
  <2>3. \A fd \in Fds \ {Head(tasks).fd} : fd \in Watched' <=> fd \in Watched
    BY <1>1, <1>8, <2>1 DEF TaskAdd, Emplace, Watched
  <2>4. QED
    BY <1>7, <2>1, <2>2, <2>3
<1>9. CASE TaskDel
  <2>1. Head(tasks).fd \in Fds /\ Task("del") /\ UNCHANGED <<list_task, open, pc>>
    BY <1>9, PendingShrinks DEF TaskDel
  <2>2. Head(tasks).fd \notin Watched'
        /\ \A fd \in Fds \ {Head(tasks).fd} : fd \in Watched' <=> fd \in Watched
    BY <1>1, <1>9, <2>1 DEF TaskDel, Erase, Watched
  <2>3. view' = [view EXCEPT ![Head(tasks).fd] =
                     IF Head(tasks).fd \in Watched THEN "deleted" ELSE "added"]
    BY <1>9 DEF TaskDel, See, Deleted
  <2>4. QED
    BY <1>1, <1>7, <2>1, <2>2, <2>3
<1>10. CASE TaskModify
  <2>1. Head(tasks).fd \in Fds /\ Task("modify")
        /\ UNCHANGED <<list_task, open, pc, view, event_map>>
    BY <1>10, PendingShrinks DEF TaskModify
  <2>2. Watched' = Watched
    BY <2>1 DEF Watched
  <2>3. QED
    BY <1>7, <2>1, <2>2
(* A call on the loop thread: the descriptor has no operation queued that   *)
(* adds or deletes it, unless the call changes nothing.                     *)
<1>11. ASSUME NEW fd \in Fds, UNCHANGED <<pc, list_task, tasks, open>>,
              \A g \in Fds \ {fd} : view'[g] = view[g]
                                    /\ (g \in Watched' <=> g \in Watched),
              \/ /\ view[fd] \in {"none", "deleted"} /\ fd \in open
                 /\ view'[fd] = "added"
              \/ /\ view[fd] = "added" /\ fd \in Watched
                 /\ view'[fd] = "deleted" /\ fd \notin Watched'
       PROVE  UserInv'
  <2>1. Pending' = Pending
    BY <1>11 DEF Pending
  <2>2. ASSUME NEW i \in 1..Len(Pending)
        PROVE  (AddInv(i) /\ DelInv(i))' /\ Pending[i].fd \in Fds
    <3>1. AddInv(i) /\ DelInv(i) /\ Pending[i].fd \in Fds
      BY <1>1 DEF UserInv
    <3>2. CASE Pending[i].fd = fd
      BY <1>11, <2>1, <3>1, <3>2 DEF AddInv, DelInv
    <3>3. CASE Pending[i].fd # fd
      BY <1>11, <2>1, <3>1, <3>3 DEF AddInv, DelInv
    <3>4. QED
      BY <3>1, <3>2, <3>3
  <2>3. \A g \in Fds : ViewInv(g)'
    BY <1>1, <1>11 DEF UserInv, ViewInv
  <2>4. QED
    BY <1>11, <2>1, <2>2, <2>3 DEF UserInv, OrderInv
<1>12. ASSUME NEW fd \in Fds, NEW interest \in SUBSET Kinds, AddEvent(fd, interest)
       PROVE  UserInv'
  <2>1. /\ UNCHANGED <<pc, list_task, tasks, open>>
        /\ view[fd] \in {"none", "deleted"} /\ fd \in open
        /\ view' = [view EXCEPT ![fd] = "added"]
    BY <1>12 DEF AddEvent, MayAdd, See
  <2>2. \A g \in Fds \ {fd} : g \in Watched' <=> g \in Watched
    BY <1>1, <1>12 DEF AddEvent, Emplace, Watched
  <2>3. QED
    BY <1>1, <1>11, <2>1, <2>2
<1>13. ASSUME NEW fd \in Fds, DelEvent(fd)
       PROVE  UserInv'
  <2>1. /\ UNCHANGED <<pc, list_task, tasks, open>> /\ view[fd] = "added"
        /\ view' = [view EXCEPT ![fd] = IF fd \in Watched THEN "deleted" ELSE "added"]
    BY <1>13 DEF DelEvent, See, Deleted
  <2>2. fd \notin Watched'
        /\ \A g \in Fds \ {fd} : g \in Watched' <=> g \in Watched
    BY <1>1, <1>13 DEF DelEvent, Erase, Watched
  <2>3. CASE fd \in Watched
    BY <1>1, <1>11, <2>1, <2>2, <2>3
  <2>4. CASE fd \notin Watched
    <3>1. event_map' = event_map /\ view' = view /\ Pending' = Pending
      BY <1>1, <1>13, <2>1, <2>4 DEF DelEvent, Erase, Watched, Pending
    <3>2. QED
      BY <1>2, <2>1, <3>1 DEF UserInv
  <2>5. QED
    BY <2>3, <2>4
<1>14. ASSUME NEW fd \in Fds, Close(fd) \/ Open(fd)
       PROVE  UserInv'
  <2>1. /\ UNCHANGED <<pc, tasks, event_map>> /\ Pending' = Pending
    BY <1>14 DEF Close, Open, Pending
  <2>2. view[fd] \in {"none", "deleted"} /\ ViewInv(fd)
    BY <1>1, <1>14 DEF Close, Open, UserInv, ViewInv
  <2>3. \A g \in Fds \ {fd} : view'[g] = view[g] /\ (g \in open' <=> g \in open)
    BY <1>1, <1>14 DEF Close, Open, See
  <2>4. view'[fd] \in {"none", "deleted"}
    BY <1>1, <1>14, <2>2 DEF Close, Open, See
  <2>5. \A g \in Fds : ViewInv(g)'
    BY <2>1, <2>2, <2>3, <2>4 DEF UserInv, ViewInv, Watched
  <2>6. ASSUME NEW i \in 1..Len(Pending)
        PROVE  (AddInv(i) /\ DelInv(i))'
    <3>1. AddInv(i) /\ DelInv(i) /\ Pending[i].fd \in Fds
      BY <1>1 DEF UserInv
    <3>2. CASE Pending[i].fd = fd
      BY <2>1, <2>2, <3>1, <3>2 DEF AddInv, DelInv
    <3>3. CASE Pending[i].fd # fd
      BY <2>1, <2>3, <3>1, <3>3 DEF AddInv, DelInv, Watched
    <3>4. QED
      BY <3>2, <3>3
  <2>7. QED
    BY <2>1, <2>5, <2>6 DEF UserInv, OrderInv
<1>15. CASE PipeEvent
  <2>1. tasks = <<>> /\ tasks' = list_task /\ list_task' = <<>>
        /\ UNCHANGED <<event_map, view, open>> /\ pc' = "tasks"
    BY <1>15 DEF PipeEvent, UserInv
  <2>2. Pending' = Pending
    BY <2>1, ConcatEmptySeq DEF Pending, TypeOK
  <2>3. QED
    BY <1>2, <2>1, <2>2
<1>16. ASSUME \/ Select \/ CallBackEnds \/ BatchEnds \/ TasksDone
              \/ \E r \in callback_list : CallBack(r)
              \/ \E fd \in Fds, kind \in Kinds : BecomeReady(fd, kind) \/ Consume(fd, kind)
              \/ \E fd \in Fds, interest \in SUBSET Kinds : ModifyEvent(fd, interest)
              \/ UNCHANGED vars
       PROVE  UserInv'
  <2>1. /\ UNCHANGED <<event_map, view, open, tasks, list_task>>
        /\ pc' = pc \/ pc # "tasks" \/ tasks = <<>>
    BY <1>16 DEF Select, CallBackEnds, BatchEnds, TasksDone, CallBack,
                 BecomeReady, Consume, ModifyEvent, vars
  <2>2. pc' # "tasks" => tasks' = <<>>
    BY <2>1 DEF UserInv
  <2>3. QED
    BY <1>2, <2>1, <2>2 DEF Pending
<1>17. QED
  BY <1>4, <1>5, <1>6, <1>8, <1>9, <1>10, <1>12, <1>13, <1>14, <1>15, <1>16
     DEF Next, User, Loop

(* If the user of a descriptor closes it only when the completion callback  *)
(* (or the value returned on the loop thread) has reported its deletion,    *)
(* select() never watches a closed descriptor.                              *)
THEOREM NothingClosedIsWatched ==
  ASSUME ~CloseEarly
  PROVE  SafetySpec => []WatchedOpen
<1>1. Init => UserInv
  BY ConcatEmptySeq DEF Init, UserInv, ViewInv, Pending, Watched
<1>2. TypeOK /\ UserInv /\ [Next]_vars => UserInv'
  BY UserStep
<1>3. TypeOK /\ UserInv => WatchedOpen
  BY DEF TypeOK, UserInv, ViewInv, WatchedOpen, Watched
<1>4. QED
  BY <1>1, <1>2, <1>3, TypeCorrect, PTL DEF SafetySpec

-----------------------------------------------------------------------------
(* The sockets that pollers watch, src/Network/sockutil.cpp (Sockets.tla):   *)
(* any threads, hosts, addresses and numbers of descriptors, with support of *)
(* IPv6 or without.                                                          *)
CONSTANTS Threads, Calls, Hosts, LocalIps, MaxFds, HasIPv6, expire_sec, MaxResolve,
          Adapters, Questions

VARIABLES flag, fds, dns_cache, call

Sock == INSTANCE Sockets

(* What Sockets.tla assumes of its constants. *)
SocketsUsed ==
    /\ Sock!Caller \notin Threads
    /\ expire_sec \in Nat /\ MaxResolve \in Nat /\ MaxFds \in Nat

Making == {"listen", "bindUdpSock"}
Ops == {"connect"} \cup Making
Holding == {"probe", "bind", "listen", "connect", "adapters"}
StoreRecord == [pc : {"store"}, host : Hosts, ip : LocalIps, old : 0..MaxResolve]
BindRecord == [pc : {"bind"}, op : Ops, ip : LocalIps, fd : 1..MaxFds]
Socket == [owner : Threads \cup {Sock!Caller}, family : Sock!Families, exposed : BOOLEAN]

(* What may be said of a call where it is, of its descriptor, and of the     *)
(* flag: a server's socket is of the family that the flag calls for.         *)
Right(r, fl, f) ==
    /\ r.pc \in {"idle", "resolve", "store", "socket", "told"} \cup Holding
    /\ r.pc = "resolve" => r.host \in Hosts /\ r.ip \in LocalIps
    /\ r.pc = "store" => r \in StoreRecord
    /\ r.pc = "probe" => fl = "probing" /\ r.op \in Making /\ r.ip \in LocalIps
    /\ r.pc = "socket" => /\ r.op \in Ops /\ r.ip \in LocalIps /\ r.family \in Sock!Families
                          /\ r.op # "connect" => /\ fl \in {"yes", "no"}
                                                 /\ r.family = Sock!FamilyFor(r.ip, fl)
    /\ r.pc = "bind" => /\ r \in BindRecord
                        /\ r.op # "connect" => /\ fl \in {"yes", "no"}
                                               /\ f[r.fd].family = Sock!FamilyFor(r.ip, fl)
    /\ r.pc \in Holding => "fd" \in DOMAIN r /\ r.fd \in DOMAIN f

(* The descriptors of calls in progress and the calls belong together; only  *)
(* one of them probes for IPv6.                                              *)
SocketsKept ==
    /\ flag \in {"unset", "probing", "yes", "no"}
    /\ DOMAIN fds \subseteq 1..MaxFds
    /\ \A fd \in DOMAIN fds : fds[fd] \in Socket
    /\ call = [t \in Threads |-> call[t]]
    /\ \A t \in Threads : Right(call[t], flag, fds)
    /\ \A t \in Threads : call[t].pc \in Holding => fds[call[t].fd].owner = t
    /\ \A fd \in DOMAIN fds : fds[fd].owner # Sock!Caller =>
          call[fds[fd].owner].pc \in Holding /\ call[fds[fd].owner].fd = fd
    /\ \A t, u \in Threads : call[t].pc = "probe" /\ call[u].pc = "probe" => t = u
    /\ \A fd \in DOMAIN fds : fds[fd].exposed => flag = "no"

(* socket() takes a descriptor that is free. *)
LEMMA LeastOf ==
  ASSUME NEW S \in SUBSET Nat, S # {}
  PROVE  \E n \in S : \A m \in S : n <= m
<1> DEFINE R == {ss \in Nat \X Nat : ss[1] < ss[2]}
<1>1. IsWellFoundedOn(R, Nat)
  BY NatLessThanWellFounded DEF OpToRel
<1>2. \A x, y \in Nat : y < x => <<y, x>> \in R
  <2> SUFFICES ASSUME NEW x \in Nat, NEW y \in Nat, y < x PROVE <<y, x>> \in R
    OBVIOUS
  <2>1. <<y, x>> \in Nat \X Nat /\ <<y, x>>[1] < <<y, x>>[2]
    OBVIOUS
  <2>2. QED
    BY <2>1
<1> HIDE DEF R
<1>3. PICK x \in S : \A y \in S : ~ (<<y, x>> \in R)
  BY <1>1, WFMin
<1>4. ASSUME NEW m \in S PROVE x <= m
  <2>1. x \in Nat /\ m \in Nat
    OBVIOUS
  <2>2. ~ (m < x)
    BY <1>2, <1>3, <2>1
  <2>3. QED
    BY <2>1, <2>2
<1>5. QED
  BY <1>4

LEMMA LowestFree ==
  ASSUME SocketsUsed, Sock!Free # {}
  PROVE  Sock!Lowest \in 1..MaxFds /\ Sock!Lowest \notin DOMAIN fds
<1>1. Sock!Free \in SUBSET Nat
  BY DEF SocketsUsed, Sock!Free
<1>2. \E fd \in Sock!Free : \A other \in Sock!Free : fd <= other
  BY <1>1, LeastOf
<1>3. Sock!Lowest \in Sock!Free
  BY <1>2 DEF Sock!Lowest
<1>4. QED
  BY <1>3 DEF Sock!Free

LEMMA Opened ==
  ASSUME SocketsUsed, SocketsKept, NEW t \in Threads, NEW family \in Sock!Families,
         Sock!Free # {}, Sock!Open(t, family)
  PROVE  /\ Sock!Lowest \in 1..MaxFds /\ Sock!Lowest \notin DOMAIN fds
         /\ DOMAIN fds' = DOMAIN fds \cup {Sock!Lowest}
         /\ DOMAIN fds' \subseteq 1..MaxFds
         /\ \A fd \in DOMAIN fds : fds'[fd] = fds[fd]
         /\ fds'[Sock!Lowest].owner = t /\ fds'[Sock!Lowest].family = family
         /\ fds'[Sock!Lowest].exposed = FALSE
         /\ \A fd \in DOMAIN fds' : fds'[fd] \in Socket
<1> DEFINE n == Sock!Lowest
           new == [owner |-> t, family |-> family, exposed |-> FALSE]
<1>1. n \in 1..MaxFds /\ n \notin DOMAIN fds
  BY LowestFree
<1>2. fds' = [fd \in DOMAIN fds \cup {n} |-> IF fd = n THEN new ELSE fds[fd]]
  BY DEF Sock!Open
<1>3. new \in Socket /\ new.owner = t /\ new.family = family /\ new.exposed = FALSE
  BY DEF Socket
<1> HIDE DEF n, new
<1>4. /\ DOMAIN fds' = DOMAIN fds \cup {n} /\ fds'[n] = new
      /\ \A fd \in DOMAIN fds : fds'[fd] = fds[fd]
  BY <1>1, <1>2
<1>5. QED
  BY <1>1, <1>3, <1>4 DEF SocketsKept, n

(* A thread moves from one place in its call to another: what has to be      *)
(* shown of its own new record and of the descriptors, the other threads'    *)
(* records and descriptors being left alone.                                 *)
LEMMA Moved ==
  ASSUME SocketsUsed, SocketsKept, NEW t \in Threads, NEW r, call' = [call EXCEPT ![t] = r],
         flag' \in {"unset", "probing", "yes", "no"},
         flag' = flag \/ flag = "unset" \/ (call[t].pc = "probe" /\ flag' = "yes"),
         DOMAIN fds' \subseteq 1..MaxFds, \A fd \in DOMAIN fds' : fds'[fd] \in Socket,
         Right(r, flag', fds'),
         r.pc = "probe" => flag = "unset",
         \A fd \in DOMAIN fds' : fds'[fd].owner = t <=> r.pc \in Holding /\ r.fd = fd,
         \A fd \in DOMAIN fds : fds[fd].owner \notin {t, Sock!Caller} =>
            fd \in DOMAIN fds' /\ fds'[fd].family = fds[fd].family /\ fds'[fd].owner = fds[fd].owner,
         \A fd \in DOMAIN fds' : fds'[fd].owner \notin {t, Sock!Caller} =>
            fd \in DOMAIN fds /\ fds[fd].owner = fds'[fd].owner,
         \A fd \in DOMAIN fds' : fds'[fd].exposed => flag' = "no"
  PROVE  SocketsKept'
<1>1. /\ call' = [u \in Threads |-> call'[u]] /\ call'[t] = r
      /\ \A u \in Threads : u # t => call'[u] = call[u]
  BY DEF SocketsKept
<1>2. ASSUME NEW u \in Threads, u # t, call[u].pc \in Holding
      PROVE  /\ call[u].fd \in DOMAIN fds /\ call[u].fd \in DOMAIN fds'
             /\ fds'[call[u].fd].owner = u
             /\ fds'[call[u].fd].family = fds[call[u].fd].family
  <2>1. call[u].fd \in DOMAIN fds /\ fds[call[u].fd].owner = u
    BY <1>2 DEF SocketsKept, Right
  <2>2. u # Sock!Caller
    BY DEF SocketsUsed
  <2>3. QED
    BY <1>2, <2>1, <2>2
<1>3. ASSUME NEW u \in Threads, u # t
      PROVE  Right(call[u], flag', fds')
  <2>1. Right(call[u], flag, fds)
    BY DEF SocketsKept
  <2>2. /\ call[u].pc = "probe" => flag' = "probing"
        /\ call[u].pc = "socket" /\ call[u].op # "connect" => flag' = flag
        /\ call[u].pc = "bind" /\ call[u].op # "connect" => flag' = flag
    BY <1>3, <2>1 DEF SocketsKept, Right
  <2>3. "bind" \in Holding
    BY DEF Holding
  <2>4. QED
    BY <1>2, <1>3, <2>1, <2>2, <2>3 DEF Right
<1>4. \A u \in Threads : Right(call'[u], flag', fds')
  BY <1>1, <1>3
<1>5. ASSUME NEW u \in Threads, call'[u].pc \in Holding
      PROVE  fds'[call'[u].fd].owner = u
  <2>1. CASE u = t
    BY <1>1, <1>5, <2>1 DEF Right
  <2>2. CASE u # t
    BY <1>1, <1>2, <1>5, <2>2
  <2>3. QED
    BY <2>1, <2>2
<1>6. ASSUME NEW fd \in DOMAIN fds', fds'[fd].owner # Sock!Caller
      PROVE  call'[fds'[fd].owner].pc \in Holding /\ call'[fds'[fd].owner].fd = fd
  <2>1. CASE fds'[fd].owner = t
    BY <1>1, <2>1
  <2>2. CASE fds'[fd].owner # t
    <3>1. fd \in DOMAIN fds /\ fds[fd].owner = fds'[fd].owner
      BY <1>6, <2>2
    <3>2. fds'[fd].owner \in Threads
      BY <1>6 DEF Socket
    <3>3. QED
      BY <1>1, <1>6, <2>2, <3>1, <3>2 DEF SocketsKept
  <2>3. QED
    BY <2>1, <2>2
<1>7. ASSUME NEW u \in Threads, NEW v \in Threads, call'[u].pc = "probe", call'[v].pc = "probe"
      PROVE  u = v
  <2>1. r.pc = "probe" => \A w \in Threads : call[w].pc # "probe"
    BY DEF SocketsKept, Right
  <2>2. QED
    BY <1>1, <1>7, <2>1 DEF SocketsKept
<1>8. QED
  BY <1>1, <1>4, <1>5, <1>6, <1>7 DEF SocketsKept

(* Nobody has the descriptor of a thread that holds none. *)
LEMMA Empty ==
  ASSUME SocketsUsed, SocketsKept, NEW t \in Threads, call[t].pc \notin Holding
  PROVE  \A fd \in DOMAIN fds : fds[fd].owner # t
BY DEF SocketsUsed, SocketsKept

LEMMA Own ==
  ASSUME SocketsUsed, SocketsKept, NEW t \in Threads, call[t].pc \in Holding
  PROVE  /\ call[t].fd \in DOMAIN fds /\ call[t].fd \in 1..MaxFds
         /\ fds[call[t].fd].owner = t /\ fds[call[t].fd] \in Socket
         /\ \A fd \in DOMAIN fds : fds[fd].owner = t => fd = call[t].fd
<1>1. call[t].fd \in DOMAIN fds
  BY DEF SocketsKept, Right
<1>2. t # Sock!Caller
  BY DEF SocketsUsed
<1>3. QED
  BY <1>1, <1>2 DEF SocketsKept

(* Without a descriptor before and after. *)
LEMMA MovedFree ==
  ASSUME SocketsUsed, SocketsKept, NEW t \in Threads, NEW r, call' = [call EXCEPT ![t] = r],
         call[t].pc \notin Holding, r.pc \notin Holding, fds' = fds,
         flag' \in {"unset", "probing", "yes", "no"}, flag' = flag \/ (flag = "unset" /\ flag' = "no"),
         Right(r, flag', fds)
  PROVE  SocketsKept'
<1>1. \A fd \in DOMAIN fds : fds[fd].owner # t
  BY Empty
<1>2. \A fd \in DOMAIN fds' : fds'[fd].exposed => flag' = "no"
  BY DEF SocketsKept
<1>3. DOMAIN fds' \subseteq 1..MaxFds /\ \A fd \in DOMAIN fds' : fds'[fd] \in Socket
  BY DEF SocketsKept
<1>4. r.pc # "probe"
  BY DEF Holding
<1>5. Right(r, flag', fds')
  OBVIOUS
<1>6. QED
  BY <1>1, <1>2, <1>3, <1>4, <1>5, Moved

(* The call closes its descriptor and has none then. *)
LEMMA MovedClosed ==
  ASSUME SocketsUsed, SocketsKept, NEW t \in Threads, NEW r, call' = [call EXCEPT ![t] = r],
         call[t].pc \in Holding, r.pc \notin Holding, Sock!Close(call[t].fd),
         flag' = flag \/ (call[t].pc = "probe" /\ flag' = "yes"),
         Right(r, flag', fds')
  PROVE  SocketsKept'
<1> DEFINE n == call[t].fd
<1>1. n \in DOMAIN fds /\ fds[n].owner = t /\ \A fd \in DOMAIN fds : fds[fd].owner = t => fd = n
  BY Own
<1>2. fds' = [fd \in DOMAIN fds \ {n} |-> fds[fd]]
  BY DEF Sock!Close, Sock!Restrict
<1> HIDE DEF n
<1>3. DOMAIN fds' = DOMAIN fds \ {n} /\ \A fd \in DOMAIN fds' : fds'[fd] = fds[fd]
  BY <1>2
<1>4. flag' \in {"unset", "probing", "yes", "no"}
  BY DEF SocketsKept
<1>5. \A fd \in DOMAIN fds' : fds'[fd].exposed => flag' = "no"
  <2>1. call[t].pc = "probe" => flag = "probing"
    BY DEF SocketsKept, Right
  <2>2. QED
    BY <1>3, <2>1 DEF SocketsKept
<1>6. DOMAIN fds' \subseteq 1..MaxFds /\ \A fd \in DOMAIN fds' : fds'[fd] \in Socket
  BY <1>3 DEF SocketsKept
<1>7. r.pc # "probe"
  BY DEF Holding
<1>8. \A fd \in DOMAIN fds' : fds'[fd].owner # t
  BY <1>1, <1>3
<1>9. \A fd \in DOMAIN fds : fds[fd].owner # t => fd \in DOMAIN fds'
  BY <1>1, <1>3
<1>10. QED
  BY <1>3, <1>4, <1>5, <1>6, <1>7, <1>8, <1>9, Moved

(* The call goes on with its descriptor, or gives it to the caller. *)
LEMMA MovedOn ==
  ASSUME SocketsUsed, SocketsKept, NEW t \in Threads, NEW r, call' = [call EXCEPT ![t] = r],
         call[t].pc \in Holding, NEW s \in Socket, fds' = [fds EXCEPT ![call[t].fd] = s],
         \/ r.pc \in Holding \ {"probe"} /\ r.fd = call[t].fd /\ s.owner = t
         \/ r.pc \notin Holding /\ s.owner = Sock!Caller,
         s.exposed => flag = "no", flag' = flag,
         Right(r, flag, fds')
  PROVE  SocketsKept'
<1> DEFINE n == call[t].fd
<1>1. n \in DOMAIN fds /\ fds[n].owner = t /\ \A fd \in DOMAIN fds : fds[fd].owner = t => fd = n
  BY Own
<1>2. /\ DOMAIN fds' = DOMAIN fds /\ fds'[n] = s
      /\ \A fd \in DOMAIN fds : fd # n => fds'[fd] = fds[fd]
  BY <1>1
<1> HIDE DEF n
<1>3. flag' \in {"unset", "probing", "yes", "no"}
  BY DEF SocketsKept
<1>4. \A fd \in DOMAIN fds' : fds'[fd].exposed => flag' = "no"
  BY <1>2 DEF SocketsKept
<1>5. DOMAIN fds' \subseteq 1..MaxFds /\ \A fd \in DOMAIN fds' : fds'[fd] \in Socket
  BY <1>2 DEF SocketsKept
<1>6. r.pc # "probe"
  BY DEF Holding
<1>7. t # Sock!Caller
  BY DEF SocketsUsed
<1>8. \A fd \in DOMAIN fds' : fds'[fd].owner = t <=> r.pc \in Holding /\ r.fd = fd
  BY <1>1, <1>2, <1>7 DEF n
<1>9. \A fd \in DOMAIN fds : fds[fd].owner \notin {t, Sock!Caller} =>
         fd \in DOMAIN fds' /\ fds'[fd].family = fds[fd].family /\ fds'[fd].owner = fds[fd].owner
  BY <1>1, <1>2
<1>10. \A fd \in DOMAIN fds' : fds'[fd].owner \notin {t, Sock!Caller} =>
          fd \in DOMAIN fds /\ fds[fd].owner = fds'[fd].owner
  BY <1>1, <1>2
<1>11. Right(r, flag', fds')
  OBVIOUS
<1>12. QED
  BY <1>3, <1>4, <1>5, <1>6, <1>8, <1>9, <1>10, <1>11, Moved

(* A descriptor is opened. *)
LEMMA MovedOpen ==
  ASSUME SocketsUsed, SocketsKept, NEW t \in Threads, NEW r, call' = [call EXCEPT ![t] = r],
         call[t].pc \notin Holding, Sock!Free # {}, NEW family \in Sock!Families,
         Sock!Open(t, family), r.pc \in Holding, r.fd = Sock!Lowest,
         \/ flag' = flag /\ r.pc # "probe"
         \/ flag = "unset" /\ flag' = "probing",
         Right(r, flag', fds')
  PROVE  SocketsKept'
<1> DEFINE n == Sock!Lowest
<1>1. /\ n \notin DOMAIN fds /\ DOMAIN fds' = DOMAIN fds \cup {n} /\ DOMAIN fds' \subseteq 1..MaxFds
      /\ \A fd \in DOMAIN fds : fds'[fd] = fds[fd]
      /\ fds'[n].owner = t /\ fds'[n].exposed = FALSE
      /\ \A fd \in DOMAIN fds' : fds'[fd] \in Socket
  BY Opened
<1> HIDE DEF n
<1>2. \A fd \in DOMAIN fds : fds[fd].owner # t
  BY Empty
<1>3. flag' \in {"unset", "probing", "yes", "no"}
  BY DEF SocketsKept
<1>4. \A fd \in DOMAIN fds' : fds'[fd].exposed => flag' = "no"
  BY <1>1 DEF SocketsKept
<1>5. \A fd \in DOMAIN fds' : fds'[fd].owner = t <=> r.pc \in Holding /\ r.fd = fd
  BY <1>1, <1>2 DEF n
<1>6. \A fd \in DOMAIN fds : fds[fd].owner \notin {t, Sock!Caller} =>
         fd \in DOMAIN fds' /\ fds'[fd].family = fds[fd].family /\ fds'[fd].owner = fds[fd].owner
  BY <1>1
<1>7. \A fd \in DOMAIN fds' : fds'[fd].owner \notin {t, Sock!Caller} =>
         fd \in DOMAIN fds /\ fds[fd].owner = fds'[fd].owner
  BY <1>1
<1>8. r.pc = "probe" => flag = "unset"
  OBVIOUS
<1>9. flag' = flag \/ flag = "unset" \/ (call[t].pc = "probe" /\ flag' = "yes")
  OBVIOUS
<1>10. DOMAIN fds' \subseteq 1..MaxFds /\ \A fd \in DOMAIN fds' : fds'[fd] \in Socket
  BY <1>1
<1>11. Right(r, flag', fds')
  OBVIOUS
<1>12. QED
  BY <1>3, <1>4, <1>5, <1>6, <1>7, <1>8, <1>9, <1>10, <1>11, Moved

LEMMA AnswerRight ==
  ASSUME NEW t \in Threads, NEW request, request.ip \in LocalIps, NEW served,
         Sock!Answer(t, request, served)
  PROVE  \E r : /\ call' = [call EXCEPT ![t] = r] /\ r.pc = "socket" /\ r.op = "connect"
                /\ r.served = served /\ Right(r, flag, fds)
<1>1. PICK family \in Sock!Families :
         call' = [call EXCEPT ![t] = [pc |-> "socket", op |-> "connect", ip |-> request.ip,
                                      family |-> family, served |-> served]]
  BY DEF Sock!Answer, Sock!Set
<1> DEFINE r == [pc |-> "socket", op |-> "connect", ip |-> request.ip,
                 family |-> family, served |-> served]
<1>2. r.pc = "socket" /\ r.op = "connect" /\ r.served = served
      /\ r.ip = request.ip /\ r.family = family
  OBVIOUS
<1> HIDE DEF r
<1>3. Right(r, flag, fds)
  BY <1>2 DEF Right, Ops, Holding
<1>4. QED
  BY <1>1, <1>2, <1>3 DEF r

LEMMA IdleRight ==
  ASSUME NEW fl, NEW f
  PROVE  Right(Sock!Idle, fl, f) /\ Sock!Idle.pc \notin Holding
BY DEF Right, Sock!Idle, Holding

LEMMA Hang ==
  ASSUME SocketsUsed, SocketsKept, NEW t \in Threads, Sock!Set(t, Sock!Idle)
  PROVE  /\ call[t].pc \notin Holding /\ UNCHANGED <<flag, fds>> => SocketsKept'
         /\ call[t].pc \in Holding /\ Sock!Close(call[t].fd) /\ UNCHANGED flag => SocketsKept'
<1>1. call' = [call EXCEPT ![t] = Sock!Idle]
  BY DEF Sock!Set
<1>2. flag \in {"unset", "probing", "yes", "no"}
  BY DEF SocketsKept
<1>3. ASSUME call[t].pc \notin Holding, UNCHANGED <<flag, fds>>
      PROVE  SocketsKept'
  BY <1>1, <1>2, <1>3, IdleRight, MovedFree
<1>4. ASSUME call[t].pc \in Holding, Sock!Close(call[t].fd), UNCHANGED flag
      PROVE  SocketsKept'
  BY <1>1, <1>2, <1>4, IdleRight, MovedClosed
<1>5. QED
  BY <1>3, <1>4

(* The calls up to socket(). *)
LEMMA NamesStep ==
  ASSUME SocketsUsed, SocketsKept, NEW t \in Threads
  PROVE  /\ \A ip \in LocalIps : Sock!ConnectTo(t, ip) => SocketsKept'
         /\ \A h \in Hosts, ip \in LocalIps : Sock!Lookup(t, h, ip) => SocketsKept'
         /\ Sock!Resolve(t) => SocketsKept'
         /\ Sock!Store(t) => SocketsKept'
<1>0. flag \in {"unset", "probing", "yes", "no"}
  BY DEF SocketsKept
<1>a. ASSUME NEW request, request.ip \in LocalIps, NEW served, Sock!Answer(t, request, served),
             call[t].pc \notin Holding, UNCHANGED <<flag, fds>>
      PROVE  SocketsKept'
  <2>1. PICK r : call' = [call EXCEPT ![t] = r] /\ r.pc = "socket" /\ Right(r, flag, fds)
    BY <1>a, AnswerRight
  <2>2. r.pc \notin Holding /\ Right(r, flag', fds)
    BY <1>a, <2>1 DEF Holding
  <2>3. QED
    BY <1>0, <1>a, <2>1, <2>2, MovedFree
<1>1. ASSUME NEW ip \in LocalIps, Sock!ConnectTo(t, ip)
      PROVE  SocketsKept'
  <2>1. [ip |-> ip].ip = ip
    OBVIOUS
  <2>2. Sock!Answer(t, [ip |-> ip], 0) /\ UNCHANGED <<flag, fds>> /\ call[t].pc \notin Holding
    BY <1>1 DEF Sock!ConnectTo, Holding
  <2>3. QED
    BY <1>a, <2>1, <2>2
<1>2. ASSUME NEW h \in Hosts, NEW ip \in LocalIps, Sock!Lookup(t, h, ip)
      PROVE  SocketsKept'
  <2> DEFINE request == [pc |-> "resolve", host |-> h, ip |-> ip]
  <2>1. request.ip = ip /\ request.pc = "resolve" /\ request.host = h
    OBVIOUS
  <2> HIDE DEF request
  <2>2. UNCHANGED <<flag, fds>> /\ call[t].pc \notin Holding
    BY <1>2 DEF Sock!Lookup, Holding
  <2>3. \/ Sock!Answer(t, request, dns_cache[h].old)
        \/ call' = [call EXCEPT ![t] = request]
    BY <1>2 DEF Sock!Lookup, Sock!Set, request
  <2>4. CASE Sock!Answer(t, request, dns_cache[h].old)
    BY <1>a, <2>1, <2>2, <2>4
  <2>5. CASE call' = [call EXCEPT ![t] = request]
    <3>1. Right(request, flag', fds) /\ request.pc \notin Holding
      BY <2>1 DEF Right, Holding
    <3>2. QED
      BY <1>0, <2>2, <2>5, <3>1, MovedFree
  <2>6. QED
    BY <2>3, <2>4, <2>5
<1>3. ASSUME Sock!Resolve(t)
      PROVE  SocketsKept'
  <2>1. call[t].pc = "resolve" /\ UNCHANGED <<flag, fds>> /\ call[t].pc \notin Holding
    BY <1>3 DEF Sock!Resolve, Holding
  <2> DEFINE r == [pc |-> "store", host |-> call[t].host, ip |-> call[t].ip, old |-> 0]
  <2>2. \/ call' = [call EXCEPT ![t] = r]
        \/ Sock!Set(t, Sock!Idle)
    BY <1>3 DEF Sock!Resolve
  <2>3. r.pc = "store" /\ r.pc \notin Holding
    BY DEF Holding
  <2>4. r \in StoreRecord
    <3>1. call[t].host \in Hosts /\ call[t].ip \in LocalIps
      BY <2>1 DEF SocketsKept, Right
    <3>2. 0 \in 0..MaxResolve
      BY DEF SocketsUsed
    <3>3. QED
      BY <3>1, <3>2 DEF StoreRecord
  <2> HIDE DEF r
  <2>5. Right(r, flag', fds)
    BY <2>3, <2>4 DEF Right, Holding
  <2>6. CASE call' = [call EXCEPT ![t] = r]
    BY <1>0, <2>1, <2>3, <2>5, <2>6, MovedFree
  <2>7. CASE Sock!Set(t, Sock!Idle)
    BY <2>1, <2>7, Hang
  <2>8. QED
    BY <2>2, <2>6, <2>7
<1>4. ASSUME Sock!Store(t)
      PROVE  SocketsKept'
  <2>1. /\ call[t].pc = "store" /\ UNCHANGED <<flag, fds>> /\ call[t].pc \notin Holding
        /\ Sock!Answer(t, call[t], call[t].old)
    BY <1>4 DEF Sock!Store, Holding
  <2>2. call[t].ip \in LocalIps
    BY <2>1 DEF SocketsKept, Right, StoreRecord
  <2>3. QED
    BY <1>a, <2>1, <2>2
<1>5. QED
  BY <1>1, <1>2, <1>3, <1>4

(* support_ipv6, and the system calls of connect, listen and bindUdpSock. *)
LEMMA MakeStep ==
  ASSUME SocketsUsed, SocketsKept, NEW t \in Threads, NEW op \in Making, NEW ip \in LocalIps,
         Sock!Make(t, op, ip)
  PROVE  SocketsKept'
<1> DEFINE asks == [pc |-> "probe", op |-> op, ip |-> ip, fd |-> Sock!Lowest]
           goes(support) == [pc |-> "socket", op |-> op, ip |-> ip, family |-> Sock!FamilyFor(ip, support)]
<1>1. call[t].pc = "idle" /\ flag # "probing" /\ call[t].pc \notin Holding
      /\ flag \in {"unset", "probing", "yes", "no"}
  BY DEF Sock!Make, SocketsKept, Holding
<1>2. \/ /\ Sock!Free # {} /\ Sock!Open(t, "AF_INET6") /\ flag = "unset" /\ flag' = "probing"
         /\ call' = [call EXCEPT ![t] = asks]
      \/ /\ flag = "unset" /\ flag' = "no" /\ fds' = fds
         /\ call' = [call EXCEPT ![t] = goes("no")]
      \/ /\ flag \in {"yes", "no"} /\ flag' = flag /\ fds' = fds
         /\ call' = [call EXCEPT ![t] = goes(flag)]
  BY <1>1 DEF Sock!Make, Sock!Set
<1>3. ASSUME NEW fl \in {"yes", "no"}
      PROVE  Right(goes(fl), fl, fds) /\ goes(fl).pc \notin Holding
  BY <1>3 DEF Right, Holding, Ops, Sock!FamilyFor, Sock!Families
<1>4. CASE /\ Sock!Free # {} /\ Sock!Open(t, "AF_INET6") /\ flag = "unset" /\ flag' = "probing"
           /\ call' = [call EXCEPT ![t] = asks]
  <2>1. asks.pc = "probe" /\ asks.fd = Sock!Lowest /\ asks.op = op /\ asks.ip = ip /\ "fd" \in DOMAIN asks
    OBVIOUS
  <2>2. "AF_INET6" \in Sock!Families /\ "probe" \in Holding
    BY DEF Sock!Families, Holding
  <2>3. Sock!Lowest \in DOMAIN fds'
    BY <1>4, <2>2, Opened
  <2> HIDE DEF asks
  <2>4. Right(asks, flag', fds')
    BY <1>4, <2>1, <2>2, <2>3 DEF Right
  <2>5. QED
    BY <1>1, <1>4, <2>1, <2>2, <2>4, MovedOpen
<1>5. CASE /\ flag = "unset" /\ flag' = "no" /\ fds' = fds
           /\ call' = [call EXCEPT ![t] = goes("no")]
  <2>1. Right(goes("no"), flag', fds) /\ goes("no").pc \notin Holding
    BY <1>3, <1>5
  <2> HIDE DEF goes
  <2>2. QED
    BY <1>1, <1>5, <2>1, MovedFree
<1>6. CASE /\ flag \in {"yes", "no"} /\ flag' = flag /\ fds' = fds
           /\ call' = [call EXCEPT ![t] = goes(flag)]
  <2>1. Right(goes(flag), flag', fds) /\ goes(flag).pc \notin Holding
    BY <1>3, <1>6
  <2> HIDE DEF goes
  <2>2. QED
    BY <1>1, <1>6, <2>1, MovedFree
<1>7. QED
  BY <1>2, <1>4, <1>5, <1>6

LEMMA ProbedStep ==
  ASSUME SocketsUsed, SocketsKept, NEW t \in Threads, Sock!Probed(t)
  PROVE  SocketsKept'
<1> DEFINE r == [pc |-> "socket", op |-> call[t].op, ip |-> call[t].ip,
                 family |-> Sock!FamilyFor(call[t].ip, "yes")]
<1>1. /\ call[t].pc = "probe" /\ Sock!Close(call[t].fd) /\ flag' = "yes"
      /\ call' = [call EXCEPT ![t] = r] /\ call[t].pc \in Holding
  BY DEF Sock!Probed, Sock!Set, Holding
<1>2. call[t].op \in Making /\ call[t].ip \in LocalIps
  BY <1>1 DEF SocketsKept, Right
<1>3. /\ r.pc = "socket" /\ r.op = call[t].op /\ r.ip = call[t].ip
      /\ r.family = Sock!FamilyFor(call[t].ip, "yes") /\ r.family \in Sock!Families
  BY DEF Sock!FamilyFor, Sock!Families
<1> HIDE DEF r
<1>4. Right(r, flag', fds') /\ r.pc \notin Holding
  BY <1>1, <1>2, <1>3 DEF Right, Ops, Holding
<1>5. QED
  BY <1>1, <1>4, MovedClosed

LEMMA SocketStep ==
  ASSUME SocketsUsed, SocketsKept, NEW t \in Threads, Sock!Socket(t)
  PROVE  SocketsKept'
<1> DEFINE r == [pc |-> "bind", op |-> call[t].op, ip |-> call[t].ip, fd |-> Sock!Lowest]
<1>1. call[t].pc = "socket" /\ call[t].pc \notin Holding /\ flag' = flag
  BY DEF Sock!Socket, Holding
<1>2. /\ call[t].op \in Ops /\ call[t].ip \in LocalIps /\ call[t].family \in Sock!Families
      /\ call[t].op # "connect" => /\ flag \in {"yes", "no"}
                                   /\ call[t].family = Sock!FamilyFor(call[t].ip, flag)
  BY <1>1 DEF SocketsKept, Right
<1>3. \/ Sock!Free # {} /\ Sock!Open(t, call[t].family) /\ call' = [call EXCEPT ![t] = r]
      \/ Sock!Set(t, Sock!Idle) /\ fds' = fds
  BY DEF Sock!Socket, Sock!Set
<1>4. CASE Sock!Free # {} /\ Sock!Open(t, call[t].family) /\ call' = [call EXCEPT ![t] = r]
  <2>1. /\ Sock!Lowest \in 1..MaxFds /\ Sock!Lowest \in DOMAIN fds'
        /\ fds'[Sock!Lowest].family = call[t].family
    BY <1>2, <1>4, Opened
  <2>2. /\ r \in BindRecord /\ r.pc = "bind" /\ r.fd = Sock!Lowest /\ "fd" \in DOMAIN r
        /\ r.op = call[t].op /\ r.ip = call[t].ip
    BY <1>2, <2>1 DEF BindRecord
  <2> HIDE DEF r
  <2>3. Right(r, flag', fds')
    BY <1>1, <1>2, <2>1, <2>2 DEF Right, Holding
  <2>4. r.pc \in Holding /\ r.pc # "probe"
    BY <2>2 DEF Holding
  <2>5. QED
    BY <1>1, <1>2, <1>4, <2>2, <2>3, <2>4, MovedOpen
<1>5. CASE Sock!Set(t, Sock!Idle) /\ fds' = fds
  BY <1>1, <1>5, Hang
<1>6. QED
  BY <1>3, <1>4, <1>5

LEMMA BindStep ==
  ASSUME SocketsUsed, SocketsKept, NEW t \in Threads, Sock!Bind(t)
  PROVE  SocketsKept'
<1> DEFINE fd == call[t].fd
           op == call[t].op
           exposed == op # "connect" /\ Sock!Exposed(call[t].ip, fds[fd].family)
           bound == [fds EXCEPT ![fd].exposed = exposed]
           s == [fds[fd] EXCEPT !.exposed = exposed]
           given == [s EXCEPT !.owner = Sock!Caller]
           r == [call[t] EXCEPT !.pc = op]
<1>1. call[t].pc = "bind" /\ call[t].pc \in Holding /\ flag' = flag
  BY DEF Sock!Bind, Holding
<1>2. /\ fd \in DOMAIN fds /\ fd \in 1..MaxFds /\ fds[fd].owner = t /\ fds[fd] \in Socket
  BY <1>1, Own
<1>3. /\ call[t] \in BindRecord /\ op \in Ops
      /\ op # "connect" => /\ flag \in {"yes", "no"}
                           /\ fds[fd].family = Sock!FamilyFor(call[t].ip, flag)
  BY <1>1 DEF SocketsKept, Right, BindRecord
<1>4. exposed \in BOOLEAN /\ (exposed => flag = "no")
  BY <1>3 DEF Sock!Exposed, Sock!FamilyFor
<1>5. \/ Sock!Close(fd) /\ Sock!Set(t, Sock!Idle)
      \/ op # "bindUdpSock" /\ fds' = bound /\ call' = [call EXCEPT ![t].pc = op]
      \/ op = "bindUdpSock" /\ fds' = [bound EXCEPT ![fd].owner = Sock!Caller] /\ Sock!Set(t, Sock!Idle)
  BY DEF Sock!Bind
<1>6. bound = [fds EXCEPT ![fd] = s] /\ [bound EXCEPT ![fd].owner = Sock!Caller] = [fds EXCEPT ![fd] = given]
  BY <1>2
<1> HIDE DEF exposed
<1>7. /\ s \in Socket /\ s.owner = t /\ s.exposed = exposed
      /\ given \in Socket /\ given.owner = Sock!Caller /\ given.exposed = exposed
  BY <1>2, <1>4 DEF Socket
<1> HIDE DEF s, given, bound
<1>8. CASE Sock!Close(fd) /\ Sock!Set(t, Sock!Idle)
  BY <1>1, <1>8, Hang
<1>9. CASE op # "bindUdpSock" /\ fds' = bound /\ call' = [call EXCEPT ![t].pc = op]
  <2>1. call' = [call EXCEPT ![t] = r]
    BY <1>9
  <2>2. r.pc = op /\ op \in {"connect", "listen"} /\ r.fd = fd /\ "fd" \in DOMAIN r
    BY <1>3, <1>9 DEF BindRecord, Ops, Making
  <2>3. fds' = [fds EXCEPT ![fd] = s] /\ fd \in DOMAIN fds'
    BY <1>2, <1>6, <1>9
  <2> HIDE DEF r, op, fd
  <2>4. Right(r, flag, fds') /\ r.pc \in Holding \ {"probe"}
    BY <2>2, <2>3 DEF Right, Holding
  <2>5. QED
    BY <1>1, <1>4, <1>7, <2>1, <2>2, <2>3, <2>4, MovedOn DEF fd
<1>10. CASE op = "bindUdpSock" /\ fds' = [bound EXCEPT ![fd].owner = Sock!Caller] /\ Sock!Set(t, Sock!Idle)
  <2>1. call' = [call EXCEPT ![t] = Sock!Idle] /\ fds' = [fds EXCEPT ![fd] = given]
    BY <1>6, <1>10 DEF Sock!Set
  <2>2. QED
    BY <1>1, <1>4, <1>7, <2>1, IdleRight, MovedOn
<1>11. QED
  BY <1>5, <1>8, <1>9, <1>10

LEMMA LastStep ==
  ASSUME SocketsUsed, SocketsKept, NEW t \in Threads, Sock!Listen(t) \/ Sock!Connect(t)
  PROVE  SocketsKept'
<1>1. call[t].pc \in Holding /\ flag' = flag
  BY DEF Sock!Listen, Sock!Connect, Holding
<1>2. \/ Sock!Give(t, call[t].fd)
      \/ Sock!Close(call[t].fd) /\ Sock!Set(t, Sock!Idle)
  BY DEF Sock!Listen, Sock!Connect
<1>3. CASE Sock!Give(t, call[t].fd)
  <2> DEFINE s == [fds[call[t].fd] EXCEPT !.owner = Sock!Caller]
  <2>1. fds[call[t].fd] \in Socket /\ call[t].fd \in DOMAIN fds
    BY <1>1, Own
  <2>2. s \in Socket /\ s.owner = Sock!Caller /\ s.exposed = fds[call[t].fd].exposed
    BY <2>1 DEF Socket
  <2>3. fds' = [fds EXCEPT ![call[t].fd] = s] /\ call' = [call EXCEPT ![t] = Sock!Idle]
    BY <1>3 DEF Sock!Give, Sock!Set
  <2>4. s.exposed => flag = "no"
    BY <2>1, <2>2 DEF SocketsKept
  <2> HIDE DEF s
  <2>5. QED
    BY <1>1, <2>2, <2>3, <2>4, IdleRight, MovedOn
<1>4. CASE Sock!Close(call[t].fd) /\ Sock!Set(t, Sock!Idle)
  BY <1>1, <1>4, Hang
<1>5. QED
  BY <1>2, <1>3, <1>4

(* The questions about network adapters. *)
LEMMA AdaptersStep ==
  ASSUME SocketsUsed, SocketsKept, NEW t \in Threads
  PROVE  /\ \A question \in Questions : Sock!AskAdapters(t, question) => SocketsKept'
         /\ Sock!Told(t) => SocketsKept'
         /\ Sock!Done(t) => SocketsKept'
<1>0. flag \in {"unset", "probing", "yes", "no"}
  BY DEF SocketsKept
<1>1. ASSUME NEW question \in Questions, Sock!AskAdapters(t, question)
      PROVE  SocketsKept'
  <2> DEFINE r == [pc |-> "adapters", question |-> question, fd |-> Sock!Lowest]
             told == [pc |-> "told", question |-> question, adapters |-> <<>>,
                      reply |-> Sock!Reply(question, <<>>)]
  <2>1. call[t].pc \notin Holding /\ flag' = flag
    BY <1>1 DEF Sock!AskAdapters, Holding
  <2>2. \/ Sock!Free # {} /\ Sock!Open(t, "AF_INET") /\ call' = [call EXCEPT ![t] = r]
        \/ call' = [call EXCEPT ![t] = told] /\ fds' = fds
    BY <1>1 DEF Sock!AskAdapters, Sock!Set
  <2>3. CASE Sock!Free # {} /\ Sock!Open(t, "AF_INET") /\ call' = [call EXCEPT ![t] = r]
    <3>1. "AF_INET" \in Sock!Families
      BY DEF Sock!Families
    <3>2. Sock!Lowest \in DOMAIN fds'
      BY <2>3, <3>1, Opened
    <3>3. r.pc = "adapters" /\ r.fd = Sock!Lowest /\ "fd" \in DOMAIN r
      OBVIOUS
    <3> HIDE DEF r
    <3>4. Right(r, flag', fds') /\ r.pc \in Holding /\ r.pc # "probe"
      BY <3>2, <3>3 DEF Right, Holding
    <3>5. QED
      BY <2>1, <2>3, <3>1, <3>3, <3>4, MovedOpen
  <2>4. CASE call' = [call EXCEPT ![t] = told] /\ fds' = fds
    <3>1. told.pc = "told"
      OBVIOUS
    <3> HIDE DEF told
    <3>2. Right(told, flag', fds) /\ told.pc \notin Holding
      BY <3>1 DEF Right, Holding
    <3>3. QED
      BY <1>0, <2>1, <2>4, <3>2, MovedFree
  <2>5. QED
    BY <2>2, <2>3, <2>4
<1>2. ASSUME Sock!Told(t)
      PROVE  SocketsKept'
  <2>1. PICK adapters \in Adapters \cup {<<>>} :
           call' = [call EXCEPT ![t] = [pc |-> "told", question |-> call[t].question,
                                        adapters |-> adapters,
                                        reply |-> Sock!Reply(call[t].question, adapters)]]
    BY <1>2 DEF Sock!Told, Sock!Set
  <2> DEFINE told == [pc |-> "told", question |-> call[t].question, adapters |-> adapters,
                      reply |-> Sock!Reply(call[t].question, adapters)]
  <2>2. told.pc = "told"
    OBVIOUS
  <2>3. call[t].pc \in Holding /\ flag' = flag /\ Sock!Close(call[t].fd)
        /\ call' = [call EXCEPT ![t] = told]
    BY <1>2, <2>1 DEF Sock!Told, Holding
  <2> HIDE DEF told
  <2>4. Right(told, flag', fds') /\ told.pc \notin Holding
    BY <2>2 DEF Right, Holding
  <2>5. QED
    BY <2>3, <2>4, MovedClosed
<1>3. ASSUME Sock!Done(t)
      PROVE  SocketsKept'
  <2>1. call[t].pc \notin Holding /\ UNCHANGED <<flag, fds>> /\ Sock!Set(t, Sock!Idle)
    BY <1>3 DEF Sock!Done, Holding
  <2>2. QED
    BY <2>1, Hang
<1>4. QED
  BY <1>1, <1>2, <1>3

LEMMA CloseGivenStep ==
  ASSUME SocketsUsed, SocketsKept, NEW fd \in DOMAIN fds, Sock!CloseGiven(fd)
  PROVE  SocketsKept'
<1>1. fds[fd].owner = Sock!Caller /\ UNCHANGED <<flag, call>>
      /\ fds' = [n \in DOMAIN fds \ {fd} |-> fds[n]]
  BY DEF Sock!CloseGiven, Sock!Close, Sock!Restrict
<1>2. DOMAIN fds' = DOMAIN fds \ {fd} /\ \A n \in DOMAIN fds' : fds'[n] = fds[n]
  BY <1>1
<1>3. ASSUME NEW t \in Threads, call[t].pc \in Holding
      PROVE  call[t].fd \in DOMAIN fds' /\ fds'[call[t].fd] = fds[call[t].fd]
             /\ fds[call[t].fd].owner = t
  <2>1. call[t].fd \in DOMAIN fds /\ fds[call[t].fd].owner = t
    BY <1>3, Own
  <2>2. t # Sock!Caller
    BY DEF SocketsUsed
  <2>3. QED
    BY <1>1, <1>2, <2>1, <2>2
<1>4. ASSUME NEW t \in Threads
      PROVE  Right(call[t], flag, fds')
  <2>1. "bind" \in Holding /\ Right(call[t], flag, fds)
    BY DEF Holding, SocketsKept
  <2>2. QED
    BY <1>3, <2>1 DEF Right
<1>5. /\ DOMAIN fds' \subseteq 1..MaxFds
      /\ \A n \in DOMAIN fds' : fds'[n] \in Socket /\ (fds'[n].exposed => flag = "no")
  BY <1>2 DEF SocketsKept
<1>6. \A n \in DOMAIN fds' : fds'[n].owner # Sock!Caller =>
         call[fds'[n].owner].pc \in Holding /\ call[fds'[n].owner].fd = n
  BY <1>2 DEF SocketsKept
<1>7. \A t \in Threads : call[t].pc \in Holding => fds'[call[t].fd].owner = t
  BY <1>3
<1>8. UNCHANGED <<flag, call>>
  BY <1>1
<1>9. QED
  BY <1>4, <1>5, <1>6, <1>7, <1>8 DEF SocketsKept

LEMMA TickStep ==
  ASSUME SocketsUsed, SocketsKept, Sock!Tick
  PROVE  SocketsKept'
<1>1. /\ UNCHANGED <<flag, fds>>
      /\ call' = [t \in Threads |-> IF call[t].pc = "store" THEN [call[t] EXCEPT !.old = @ + 1]
                                    ELSE call[t]]
      /\ \A t \in Threads : call[t].pc = "store" => call[t].old < MaxResolve
  BY DEF Sock!Tick
<1>2. ASSUME NEW t \in Threads
      PROVE  /\ call'[t].pc = call[t].pc
             /\ call[t].pc # "store" => call'[t] = call[t]
             /\ Right(call'[t], flag, fds)
  <2>1. Right(call[t], flag, fds)
    BY DEF SocketsKept
  <2>2. CASE call[t].pc = "store"
    <3> DEFINE r == [call[t] EXCEPT !.old = @ + 1]
    <3>1. call[t] \in StoreRecord /\ call[t].old < MaxResolve
      BY <1>1, <2>1, <2>2 DEF Right
    <3>2. call[t].old + 1 \in 0..MaxResolve
      BY <3>1 DEF StoreRecord, SocketsUsed
    <3>3. r \in StoreRecord /\ r.pc = "store"
      BY <3>1, <3>2 DEF StoreRecord
    <3>4. call'[t] = r
      BY <1>1, <2>2
    <3> HIDE DEF r
    <3>5. Right(r, flag, fds)
      BY <3>3 DEF Right, Holding
    <3>6. QED
      BY <2>2, <3>3, <3>4, <3>5
  <2>3. CASE call[t].pc # "store"
    BY <1>1, <2>1, <2>3
  <2>4. QED
    BY <2>2, <2>3
<1>3. call' = [t \in Threads |-> call'[t]]
  BY <1>1
<1>4. "store" \notin Holding /\ "store" # "probe"
  BY DEF Holding
<1>5. \A fd \in DOMAIN fds : fds[fd].owner # Sock!Caller => fds[fd].owner \in Threads
  BY DEF SocketsKept, Socket
<1>6. QED
  BY <1>1, <1>2, <1>3, <1>4, <1>5 DEF SocketsKept

LEMMA KeptStep ==
  ASSUME SocketsUsed, SocketsKept, [Sock!Next]_(Sock!vars)
  PROVE  SocketsKept'
<1>1. CASE \E t \in Threads, op \in Making, ip \in LocalIps : Sock!Make(t, op, ip)
  BY <1>1, MakeStep
<1>2. CASE UNCHANGED Sock!vars
  BY <1>2 DEF SocketsKept, Sock!vars
<1>3. QED
  BY <1>1, <1>2, NamesStep, ProbedStep, SocketStep, BindStep, LastStep, AdaptersStep,
     CloseGivenStep, TickStep DEF Sock!Next, Making

LEMMA KeptAlways == ASSUME SocketsUsed PROVE Sock!Spec => []SocketsKept
<1>1. Sock!Init => SocketsKept
  BY IdleRight DEF Sock!Init, SocketsKept, Holding, Sock!Idle
<1>2. SocketsKept /\ [Sock!Next]_(Sock!vars) => SocketsKept'
  BY KeptStep
<1>3. QED
  BY <1>1, <1>2, PTL DEF Sock!Spec

(* Whatever system call fails, every open descriptor is one that a caller    *)
(* was given or that of a call in progress; and a socket that was to be      *)
(* bound to one address is open on all of them only without support of IPv6. *)
THEOREM Descriptors == ASSUME SocketsUsed PROVE Sock!Spec => []Sock!DescriptorsAccounted
<1>1. SocketsKept => Sock!DescriptorsAccounted
  <2> SUFFICES ASSUME SocketsKept, NEW fd \in DOMAIN fds, fds[fd].owner # Sock!Caller
               PROVE  /\ fds[fd].owner \in Sock!Busy /\ "fd" \in DOMAIN call[fds[fd].owner]
                      /\ call[fds[fd].owner].fd = fd
    BY DEF SocketsKept, Sock!DescriptorsAccounted
  <2>1. fds[fd].owner \in Threads
    BY DEF SocketsKept, Socket
  <2>2. call[fds[fd].owner].pc \in Holding /\ call[fds[fd].owner].fd = fd
    BY DEF SocketsKept
  <2>3. QED
    BY <2>1, <2>2 DEF SocketsKept, Right, Holding, Sock!Busy
<1>2. QED
  BY <1>1, KeptAlways, PTL
-----------------------------------------------------------------------------
(* How old what the cache holds, and what a call was told, can be.  An       *)
(* answer is at most MaxResolve seconds older than its entry: Tick stops     *)
(* both from counting at bounds that keep this.                              *)
Entry == [age : Nat, old : Nat]
TellsFresh(r) ==
    r.pc = "socket" /\ r.op = "connect" => r.served \in Nat /\ r.served <= expire_sec + MaxResolve

FreshKept ==
    /\ \A h \in DOMAIN dns_cache : /\ dns_cache[h] \in Entry
                                   /\ dns_cache[h].old <= dns_cache[h].age + MaxResolve
    /\ \A t \in Threads : TellsFresh(call[t])

(* A call goes on without having been told anything, or with an answer that  *)
(* may be told.                                                              *)
LEMMA GoesOnFresh ==
  ASSUME SocketsKept, FreshKept, NEW t \in Threads, NEW r, call' = [call EXCEPT ![t] = r],
         TellsFresh(r),
         \A h \in DOMAIN dns_cache' : /\ dns_cache'[h] \in Entry
                                      /\ dns_cache'[h].old <= dns_cache'[h].age + MaxResolve
  PROVE  FreshKept'
<1>1. call'[t] = r /\ \A u \in Threads : u # t => call'[u] = call[u]
  BY DEF SocketsKept
<1>2. \A u \in Threads : TellsFresh(call'[u])
  BY <1>1 DEF FreshKept
<1>3. QED
  BY <1>2 DEF FreshKept, TellsFresh

(* As most steps do it. *)
LEMMA ElsewhereFresh ==
  ASSUME SocketsKept, FreshKept, NEW t \in Threads, NEW r, call' = [call EXCEPT ![t] = r],
         r.pc # "socket" \/ r.op # "connect", UNCHANGED dns_cache
  PROVE  FreshKept'
<1>1. TellsFresh(r)
  BY DEF TellsFresh
<1>2. \A h \in DOMAIN dns_cache' : /\ dns_cache'[h] \in Entry
                                   /\ dns_cache'[h].old <= dns_cache'[h].age + MaxResolve
  BY DEF FreshKept
<1>3. QED
  BY <1>1, <1>2, GoesOnFresh

LEMMA AnswerFresh ==
  ASSUME SocketsUsed, SocketsKept, FreshKept, NEW t \in Threads, NEW request, NEW served \in Nat,
         served <= expire_sec + MaxResolve, Sock!Answer(t, request, served),
         \A h \in DOMAIN dns_cache' : /\ dns_cache'[h] \in Entry
                                      /\ dns_cache'[h].old <= dns_cache'[h].age + MaxResolve
  PROVE  FreshKept'
<1>1. PICK family \in Sock!Families :
         call' = [call EXCEPT ![t] = [pc |-> "socket", op |-> "connect", ip |-> request.ip,
                                      family |-> family, served |-> served]]
  BY DEF Sock!Answer, Sock!Set
<1> DEFINE r == [pc |-> "socket", op |-> "connect", ip |-> request.ip,
                 family |-> family, served |-> served]
<1>2. r.served = served
  OBVIOUS
<1>3. call' = [call EXCEPT ![t] = r]
  BY <1>1
<1> HIDE DEF r
<1>4. TellsFresh(r)
  BY <1>2 DEF TellsFresh
<1>5. QED
  BY <1>3, <1>4, GoesOnFresh

LEMMA ConnectToFresh ==
  ASSUME SocketsUsed, SocketsKept, FreshKept, NEW t \in Threads, NEW ip \in LocalIps,
         Sock!ConnectTo(t, ip)
  PROVE  FreshKept'
<1>1. Sock!Answer(t, [ip |-> ip], 0) /\ UNCHANGED dns_cache
  BY DEF Sock!ConnectTo
<1>2. 0 \in Nat /\ 0 <= expire_sec + MaxResolve
  BY DEF SocketsUsed
<1>3. \A h \in DOMAIN dns_cache' : /\ dns_cache'[h] \in Entry
                                   /\ dns_cache'[h].old <= dns_cache'[h].age + MaxResolve
  BY <1>1 DEF FreshKept
<1>4. QED
  BY <1>1, <1>2, <1>3, AnswerFresh

LEMMA LookupFresh ==
  ASSUME SocketsUsed, SocketsKept, FreshKept, NEW t \in Threads, NEW h \in Hosts, NEW ip \in LocalIps,
         Sock!Lookup(t, h, ip)
  PROVE  FreshKept'
<1> DEFINE request == [pc |-> "resolve", host |-> h, ip |-> ip]
<1>1. request.pc # "socket"
  OBVIOUS
<1>2. \/ /\ h \in DOMAIN dns_cache /\ dns_cache[h].age <= expire_sec
         /\ Sock!Answer(t, request, dns_cache[h].old) /\ UNCHANGED dns_cache
      \/ /\ call' = [call EXCEPT ![t] = request]
         /\ dns_cache' = [n \in DOMAIN dns_cache \ {h} |-> dns_cache[n]]
  BY DEF Sock!Lookup, Sock!Set, Sock!Restrict
<1> HIDE DEF request
<1>3. \A n \in DOMAIN dns_cache' : /\ dns_cache'[n] \in Entry
                                   /\ dns_cache'[n].old <= dns_cache'[n].age + MaxResolve
  BY <1>2 DEF FreshKept
<1>4. CASE /\ h \in DOMAIN dns_cache /\ dns_cache[h].age <= expire_sec
           /\ Sock!Answer(t, request, dns_cache[h].old) /\ UNCHANGED dns_cache
  <2>1. dns_cache[h] \in Entry /\ dns_cache[h].old <= dns_cache[h].age + MaxResolve
    BY <1>4 DEF FreshKept
  <2>2. dns_cache[h].old \in Nat /\ dns_cache[h].age \in Nat
    BY <2>1 DEF Entry
  <2>3. dns_cache[h].old <= expire_sec + MaxResolve
    BY <1>4, <2>1, <2>2 DEF SocketsUsed
  <2>4. QED
    BY <1>3, <1>4, <2>2, <2>3, AnswerFresh
<1>5. CASE call' = [call EXCEPT ![t] = request]
  <2>1. TellsFresh(request)
    BY <1>1 DEF TellsFresh
  <2>2. QED
    BY <1>3, <1>5, <2>1, GoesOnFresh
<1>6. QED
  BY <1>2, <1>4, <1>5

LEMMA StoreFresh ==
  ASSUME SocketsUsed, SocketsKept, FreshKept, NEW t \in Threads, Sock!Store(t)
  PROVE  FreshKept'
<1>1. /\ call[t].pc = "store" /\ Sock!Answer(t, call[t], call[t].old)
      /\ dns_cache' = [h \in DOMAIN dns_cache \cup {call[t].host} |->
                         IF h = call[t].host THEN [age |-> 0, old |-> call[t].old] ELSE dns_cache[h]]
  BY DEF Sock!Store
<1>2. call[t] \in StoreRecord
  BY <1>1 DEF SocketsKept, Right
<1>3. call[t].old \in Nat /\ call[t].old <= MaxResolve
  BY <1>2 DEF StoreRecord, SocketsUsed
<1> DEFINE entry == [age |-> 0, old |-> call[t].old]
<1>4. entry \in Entry /\ entry.old <= entry.age + MaxResolve
  BY <1>3 DEF Entry, SocketsUsed
<1>5. \A h \in DOMAIN dns_cache' :
         \/ dns_cache'[h] = entry
         \/ h \in DOMAIN dns_cache /\ dns_cache'[h] = dns_cache[h]
  BY <1>1
<1> HIDE DEF entry
<1>6. \A h \in DOMAIN dns_cache' : /\ dns_cache'[h] \in Entry
                                   /\ dns_cache'[h].old <= dns_cache'[h].age + MaxResolve
  BY <1>4, <1>5 DEF FreshKept
<1>7. call[t].old <= expire_sec + MaxResolve
  BY <1>3 DEF SocketsUsed
<1>8. QED
  BY <1>1, <1>3, <1>6, <1>7, AnswerFresh

LEMMA TickFresh ==
  ASSUME SocketsUsed, SocketsKept, FreshKept, Sock!Tick
  PROVE  FreshKept'
<1>1. /\ dns_cache' = [h \in DOMAIN dns_cache |->
                         [age |-> Sock!Atmost(dns_cache[h].age + 1, expire_sec + 1),
                          old |-> Sock!Atmost(dns_cache[h].old + 1, expire_sec + MaxResolve + 1)]]
      /\ call' = [t \in Threads |-> IF call[t].pc = "store" THEN [call[t] EXCEPT !.old = @ + 1]
                                    ELSE call[t]]
  BY DEF Sock!Tick
<1>2. ASSUME NEW h \in DOMAIN dns_cache
      PROVE  dns_cache'[h] \in Entry /\ dns_cache'[h].old <= dns_cache'[h].age + MaxResolve
  <2> DEFINE age == Sock!Atmost(dns_cache[h].age + 1, expire_sec + 1)
             old == Sock!Atmost(dns_cache[h].old + 1, expire_sec + MaxResolve + 1)
  <2>1. dns_cache[h] \in Entry /\ dns_cache[h].old <= dns_cache[h].age + MaxResolve
    BY DEF FreshKept
  <2>2. dns_cache[h].age \in Nat /\ dns_cache[h].old \in Nat
    BY <2>1 DEF Entry
  <2>3. age \in Nat /\ old \in Nat /\ old <= age + MaxResolve
    BY <2>1, <2>2 DEF SocketsUsed, Sock!Atmost
  <2>4. dns_cache'[h] = [age |-> age, old |-> old]
    BY <1>1
  <2> HIDE DEF age, old
  <2>5. QED
    BY <2>3, <2>4 DEF Entry
<1>3. ASSUME NEW t \in Threads
      PROVE  TellsFresh(call'[t])
  <2>1. CASE call[t].pc = "store"
    <3>1. call[t] \in StoreRecord /\ call'[t] = [call[t] EXCEPT !.old = @ + 1]
      BY <1>1, <2>1 DEF SocketsKept, Right
    <3>2. call'[t].pc = "store"
      BY <3>1 DEF StoreRecord
    <3>3. QED
      BY <3>2 DEF TellsFresh
  <2>2. CASE call[t].pc # "store"
    BY <1>1, <2>2 DEF FreshKept
  <2>3. QED
    BY <2>1, <2>2
<1>4. DOMAIN dns_cache' = DOMAIN dns_cache
  BY <1>1
<1>5. QED
  BY <1>2, <1>3, <1>4 DEF FreshKept, TellsFresh

(* What the other steps make of a call. *)
LEMMA OthersFresh ==
  ASSUME SocketsKept, NEW t \in Threads,
         \/ \E op \in Making, ip \in LocalIps : Sock!Make(t, op, ip)
         \/ \E question \in Questions : Sock!AskAdapters(t, question)
         \/ Sock!Resolve(t) \/ Sock!Probed(t) \/ Sock!Socket(t) \/ Sock!Bind(t) \/ Sock!Listen(t)
         \/ Sock!Connect(t) \/ Sock!Told(t) \/ Sock!Done(t)
  PROVE  /\ UNCHANGED dns_cache
         /\ \E r : call' = [call EXCEPT ![t] = r] /\ (r.pc # "socket" \/ r.op # "connect")
<1>0. Sock!Idle.pc # "socket"
  BY DEF Sock!Idle
<1>1. ASSUME NEW op \in Making, NEW ip \in LocalIps, Sock!Make(t, op, ip)
      PROVE  /\ UNCHANGED dns_cache
             /\ \E r : call' = [call EXCEPT ![t] = r] /\ (r.pc # "socket" \/ r.op # "connect")
  <2> DEFINE asks == [pc |-> "probe", op |-> op, ip |-> ip, fd |-> Sock!Lowest]
             goes(support) == [pc |-> "socket", op |-> op, ip |-> ip, family |-> Sock!FamilyFor(ip, support)]
  <2>1. UNCHANGED dns_cache /\ \E r : call' = [call EXCEPT ![t] = r] /\ r \in {asks, goes("no"), goes(flag)}
    BY <1>1 DEF Sock!Make, Sock!Set
  <2>2. asks.op = op /\ goes("no").op = op /\ goes(flag).op = op /\ op # "connect"
    BY DEF Making
  <2> HIDE DEF asks, goes
  <2>3. QED
    BY <2>1, <2>2
<1>2. ASSUME NEW question \in Questions, Sock!AskAdapters(t, question)
      PROVE  /\ UNCHANGED dns_cache
             /\ \E r : call' = [call EXCEPT ![t] = r] /\ (r.pc # "socket" \/ r.op # "connect")
  <2> DEFINE r == [pc |-> "adapters", question |-> question, fd |-> Sock!Lowest]
             told == [pc |-> "told", question |-> question, adapters |-> <<>>,
                      reply |-> Sock!Reply(question, <<>>)]
  <2>1. UNCHANGED dns_cache /\ \E x : call' = [call EXCEPT ![t] = x] /\ x \in {r, told}
    BY <1>2 DEF Sock!AskAdapters, Sock!Set
  <2>2. r.pc = "adapters" /\ told.pc = "told"
    OBVIOUS
  <2> HIDE DEF r, told
  <2>3. QED
    BY <2>1, <2>2
<1>3. ASSUME Sock!Resolve(t)
      PROVE  /\ UNCHANGED dns_cache
             /\ \E r : call' = [call EXCEPT ![t] = r] /\ (r.pc # "socket" \/ r.op # "connect")
  <2> DEFINE r == [pc |-> "store", host |-> call[t].host, ip |-> call[t].ip, old |-> 0]
  <2>1. UNCHANGED dns_cache /\ \E x : call' = [call EXCEPT ![t] = x] /\ x \in {r, Sock!Idle}
    BY <1>3 DEF Sock!Resolve, Sock!Set
  <2>2. r.pc = "store"
    OBVIOUS
  <2> HIDE DEF r
  <2>3. QED
    BY <1>0, <2>1, <2>2
<1>4. ASSUME Sock!Probed(t)
      PROVE  /\ UNCHANGED dns_cache
             /\ \E r : call' = [call EXCEPT ![t] = r] /\ (r.pc # "socket" \/ r.op # "connect")
  <2> DEFINE r == [pc |-> "socket", op |-> call[t].op, ip |-> call[t].ip,
                   family |-> Sock!FamilyFor(call[t].ip, "yes")]
  <2>1. UNCHANGED dns_cache /\ call' = [call EXCEPT ![t] = r] /\ call[t].pc = "probe"
    BY <1>4 DEF Sock!Probed, Sock!Set
  <2>2. r.op # "connect"
    BY <2>1 DEF SocketsKept, Right, Making
  <2> HIDE DEF r
  <2>3. QED
    BY <2>1, <2>2
<1>5. ASSUME Sock!Socket(t)
      PROVE  /\ UNCHANGED dns_cache
             /\ \E r : call' = [call EXCEPT ![t] = r] /\ (r.pc # "socket" \/ r.op # "connect")
  <2> DEFINE r == [pc |-> "bind", op |-> call[t].op, ip |-> call[t].ip, fd |-> Sock!Lowest]
  <2>1. UNCHANGED dns_cache /\ \E x : call' = [call EXCEPT ![t] = x] /\ x \in {r, Sock!Idle}
    BY <1>5 DEF Sock!Socket, Sock!Set
  <2>2. r.pc = "bind"
    OBVIOUS
  <2> HIDE DEF r
  <2>3. QED
    BY <1>0, <2>1, <2>2
<1>6. ASSUME Sock!Bind(t)
      PROVE  /\ UNCHANGED dns_cache
             /\ \E r : call' = [call EXCEPT ![t] = r] /\ (r.pc # "socket" \/ r.op # "connect")
  <2> DEFINE r == [call[t] EXCEPT !.pc = call[t].op]
  <2>1. /\ UNCHANGED dns_cache /\ call[t].pc = "bind"
        /\ \E x : call' = [call EXCEPT ![t] = x] /\ x \in {r, Sock!Idle}
    BY <1>6 DEF Sock!Bind, Sock!Set
  <2>2. call[t] \in BindRecord
    BY <2>1 DEF SocketsKept, Right
  <2>3. r.pc # "socket"
    BY <2>2 DEF BindRecord, Ops, Making
  <2> HIDE DEF r
  <2>4. QED
    BY <1>0, <2>1, <2>3
<1>7. ASSUME Sock!Listen(t) \/ Sock!Connect(t) \/ Sock!Done(t)
      PROVE  /\ UNCHANGED dns_cache
             /\ \E r : call' = [call EXCEPT ![t] = r] /\ (r.pc # "socket" \/ r.op # "connect")
  <2>1. UNCHANGED dns_cache /\ call' = [call EXCEPT ![t] = Sock!Idle]
    BY <1>7 DEF Sock!Listen, Sock!Connect, Sock!Done, Sock!Give, Sock!Set
  <2>2. QED
    BY <1>0, <2>1
<1>8. ASSUME Sock!Told(t)
      PROVE  /\ UNCHANGED dns_cache
             /\ \E r : call' = [call EXCEPT ![t] = r] /\ (r.pc # "socket" \/ r.op # "connect")
  <2>1. PICK adapters \in Adapters \cup {<<>>} :
           call' = [call EXCEPT ![t] = [pc |-> "told", question |-> call[t].question,
                                        adapters |-> adapters,
                                        reply |-> Sock!Reply(call[t].question, adapters)]]
    BY <1>8 DEF Sock!Told, Sock!Set
  <2> DEFINE told == [pc |-> "told", question |-> call[t].question, adapters |-> adapters,
                      reply |-> Sock!Reply(call[t].question, adapters)]
  <2>2. UNCHANGED dns_cache /\ call' = [call EXCEPT ![t] = told]
    BY <1>8, <2>1 DEF Sock!Told
  <2>3. told.pc = "told"
    OBVIOUS
  <2> HIDE DEF told
  <2>4. QED
    BY <2>2, <2>3
<1>9. QED
  BY <1>1, <1>2, <1>3, <1>4, <1>5, <1>6, <1>7, <1>8

LEMMA FreshStep ==
  ASSUME SocketsUsed, SocketsKept, FreshKept, [Sock!Next]_(Sock!vars)
  PROVE  FreshKept'
<1>1. CASE \E t \in Threads :
              \/ \E op \in Making, ip \in LocalIps : Sock!Make(t, op, ip)
              \/ \E question \in Questions : Sock!AskAdapters(t, question)
              \/ Sock!Resolve(t) \/ Sock!Probed(t) \/ Sock!Socket(t) \/ Sock!Bind(t) \/ Sock!Listen(t)
              \/ Sock!Connect(t) \/ Sock!Told(t) \/ Sock!Done(t)
  BY <1>1, OthersFresh, ElsewhereFresh
<1>2. CASE UNCHANGED Sock!vars \/ \E fd \in DOMAIN fds : Sock!CloseGiven(fd)
  <2>1. UNCHANGED <<dns_cache, call>>
    BY <1>2 DEF Sock!vars, Sock!CloseGiven
  <2>2. QED
    BY <2>1 DEF FreshKept, TellsFresh
<1>3. CASE \E t \in Threads, ip \in LocalIps :
              Sock!ConnectTo(t, ip) \/ \E h \in Hosts : Sock!Lookup(t, h, ip)
  BY <1>3, ConnectToFresh, LookupFresh
<1>4. CASE Sock!Tick \/ \E t \in Threads : Sock!Store(t)
  BY <1>4, TickFresh, StoreFresh
<1>5. QED
  BY <1>1, <1>2, <1>3, <1>4 DEF Sock!Next, Making

(* However calls overlap, and however long the resolver takes, connect() is  *)
(* never given an address that was resolved longer ago than answers are      *)
(* valid and storing it took.                                                *)
THEOREM Freshness == ASSUME SocketsUsed PROVE Sock!Spec => []Sock!AnswersFresh
<1>1. Sock!Init => FreshKept
  <2> SUFFICES ASSUME Sock!Init PROVE FreshKept
    OBVIOUS
  <2>1. DOMAIN dns_cache = {} /\ \A t \in Threads : call[t] = Sock!Idle
    BY DEF Sock!Init
  <2>2. Sock!Idle.pc # "socket"
    BY DEF Sock!Idle
  <2>3. QED
    BY <2>1, <2>2 DEF FreshKept, TellsFresh
<1>2. SocketsUsed /\ SocketsKept /\ FreshKept /\ [Sock!Next]_(Sock!vars) => FreshKept'
  BY FreshStep
<1>3. FreshKept => Sock!AnswersFresh
  BY DEF FreshKept, TellsFresh, Sock!AnswersFresh
<1>4. QED
  BY <1>1, <1>2, <1>3, KeptAlways, PTL DEF Sock!Spec
-----------------------------------------------------------------------------
(* What a thread is told of the network adapters.  The lists are sequences;  *)
(* nothing is assumed of what is asked.                                      *)
Adapter == [name : STRING, ip : STRING]
AdaptersUsed == Adapters \subseteq Seq(Adapter)

LEMMA UpTo ==
  ASSUME NEW N \in Nat, NEW S, 0 \in S, \A n \in 0..(N - 1) : n \in S => n + 1 \in S
  PROVE  0..N \subseteq S
<1> SUFFICES ASSUME (0..N) \ S # {} PROVE FALSE
  OBVIOUS
<1>1. (0..N) \ S \in SUBSET Nat
  OBVIOUS
<1>2. PICK n \in (0..N) \ S : \A m \in (0..N) \ S : n <= m
  BY <1>1, LeastOf
<1>3. n # 0 /\ n - 1 \in 0..(N - 1)
  BY <1>2
<1>4. n - 1 \in S
  BY <1>2, <1>3
<1>5. QED
  BY <1>2, <1>3, <1>4

(* SelectInSeq finds the first. *)
LEMMA FirstNamed ==
  ASSUME NEW list, Len(list) \in Nat, NEW if_name
  PROVE  LET k == Sock!get_ifr_ip(list, if_name)
             S == {i \in 1..Len(list) : list[i].name = if_name}
         IN  IF S = {} THEN k = 0 ELSE k \in S /\ \A i \in S : k <= i
<1> DEFINE S == {i \in 1..Len(list) : list[i].name = if_name}
<1>1. S \in SUBSET Nat
  OBVIOUS
<1>2. Sock!get_ifr_ip(list, if_name) = IF S # {} THEN CHOOSE x \in S : \A y \in S : x <= y ELSE 0
  BY DEF Sock!get_ifr_ip, Sock!SelectInSeq, Sock!Min
<1> HIDE DEF S
<1>3. S # {} => \E x \in S : \A y \in S : x <= y
  BY <1>1, LeastOf
<1>4. IF S = {} THEN Sock!get_ifr_ip(list, if_name) = 0
      ELSE /\ Sock!get_ifr_ip(list, if_name) \in S
           /\ \A i \in S : Sock!get_ifr_ip(list, if_name) <= i
  BY <1>2, <1>3
<1>5. QED
  BY <1>4 DEF S
LEMMA FirstAt ==
  ASSUME NEW list, Len(list) \in Nat, NEW local_ip
  PROVE  LET k == Sock!get_ifr_name(list, local_ip)
             S == {i \in 1..Len(list) : list[i].ip = local_ip}
         IN  IF S = {} THEN k = 0 ELSE k \in S /\ \A i \in S : k <= i
<1> DEFINE S == {i \in 1..Len(list) : list[i].ip = local_ip}
<1>1. S \in SUBSET Nat
  OBVIOUS
<1>2. Sock!get_ifr_name(list, local_ip) = IF S # {} THEN CHOOSE x \in S : \A y \in S : x <= y ELSE 0
  BY DEF Sock!get_ifr_name, Sock!SelectInSeq, Sock!Min
<1> HIDE DEF S
<1>3. S # {} => \E x \in S : \A y \in S : x <= y
  BY <1>1, LeastOf
<1>4. IF S = {} THEN Sock!get_ifr_name(list, local_ip) = 0
      ELSE /\ Sock!get_ifr_name(list, local_ip) \in S
           /\ \A i \in S : Sock!get_ifr_name(list, local_ip) <= i
  BY <1>2, <1>3
<1>5. QED
  BY <1>4 DEF S

(* check_ip after the first k adapters: with a private address it has        *)
(* stopped at the first, without it has the last that can be used.           *)
Usable(list, k) == {i \in 1..k : ~Sock!Docker(list[i]) /\ list[i].ip # "loopback"}
Private(list, k) == {i \in Usable(list, k) : list[i].ip = "private"}
Unchecked == [address |-> 0, done |-> FALSE]
Best(state, list, k) ==
    /\ state.done \in BOOLEAN
    /\ IF state.done
       THEN state.address \in Private(list, k) /\ \A i \in Private(list, k) : state.address <= i
       ELSE /\ Private(list, k) = {}
            /\ IF Usable(list, k) # {}
               THEN state.address \in Usable(list, k) /\ \A i \in Usable(list, k) : i <= state.address
               ELSE state.address = 0

LEMMA CheckedBest ==
  ASSUME NEW list, NEW k \in Nat, NEW state, Best(state, list, k)
  PROVE  Best(Sock!Checked(state, list, k + 1), list, k + 1)
<1>1. CASE state.done
  <2>1. Sock!Checked(state, list, k + 1) = state
    BY <1>1 DEF Sock!Checked
  <2>2. Private(list, k) \subseteq Private(list, k + 1)
    BY DEF Private, Usable
  <2>3. \A i \in Private(list, k + 1) : i \in Private(list, k) \/ i = k + 1
    BY DEF Private, Usable
  <2>4. state.address \in Private(list, k) /\ state.address <= k + 1
    BY <1>1 DEF Best, Private, Usable
  <2>5. QED
    BY <1>1, <2>1, <2>2, <2>3, <2>4 DEF Best
<1>2. CASE ~state.done /\ (Sock!Docker(list[k + 1]) \/ list[k + 1].ip = "loopback")
  <2>1. Sock!Checked(state, list, k + 1) = state
    BY <1>2 DEF Sock!Checked
  <2>2. Usable(list, k + 1) = Usable(list, k)
    BY <1>2 DEF Usable
  <2>3. QED
    BY <2>1, <2>2 DEF Best, Private
<1>3. CASE ~state.done /\ ~(Sock!Docker(list[k + 1]) \/ list[k + 1].ip = "loopback")
  <2> DEFINE next == [address |-> k + 1, done |-> list[k + 1].ip = "private"]
  <2>1. Sock!Checked(state, list, k + 1) = next
    BY <1>3 DEF Sock!Checked, Best
  <2>2. next.address = k + 1 /\ next.done = (list[k + 1].ip = "private")
    OBVIOUS
  <2> HIDE DEF next
  <2>3. k + 1 \in Usable(list, k + 1) /\ \A i \in Usable(list, k + 1) : i <= k + 1
    BY <1>3 DEF Usable
  <2>4. \A i \in Private(list, k + 1) : i \in Private(list, k) \/ i = k + 1
    BY DEF Private, Usable
  <2>5. Private(list, k) = {}
    BY <1>3 DEF Best
  <2>6. CASE list[k + 1].ip = "private"
    <3>1. k + 1 \in Private(list, k + 1) /\ \A i \in Private(list, k + 1) : k + 1 <= i
      BY <2>3, <2>4, <2>5, <2>6 DEF Private
    <3>2. QED
      BY <2>1, <2>2, <2>6, <3>1 DEF Best
  <2>7. CASE list[k + 1].ip # "private"
    <3>1. Private(list, k + 1) = {}
      BY <2>4, <2>5, <2>7 DEF Private
    <3>2. QED
      BY <2>1, <2>2, <2>3, <2>7, <3>1 DEF Best
  <2>8. QED
    BY <2>6, <2>7
<1>4. QED
  BY <1>1, <1>2, <1>3 DEF Best

(* The states that check_ip goes through exist, for a list of any length. *)
LEMMA ChecksExist ==
  ASSUME NEW list, Len(list) \in Nat
  PROVE  \E f : f = [i \in 0..Len(list) |-> IF i = 0 THEN Unchecked ELSE Sock!Checked(f[i - 1], list, i)]
<1> DEFINE Checks(k, f) == f = [i \in 0..k |-> IF i = 0 THEN Unchecked ELSE Sock!Checked(f[i - 1], list, i)]
           S == {k \in 0..Len(list) : \E f : Checks(k, f)}
<1>1. 0 \in S
  <2> DEFINE f == [i \in 0..0 |-> Unchecked]
  <2>1. Checks(0, f)
    OBVIOUS
  <2>2. 0 \in 0..Len(list)
    OBVIOUS
  <2> HIDE DEF f, Checks
  <2>3. QED
    BY <2>1, <2>2
<1>2. ASSUME NEW k \in 0..(Len(list) - 1), k \in S
      PROVE  k + 1 \in S
  <2>1. PICK f : Checks(k, f)
    BY <1>2
  <2> DEFINE g == [i \in 0..(k + 1) |-> IF i = k + 1 THEN Sock!Checked(f[k], list, k + 1) ELSE f[i]]
  <2>2. \A i \in 0..(k + 1) : g[i] = IF i = 0 THEN Unchecked ELSE Sock!Checked(g[i - 1], list, i)
    <3> SUFFICES ASSUME NEW i \in 0..(k + 1)
                 PROVE  g[i] = IF i = 0 THEN Unchecked ELSE Sock!Checked(g[i - 1], list, i)
      OBVIOUS
    <3>1. \A j \in 0..k : f[j] = IF j = 0 THEN Unchecked ELSE Sock!Checked(f[j - 1], list, j)
      BY <2>1
    <3>2. \A j \in 0..k : g[j] = f[j]
      OBVIOUS
    <3>3. g[k + 1] = Sock!Checked(f[k], list, k + 1)
      OBVIOUS
    <3> HIDE DEF g
    <3>4. CASE i = k + 1
      <4>1. i # 0 /\ i - 1 = k /\ k \in 0..k
        BY <3>4
      <4>2. g[i - 1] = f[k] /\ g[i] = Sock!Checked(f[k], list, i)
        BY <3>2, <3>3, <3>4, <4>1
      <4>3. QED
        BY <4>1, <4>2
    <3>5. CASE i \in 0..k
      <4>1. i # 0 => i - 1 \in 0..k
        BY <3>5
      <4>2. QED
        BY <3>1, <3>2, <3>5, <4>1
    <3>6. QED
      BY <3>4, <3>5
  <2>3. g = [i \in 0..(k + 1) |-> g[i]]
    OBVIOUS
  <2> HIDE DEF g
  <2>4. Checks(k + 1, g)
    BY <2>2, <2>3
  <2>5. k + 1 \in 0..Len(list)
    OBVIOUS
  <2>6. QED
    BY <2>4, <2>5
<1> HIDE DEF S
<1>3. 0..Len(list) \subseteq S
  BY <1>1, <1>2, UpTo
<1>4. QED
  BY <1>3 DEF S

LEMMA LocalBest ==
  ASSUME NEW list, Len(list) \in Nat
  PROVE  \E state : Best(state, list, Len(list)) /\ Sock!get_local_ip(list) = state.address
<1> DEFINE Checks(f) == f = [i \in 0..Len(list) |-> IF i = 0 THEN Unchecked ELSE Sock!Checked(f[i - 1], list, i)]
           after == CHOOSE f : Checks(f)
           S == {k \in 0..Len(list) : Best(after[k], list, k)}
<1>1. Sock!get_local_ip(list) = after[Len(list)].address
  BY DEF Sock!get_local_ip, Unchecked
<1>2. Checks(after)
  <2>1. \E f : Checks(f)
    BY ChecksExist
  <2> HIDE DEF Checks
  <2>2. QED
    BY <2>1
<1> HIDE DEF after
<1>3. after[0] = Unchecked /\ \A k \in 0..(Len(list) - 1) : after[k + 1] = Sock!Checked(after[k], list, k + 1)
  BY <1>2
<1>4. 0 \in S
  <2>1. Usable(list, 0) = {} /\ Private(list, 0) = {}
    BY DEF Usable, Private
  <2>2. Unchecked.address = 0 /\ Unchecked.done = FALSE
    BY DEF Unchecked
  <2>3. Best(Unchecked, list, 0)
    BY <2>1, <2>2 DEF Best
  <2>4. 0 \in 0..Len(list)
    OBVIOUS
  <2>5. QED
    BY <1>3, <2>3, <2>4
<1>5. ASSUME NEW k \in 0..(Len(list) - 1), k \in S
      PROVE  k + 1 \in S
  <2>1. k \in Nat /\ k + 1 \in 0..Len(list) /\ Best(after[k], list, k)
    BY <1>5
  <2>2. Best(after[k + 1], list, k + 1)
    BY <1>3, <2>1, CheckedBest
  <2>3. QED
    BY <2>1, <2>2
<1> HIDE DEF S
<1>6. 0..Len(list) \subseteq S
  BY <1>4, <1>5, UpTo
<1>7. QED
  BY <1>1, <1>6 DEF S
(* What a call is told is the reply about the adapters that the system       *)
(* listed for it.                                                            *)
ToldRight(r) ==
    r.pc = "told" => r.adapters \in Adapters \cup {<<>>} /\ r.reply = Sock!Reply(r.question, r.adapters)
ToldKept == \A t \in Threads : ToldRight(call[t])

LEMMA GoesOnTold ==
  ASSUME SocketsKept, ToldKept, NEW t \in Threads, NEW r, call' = [call EXCEPT ![t] = r], ToldRight(r)
  PROVE  ToldKept'
<1>1. call'[t] = r /\ \A u \in Threads : u # t => call'[u] = call[u]
  BY DEF SocketsKept
<1>2. \A u \in Threads : ToldRight(call'[u])
  BY <1>1 DEF ToldKept
<1>3. QED
  BY <1>2 DEF ToldKept, ToldRight

LEMMA AskToldStep ==
  ASSUME SocketsKept, ToldKept, NEW t \in Threads, NEW question \in Questions,
         Sock!AskAdapters(t, question)
  PROVE  ToldKept'
<1> DEFINE r == [pc |-> "adapters", question |-> question, fd |-> Sock!Lowest]
           told == [pc |-> "told", question |-> question, adapters |-> <<>>,
                    reply |-> Sock!Reply(question, <<>>)]
<1>1. \E x : call' = [call EXCEPT ![t] = x] /\ x \in {r, told}
  BY DEF Sock!AskAdapters, Sock!Set
<1>2. r.pc = "adapters"
  OBVIOUS
<1>3. /\ told.adapters \in Adapters \cup {<<>>}
      /\ told.reply = Sock!Reply(told.question, told.adapters)
  OBVIOUS
<1> HIDE DEF r, told
<1>4. ToldRight(r) /\ ToldRight(told)
  BY <1>2, <1>3 DEF ToldRight
<1>5. QED
  BY <1>1, <1>4, GoesOnTold

LEMMA ToldToldStep ==
  ASSUME SocketsKept, ToldKept, NEW t \in Threads, Sock!Told(t)
  PROVE  ToldKept'
<1>1. PICK adapters \in Adapters \cup {<<>>} :
         call' = [call EXCEPT ![t] = [pc |-> "told", question |-> call[t].question,
                                      adapters |-> adapters,
                                      reply |-> Sock!Reply(call[t].question, adapters)]]
  BY DEF Sock!Told, Sock!Set
<1> DEFINE told == [pc |-> "told", question |-> call[t].question, adapters |-> adapters,
                    reply |-> Sock!Reply(call[t].question, adapters)]
<1>2. /\ told.adapters \in Adapters \cup {<<>>}
      /\ told.reply = Sock!Reply(told.question, told.adapters)
  OBVIOUS
<1>3. call' = [call EXCEPT ![t] = told]
  BY <1>1
<1> HIDE DEF told
<1>4. ToldRight(told)
  BY <1>2 DEF ToldRight
<1>5. QED
  BY <1>3, <1>4, GoesOnTold

(* No other step of a call tells anything. *)
LEMMA OthersTold ==
  ASSUME SocketsKept, NEW t \in Threads, NEW ip \in LocalIps,
         \/ Sock!ConnectTo(t, ip) \/ \E h \in Hosts : Sock!Lookup(t, h, ip)
         \/ \E op \in Making : Sock!Make(t, op, ip)
  PROVE  \E r : call' = [call EXCEPT ![t] = r] /\ r.pc # "told"
<1>1. ASSUME NEW request, NEW served, Sock!Answer(t, request, served)
      PROVE  \E r : call' = [call EXCEPT ![t] = r] /\ r.pc # "told"
  <2>1. PICK family \in Sock!Families :
           call' = [call EXCEPT ![t] = [pc |-> "socket", op |-> "connect", ip |-> request.ip,
                                        family |-> family, served |-> served]]
    BY <1>1 DEF Sock!Answer, Sock!Set
  <2> DEFINE r == [pc |-> "socket", op |-> "connect", ip |-> request.ip,
                   family |-> family, served |-> served]
  <2>2. r.pc # "told" /\ call' = [call EXCEPT ![t] = r]
    BY <2>1
  <2> HIDE DEF r
  <2>3. QED
    BY <2>2
<1>2. ASSUME NEW h \in Hosts, Sock!Lookup(t, h, ip)
      PROVE  \E r : call' = [call EXCEPT ![t] = r] /\ r.pc # "told"
  <2> DEFINE request == [pc |-> "resolve", host |-> h, ip |-> ip]
  <2>1. Sock!Answer(t, request, dns_cache[h].old) \/ call' = [call EXCEPT ![t] = request]
    BY <1>2 DEF Sock!Lookup, Sock!Set
  <2>2. request.pc # "told"
    OBVIOUS
  <2> HIDE DEF request
  <2>3. QED
    BY <1>1, <2>1, <2>2
<1>3. ASSUME NEW op \in Making, Sock!Make(t, op, ip)
      PROVE  \E r : call' = [call EXCEPT ![t] = r] /\ r.pc # "told"
  <2> DEFINE asks == [pc |-> "probe", op |-> op, ip |-> ip, fd |-> Sock!Lowest]
             goes(support) == [pc |-> "socket", op |-> op, ip |-> ip, family |-> Sock!FamilyFor(ip, support)]
  <2>1. \E r : call' = [call EXCEPT ![t] = r] /\ r \in {asks, goes("no"), goes(flag)}
    BY <1>3 DEF Sock!Make, Sock!Set
  <2>2. asks.pc # "told" /\ goes("no").pc # "told" /\ goes(flag).pc # "told"
    OBVIOUS
  <2> HIDE DEF asks, goes
  <2>3. QED
    BY <2>1, <2>2
<1>4. QED
  BY <1>1, <1>2, <1>3 DEF Sock!ConnectTo

LEMMA MakersTold ==
  ASSUME SocketsKept, NEW t \in Threads,
         \/ Sock!Resolve(t) \/ Sock!Store(t) \/ Sock!Probed(t) \/ Sock!Socket(t) \/ Sock!Bind(t)
         \/ Sock!Listen(t) \/ Sock!Connect(t) \/ Sock!Done(t)
  PROVE  \E r : call' = [call EXCEPT ![t] = r] /\ r.pc # "told"
<1>1. Sock!Idle.pc # "told"
  BY DEF Sock!Idle
<1>2. CASE Sock!Resolve(t)
  <2> DEFINE r == [pc |-> "store", host |-> call[t].host, ip |-> call[t].ip, old |-> 0]
  <2>1. \E x : call' = [call EXCEPT ![t] = x] /\ x \in {r, Sock!Idle}
    BY <1>2 DEF Sock!Resolve, Sock!Set
  <2>2. r.pc # "told"
    OBVIOUS
  <2> HIDE DEF r
  <2>3. QED
    BY <1>1, <2>1, <2>2
<1>3. CASE Sock!Store(t)
  <2>1. PICK family \in Sock!Families :
           call' = [call EXCEPT ![t] = [pc |-> "socket", op |-> "connect", ip |-> call[t].ip,
                                        family |-> family, served |-> call[t].old]]
    BY <1>3 DEF Sock!Store, Sock!Answer, Sock!Set
  <2> DEFINE r == [pc |-> "socket", op |-> "connect", ip |-> call[t].ip,
                   family |-> family, served |-> call[t].old]
  <2>2. r.pc # "told" /\ call' = [call EXCEPT ![t] = r]
    BY <2>1
  <2> HIDE DEF r
  <2>3. QED
    BY <2>2
<1>4. CASE Sock!Probed(t)
  <2> DEFINE r == [pc |-> "socket", op |-> call[t].op, ip |-> call[t].ip,
                   family |-> Sock!FamilyFor(call[t].ip, "yes")]
  <2>1. r.pc # "told" /\ call' = [call EXCEPT ![t] = r]
    BY <1>4 DEF Sock!Probed, Sock!Set
  <2> HIDE DEF r
  <2>2. QED
    BY <2>1
<1>5. CASE Sock!Socket(t)
  <2> DEFINE r == [pc |-> "bind", op |-> call[t].op, ip |-> call[t].ip, fd |-> Sock!Lowest]
  <2>1. \E x : call' = [call EXCEPT ![t] = x] /\ x \in {r, Sock!Idle}
    BY <1>5 DEF Sock!Socket, Sock!Set
  <2>2. r.pc # "told"
    OBVIOUS
  <2> HIDE DEF r
  <2>3. QED
    BY <1>1, <2>1, <2>2
<1>6. CASE Sock!Bind(t)
  <2> DEFINE r == [call[t] EXCEPT !.pc = call[t].op]
  <2>1. call[t].pc = "bind" /\ \E x : call' = [call EXCEPT ![t] = x] /\ x \in {r, Sock!Idle}
    BY <1>6 DEF Sock!Bind, Sock!Set
  <2>2. call[t] \in BindRecord
    BY <2>1 DEF SocketsKept, Right
  <2>3. r.pc # "told"
    BY <2>2 DEF BindRecord, Ops, Making
  <2> HIDE DEF r
  <2>4. QED
    BY <1>1, <2>1, <2>3
<1>7. CASE Sock!Listen(t) \/ Sock!Connect(t) \/ Sock!Done(t)
  BY <1>1, <1>7 DEF Sock!Listen, Sock!Connect, Sock!Done, Sock!Give, Sock!Set
<1>8. QED
  BY <1>2, <1>3, <1>4, <1>5, <1>6, <1>7

LEMMA ToldStep ==
  ASSUME SocketsKept, ToldKept, [Sock!Next]_(Sock!vars)
  PROVE  ToldKept'
<1>1. ASSUME NEW t \in Threads, NEW r, call' = [call EXCEPT ![t] = r], r.pc # "told"
      PROVE  ToldKept'
  BY <1>1, GoesOnTold DEF ToldRight
<1>2. CASE \E t \in Threads, ip \in LocalIps :
              \/ Sock!ConnectTo(t, ip) \/ \E h \in Hosts : Sock!Lookup(t, h, ip)
              \/ \E op \in Making : Sock!Make(t, op, ip)
  BY <1>1, <1>2, OthersTold
<1>3. CASE \E t \in Threads :
              \/ Sock!Resolve(t) \/ Sock!Store(t) \/ Sock!Probed(t) \/ Sock!Socket(t) \/ Sock!Bind(t)
              \/ Sock!Listen(t) \/ Sock!Connect(t) \/ Sock!Done(t)
  BY <1>1, <1>3, MakersTold
<1>4. CASE \E t \in Threads : Sock!Told(t) \/ \E question \in Questions : Sock!AskAdapters(t, question)
  BY <1>4, AskToldStep, ToldToldStep
<1>5. CASE UNCHANGED Sock!vars \/ \E fd \in DOMAIN fds : Sock!CloseGiven(fd)
  BY <1>5 DEF Sock!vars, Sock!CloseGiven, ToldKept, ToldRight
<1>6. CASE Sock!Tick
  <2>1. ASSUME NEW t \in Threads PROVE ToldRight(call'[t])
    <3>1. call'[t] = IF call[t].pc = "store" THEN [call[t] EXCEPT !.old = @ + 1] ELSE call[t]
      BY <1>6 DEF Sock!Tick
    <3>2. call[t].pc = "store" => call[t] \in StoreRecord
      BY DEF SocketsKept, Right
    <3>3. call[t].pc = "store" => call'[t].pc # "told"
      BY <3>1, <3>2 DEF StoreRecord
    <3>4. QED
      BY <3>1, <3>3 DEF ToldKept, ToldRight
  <2>2. QED
    BY <2>1 DEF ToldKept, ToldRight
<1>7. QED
  BY <1>2, <1>3, <1>4, <1>5, <1>6 DEF Sock!Next, Making

LEMMA LocalRight ==
  ASSUME AdaptersUsed, NEW r, r.pc = "told", ToldRight(r), r.question.what = "get_local_ip"
  PROVE  LET list == r.adapters
             usable == {i \in DOMAIN list : ~Sock!Docker(list[i]) /\ list[i].ip # "loopback"}
             private == {i \in usable : list[i].ip = "private"}
         IN  IF private # {} THEN r.reply \in private /\ \A i \in private : r.reply <= i
             ELSE IF usable # {} THEN r.reply \in usable /\ \A i \in usable : i <= r.reply
             ELSE r.reply = 0
<1> DEFINE list == r.adapters
<1>1. list \in Seq(Adapter)
  <2>1. list \in Adapters \/ list = <<>>
    BY DEF ToldRight
  <2> HIDE DEF list
  <2>2. <<>> \in Seq(Adapter)
    OBVIOUS
  <2>3. QED
    BY <2>1, <2>2 DEF AdaptersUsed
<1>2. Len(list) \in Nat /\ DOMAIN list = 1..Len(list)
  BY <1>1
<1>3. r.reply = Sock!get_local_ip(list)
  BY DEF ToldRight, Sock!Reply
<1>4. PICK state : Best(state, list, Len(list)) /\ r.reply = state.address
  BY <1>2, <1>3, LocalBest
<1>5. /\ Usable(list, Len(list)) = {i \in DOMAIN list : ~Sock!Docker(list[i]) /\ list[i].ip # "loopback"}
      /\ Private(list, Len(list)) = {i \in Usable(list, Len(list)) : list[i].ip = "private"}
  BY <1>2 DEF Usable, Private
<1>6. Private(list, Len(list)) \subseteq Usable(list, Len(list))
  BY DEF Private
<1> HIDE DEF list
<1>7. IF Private(list, Len(list)) # {}
      THEN r.reply \in Private(list, Len(list)) /\ \A i \in Private(list, Len(list)) : r.reply <= i
      ELSE IF Usable(list, Len(list)) # {}
           THEN r.reply \in Usable(list, Len(list)) /\ \A i \in Usable(list, Len(list)) : i <= r.reply
           ELSE r.reply = 0
  BY <1>4 DEF Best
<1>8. QED
  BY <1>5, <1>7 DEF list

LEMMA ListRight ==
  ASSUME AdaptersUsed, NEW r, r.pc = "told", ToldRight(r), r.question.what = "getInterfaceList",
         NEW pair \in r.reply
  PROVE  LET list == r.adapters
             named == Sock!get_ifr_name(list, pair[2])
             again == Sock!get_ifr_ip(list, list[named].name)
         IN  /\ named # 0 /\ <<list[named].name, pair[2]>> \in r.reply
             /\ list[again].ip = pair[2] \/ again < named
<1> DEFINE list == r.adapters
           named == Sock!get_ifr_name(list, pair[2])
           again == Sock!get_ifr_ip(list, list[named].name)
           At == {i \in 1..Len(list) : list[i].ip = pair[2]}
           Named == {i \in 1..Len(list) : list[i].name = list[named].name}
<1>1. list \in Seq(Adapter)
  <2>1. list \in Adapters \/ list = <<>>
    BY DEF ToldRight
  <2> HIDE DEF list
  <2>2. <<>> \in Seq(Adapter)
    OBVIOUS
  <2>3. QED
    BY <2>1, <2>2 DEF AdaptersUsed
<1>2. Len(list) \in Nat /\ DOMAIN list = 1..Len(list)
  BY <1>1
<1>3. r.reply = {<<list[i].name, list[i].ip>> : i \in 1..Len(list)}
  BY <1>2 DEF ToldRight, Sock!Reply, Sock!getInterfaceList
<1>4. At # {}
  BY <1>3
<1>5. named \in At
  BY <1>2, <1>4, FirstAt
<1>6. named \in 1..Len(list) /\ list[named].ip = pair[2]
  BY <1>5
<1>7. named \in Named
  BY <1>6
<1>8. again \in Named /\ again <= named
  BY <1>2, <1>7, FirstNamed
<1>9. <<list[named].name, pair[2]>> \in r.reply
  BY <1>3, <1>6
<1>10. again = named \/ again < named
  BY <1>6, <1>8
<1>11. QED
  BY <1>6, <1>9, <1>10

(* Whatever adapters there are, the address that get_local_ip tells is the   *)
(* first private one, without one the last that can be used; and the lookups *)
(* of a name and of an address agree with the list.                          *)
THEOREM Addresses == ASSUME SocketsUsed, AdaptersUsed PROVE Sock!Spec => []Sock!AddressesRight
<1>1. Sock!Init => ToldKept
  BY DEF Sock!Init, Sock!Idle, ToldKept, ToldRight
<1>2. SocketsKept /\ ToldKept /\ [Sock!Next]_(Sock!vars) => ToldKept'
  BY ToldStep
<1>3. AdaptersUsed /\ ToldKept => Sock!AddressesRight
  BY LocalRight, ListRight DEF ToldKept, Sock!AddressesRight
<1>4. QED
  BY <1>1, <1>2, <1>3, KeptAlways, PTL DEF Sock!Spec
=============================================================================
