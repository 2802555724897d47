-------------------------------- MODULE Wepoll --------------------------------
(***************************************************************************)
(* src/win32/wepoll.c, the epoll of the Windows build: one port, used by   *)
(* several threads that wait, change the set of sockets, and close it.     *)
(*                                                                         *)
(* For each socket that is watched there is a sock_state with at most one  *)
(* poll request in the kernel.  The kernel writes into the sock_state when *)
(* the request ends and puts a packet for it on the completion port, so    *)
(* that a deleted sock_state has to stay until its packet has come.  Polls *)
(* are submitted only by a thread that is about to wait, or for one that   *)
(* is waiting: changes meanwhile go to the update queue.                   *)
(*                                                                         *)
(* lock is the critical section of the port.  The handle tree with its     *)
(* reference lock lets epoll_close wait for the calls in progress.         *)
(***************************************************************************)
EXTENDS Integers, Sequences, FiniteSets, SequencesExt

CONSTANTS
    Threads,     \* callers of epoll_wait, epoll_ctl and epoll_close
    Socks,       \* socket handles
    Events,      \* what a user may ask for; "err" stands for EPOLLERR | EPOLLHUP
    Ids,         \* BOUND: the sock_state objects there is memory for, 1..n
    NoThread,
    MaxGroup,    \* POLL_GROUP__MAX_GROUP_SIZE
    MaxEvents,   \* maxevents of epoll_wait
    MaxCtl,      \* BOUND: calls of epoll_ctl
    Asks,        \* BOUND: what they ask for: <<events, whether EPOLLONESHOT>>
    Loops,       \* threads that only call epoll_wait, again and again
    Changing     \* BOUND: sockets that may be changed, deleted and closed, and whose
                 \* condition changes; the others stay and always have an event

ASSUME WepollAssumption ==
    /\ NoThread \notin Threads
    /\ IsFiniteSet(Threads) /\ IsFiniteSet(Ids) /\ Ids = 1..Cardinality(Ids)
    /\ "err" \notin Events /\ Asks \subseteq (SUBSET Events) \X BOOLEAN
    /\ Loops \subseteq Threads /\ Changing \subseteq Socks
    /\ MaxGroup \in Nat \ {0} /\ MaxEvents \in Nat \ {0} /\ MaxCtl \in Nat

VARIABLES
    port,        \* "open", "closed" (the completion port is) or "deleted"
    registered,  \* the port is in the handle tree
    refs, destroy, signal,  \* the reflock: its count, its flag, its event
    lock, active_poll_count,
    socks,       \* sock_state objects, FREE when they are not allocated
    sock_tree,   \* socket -> its sock_state, 0 for none
    sock_update_queue, sock_deleted_queue,
    poll_group_queue,       \* sizes of the poll groups by their number, in order
    op,          \* KERNEL: the request of a sock_state: "none", "polling", "cancelled"
    iocp,        \* KERNEL: the packets on the completion port
    ready,       \* KERNEL: the condition of a socket
    closed,      \* KERNEL: sockets closed by closesocket
    pc,
    taken,       \* thread -> packets it got from the completion port
    found,       \* thread -> sockets it has an event for
    ctls         \* calls of epoll_ctl so far

reflock == <<registered, refs, destroy, signal>>
kernel == <<op, iocp, ready, closed>>
queues == <<sock_update_queue, sock_deleted_queue, poll_group_queue>>
sets == <<socks, sock_tree, queues>>
local == <<taken, found, ctls>>
vars == <<port, reflock, lock, active_poll_count, sets, kernel, pc, local>>

Known == Events \cup {"err"}
Groups == Nat \ {0}
FREE == [sock |-> "free"]
SockState == [sock : Socks, user_events : SUBSET Known, oneshot : BOOLEAN,
              pending_events : SUBSET Known, status : {"idle", "pending", "cancelled"},
              delete_pending : BOOLEAN, group : Groups]
Allocated(i) == socks[i] # FREE
Packets == [id : Ids, events : SUBSET Known, how : {"events", "cancelled", "closed"}]

InLock == {"ctl_update", "update", "feed", "last_update"}
InPoll == {"gqcs", "fed", "failed"}
InCall == {"ctl", "wait", "unref"} \cup InPoll \cup InLock
Closing == {"close", "destroy", "await", "delete"}

TypeOK ==
    /\ port \in {"open", "closed", "deleted"}
    /\ registered \in BOOLEAN /\ destroy \in BOOLEAN /\ signal \in BOOLEAN
    /\ refs \in Nat /\ active_poll_count \in Nat
    /\ lock \in Threads \cup {NoThread}
    /\ socks \in [Ids -> SockState \cup {FREE}]
    /\ sock_tree \in [Socks -> Ids \cup {0}]
    /\ sock_update_queue \in Seq(Ids) /\ sock_deleted_queue \subseteq Ids
    /\ poll_group_queue \in Seq([id : Groups, size : 0..MaxGroup])
    /\ op \in [Ids -> {"none", "polling", "cancelled"}]
    /\ iocp \in Seq(Packets)
    /\ ready \in [Socks -> SUBSET Known] /\ closed \in SUBSET Socks
    /\ pc \in [Threads -> {"idle"} \cup InCall \cup Closing]
    /\ taken \in [Threads -> Seq(Packets)] /\ found \in [Threads -> SUBSET Socks]
    /\ ctls \in 0..MaxCtl

Init ==
    /\ port = "open" /\ registered = TRUE
    /\ refs = 0 /\ destroy = FALSE /\ signal = FALSE
    /\ lock = NoThread /\ active_poll_count = 0
    /\ socks = [i \in Ids |-> FREE]
    /\ sock_tree = [s \in Socks |-> 0]
    /\ sock_update_queue = <<>> /\ sock_deleted_queue = {} /\ poll_group_queue = <<>>
    /\ op = [i \in Ids |-> "none"] /\ iocp = <<>>
    /\ ready = [s \in Socks |-> IF s \in Changing THEN {} ELSE Events] /\ closed = {}
    /\ pc = [t \in Threads |-> "idle"]
    /\ taken = [t \in Threads |-> <<>>] /\ found = [t \in Threads |-> {}]
    /\ ctls = 0

Goto(t, label) == pc' = [pc EXCEPT ![t] = label]

-----------------------------------------------------------------------------
(* Poll groups: full ones in front, those with room behind. *)

(* poll_group_acquire.  A new group needs the handle of the completion port. *)
HasRoom(queue) == queue # <<>> /\ Last(queue).size < MaxGroup

Acquired(queue) ==
    IF HasRoom(queue)
    THEN [Last(queue) EXCEPT !.size = @ + 1]
    ELSE [id |-> Len(queue) + 1, size |-> 1]

MoveToStart(queue, n, node) == <<node>> \o RemoveAt(queue, n)
MoveToEnd(queue, n, node) == Append(RemoveAt(queue, n), node)

QueueAfterAcquire(queue) ==
    LET group == Acquired(queue)
        longer == IF HasRoom(queue) THEN queue ELSE Append(queue, group)
    IN  IF group.size = MaxGroup THEN MoveToStart(longer, Len(longer), group)
                                 ELSE [longer EXCEPT ![Len(longer)] = group]

(* poll_group_release *)
QueueAfterRelease(queue, id) ==
    LET n == SelectInSeq(queue, LAMBDA g : g.id = id)
    IN  MoveToEnd(queue, n, [queue[n] EXCEPT !.size = @ - 1])

-----------------------------------------------------------------------------
(* sock_state *)

Unqueue(i) == sock_update_queue' = RemoveFirst(sock_update_queue, i)

(* port_request_socket_update *)
RequestUpdate(i) ==
    sock_update_queue' = IF Contains(sock_update_queue, i) THEN sock_update_queue
                         ELSE Append(sock_update_queue, i)

(* afd_cancel_poll: a request that has ended is left alone. *)
CancelOp(i) == op' = [op EXCEPT ![i] = IF @ = "polling" THEN "cancelled" ELSE @]

Free(i) ==
    /\ socks' = [socks EXCEPT ![i] = FREE]
    /\ sock_deleted_queue' = sock_deleted_queue \ {i}
    /\ poll_group_queue' = QueueAfterRelease(poll_group_queue, socks[i].group)

Unregister(i) ==
    sock_tree' = [sock_tree EXCEPT ![socks[i].sock] = IF @ = i THEN 0 ELSE @]

(* Mutation: the memory is freed although the request is still in the kernel. *)
FreeAtOnce(i, status) ==
    /\ Unregister(i) /\ Unqueue(i)
    /\ IF status = "pending" THEN CancelOp(i) ELSE UNCHANGED op
    /\ Free(i)

(* sock__delete without force, the request being in the given status. *)
SockDelete(i, status) ==
    /\ Unregister(i) /\ Unqueue(i)
    /\ IF status = "pending" THEN CancelOp(i) ELSE UNCHANGED op
    /\ IF status = "idle"
       THEN Free(i)
       ELSE /\ socks' = [socks EXCEPT
                  ![i].status = "cancelled", ![i].pending_events = {},
                  ![i].delete_pending = TRUE]
            /\ sock_deleted_queue' = sock_deleted_queue \cup {i}
            /\ UNCHANGED poll_group_queue

(* sock_update: the first socket of the queue leaves it. *)
SockUpdate(i) ==
    LET s == socks[i]
        covered == s.user_events \subseteq s.pending_events
    IN  \/ /\ s.status = "idle" /\ s.sock \in closed
           /\ SockDelete(i, "idle")
        \/ /\ s.status = "idle" /\ s.sock \notin closed
           /\ socks' = [socks EXCEPT ![i].status = "pending",
                                     ![i].pending_events = s.user_events]
           /\ op' = [op EXCEPT ![i] = "polling"]
           /\ Unqueue(i)
           /\ UNCHANGED <<sock_tree, sock_deleted_queue, poll_group_queue>>
        \/ /\ s.status = "pending" /\ ~covered
           /\ CancelOp(i)
           /\ socks' = [socks EXCEPT ![i].status = "cancelled", ![i].pending_events = {}]
           /\ Unqueue(i)
           /\ UNCHANGED <<sock_tree, sock_deleted_queue, poll_group_queue>>
        \/ /\ s.status = "cancelled" \/ (s.status = "pending" /\ covered)
           /\ Unqueue(i)
           /\ UNCHANGED <<socks, op, sock_tree, sock_deleted_queue, poll_group_queue>>

Reported(p) ==
    IF p.how = "events" THEN p.events \cap socks[p.id].user_events ELSE {}

(* Mutation: a socket with an event is not queued for its next request. *)
FeedWithoutRequeue(t, p) ==
    IF socks[p.id].delete_pending \/ p.how = "closed"
    THEN SockDelete(p.id, "idle") /\ UNCHANGED found
    ELSE /\ socks' = [socks EXCEPT ![p.id].status = "idle", ![p.id].pending_events = {},
                 ![p.id].user_events =
                     IF Reported(p) # {} /\ socks[p.id].oneshot THEN {} ELSE @]
         /\ found' = [found EXCEPT ![t] =
                IF Reported(p) # {} THEN @ \cup {socks[p.id].sock} ELSE @]
         /\ IF Reported(p) = {} THEN RequestUpdate(p.id) ELSE UNCHANGED sock_update_queue
         /\ UNCHANGED <<sock_tree, sock_deleted_queue, poll_group_queue, op>>

(* sock_feed_event *)
FeedEvent(t, p) ==
    IF socks[p.id].delete_pending \/ p.how = "closed"
    THEN SockDelete(p.id, "idle") /\ UNCHANGED found
    ELSE /\ socks' = [socks EXCEPT ![p.id].status = "idle", ![p.id].pending_events = {},
                 ![p.id].user_events =
                     IF Reported(p) # {} /\ socks[p.id].oneshot THEN {} ELSE @]
         /\ found' = [found EXCEPT ![t] =
                IF Reported(p) # {} THEN @ \cup {socks[p.id].sock} ELSE @]
         /\ RequestUpdate(p.id)
         /\ UNCHANGED <<sock_tree, sock_deleted_queue, poll_group_queue, op>>

-----------------------------------------------------------------------------
(* Entering and leaving a call: ts_tree_find_and_ref and ts_tree_node_unref. *)

FindAndRef(t, call) ==
    /\ pc[t] = "idle"
    /\ registered
    /\ call = "ctl" => ctls < MaxCtl /\ t \notin Loops
    /\ refs' = refs + 1
    /\ ctls' = IF call = "ctl" THEN ctls + 1 ELSE ctls
    /\ Goto(t, call)
    /\ UNCHANGED <<port, registered, destroy, signal, lock, active_poll_count, sets, kernel,
                   taken, found>>

(* Mutation: nobody signals the thread that destroys. *)
UnrefQuietly(t) ==
    /\ pc[t] = "unref"
    /\ refs' = refs - 1
    /\ found' = [found EXCEPT ![t] = {}]
    /\ Goto(t, "idle")
    /\ UNCHANGED <<port, registered, destroy, signal, lock, active_poll_count, sets, kernel,
                   taken, ctls>>

(* The last one out signals the thread that destroys. *)
Unref(t) ==
    /\ pc[t] = "unref"
    /\ refs' = refs - 1
    /\ signal' = (signal \/ (destroy /\ refs = 1))
    /\ found' = [found EXCEPT ![t] = {}]
    /\ Goto(t, "idle")
    /\ UNCHANGED <<port, registered, destroy, lock, active_poll_count, sets, kernel, taken, ctls>>

Enter(t, from, to) ==
    /\ pc[t] = from
    /\ lock = NoThread
    /\ lock' = t
    /\ Goto(t, to)

Leave(t, to) == lock' = NoThread /\ Goto(t, to)

(* port__update_events_if_polling, at the end of a critical section *)
UpdateIfPolling(t, label) ==
    IF active_poll_count > 0 THEN lock' = t /\ Goto(t, label)
                             ELSE lock' = NoThread /\ Goto(t, "unref")

-----------------------------------------------------------------------------
(* epoll_ctl *)

(* Mutation: whoever waits already is not told. *)
CtlWithoutUpdate(t) ==
    /\ pc[t] = "ctl" /\ lock = NoThread
    /\ Leave(t, "unref")
    /\ UNCHANGED <<port, reflock, active_poll_count, iocp, ready, closed, local>>

Ctl(t) ==
    /\ pc[t] = "ctl" /\ lock = NoThread
    /\ UpdateIfPolling(t, "ctl_update")
    /\ UNCHANGED <<port, reflock, active_poll_count, iocp, ready, closed, local>>

CtlAdd(t, s, wants, oneshot) ==
    /\ Ctl(t)
    /\ s \notin closed /\ sock_tree[s] = 0
    /\ \E i \in Ids :
          /\ ~Allocated(i) /\ \A j \in 1..(i - 1) : Allocated(j)
          /\ socks' = [socks EXCEPT ![i] =
                [sock |-> s, user_events |-> wants \cup {"err"}, oneshot |-> oneshot,
                 pending_events |-> {}, status |-> "idle", delete_pending |-> FALSE,
                 group |-> Acquired(poll_group_queue).id]]
          /\ sock_tree' = [sock_tree EXCEPT ![s] = i]
          /\ RequestUpdate(i)
    /\ poll_group_queue' = QueueAfterAcquire(poll_group_queue)
    /\ UNCHANGED <<sock_deleted_queue, op>>

(* A socket that is there already: its place in a group is given back. *)
CtlAddAgain(t, s) ==
    /\ pc[t] = "ctl" /\ lock = NoThread
    /\ s \notin closed /\ sock_tree[s] # 0
    /\ poll_group_queue' = QueueAfterRelease(QueueAfterAcquire(poll_group_queue),
                                            Acquired(poll_group_queue).id)
    /\ Leave(t, "unref")
    /\ UNCHANGED <<port, reflock, active_poll_count, socks, sock_tree, sock_update_queue,
                   sock_deleted_queue, kernel, local>>

CtlMod(t, s, wants, oneshot) ==
    /\ Ctl(t)
    /\ sock_tree[s] # 0
    /\ LET i == sock_tree[s]
           events == wants \cup {"err"}
       IN  /\ socks' = [socks EXCEPT ![i].user_events = events, ![i].oneshot = oneshot]
           /\ IF events \subseteq socks[i].pending_events THEN UNCHANGED sock_update_queue
                                                          ELSE RequestUpdate(i)
    /\ UNCHANGED <<sock_tree, sock_deleted_queue, poll_group_queue, op>>

CtlDel(t, s) ==
    /\ pc[t] = "ctl" /\ lock = NoThread
    /\ sock_tree[s] # 0
    /\ SockDelete(sock_tree[s], socks[sock_tree[s]].status)
    /\ Leave(t, "unref")
    /\ UNCHANGED <<port, reflock, active_poll_count, iocp, ready, closed, local>>

(* No such socket, or no memory. *)
CtlFails(t) ==
    /\ pc[t] = "ctl" /\ lock = NoThread
    /\ Leave(t, "unref")
    /\ UNCHANGED <<port, reflock, active_poll_count, sets, kernel, local>>

-----------------------------------------------------------------------------
(* epoll_wait *)

EnterWait(t) ==
    /\ Enter(t, "wait", "update")
    /\ UNCHANGED <<port, reflock, active_poll_count, sets, kernel, local>>

(* A round of the loop of port__update_events, for whichever caller. *)
UpdateEvents(t) ==
    /\ pc[t] \in {"ctl_update", "update", "last_update"}
    /\ sock_update_queue # <<>>
    /\ SockUpdate(Head(sock_update_queue))
    /\ UNCHANGED <<port, reflock, lock, active_poll_count, iocp, ready, closed, pc, local>>

(* Behind the loop: port__poll leaves the lock to wait, the others are done. *)
Updated(t) ==
    /\ pc[t] \in {"ctl_update", "update", "last_update"}
    /\ sock_update_queue = <<>>
    /\ active_poll_count' = active_poll_count + (IF pc[t] = "update" THEN 1 ELSE 0)
    /\ Leave(t, IF pc[t] = "update" THEN "gqcs" ELSE "unref")
    /\ UNCHANGED <<port, reflock, sets, kernel, local>>

(* GetQueuedCompletionStatusEx returns packets... *)
Dequeue(t) ==
    /\ pc[t] = "gqcs" /\ port = "open"
    /\ iocp # <<>>
    /\ LET n == IF Len(iocp) < MaxEvents THEN Len(iocp) ELSE MaxEvents
       IN  /\ taken' = [taken EXCEPT ![t] = SubSeq(iocp, 1, n)]
           /\ iocp' = SubSeq(iocp, n + 1, Len(iocp))
    /\ Goto(t, "fed")
    /\ UNCHANGED <<port, reflock, lock, active_poll_count, sets, op, ready, closed, found, ctls>>

(* ... or fails, after the time that was given or because the port is closed. *)
DequeueFails(t) ==
    /\ pc[t] = "gqcs"
    /\ port = "open" => iocp = <<>>
    /\ Goto(t, "failed")
    /\ UNCHANGED <<port, reflock, lock, active_poll_count, sets, kernel, local>>

BackInLock(t) ==
    /\ Enter(t, "fed", "feed")
    /\ active_poll_count' = active_poll_count - 1
    /\ UNCHANGED <<port, reflock, sets, kernel, local>>

Feed(t) ==
    /\ pc[t] = "feed"
    /\ taken[t] # <<>>
    /\ FeedEvent(t, Head(taken[t]))
    /\ taken' = [taken EXCEPT ![t] = Tail(@)]
    /\ UNCHANGED <<port, reflock, lock, active_poll_count, iocp, ready, closed, pc, ctls>>

(* With nothing to report and time left, port_wait polls again. *)
PollAgain(t) ==
    /\ pc[t] = "feed"
    /\ taken[t] = <<>> /\ found[t] = {}
    /\ Goto(t, "update")
    /\ UNCHANGED <<port, reflock, lock, active_poll_count, sets, kernel, local>>

WaitReturns(t) ==
    /\ pc[t] = "feed"
    /\ taken[t] = <<>>
    /\ UpdateIfPolling(t, "last_update")
    /\ UNCHANGED <<port, reflock, active_poll_count, sets, kernel, local>>

WaitFails(t) ==
    /\ pc[t] = "failed" /\ lock = NoThread
    /\ active_poll_count' = active_poll_count - 1
    /\ IF active_poll_count > 1 THEN lock' = t /\ Goto(t, "last_update")
                                ELSE lock' = NoThread /\ Goto(t, "unref")
    /\ UNCHANGED <<port, reflock, sets, kernel, local>>

-----------------------------------------------------------------------------
(* epoll_close *)

DelAndRef(t) ==
    /\ pc[t] = "idle" /\ t \notin Loops
    /\ registered
    /\ registered' = FALSE
    /\ refs' = refs + 1
    /\ Goto(t, "close")
    /\ UNCHANGED <<port, destroy, signal, lock, active_poll_count, sets, kernel, local>>

(* port_close.  The packets on the completion port are gone with it. *)
PortClose(t) ==
    /\ pc[t] = "close" /\ lock = NoThread
    /\ port' = "closed"
    /\ iocp' = <<>>
    /\ Goto(t, "destroy")
    /\ UNCHANGED <<reflock, lock, active_poll_count, sets, op, ready, closed, local>>

(* reflock_unref_and_destroy *)
UnrefAndDestroy(t) ==
    /\ pc[t] = "destroy"
    /\ refs' = refs - 1 /\ destroy' = TRUE
    /\ Goto(t, IF refs = 1 THEN "delete" ELSE "await")
    /\ UNCHANGED <<port, registered, signal, lock, active_poll_count, sets, kernel, local>>

AwaitEvent(t) ==
    /\ pc[t] = "await"
    /\ signal
    /\ Goto(t, "delete")
    /\ UNCHANGED <<port, reflock, lock, active_poll_count, sets, kernel, local>>

(* port_delete: what is left of the sockets and the groups goes with the port. *)
PortDelete(t) ==
    /\ pc[t] = "delete"
    /\ port' = "deleted"
    /\ socks' = [i \in Ids |-> FREE]
    /\ sock_tree' = [s \in Socks |-> 0]
    /\ sock_update_queue' = <<>> /\ sock_deleted_queue' = {} /\ poll_group_queue' = <<>>
    /\ op' = [i \in Ids |-> "none"]
    /\ Goto(t, "idle")
    /\ UNCHANGED <<reflock, lock, active_poll_count, iocp, ready, closed, local>>

-----------------------------------------------------------------------------
(* The kernel. *)

Complete(i, how, events) ==
    /\ op' = [op EXCEPT ![i] = "none"]
    /\ iocp' = IF port = "open"
               THEN Append(iocp, [id |-> i, how |-> how, events |-> events]) ELSE iocp
    /\ UNCHANGED <<port, reflock, lock, active_poll_count, sets, ready, closed, pc, local>>

(* A request ends when one of its events is there. *)
EventOccurs(i) ==
    /\ op[i] = "polling"
    /\ LET events == ready[socks[i].sock] \cap socks[i].pending_events
       IN  events # {} /\ Complete(i, "events", events)

SocketClosed(i) ==
    /\ op[i] # "none" /\ socks[i].sock \in closed
    /\ Complete(i, "closed", {})

Cancelled(i) ==
    /\ op[i] = "cancelled"
    /\ Complete(i, "cancelled", {})

ChangeReady(s, events) ==
    /\ s \in Changing \ closed
    /\ ready[s] # events
    /\ ready' = [ready EXCEPT ![s] = events]
    /\ UNCHANGED <<port, reflock, lock, active_poll_count, sets, op, iocp, closed, pc, local>>

CloseSocket(s) ==
    /\ s \in Changing \ closed
    /\ closed' = closed \cup {s}
    /\ ready' = [ready EXCEPT ![s] = {}]
    /\ UNCHANGED <<port, reflock, lock, active_poll_count, sets, op, iocp, pc, local>>

-----------------------------------------------------------------------------
(* What a thread does once it has made a call: entering the critical section, *)
(* and what needs nobody else.                                                *)
EnterLock(t) ==
    EnterWait(t) \/ BackInLock(t) \/ WaitFails(t) \/ CtlFails(t) \/ PortClose(t)

Running(t) ==
    \/ Unref(t) \/ UpdateEvents(t) \/ Updated(t) \/ Feed(t) \/ PollAgain(t)
    \/ found[t] # {} /\ WaitReturns(t)
    \/ port # "open" /\ DequeueFails(t)
    \/ UnrefAndDestroy(t) \/ AwaitEvent(t) \/ PortDelete(t)

Kernel(i) == EventOccurs(i) \/ SocketClosed(i) \/ Cancelled(i)

Done == port = "deleted" /\ (\A t \in Threads : pc[t] = "idle") /\ UNCHANGED vars

Next ==
    \/ \E t \in Threads :
          \/ EnterLock(t) \/ Running(t) \/ Dequeue(t)
          \/ FindAndRef(t, "ctl") \/ FindAndRef(t, "wait") \/ DelAndRef(t)
          \/ WaitReturns(t) \/ DequeueFails(t)
          \/ \E s \in Socks, ask \in Asks : CtlAdd(t, s, ask[1], ask[2])
          \/ \E s \in Changing :
                \/ CtlAddAgain(t, s) \/ CtlDel(t, s)
                \/ \E ask \in Asks : CtlMod(t, s, ask[1], ask[2])
    \/ \E i \in Ids : Kernel(i)
    \/ \E s \in Socks : CloseSocket(s) \/ \E events \in SUBSET Events : ChangeReady(s, events)
    \/ Done

(* A thread that wants the critical section gets it; the kernel ends what it *)
(* can and hands out its packets, to whichever thread.  Only the threads in  *)
(* Loops have to call again.                                                 *)
Fairness ==
    /\ \A t \in Threads : SF_vars(EnterLock(t)) /\ WF_vars(Running(t))
    /\ WF_vars(\E t \in Threads : Dequeue(t))
    /\ \A t \in Loops : WF_vars(FindAndRef(t, "wait"))
    /\ \A i \in Ids : WF_vars(Kernel(i))

SafetySpec == Init /\ [][Next]_vars
Spec == SafetySpec /\ Fairness

-----------------------------------------------------------------------------
(* The reflock counts the threads in a call, active_poll_count those that poll. *)
Callers == {t \in Threads : pc[t] \in InCall \cup {"close", "destroy"}}
Pollers == {t \in Threads : pc[t] \in InPoll}

Counted ==
    /\ refs = Cardinality(Callers) /\ active_poll_count = Cardinality(Pollers)
    /\ \A t \in Threads : pc[t] \in InLock <=> lock = t

(* One thread closes the port, and deletes it when nobody is in a call. *)
ClosedOnce ==
    /\ \A t, u \in Threads : pc[t] \in Closing /\ pc[u] \in Closing => t = u
    /\ registered <=> port = "open" /\ \A t \in Threads : pc[t] \notin Closing
    /\ port = "closed" <=> \E t \in Threads : pc[t] \in {"destroy", "await", "delete"}
    /\ destroy <=> port = "deleted" \/ \E t \in Threads : pc[t] \in {"await", "delete"}
    /\ signal \/ (\E t \in Threads : pc[t] = "delete") => destroy /\ refs = 0
    /\ port = "deleted" => \A t \in Threads : pc[t] = "idle"

(* Each sock_state is in the tree or waits to be deleted; the update queue *)
(* holds those of the tree, once at most, and every one without a request. *)
Live(i) == Allocated(i) /\ ~socks[i].delete_pending

Reachable ==
    /\ \A i \in Ids, s \in Socks : sock_tree[s] = i <=> Live(i) /\ socks[i].sock = s
    /\ \A i \in Ids : i \in sock_deleted_queue <=> Allocated(i) /\ ~Live(i)
    /\ \A i \in sock_deleted_queue : socks[i].status = "cancelled"
    /\ IsInjective(sock_update_queue)
    /\ \A i \in ToSet(sock_update_queue) : Live(i)
    /\ \A i \in Ids : Allocated(i) /\ socks[i].status = "idle" => Contains(sock_update_queue, i)

(* The groups count their sockets, and the full ones stand in front, so that *)
(* looking at the last one is enough to find room (poll_group_acquire).      *)
Members(g) == {i \in Ids : Allocated(i) /\ socks[i].group = g}

GroupsSorted ==
    /\ \A m, n \in DOMAIN poll_group_queue :
          /\ m < n /\ poll_group_queue[n].size = MaxGroup => poll_group_queue[m].size = MaxGroup
          /\ poll_group_queue[m].id = poll_group_queue[n].id => m = n
    /\ \A n \in DOMAIN poll_group_queue :
          poll_group_queue[n].size = Cardinality(Members(poll_group_queue[n].id))
    /\ \A i \in Ids : Allocated(i) => \E n \in DOMAIN poll_group_queue : poll_group_queue[n].id = socks[i].group
    /\ {poll_group_queue[n].id : n \in DOMAIN poll_group_queue} = DOMAIN poll_group_queue

(* The packets on the completion port and in the hands of the threads. *)
Holders == Threads \cup {NoThread}
PacketsOf(h) == IF h = NoThread THEN iocp ELSE taken[h]
Returning(i) == \E h \in Holders : \E n \in DOMAIN PacketsOf(h) : PacketsOf(h)[n].id = i

(* A request in the kernel or the packet of one refers to a sock_state that *)
(* knows of it, and is the only one that does.                              *)
OneReference ==
    /\ \A g, h \in Holders : \A m \in DOMAIN PacketsOf(g), n \in DOMAIN PacketsOf(h) :
          PacketsOf(g)[m].id = PacketsOf(h)[n].id => g = h /\ m = n
    /\ \A i \in Ids : Returning(i) => op[i] = "none"
    /\ \A i \in Ids : Returning(i) \/ op[i] # "none" => Allocated(i) /\ socks[i].status # "idle"
    /\ port = "open" => \A i \in Ids :
          Allocated(i) /\ socks[i].status # "idle" => Returning(i) \/ op[i] # "none"
    /\ \A t \in Threads : taken[t] # <<>> => pc[t] \in {"fed", "feed"}
    /\ port # "open" => iocp = <<>>

(* The memory a request of the kernel, a packet on the completion port or a  *)
(* packet in a thread's hands refers to is that of a sock_state which knows  *)
(* of it, and there is one such reference at most: sock__delete puts off     *)
(* what sock_feed_event completes.  The port itself goes only when nobody is *)
(* in a call, which the reflock is for; its count, that of the threads that  *)
(* poll, and the groups' are right, and the queues hold a socket once.       *)
MemorySafe == TypeOK /\ Counted /\ ClosedOnce /\ Reachable /\ GroupsSorted /\ OneReference

(* While a thread waits and nobody is in the critical section, every socket  *)
(* that is watched has a request in the kernel for all the user asked for,   *)
(* or its last request is on its way back: changes made by epoll_ctl or left *)
(* by another epoll_wait never wait for the sleeping thread to wake up.      *)
Armed ==
    active_poll_count > 0 /\ lock = NoThread /\ port = "open" =>
        \A i \in Ids :
            Allocated(i) /\ op[i] # "cancelled" /\ ~Returning(i) =>
                op[i] = "polling" /\ socks[i].user_events \subseteq socks[i].pending_events

Wanted(s) ==
    /\ port = "open" /\ registered
    /\ sock_tree[s] # 0
    /\ ready[s] \cap socks[sock_tree[s]].user_events # {}

(* Level-triggered: as long as an event is there and asked for, some thread  *)
(* that waits reports the socket, again and again if the event stays; with   *)
(* more sockets ready than a call of epoll_wait returns, none is left out.   *)
EventReported ==
    \A s \in Socks : Wanted(s) ~> (~Wanted(s) \/ \E t \in Threads : s \in found[t])

(* epoll_close wakes the threads that wait and returns when they are out,    *)
(* the port then being gone.                                                 *)
CloseReturns == \A t \in Threads \ Loops : pc[t] = "close" ~> port = "deleted"
=============================================================================
