------------------------------- MODULE Sockets -------------------------------
(***************************************************************************)
(* src/Network/sockutil.cpp: threads make sockets - connect, listen and    *)
(* bindUdpSock - and ask for the host's addresses.  Each is several system *)
(* calls, any of which may fail, with the descriptors of the process in    *)
(* common; and connect looks up the name in a cache, under a lock that is  *)
(* not held while the name is resolved.                                    *)
(*                                                                         *)
(* The calls that only set an option of the socket, whose failure is       *)
(* ignored, are left out; a socket that connects asynchronously is given   *)
(* to the caller as one that is connected.                                 *)
(***************************************************************************)
EXTENDS Integers, FiniteSets, SequencesExt, Functions

CONSTANTS
    Threads,
    Calls,           \* BOUND: the calls they make, of those below
    Hosts,           \* BOUND: names; connect also takes an address
    LocalIps,        \* BOUND: addresses to bind to
    MaxFds,          \* descriptors the process may have
    HasIPv6,         \* what socket(AF_INET6) would say with descriptors left
    expire_sec,
    MaxResolve,      \* BOUND: how old an answer may be when it is stored
    Adapters,        \* BOUND: lists of network adapters
    Questions        \* BOUND: what is asked of them

Caller == "caller"          \* who has been given the socket

SocketsAssumption ==
    /\ Caller \notin Threads
    /\ expire_sec \in Nat /\ MaxResolve \in Nat /\ MaxFds \in Nat
    /\ HasIPv6 \in BOOLEAN
    /\ Calls \subseteq {"connect", "listen", "bindUdpSock", "get_local_ip",
                       "getInterfaceList", "get_ifr_ip", "get_ifr_name"}
    /\ LocalIps \subseteq {"::", "0.0.0.0", "an IPv4", "an IPv6"}
    /\ Adapters \subseteq Seq([name : STRING, ip : STRING])

VARIABLES
    flag,            \* the static of support_ipv6: "unset", "probing", "yes" or "no"
    fds,             \* descriptor -> the socket
    dns_cache,       \* host -> time since create_time and since it was resolved
    call             \* thread -> its call

vars == <<flag, fds, dns_cache, call>>

Idle == [pc |-> "idle"]
Families == {"AF_INET", "AF_INET6"}

TypeOK ==
    /\ flag \in {"unset", "probing", "yes", "no"}
    /\ DOMAIN fds \subseteq 1..MaxFds
    /\ \A fd \in DOMAIN fds : fds[fd].owner \in Threads \cup {Caller}
    /\ DOMAIN dns_cache \subseteq Hosts
    /\ \A h \in DOMAIN dns_cache :
          dns_cache[h].age \in 0..(expire_sec + 1) /\ dns_cache[h].old \in Nat
    /\ \A t \in Threads : call[t].pc \in {"idle", "resolve", "store", "probe", "socket", "bind",
                                           "connect", "listen", "adapters", "told"}

Init ==
    /\ flag = "unset"
    /\ fds = [fd \in {} |-> fd]
    /\ dns_cache = [h \in {} |-> h]
    /\ call = [t \in Threads |-> Idle]

Set(t, record) == call' = [call EXCEPT ![t] = record]
Busy == {t \in Threads : call[t].pc \notin {"idle", "told"}}

-----------------------------------------------------------------------------
(* socket(): the lowest free descriptor.  It fails if there is none. *)
Free == 1..MaxFds \ DOMAIN fds
Lowest == CHOOSE fd \in Free : \A other \in Free : fd <= other
Open(t, family) == fds' = [fd \in DOMAIN fds \cup {Lowest} |->
                             IF fd = Lowest THEN [owner |-> t, family |-> family, exposed |-> FALSE]
                             ELSE fds[fd]]
Close(fd) == fds' = Restrict(fds, DOMAIN fds \ {fd})

(* The call gives the caller the socket, or -1. *)
Give(t, fd) ==
    /\ fds' = [fds EXCEPT ![fd].owner = Caller]
    /\ Set(t, Idle)

(* The caller closes what it was given. *)
CloseGiven(fd) ==
    /\ fds[fd].owner = Caller
    /\ Close(fd)
    /\ UNCHANGED <<flag, dns_cache, call>>

-----------------------------------------------------------------------------
(* getDomainIP.  Of the addresses of an answer the preferred one is of AF_INET *)
(* if there is any; served is how old the answer is.                           *)
Answer(t, request, served) ==
    \E family \in Families :
        Set(t, [pc |-> "socket", op |-> "connect", ip |-> request.ip, family |-> family,
                served |-> served])

(* make_sockaddr takes what is an address; else the cache is asked. *)
ConnectTo(t, ip) ==
    /\ "connect" \in Calls /\ call[t].pc = "idle"
    /\ Answer(t, [ip |-> ip], 0)
    /\ UNCHANGED <<flag, fds, dns_cache>>

(* Mutation: the cache knows no end. *)
LookupForever(t, h, ip) ==
    /\ call[t].pc = "idle"
    /\ LET request == [pc |-> "resolve", host |-> h, ip |-> ip]
       IN  IF h \in DOMAIN dns_cache THEN Answer(t, request, dns_cache[h].old) ELSE Set(t, request)
    /\ UNCHANGED <<flag, fds, dns_cache>>

Lookup(t, h, ip) ==
    /\ call[t].pc = "idle"
    /\ LET request == [pc |-> "resolve", host |-> h, ip |-> ip]
       IN  IF h \in DOMAIN dns_cache /\ dns_cache[h].age <= expire_sec
           THEN Answer(t, request, dns_cache[h].old) /\ UNCHANGED dns_cache
           ELSE /\ Set(t, request)
                /\ dns_cache' = Restrict(dns_cache, DOMAIN dns_cache \ {h})
    /\ UNCHANGED <<flag, fds>>

(* getaddrinfo, without the lock: it may take long, and may fail. *)
Resolve(t) ==
    /\ call[t].pc = "resolve"
    /\ \/ call' = [call EXCEPT ![t] = [pc |-> "store", host |-> @.host, ip |-> @.ip, old |-> 0]]
       \/ Set(t, Idle)
    /\ UNCHANGED <<flag, fds, dns_cache>>

(* setCacheDomainIP: the answer counts from now on. *)
Store(t) ==
    /\ call[t].pc = "store"
    /\ dns_cache' = [h \in DOMAIN dns_cache \cup {call[t].host} |->
                       IF h = call[t].host THEN [age |-> 0, old |-> call[t].old] ELSE dns_cache[h]]
    /\ Answer(t, call[t], call[t].old)
    /\ UNCHANGED <<flag, fds>>

Atmost(n, bound) == IF n <= bound THEN n ELSE bound

(* A second goes by. *)
Tick ==
    /\ \A t \in Threads : call[t].pc = "store" => call[t].old < MaxResolve
    /\ dns_cache' = [h \in DOMAIN dns_cache |->
                       [age |-> Atmost(dns_cache[h].age + 1, expire_sec + 1),
                        old |-> Atmost(dns_cache[h].old + 1, expire_sec + MaxResolve + 1)]]
    /\ call' = [t \in Threads |-> IF call[t].pc = "store" THEN [call[t] EXCEPT !.old = @ + 1]
                                  ELSE call[t]]
    /\ UNCHANGED <<flag, fds>>

-----------------------------------------------------------------------------
(* listen and bindUdpSock ask support_ipv6, which finds out once and for all:  *)
(* the first caller opens a socket and closes it, others wait meanwhile.  That *)
(* there was no descriptor left counts as no support.                          *)
FamilyFor(ip, support) == IF support = "no" \/ ip \in {"0.0.0.0", "an IPv4"} THEN "AF_INET" ELSE "AF_INET6"

Make(t, op, ip) ==
    /\ op \in Calls /\ call[t].pc = "idle" /\ flag # "probing"
    /\ IF flag = "unset"
       THEN \/ HasIPv6 /\ Free # {} /\ Open(t, "AF_INET6") /\ flag' = "probing"
               /\ Set(t, [pc |-> "probe", op |-> op, ip |-> ip, fd |-> Lowest])
            \/ (~HasIPv6 \/ Free = {}) /\ flag' = "no" /\ UNCHANGED fds
               /\ Set(t, [pc |-> "socket", op |-> op, ip |-> ip, family |-> FamilyFor(ip, "no")])
       ELSE /\ Set(t, [pc |-> "socket", op |-> op, ip |-> ip, family |-> FamilyFor(ip, flag)])
            /\ UNCHANGED <<flag, fds>>
    /\ UNCHANGED dns_cache

Probed(t) ==
    /\ call[t].pc = "probe"
    /\ Close(call[t].fd)
    /\ flag' = "yes"
    /\ Set(t, [pc |-> "socket", op |-> call[t].op, ip |-> call[t].ip,
               family |-> FamilyFor(call[t].ip, "yes")])
    /\ UNCHANGED dns_cache

(* The three of them go on alike: socket, its options, bind. *)
Socket(t) ==
    /\ call[t].pc = "socket"
    /\ \/ /\ Free # {}
          /\ Open(t, call[t].family)
          /\ Set(t, [pc |-> "bind", op |-> call[t].op, ip |-> call[t].ip, fd |-> Lowest])
       \/ Set(t, Idle) /\ UNCHANGED fds
    /\ UNCHANGED <<flag, dns_cache>>

(* bind_sock: an address of the other family becomes that of all interfaces, *)
(* which exposes a socket that was meant for one.                            *)
Exposed(ip, family) ==
    \/ ip = "an IPv4" /\ family = "AF_INET6"
    \/ ip = "an IPv6" /\ family = "AF_INET"

(* Mutation: a socket that could not be bound is forgotten. *)
BindOrForget(t) ==
    /\ call[t].pc = "bind"
    /\ \/ Set(t, Idle) /\ UNCHANGED fds
       \/ call[t].op # "bindUdpSock" /\ call' = [call EXCEPT ![t].pc = call[t].op] /\ UNCHANGED fds
    /\ UNCHANGED <<flag, dns_cache>>

Bind(t) ==
    /\ call[t].pc = "bind"
    /\ LET fd == call[t].fd
           bound == [fds EXCEPT ![fd].exposed = call[t].op # "connect" /\ Exposed(call[t].ip, fds[fd].family)]
       IN  \/ Close(fd) /\ Set(t, Idle)
           \/ /\ call[t].op # "bindUdpSock"
              /\ fds' = bound
              /\ call' = [call EXCEPT ![t].pc = call[t].op]
           \/ /\ call[t].op = "bindUdpSock"
              /\ fds' = [bound EXCEPT ![fd].owner = Caller]
              /\ Set(t, Idle)
    /\ UNCHANGED <<flag, dns_cache>>

Listen(t) ==
    /\ call[t].pc = "listen"
    /\ \/ Give(t, call[t].fd)
       \/ Close(call[t].fd) /\ Set(t, Idle)
    /\ UNCHANGED <<flag, dns_cache>>

(* connect() succeeds, or is under way and was meant to be, or fails. *)
Connect(t) ==
    /\ call[t].pc = "connect"
    /\ \/ Give(t, call[t].fd)
       \/ Close(call[t].fd) /\ Set(t, Idle)
    /\ UNCHANGED <<flag, dns_cache>>

-----------------------------------------------------------------------------
(* An adapter has a name and an address. *)
Docker(adapter) == adapter.name = "docker0"

(* check_ip, for one adapter after the other: how far it has got. *)
Checked(state, adapters, i) ==
    IF state.done \/ Docker(adapters[i]) \/ adapters[i].ip = "loopback" THEN state
    ELSE [address |-> i, done |-> adapters[i].ip = "private"]

(* Which adapter's address, 0 for 127.0.0.1. *)
get_local_ip(adapters) ==
    LET after[i \in 0..Len(adapters)] ==
            IF i = 0 THEN [address |-> 0, done |-> FALSE] ELSE Checked(after[i - 1], adapters, i)
    IN  after[Len(adapters)].address

(* The first adapter of which something holds, 0 if there is none. *)
get_ifr_ip(adapters, if_name) == SelectInSeq(adapters, LAMBDA a : a.name = if_name)
get_ifr_name(adapters, local_ip) == SelectInSeq(adapters, LAMBDA a : a.ip = local_ip)
getInterfaceList(adapters) == {<<adapters[i].name, adapters[i].ip>> : i \in DOMAIN adapters}

Reply(question, adapters) ==
    IF question.what = "get_local_ip" THEN get_local_ip(adapters)
    ELSE IF question.what = "get_ifr_ip" THEN get_ifr_ip(adapters, question.of)
    ELSE IF question.what = "get_ifr_name" THEN get_ifr_name(adapters, question.of)
    ELSE getInterfaceList(adapters)

(* for_each_netAdapter_posix: a socket to ask the system with. *)
AskAdapters(t, question) ==
    /\ question.what \in Calls /\ call[t].pc = "idle"
    /\ \/ Free # {} /\ Open(t, "AF_INET") /\ Set(t, [pc |-> "adapters", question |-> question, fd |-> Lowest])
       \/ /\ Set(t, [pc |-> "told", question |-> question, adapters |-> <<>>, reply |-> Reply(question, <<>>)])
          /\ UNCHANGED fds
    /\ UNCHANGED <<flag, dns_cache>>

Told(t) ==
    /\ call[t].pc = "adapters"
    /\ Close(call[t].fd)
    /\ \E adapters \in Adapters \cup {<<>>} :            \* none where the ioctl fails
          Set(t, [pc |-> "told", question |-> call[t].question, adapters |-> adapters,
                  reply |-> Reply(call[t].question, adapters)])
    /\ UNCHANGED <<flag, dns_cache>>

Done(t) == call[t].pc = "told" /\ Set(t, Idle) /\ UNCHANGED <<flag, fds, dns_cache>>

Next ==
    \/ \E t \in Threads, ip \in LocalIps :
          ConnectTo(t, ip) \/ \E h \in Hosts : Lookup(t, h, ip)
    \/ \E t \in Threads, op \in {"listen", "bindUdpSock"}, ip \in LocalIps : Make(t, op, ip)
    \/ \E t \in Threads : \/ Resolve(t) \/ Store(t) \/ Probed(t) \/ Socket(t) \/ Bind(t)
                          \/ Listen(t) \/ Connect(t) \/ Told(t) \/ Done(t)
    \/ \E t \in Threads, question \in Questions : AskAdapters(t, question)
    \/ \E fd \in DOMAIN fds : CloseGiven(fd)
    \/ Tick

Spec == Init /\ [][Next]_vars

-----------------------------------------------------------------------------
(* Whatever fails, every open descriptor is a caller's or that of a call still *)
(* in progress; and a server's socket that was to be bound to one address is   *)
(* open on all interfaces only where support_ipv6 has found no support.        *)
DescriptorsAccounted ==
    \A fd \in DOMAIN fds :
        /\ \/ fds[fd].owner = Caller
           \/ fds[fd].owner \in Busy /\ "fd" \in DOMAIN call[fds[fd].owner]
                                     /\ call[fds[fd].owner].fd = fd
        /\ fds[fd].exposed => flag = "no"

(* However calls overlap, nobody is told an address that was resolved longer ago *)
(* than answers are valid, and longer than it took to store it besides.           *)
AnswersFresh ==
    \A t \in Threads :
        call[t].pc = "socket" /\ call[t].op = "connect" => call[t].served <= expire_sec + MaxResolve

(* The address that get_local_ip tells is the first private one that is not       *)
(* docker's, without one the last that is not the loopback's; and of what         *)
(* getInterfaceList lists, get_ifr_name tells a name for every address, and       *)
(* get_ifr_ip for that name the same address, unless the adapter has another one  *)
(* before.                                                                        *)
AddressesRight ==
    \A t \in Threads : call[t].pc = "told" =>
        LET list == call[t].adapters
            reply == call[t].reply
            usable == {i \in DOMAIN list : ~Docker(list[i]) /\ list[i].ip # "loopback"}
            private == {i \in usable : list[i].ip = "private"}
            what == call[t].question.what
        IN  /\ what = "get_local_ip" =>
                  IF private # {} THEN reply \in private /\ \A i \in private : reply <= i
                  ELSE IF usable # {} THEN reply \in usable /\ \A i \in usable : i <= reply
                  ELSE reply = 0
            /\ what = "getInterfaceList" =>
                  \A pair \in reply :
                      LET named == get_ifr_name(list, pair[2])
                          again == get_ifr_ip(list, list[named].name)
                      IN  /\ named # 0 /\ <<list[named].name, pair[2]>> \in reply
                          /\ list[again].ip = pair[2] \/ again < named
===============================================================================
