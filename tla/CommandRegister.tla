--------------------------- MODULE CommandRegister ---------------------------
(***************************************************************************)
(* src/Util/CMD.h, CMD.cpp: threads run the commands of the register, by   *)
(* line or by name, while others add and remove commands.  A call by line  *)
(* holds the register's recursive lock throughout; a call by name only     *)
(* while it looks the command up.  Both then take the one lock that all    *)
(* parsers share.  Whoever has made a call deletes std::cout at its end,   *)
(* which is undefined: the process aborts or goes on.                      *)
(***************************************************************************)
EXTENDS Integers, FiniteSets, Functions

CONSTANTS
    Threads,
    Names,
    Commands,    \* command objects
    Helps        \* those whose callback prints the help (CMD_help)

Nobody == "nobody"

CommandRegisterAssumption == Helps \subseteq Commands /\ Nobody \notin Threads

VARIABLES
    cmd_map,     \* name -> command
    mtx,         \* the thread that has _mtx, or Nobody
    s_mtx_opt,   \* the thread that has s_mtx_opt, or Nobody
    args,        \* command -> whose arguments it holds (a CMD is its own mINI)
    call,        \* thread -> its call
    mixed,       \* threads whose command another one ran by name, or they by name
                 \* while another one did, at the same time
    aborted      \* the process has ended at the deletion of std::cout

vars == <<cmd_map, mtx, s_mtx_opt, args, call, mixed, aborted>>

Idle == [pc |-> "idle"]
Running(how, command) == [pc |-> "clear", how |-> how, command |-> command]

Busy == {t \in Threads : call[t].pc # "idle"}

TypeOK ==
    /\ DOMAIN cmd_map \subseteq Names /\ Range(cmd_map) \subseteq Commands
    /\ mtx \in Threads \cup {Nobody} /\ s_mtx_opt \in Threads \cup {Nobody}
    /\ args \in [Commands -> SUBSET Threads]
    /\ \A t \in Busy : /\ call[t].pc \in {"clear", "lock", "parse", "callback"}
                       /\ call[t].how \in {"line", "name"} /\ call[t].command \in Commands
    /\ mixed \subseteq Busy
    /\ aborted \in BOOLEAN

Init ==
    /\ cmd_map = [n \in {} |-> n]
    /\ mtx = Nobody /\ s_mtx_opt = Nobody
    /\ args = [c \in Commands |-> {}]
    /\ call = [t \in Threads |-> Idle]
    /\ mixed = {}
    /\ aborted = FALSE

Goto(t, pc) == call' = [call EXCEPT ![t].pc = pc]

-----------------------------------------------------------------------------
(* registCMD, unregistCMD and clear, called by a thread that runs no command. *)
(* emplace keeps a command that is there.                                     *)
Register(t, n, c) ==
    /\ call[t].pc = "idle" /\ mtx = Nobody
    /\ cmd_map' = IF n \in DOMAIN cmd_map THEN cmd_map
                  ELSE [m \in DOMAIN cmd_map \cup {n} |-> IF m = n THEN c ELSE cmd_map[m]]
    /\ UNCHANGED <<mtx, s_mtx_opt, args, call, mixed, aborted>>

Unregister(t, gone) ==
    /\ call[t].pc = "idle" /\ mtx = Nobody
    /\ cmd_map' = Restrict(cmd_map, DOMAIN cmd_map \ gone)
    /\ UNCHANGED <<mtx, s_mtx_opt, args, call, mixed, aborted>>

(* Who runs command c by now. *)
Others(c) == {u \in Busy : call[u].command = c}

(* Mutation: the lock is let go once the command is found. *)
RunLineUnlocked(t, n) ==
    /\ call[t].pc = "idle" /\ mtx = Nobody
    /\ n \in DOMAIN cmd_map
    /\ call' = [call EXCEPT ![t] = Running("line", cmd_map[n])]
    /\ UNCHANGED <<cmd_map, mtx, s_mtx_opt, args, mixed, aborted>>

(* operator()(line): the lock is kept, the command is not. *)
RunLine(t, n) ==
    /\ call[t].pc = "idle" /\ mtx = Nobody
    /\ n \in DOMAIN cmd_map                     \* else an exception lets go of the lock
    /\ mtx' = t
    /\ call' = [call EXCEPT ![t] = Running("line", cmd_map[n])]
    /\ mixed' = mixed \cup {u \in Others(cmd_map[n]) : call[u].how = "name"}
                      \cup {u \in {t} : \E v \in Others(cmd_map[n]) : call[v].how = "name"}
    /\ UNCHANGED <<cmd_map, s_mtx_opt, args, aborted>>

(* operator()(name, ...), CMD_DO and GET_CMD: a copy of the pointer. *)
RunNamed(t, n) ==
    /\ call[t].pc = "idle" /\ mtx = Nobody
    /\ n \in DOMAIN cmd_map
    /\ call' = [call EXCEPT ![t] = Running("name", cmd_map[n])]
    /\ mixed' = IF Others(cmd_map[n]) = {} THEN mixed
                ELSE mixed \cup Others(cmd_map[n]) \cup {t}
    /\ UNCHANGED <<cmd_map, mtx, s_mtx_opt, args, aborted>>

(* CMD::operator(): the arguments are cleared before the parser is locked. *)
Clear(t) ==
    /\ call[t].pc = "clear"
    /\ args' = [args EXCEPT ![call[t].command] = {}]
    /\ Goto(t, "lock")
    /\ UNCHANGED <<cmd_map, mtx, s_mtx_opt, mixed, aborted>>

Lock(t) ==
    /\ call[t].pc = "lock" /\ s_mtx_opt = Nobody
    /\ s_mtx_opt' = t
    /\ Goto(t, "parse")
    /\ UNCHANGED <<cmd_map, mtx, args, mixed, aborted>>

(* OptionParser::operator(): the arguments are added to what the command has. *)
ParseArgs(t) ==
    /\ call[t].pc = "parse"
    /\ args' = [args EXCEPT ![call[t].command] = @ \cup {t}]
    /\ Goto(t, "callback")
    /\ UNCHANGED <<cmd_map, mtx, s_mtx_opt, mixed, aborted>>

(* CMD::operator() is left, by a return or an exception.  Its coutPtr owns    *)
(* std::cout, whether there is a stream or not, and deletes it before the     *)
(* register is let go.  If that does not end the process, the locks are free. *)
Leave(t) ==
    \/ aborted' = TRUE /\ UNCHANGED <<cmd_map, mtx, s_mtx_opt, args, call, mixed>>
    \/ /\ mtx' = IF mtx = t THEN Nobody ELSE mtx
       /\ s_mtx_opt' = IF s_mtx_opt = t THEN Nobody ELSE s_mtx_opt
       /\ call' = [call EXCEPT ![t] = Idle]
       /\ mixed' = mixed \ {t}
       /\ UNCHANGED <<cmd_map, args, aborted>>

ParseFails(t) == call[t].pc = "parse" /\ Leave(t)

(* Mutation: the lock is not recursive. *)
CallbackLocksOnce(t) ==
    /\ call[t].pc = "callback"
    /\ call[t].command \in Helps => mtx = Nobody
    /\ Leave(t)

(* _on_completed, with both locks as they are; printHelp takes the register's. *)
Callback(t) ==
    /\ call[t].pc = "callback"
    /\ call[t].command \in Helps => mtx \in {Nobody, t}
    /\ Leave(t)

(* CMDRegister::printHelp called by a thread that runs no command.  Without a *)
(* stream it deletes std::cout as well.                                       *)
PrintHelp(t) ==
    /\ call[t].pc = "idle" /\ mtx = Nobody
    /\ aborted' \in BOOLEAN
    /\ UNCHANGED <<cmd_map, mtx, s_mtx_opt, args, call, mixed>>

Proceed(t) == ~aborted /\ (Clear(t) \/ Lock(t) \/ ParseArgs(t) \/ ParseFails(t) \/ Callback(t))

Begin(t) ==
    /\ ~aborted
    /\ \/ PrintHelp(t)
       \/ \E n \in Names : RunLine(t, n) \/ RunNamed(t, n)
       \/ \E n \in Names, c \in Commands : Register(t, n, c)
       \/ \E gone \in {{n} : n \in Names} \cup {Names} : Unregister(t, gone)

Next == \E t \in Threads : Proceed(t) \/ Begin(t)

(* A thread that can go on does, and gets a lock that is let go time and again. *)
Fairness == \A t \in Threads : SF_vars(Proceed(t))

Spec == Init /\ [][Next]_vars /\ Fairness

-----------------------------------------------------------------------------
(* A command is not destroyed while it runs, although a call by line keeps no *)
(* pointer; and its callback sees the arguments of its own call, unless the   *)
(* same command is run by name at the same time: the threads then clear and   *)
(* fill one set of arguments.                                                 *)
CallsApart ==
    \A t \in Busy :
        /\ call[t].how = "line" => call[t].command \in Range(cmd_map)
        /\ call[t].pc = "callback" /\ t \notin mixed => args[call[t].command] = {t}

(* The one way in which calls wait for each other: by line a thread has the *)
(* register and waits for the parsers, by name another one is in help.      *)
Crossed ==
    \E t, u \in Busy :
        /\ mtx = t /\ call[t].pc = "lock"
        /\ s_mtx_opt = u /\ call[u].pc \in {"parse", "callback"} /\ call[u].how = "name"
        /\ call[u].command \in Helps

(* Every call returns if the process outlives the deletions of std::cout, and *)
(* two calls wait for each other only crosswise, in the way above: never two  *)
(* by line, nor two by name, nor when the one by name does not print the help. *)
CallsReturn ==
    \A t \in Threads : call[t].pc # "idle" ~> call[t].pc = "idle" \/ Crossed \/ aborted
===============================================================================
