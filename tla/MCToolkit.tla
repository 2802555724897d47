------------------------------ MODULE MCToolkit ------------------------------
(* The parts that have no state in common with others, side by side: which one *)
(* runs is chosen once, the others stay as they began.                         *)
EXTENDS Semaphore, Sequences, SequencesExt

CONSTANTS th1, th2, th3, th4, w1, w2, c1, NoTask

VARIABLES
    component,
    owner, pc, queue, permits, arg, stack, held, stage, cancelled,              \* ThreadPool
    tree, added,                                                                \* RedBlackTree
    map_options, map_char_index, all_args, scan, phase, given, edits, holed, lost,  \* OptionParser
    cmd_map, mtx, s_mtx_opt, args, call, mixed, aborted,                        \* CommandRegister
    today, late, daylight, disk, log_file_map, index, last_day, path,          \* FileChannel
    can_write, failed,
    dirs, files, does, raced, harmed,                                           \* Files
    asked,                                                                      \* Paths
    place, state, capacity, shrunk, starved,                                    \* Buffers
    dst, _current_timezone, _daylight_active, told,                             \* LocalTime
    sleeping, last_sleep_time, last_wake_time, time_list, waits, past, answer,  \* LoadCounter
    threads, thread_pos, loads, search, rotation,                               \* Executors
    next, closures, measured, dropped, called, delays,
    map, file, saved, read,                                                     \* Ini
    flag, fds, dns_cache, making                                                \* Sockets

MCCallers == {th1, th2, th3, th4}
MCPostSizes == {0, 1, 2, 3}

-----------------------------------------------------------------------------
Manual == INSTANCE ThreadPool
    WITH Workers <- {w1, w2}, Clients <- {c1}, Tasks <- {th1, th2}, AutoRun <- FALSE

Tree == INSTANCE RedBlackTree WITH MaxKey <- 8

Option(short, long, type, default, must) ==
    [short |-> short, long |-> long, arg_type |-> type, default_value |-> default, must_exist |-> must]

(* --ab without, -b --ac with, -c --c perhaps with an argument. *)
MCAddable == {Option("a", <<"a", "b">>, 0, <<"NULL">>, FALSE),
              Option("b", <<"a", "c">>, 1, <<"NULL">>, TRUE),
              Option("c", <<"c">>, 2, <<"d">>, FALSE)}

MCArguments == {<<"x">>, <<"-", "-">>, <<"-", "a", "b">>, <<"-", "c">>,
                <<"-", "-", "a", "c", "=", "v">>, <<"-", "-", "a">>}
MCCommandLines == SeqOf(MCArguments, 2)
    \cup {<<x, <<"y">>, o, p>> : x \in {<<"x">>, <<"-", "a">>}, o \in {<<"-", "b", "v">>, <<"-", "-", "a", "c">>},
                                 p \in {<<"z">>, <<"-", "-">>, <<"-", "c", "d">>}}

Options == INSTANCE OptionParser
    WITH Addable <- MCAddable, CommandLines <- MCCommandLines,
         Orderings <- {"PERMUTE", "REQUIRE_ORDER"}, MaxEdits <- 4

(* Longer histories of two options, one of which may lose its number. *)
MCEdited == {o \in MCAddable : o.short \in {"a", "b"}}
MCFewLines == {<<<<"-", "b", "v">>>>, <<<<"-", "-", "a", "c", "=", "v">>, <<"-", "a">>>>,
               <<<<"-", "b", "v">>, <<"-", "-", "a", "c", "=", "w">>>>}

Edits == INSTANCE OptionParser
    WITH Addable <- MCEdited, CommandLines <- MCFewLines, Orderings <- {"PERMUTE"}, MaxEdits <- 7

Register == INSTANCE CommandRegister
    WITH Threads <- {th1, th2}, Names <- {"n1", "n2"}, Commands <- {"plain", "help"}, Helps <- {"help"}

Slices == INSTANCE FileChannel
    WITH Base <- 2, log_max_day <- 2, log_max_count <- 2, Seasons <- {FALSE}, MaxDay <- 1, MaxIndex <- 4

Days == INSTANCE FileChannel
    WITH Base <- 2, log_max_day <- 2, log_max_count <- 2, Seasons <- BOOLEAN, MaxDay <- 2, MaxIndex <- 1

Disk == INSTANCE Files
    WITH Threads <- {th1, th2}, InitFiles <- {<<"d", "e", "f">>},
         Deleted <- {<<"d", "e", "f">>, <<"d">>}, Created <- {<<"d", "e", "g">>}

Paths == INSTANCE Paths
    WITH Letters <- {"a", "b", "e"}, Texts <- SeqOf({"/", ".", "a"}, 4), exeDir <- <<"/", "e", "/">>,
         Directories <- {<<>>, <<"/">>, <<"/", "a">>, <<"/", "a", "/", "b", "/">>,
                         <<".", "/">>, <<".", ".">>, <<".", "/", "a">>,
                         <<".", ".", "/", ".", ".">>}

Memory == INSTANCE Buffers WITH Buffers <- {1}, Sizes <- {0, 1, 2, 5}, Small <- 3, PoolSize <- 1, asked <- capacity

(* The ends of months and of years, and around the leap days of 1972 and 2000 and *)
(* the one that 2100 has not.                                                     *)
MCDays == 1..70 \cup 360..430 \cup 788..790 \cup 1094..1097
          \cup 11015..11018 \cup 47539..47542

Calendar == INSTANCE LocalTime
    WITH secs_min <- 2, secs_hour <- 4, secs_day <- 96, Zones <- {-32, 20},
         Instants <- {96 * d + s : d \in MCDays, s \in {0, 19, 20, 95}}

Load == INSTANCE LoadCounter WITH max_size <- 3, max_usec <- 4, MaxTime <- 5

Search == INSTANCE Executors
    WITH Size <- 3, Loads <- {0, 50}, Callers <- {th1}, MaxDelays <- 0, call <- search, given <- next

Delays == INSTANCE Executors
    WITH Size <- 3, Loads <- {0}, Callers <- {}, MaxDelays <- 2, call <- search, given <- next

Overlap == INSTANCE Executors
    WITH Size <- 2, Loads <- {0, 50}, Callers <- {th1, th2}, MaxDelays <- 0, call <- search, given <- next

MCKeys == {<<"a">>, <<"b">>, <<".", "a">>, <<"a", ".", "b">>, <<"b", ".", "a", ".", "b">>, <<"a", ".">>, <<>>,
           <<"[", "a">>, <<".", "[", "a", ".", "b">>, <<";", "a">>, <<"a", "=">>, <<"a", " ", ".", "a">>}
MCValues == {<<>>, <<"b">>, <<"]">>, <<" ", "b", "=">>, <<"b", "0xFF">>}

Ini == INSTANCE Ini
    WITH Characters <- <<" ", ".", ";", "=", "[", "]", "a", "b", "0xFF">>,
         Keys <- MCKeys, Values <- MCValues, MaxKeys <- 2

MCAdapters == SeqOf([name : {"eth0", "docker0"}, ip : {"loopback", "private", "other"}], 2)
MCQuestions == {[what |-> "get_local_ip"], [what |-> "getInterfaceList"],
                [what |-> "get_ifr_ip", of |-> "eth0"], [what |-> "get_ifr_name", of |-> "other"]}

Names == INSTANCE Sockets
    WITH Threads <- {th1, th2}, Calls <- {"connect"}, Hosts <- {"h"}, LocalIps <- {"::"}, MaxFds <- 1,
         HasIPv6 <- TRUE, expire_sec <- 1, MaxResolve <- 1, Adapters <- {}, Questions <- {}, call <- making

Descriptors == INSTANCE Sockets
    WITH Threads <- {th1, th2}, Calls <- {"connect", "listen", "bindUdpSock"}, Hosts <- {},
         LocalIps <- {"::", "an IPv4", "an IPv6"}, MaxFds <- 2,
         HasIPv6 <- TRUE, expire_sec <- 1, MaxResolve <- 1, Adapters <- {}, Questions <- {}, call <- making

Addresses == INSTANCE Sockets
    WITH Threads <- {th1}, Calls <- {"get_local_ip", "getInterfaceList", "get_ifr_ip", "get_ifr_name"}, Hosts <- {}, LocalIps <- {}, MaxFds <- 1,
         HasIPv6 <- TRUE, expire_sec <- 1, MaxResolve <- 1, Adapters <- MCAdapters, Questions <- MCQuestions, call <- making

ASSUME ToolkitAssumption ==
    /\ Tree!RedBlackTreeAssumption /\ Options!OptionParserAssumption /\ Edits!OptionParserAssumption
    /\ Register!CommandRegisterAssumption /\ Slices!FileChannelAssumption /\ Days!FileChannelAssumption
    /\ Disk!FilesAssumption /\ Paths!PathsAssumption /\ Memory!BuffersAssumption
    /\ Calendar!LocalTimeAssumption
    /\ Load!LoadCounterAssumption /\ Search!ExecutorsAssumption /\ Delays!ExecutorsAssumption
    /\ Overlap!ExecutorsAssumption /\ Names!SocketsAssumption
    /\ Descriptors!SocketsAssumption /\ Addresses!SocketsAssumption

-----------------------------------------------------------------------------
Components == {"Semaphore", "ThreadPool", "RedBlackTree", "OptionParser", "Edits", "CommandRegister",
               "Slices", "Days", "Files", "Paths", "Buffers", "LocalTime", "LoadCounter", "Search", "Delays", "Overlap", "Ini",
               "Names", "Descriptors", "Addresses"}

NoCalendar == dst = 0 /\ _current_timezone = 0 /\ _daylight_active = 0 /\ told = <<>>

ToolkitInit ==
    /\ component \in Components
    /\ Init /\ Manual!Init /\ Tree!Init /\ Options!Init /\ Register!Init
    /\ (IF component = "Days" THEN Days!Init ELSE Slices!Init)
    /\ Disk!Init /\ Paths!Init /\ Memory!Init
    /\ (IF component = "LocalTime" THEN Calendar!Init ELSE NoCalendar)
    /\ Load!Init /\ (IF component = "Overlap" THEN Overlap!Init ELSE Search!Init)
    /\ Ini!Init /\ (IF component = "Addresses" THEN Addresses!Init ELSE Names!Init)

poolVars == <<owner, pc, queue, permits, arg, stack, held, stage, cancelled>>
treeVars == <<tree, added>>
optionVars == <<map_options, map_char_index, all_args, scan, phase, given, edits, holed, lost>>
registerVars == <<cmd_map, mtx, s_mtx_opt, args, call, mixed, aborted>>
logVars == <<today, late, daylight, disk, log_file_map, index, last_day, path, can_write, failed>>
diskVars == <<dirs, files, does, raced, harmed>>
bufferVars == <<place, state, capacity, shrunk, starved>>
dateVars == <<dst, _current_timezone, _daylight_active, told>>
loadVars == <<sleeping, last_sleep_time, last_wake_time, time_list, waits, past, answer>>
executorVars == <<threads, thread_pos, loads, search, rotation, next, closures, measured, dropped,
                  called, delays>>
iniVars == <<map, file, saved, read>>
socketVars == <<flag, fds, dns_cache, making>>

(* What the others have. *)
Rest(name) ==
    /\ component = name /\ UNCHANGED component
    /\ IF name = "Semaphore" THEN TRUE ELSE UNCHANGED vars
    /\ IF name = "ThreadPool" THEN TRUE ELSE UNCHANGED poolVars
    /\ IF name = "RedBlackTree" THEN TRUE ELSE UNCHANGED treeVars
    /\ IF name \in {"OptionParser", "Edits"} THEN TRUE ELSE UNCHANGED optionVars
    /\ IF name = "CommandRegister" THEN TRUE ELSE UNCHANGED registerVars
    /\ IF name \in {"Slices", "Days"} THEN TRUE ELSE UNCHANGED logVars
    /\ IF name = "Files" THEN TRUE ELSE UNCHANGED diskVars
    /\ IF name = "Paths" THEN TRUE ELSE UNCHANGED asked
    /\ IF name = "Buffers" THEN TRUE ELSE UNCHANGED bufferVars
    /\ IF name = "LocalTime" THEN TRUE ELSE UNCHANGED dateVars
    /\ IF name = "LoadCounter" THEN TRUE ELSE UNCHANGED loadVars
    /\ IF name \in {"Search", "Delays", "Overlap"} THEN TRUE ELSE UNCHANGED executorVars
    /\ IF name = "Ini" THEN TRUE ELSE UNCHANGED iniVars
    /\ IF name \in {"Names", "Descriptors", "Addresses"} THEN TRUE ELSE UNCHANGED socketVars

ToolkitNext ==
    \/ Rest("Semaphore") /\ Next
    \/ Rest("ThreadPool") /\ Manual!Next
    \/ Rest("RedBlackTree") /\ Tree!Next
    \/ Rest("OptionParser") /\ Options!Next
    \/ Rest("Edits") /\ Edits!Next
    \/ Rest("CommandRegister") /\ Register!Next
    \/ Rest("Slices") /\ Slices!Next
    \/ Rest("Days") /\ Days!Next
    \/ Rest("Files") /\ Disk!Next
    \/ Rest("Paths") /\ Paths!Next
    \/ Rest("Buffers") /\ Memory!Next
    \/ Rest("LocalTime") /\ Calendar!Next
    \/ Rest("LoadCounter") /\ Load!Next
    \/ Rest("Search") /\ Search!Next
    \/ Rest("Delays") /\ Delays!Next
    \/ Rest("Overlap") /\ Overlap!Next
    \/ Rest("Ini") /\ Ini!Next
    \/ Rest("Names") /\ Names!Next
    \/ Rest("Descriptors") /\ Descriptors!Next
    \/ Rest("Addresses") /\ Addresses!Next

(* Of these three only the pool could take a step from where it began. *)
ToolkitSpec ==
    /\ ToolkitInit /\ [][ToolkitNext]_<<component, vars, poolVars, treeVars, optionVars, registerVars,
                                        logVars, diskVars, asked, bufferVars, dateVars, loadVars, executorVars, iniVars, socketVars>>
    /\ Fairness /\ Register!Fairness
    /\ (component = "ThreadPool" => Manual!Fairness)

-----------------------------------------------------------------------------
(* ThreadPool.tla, with auto_run off: tasks queued before start() are served. *)
ServedUnlessSelfSync == Manual!ServedUnlessSelfSync

(* RedBlackTree.tla: the tree finds what was added and not removed, no path is *)
(* twice as long as another.                                                   *)
TreeCorrect == component = "RedBlackTree" => Tree!TypeOK /\ Tree!TreeCorrect

(* OptionParser.tla: a command line means what it means from left to right, and *)
(* options have numbers of their own.                                           *)
OptionsRight ==
    /\ component = "OptionParser" =>
          Options!TypeOK /\ Options!LettersRight /\ Options!ScansAll /\ Options!CalledRight
    /\ component = "Edits" =>
          Edits!TypeOK /\ Edits!LettersRight /\ Edits!ScansAll /\ Edits!CalledRight

(* CommandRegister.tla: commands that run are there and have their own arguments. *)
CallsApart == component = "CommandRegister" => Register!TypeOK /\ Register!CallsApart

(* CommandRegister.tla: every call returns, unless two wait crosswise or the *)
(* process has ended at the deletion of std::cout.                           *)
CallsReturn == Register!CallsReturn

(* FileChannel.tla, Files.tla, Paths.tla: the log's files on disk are known, and *)
(* as many as they should be; deleting spares what it was not asked to delete;    *)
(* and no path leads out of its directory.                                        *)
FilesKept ==
    /\ component = "Slices" => Slices!TypeOK /\ Slices!FilesKept
    /\ component = "Days" => Days!TypeOK /\ Days!FilesKept
    /\ component = "Files" => Disk!TypeOK /\ Disk!FilesSpared
    /\ component = "Paths" => Paths!PathsRight

(* FileChannel.tla: older files go before newer ones, and not without need. *)
NewerStay == Slices!NewerStay /\ Days!NewerStay

(* Buffers.tla: a buffer has memory of its own, and enough. *)
BuffersRight == component = "Buffers" => Memory!TypeOK /\ Memory!BuffersRight

(* LocalTime.tla: the dates told are those of the calendar. *)
DatesRight == component = "LocalTime" => Calendar!DatesRight

(* LoadCounter.tla, Executors.tla: the load is what a thread did lately, work   *)
(* is spread by it, and a measurement ends once, when all threads have come to it. *)
LoadsRight ==
    /\ component = "LoadCounter" => Load!TypeOK /\ Load!LoadIsShare
    /\ component = "Search" => Search!TypeOK /\ Search!SpreadsLoad
    /\ component = "Overlap" => Overlap!TypeOK /\ Overlap!SpreadsLoad
    /\ component = "Delays" => Delays!TypeOK /\ Delays!MeasuredOnce

(* Ini.tla: what was written is read back. *)
ReadsBack == component = "Ini" => Ini!TypeOK /\ Ini!ReadsBack

(* Sockets.tla: no descriptor is lost, no server exposed without need, no address *)
(* told that is too old or is the wrong one.                                      *)
SocketsRight ==
    /\ component = "Names" => Names!TypeOK /\ Names!DescriptorsAccounted /\ Names!AnswersFresh
    /\ component = "Descriptors" => Descriptors!TypeOK /\ Descriptors!DescriptorsAccounted
    /\ component = "Addresses" => Addresses!TypeOK /\ Addresses!DescriptorsAccounted
                                  /\ Addresses!AddressesRight
=============================================================================
