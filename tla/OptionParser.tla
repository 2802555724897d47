----------------------------- MODULE OptionParser -----------------------------
(***************************************************************************)
(* src/Util/CMD.h, CMD.cpp: the options of a command, kept under numbers   *)
(* from 0xFF on, and the parsing of a command line with getopt_long.       *)
(***************************************************************************)
EXTENDS Getopt

CONSTANTS
    Addable,        \* options that may be added: records like Helper below
    CommandLines,   \* BOUND: what may be parsed: sequences of arguments
    Orderings,      \* REQUIRE_ORDER if the environment has POSIXLY_CORRECT, else PERMUTE
    MaxEdits        \* BOUND: calls of << and delOption

VARIABLES
    map_options,    \* number -> option
    map_char_index, \* character -> number
    all_args,       \* long name -> value
    scan,           \* getopt's static variables
    phase,          \* "idle", "parsing", "completed", "refused" (an exception) or
                    \* "stopped" (an option's callback returned false)
    given,          \* the arguments of the call
    edits,          \* calls of << and delOption
    holed,          \* delOption has taken an option that had not the highest number
    lost            \* options << had no free number for, and delOption has not met since

vars == <<map_options, map_char_index, all_args, scan, phase, given, edits, holed, lost>>

Helper == [short |-> "h", long |-> <<"h", "e", "l", "p">>, arg_type |-> 0,
           default_value |-> NULL, must_exist |-> FALSE]

OptionParserAssumption ==
    \A o, p \in Addable \cup {Helper} :
        /\ o.must_exist => o.default_value = NULL /\ o.arg_type # 0
        /\ o # p => o.long # p.long /\ o.short # p.short

TypeOK ==
    /\ \A n \in DOMAIN map_options : n \in Nat /\ map_options[n] \in Addable \cup {Helper}
    /\ \A c \in DOMAIN map_char_index : map_char_index[c] \in Nat
    /\ phase \in {"idle", "parsing", "completed", "refused", "stopped"}
    /\ edits \in 0..MaxEdits /\ holed \in BOOLEAN /\ lost \subseteq Addable

Init ==
    /\ map_options = 255 :> Helper
    /\ map_char_index = "h" :> 255
    /\ all_args = <<>> /\ scan = Started(<<>>, "PERMUTE") /\ given = <<>>
    /\ phase = "idle"
    /\ edits = 0 /\ holed = FALSE /\ lost = {}

(* map::emplace keeps what is there. *)
Emplace(map, key, value) == IF key \in DOMAIN map THEN map ELSE map @@ (key :> value)
Erase(map, key) == Restrict(map, DOMAIN map \ {key})

-----------------------------------------------------------------------------
Edit == phase = "idle" /\ edits < MaxEdits /\ edits' = edits + 1

(* operator<<.  The number is made from how many options there are: after    *)
(* delOption it may be in use.  The option is then dropped, and its character *)
(* stands for the one in use until delOption meets an option that has it.     *)
AddOption(option) ==
    /\ Edit
    /\ \A n \in DOMAIN map_options : map_options[n] # option
    /\ LET index == 255 + Cardinality(DOMAIN map_options)
       IN  /\ map_options' = Emplace(map_options, index, option)
           /\ map_char_index' = IF option.short = "" THEN map_char_index
                                ELSE Emplace(map_char_index, option.short, index)
          /\ lost' = IF index \in DOMAIN map_options THEN lost \cup {option} ELSE lost
    /\ UNCHANGED <<all_args, scan, phase, given, holed>>

DelOption(n) ==
    /\ Edit
    /\ n \in DOMAIN map_options
    /\ map_char_index' = Erase(map_char_index, map_options[n].short)
    /\ map_options' = Erase(map_options, n)
    /\ holed' = (holed \/ \E m \in DOMAIN map_options : m > n)
    /\ lost' = lost \ {map_options[n]}
    /\ UNCHANGED <<all_args, scan, phase, given>>

-----------------------------------------------------------------------------
(* The table for getopt_long, in the order of the numbers. *)
Numbers == SetToSortSeq(DOMAIN map_options, <)

Table ==
    [long |-> [i \in DOMAIN Numbers |->
                 [name |-> map_options[Numbers[i]].long,
                  has_arg |-> map_options[Numbers[i]].arg_type, val |-> Numbers[i]]],
     short |-> [c \in {map_options[n].short : n \in DOMAIN map_options} \ {""} |->
                 map_options[CHOOSE n \in DOMAIN map_options :
                    /\ map_options[n].short = c
                    /\ \A m \in DOMAIN map_options : map_options[m].short = c => n <= m].arg_type]]

(* CMD::operator() and the beginning of OptionParser::operator(). *)
Parse(argv, ordering) ==
    /\ phase = "idle"
    /\ phase' = "parsing"
    /\ given' = argv
    /\ all_args' = <<>>
    /\ scan' = Started(argv, ordering)
    /\ UNCHANGED <<map_options, map_char_index, edits, holed, lost>>

Finish(result) == phase' = result /\ UNCHANGED <<map_options, map_char_index, given, edits, holed, lost>>

(* The number of what getopt_long returned, -1 for none. *)
NumberOf(ret) ==
    IF ret[1] = "val" THEN ret[2]
    ELSE IF ret[1] = "char" /\ ret[2] \in DOMAIN map_char_index THEN map_char_index[ret[2]] ELSE -1

(* Mutation: a value given again replaces the first. *)
LastOption(goOn) ==
    /\ phase = "parsing"
    /\ scan' = getopt_long(scan, Table)
    /\ scan'.ret # EOF
    /\ LET n == NumberOf(scan'.ret)
       IN  IF n \notin DOMAIN map_options \/ map_options[n] = Helper
           THEN Finish("refused") /\ UNCHANGED all_args
           ELSE /\ all_args' = (map_options[n].long :> scan'.optarg) @@ all_args
                /\ Finish(IF goOn THEN "parsing" ELSE "stopped")

(* A round of the loop.  The callback of an option may end the parsing; that *)
(* of help throws what it prints.                                            *)
NextOption(goOn) ==
    /\ phase = "parsing"
    /\ scan' = getopt_long(scan, Table)
    /\ scan'.ret # EOF
    /\ LET n == NumberOf(scan'.ret)
       IN  IF n \notin DOMAIN map_options
           THEN Finish("refused") /\ UNCHANGED all_args
           ELSE /\ all_args' = Emplace(all_args, map_options[n].long, scan'.optarg)
                /\ Finish(IF map_options[n] = Helper THEN "refused" ELSE IF goOn THEN "parsing" ELSE "stopped")

(* Behind the loop: default values, what must be there, nothing at all. *)
Complete(enable_empty_args) ==
    /\ phase = "parsing"
    /\ scan' = getopt_long(scan, Table)
    /\ scan'.ret = EOF
    /\ LET options == {map_options[n] : n \in DOMAIN map_options}
           missing == {o \in options : o.long \notin DOMAIN all_args}
           filled == {o \in missing : o.default_value # NULL}
           args == [long \in DOMAIN all_args \cup {o.long : o \in filled} |->
                      IF long \in DOMAIN all_args THEN all_args[long]
                      ELSE (CHOOSE o \in filled : o.long = long).default_value]
       IN  /\ all_args' = args
           /\ Finish(IF \E o \in missing \ filled : o.must_exist THEN "refused"
                     ELSE IF DOMAIN args = {} /\ Cardinality(options) > 1 /\ ~enable_empty_args
                     THEN "refused" ELSE "completed")

Next ==
    \/ \E option \in Addable : AddOption(option)
    \/ \E n \in DOMAIN map_options : DelOption(n)
    \/ \E argv \in CommandLines, ordering \in Orderings : Parse(argv, ordering)
    \/ \E goOn \in BOOLEAN : NextOption(goOn) \/ Complete(goOn)

Spec == Init /\ [][Next]_vars

-----------------------------------------------------------------------------
Options == {map_options[n] : n \in DOMAIN map_options}
Expected == Meaning(given, Table, scan.ordering)

(* The option that was meant: the one of that name or character. *)
IsMeant(ret, o) ==
    \/ ret[1] = "val" /\ o = map_options[ret[2]]
    \/ ret[1] = "char" /\ o.short = ret[2]

(* The first value given for an option. *)
ValueFor(option) ==
    LET occurrences == {i \in DOMAIN Expected.options : IsMeant(Expected.options[i][1], option)}
    IN  IF occurrences = {} THEN option.default_value
        ELSE Expected.options[CHOOSE i \in occurrences : \A j \in occurrences : i <= j][2]

(* Each option has a number of its own, which its character stands for, as   *)
(* long as << had one for it; and << has always had one if none but the last  *)
(* option was ever deleted.                                                   *)
LettersRight ==
    /\ lost # {} => holed
    /\ \A n \in DOMAIN map_options :
          LET option == map_options[n]
          IN  option.short # "" /\ option \notin lost =>
                 option.short \in DOMAIN map_char_index /\ map_char_index[option.short] = n

(* The command line has no character that may stand for another option. *)
Unambiguous ==
    \A i \in DOMAIN Expected.options, o \in lost : Expected.options[i][1] # Char(o.short)

(* getopt moves arguments about while it scans; in the end the options and   *)
(* values it reported are those of the command line read from left to right, *)
(* and what it left behind is the rest, in the order it was given.           *)
ScansAll ==
    scan.ret = EOF /\ phase \in {"completed", "refused"} =>
        /\ SubSeq(scan.argv, scan.optind, Len(scan.argv)) = Expected.others
        /\ Unambiguous => \A option \in Options :
              option.long \in DOMAIN all_args <=>
                  \/ option.default_value # NULL
                  \/ \E i \in DOMAIN Expected.options : IsMeant(Expected.options[i][1], option)

(* A command is called only with a value for all that must be there, each    *)
(* option having the first value it was given or else its default; options   *)
(* with lost numbers too, when they are given by name.                       *)
CalledRight ==
    phase = "completed" =>
        /\ \A i \in DOMAIN Expected.options : Expected.options[i][1] # BAD_OPTION
        /\ \A option \in Options :
              /\ option.must_exist => option.long \in DOMAIN all_args
              /\ Unambiguous /\ option.long \in DOMAIN all_args =>
                    all_args[option.long] = ValueFor(option)
===============================================================================
