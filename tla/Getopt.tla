-------------------------------- MODULE Getopt --------------------------------
(***************************************************************************)
(* src/win32/getopt.c: a call of getopt_long takes the next option off the *)
(* arguments and moves the arguments that are no options behind those that *)
(* it has scanned.  An argument is the sequence of its characters.         *)
(*                                                                         *)
(* The state between two calls is a record s of the static variables:      *)
(* argv, optind, first_nonopt, last_nonopt, nextchar (the characters of an *)
(* argument still to be scanned), ordering ("PERMUTE" or "REQUIRE_ORDER"). *)
(* As in C, argv[0] is the program, which is left out: argc is one more    *)
(* than the length.  A call yields s with ret and optarg set; ret is EOF,  *)
(* BAD_OPTION, a short option's character or a long option's val.          *)
(*                                                                         *)
(* The table of options is a record: short maps characters to 0, 1 or 2    *)
(* (no, a required, an optional argument), long is a sequence of records.  *)
(***************************************************************************)
EXTENDS Integers, FiniteSets, SequencesExt

EOF == <<"eof", 0>>
BAD_OPTION == <<"bad", 0>>
Char(c) == <<"char", c>>
Val(val) == <<"val", val>>
NULL == <<"NULL">>

Started(argv, ordering) ==
    [argv |-> argv, optind |-> 1, first_nonopt |-> 1, last_nonopt |-> 1, nextchar |-> <<>>,
     ordering |-> ordering, ret |-> EOF, optarg |-> NULL]

Argc(s) == Len(s.argv) + 1
IsOption(arg) == Len(arg) > 1 /\ arg[1] = "-"
IsLong(arg) == Len(arg) > 1 /\ arg[1] = "-" /\ arg[2] = "-"

-----------------------------------------------------------------------------
(* The elements from m up to n - 1, in reverse. *)
Reversed(argv, m, n) ==
    [i \in DOMAIN argv |-> IF m <= i /\ i < n THEN argv[m + n - 1 - i] ELSE argv[i]]

(* Mutation: the order of the arguments that were moved is not restored. *)
ExchangeOnce(s) ==
    LET first == s.first_nonopt + (s.optind - s.last_nonopt)
    IN  [s EXCEPT
          !.argv = Reversed(Reversed(s.argv, s.first_nonopt, s.optind), s.first_nonopt, first),
          !.first_nonopt = first, !.last_nonopt = s.optind]

(* The arguments that were skipped change places with the options after them. *)
Exchange(s) ==
    LET first == s.first_nonopt + (s.optind - s.last_nonopt)
        all == Reversed(s.argv, s.first_nonopt, s.optind)
        options == Reversed(all, s.first_nonopt, first)
    IN  [s EXCEPT !.argv = Reversed(options, first, s.optind),
                  !.first_nonopt = first, !.last_nonopt = s.optind]

(* PERMUTE: skip what is no option. *)
Skip(s) ==
    LET t == IF s.first_nonopt # s.last_nonopt /\ s.last_nonopt # s.optind THEN Exchange(s)
             ELSE IF s.last_nonopt # s.optind THEN [s EXCEPT !.first_nonopt = s.optind]
             ELSE s
        next == CHOOSE n \in s.optind..Argc(s) :
                    /\ \A i \in s.optind..(n - 1) : ~IsOption(s.argv[i])
                    /\ n = Argc(s) \/ IsOption(s.argv[n])
    IN  [t EXCEPT !.optind = next, !.last_nonopt = next]

(* "--": all that follows is no option. *)
SkipRest(s) ==
    LET past == [s EXCEPT !.optind = @ + 1]
        t == IF s.first_nonopt # s.last_nonopt THEN Exchange(past)
             ELSE [past EXCEPT !.first_nonopt = past.optind]
    IN  [t EXCEPT !.last_nonopt = Argc(s), !.optind = Argc(s)]

(* The end: optind is where the arguments that are no options begin. *)
Ended(s) ==
    [s EXCEPT !.ret = EOF, !.optind = IF s.first_nonopt # s.last_nonopt THEN s.first_nonopt ELSE @]

Bad(s) == [s EXCEPT !.ret = BAD_OPTION]

-----------------------------------------------------------------------------
(* The name up to "=", and the long option it names or abbreviates. *)
Name(chars) == IF Contains(chars, "=") THEN SubSeq(chars, 1, SelectInSeq(chars, LAMBDA ch : ch = "=") - 1)
               ELSE chars

Exact(name, long) == {i \in DOMAIN long : long[i].name = name}
Abbreviated(name, long) == {i \in DOMAIN long : IsPrefix(name, long[i].name)}

LongOption(s, table) ==
    LET name == Name(s.nextchar)
        given == Len(name) < Len(s.nextchar)        \* with "=" and an argument
        value == SubSeq(s.nextchar, Len(name) + 2, Len(s.nextchar))
        candidates == IF Exact(name, table.long) # {} THEN Exact(name, table.long)
                      ELSE Abbreviated(name, table.long)
        t == [s EXCEPT !.optind = @ + 1, !.nextchar = <<>>]
    IN  IF Exact(name, table.long) = {} /\ Cardinality(candidates) # 1 THEN Bad(t)
        ELSE LET option == table.long[CHOOSE i \in candidates : \A j \in candidates : i <= j]
                 found == [t EXCEPT !.ret = Val(option.val)]
             IN  IF given
                 THEN IF option.has_arg # 0 THEN [found EXCEPT !.optarg = value] ELSE Bad(t)
                 ELSE IF option.has_arg # 1 THEN found
                 ELSE IF t.optind < Argc(s)
                 THEN [found EXCEPT !.optarg = s.argv[t.optind], !.optind = @ + 1]
                 ELSE Bad(t)

ShortOption(s, table) ==
    LET c == Head(s.nextchar)
        rest == Tail(s.nextchar)
        t == [s EXCEPT !.nextchar = rest, !.optind = IF rest = <<>> THEN @ + 1 ELSE @]
        found == [t EXCEPT !.ret = Char(c)]
        taken == [found EXCEPT !.nextchar = <<>>, !.optarg = rest, !.optind = @ + 1]
    IN  IF c \notin DOMAIN table.short THEN Bad(t)
        ELSE IF table.short[c] = 0 THEN found
        ELSE IF rest # <<>> THEN taken
        ELSE IF table.short[c] = 2 THEN found
        ELSE IF t.optind = Argc(s) THEN Bad(t)
        ELSE [found EXCEPT !.optarg = s.argv[t.optind], !.optind = @ + 1]

(* An option of the argument at optind. *)
Decode(s, table) ==
    IF IsLong(s.argv[s.optind]) THEN LongOption(s, table) ELSE ShortOption(s, table)

(* _getopt_internal, called by getopt_long *)
getopt_long(state, table) ==
    LET s == [state EXCEPT !.optarg = NULL]
        skipped == IF s.ordering = "PERMUTE" THEN Skip(s) ELSE s
        t == IF skipped.optind # Argc(s) /\ skipped.argv[skipped.optind] = <<"-", "-">>
             THEN SkipRest(skipped) ELSE skipped
        arg == t.argv[t.optind]
    IN  IF s.nextchar # <<>> THEN Decode(s, table)
        ELSE IF t.optind = Argc(s) THEN Ended(t)
        ELSE IF ~IsOption(arg) THEN [t EXCEPT !.ret = EOF]
        ELSE Decode([t EXCEPT !.nextchar = SubSeq(arg, IF IsLong(arg) THEN 3 ELSE 2, Len(arg))],
                    table)

-----------------------------------------------------------------------------
(* What a command line means, from left to right and without moving anything: *)
(* the options with their arguments, and the arguments that are none.         *)
RECURSIVE Meaning(_, _, _)
RECURSIVE Cluster(_, _, _, _)

Empty == [options |-> <<>>, others |-> <<>>]
With(option, argument, meaning) ==
    [meaning EXCEPT !.options = <<<<option, argument>>>> \o @]

(* The options of the characters, then the arguments that follow. *)
Cluster(chars, args, table, ordering) ==
    IF chars = <<>> THEN Meaning(args, table, ordering)
    ELSE
    LET c == Head(chars)
        rest == Tail(chars)
    IN  CASE c \notin DOMAIN table.short ->
                With(BAD_OPTION, NULL, Cluster(rest, args, table, ordering))
          [] c \in DOMAIN table.short /\ (table.short[c] = 0 \/ (table.short[c] = 2 /\ rest = <<>>)) ->
                With(Char(c), NULL, Cluster(rest, args, table, ordering))
          [] c \in DOMAIN table.short /\ table.short[c] # 0 /\ rest # <<>> ->
                With(Char(c), rest, Meaning(args, table, ordering))
          [] c \in DOMAIN table.short /\ table.short[c] = 1 /\ rest = <<>> ->
                IF args = <<>> THEN With(BAD_OPTION, NULL, Empty)
                ELSE With(Char(c), Head(args), Meaning(Tail(args), table, ordering))

Meaning(args, table, ordering) ==
    IF args = <<>> THEN Empty
    ELSE
    LET arg == Head(args)
        rest == Tail(args)
        name == Name(Tail(Tail(arg)))
        value == SubSeq(arg, Len(name) + 4, Len(arg))
        named == {i \in DOMAIN table.long :
                    \/ table.long[i].name = name
                    \/ Abbreviated(name, table.long) = {i}}
        option == table.long[CHOOSE i \in named : \A j \in named : i <= j]
    IN  IF ~IsOption(arg)
        THEN IF ordering = "REQUIRE_ORDER" THEN [options |-> <<>>, others |-> args]
             ELSE [Meaning(rest, table, ordering) EXCEPT !.others = <<arg>> \o @]
        ELSE IF arg = <<"-", "-">> THEN [options |-> <<>>, others |-> rest]
        ELSE IF ~IsLong(arg) THEN Cluster(Tail(arg), rest, table, ordering)
        ELSE IF named = {} \/ (option.has_arg = 0 /\ Len(name) + 2 < Len(arg))
        THEN With(BAD_OPTION, NULL, Meaning(rest, table, ordering))
        ELSE IF Len(name) + 2 < Len(arg)
        THEN With(Val(option.val), value, Meaning(rest, table, ordering))
        ELSE IF option.has_arg # 1 THEN With(Val(option.val), NULL, Meaning(rest, table, ordering))
        ELSE IF rest = <<>> THEN With(BAD_OPTION, NULL, Empty)
        ELSE With(Val(option.val), Head(rest), Meaning(Tail(rest), table, ordering))
===============================================================================
