--------------------------------- MODULE Ini ---------------------------------
(***************************************************************************)
(* src/Util/mini.h: a map of keys `section.name' that is written as an ini *)
(* file and read back.  Strings are sequences of characters, the file is   *)
(* the sequence of its lines that are neither empty nor comments of dump.  *)
(***************************************************************************)
EXTENDS Integers, FiniteSets, SequencesExt, Functions

CONSTANTS
    Characters,      \* a sequence: the characters, in their order
    Keys, Values,    \* what a program assigns: strings without line breaks
    MaxKeys          \* BOUND on the keys assigned

VARIABLES
    map,             \* the mINI
    file,            \* the lines on disk
    saved,           \* the map as it was when it was written
    read             \* the map holds what was read, and nothing else, from files no
                     \* entry of which was taken for a section

vars == <<map, file, saved, read>>

String(s) == s \in Seq(Range(Characters))
IsMap(m) == \A k \in DOMAIN m : String(k) /\ String(m[k])
Empty == [k \in {} |-> k]

TypeOK == IsMap(map) /\ IsMap(saved) /\ (\A i \in DOMAIN file : String(file[i])) /\ read \in BOOLEAN

Init == map = Empty /\ file = <<>> /\ saved = Empty /\ read = FALSE

-----------------------------------------------------------------------------
Code(c) == CHOOSE i \in DOMAIN Characters : Characters[i] = c

(* The order of std::map. *)
Less(s, t) ==
    \/ IsStrictPrefix(s, t)
    \/ \E i \in DOMAIN s \cap DOMAIN t :
          Code(s[i]) < Code(t[i]) /\ SubSeq(s, 1, i - 1) = SubSeq(t, 1, i - 1)

(* Where c is first, 0 if nowhere (npos). *)
Find(s, c) == SelectInSeq(s, LAMBDA x : x = c)
Upto(s, i) == SubSeq(s, 1, i - 1)
Behind(s, i) == SubSeq(s, i + 1, Len(s))

Trim(s) ==
    LET kept == {i \in DOMAIN s : s[i] # " "}
    IN  IF kept = {} THEN <<>>
        ELSE SubSeq(s, CHOOSE i \in kept : \A j \in kept : i <= j,
                       CHOOSE i \in kept : \A j \in kept : j <= i)

Section(key) == Upto(key, Find(key, "."))                   \* empty if there is no dot
Name(key) == Behind(key, Find(key, "."))

Line(key, value) == Name(key) \o <<"=">> \o value

(* Mutation: keys without a section are written where they stand in the map. *)
DumpInOrder(m) ==
    LET keys == SetToSortSeq(DOMAIN m, Less)
        entries(i) == (IF Section(keys[i]) = (IF i = 1 THEN <<>> ELSE Section(keys[i - 1])) THEN <<>>
                       ELSE <<<<"[">> \o Section(keys[i]) \o <<"]">>>>)
                      \o <<Line(keys[i], m[keys[i]])>>
    IN  FlattenSeq([i \in DOMAIN keys |-> entries(i)])

(* dump: keys without a section come first. *)
dump(m) ==
    LET keys == SetToSortSeq(DOMAIN m, Less)
        front == SelectSeq(keys, LAMBDA k : Section(k) = <<>>)
        rest == SelectSeq(keys, LAMBDA k : Section(k) # <<>>)
        entries(i) == (IF i > 1 /\ Section(rest[i]) = Section(rest[i - 1]) THEN <<>>
                       ELSE <<<<"[">> \o Section(rest[i]) \o <<"]">>>>)
                      \o <<Line(rest[i], m[rest[i]])>>
    IN  [i \in DOMAIN front |-> Line(front[i], m[front[i]])]
        \o FlattenSeq([i \in DOMAIN rest |-> entries(i)])

IsSection(line) == Len(line) >= 3 /\ line[1] = "[" /\ Last(line) = "]"

(* A line of parse.  trim throws at a byte 0xFF, for which its table has no *)
(* place; what was parsed before stays.                                     *)
Untrimmable(s) == Trim(s) # <<>> /\ "0xFF" \in {Trim(s)[1], Last(Trim(s))}

ParseLine(state, untrimmed) ==
    LET line == Trim(untrimmed)
        at == Find(line, "=")
        symbol == state.tag \o <<".">> \o (IF at = 0 THEN line ELSE Upto(line, at))
        value == IF at = 0 THEN <<>> ELSE Behind(line, at)
        tag == SubSeq(line, 2, Len(line) - 1)
    IN  IF state.threw \/ Untrimmable(untrimmed) THEN [state EXCEPT !.threw = TRUE]
        ELSE IF line = <<>> \/ line[1] \in {";", "#"} THEN state
        ELSE IF IsSection(line)
        THEN IF Untrimmable(tag) THEN [state EXCEPT !.threw = TRUE]
             ELSE [state EXCEPT !.tag = Trim(tag)]
        ELSE IF Untrimmable(symbol) \/ Untrimmable(value) THEN [state EXCEPT !.threw = TRUE]
        ELSE [state EXCEPT !.map = [k \in DOMAIN @ \cup {Trim(symbol)} |->
                                      IF k = Trim(symbol) THEN Trim(value) ELSE @[k]]]

(* parse adds to what the map holds. *)
Parsed(m, lines) == FoldLeft(ParseLine, [map |-> m, tag |-> <<>>, threw |-> FALSE], lines)
parse(m, lines) == Parsed(m, lines).map

(* An entry that has come out as the line of a section: what follows it in the *)
(* file is then read into that section.                                        *)
Mistaken(m) == \E k \in DOMAIN m : IsSection(Trim(Line(k, m[k])))

-----------------------------------------------------------------------------
Assign(k, v) ==
    /\ file = <<>>
    /\ k \in DOMAIN map \/ Cardinality(DOMAIN map) < MaxKeys
    /\ map' = [l \in DOMAIN map \cup {k} |-> IF l = k THEN v ELSE map[l]]
    /\ read' = FALSE
    /\ UNCHANGED <<file, saved>>

dumpFile ==
    /\ file' = dump(map)
    /\ saved' = map
    /\ UNCHANGED <<map, read>>

parseFile ==
    /\ map' = parse(map, file)
    /\ read' = ((map = Empty \/ read) /\ ~Parsed(map, file).threw /\ ~Mistaken(saved))
    /\ UNCHANGED <<file, saved>>

Restart ==
    /\ map' = Empty
    /\ read' = FALSE
    /\ UNCHANGED <<file, saved>>

Next == dumpFile \/ parseFile \/ Restart \/ \E k \in Keys, v \in Values : Assign(k, v)

Spec == Init /\ [][Next]_vars

-----------------------------------------------------------------------------
Plain(s) == \A i \in DOMAIN s : s[i] \notin {" ", ";", "#", "=", "[", "]"}
Dotted(key) == IF Contains(key, ".") THEN key ELSE <<".">> \o key

(* What is read back is what was written, except that a key without a section *)
(* has got a dot, as long as keys and values have none of the characters that *)
(* mean something in a file (of two keys that become one, one value is kept). *)
(* Whatever characters they have, what was read is written and read again as  *)
(* it is, unless an entry was taken for a section when it was read: the keys  *)
(* behind it then have the `=' of that line, at which they are cut when they  *)
(* are read again.                                                            *)
ReadsBack ==
    read =>
        /\ parse(Empty, dump(map)) = map
        /\ (\A k \in DOMAIN saved : Plain(k) /\ Plain(saved[k])) =>
              /\ DOMAIN map = {Dotted(k) : k \in DOMAIN saved}
              /\ \A k \in DOMAIN saved :
                    map[Dotted(k)] \in {saved[l] : l \in {l \in DOMAIN saved : Dotted(l) = Dotted(k)}}
===============================================================================
