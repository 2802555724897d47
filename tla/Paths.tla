-------------------------------- MODULE Paths --------------------------------
(***************************************************************************)
(* src/Util/File.cpp: absolutePath, which resolves `.' and `..' in a path  *)
(* and does not let it leave the directory it is relative to.  Paths are   *)
(* strings, here sequences of characters, and the code works on their ends *)
(* and lengths.                                                            *)
(***************************************************************************)
EXTENDS Integers, SequencesExt

CONSTANTS
    Letters,         \* the characters other than the slash and the dot
    Texts,           \* BOUND: paths
    Directories,     \* BOUND: current directories
    exeDir           \* the directory of the program, with a slash at its end

VARIABLE asked       \* the last call, with what it returned

Character == Letters \cup {"/", "."}
String == Seq(Character)

EndsIn(s, c) == s # <<>> /\ Last(s) = c
Pushed(s) == IF EndsIn(s, "/") THEN s ELSE s \o <<"/">>
Popped(s) == IF EndsIn(s, "/") THEN Front(s) ELSE s

(* What a loop of n rounds makes of a value. *)
Loop(n, first, round) ==
    LET after[i \in 0..n] == IF i = 0 THEN first ELSE round[i][after[i - 1]] IN after[n]

(* The pieces between slashes that are not empty; absolutePath skips the others. *)
Read(s) ==
    [i \in DOMAIN s |-> [pieces \in Seq(String) |->
        IF s[i] = "/" THEN pieces
        ELSE IF i = 1 \/ s[i - 1] = "/" THEN Append(pieces, <<s[i]>>)
        ELSE Append(Front(pieces), Append(Last(pieces), s[i]))]]

split(s) == Loop(Len(s), <<>>, Read(s))

(* Up to the last slash, but for one at the end; a path without any is its own. *)
parentDir(s) ==
    LET cut == Popped(s)
        slashes == {i \in DOMAIN cut : cut[i] = "/"}
    IN  IF slashes = {} THEN cut
        ELSE SubSeq(cut, 1, CHOOSE i \in slashes : \A j \in slashes : j <= i)

States == [path : String, left : BOOLEAN, undefined : BOOLEAN]

(* The pieces of the path, one by one.  parentDir of the empty string, to which *)
(* the root's parent has come down, reads in front of the string.               *)
Walk(pieces, root, can_access_parent) ==
    [i \in DOMAIN pieces |-> [state \in States |->
        IF state.left \/ state.undefined \/ pieces[i] = <<".">> THEN state
        ELSE IF pieces[i] # <<".", ".">> THEN [state EXCEPT !.path = @ \o pieces[i] \o <<"/">>]
        ELSE IF ~can_access_parent /\ Len(state.path) <= Len(root) THEN [state EXCEPT !.left = TRUE]
        ELSE IF state.path = <<>> THEN [state EXCEPT !.undefined = TRUE]
        ELSE [state EXCEPT !.path = parentDir(@)]]]

(* Mutation: going up is allowed down to the length of the directory. *)
WalkBelow(pieces, root, can_access_parent) ==
    [i \in DOMAIN pieces |-> [state \in States |->
        IF state.left \/ state.undefined \/ pieces[i] = <<".">> THEN state
        ELSE IF pieces[i] # <<".", ".">> THEN [state EXCEPT !.path = @ \o pieces[i] \o <<"/">>]
        ELSE IF ~can_access_parent /\ Len(state.path) < Len(root) THEN [state EXCEPT !.left = TRUE]
        ELSE IF state.path = <<>> THEN [state EXCEPT !.undefined = TRUE]
        ELSE [state EXCEPT !.path = parentDir(@)]]]

(* The path relative to an absolute directory.  The end of an empty string is  *)
(* read if the directory has been resolved to one, and if the root's parent is *)
(* where a path without a slash at its end has come to.                        *)
Resolved(path, directory, can_access_parent) ==
    LET root == Pushed(directory)
        start == [path |-> root, left |-> FALSE, undefined |-> FALSE]
        pieces == split(path)
        end == Loop(Len(pieces), start, Walk(pieces, root, can_access_parent))
    IN  IF path = <<>> THEN [start EXCEPT !.path = directory]
        ELSE IF directory = <<>> THEN [start EXCEPT !.undefined = TRUE]
        ELSE IF end.left THEN [end EXCEPT !.path = root]
        ELSE IF end.undefined \/ EndsIn(path, "/") THEN end
        ELSE IF end.path = <<>> THEN [end EXCEPT !.undefined = TRUE]
        ELSE [end EXCEPT !.path = Popped(@)]

(* A current directory that begins with a dot is relative to the program's.  It *)
(* may be resolved to the empty string, if that is right under the root.        *)
CurrentPath(directory) ==
    IF directory # <<>> /\ directory[1] = "." THEN Resolved(directory, exeDir, TRUE)
    ELSE [path |-> IF directory = <<>> THEN exeDir ELSE directory, left |-> FALSE, undefined |-> FALSE]

absolutePath(path, current_path, can_access_parent) ==
    LET current == CurrentPath(current_path)
    IN  IF current.undefined THEN current ELSE Resolved(path, current.path, can_access_parent)

(* A directory as the system names it: absolute, without `.' and `..', and with *)
(* single slashes.                                                              *)
Dots == {<<".">>, <<".", ".">>}
Directory(d) ==
    /\ Pushed(d)[1] = "/"
    /\ \A i \in 2..Len(Pushed(d)) : ~(Pushed(d)[i - 1] = "/" /\ Pushed(d)[i] = "/")
    /\ \A i \in DOMAIN split(d) : split(d)[i] \notin Dots

PathsAssumption ==
    /\ Texts \subseteq String /\ Directories \subseteq String
    /\ exeDir \in String /\ EndsIn(exeDir, "/") /\ Directory(exeDir)
    /\ \A d \in Directories : CurrentPath(d).undefined \/ Directory(CurrentPath(d).path)

Init == asked = <<>>

Ask ==
    /\ asked = <<>>
    /\ \E path \in Texts, current_path \in Directories, can_access_parent \in BOOLEAN :
          asked' = [path |-> path, from |-> CurrentPath(current_path), up |-> can_access_parent,
                    result |-> absolutePath(path, current_path, can_access_parent)]

Done == asked # <<>> /\ asked' = <<>>

Next == Ask \/ Done

Spec == Init /\ [][Next]_asked

-----------------------------------------------------------------------------
(* What a path means: the names that are left when each `..' has taken the one *)
(* before it; outside, how many have had none to take.                         *)
Meanings == [names : Seq(String), outside : Nat]
Understand(pieces) ==
    [i \in DOMAIN pieces |-> [state \in Meanings |->
        IF pieces[i] = <<".">> THEN state
        ELSE IF pieces[i] # <<".", ".">> THEN [state EXCEPT !.names = Append(@, pieces[i])]
        ELSE IF state.names # <<>> THEN [state EXCEPT !.names = Front(@)]
        ELSE [state EXCEPT !.outside = @ + 1]]]

Meaning(path) == Loop(Len(split(path)), [names |-> <<>>, outside |-> 0], Understand(split(path)))

(* Unless it is let out, no path leads out of the directory it is relative to: *)
(* one that would is that directory, any other is what it means in it.  One    *)
(* that may go up does, as long as it does not go beyond the root.  Both are   *)
(* undefined if the current directory has been resolved to an empty string, or *)
(* its own resolving was undefined, and only then.                             *)
PathsRight ==
    asked # <<>> =>
        LET current == asked.from.path
            from == Meaning(current).names
            path == Meaning(asked.path)
            result == asked.result
            names == Meaning(result.path).names
        IN  /\ (~asked.up \/ path.outside <= Len(from)) =>
                  (result.undefined <=> (asked.from.undefined \/ (current = <<>> /\ asked.path # <<>>)))
            /\ ~result.undefined =>
                  /\ ~asked.up =>
                        names = IF path.outside > 0 THEN from ELSE from \o path.names
                  /\ (asked.up /\ path.outside <= Len(from)) =>
                        names = SubSeq(from, 1, Len(from) - path.outside) \o path.names
                  /\ EndsIn(result.path, "/") =>
                        \/ asked.path = <<>> \/ EndsIn(asked.path, "/")
                        \/ ~asked.up /\ path.outside > 0
===============================================================================
