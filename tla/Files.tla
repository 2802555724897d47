-------------------------------- MODULE Files --------------------------------
(***************************************************************************)
(* src/Util/File.cpp: threads create files, with the directories above     *)
(* them, and delete files or directories, with those above that become     *)
(* empty.  Both are loops of system calls, and nothing keeps another       *)
(* thread or process from calling in between.                              *)
(*                                                                         *)
(* A path is a sequence of names, <<>> the root, which holds other things  *)
(* besides and is never empty.                                             *)
(***************************************************************************)
EXTENDS Integers, FiniteSets, SequencesExt

CONSTANTS
    Threads,
    InitFiles,       \* the files there are at first, in their directories
    Deleted,         \* BOUND: what delete_file is called with
    Created          \* BOUND: what create_file, or the log, opens

Names == UNION {ToSet(p) : p \in InitFiles \cup Deleted \cup Created}
Above(path) == {SubSeq(path, 1, n) : n \in 1..(Len(path) - 1)}

(* No file has the name of a directory that is above another one. *)
FilesAssumption ==
    /\ InitFiles \cup Deleted \cup Created \subseteq Seq(Names) \ {<<>>}
    /\ \A p, q \in InitFiles \cup Created : p \notin Above(q)

VARIABLES
    dirs, files,     \* what exists
    does,            \* thread -> its call
    raced,           \* some call that creates was made while another call was
    harmed           \* files that an emptying of directories removed, and that
                     \* were there before the call began

vars == <<dirs, files, does, raced, harmed>>

Children(dir) == {p \in dirs \cup files : p # <<>> /\ Front(p) = dir}
Exists(dir) == dir = <<>> \/ dir \in dirs
Active == {t \in Threads : does[t].pc # "idle"}
Creating == {"access", "mkdir", "open", "failed"}

(* delete_file_l: one frame for each directory it is in, with what was there *)
(* when it was opened and what has been read of it.                          *)
Frames == [path : Seq(Names), opened : BOOLEAN, there : SUBSET Seq(Names), read : SUBSET Seq(Names)]
Frame(path) == [path |-> path, opened |-> FALSE, there |-> {}, read |-> {}]
OnTop(stack, frame) == Append(Front(stack), frame)

Set(t, call) == does' = [does EXCEPT ![t] = call]

(* What a call is at, with the path and how far it has come.  alone: no other call *)
(* was made since it began; fresh: the files that were created since.              *)
Calls == [pc : {"idle", "delete", "look"} \cup Creating, path : Seq(Names),
          how : {"create_file", "log"}, above : Nat,
          stage : {"path", "empty"}, stack : Seq(Frames),
          alone : BOOLEAN, fresh : SUBSET Created]

Idle == [pc |-> "idle", path |-> <<>>, how |-> "log", above |-> 0, stage |-> "path",
         stack |-> <<>>, alone |-> FALSE, fresh |-> {}]

TypeOK ==
    /\ files \subseteq InitFiles \cup Created
    /\ dirs \subseteq UNION {Above(p) : p \in InitFiles \cup Created}
    /\ \A p \in dirs \cup files : Above(p) \subseteq dirs
    /\ does \in [Threads -> Calls]
    /\ raced \in BOOLEAN /\ harmed \subseteq InitFiles \cup Created

Init ==
    /\ files = InitFiles
    /\ dirs = UNION {Above(p) : p \in InitFiles}
    /\ does = [t \in Threads |-> Idle]
    /\ raced = FALSE /\ harmed = {}

(* A call begins. *)
Begin(t, call) ==
    /\ does[t].pc = "idle"
    /\ does' = [u \in Threads |-> IF u = t THEN [call EXCEPT !.alone = (Active = {})]
                                  ELSE [does[u] EXCEPT !.alone = FALSE]]
    /\ raced' = (raced \/ (Active # {} /\ \E c \in {call} \cup {does[u] : u \in Threads} : c.pc \in Creating))
    /\ UNCHANGED <<dirs, files, harmed>>

-----------------------------------------------------------------------------
(* create_file goes through the directories of the path from the top.  The log *)
(* calls create_path, and opens the file whatever came of that.                *)
Create(t, path, how) == Begin(t, [Idle EXCEPT !.pc = "access", !.path = path, !.how = how])

NextDir(t) == SubSeq(does[t].path, 1, does[t].above + 1)

Access(t) ==
    /\ does[t].pc = "access"
    /\ Set(t, IF does[t].above + 1 = Len(does[t].path) THEN [does[t] EXCEPT !.pc = "open"]
              ELSE IF NextDir(t) \in dirs THEN [does[t] EXCEPT !.above = does[t].above + 1]
              ELSE [does[t] EXCEPT !.pc = "mkdir"])
    /\ UNCHANGED <<dirs, files, raced, harmed>>

(* mkdir fails where the directory is by now, or the one above it is no more. *)
Mkdir(t) ==
    /\ does[t].pc = "mkdir"
    /\ IF NextDir(t) \notin dirs \cup files /\ Exists(Front(NextDir(t)))
       THEN /\ dirs' = dirs \cup {NextDir(t)}
            /\ Set(t, [does[t] EXCEPT !.pc = "access", !.above = does[t].above + 1])
       ELSE /\ Set(t, [does[t] EXCEPT !.pc = IF does[t].how = "log" THEN "open" ELSE "failed"])
            /\ UNCHANGED dirs
    /\ UNCHANGED <<files, raced, harmed>>

(* fopen. *)
OpenFile(t) ==
    /\ does[t].pc = "open"
    /\ LET path == does[t].path
       IN  IF Exists(Front(path)) /\ path \notin dirs
           THEN /\ files' = files \cup {path}
                /\ does' = [u \in Threads |->
                              IF u = t THEN Idle
                              ELSE IF u \in Active THEN [does[u] EXCEPT !.fresh = does[u].fresh \cup {path}]
                              ELSE does[u]]
           ELSE Set(t, [does[t] EXCEPT !.pc = "failed"]) /\ UNCHANGED files
    /\ UNCHANGED <<dirs, raced, harmed>>

Failed(t) == does[t].pc = "failed" /\ Set(t, Idle) /\ UNCHANGED <<dirs, files, raced, harmed>>

-----------------------------------------------------------------------------
(* delete_file(path, true): stage tells whether the path itself is at stake, *)
(* or a directory above it that was found empty.                             *)
Delete(t, path) ==
    Begin(t, [Idle EXCEPT !.pc = "delete", !.path = path, !.stack = <<Frame(path)>>])

(* One level of delete_file_l is left.  After the last one, unless the path could *)
(* not be deleted, deleteEmptyDir looks at the directory above.                    *)
Pop(t, deleted) ==
    LET call == does[t]
    IN  Set(t, IF Len(call.stack) > 1 THEN [call EXCEPT !.stack = Front(call.stack)]
               ELSE IF call.stage = "path" /\ ~deleted THEN Idle
               ELSE [call EXCEPT !.pc = "look", !.path = Front(call.path), !.stack = <<>>])

Harm(t, path) ==
    harmed' = IF does[t].stage = "empty" /\ path \notin does[t].fresh THEN harmed \cup {path} ELSE harmed

(* opendir, or remove where there is no directory. *)
Enter(t) ==
    /\ does[t].pc = "delete"
    /\ LET top == Last(does[t].stack)
       IN  /\ ~top.opened
           /\ IF top.path \in dirs
              THEN /\ Set(t, [does[t] EXCEPT !.stack =
                                OnTop(does[t].stack, [top EXCEPT !.opened = TRUE, !.there = Children(top.path)])])
                   /\ UNCHANGED <<files, harmed>>
              ELSE /\ files' = files \ {top.path}
                   /\ (IF top.path \in files THEN Harm(t, top.path) ELSE UNCHANGED harmed)
                   /\ Pop(t, top.path \in files)
    /\ UNCHANGED <<dirs, raced>>

(* readdir: an entry that came later may be found or not. *)
ReadEntry(t) ==
    /\ does[t].pc = "delete"
    /\ LET top == Last(does[t].stack)
       IN  /\ top.opened
           /\ \E entry \in (top.there \cup Children(top.path)) \ top.read :
                 Set(t, [does[t] EXCEPT !.stack =
                           Append(OnTop(does[t].stack, [top EXCEPT !.read = top.read \cup {entry}]), Frame(entry))])
    /\ UNCHANGED <<dirs, files, raced, harmed>>

Rmdir(t) ==
    /\ does[t].pc = "delete"
    /\ LET top == Last(does[t].stack)
           possible == top.path \in dirs /\ Children(top.path) = {}
       IN  /\ top.opened /\ top.there \subseteq top.read
           /\ dirs' = IF possible THEN dirs \ {top.path} ELSE dirs
           /\ Pop(t, possible)
    /\ UNCHANGED <<files, raced, harmed>>

Empty(t, dir) ==
    Set(t, [does[t] EXCEPT !.pc = "delete", !.stage = "empty", !.stack = <<Frame(dir)>>])

(* Mutation: it is not looked whether the directory is empty. *)
LookAtAnything(t) ==
    /\ does[t].pc = "look"
    /\ IF does[t].path \notin dirs THEN Set(t, Idle) ELSE Empty(t, does[t].path)
    /\ UNCHANGED <<dirs, files, raced, harmed>>

(* deleteEmptyDir: what is found empty is deleted by delete_file, with what is *)
(* in it by then.                                                              *)
Look(t) ==
    /\ does[t].pc = "look"
    /\ IF does[t].path \notin dirs \/ Children(does[t].path) # {} THEN Set(t, Idle)
       ELSE Empty(t, does[t].path)
    /\ UNCHANGED <<dirs, files, raced, harmed>>

Next ==
    \E t \in Threads :
        \/ \E path \in Deleted : Delete(t, path)
        \/ \E path \in Created, how \in {"create_file", "log"} : Create(t, path, how)
        \/ Access(t) \/ Mkdir(t) \/ OpenFile(t) \/ Failed(t)
        \/ Enter(t) \/ ReadEntry(t) \/ Rmdir(t) \/ Look(t)

Spec == Init /\ [][Next]_vars

-----------------------------------------------------------------------------
(* What was there before a call stays unless it was at or below the path that *)
(* the call was given; a file that is created in a directory just found empty *)
(* goes with it.  Once all calls have returned no directory is empty, unless  *)
(* one of them created while another one ran; and only then may creating fail. *)
FilesSpared ==
    /\ harmed = {}
    /\ Active = {} /\ ~raced => \A dir \in dirs : Children(dir) # {}
    /\ \A t \in Threads : does[t].pc = "failed" => ~does[t].alone
===============================================================================
