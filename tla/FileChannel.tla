----------------------------- MODULE FileChannel -----------------------------
(***************************************************************************)
(* src/Util/logger.cpp: the log file of a day, its slices, and the removal *)
(* of old ones.  A file is named after the day and a number; what exists   *)
(* is kept in a set ordered by name.  In the name the number has at least  *)
(* two digits: from Base^2 on (100 in the code) the order of the names is  *)
(* no longer that of the numbers.                                          *)
(***************************************************************************)
EXTENDS Integers, FiniteSets, FiniteSetsExt

CONSTANTS
    Base,             \* of the numbers in names: 10 in the code
    log_max_day,
    log_max_count,
    Seasons,          \* whether daylight saving may be in effect at a start
    MaxDay,           \* BOUND: the last day
    MaxIndex          \* BOUND: on the number of a slice, below Base^3

FileChannelAssumption ==
    /\ Seasons \subseteq BOOLEAN
    /\ Base \in Nat \ {0, 1} /\ MaxIndex \in 0..(Base * Base * Base - 1)
    /\ log_max_day \in Nat \ {0} /\ log_max_count \in Nat \ {0}      \* as the setters see to it
    /\ MaxDay \in Nat

VARIABLES
    today,            \* getDay(time(nullptr))
    late,             \* it is the last hour of that day
    daylight,         \* _daylight_active
    disk,             \* the files in the directory
    log_file_map,     \* _log_file_map
    index,            \* _index
    last_day,         \* _last_day, -1 at first
    path,             \* the file named last
    can_write,        \* _can_write: the stream is open
    failed            \* some file could not be opened since the start of the program

vars == <<today, late, daylight, disk, log_file_map, index, last_day, path, can_write, failed>>

Files == [day : 0..(MaxDay + 1), index : 0..MaxIndex]
NoFile == [day |-> -1, index |-> 0]

TypeOK ==
    /\ today \in 0..MaxDay /\ last_day \in -1..MaxDay
    /\ late \in BOOLEAN /\ daylight \in BOOLEAN
    /\ disk \subseteq Files /\ log_file_map \subseteq Files
    /\ index \in 0..(MaxIndex + 1)
    /\ path \in Files \cup {NoFile}
    /\ can_write \in BOOLEAN /\ failed \in BOOLEAN

(* The set is ordered as the names are: "_10.log", "_100.log", "_11.log". *)
Rank(i) == IF i < Base * Base THEN i * (Base + 1)
           ELSE (i \div Base) * (Base + 1) + 1 + (i % Base)

Before(f, g) == f.day < g.day \/ (f.day = g.day /\ Rank(f.index) < Rank(g.index))
From(f, files) == {g \in files : g = f \/ Before(f, g)}

(* The constructor: the files found, and today's greatest number. *)
Found(files, day) == Max({f.index : f \in {g \in files : g.day = day}} \cup {0})

Init ==
    /\ today = 0 /\ late = FALSE
    /\ daylight \in Seasons
    /\ disk = {} /\ log_file_map = {}
    /\ index = 0 /\ last_day = -1
    /\ path = NoFile /\ can_write = FALSE
    /\ failed = FALSE

-----------------------------------------------------------------------------
(* clean: from the first file on, those that are too old. *)
TooOld(f) == today >= f.day + log_max_day
Expired(files) == {f \in files : \A g \in files : g = f \/ Before(g, f) => TooOld(g)}

(* Then the first ones, until there are not too many or it is the current one's turn: *)
(* a file stays if no more than count are left with it, or the current one is.        *)
Trimmed(files, current, count) ==
    {f \in files : \/ Cardinality(From(f, files)) <= count
                   \/ current \in files /\ f \in From(current, files)}

(* Mutation: the current file is not spared. *)
CleanAll(files, current) == Trimmed(files \ Expired(files), NoFile, log_max_count)

(* Mutation: >= instead of >. *)
CleanOneMore(files, current) == Trimmed(files \ Expired(files), current, log_max_count - 1)

Clean(files, current) == Trimmed(files \ Expired(files), current, log_max_count)

(* The day a file is named after, for a record of some day and hour. *)
Named(day, hour) == IF daylight /\ hour THEN day + 1 ELSE day

(* changeFile: the name is entered before it is known whether the file opens. *)
ChangeFile(day, hour, i, opens) ==
    /\ i <= MaxIndex
    /\ LET file == [day |-> Named(day, hour), index |-> i]
           kept == Clean(log_file_map \cup {file}, file)
       IN  /\ path' = file
           /\ can_write' = opens
           /\ log_file_map' = kept
           /\ disk' = (IF opens THEN disk \cup {file} ELSE disk)
                        \ ((log_file_map \cup {file}) \ kept)
    /\ index' = i + 1
    /\ failed' = (failed \/ ~opens)
    /\ UNCHANGED <<today, late, daylight>>

(* Records come as they were taken: one of the day or the hour before may come *)
(* after others of this one.                                                   *)
Recent(day, hour) ==
    \/ day = today /\ (hour => late)
    \/ day = today - 1 /\ hour /\ day >= 0

(* write, for the first record, one of another day, and one of the same day. *)
WriteOtherDay(day, hour, opens) ==
    /\ Recent(day, hour) /\ day # last_day
    /\ ChangeFile(day, hour, IF last_day = -1 THEN index ELSE 0, opens)
    /\ last_day' = day

(* checkSize, at most once a minute: the file has grown too large.  Of a file *)
(* that is not open the size is -1, which is larger than any.                 *)
WriteSlice(hour, opens) ==
    /\ Recent(last_day, hour)
    /\ ChangeFile(last_day, hour, index, opens)
    /\ UNCHANGED last_day

Write ==
    \E hour \in BOOLEAN, opens \in BOOLEAN :
        WriteSlice(hour, opens) \/ \E day \in 0..MaxDay : WriteOtherDay(day, hour, opens)

LastHour ==
    /\ ~late /\ late' = TRUE
    /\ UNCHANGED <<today, daylight, disk, log_file_map, index, last_day, path, can_write, failed>>

NewDay ==
    /\ today < MaxDay /\ late
    /\ today' = today + 1 /\ late' = FALSE
    /\ UNCHANGED <<daylight, disk, log_file_map, index, last_day, path, can_write, failed>>

(* The program ends, or crashes, and starts again, at some time of the year. *)
Restart ==
    /\ daylight' \in Seasons
    /\ log_file_map' = disk
    /\ index' = Found(disk, IF daylight' /\ late THEN today + 1 ELSE today)
    /\ last_day' = -1 /\ path' = NoFile /\ can_write' = FALSE
    /\ failed' = FALSE
    /\ UNCHANGED <<today, late, disk>>

Next == Write \/ LastHour \/ NewDay \/ Restart

Spec == Init /\ [][Next]_vars

-----------------------------------------------------------------------------
Ordered == \A f \in log_file_map : f.index < Base * Base

(* What is on disk is known, and within the limit as long as the file written *)
(* to is the last one in the order of the names; it is on disk itself unless  *)
(* its day was over so long ago that it was cleaned away as soon as opened.   *)
FilesKept ==
    /\ disk \subseteq log_file_map
    /\ Cardinality(disk) <= log_max_count
        \/ (path \in log_file_map /\ \E f \in log_file_map : Before(path, f)) \/ path = NoFile
    /\ can_write => path \in disk \/ path.day + log_max_day <= today

(* A file that is not too old is removed only for newer ones: all that stay *)
(* are of later days or have greater numbers.  This does not hold when the  *)
(* numbers have outgrown their width; and the newer ones may be names only, *)
(* of files that could not be opened.                                       *)
NewerStay ==
    [][\A f \in disk \ disk' :
          \/ TooOld(f)
          \/ ~Ordered \/ ~Ordered'
          \/ /\ \A g \in disk' : f.day < g.day \/ (f.day = g.day /\ f.index < g.index)
             /\ failed' \/ Cardinality(disk') >= log_max_count]_vars
===============================================================================
