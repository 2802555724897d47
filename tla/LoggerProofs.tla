----------------------------- MODULE LoggerProofs -----------------------------
(***************************************************************************)
(* Theorems about the Logger and the AsyncLogWriter of src/Util/logger.cpp, *)
(* for any number of threads, messages and writers; about the files that    *)
(* its FileChannel writes and removes (FileChannel.tla); and about the      *)
(* directories those are in, which src/Util/File.cpp makes and deletes      *)
(* (Files.tla).                                                             *)
(***************************************************************************)
EXTENDS Logger, SequenceTheorems, FiniteSetTheorems, WellFoundedInduction, TLAPS

(* What has been given to the channels and what is counted in _last_log. *)
Out == reported \o Copies(_last_log, repeat)

(* Who has messages in hand, and when the list is empty: the destructor and *)
(* the writer's thread never have messages at the same time, nor a thread   *)
(* that logs directly and anybody else; a list is given up only when it is  *)
(* empty.                                                                   *)
Hands ==
    /\ batch["writer"] # <<>> => writer = "flush"
    /\ batch["caller"] # <<>> => owner = "flush" \/ \E p \in Producers : producer[p] = "direct"
    /\ \A p \in Producers : producer[p] = "direct" =>
          /\ owner = "up" /\ writer = "none"
          /\ Len(batch["caller"]) = 1
          /\ \A other \in Producers \ {p} : producer[other] = "idle"
    /\ owner # "up" => Quiet
    /\ owner = "flush" => writer = "exited"
    /\ owner \in {"final", "dead"} => writer = "none"
    /\ writer = "none" \/ owner = "flush" => _pending = <<>>
    /\ owner = "dead" => repeat = 0

Inv == TypeOK /\ Hands /\ InOrder

-----------------------------------------------------------------------------
LEMMA CopiesType ==
  ASSUME NEW m \in Messages, NEW n \in Nat
  PROVE  /\ Copies(m, n) \in Seq(Messages)
         /\ Copies(m, n + 1) = Copies(m, n) \o <<m>>
<1>1. \A k \in Nat : Copies(m, k) \in Seq(Messages) /\ Len(Copies(m, k)) = k
  BY DEF Copies
<1>2. <<m>> \in Seq(Messages) /\ Len(<<m>>) = 1 /\ <<m>>[1] = m
  OBVIOUS
<1>3. /\ Copies(m, n) \o <<m>> \in Seq(Messages)
      /\ Len(Copies(m, n) \o <<m>>) = n + 1
      /\ \A i \in 1..(n + 1) : (Copies(m, n) \o <<m>>)[i]
                                 = IF i <= n THEN Copies(m, n)[i] ELSE <<m>>[i - n]
  BY <1>1, <1>2, ConcatProperties
<1>4. \A i \in 1..(n + 1) : Copies(m, n + 1)[i] = (Copies(m, n) \o <<m>>)[i]
  BY <1>2, <1>3 DEF Copies
<1>5. QED
  BY <1>1, <1>3, <1>4, SeqEqual

LEMMA NoCopies == \A m : Copies(m, 0) = <<>>
BY DEF Copies

LEMMA OutType ==
  ASSUME TypeOK
  PROVE  Out \in Seq(Messages) /\ Copies(_last_log, repeat) \in Seq(Messages)
<1>1. Copies(_last_log, repeat) \in Seq(Messages)
  <2>1. CASE repeat = 0
    BY <2>1, NoCopies, EmptySeq
  <2>2. CASE repeat > 0
    BY <2>2, CopiesType DEF TypeOK
  <2>3. QED
    BY <2>1, <2>2 DEF TypeOK
<1>2. QED
  BY <1>1, ConcatProperties DEF Out, TypeOK

(* The first of what follows may be moved over. *)
LEMMA Shift ==
  ASSUME NEW S, NEW s \in Seq(S), NEW t \in Seq(S), t # <<>>
  PROVE  s \o t = (s \o <<Head(t)>>) \o Tail(t)
<1>1. Head(t) \in S /\ Tail(t) \in Seq(S) /\ <<Head(t)>> \in Seq(S)
  BY HeadTailProperties
<1>2. t = <<Head(t)>> \o Tail(t)
  <2>1. Len(t) \in Nat \ {0}
    BY EmptySeq
  <2>2. /\ <<Head(t)>> \o Tail(t) \in Seq(S)
        /\ Len(<<Head(t)>> \o Tail(t)) = Len(t)
        /\ \A i \in 1..Len(t) : (<<Head(t)>> \o Tail(t))[i] =
              IF i <= 1 THEN <<Head(t)>>[i] ELSE Tail(t)[i - 1]
    BY <1>1, <2>1, ConcatProperties, HeadTailProperties
  <2>3. \A i \in 1..Len(t) : t[i] = (<<Head(t)>> \o Tail(t))[i]
    BY <2>1, <2>2, HeadTailProperties
  <2>4. QED
    BY <2>1, <2>2, <2>3, SeqEqual
<1>3. QED
  BY <1>1, <1>2, ConcatAssociative

-----------------------------------------------------------------------------
(* Whatever writeChannels does with a message, it adds it, once, at the end *)
(* of what is printed and counted.                                          *)
LEMMA WriteChannelsStep ==
  ASSUME TypeOK, NEW m \in Messages, WriteChannels(m)
  PROVE  /\ Out' = Out \o <<m>>
         /\ reported' \in Seq(Messages) /\ repeat' \in Nat
         /\ _last_log' \in Messages
<1> USE LoggerAssumption
<1>1. /\ Out \in Seq(Messages) /\ Copies(_last_log, repeat) \in Seq(Messages)
      /\ reported \in Seq(Messages) /\ repeat \in Nat /\ <<m>> \in Seq(Messages)
  BY OutType DEF TypeOK
<1>2. CASE Different(m)
  <2>1. reported' = Out \o <<m>> /\ reported' \in Seq(Messages)
    BY <1>1, <1>2, AppendIsConcat, ConcatProperties DEF Different, Out
  <2>2. Out' = reported'
    BY <1>2, <2>1, NoCopies, ConcatEmptySeq DEF Different, Out
  <2>3. QED
    BY <1>2, <2>1, <2>2 DEF Different
<1>3. ASSUME NEW late \in BOOLEAN, Repeated(m, late)
      PROVE  /\ Out' = Out \o <<m>>
             /\ reported' \in Seq(Messages) /\ repeat' \in Nat
             /\ _last_log' \in Messages
  <2>1. m = _last_log /\ _last_log' = m
    BY <1>3 DEF Repeated
  <2>2. Copies(m, repeat + 1) = Copies(m, repeat) \o <<m>> /\ Copies(m, repeat + 1) \in Seq(Messages)
    <3>1. repeat \in Nat /\ repeat + 1 \in Nat
      BY <1>1
    <3>2. QED
      BY <3>1, CopiesType
  <2>3. Out \o <<m>> = reported \o Copies(m, repeat + 1)
    <3>1. Copies(m, repeat) \in Seq(Messages) /\ Out = reported \o Copies(m, repeat)
      BY <1>1, <2>1 DEF Out
    <3>2. (reported \o Copies(m, repeat)) \o <<m>> = reported \o (Copies(m, repeat) \o <<m>>)
      BY <1>1, <3>1, ConcatAssociative
    <3>3. QED
      BY <2>2, <3>1, <3>2
  <2>4. CASE late
    <3>1. reported' = Out \o <<m>> /\ repeat' = 0
      BY <1>3, <2>3, <2>4 DEF Repeated
    <3>2. reported' \in Seq(Messages)
      BY <1>1, <3>1, ConcatProperties
    <3>3. Out' = reported'
      BY <3>1, <3>2, NoCopies, ConcatEmptySeq DEF Out
    <3>4. QED
      BY <2>1, <3>1, <3>2, <3>3
  <2>5. CASE ~late
    <3>1. reported' = reported /\ repeat' = repeat + 1
      BY <1>3, <2>5 DEF Repeated
    <3>2. Out' = reported \o Copies(m, repeat + 1)
      BY <2>1, <3>1 DEF Out
    <3>3. repeat' \in Nat /\ reported' \in Seq(Messages)
      BY <1>1, <3>1
    <3>4. Out' = Out \o <<m>>
      BY <2>3, <3>2
    <3>5. QED
      BY <2>1, <3>3, <3>4
  <2>6. QED
    BY <2>4, <2>5
<1>4. QED
  BY <1>2, <1>3 DEF WriteChannels

(* A caller that hands over the first message of its list, while nobody     *)
(* before it in the order has one.                                          *)
LEMMA HandStep ==
  ASSUME Inv, NEW c \in Callers, Hand(c),
         c = "caller" => batch["writer"] = <<>>,
         UNCHANGED <<logged, _pending>>
  PROVE  /\ InOrder'
         /\ batch' \in [Callers -> Seq(Messages)]
         /\ reported' \in Seq(Messages) /\ repeat' \in Nat
         /\ _last_log' \in Messages
<1> DEFINE m == Head(batch[c])
<1>1. /\ batch \in [Callers -> Seq(Messages)] /\ _pending \in Seq(Messages)
      /\ batch["writer"] \in Seq(Messages) /\ batch["caller"] \in Seq(Messages)
      /\ Out \in Seq(Messages)
  BY OutType DEF Inv, TypeOK, Callers
<1>2. m \in Messages /\ Tail(batch[c]) \in Seq(Messages) /\ batch[c] # <<>>
  BY <1>1, HeadTailProperties DEF Hand
<1>3. /\ Out' = Out \o <<m>>
      /\ reported' \in Seq(Messages) /\ repeat' \in Nat
      /\ _last_log' \in Messages
  BY <1>2, WriteChannelsStep DEF Inv, Hand
<1>4. batch' \in [Callers -> Seq(Messages)]
  BY <1>1, <1>2 DEF Hand
<1>5. Out \o batch[c] = Out' \o Tail(batch[c])
  BY <1>1, <1>2, <1>3, Shift
<1>6. logged = Out \o batch["writer"] \o batch["caller"] \o _pending
  BY DEF Inv, InOrder, Out
<1>7. Out \o batch["writer"] \o batch["caller"] = Out' \o batch'["writer"] \o batch'["caller"]
  <2>1. CASE c = "writer"
    <3>1. batch'["writer"] = Tail(batch[c]) /\ batch'["caller"] = batch["caller"]
      BY <1>1, <2>1 DEF Hand, Callers
    <3>2. QED
      BY <1>5, <2>1, <3>1
  <2>2. CASE c = "caller"
    <3>1. batch'["caller"] = Tail(batch[c]) /\ batch'["writer"] = <<>> /\ batch["writer"] = <<>>
      BY <1>1, <2>2 DEF Hand, Callers
    <3>2. Out \o <<>> = Out /\ Out' \o <<>> = Out'
      <4>1. Out' \in Seq(Messages)
        BY <1>1, <1>2, <1>3, ConcatProperties
      <4>2. QED
        BY <1>1, <4>1, ConcatEmptySeq
    <3>3. QED
      BY <1>5, <2>2, <3>1, <3>2
  <2>3. QED
    BY <2>1, <2>2 DEF Callers
<1>8. InOrder'
  BY <1>6, <1>7 DEF InOrder, Out
<1>9. QED
  BY <1>3, <1>4, <1>8

LEMMA InitInv == Init => Inv
<1> SUFFICES ASSUME Init PROVE Inv
  OBVIOUS
<1>1. TypeOK
  <2>1. <<>> \in Seq(Messages)
    BY EmptySeq
  <2>2. batch \in [Callers -> Seq(Messages)]
    BY <2>1 DEF Init
  <2>3. producer \in [Producers -> {"idle", "post", "direct"}]
    BY DEF Init
  <2>4. /\ _pending \in Seq(Messages) /\ logged \in Seq(Messages)
        /\ reported \in Seq(Messages)
    BY <2>1 DEF Init
  <2>5. /\ owner = "up" /\ then = "dead" /\ writer = "none" /\ writers = 0
        /\ _exit_flag = FALSE /\ _sem = 0 /\ repeat = 0 /\ _last_log = NoMessage
    BY DEF Init
  <2>6. /\ owner \in {"up", "flag", "post", "join", "flush", "final", "dead"}
        /\ then \in {"async", "none", "dead"}
        /\ writer \in {"none", "test", "wait", "swap", "flush", "exited"}
        /\ _exit_flag \in BOOLEAN
        /\ _last_log \in Messages \cup {NoMessage}
    BY <2>5
  <2>7. /\ writers \in Nat /\ _sem \in Nat /\ repeat \in Nat
        /\ repeat > 0 => _last_log # NoMessage
    BY <2>5
  <2>8. QED
    BY <2>2, <2>3, <2>4, <2>6, <2>7 DEF TypeOK
<1>2. Hands
  BY DEF Init, Hands, Callers, Quiet
<1>3. InOrder
  <2>1. Copies(_last_log, repeat) = <<>>
    BY NoCopies DEF Init
  <2>2. <<>> \o <<>> = <<>>
    BY EmptySeq, ConcatEmptySeq
  <2>3. QED
    BY <2>1, <2>2 DEF Init, InOrder, Callers
<1>4. QED
  BY <1>1, <1>2, <1>3 DEF Inv

-----------------------------------------------------------------------------
(* The threads that log. *)
LEMMA PushStep ==
  ASSUME Inv, NEW p \in Producers, NEW m \in Messages, Push(p, m)
  PROVE  Inv'
<1>1. TypeOK'
  BY AppendProperties DEF Inv, TypeOK, Push, Message, Become, channels
<1>2. Hands'
  BY DEF Inv, TypeOK, Hands, Quiet, Push, Message, Become, channels
<1>3. InOrder'
  <2> DEFINE before == Out \o batch["writer"] \o batch["caller"]
  <2>1. before \in Seq(Messages) /\ _pending \in Seq(Messages) /\ <<m>> \in Seq(Messages)
    BY OutType, ConcatProperties DEF Inv, TypeOK, Callers
  <2>2. logged \in Seq(Messages) /\ logged = before \o _pending
    BY DEF Inv, TypeOK, InOrder, Out
  <2>3. logged' = (before \o _pending) \o <<m>> /\ _pending' = _pending \o <<m>>
    BY <2>1, <2>2, AppendIsConcat DEF Push, Message
  <2>4. logged' = before \o _pending'
    <3> HIDE DEF before
    <3>1. (before \o _pending) \o <<m>> = before \o (_pending \o <<m>>)
      BY <2>1, ConcatAssociative
    <3>2. QED
      BY <2>3, <3>1
  <2>5. QED
    BY <2>4 DEF InOrder, Out, Push, channels
<1>4. QED
  BY <1>1, <1>2, <1>3 DEF Inv

LEMMA WriteDirectStep ==
  ASSUME Inv, NEW p \in Producers, NEW m \in Messages, WriteDirect(p, m)
  PROVE  Inv'
<1>1. batch["writer"] = <<>> /\ batch["caller"] = <<>> /\ _pending = <<>>
  BY DEF Inv, Hands, WriteDirect, Message
<1>2. TypeOK'
  BY AppendProperties DEF Inv, TypeOK, WriteDirect, Message, Become, channels, queue, Callers
<1>3. batch'["writer"] = <<>> /\ batch'["caller"] = <<m>> /\ _pending' = <<>>
  BY <1>1 DEF Inv, TypeOK, WriteDirect, Callers, queue
<1>4. Hands'
  BY <1>1, <1>3 DEF Inv, TypeOK, Hands, Quiet, WriteDirect, Message, Become, channels, queue
<1>5. InOrder'
  <2>1. Out \in Seq(Messages) /\ <<m>> \in Seq(Messages) /\ Out \o <<m>> \in Seq(Messages)
    BY OutType, ConcatProperties DEF Inv
  <2>2. Out' = Out
    BY DEF WriteDirect, channels, Out
  <2>3. logged = Out
    BY <1>1, <2>1, ConcatEmptySeq DEF Inv, InOrder, Out
  <2>4. logged' = Out \o <<m>>
    BY <2>1, <2>3, AppendIsConcat DEF WriteDirect, Message
  <2>5. Out' \o batch'["writer"] \o batch'["caller"] \o _pending' = Out \o <<m>>
    BY <1>3, <2>1, <2>2, ConcatEmptySeq
  <2>6. QED
    BY <2>4, <2>5 DEF InOrder, Out
<1>6. QED
  BY <1>2, <1>4, <1>5 DEF Inv

LEMMA DirectStep ==
  ASSUME Inv, NEW p \in Producers, Direct(p)
  PROVE  Inv'
<1>1. batch["writer"] = <<>> /\ owner = "up" /\ writer = "none" /\ Len(batch["caller"]) = 1
  BY DEF Inv, Hands, Direct
<1>2. /\ InOrder' /\ batch' \in [Callers -> Seq(Messages)]
      /\ reported' \in Seq(Messages) /\ repeat' \in Nat /\ _last_log' \in Messages
  BY <1>1, HandStep DEF Direct, queue, Callers
<1>3. TypeOK'
  BY <1>2, LoggerAssumption DEF Inv, TypeOK, Direct, Become, queue
<1>4. batch'["writer"] = <<>> /\ batch'["caller"] = <<>>
  <2>1. batch["caller"] \in Seq(Messages) /\ batch["caller"] # <<>>
    BY DEF Inv, TypeOK, Callers, Direct, Hand
  <2>2. Len(Tail(batch["caller"])) = 0 /\ Tail(batch["caller"]) \in Seq(Messages)
    BY <1>1, <2>1, HeadTailProperties
  <2>3. Tail(batch["caller"]) = <<>>
    BY <2>2, EmptySeq
  <2>4. QED
    BY <1>1, <2>3 DEF Inv, TypeOK, Direct, Hand, Callers
<1>5. Hands'
  BY <1>1, <1>4 DEF Inv, TypeOK, Hands, Quiet, Direct, Become, queue
<1>6. QED
  BY <1>2, <1>3, <1>5 DEF Inv

LEMMA PostStep ==
  ASSUME Inv, NEW p \in Producers, Post(p)
  PROVE  Inv'
BY DEF Inv, TypeOK, Hands, InOrder, Quiet, Post, Become, channels

-----------------------------------------------------------------------------
(* The writer's thread. *)
LEMMA WriterStepInv ==
  ASSUME Inv, WriterStep
  PROVE  Inv'
<1>1. CASE TestExitFlag
  BY <1>1 DEF TestExitFlag, Goto, Inv, TypeOK, Hands, InOrder, Quiet, channels, queue
<1>2. CASE Wait
  BY <1>2 DEF Wait, Goto, Inv, TypeOK, Hands, InOrder, Quiet, channels
<1>3. CASE Swap
  <2>1. batch["writer"] = <<>> /\ batch'["writer"] = _pending /\ _pending' = <<>>
        /\ batch'["caller"] = batch["caller"] /\ batch["caller"] = <<>>
    BY <1>3 DEF Swap, TakePending, Inv, TypeOK, Hands, Callers
  <2>2. TypeOK'
    BY <1>3, EmptySeq DEF Swap, Goto, TakePending, Inv, TypeOK, Callers, channels
  <2>3. Hands'
    BY <1>3, <2>1 DEF Swap, Goto, Inv, TypeOK, Hands, Quiet, channels
  <2>4. InOrder'
    <3>1. Out \in Seq(Messages) /\ _pending \in Seq(Messages) /\ Out \o _pending \in Seq(Messages)
      BY OutType, ConcatProperties DEF Inv, TypeOK
    <3>2. logged = Out \o _pending
      BY <2>1, <3>1, ConcatEmptySeq DEF Inv, InOrder, Out
    <3>3. Out' = Out /\ logged' = logged
      BY <1>3 DEF Swap, channels, Out
    <3>4. Out' \o batch'["writer"] \o batch'["caller"] \o _pending' = Out \o _pending
      BY <2>1, <3>1, <3>3, ConcatEmptySeq
    <3>5. QED
      BY <3>2, <3>3, <3>4 DEF InOrder, Out
  <2>5. QED
    BY <2>2, <2>3, <2>4 DEF Inv
<1>4. CASE Flush
  <2>1. /\ InOrder' /\ batch' \in [Callers -> Seq(Messages)]
        /\ reported' \in Seq(Messages) /\ repeat' \in Nat /\ _last_log' \in Messages
    BY <1>4, HandStep DEF Flush, queue, Callers
  <2>2. TypeOK'
    BY <1>4, <2>1, LoggerAssumption DEF Flush, Inv, TypeOK, queue
  <2>3. batch'["caller"] = batch["caller"]
    BY <1>4 DEF Flush, Hand, Inv, TypeOK, Callers
  <2>4. owner # "dead"
    BY <1>4 DEF Flush, Inv, Hands
  <2>5. Hands'
    BY <1>4, <2>3, <2>4 DEF Flush, Inv, TypeOK, Hands, Quiet, queue
  <2>6. QED
    BY <2>1, <2>2, <2>5 DEF Inv
<1>5. CASE Flushed
  BY <1>5 DEF Flushed, Goto, Inv, TypeOK, Hands, InOrder, Quiet, channels, queue
<1>6. QED
  BY <1>1, <1>2, <1>3, <1>4, <1>5 DEF WriterStep

-----------------------------------------------------------------------------
(* setWriter and the destructors. *)
LEMMA InstallStep ==
  ASSUME Inv, NEW what \in {"async", "none", "dead"}, Install(what),
         _pending = <<>>, Quiet, batch["writer"] = <<>>, batch["caller"] = <<>>,
         writers' \in Nat, then' \in {"async", "none", "dead"},
         UNCHANGED <<producer, batch, channels, logged>>
  PROVE  Inv'
<1>1. TypeOK'
  BY EmptySeq DEF Install, Inv, TypeOK, channels
<1>2. Hands'
  BY DEF Install, Inv, TypeOK, Hands, Quiet, channels
<1>3. InOrder'
  BY DEF Install, Inv, InOrder, channels
<1>4. QED
  BY <1>1, <1>2, <1>3 DEF Inv

LEMMA SetWriterStep ==
  ASSUME Inv, NEW what \in {"async", "none", "dead"},
         SetFirstWriter(what) \/ ReplaceWriter(what)
  PROVE  Inv'
<1>1. CASE SetFirstWriter(what)
  <2>1. _pending = <<>> /\ batch["writer"] = <<>> /\ batch["caller"] = <<>>
    BY <1>1 DEF SetFirstWriter, Inv, Hands, Quiet
  <2>2. writers' \in Nat /\ then' \in {"async", "none", "dead"}
    BY <1>1 DEF SetFirstWriter, CountWriters, Inv, TypeOK
  <2>3. QED
    BY <1>1, <2>1, <2>2, InstallStep DEF SetFirstWriter
<1>2. CASE ReplaceWriter(what)
  <2>1. writers' \in Nat
    BY <1>2 DEF ReplaceWriter, CountWriters, Inv, TypeOK
  <2>2. QED
    BY <1>2, <2>1 DEF ReplaceWriter, Inv, TypeOK, Hands, InOrder, Quiet, channels, queue
<1>3. QED
  BY <1>1, <1>2

LEMMA OwnerStepInv ==
  ASSUME Inv, OwnerStep
  PROVE  Inv'
<1>1. CASE SetExitFlag
  BY <1>1 DEF SetExitFlag, Inv, TypeOK, Hands, InOrder, Quiet, channels, queue
<1>2. CASE PostExit
  BY <1>2 DEF PostExit, Inv, TypeOK, Hands, InOrder, Quiet, channels
<1>3. CASE Join
  <2>1. /\ batch["writer"] = <<>> /\ batch["caller"] = <<>>
        /\ batch'["caller"] = _pending /\ _pending' = <<>> /\ batch'["writer"] = <<>>
    BY <1>3 DEF Join, TakePending, Inv, TypeOK, Hands, Quiet, Callers
  <2>2. TypeOK'
    BY <1>3, EmptySeq DEF Join, TakePending, Inv, TypeOK, Callers, channels
  <2>3. Hands'
    BY <1>3, <2>1 DEF Join, Inv, TypeOK, Hands, Quiet, channels
  <2>4. InOrder'
    <3>1. Out \in Seq(Messages) /\ _pending \in Seq(Messages) /\ Out \o _pending \in Seq(Messages)
      BY OutType, ConcatProperties DEF Inv, TypeOK
    <3>2. logged = Out \o _pending
      BY <2>1, <3>1, ConcatEmptySeq DEF Inv, InOrder, Out
    <3>3. Out' = Out /\ logged' = logged
      BY <1>3 DEF Join, channels, Out
    <3>4. Out' \o batch'["writer"] \o batch'["caller"] \o _pending' = Out \o _pending
      BY <2>1, <3>1, <3>3, ConcatEmptySeq
    <3>5. QED
      BY <3>2, <3>3, <3>4 DEF InOrder, Out
  <2>5. QED
    BY <2>2, <2>3, <2>4 DEF Inv
<1>4. CASE FlushAll
  <2>1. batch["writer"] = <<>> /\ owner = "flush"
    BY <1>4 DEF FlushAll, Inv, Hands
  <2>2. /\ InOrder' /\ batch' \in [Callers -> Seq(Messages)]
        /\ reported' \in Seq(Messages) /\ repeat' \in Nat /\ _last_log' \in Messages
    BY <1>4, <2>1, HandStep DEF FlushAll, queue, Callers
  <2>3. TypeOK'
    BY <1>4, <2>2, LoggerAssumption DEF FlushAll, Inv, TypeOK, queue
  <2>4. batch'["writer"] = <<>>
    BY <1>4, <2>1 DEF FlushAll, Hand, Inv, TypeOK, Callers
  <2>5. Hands'
    BY <1>4, <2>1, <2>4 DEF FlushAll, Inv, TypeOK, Hands, Quiet, queue
  <2>6. QED
    BY <2>2, <2>3, <2>5 DEF Inv
<1>5. CASE Destroyed
  <2>1. _pending = <<>> /\ Quiet /\ batch["writer"] = <<>> /\ batch["caller"] = <<>>
    BY <1>5 DEF Destroyed, Inv, Hands
  <2>2. then \in {"async", "none", "dead"} /\ writers \in Nat
    BY DEF Inv, TypeOK
  <2>3. QED
    BY <1>5, <2>1, <2>2, InstallStep DEF Destroyed
<1>6. CASE Final
  <2>1. batch["writer"] = <<>> /\ batch["caller"] = <<>> /\ _pending = <<>> /\ Quiet
    BY <1>6 DEF Final, Inv, Hands, Quiet
  <2>2. reported' = Out /\ repeat' = 0 /\ Out \in Seq(Messages)
    BY <1>6, OutType DEF Final, Inv, Out
  <2>3. TypeOK'
    BY <1>6, <2>2 DEF Final, Inv, TypeOK, queue
  <2>4. Hands'
    BY <1>6, <2>1, <2>2 DEF Final, Inv, TypeOK, Hands, Quiet, queue
  <2>5. InOrder'
    <3>1. Out' = Out
      <4>1. Out' = Out \o <<>>
        BY <2>2, NoCopies DEF Out
      <4>2. QED
        BY <2>2, <4>1, ConcatEmptySeq
    <3>2. QED
      BY <1>6, <3>1 DEF Final, Inv, InOrder, Out, queue
  <2>6. QED
    BY <2>3, <2>4, <2>5 DEF Inv
<1>7. QED
  BY <1>1, <1>2, <1>3, <1>4, <1>5, <1>6 DEF OwnerStep

LEMMA NextInv == Inv /\ [Next]_vars => Inv'
<1> SUFFICES ASSUME Inv, [Next]_vars PROVE Inv'
  OBVIOUS
<1>1. CASE UNCHANGED vars
  BY <1>1 DEF vars, queue, channels, Inv, TypeOK, Hands, InOrder, Quiet
<1>2. CASE Next
  BY <1>1, <1>2, PushStep, WriteDirectStep, DirectStep, PostStep, WriterStepInv,
     OwnerStepInv, SetWriterStep DEF Next, Terminated
<1>3. QED
  BY <1>1, <1>2

LEMMA Invariant == SafetySpec => []Inv
BY InitInv, NextInv, PTL DEF SafetySpec

-----------------------------------------------------------------------------
(* The variables of the logger keep their types: the count of permits never *)
(* falls below zero, and nothing is counted before there was a message.     *)
THEOREM TypeCorrect == SafetySpec => []TypeOK
<1>1. Inv => TypeOK
  BY DEF Inv
<1>2. QED
  BY <1>1, Invariant, PTL

(* No message that was logged is lost, doubled or overtaken on its way to   *)
(* the channels.                                                            *)
THEOREM MessagesStayInOrder == SafetySpec => []InOrder
<1>1. Inv => InOrder
  BY DEF Inv
<1>2. QED
  BY <1>1, Invariant, PTL

(* ~Logger leaves no message behind: not in the list of the writer, not in  *)
(* the hands of its thread, and not in the count of repetitions.            *)
THEOREM NothingLeftUnreported == SafetySpec => []AllReported
<1>1. Inv => AllReported
  <2> SUFFICES ASSUME Inv, owner = "dead" PROVE reported = logged
    BY DEF AllReported
  <2>1. batch["writer"] = <<>> /\ batch["caller"] = <<>> /\ _pending = <<>> /\ repeat = 0
    BY DEF Inv, Hands, Quiet
  <2>2. Copies(_last_log, repeat) = <<>> /\ reported \in Seq(Messages)
    BY <2>1, NoCopies DEF Inv, TypeOK
  <2>3. QED
    BY <2>1, <2>2, ConcatEmptySeq DEF Inv, InOrder
<1>2. QED
  BY <1>1, Invariant, PTL

-----------------------------------------------------------------------------
(* The files of the log, FileChannel in src/Util/logger.cpp                  *)
(* (FileChannel.tla): any base of the numbers in their names, any limits on  *)
(* their age and number, any days, with daylight saving or without.          *)
CONSTANTS Base, log_max_day, log_max_count, Seasons, MaxDay, MaxIndex

VARIABLES today, late, daylight, disk, log_file_map, index, last_day, path, can_write, failed

Log == INSTANCE FileChannel

(* What FileChannel.tla assumes of its constants. *)
FilesUsed ==
    /\ Seasons \subseteq BOOLEAN
    /\ Base \in Nat \ {0, 1}
    /\ MaxIndex \in Nat
    /\ log_max_day \in Nat \ {0} /\ log_max_count \in Nat \ {0}
    /\ MaxDay \in Nat

(* The least element of a set of numbers. *)
LEMMA LeastOf ==
  ASSUME NEW S \in SUBSET Nat, S # {}
  PROVE  \E n \in S : \A m \in S : n <= m
<1> DEFINE R == {ss \in Nat \X Nat : ss[1] < ss[2]}
<1>1. IsWellFoundedOn(R, Nat)
  BY NatLessThanWellFounded DEF OpToRel
<1>2. \A x, y \in Nat : y < x => <<y, x>> \in R
  <2> SUFFICES ASSUME NEW x \in Nat, NEW y \in Nat, y < x PROVE <<y, x>> \in R
    OBVIOUS
  <2>1. <<y, x>> \in Nat \X Nat /\ <<y, x>>[1] < <<y, x>>[2]
    OBVIOUS
  <2>2. QED
    BY <2>1
<1> HIDE DEF R
<1>3. PICK x \in S : \A y \in S : ~ (<<y, x>> \in R)
  BY <1>1, WFMin
<1>4. ASSUME NEW m \in S PROVE x <= m
  <2>1. x \in Nat /\ m \in Nat
    OBVIOUS
  <2>2. ~ (m < x)
    BY <1>2, <1>3, <2>1
  <2>3. QED
    BY <2>1, <2>2
<1>5. QED
  BY <1>4

(* And the greatest, of a set with a bound. *)
LEMMA GreatestOf ==
  ASSUME NEW S \in SUBSET Nat, S # {}, NEW b \in Nat, \A n \in S : n <= b
  PROVE  \E n \in S : \A m \in S : n >= m
<1> DEFINE T == {b - n : n \in S}
<1>1. T \in SUBSET Nat /\ T # {}
  <2>1. \A n \in S : b - n \in Nat
    OBVIOUS
  <2>2. QED
    BY <2>1
<1> HIDE DEF T
<1>2. PICK d \in T : \A e \in T : d <= e
  BY <1>1, LeastOf
<1> USE DEF T
<1>3. PICK n \in S : d = b - n
  BY <1>2
<1>4. ASSUME NEW m \in S PROVE n >= m
  <2>1. b - m \in T
    OBVIOUS
  <2>2. b - n <= b - m
    BY <1>2, <1>3, <2>1
  <2>3. n \in Nat /\ m \in Nat
    OBVIOUS
  <2> HIDE DEF T
  <2>4. QED
    BY <2>2, <2>3
<1>5. QED
  BY <1>4

-----------------------------------------------------------------------------
(* How the names are ordered: by the day, then by the digits of the number.  *)
(* Names of two digits and longer ones are told apart by what Rank leaves    *)
(* over Base + 1.                                                            *)
LEMMA Divide ==
  ASSUME NEW i \in Nat, NEW b \in Nat, b > 0
  PROVE  /\ i \div b \in Nat /\ i % b \in Nat /\ i % b < b
         /\ i = b * (i \div b) + (i % b)
<1>1. i % b \in Nat /\ i % b < b /\ i \div b \in Int
  OBVIOUS
<1>2. i = b * (i \div b) + (i % b)
  BY Z3
<1>3. i \div b >= 0
  BY Z3
<1>4. QED
  BY <1>1, <1>2, <1>3

LEMMA Multiple ==
  ASSUME NEW d \in Nat, d >= 1, NEW b \in Nat
  PROVE  d * b >= b
OBVIOUS

LEMMA Digits ==
  ASSUME NEW b \in Nat, NEW q \in Nat, NEW p \in Nat, NEW s \in 0..b, NEW r \in 0..b,
         q * (b + 1) + s = p * (b + 1) + r
  PROVE  q = p /\ s = r
<1>1. ASSUME NEW x \in Nat, NEW y \in Nat, NEW u \in 0..b, NEW v \in 0..b, x < y
      PROVE  x * (b + 1) + u < y * (b + 1) + v
  <2>1. y - x \in Nat /\ y - x >= 1
    BY <1>1
  <2>2. (y - x) * (b + 1) >= b + 1
    BY <2>1, Multiple
  <2>3. (y - x) * (b + 1) = y * (b + 1) - x * (b + 1)
    OBVIOUS
  <2>4. QED
    BY <2>2, <2>3
<1>2. q = p
  BY <1>1
<1>3. QED
  BY <1>2

LEMMA RankType ==
  ASSUME NEW i \in Nat, Base \in Nat \ {0, 1}
  PROVE  \E q \in Nat, s \in 0..Base :
            /\ Log!Rank(i) = q * (Base + 1) + s /\ Log!Rank(i) \in Nat
            /\ s = 0 => q = i
            /\ s # 0 => i = Base * q + s - 1
<1>1. CASE i < Base * Base
  BY <1>1 DEF Log!Rank
<1>2. CASE ~(i < Base * Base)
  <2> DEFINE q == i \div Base
             r == i % Base
  <2>1. q \in Nat /\ r \in Nat /\ r < Base /\ i = Base * q + r
    <3>1. Base \in Nat /\ Base > 0
      OBVIOUS
    <3>2. QED
      BY <3>1, Divide
  <2>2. Log!Rank(i) = q * (Base + 1) + 1 + r
    BY <1>2 DEF Log!Rank
  <2> HIDE DEF q, r
  <2>3. /\ r + 1 \in 0..Base /\ r + 1 # 0 /\ i = Base * q + (r + 1) - 1
        /\ q * (Base + 1) + 1 + r = q * (Base + 1) + (r + 1)
        /\ q * (Base + 1) + 1 + r \in Nat
    BY <2>1
  <2>4. QED
    BY <2>1, <2>2, <2>3
<1>3. QED
  BY <1>1, <1>2

LEMMA RankTells ==
  ASSUME NEW i \in Nat, NEW j \in Nat, Base \in Nat \ {0, 1}, Log!Rank(i) = Log!Rank(j)
  PROVE  i = j
<1>1. PICK q \in Nat, s \in 0..Base :
         /\ Log!Rank(i) = q * (Base + 1) + s /\ Log!Rank(i) \in Nat
         /\ s = 0 => q = i
         /\ s # 0 => i = Base * q + s - 1
  BY RankType
<1>2. PICK p \in Nat, r \in 0..Base :
         /\ Log!Rank(j) = p * (Base + 1) + r /\ Log!Rank(j) \in Nat
         /\ r = 0 => p = j
         /\ r # 0 => j = Base * p + r - 1
  BY RankType
<1>3. q = p /\ s = r
  <2>1. Base \in Nat /\ q * (Base + 1) + s = p * (Base + 1) + r
    BY <1>1, <1>2
  <2>2. QED
    BY <2>1, Digits
<1>4. CASE s = 0
  BY <1>1, <1>2, <1>3, <1>4
<1>5. CASE s # 0
  <2>1. Base * q + s - 1 = Base * p + r - 1
    BY <1>3
  <2>2. i = Base * q + s - 1 /\ j = Base * p + r - 1
    BY <1>1, <1>2, <1>3, <1>5
  <2>3. QED
    BY <2>1, <2>2
<1>6. QED
  BY <1>4, <1>5

LEMMA Order ==
  ASSUME FilesUsed, NEW f \in Log!Files, NEW g \in Log!Files
  PROVE  /\ ~(Log!Before(f, g) /\ (g = f \/ Log!Before(g, f)))
         /\ f = g \/ Log!Before(f, g) \/ Log!Before(g, f)
         /\ \A h \in Log!Files : Log!Before(f, g) /\ Log!Before(g, h) => Log!Before(f, h)
<1>1. \A h \in Log!Files : /\ h.day \in Nat /\ h.index \in Nat
                           /\ h = [day |-> h.day, index |-> h.index]
  BY DEF Log!Files, FilesUsed
<1>2. \A h \in Log!Files : Log!Rank(h.index) \in Nat
  BY <1>1, RankType DEF FilesUsed
<1>3. \A h \in Log!Files : Log!Rank(f.index) = Log!Rank(h.index) => f.index = h.index
  BY <1>1, RankTells DEF FilesUsed
<1>4. ~(Log!Before(f, g) /\ (g = f \/ Log!Before(g, f)))
  BY <1>1, <1>2 DEF Log!Before
<1>5. f = g \/ Log!Before(f, g) \/ Log!Before(g, f)
  <2>1. CASE f.day = g.day /\ f.index = g.index
    BY <1>1, <2>1
  <2>2. CASE ~(f.day = g.day /\ f.index = g.index)
    BY <1>1, <1>2, <1>3, <2>2 DEF Log!Before
  <2>3. QED
    BY <2>1, <2>2
<1>6. ASSUME NEW h \in Log!Files, Log!Before(f, g), Log!Before(g, h)
      PROVE  Log!Before(f, h)
  BY <1>1, <1>2, <1>6 DEF Log!Before
<1>7. QED
  BY <1>4, <1>5, <1>6

(* Where the order is not spoilt by numbers that are too long it is that of  *)
(* the days and the numbers.                                                 *)
LEMMA InNumbers ==
  ASSUME FilesUsed, NEW f \in Log!Files, NEW g \in Log!Files, Log!Before(f, g),
         f.index < Base * Base, g.index < Base * Base
  PROVE  f.day < g.day \/ (f.day = g.day /\ f.index < g.index)
<1>1. f.index \in Nat /\ g.index \in Nat /\ Base \in Nat
  BY DEF Log!Files, FilesUsed
<1>2. CASE f.day = g.day
  <2>1. f.index * (Base + 1) < g.index * (Base + 1)
    BY <1>1, <1>2 DEF Log!Before, Log!Rank, Log!Files, FilesUsed
  <2>2. ASSUME g.index <= f.index PROVE FALSE
    <3>1. f.index - g.index \in Nat /\ Base + 1 \in Nat
      BY <1>1, <2>2
    <3>2. (f.index - g.index) * (Base + 1) >= 0
      BY <3>1
    <3>3. (f.index - g.index) * (Base + 1) = f.index * (Base + 1) - g.index * (Base + 1)
      BY <1>1
    <3>4. QED
      BY <1>1, <2>1, <3>2, <3>3
  <2>3. QED
    BY <1>1, <1>2, <2>2
<1>3. CASE f.day # g.day
  BY <1>3 DEF Log!Before
<1>4. QED
  BY <1>2, <1>3

(* The files from one on, in the order of their names. *)
LEMMA FromHere ==
  ASSUME FilesUsed, NEW S, IsFiniteSet(S), S \subseteq Log!Files, NEW f \in S
  PROVE  /\ Log!From(f, S) \subseteq S /\ f \in Log!From(f, S)
         /\ IsFiniteSet(Log!From(f, S)) /\ Cardinality(Log!From(f, S)) \in Nat
         /\ Cardinality(Log!From(f, S)) <= Cardinality(S)
         /\ IsFiniteSet(Log!From(f, S) \ {f})
         /\ Cardinality(Log!From(f, S) \ {f}) = Cardinality(Log!From(f, S)) - 1
<1>1. Log!From(f, S) \subseteq S /\ f \in Log!From(f, S)
  BY DEF Log!From
<1>2. IsFiniteSet(Log!From(f, S)) /\ Cardinality(Log!From(f, S)) <= Cardinality(S)
  BY <1>1, FS_Subset
<1>3. QED
  BY <1>1, <1>2, FS_CardinalityType, FS_RemoveElement

LEMMA Fewer ==
  ASSUME FilesUsed, NEW S, IsFiniteSet(S), S \subseteq Log!Files, NEW f \in S, NEW g \in S,
         Log!Before(f, g)
  PROVE  Cardinality(Log!From(g, S)) < Cardinality(Log!From(f, S))
<1>1. Log!From(g, S) \subseteq Log!From(f, S) \ {f}
  <2> SUFFICES ASSUME NEW h \in S, h = g \/ Log!Before(g, h)
               PROVE  h # f /\ Log!Before(f, h)
    BY DEF Log!From
  <2>1. f \in Log!Files /\ g \in Log!Files /\ h \in Log!Files
    OBVIOUS
  <2>2. QED
    BY <2>1, Order
<1>2. Cardinality(Log!From(g, S)) <= Cardinality(Log!From(f, S) \ {f})
  BY <1>1, FromHere, FS_Subset
<1>3. /\ Cardinality(Log!From(f, S) \ {f}) = Cardinality(Log!From(f, S)) - 1
      /\ Cardinality(Log!From(f, S)) \in Nat /\ Cardinality(Log!From(g, S)) \in Nat
  BY FromHere
<1>4. QED
  BY <1>2, <1>3

(* clean() leaves as many files as it should and, where it removes one, not  *)
(* fewer, and none that is older in the order of the names.                  *)
Last(S) == {f \in S : Cardinality(Log!From(f, S)) <= log_max_count}

LEMMA NotTooMany ==
  ASSUME FilesUsed, NEW S, IsFiniteSet(S), S \subseteq Log!Files
  PROVE  IsFiniteSet(Last(S)) /\ Cardinality(Last(S)) <= log_max_count
<1>1. Last(S) \subseteq S /\ IsFiniteSet(Last(S))
  BY FS_Subset DEF Last
<1>2. CASE Last(S) = {}
  BY <1>2, FS_EmptySet DEF FilesUsed
<1>3. CASE Last(S) # {}
  <2> DEFINE N == {Cardinality(Log!From(f, S)) : f \in Last(S)}
  <2>1. N \in SUBSET Nat /\ N # {}
    <3>1. \A f \in S : Cardinality(Log!From(f, S)) \in Nat
      BY FromHere
    <3>2. QED
      BY <1>1, <1>3, <3>1
  <2>2. \A n \in N : n <= log_max_count
    BY DEF Last
  <2>3. log_max_count \in Nat
    BY DEF FilesUsed
  <2> HIDE DEF N
  <2>4. PICK n \in N : \A m \in N : n >= m
    BY <2>1, <2>2, <2>3, GreatestOf
  <2>5. PICK f \in Last(S) : n = Cardinality(Log!From(f, S))
    BY <2>4 DEF N
  <2>6. ASSUME NEW g \in Last(S)
        PROVE  g \in Log!From(f, S)
    <3>1. f \in S /\ g \in S /\ f \in Log!Files /\ g \in Log!Files
      BY <1>1
    <3>2. Cardinality(Log!From(g, S)) <= n
      BY <2>4 DEF N
    <3>3. ~Log!Before(g, f)
      <4>1. Log!Before(g, f) => Cardinality(Log!From(f, S)) < Cardinality(Log!From(g, S))
        BY <3>1, Fewer
      <4>2. Cardinality(Log!From(f, S)) \in Nat /\ Cardinality(Log!From(g, S)) \in Nat
        BY <3>1, FromHere
      <4>3. QED
        BY <2>5, <3>2, <4>1, <4>2
    <3>4. QED
      BY <3>1, <3>3, Order DEF Log!From
  <2>7. Last(S) \subseteq Log!From(f, S) /\ IsFiniteSet(Log!From(f, S))
    BY <1>1, <2>6, FromHere
  <2>8. Cardinality(Last(S)) <= Cardinality(Log!From(f, S))
    BY <2>7, FS_Subset
  <2>9. Cardinality(Log!From(f, S)) <= log_max_count
    BY DEF Last
  <2>10. Cardinality(Last(S)) \in Nat /\ Cardinality(Log!From(f, S)) \in Nat
    BY <1>1, <2>7, FS_CardinalityType
  <2>11. QED
    BY <1>1, <2>3, <2>8, <2>9, <2>10
<1>4. QED
  BY <1>2, <1>3

LEMMA NotTooFew ==
  ASSUME FilesUsed, NEW S, IsFiniteSet(S), S \subseteq Log!Files, S \ Last(S) # {}
  PROVE  Cardinality(Last(S)) >= log_max_count
<1> DEFINE Gone == S \ Last(S)
           N == {Cardinality(Log!From(f, S)) : f \in Gone}
<1>1. N \in SUBSET Nat /\ N # {}
  <2>1. \A f \in S : Cardinality(Log!From(f, S)) \in Nat
    BY FromHere
  <2>2. QED
    BY <2>1
<1> HIDE DEF N
<1>2. PICK n \in N : \A m \in N : n <= m
  BY <1>1, LeastOf
<1>3. PICK f \in Gone : n = Cardinality(Log!From(f, S))
  BY <1>2 DEF N
<1>4. f \in S /\ n \in Nat /\ log_max_count \in Nat
  BY <1>3, FromHere DEF FilesUsed
<1>5. ~(n <= log_max_count)
  BY <1>3, <1>4 DEF Last
<1>6. Log!From(f, S) \ {f} \subseteq Last(S)
  <2> SUFFICES ASSUME NEW g \in S, Log!Before(f, g), g \notin Last(S)
               PROVE  FALSE
    BY DEF Log!From
  <2>1. Cardinality(Log!From(g, S)) < n
    BY <1>3, <1>4, Fewer
  <2>2. Cardinality(Log!From(g, S)) \in N
    BY DEF N
  <2>3. n <= Cardinality(Log!From(g, S)) /\ Cardinality(Log!From(g, S)) \in Nat
    BY <1>1, <1>2, <2>2
  <2>4. QED
    BY <1>4, <2>1, <2>3
<1>7. IsFiniteSet(Last(S))
  BY FS_Subset DEF Last
<1>8. Cardinality(Log!From(f, S) \ {f}) <= Cardinality(Last(S))
  BY <1>6, <1>7, FS_Subset
<1>9. Cardinality(Log!From(f, S) \ {f}) = n - 1 /\ Cardinality(Last(S)) \in Nat
  BY <1>3, <1>4, <1>7, FromHere, FS_CardinalityType
<1>10. QED
  BY <1>4, <1>5, <1>8, <1>9

LEMMA SameCount ==
  ASSUME NEW S
  PROVE  Log!Cardinality(S) = Cardinality(S)
BY DEF Log!Cardinality, Cardinality

(* What clean() leaves of some files, if one of them is the current one. *)
LEMMA Cleaned ==
  ASSUME FilesUsed, today \in Int, NEW all, IsFiniteSet(all), all \subseteq Log!Files, NEW file \in all
  PROVE  LET kept == Log!Clean(all, file)
             S == all \ Log!Expired(all)
         IN  /\ kept \subseteq all /\ IsFiniteSet(kept) /\ Last(S) \subseteq kept
             /\ file \in kept \/ Log!TooOld(file)
             /\ \/ Cardinality(kept) <= log_max_count
                \/ file \in kept /\ \E g \in kept : Log!Before(file, g)
             /\ \A f \in all \ kept : \/ Log!TooOld(f)
                                      \/ /\ \A g \in kept : Log!Before(f, g)
                                         /\ Cardinality(kept) >= log_max_count
<1> DEFINE S == all \ Log!Expired(all)
           kept == Log!Clean(all, file)
<1>1. IsFiniteSet(S) /\ S \subseteq all /\ S \subseteq Log!Files
  <2>1. S \subseteq all
    OBVIOUS
  <2>2. QED
    BY <2>1, FS_Subset
<1>2. kept = Last(S) \cup {f \in S : file \in S /\ f \in Log!From(file, S)}
  <2>1. kept = {f \in S : \/ Log!Cardinality(Log!From(f, S)) <= log_max_count
                          \/ file \in S /\ f \in Log!From(file, S)}
    BY DEF Log!Clean, Log!Trimmed
  <2> HIDE DEF kept, S
  <2>2. \A f \in S : Log!Cardinality(Log!From(f, S)) = Cardinality(Log!From(f, S))
    BY SameCount
  <2>3. QED
    BY <2>1, <2>2 DEF Last
<1>3. \A f \in Log!Expired(all) : Log!TooOld(f)
  BY DEF Log!Expired
<1>4. \A f \in all : f \in S \/ Log!TooOld(f)
  BY <1>3
<1> HIDE DEF kept, S
<1>5. kept \subseteq S /\ kept \subseteq all /\ IsFiniteSet(kept) /\ Last(S) \subseteq kept
  BY <1>1, <1>2, FS_Subset DEF Last
<1>6. file \in kept \/ Log!TooOld(file)
  BY <1>1, <1>2, <1>4, FromHere
<1>7. ASSUME ~(file \in kept /\ \E g \in kept : Log!Before(file, g))
      PROVE  Cardinality(kept) <= log_max_count
  <2>1. ASSUME file \in S
        PROVE  file \in Last(S) /\ \A g \in kept : ~Log!Before(file, g)
    <3>1. file \in kept
      BY <1>2, <2>1 DEF Log!From
    <3>2. \A g \in kept : ~Log!Before(file, g)
      BY <1>7, <3>1
    <3>3. Log!From(file, S) = {file}
      BY <1>2, <2>1, <3>2 DEF Log!From
    <3>4. Cardinality(Log!From(file, S)) <= log_max_count
      <4>1. Cardinality(Log!From(file, S)) = 1
        BY <3>3, FS_Singleton
      <4>2. log_max_count \in Nat \ {0}
        BY DEF FilesUsed
      <4>3. QED
        BY <4>1, <4>2
    <3>5. QED
      BY <2>1, <3>2, <3>4 DEF Last
  <2>2. kept \subseteq Last(S)
    BY <1>2, <2>1 DEF Log!From
  <2>3. kept = Last(S)
    BY <1>5, <2>2
  <2>4. QED
    BY <1>1, <2>3, NotTooMany
<1>8. ASSUME NEW f \in all \ kept, ~Log!TooOld(f)
      PROVE  /\ \A g \in kept : Log!Before(f, g)
             /\ Cardinality(kept) >= log_max_count
  <2>1. f \in S /\ f \notin Last(S)
    BY <1>2, <1>4, <1>8
  <2>2. ASSUME NEW g \in kept
        PROVE  Log!Before(f, g)
    <3>1. f \in Log!Files /\ g \in Log!Files /\ g \in S
      BY <1>1, <1>5
    <3>2. f # g
      BY <1>8
    <3>3. ASSUME Log!Before(g, f)
          PROVE  FALSE
      <4>1. Cardinality(Log!From(f, S)) < Cardinality(Log!From(g, S))
        BY <1>1, <2>1, <3>1, <3>3, Fewer
      <4>2. /\ Cardinality(Log!From(f, S)) \in Nat /\ Cardinality(Log!From(g, S)) \in Nat
            /\ log_max_count \in Nat
        BY <1>1, <2>1, <3>1, FromHere DEF FilesUsed
      <4>3. g \notin Last(S)
        BY <2>1, <4>1, <4>2 DEF Last
      <4>4. file \in S /\ g \in Log!From(file, S)
        BY <1>2, <4>3
      <4>5. f \in Log!From(file, S)
        BY <1>1, <2>1, <3>1, <3>3, <4>4, Order DEF Log!From
      <4>6. QED
        BY <1>2, <1>8, <2>1, <4>4, <4>5
    <3>4. QED
      BY <3>1, <3>2, <3>3, Order
  <2>3. Cardinality(Last(S)) >= log_max_count
    BY <1>1, <2>1, NotTooFew
  <2>4. Cardinality(Last(S)) <= Cardinality(kept)
    BY <1>5, FS_Subset
  <2>5. /\ Cardinality(Last(S)) \in Nat /\ Cardinality(kept) \in Nat /\ log_max_count \in Nat
    BY <1>1, <1>5, NotTooMany, FS_CardinalityType DEF FilesUsed
  <2>6. QED
    BY <2>2, <2>3, <2>4, <2>5
<1>9. QED
  BY <1>5, <1>6, <1>7, <1>8 DEF S, kept

-----------------------------------------------------------------------------
(* As long as every file could be opened, what is known is on disk.  The     *)
(* rest of FilesKept is an invariant as it stands.                           *)
FilesInv ==
    /\ Log!TypeOK /\ Log!FilesKept
    /\ IsFiniteSet(log_file_map)
    /\ ~failed => log_file_map = disk

(* What NewerStay says of a step. *)
Newer ==
    \A f \in disk \ disk' :
       \/ Log!TooOld(f)
       \/ ~Log!Ordered \/ ~Log!Ordered'
       \/ /\ \A g \in disk' : f.day < g.day \/ (f.day = g.day /\ f.index < g.index)
          /\ failed' \/ Log!Cardinality(disk') >= log_max_count

LEMMA ChangeFileStep ==
  ASSUME FilesUsed, FilesInv, NEW day \in 0..MaxDay, NEW hour \in BOOLEAN, NEW i \in Nat,
         NEW opens \in BOOLEAN, Log!ChangeFile(day, hour, i, opens), last_day' \in -1..MaxDay
  PROVE  FilesInv' /\ Newer
<1> DEFINE file == [day |-> Log!Named(day, hour), index |-> i]
           all == log_file_map \cup {file}
           kept == Log!Clean(all, file)
<1>1. /\ i <= MaxIndex /\ path' = file /\ can_write' = opens /\ log_file_map' = kept
      /\ disk' = (IF opens THEN disk \cup {file} ELSE disk) \ (all \ kept)
      /\ index' = i + 1 /\ failed' = (failed \/ ~opens)
      /\ UNCHANGED <<today, late, daylight>>
  BY DEF Log!ChangeFile
<1>2. file \in Log!Files
  <2>1. Log!Named(day, hour) \in 0..(MaxDay + 1)
    BY DEF Log!Named, FilesUsed
  <2>2. i \in 0..MaxIndex
    BY <1>1 DEF FilesUsed
  <2>3. QED
    BY <2>1, <2>2 DEF Log!Files
<1>3. /\ today \in 0..MaxDay /\ disk \subseteq log_file_map /\ log_file_map \subseteq Log!Files
      /\ IsFiniteSet(log_file_map) /\ (~failed => log_file_map = disk) /\ failed \in BOOLEAN
  BY DEF FilesInv, Log!TypeOK, Log!FilesKept
<1>4. today \in Int /\ log_max_day \in Int /\ log_max_count \in Nat /\ MaxIndex \in Nat /\ MaxDay \in Nat
  BY <1>3 DEF FilesUsed
<1> HIDE DEF file
<1>5. IsFiniteSet(all) /\ all \subseteq Log!Files /\ file \in all
  BY <1>2, <1>3, FS_AddElement
<1> HIDE DEF all
<1>6. /\ kept \subseteq all /\ IsFiniteSet(kept)
      /\ file \in kept \/ Log!TooOld(file)
      /\ \/ Cardinality(kept) <= log_max_count
         \/ file \in kept /\ \E g \in kept : Log!Before(file, g)
      /\ \A f \in all \ kept : \/ Log!TooOld(f)
                               \/ /\ \A g \in kept : Log!Before(f, g)
                                  /\ Cardinality(kept) >= log_max_count
  BY <1>4, <1>5, Cleaned
<1> HIDE DEF kept
<1>7. /\ disk' \subseteq kept
      /\ ~failed' => disk' = kept
      /\ opens /\ file \in kept => file \in disk'
      /\ disk \ disk' \subseteq all \ kept
  BY <1>1, <1>3, <1>6 DEF all
<1>8. Log!TypeOK'
  <2>1. kept \subseteq Log!Files /\ disk' \subseteq Log!Files
    BY <1>5, <1>6, <1>7
  <2>2. index' \in 0..(MaxIndex + 1)
    BY <1>1, <1>4
  <2>3. failed' \in BOOLEAN /\ late \in BOOLEAN /\ daylight \in BOOLEAN
    BY <1>1, <1>3 DEF FilesInv, Log!TypeOK
  <2>4. QED
    BY <1>1, <1>2, <1>3, <2>1, <2>2, <2>3 DEF Log!TypeOK
<1>9. Log!FilesKept'
  <2>1. disk' \subseteq log_file_map'
    BY <1>1, <1>7
  <2>2. \/ Log!Cardinality(disk') <= log_max_count
        \/ path' \in log_file_map' /\ \E f \in log_file_map' : Log!Before(path', f)
    <3>1. CASE Cardinality(kept) <= log_max_count
      <4>1. Cardinality(disk') <= Cardinality(kept) /\ IsFiniteSet(disk')
        BY <1>6, <1>7, FS_Subset
      <4>2. Cardinality(disk') \in Nat /\ Cardinality(kept) \in Nat
        BY <1>6, <4>1, FS_CardinalityType
      <4>3. Cardinality(disk') <= log_max_count
        BY <1>4, <3>1, <4>1, <4>2
      <4>4. QED
        BY <4>3, SameCount
    <3>2. CASE file \in kept /\ \E g \in kept : Log!Before(file, g)
      BY <1>1, <3>2
    <3>3. QED
      BY <1>6, <3>1, <3>2
  <2>3. can_write' => path' \in disk' \/ path'.day + log_max_day <= today'
    <3>1. file.day \in Int
      BY <1>2 DEF Log!Files
    <3>2. Log!TooOld(file) => file.day + log_max_day <= today
      BY <1>4, <3>1 DEF Log!TooOld
    <3>3. QED
      BY <1>1, <1>6, <1>7, <3>2
  <2>4. QED
    BY <2>1, <2>2, <2>3 DEF Log!FilesKept
<1>10. Newer
  <2> SUFFICES ASSUME NEW f \in disk \ disk', ~Log!TooOld(f), Log!Ordered, Log!Ordered'
               PROVE  /\ \A g \in disk' : f.day < g.day \/ (f.day = g.day /\ f.index < g.index)
                      /\ failed' \/ Log!Cardinality(disk') >= log_max_count
    BY DEF Newer
  <2>1. /\ \A g \in kept : Log!Before(f, g)
        /\ Cardinality(kept) >= log_max_count
    BY <1>6, <1>7
  <2>2. ASSUME NEW g \in disk'
        PROVE  f.day < g.day \/ (f.day = g.day /\ f.index < g.index)
    <3>1. f \in Log!Files /\ g \in Log!Files /\ Log!Before(f, g)
      BY <1>3, <1>5, <1>6, <1>7, <2>1
    <3>2. f.index < Base * Base /\ g.index < Base * Base
      BY <1>1, <1>3, <1>7 DEF Log!Ordered
    <3>3. QED
      BY <3>1, <3>2, InNumbers
  <2>3. failed' \/ Log!Cardinality(disk') >= log_max_count
    BY <1>7, <2>1, SameCount
  <2>4. QED
    BY <2>2, <2>3
<1>11. QED
  BY <1>1, <1>6, <1>7, <1>8, <1>9, <1>10 DEF FilesInv

(* The number the constructor goes on with. *)
LEMMA FoundType ==
  ASSUME FilesUsed, NEW files \in SUBSET Log!Files, NEW day \in Int
  PROVE  Log!Found(files, day) \in 0..MaxIndex
<1> DEFINE S == {f.index : f \in {g \in files : g.day = day}} \cup {0}
<1>1. S \in SUBSET Nat /\ S # {} /\ MaxIndex \in Nat /\ \A n \in S : n <= MaxIndex
  BY DEF Log!Files, FilesUsed
<1>2. Log!Found(files, day) = Log!Max(S)
  BY DEF Log!Found
<1>3. Log!Max(S) \in S
  <2> HIDE DEF S
  <2>1. \E n \in S : \A m \in S : n >= m
    BY <1>1, GreatestOf
  <2>2. QED
    BY <2>1 DEF Log!Max
<1> HIDE DEF S
<1>4. \A n \in S : n \in 0..MaxIndex
  BY <1>1
<1>5. QED
  BY <1>2, <1>3, <1>4

LEMMA FilesStart ==
  ASSUME FilesUsed, Log!Init
  PROVE  FilesInv
<1>1. IsFiniteSet({})
  BY FS_EmptySet
<1>2. Log!TypeOK
  <2>1. late \in BOOLEAN /\ daylight \in BOOLEAN /\ can_write \in BOOLEAN /\ failed \in BOOLEAN
    BY Zenon DEF Log!Init, FilesUsed
  <2>2. today \in 0..MaxDay /\ last_day \in -1..MaxDay /\ index \in 0..(MaxIndex + 1)
    BY DEF Log!Init, FilesUsed
  <2>3. QED
    BY <2>1, <2>2 DEF Log!Init, Log!TypeOK
<1>3. Log!FilesKept
  BY DEF Log!Init, Log!FilesKept
<1>4. QED
  BY <1>1, <1>2, <1>3 DEF Log!Init, FilesInv

LEMMA FilesStep ==
  ASSUME FilesUsed, FilesInv, Log!Next
  PROVE  FilesInv' /\ Newer
<1>1. Log!TypeOK /\ Log!FilesKept /\ IsFiniteSet(log_file_map) /\ disk \subseteq log_file_map
  BY DEF FilesInv, Log!FilesKept
<1>2. today \in 0..MaxDay /\ last_day \in -1..MaxDay /\ index \in Nat /\ MaxDay \in Nat
  BY <1>1 DEF Log!TypeOK, FilesUsed
<1>3. ASSUME NEW hour \in BOOLEAN, NEW opens \in BOOLEAN, NEW day \in 0..MaxDay,
             Log!WriteOtherDay(day, hour, opens)
      PROVE  FilesInv' /\ Newer
  <2>1. /\ Log!ChangeFile(day, hour, IF last_day = -1 THEN index ELSE 0, opens)
        /\ last_day' = day
    BY <1>3 DEF Log!WriteOtherDay
  <2>2. (IF last_day = -1 THEN index ELSE 0) \in Nat /\ last_day' \in -1..MaxDay
    BY <1>2, <2>1
  <2>3. QED
    BY <2>1, <2>2, ChangeFileStep
<1>4. ASSUME NEW hour \in BOOLEAN, NEW opens \in BOOLEAN, Log!WriteSlice(hour, opens)
      PROVE  FilesInv' /\ Newer
  <2>1. Log!ChangeFile(last_day, hour, index, opens) /\ last_day' = last_day
    BY <1>4 DEF Log!WriteSlice
  <2>2. last_day \in 0..MaxDay
    BY <1>2, <1>4 DEF Log!WriteSlice, Log!Recent
  <2>3. last_day' \in -1..MaxDay
    BY <1>2, <2>1
  <2>4. QED
    BY <1>2, <2>1, <2>2, <2>3, ChangeFileStep
<1>5. CASE Log!LastHour
  <2>1. FilesInv'
    BY <1>1, <1>5 DEF Log!LastHour, FilesInv, Log!TypeOK, Log!FilesKept, Log!Before
  <2>2. Newer
    BY <1>5 DEF Log!LastHour, Newer
  <2>3. QED
    BY <2>1, <2>2
<1>6. CASE Log!NewDay
  <2>1. Log!TypeOK'
    <3>1. today < MaxDay /\ today' = today + 1 /\ late' = FALSE
      BY <1>6 DEF Log!NewDay
    <3>2. today' \in 0..MaxDay
      BY <1>2, <3>1
    <3>3. QED
      BY <1>1, <1>6, <3>1, <3>2, Zenon DEF Log!NewDay, Log!TypeOK
  <2>2. path.day + log_max_day <= today => path.day + log_max_day <= today' \/ path = Log!NoFile
    <3>1. path \in Log!Files => path.day + log_max_day \in Int
      BY DEF Log!Files, FilesUsed
    <3>2. QED
      BY <1>1, <1>2, <1>6, <3>1 DEF Log!NewDay, Log!TypeOK
  <2>3. path = Log!NoFile => path.day + log_max_day \in Int
    BY DEF Log!NoFile, FilesUsed
  <2>4. Log!FilesKept'
    BY <1>1, <1>2, <1>6, <2>2, <2>3 DEF Log!NewDay, Log!FilesKept, Log!Before, Log!Rank
  <2>5. FilesInv'
    BY <1>6, <2>1, <2>4 DEF Log!NewDay, FilesInv
  <2>6. Newer
    BY <1>6 DEF Log!NewDay, Newer
  <2>7. QED
    BY <2>5, <2>6
<1>7. CASE Log!Restart
  <2>1. disk \subseteq Log!Files /\ IsFiniteSet(disk)
    BY <1>1, FS_Subset DEF Log!TypeOK
  <2>2. index' \in 0..MaxIndex
    <3>1. (IF daylight' /\ late THEN today + 1 ELSE today) \in Int
      BY <1>2
    <3>2. QED
      BY <1>7, <2>1, <3>1, FoundType DEF Log!Restart
  <2>3. Log!TypeOK'
    <3>1. daylight' \in BOOLEAN /\ can_write' \in BOOLEAN /\ failed' \in BOOLEAN
      BY <1>7, Zenon DEF Log!Restart, FilesUsed
    <3>2. index' \in 0..(MaxIndex + 1) /\ last_day' \in -1..MaxDay
      BY <1>2, <1>7, <2>2 DEF Log!Restart, FilesUsed
    <3>3. QED
      BY <1>1, <1>7, <2>1, <3>1, <3>2, Zenon DEF Log!Restart, Log!TypeOK
  <2>4. FilesInv'
    BY <1>7, <2>1, <2>3 DEF Log!Restart, FilesInv, Log!FilesKept
  <2>5. Newer
    BY <1>7 DEF Log!Restart, Newer
  <2>6. QED
    BY <2>4, <2>5
<1>8. QED
  BY <1>3, <1>4, <1>5, <1>6, <1>7 DEF Log!Next, Log!Write

LEMMA FilesAlways ==
  ASSUME FilesUsed
  PROVE  Log!Spec => []FilesInv /\ [][Newer]_(Log!vars)
<1>1. Log!Init => FilesInv
  BY FilesStart
<1>2. FilesInv /\ [Log!Next]_(Log!vars) => FilesInv'
  <2>1. ASSUME FilesInv, UNCHANGED Log!vars
        PROVE  FilesInv'
    BY <2>1 DEF Log!vars, FilesInv, Log!TypeOK, Log!FilesKept, Log!Before
  <2>2. QED
    BY <2>1, FilesStep
<1>3. FilesInv /\ [Log!Next]_(Log!vars) => [Newer]_(Log!vars)
  BY FilesStep
<1>4. QED
  BY <1>1, <1>2, <1>3, PTL DEF Log!Spec

(* What is on disk is known to the channel and within the limit, unless the  *)
(* file written to is not the last one in the order of the names; and it is  *)
(* on disk itself unless its day was over too long ago (FileChannel in       *)
(* src/Util/logger.cpp): any limits, any days, any restarts.                 *)
THEOREM LogFiles ==
  ASSUME FilesUsed
  PROVE  Log!Spec => [](Log!TypeOK /\ Log!FilesKept)
<1>1. FilesInv => Log!TypeOK /\ Log!FilesKept
  BY DEF FilesInv
<1>2. QED
  BY <1>1, FilesAlways, PTL

(* Cleaning removes a file that is not too old only for newer ones, and      *)
(* never below the limit unless some file could not be opened, as long as    *)
(* the numbers fit their width (FileChannel::clean).                         *)
THEOREM NewerFilesStay ==
  ASSUME FilesUsed
  PROVE  Log!Spec => Log!NewerStay
<1>1. Newer <=> (\A f \in disk \ disk' :
                   \/ Log!TooOld(f)
                   \/ ~Log!Ordered \/ ~Log!Ordered'
                   \/ /\ \A g \in disk' : f.day < g.day \/ (f.day = g.day /\ f.index < g.index)
                      /\ failed' \/ Log!Cardinality(disk') >= log_max_count)
  BY DEF Newer
<1>2. QED
  BY <1>1, FilesAlways, PTL DEF Log!NewerStay

-----------------------------------------------------------------------------
(* The directories the files are in: create_file and delete_file of          *)
(* src/Util/File.cpp (Files.tla), for any threads, files and directories.    *)
CONSTANTS Threads, InitFiles, Deleted, Created

VARIABLES dirs, files, does, raced, harmed

Disk == INSTANCE Files

(* What Files.tla assumes of its constants. *)
PathsUsed ==
    /\ InitFiles \cup Deleted \cup Created \subseteq Seq(Disk!Names) \ {<<>>}
    /\ \A p, q \in InitFiles \cup Created : p \notin Disk!Above(q)

(* A path is at or below another. *)
Below(b, p) == Len(b) <= Len(p) /\ \A i \in 1..Len(b) : p[i] = b[i]

LEMMA Cut ==
  ASSUME NEW S, NEW p \in Seq(S), NEW n \in 0..Len(p)
  PROVE  /\ SubSeq(p, 1, n) \in Seq(S) /\ Len(SubSeq(p, 1, n)) = n
         /\ \A i \in 1..n : SubSeq(p, 1, n)[i] = p[i]
         /\ Below(SubSeq(p, 1, n), p)
<1>1. \A i \in 1..n : p[i] \in S
  OBVIOUS
<1>2. /\ SubSeq(p, 1, n) \in Seq(S) /\ Len(SubSeq(p, 1, n)) = n
      /\ \A i \in 1..n : SubSeq(p, 1, n)[i] = p[i]
  BY <1>1, SubSeqProperties
<1>3. QED
  BY <1>2 DEF Below

LEMMA FrontOf ==
  ASSUME NEW S, NEW p \in Seq(S), p # <<>>
  PROVE  /\ Disk!Front(p) \in Seq(S) /\ Len(Disk!Front(p)) = Len(p) - 1
         /\ \A i \in 1..(Len(p) - 1) : Disk!Front(p)[i] = p[i]
         /\ Below(Disk!Front(p), p)
<1>1. Len(p) \in Nat /\ Len(p) # 0
  BY EmptySeq
<1>2. Len(p) - 1 \in 0..Len(p)
  BY <1>1
<1>3. QED
  BY <1>2, Cut DEF Disk!Front

LEMMA BelowOrder ==
  ASSUME NEW S, NEW p \in Seq(S), NEW q \in Seq(S), NEW r \in Seq(S)
  PROVE  /\ Below(p, p)
         /\ Below(p, q) /\ Below(q, r) => Below(p, r)
         /\ Below(p, q) /\ Len(p) = Len(q) => p = q
         /\ Below(p, r) /\ Below(q, r) /\ Len(p) <= Len(q) => Below(p, q)
<1>1. Len(p) \in Nat /\ Len(q) \in Nat /\ Len(r) \in Nat
  OBVIOUS
<1>2. Below(p, q) /\ Len(p) = Len(q) => p = q
  BY SeqEqual DEF Below
<1>3. QED
  BY <1>1, <1>2 DEF Below

LEMMA AboveOf ==
  ASSUME NEW S, NEW p \in Seq(S), NEW d
  PROVE  d \in Disk!Above(p) <=> d \in Seq(S) /\ d # <<>> /\ Len(d) < Len(p) /\ Below(d, p)
<1>1. Len(p) \in Nat
  OBVIOUS
<1>2. ASSUME d \in Disk!Above(p)
      PROVE  d \in Seq(S) /\ d # <<>> /\ Len(d) < Len(p) /\ Below(d, p)
  <2>1. PICK n \in 1..(Len(p) - 1) : d = SubSeq(p, 1, n)
    BY <1>2 DEF Disk!Above
  <2>2. n \in 0..Len(p) /\ n # 0 /\ n < Len(p)
    BY <1>1
  <2>3. d \in Seq(S) /\ Len(d) = n /\ Below(d, p)
    BY <2>1, <2>2, Cut
  <2>4. QED
    BY <2>2, <2>3, EmptySeq
<1>3. ASSUME d \in Seq(S), d # <<>>, Len(d) < Len(p), Below(d, p)
      PROVE  d \in Disk!Above(p)
  <2>1. Len(d) \in Nat /\ Len(d) # 0
    BY <1>3, EmptySeq
  <2>2. Len(d) \in 0..Len(p) /\ Len(d) \in 1..(Len(p) - 1)
    BY <1>1, <1>3, <2>1
  <2>3. /\ SubSeq(p, 1, Len(d)) \in Seq(S) /\ Len(SubSeq(p, 1, Len(d))) = Len(d)
        /\ \A i \in 1..Len(d) : SubSeq(p, 1, Len(d))[i] = p[i]
    BY <2>2, Cut
  <2>4. \A i \in 1..Len(d) : d[i] = SubSeq(p, 1, Len(d))[i]
    BY <1>3, <2>3 DEF Below
  <2>5. d = SubSeq(p, 1, Len(d))
    BY <1>3, <2>3, <2>4, SeqEqual
  <2>6. QED
    BY <2>2, <2>5 DEF Disk!Above
<1>4. QED
  BY <1>2, <1>3

(* Whatever is below a directory is below something in it. *)
LEMMA ChildAbove ==
  ASSUME NEW S, NEW p \in Seq(S), NEW d \in Seq(S), Below(d, p), d # p
  PROVE  \E c \in Disk!Above(p) \cup {p} : c \in Seq(S) /\ c # <<>> /\ Disk!Front(c) = d
<1> DEFINE n == Len(d) + 1
           c == SubSeq(p, 1, n)
<1>1. Len(d) \in Nat /\ Len(p) \in Nat /\ Len(d) < Len(p)
  BY BelowOrder DEF Below
<1>2. n \in 0..Len(p) /\ n \in Nat /\ n - 1 = Len(d)
  BY <1>1
<1> HIDE DEF n
<1>3. c \in Seq(S) /\ Len(c) = n /\ (\A i \in 1..n : c[i] = p[i]) /\ Below(c, p)
  BY <1>2, Cut
<1> HIDE DEF c
<1>4. n # 0
  BY <1>1, <1>2
<1>5. c # <<>>
  BY <1>3, <1>4, EmptySeq
<1>6. Disk!Front(c) = d
  <2>1. /\ Disk!Front(c) \in Seq(S) /\ Len(Disk!Front(c)) = Len(d)
        /\ \A i \in 1..Len(d) : Disk!Front(c)[i] = c[i]
    BY <1>2, <1>3, <1>5, FrontOf
  <2>2. \A i \in 1..Len(d) : Disk!Front(c)[i] = d[i]
    BY <1>1, <1>2, <1>3, <2>1 DEF Below
  <2>3. QED
    BY <2>1, <2>2, SeqEqual
<1>7. c = p \/ c \in Disk!Above(p)
  <2>1. CASE n = Len(p)
    BY <1>3, <2>1, BelowOrder
  <2>2. CASE n < Len(p)
    BY <1>3, <1>5, <2>2, AboveOf
  <2>3. QED
    BY <1>1, <1>2, <2>1, <2>2
<1>8. QED
  BY <1>3, <1>5, <1>6, <1>7

LEMMA AboveFront ==
  ASSUME NEW S, NEW p \in Seq(S), p # <<>>, NEW d \in Disk!Above(p)
  PROVE  d = Disk!Front(p) \/ d \in Disk!Above(Disk!Front(p))
<1> DEFINE f == Disk!Front(p)
<1>1. f \in Seq(S) /\ Len(f) = Len(p) - 1 /\ Below(f, p) /\ Len(p) \in Nat
  BY FrontOf
<1> HIDE DEF f
<1>2. d \in Seq(S) /\ d # <<>> /\ Len(d) < Len(p) /\ Below(d, p) /\ Len(d) \in Nat
  BY AboveOf
<1>3. Len(d) <= Len(f) /\ Len(f) \in Nat
  BY <1>1, <1>2
<1>4. Below(d, f)
  BY <1>1, <1>2, <1>3, BelowOrder
<1>5. CASE Len(d) = Len(f)
  BY <1>1, <1>2, <1>4, <1>5, BelowOrder DEF f
<1>6. CASE Len(d) < Len(f)
  BY <1>1, <1>2, <1>4, <1>6, AboveOf DEF f
<1>7. QED
  BY <1>3, <1>5, <1>6

-----------------------------------------------------------------------------
(* The calls.  A deletion is at or below its path, and each frame but the    *)
(* first stands for an entry read in the one before.                         *)
FrameOk(b, f) ==
    /\ Below(b, f.path)
    /\ \A e \in f.there \cup f.read : e # <<>> /\ Disk!Front(e) = f.path
    /\ f.opened \/ f.read = {}

StackOk(b, s) ==
    /\ s # <<>> /\ s[1].path = b
    /\ \A i \in 1..Len(s) : FrameOk(b, s[i])
    /\ \A i \in 1..(Len(s) - 1) : s[i].opened /\ s[i + 1].path \in s[i].read

Framed(c) == c.pc = "delete" => c.path # <<>> /\ StackOk(c.path, c.stack)

(* What is below a directory that was found empty came later. *)
FreshIn(c, F) == c.pc = "delete" /\ c.stage = "empty" => \A f \in F : Below(c.path, f) => f \in c.fresh

(* A call that creates, alone, finds the directories it has made, and will *)
(* not fail.                                                               *)
Creation(c, D) ==
    c.pc \in Disk!Creating =>
      /\ c.path \in Created /\ c.above < Len(c.path)
      /\ c.pc = "mkdir" => c.above + 1 < Len(c.path)
      /\ c.alone =>
           /\ c.pc # "failed"
           /\ \A n \in 1..c.above : SubSeq(c.path, 1, n) \in D
           /\ c.pc = "mkdir" => SubSeq(c.path, 1, c.above + 1) \notin D
           /\ c.pc = "open" => c.above + 1 = Len(c.path)

(* Where nothing is created, a deletion knows all there is in a directory it *)
(* has opened, and what it has read and left is gone.                        *)
GoneFrom(f, rest, D, F) ==
    f.opened => /\ f.path \notin F
                /\ \A e \in D \cup F : e # <<>> /\ Disk!Front(e) = f.path => e \in f.there
                /\ \A e \in f.read : e \notin D \cup F \/ e \in rest

Gone(c, D, F) ==
    c.pc = "delete" => \A i \in 1..Len(c.stack) :
        GoneFrom(c.stack[i], IF i < Len(c.stack) THEN {c.stack[i + 1].path} ELSE {}, D, F)

(* Who will fill or remove a directory that is empty. *)
Owes(c, d) ==
    \/ c.pc = "look" /\ c.path = d
    \/ c.pc = "delete" /\ Below(c.path, d)
    \/ c.pc \in Disk!Creating /\ Below(d, c.path)

Tree == Disk!TypeOK /\ dirs \cap files = {}
CallsInv == \A t \in Threads : Framed(does[t]) /\ FreshIn(does[t], files)
NoHarm == harmed = {}
AloneInv ==
    /\ \A t \in Threads : does[t].alone => does[t].pc # "idle" /\ \A u \in Threads : u # t => does[u].pc = "idle"
    /\ ~raced => \A t \in Threads : does[t].pc \in Disk!Creating => does[t].alone
    /\ \A t \in Threads : Creation(does[t], dirs)
GoneInv == ~raced => \A t \in Threads : Gone(does[t], dirs, files)
Owed == ~raced => \A d \in dirs : (\A e \in dirs \cup files : e # <<>> => Disk!Front(e) # d)
                                     => \E t \in Threads : Owes(does[t], d)

DiskInv == Tree /\ CallsInv /\ NoHarm /\ AloneInv /\ GoneInv /\ Owed

-----------------------------------------------------------------------------
LEMMA OnTopIs ==
  ASSUME NEW S, NEW s \in Seq(S), s # <<>>, NEW f \in S
  PROVE  /\ Disk!OnTop(s, f) \in Seq(S) /\ Disk!OnTop(s, f) # <<>>
         /\ Len(Disk!OnTop(s, f)) = Len(s) /\ Len(s) \in Nat \ {0}
         /\ \A i \in 1..Len(s) : Disk!OnTop(s, f)[i] = IF i = Len(s) THEN f ELSE s[i]
<1>1. Disk!Front(s) \in Seq(S) /\ Len(Disk!Front(s)) = Len(s) - 1
      /\ \A i \in 1..(Len(s) - 1) : Disk!Front(s)[i] = s[i]
  BY FrontOf
<1>2. Len(s) \in Nat \ {0}
  BY EmptySeq
<1>3. /\ Append(Disk!Front(s), f) \in Seq(S) /\ Append(Disk!Front(s), f) # <<>>
      /\ Len(Append(Disk!Front(s), f)) = Len(Disk!Front(s)) + 1
      /\ \A i \in 1..Len(Disk!Front(s)) : Append(Disk!Front(s), f)[i] = Disk!Front(s)[i]
      /\ Append(Disk!Front(s), f)[Len(Disk!Front(s)) + 1] = f
  BY <1>1, AppendProperties
<1>4. QED
  BY <1>1, <1>2, <1>3 DEF Disk!OnTop

LEMMA PathsOf ==
  ASSUME PathsUsed, Disk!TypeOK
  PROVE  /\ \A p \in dirs \cup files : p \in Seq(Disk!Names) /\ p # <<>>
         /\ \A p \in Created \cup InitFiles \cup Deleted : p \in Seq(Disk!Names) /\ p # <<>>
<1>1. \A p \in Created \cup InitFiles \cup Deleted : p \in Seq(Disk!Names) /\ p # <<>>
  BY DEF PathsUsed
<1>2. \A p \in files : p \in Created \cup InitFiles
  BY DEF Disk!TypeOK
<1>3. \A p \in dirs : p \in Seq(Disk!Names) /\ p # <<>>
  <2> SUFFICES ASSUME NEW p \in dirs PROVE p \in Seq(Disk!Names) /\ p # <<>>
    OBVIOUS
  <2>1. PICK q \in InitFiles \cup Created : p \in Disk!Above(q)
    BY DEF Disk!TypeOK
  <2>2. QED
    BY <1>1, <2>1, AboveOf
<1>4. QED
  BY <1>1, <1>2, <1>3

(* What has something below it is a directory, and not empty. *)
LEMMA NotEmpty ==
  ASSUME PathsUsed, Disk!TypeOK, NEW p \in dirs \cup files, NEW d \in Seq(Disk!Names),
         d # <<>>, Below(d, p), d # p
  PROVE  d \in dirs /\ \E e \in dirs \cup files : e # <<>> /\ Disk!Front(e) = d
<1>1. p \in Seq(Disk!Names) /\ Len(p) \in Nat /\ Len(d) \in Nat
  BY PathsOf
<1>2. Disk!Above(p) \subseteq dirs
  BY DEF Disk!TypeOK
<1>3. Len(d) < Len(p)
  BY <1>1, BelowOrder DEF Below
<1>4. d \in Disk!Above(p)
  BY <1>1, <1>3, AboveOf
<1>5. PICK c \in Disk!Above(p) \cup {p} : c \in Seq(Disk!Names) /\ c # <<>> /\ Disk!Front(c) = d
  BY <1>1, ChildAbove
<1>6. QED
  BY <1>2, <1>4, <1>5

(* No directory has the name of a file that there is or may be. *)
LEMMA NamesApart ==
  ASSUME PathsUsed, NEW D \in SUBSET UNION {Disk!Above(p) : p \in InitFiles \cup Created},
         NEW p \in InitFiles \cup Created
  PROVE  p \notin D
BY DEF PathsUsed

-----------------------------------------------------------------------------
(* What each step changes, field by field. *)
Others(t) == \A u \in Threads \ {t} : does'[u] = does[u]

LEMMA OneCall ==
  ASSUME Disk!TypeOK, NEW t \in Threads, NEW c \in Disk!Calls, does' = [does EXCEPT ![t] = c]
  PROVE  does' \in [Threads -> Disk!Calls] /\ does'[t] = c /\ Others(t) /\ does[t] \in Disk!Calls
BY DEF Disk!TypeOK, Others

LEMMA Begins ==
  ASSUME Disk!TypeOK, NEW t \in Threads, NEW c \in Disk!Calls, Disk!Begin(t, c)
  PROVE  /\ does' \in [Threads -> Disk!Calls] /\ raced' \in BOOLEAN
         /\ UNCHANGED <<dirs, files, harmed>>
         /\ does'[t] = [c EXCEPT !.alone = does'[t].alone] /\ does[t].pc = "idle"
         /\ does'[t].alone => \A u \in Threads : does[u].pc = "idle"
         /\ \A u \in Threads \ {t} : does'[u] = [does[u] EXCEPT !.alone = FALSE]
         /\ raced => raced'
         /\ ~raced' => \/ \A u \in Threads : does[u].pc = "idle"
                       \/ c.pc \notin Disk!Creating /\ \A u \in Threads : does[u].pc \notin Disk!Creating
         /\ (\A u \in Threads : does[u].pc = "idle") => does'[t].alone
<1>1. \A u \in Threads : does[u] \in Disk!Calls
  BY DEF Disk!TypeOK
<1>2. (Disk!Active = {}) \in BOOLEAN
  OBVIOUS
<1>3. /\ \A u \in Threads : does'[u] = IF u = t THEN [c EXCEPT !.alone = (Disk!Active = {})]
                                       ELSE [does[u] EXCEPT !.alone = FALSE]
      /\ does[t].pc = "idle" /\ UNCHANGED <<dirs, files, harmed>>
      /\ does' = [u \in Threads |-> IF u = t THEN [c EXCEPT !.alone = (Disk!Active = {})]
                                    ELSE [does[u] EXCEPT !.alone = FALSE]]
  BY Zenon DEF Disk!Begin
<1>4. /\ [c EXCEPT !.alone = (Disk!Active = {})] \in Disk!Calls
      /\ [c EXCEPT !.alone = (Disk!Active = {})].alone = (Disk!Active = {})
  <2> DEFINE b == (Disk!Active = {})
  <2>1. b \in BOOLEAN
    OBVIOUS
  <2> HIDE DEF b
  <2>2. [c EXCEPT !.alone = b] \in Disk!Calls /\ [c EXCEPT !.alone = b].alone = b
    BY <2>1 DEF Disk!Calls
  <2>3. QED
    BY <2>2 DEF b
<1>5. \A u \in Threads : [does[u] EXCEPT !.alone = FALSE] \in Disk!Calls
  BY <1>1 DEF Disk!Calls
<1>6. does' \in [Threads -> Disk!Calls]
  BY <1>3, <1>4, <1>5, Zenon
<1>7. does'[t] = [c EXCEPT !.alone = (Disk!Active = {})]
  BY <1>3, Zenon
<1>8. does'[t].alone = (Disk!Active = {})
  BY <1>4, <1>7, Zenon
<1>9. Disk!Active = {} <=> \A u \in Threads : does[u].pc = "idle"
  BY DEF Disk!Active
<1>10. /\ raced' = (raced \/ (Disk!Active # {} /\ \E k \in {c} \cup {does[u] : u \in Threads} : k.pc \in Disk!Creating))
  BY Zenon DEF Disk!Begin
<1>11. raced' \in BOOLEAN /\ (raced => raced')
  BY <1>10, Zenon
<1>12. ~raced' => \/ \A u \in Threads : does[u].pc = "idle"
                  \/ c.pc \notin Disk!Creating /\ \A u \in Threads : does[u].pc \notin Disk!Creating
  BY <1>9, <1>10, Zenon
<1>13. \A u \in Threads \ {t} : does'[u] = [does[u] EXCEPT !.alone = FALSE]
  BY <1>3, Zenon
<1>14. (does'[t].alone => \A u \in Threads : does[u].pc = "idle")
       /\ ((\A u \in Threads : does[u].pc = "idle") => does'[t].alone)
  BY <1>8, <1>9, Zenon
<1>15. does'[t] = [c EXCEPT !.alone = does'[t].alone]
  BY <1>7, <1>8, Zenon
<1>16. QED
  BY <1>3, <1>6, <1>11, <1>12, <1>13, <1>14, <1>15, Zenon

LEMMA Creates ==
  ASSUME PathsUsed, NEW goal \in Created, NEW how \in {"create_file", "log"}
  PROVE  LET c == [Disk!Idle EXCEPT !.pc = "access", !.path = goal, !.how = how]
         IN  /\ c \in Disk!Calls /\ c.pc = "access" /\ c.path = goal /\ c.above = 0 /\ c.fresh = {}
<1>1. goal \in Seq(Disk!Names) /\ <<>> \in Seq(Disk!Names) /\ <<>> \in Seq(Disk!Frames)
  BY EmptySeq DEF PathsUsed
<1>2. QED
  BY <1>1 DEF Disk!Calls, Disk!Idle, Disk!Creating

LEMMA Deletes ==
  ASSUME PathsUsed, NEW goal \in Deleted
  PROVE  LET c == [Disk!Idle EXCEPT !.pc = "delete", !.path = goal, !.stack = <<Disk!Frame(goal)>>]
         IN  /\ c \in Disk!Calls /\ c.pc = "delete" /\ c.stage = "path" /\ c.path = goal
             /\ c.stack = <<Disk!Frame(goal)>> /\ Disk!Frame(goal) \in Disk!Frames
<1>1. goal \in Seq(Disk!Names) /\ <<>> \in Seq(Disk!Names)
  BY EmptySeq DEF PathsUsed
<1>2. Disk!Frame(goal) \in Disk!Frames
  BY <1>1 DEF Disk!Frame, Disk!Frames
<1>3. <<Disk!Frame(goal)>> \in Seq(Disk!Frames)
  BY <1>2
<1>4. QED
  BY <1>1, <1>2, <1>3 DEF Disk!Calls, Disk!Idle, Disk!Creating

LEMMA Accesses ==
  ASSUME Disk!TypeOK, NEW t \in Threads, Disk!Access(t)
  PROVE  LET c == does[t]
             k == does'[t]
         IN  /\ does' \in [Threads -> Disk!Calls] /\ Others(t) /\ UNCHANGED <<dirs, files, raced, harmed>>
             /\ c.pc = "access" /\ k.path = c.path /\ k.alone = c.alone /\ k.fresh = c.fresh
             /\ \/ k.pc = "open" /\ k.above = c.above /\ c.above + 1 = Len(c.path)
                \/ /\ k.pc = "access" /\ k.above = c.above + 1 /\ c.above + 1 # Len(c.path)
                   /\ SubSeq(c.path, 1, c.above + 1) \in dirs
                \/ /\ k.pc = "mkdir" /\ k.above = c.above /\ c.above + 1 # Len(c.path)
                   /\ SubSeq(c.path, 1, c.above + 1) \notin dirs
<1>1. does[t] \in Disk!Calls
  BY DEF Disk!TypeOK
<1> DEFINE k == IF does[t].above + 1 = Len(does[t].path) THEN [does[t] EXCEPT !.pc = "open"]
                ELSE IF Disk!NextDir(t) \in dirs THEN [does[t] EXCEPT !.above = does[t].above + 1]
                ELSE [does[t] EXCEPT !.pc = "mkdir"]
<1>2. does' = [does EXCEPT ![t] = k] /\ does[t].pc = "access" /\ UNCHANGED <<dirs, files, raced, harmed>>
  BY DEF Disk!Access, Disk!Set
<1>3. k \in Disk!Calls
  <2>1. [does[t] EXCEPT !.pc = "open"] \in Disk!Calls /\ [does[t] EXCEPT !.pc = "mkdir"] \in Disk!Calls
    BY <1>1 DEF Disk!Calls, Disk!Creating
  <2>2. \A n \in Nat : [does[t] EXCEPT !.above = n] \in Disk!Calls
    BY <1>1 DEF Disk!Calls
  <2>3. does[t].above + 1 \in Nat
    BY <1>1 DEF Disk!Calls
  <2>4. QED
    BY <2>1, <2>2, <2>3
<1> HIDE DEF k
<1>4. does' \in [Threads -> Disk!Calls] /\ does'[t] = k /\ Others(t)
  BY <1>2, <1>3, OneCall
<1>5. /\ k.path = does[t].path /\ k.alone = does[t].alone /\ k.fresh = does[t].fresh
      /\ \/ k.pc = "open" /\ k.above = does[t].above /\ does[t].above + 1 = Len(does[t].path)
         \/ /\ k.pc = "access" /\ k.above = does[t].above + 1 /\ does[t].above + 1 # Len(does[t].path)
            /\ Disk!NextDir(t) \in dirs
         \/ /\ k.pc = "mkdir" /\ k.above = does[t].above /\ does[t].above + 1 # Len(does[t].path)
            /\ Disk!NextDir(t) \notin dirs
  BY <1>1, <1>2 DEF k, Disk!Calls
<1>6. QED
  BY <1>2, <1>4, <1>5 DEF Disk!NextDir

LEMMA Makes ==
  ASSUME Disk!TypeOK, NEW t \in Threads, Disk!Mkdir(t)
  PROVE  LET c == does[t]
             k == does'[t]
             d == SubSeq(c.path, 1, c.above + 1)
         IN  /\ does' \in [Threads -> Disk!Calls] /\ Others(t) /\ UNCHANGED <<files, raced, harmed>>
             /\ c.pc = "mkdir" /\ k.path = c.path /\ k.alone = c.alone /\ k.fresh = c.fresh
             /\ \/ /\ d \notin dirs \cup files /\ Disk!Exists(Disk!Front(d))
                   /\ dirs' = dirs \cup {d} /\ k.pc = "access" /\ k.above = c.above + 1
                \/ /\ ~(d \notin dirs \cup files /\ Disk!Exists(Disk!Front(d)))
                   /\ dirs' = dirs /\ k.pc \in {"open", "failed"} /\ k.above = c.above
<1>1. does[t] \in Disk!Calls
  BY DEF Disk!TypeOK
<1> DEFINE d == SubSeq(does[t].path, 1, does[t].above + 1)
           k == IF d \notin dirs \cup files /\ Disk!Exists(Disk!Front(d))
                THEN [does[t] EXCEPT !.pc = "access", !.above = does[t].above + 1]
                ELSE [does[t] EXCEPT !.pc = IF does[t].how = "log" THEN "open" ELSE "failed"]
<1>2. /\ does' = [does EXCEPT ![t] = k] /\ does[t].pc = "mkdir" /\ UNCHANGED <<files, raced, harmed>>
      /\ dirs' = IF d \notin dirs \cup files /\ Disk!Exists(Disk!Front(d)) THEN dirs \cup {d} ELSE dirs
  BY DEF Disk!Mkdir, Disk!Set, Disk!NextDir
<1>3. k \in Disk!Calls
  <2>1. [does[t] EXCEPT !.pc = "access", !.above = does[t].above + 1] \in Disk!Calls
    <3> DEFINE n == does[t].above + 1
    <3>1. n \in Nat
      BY <1>1 DEF Disk!Calls
    <3> HIDE DEF n
    <3>2. [does[t] EXCEPT !.pc = "access", !.above = n] \in Disk!Calls
      BY <1>1, <3>1 DEF Disk!Calls, Disk!Creating
    <3>3. QED
      BY <3>2 DEF n
  <2>2. [does[t] EXCEPT !.pc = IF does[t].how = "log" THEN "open" ELSE "failed"] \in Disk!Calls
    BY <1>1 DEF Disk!Calls, Disk!Creating
  <2>3. QED
    BY <2>1, <2>2
<1>4. /\ k.path = does[t].path /\ k.alone = does[t].alone /\ k.fresh = does[t].fresh
      /\ k.pc = IF d \notin dirs \cup files /\ Disk!Exists(Disk!Front(d)) THEN "access"
                ELSE IF does[t].how = "log" THEN "open" ELSE "failed"
      /\ k.above = IF d \notin dirs \cup files /\ Disk!Exists(Disk!Front(d)) THEN does[t].above + 1
                   ELSE does[t].above
  BY <1>1 DEF Disk!Calls
<1> HIDE DEF k
<1>5. does' \in [Threads -> Disk!Calls] /\ does'[t] = k /\ Others(t)
  BY <1>2, <1>3, OneCall
<1>6. QED
  BY <1>2, <1>4, <1>5

LEMMA IdleCall ==
  /\ Disk!Idle \in Disk!Calls /\ Disk!Idle.pc = "idle" /\ ~Disk!Idle.alone
<1>1. <<>> \in Seq(Disk!Names) /\ <<>> \in Seq(Disk!Frames)
  BY EmptySeq
<1>2. QED
  BY <1>1 DEF Disk!Idle, Disk!Calls

LEMMA Opens ==
  ASSUME Disk!TypeOK, NEW t \in Threads, Disk!OpenFile(t), does[t].path \in Created
  PROVE  LET c == does[t]
             k == does'[t]
         IN  /\ does' \in [Threads -> Disk!Calls] /\ UNCHANGED <<dirs, raced, harmed>> /\ c.pc = "open"
             /\ \/ /\ Disk!Exists(Disk!Front(c.path)) /\ c.path \notin dirs
                   /\ files' = files \cup {c.path} /\ k.pc = "idle" /\ ~k.alone
                   /\ \A u \in Threads \ {t} :
                        /\ does'[u] = [does[u] EXCEPT !.fresh = does'[u].fresh]
                        /\ does'[u].fresh = IF does[u].pc # "idle" THEN does[u].fresh \cup {c.path}
                                            ELSE does[u].fresh
                \/ /\ ~(Disk!Exists(Disk!Front(c.path)) /\ c.path \notin dirs)
                   /\ files' = files /\ k.pc = "failed" /\ Others(t)
                   /\ k.path = c.path /\ k.alone = c.alone /\ k.above = c.above
<1>1. \A u \in Threads : does[u] \in Disk!Calls
  BY DEF Disk!TypeOK
<1> DEFINE goal == does[t].path
           More(u) == [does[u] EXCEPT !.fresh = does[u].fresh \cup {goal}]
<1>2. CASE Disk!Exists(Disk!Front(goal)) /\ goal \notin dirs
  <2>1. \A u \in Threads :
          /\ More(u) \in Disk!Calls /\ More(u).fresh = does[u].fresh \cup {goal}
          /\ does[u] = [does[u] EXCEPT !.fresh = does[u].fresh]
    BY <1>1 DEF Disk!Calls
  <2>2. /\ does' = [u \in Threads |-> IF u = t THEN Disk!Idle
                                      ELSE IF u \in Disk!Active THEN More(u) ELSE does[u]]
        /\ files' = files \cup {goal} /\ UNCHANGED <<dirs, raced, harmed>> /\ does[t].pc = "open"
    BY <1>2 DEF Disk!OpenFile
  <2> HIDE DEF More
  <2>3. does' \in [Threads -> Disk!Calls] /\ does'[t] = Disk!Idle
    BY <1>1, <2>1, <2>2, IdleCall
  <2>4. \A u \in Threads \ {t} : does'[u] = IF does[u].pc # "idle" THEN More(u) ELSE does[u]
    BY <2>2 DEF Disk!Active
  <2>5. ASSUME NEW u \in Threads \ {t}
        PROVE  /\ does'[u] = [does[u] EXCEPT !.fresh = does'[u].fresh]
               /\ does'[u].fresh = IF does[u].pc # "idle" THEN does[u].fresh \cup {goal} ELSE does[u].fresh
    <3>1. CASE does[u].pc # "idle"
      <4>1. does'[u] = More(u)
        BY <2>4, <3>1
      <4>2. does'[u].fresh = does[u].fresh \cup {goal}
        BY <2>1, <4>1
      <4>3. does'[u] = [does[u] EXCEPT !.fresh = does[u].fresh \cup {goal}]
        BY <4>1 DEF More
      <4>4. QED
        BY <3>1, <4>2, <4>3
    <3>2. CASE does[u].pc = "idle"
      BY <2>1, <2>4, <3>2
    <3>3. QED
      BY <3>1, <3>2
  <2>6. QED
    BY <1>2, <2>2, <2>3, <2>5, IdleCall
<1>3. CASE ~(Disk!Exists(Disk!Front(goal)) /\ goal \notin dirs)
  <2> DEFINE k == [does[t] EXCEPT !.pc = "failed"]
  <2>1. does' = [does EXCEPT ![t] = k] /\ files' = files /\ UNCHANGED <<dirs, raced, harmed>> /\ does[t].pc = "open"
    BY <1>3 DEF Disk!OpenFile, Disk!Set
  <2>2. k \in Disk!Calls /\ k.pc = "failed" /\ k.path = goal /\ k.alone = does[t].alone /\ k.above = does[t].above
    BY <1>1 DEF Disk!Calls, Disk!Creating
  <2> HIDE DEF k
  <2>3. does' \in [Threads -> Disk!Calls] /\ does'[t] = k /\ Others(t)
    BY <2>1, <2>2, OneCall
  <2>4. QED
    BY <1>3, <2>1, <2>2, <2>3
<1>4. QED
  BY <1>2, <1>3

LEMMA Fails ==
  ASSUME Disk!TypeOK, NEW t \in Threads, Disk!Failed(t)
  PROVE  /\ does' \in [Threads -> Disk!Calls] /\ Others(t) /\ UNCHANGED <<dirs, files, raced, harmed>>
         /\ does[t].pc = "failed" /\ does'[t].pc = "idle" /\ ~does'[t].alone
<1>1. does' = [does EXCEPT ![t] = Disk!Idle] /\ does[t].pc = "failed" /\ UNCHANGED <<dirs, files, raced, harmed>>
  BY DEF Disk!Failed, Disk!Set
<1>2. QED
  BY <1>1, IdleCall, OneCall

LEMMA Looks ==
  ASSUME Disk!TypeOK, NEW t \in Threads, Disk!Look(t)
  PROVE  LET c == does[t]
             k == does'[t]
         IN  /\ does' \in [Threads -> Disk!Calls] /\ Others(t) /\ UNCHANGED <<dirs, files, raced, harmed>>
             /\ c.pc = "look"
             /\ \/ /\ c.path \notin dirs \/ Disk!Children(c.path) # {}
                   /\ k.pc = "idle" /\ ~k.alone
                \/ /\ c.path \in dirs /\ Disk!Children(c.path) = {}
                   /\ k.pc = "delete" /\ k.stage = "empty" /\ k.path = c.path /\ k.alone = c.alone
                   /\ k.stack = <<Disk!Frame(c.path)>> /\ Disk!Frame(c.path) \in Disk!Frames
<1>1. does[t] \in Disk!Calls
  BY DEF Disk!TypeOK
<1>2. CASE does[t].path \notin dirs \/ Disk!Children(does[t].path) # {}
  <2>1. does' = [does EXCEPT ![t] = Disk!Idle] /\ does[t].pc = "look" /\ UNCHANGED <<dirs, files, raced, harmed>>
    BY <1>2 DEF Disk!Look, Disk!Set
  <2>2. QED
    BY <1>2, <2>1, IdleCall, OneCall
<1>3. CASE ~(does[t].path \notin dirs \/ Disk!Children(does[t].path) # {})
  <2> DEFINE k == [does[t] EXCEPT !.pc = "delete", !.stage = "empty", !.stack = <<Disk!Frame(does[t].path)>>]
  <2>1. does' = [does EXCEPT ![t] = k] /\ does[t].pc = "look" /\ UNCHANGED <<dirs, files, raced, harmed>>
    BY <1>3 DEF Disk!Look, Disk!Set, Disk!Empty
  <2>2. Disk!Frame(does[t].path) \in Disk!Frames
    BY <1>1 DEF Disk!Frame, Disk!Frames, Disk!Calls
  <2>3. <<Disk!Frame(does[t].path)>> \in Seq(Disk!Frames)
    BY <2>2
  <2>4. /\ k \in Disk!Calls /\ k.pc = "delete" /\ k.stage = "empty" /\ k.path = does[t].path
        /\ k.alone = does[t].alone /\ k.stack = <<Disk!Frame(does[t].path)>>
    BY <1>1, <2>3 DEF Disk!Calls
  <2> HIDE DEF k
  <2>5. does' \in [Threads -> Disk!Calls] /\ does'[t] = k /\ Others(t)
    BY <2>1, <2>4, OneCall
  <2>6. QED
    BY <1>3, <2>1, <2>2, <2>4, <2>5
<1>4. QED
  BY <1>2, <1>3

(* The end of a frame, and of a deletion. *)
PopTo(c, k, b) ==
    \/ /\ Len(c.stack) > 1 /\ k.pc = c.pc /\ k.path = c.path /\ k.stage = c.stage
       /\ k.stack = Disk!Front(c.stack) /\ k.alone = c.alone /\ k.fresh = c.fresh
    \/ /\ Len(c.stack) = 1 /\ c.stage = "path" /\ ~b /\ k.pc = "idle" /\ ~k.alone
    \/ /\ Len(c.stack) = 1 /\ (c.stage = "path" => b)
       /\ k.pc = "look" /\ k.path = Disk!Front(c.path) /\ k.alone = c.alone

LEMMA Pops ==
  ASSUME Disk!TypeOK, NEW t \in Threads, NEW b \in BOOLEAN, Disk!Pop(t, b),
         does[t].path # <<>>, does[t].stack # <<>>
  PROVE  does' \in [Threads -> Disk!Calls] /\ Others(t) /\ PopTo(does[t], does'[t], b)
<1>1. does[t] \in Disk!Calls
  BY DEF Disk!TypeOK
<1> DEFINE c == does[t]
           k == IF Len(c.stack) > 1 THEN [c EXCEPT !.stack = Disk!Front(c.stack)]
                ELSE IF c.stage = "path" /\ ~b THEN Disk!Idle
                ELSE [c EXCEPT !.pc = "look", !.path = Disk!Front(c.path), !.stack = <<>>]
<1>2. does' = [does EXCEPT ![t] = k]
  BY DEF Disk!Pop, Disk!Set
<1>3. c.stack \in Seq(Disk!Frames) /\ c.path \in Seq(Disk!Names)
  BY <1>1 DEF Disk!Calls
<1>4. /\ Disk!Front(c.stack) \in Seq(Disk!Frames) /\ Disk!Front(c.path) \in Seq(Disk!Names)
      /\ Len(c.stack) \in Nat \ {0} /\ <<>> \in Seq(Disk!Frames)
  BY <1>3, FrontOf, EmptySeq
<1>5. CASE Len(c.stack) > 1
  <2>1. k \in Disk!Calls /\ k.pc = c.pc /\ k.path = c.path /\ k.stage = c.stage
        /\ k.stack = Disk!Front(c.stack) /\ k.alone = c.alone /\ k.fresh = c.fresh
    BY <1>1, <1>4, <1>5 DEF Disk!Calls
  <2> HIDE DEF k
  <2>2. QED
    BY <1>2, <1>5, <2>1, OneCall DEF PopTo
<1>6. CASE Len(c.stack) = 1 /\ c.stage = "path" /\ ~b
  <2>1. k = Disk!Idle
    BY <1>6
  <2> HIDE DEF k
  <2>2. QED
    BY <1>2, <1>6, <2>1, IdleCall, OneCall DEF PopTo
<1>7. CASE Len(c.stack) = 1 /\ ~(c.stage = "path" /\ ~b)
  <2> DEFINE m == [c EXCEPT !.pc = "look", !.path = Disk!Front(c.path), !.stack = <<>>]
  <2>1. m \in Disk!Calls /\ m.pc = "look" /\ m.path = Disk!Front(c.path) /\ m.alone = c.alone
    BY <1>1, <1>4 DEF Disk!Calls
  <2>2. k = m
    BY <1>7
  <2> HIDE DEF k, m
  <2>3. QED
    BY <1>2, <1>7, <2>1, <2>2, OneCall DEF PopTo
<1>8. Len(c.stack) > 1 \/ Len(c.stack) = 1
  <2> DEFINE n == Len(c.stack)
  <2>1. n \in Nat \ {0}
    BY <1>4
  <2> HIDE DEF n
  <2>2. n > 1 \/ n = 1
    BY <2>1
  <2>3. QED
    BY <2>2 DEF n
<1> HIDE DEF c, k
<1>9. QED
  BY <1>5, <1>6, <1>7, <1>8

LEMMA Enters ==
  ASSUME PathsUsed, Disk!TypeOK, NEW t \in Threads, Disk!Enter(t), does[t].path # <<>>, does[t].stack # <<>>
  PROVE  LET c == does[t]
             k == does'[t]
             top == c.stack[Len(c.stack)]
         IN  /\ does' \in [Threads -> Disk!Calls] /\ Others(t) /\ UNCHANGED <<dirs, raced>>
             /\ c.pc = "delete" /\ ~top.opened
             /\ \/ /\ top.path \in dirs /\ UNCHANGED <<files, harmed>>
                   /\ k.pc = "delete" /\ k.path = c.path /\ k.stage = c.stage
                   /\ k.alone = c.alone /\ k.fresh = c.fresh
                   /\ \E m \in Disk!Frames :
                        /\ k.stack = Disk!OnTop(c.stack, m) /\ m.path = top.path /\ m.opened
                        /\ m.read = top.read /\ m.there = Disk!Children(top.path)
                \/ /\ top.path \notin dirs /\ files' = files \ {top.path}
                   /\ PopTo(c, k, top.path \in files)
                   /\ harmed' = harmed \/ /\ harmed' = harmed \cup {top.path} /\ top.path \in files
                                          /\ c.stage = "empty" /\ top.path \notin c.fresh
<1> DEFINE c == does[t]
           top == c.stack[Len(c.stack)]
<1>1. c \in Disk!Calls /\ c.stack \in Seq(Disk!Frames)
  BY DEF Disk!TypeOK, Disk!Calls
<1>2. top \in Disk!Frames /\ Disk!Last(c.stack) = top
  <2>1. Len(c.stack) \in 1..Len(c.stack)
    BY <1>1, EmptySeq
  <2>2. QED
    BY <1>1, <2>1, ElementOfSeq DEF Disk!Last
<1>3. c.pc = "delete" /\ ~top.opened /\ UNCHANGED <<dirs, raced>>
  BY <1>2 DEF Disk!Enter
<1>4. CASE top.path \in dirs
  <2> DEFINE m == [top EXCEPT !.opened = TRUE, !.there = Disk!Children(top.path)]
             k == [c EXCEPT !.stack = Disk!OnTop(c.stack, m)]
  <2>1. does' = [does EXCEPT ![t] = k] /\ UNCHANGED <<files, harmed>>
    BY <1>2, <1>4 DEF Disk!Enter, Disk!Set
  <2>2. Disk!Children(top.path) \in SUBSET Seq(Disk!Names)
    BY PathsOf DEF Disk!Children
  <2>3. /\ m \in Disk!Frames /\ m.path = top.path /\ m.opened /\ m.read = top.read
        /\ m.there = Disk!Children(top.path)
    <3> DEFINE there == Disk!Children(top.path)
    <3> HIDE DEF there, top
    <3>1. LET l == [top EXCEPT !.opened = TRUE, !.there = there]
          IN  l \in Disk!Frames /\ l.path = top.path /\ l.opened /\ l.read = top.read /\ l.there = there
      <4>1. there \in SUBSET Seq(Disk!Names)
        BY <2>2 DEF there, top
      <4>2. QED
        BY <1>2, <4>1 DEF Disk!Frames
    <3>2. QED
      BY <3>1 DEF there
  <2> HIDE DEF m
  <2>4. Disk!OnTop(c.stack, m) \in Seq(Disk!Frames)
    BY <1>1, <2>3, OnTopIs
  <2>5. /\ k \in Disk!Calls /\ k.pc = c.pc /\ k.path = c.path /\ k.stage = c.stage
        /\ k.alone = c.alone /\ k.fresh = c.fresh /\ k.stack = Disk!OnTop(c.stack, m)
    BY <1>1, <2>4 DEF Disk!Calls
  <2> HIDE DEF k
  <2>6. does' \in [Threads -> Disk!Calls] /\ does'[t] = k /\ Others(t)
    BY <2>1, <2>5, OneCall
  <2>7. QED
    BY <1>3, <1>4, <2>1, <2>3, <2>5, <2>6
<1>5. CASE top.path \notin dirs
  <2> DEFINE b == top.path \in files
  <2>1. /\ files' = files \ {top.path} /\ Disk!Pop(t, b)
        /\ (IF b THEN Disk!Harm(t, top.path) ELSE UNCHANGED harmed)
    BY <1>2, <1>5 DEF Disk!Enter
  <2>2. b \in BOOLEAN
    OBVIOUS
  <2>3. harmed' = harmed \/ /\ harmed' = harmed \cup {top.path} /\ b
                            /\ c.stage = "empty" /\ top.path \notin c.fresh
    BY <2>1 DEF Disk!Harm
  <2> HIDE DEF b
  <2>4. does' \in [Threads -> Disk!Calls] /\ Others(t) /\ PopTo(c, does'[t], b)
    BY <2>1, <2>2, Pops
  <2>5. QED
    BY <1>3, <1>5, <2>1, <2>3, <2>4 DEF b
<1>6. QED
  BY <1>4, <1>5

LEMMA Reads ==
  ASSUME PathsUsed, Disk!TypeOK, NEW t \in Threads, Disk!ReadEntry(t), does[t].stack # <<>>
  PROVE  LET c == does[t]
             k == does'[t]
             top == c.stack[Len(c.stack)]
         IN  /\ does' \in [Threads -> Disk!Calls] /\ Others(t) /\ UNCHANGED <<dirs, files, raced, harmed>>
             /\ c.pc = "delete" /\ top.opened
             /\ k.pc = "delete" /\ k.path = c.path /\ k.stage = c.stage
             /\ k.alone = c.alone /\ k.fresh = c.fresh
             /\ \E m \in Disk!Frames, e \in top.there \cup Disk!Children(top.path) :
                  /\ k.stack = Append(Disk!OnTop(c.stack, m), Disk!Frame(e)) /\ Disk!Frame(e) \in Disk!Frames
                  /\ m.path = top.path /\ m.opened /\ m.read = top.read \cup {e} /\ m.there = top.there
<1> DEFINE c == does[t]
           top == c.stack[Len(c.stack)]
<1>1. c \in Disk!Calls /\ c.stack \in Seq(Disk!Frames)
  BY DEF Disk!TypeOK, Disk!Calls
<1>2. top \in Disk!Frames /\ Disk!Last(c.stack) = top
  <2>1. Len(c.stack) \in 1..Len(c.stack)
    BY <1>1, EmptySeq
  <2>2. QED
    BY <1>1, <2>1, ElementOfSeq DEF Disk!Last
<1>3. c.pc = "delete" /\ top.opened /\ UNCHANGED <<dirs, files, raced, harmed>>
  BY <1>2 DEF Disk!ReadEntry
<1>4. PICK e \in top.there \cup Disk!Children(top.path) :
         does' = [does EXCEPT ![t] = [c EXCEPT !.stack =
                    Append(Disk!OnTop(c.stack, [top EXCEPT !.read = top.read \cup {e}]), Disk!Frame(e))]]
  BY <1>2 DEF Disk!ReadEntry, Disk!Set
<1>5. e \in Seq(Disk!Names)
  BY <1>2, PathsOf DEF Disk!Children, Disk!Frames
<1> DEFINE m == [top EXCEPT !.read = top.read \cup {e}]
           stack == Append(Disk!OnTop(c.stack, m), Disk!Frame(e))
           k == [c EXCEPT !.stack = stack]
<1>6. m \in Disk!Frames /\ m.path = top.path /\ m.opened /\ m.read = top.read \cup {e} /\ m.there = top.there
  BY <1>2, <1>3, <1>5 DEF Disk!Frames
<1>7. Disk!Frame(e) \in Disk!Frames
  BY <1>5 DEF Disk!Frame, Disk!Frames
<1>8. stack \in Seq(Disk!Frames)
  <2> HIDE DEF m
  <2>1. Disk!OnTop(c.stack, m) \in Seq(Disk!Frames)
    BY <1>1, <1>6, OnTopIs
  <2>2. QED
    BY <1>7, <2>1, AppendProperties
<1>9. does' = [does EXCEPT ![t] = k]
  BY <1>4
<1> HIDE DEF m
<1>10. /\ k \in Disk!Calls /\ k.pc = c.pc /\ k.path = c.path /\ k.stage = c.stage
       /\ k.alone = c.alone /\ k.fresh = c.fresh /\ k.stack = stack
  <2> HIDE DEF stack
  <2>1. QED
    BY <1>1, <1>8 DEF Disk!Calls
<1> HIDE DEF k
<1>11. does' \in [Threads -> Disk!Calls] /\ does'[t] = k /\ Others(t)
  BY <1>9, <1>10, OneCall
<1>12. QED
  BY <1>3, <1>6, <1>7, <1>10, <1>11

LEMMA Removes ==
  ASSUME Disk!TypeOK, NEW t \in Threads, Disk!Rmdir(t), does[t].path # <<>>, does[t].stack # <<>>
  PROVE  LET c == does[t]
             k == does'[t]
             top == c.stack[Len(c.stack)]
         IN  /\ does' \in [Threads -> Disk!Calls] /\ Others(t) /\ UNCHANGED <<files, raced, harmed>>
             /\ c.pc = "delete" /\ top.opened /\ top.there \subseteq top.read
             /\ \/ /\ top.path \in dirs /\ Disk!Children(top.path) = {}
                   /\ dirs' = dirs \ {top.path} /\ PopTo(c, k, TRUE)
                \/ /\ ~(top.path \in dirs /\ Disk!Children(top.path) = {})
                   /\ dirs' = dirs /\ PopTo(c, k, FALSE)
<1> DEFINE c == does[t]
           top == c.stack[Len(c.stack)]
           b == top.path \in dirs /\ Disk!Children(top.path) = {}
<1>1. /\ c.pc = "delete" /\ top.opened /\ top.there \subseteq top.read /\ UNCHANGED <<files, raced, harmed>>
      /\ Disk!Pop(t, b) /\ dirs' = IF b THEN dirs \ {top.path} ELSE dirs
  BY DEF Disk!Rmdir, Disk!Last
<1>2. b \in BOOLEAN
  OBVIOUS
<1> HIDE DEF b
<1>3. does' \in [Threads -> Disk!Calls] /\ Others(t) /\ PopTo(c, does'[t], b)
  BY <1>1, <1>2, Pops
<1>4. CASE b
  <2>1. b = TRUE
    BY <1>2, <1>4
  <2>2. QED
    BY <1>1, <1>3, <1>4, <2>1 DEF b
<1>5. CASE ~b
  <2>1. b = FALSE
    BY <1>2, <1>5
  <2>2. QED
    BY <1>1, <1>3, <1>5, <2>1 DEF b
<1>6. QED
  BY <1>4, <1>5

-----------------------------------------------------------------------------
LEMMA Deleting ==
  ASSUME CallsInv, NEW t \in Threads, does[t].pc = "delete"
  PROVE  does[t].path # <<>> /\ does[t].stack # <<>> /\ StackOk(does[t].path, does[t].stack)
BY DEF CallsInv, Framed, StackOk

LEMMA MakesBelow ==
  ASSUME PathsUsed, DiskInv, NEW t \in Threads, does[t].pc = "mkdir"
  PROVE  LET d == SubSeq(does[t].path, 1, does[t].above + 1)
         IN  /\ does[t].path \in Created /\ does[t].above + 1 \in 0..Len(does[t].path)
             /\ d \in Seq(Disk!Names) /\ d # <<>> /\ Len(d) = does[t].above + 1
             /\ d \in Disk!Above(does[t].path)
<1> DEFINE c == does[t]
           n == c.above + 1
           d == SubSeq(c.path, 1, n)
<1>1. c.path \in Created /\ n < Len(c.path) /\ c.above \in Nat
  BY DEF DiskInv, AloneInv, Creation, Tree, Disk!TypeOK, Disk!Calls, Disk!Creating
<1>2. c.path \in Seq(Disk!Names) /\ Len(c.path) \in Nat
  BY <1>1 DEF PathsUsed
<1>3. n \in 0..Len(c.path) /\ n # 0 /\ n \in 1..(Len(c.path) - 1)
  BY <1>1, <1>2
<1> HIDE DEF n
<1>4. d \in Seq(Disk!Names) /\ Len(d) = n
  BY <1>2, <1>3, Cut
<1>5. d # <<>>
  BY <1>3, <1>4, EmptySeq
<1>6. d \in Disk!Above(c.path)
  BY <1>3 DEF Disk!Above
<1>7. QED
  BY <1>1, <1>3, <1>4, <1>5, <1>6 DEF n

LEMMA OpensCreated ==
  ASSUME PathsUsed, DiskInv, NEW t \in Threads, does[t].pc = "open"
  PROVE  does[t].path \in Created /\ does[t].path \in Seq(Disk!Names) /\ does[t].path # <<>>
<1>1. does[t].path \in Created
  BY DEF DiskInv, AloneInv, Creation, Disk!Creating
<1>2. QED
  BY <1>1 DEF PathsUsed

(* The directories of what exists, exist, and none has the name of a file. *)
LEMMA TreeStep ==
  ASSUME PathsUsed, DiskInv, Disk!Next
  PROVE  Tree'
<1>1. Tree /\ Disk!TypeOK /\ CallsInv
  BY DEF DiskInv, Tree
<1>2. ASSUME UNCHANGED <<dirs, files, harmed>>, raced' \in BOOLEAN, does' \in [Threads -> Disk!Calls]
      PROVE  Tree'
  BY <1>1, <1>2 DEF Tree, Disk!TypeOK
<1>3. raced \in BOOLEAN
  BY <1>1 DEF Disk!TypeOK
<1>4. ASSUME NEW p \in dirs \cup files PROVE p \in Seq(Disk!Names) /\ p # <<>> /\ Disk!Above(p) \subseteq dirs
  BY <1>1, PathsOf DEF Disk!TypeOK
<1>5. ASSUME NEW p \in Seq(Disk!Names), p # <<>>, Disk!Exists(Disk!Front(p))
      PROVE  Disk!Above(p) \subseteq dirs
  <2> SUFFICES ASSUME NEW d \in Disk!Above(p) PROVE d \in dirs
    OBVIOUS
  <2>1. d # <<>>
    BY AboveOf
  <2>2. d = Disk!Front(p) \/ d \in Disk!Above(Disk!Front(p))
    BY <1>5, AboveFront
  <2>3. CASE Disk!Front(p) = <<>>
    <3>1. d \notin Disk!Above(<<>>)
      <4>1. <<>> \in Seq(Disk!Names) /\ Len(<<>>) = 0
        BY EmptySeq
      <4>2. d \in Disk!Above(<<>>) => Len(d) < 0 /\ d \in Seq(Disk!Names)
        BY <4>1, AboveOf
      <4>3. QED
        BY <4>2
    <3>2. QED
      BY <2>1, <2>2, <2>3, <3>1
  <2>4. CASE Disk!Front(p) \in dirs
    BY <1>4, <2>2, <2>4
  <2>5. QED
    BY <1>5, <2>3, <2>4 DEF Disk!Exists
<1>6. SUFFICES ASSUME NEW t \in Threads,
                      \/ \E goal \in Deleted : Disk!Delete(t, goal)
                      \/ \E goal \in Created, how \in {"create_file", "log"} : Disk!Create(t, goal, how)
                      \/ Disk!Access(t) \/ Disk!Mkdir(t) \/ Disk!OpenFile(t) \/ Disk!Failed(t)
                      \/ Disk!Enter(t) \/ Disk!ReadEntry(t) \/ Disk!Rmdir(t) \/ Disk!Look(t)
               PROVE  Tree'
  BY DEF Disk!Next
<1>7. ASSUME NEW goal \in Deleted, Disk!Delete(t, goal)
      PROVE  Tree'
  BY <1>1, <1>2, <1>7, Deletes, Begins DEF Disk!Delete
<1>8. ASSUME NEW goal \in Created, NEW how \in {"create_file", "log"}, Disk!Create(t, goal, how)
      PROVE  Tree'
  BY <1>1, <1>2, <1>8, Creates, Begins DEF Disk!Create
<1>9. CASE Disk!Access(t)
  BY <1>1, <1>2, <1>3, <1>9, Accesses
<1>10. CASE Disk!Failed(t)
  BY <1>1, <1>2, <1>3, <1>10, Fails
<1>11. CASE Disk!Look(t)
  BY <1>1, <1>2, <1>3, <1>11, Looks
<1>12. CASE Disk!ReadEntry(t)
  <2>1. does[t].stack # <<>>
    BY <1>1, <1>12, Deleting DEF Disk!ReadEntry
  <2>2. QED
    BY <1>1, <1>2, <1>3, <1>12, <2>1, Reads
<1>13. CASE Disk!Mkdir(t)
  <2> DEFINE d == SubSeq(does[t].path, 1, does[t].above + 1)
  <2>1. /\ does' \in [Threads -> Disk!Calls] /\ UNCHANGED <<files, raced, harmed>> /\ does[t].pc = "mkdir"
        /\ \/ d \notin dirs \cup files /\ Disk!Exists(Disk!Front(d)) /\ dirs' = dirs \cup {d}
           \/ dirs' = dirs
    BY <1>1, <1>13, Makes
  <2>2. does[t].path \in Created /\ d \in Seq(Disk!Names) /\ d # <<>> /\ d \in Disk!Above(does[t].path)
    BY <2>1, MakesBelow
  <2> HIDE DEF d
  <2>3. CASE dirs' = dirs
    BY <1>2, <1>3, <2>1, <2>3
  <2>4. CASE d \notin dirs \cup files /\ Disk!Exists(Disk!Front(d)) /\ dirs' = dirs \cup {d}
    <3>1. Disk!Above(d) \subseteq dirs
      BY <1>5, <2>2, <2>4
    <3>2. dirs' \subseteq UNION {Disk!Above(p) : p \in InitFiles \cup Created}
      BY <1>1, <2>2, <2>4 DEF Disk!TypeOK
    <3>3. \A p \in dirs' \cup files' : Disk!Above(p) \subseteq dirs'
      BY <1>4, <2>1, <2>4, <3>1
    <3>4. dirs' \cap files' = {}
      BY <1>1, <2>1, <2>4 DEF Tree
    <3>5. QED
      BY <1>1, <2>1, <3>2, <3>3, <3>4 DEF Tree, Disk!TypeOK
  <2>5. QED
    BY <2>1, <2>3, <2>4
<1>14. CASE Disk!OpenFile(t)
  <2> DEFINE p == does[t].path
  <2>1. p \in Created /\ p \in Seq(Disk!Names) /\ p # <<>>
    BY <1>14, OpensCreated DEF Disk!OpenFile
  <2>2. /\ does' \in [Threads -> Disk!Calls] /\ UNCHANGED <<dirs, raced, harmed>>
        /\ \/ Disk!Exists(Disk!Front(p)) /\ p \notin dirs /\ files' = files \cup {p}
           \/ files' = files
    BY <1>1, <1>14, <2>1, Opens
  <2> HIDE DEF p
  <2>3. CASE files' = files
    BY <1>2, <1>3, <2>2, <2>3
  <2>4. CASE Disk!Exists(Disk!Front(p)) /\ p \notin dirs /\ files' = files \cup {p}
    <3>1. Disk!Above(p) \subseteq dirs
      BY <1>5, <2>1, <2>4
    <3>2. files' \subseteq InitFiles \cup Created
      BY <1>1, <2>1, <2>4 DEF Disk!TypeOK
    <3>3. \A q \in dirs' \cup files' : Disk!Above(q) \subseteq dirs'
      BY <1>4, <2>2, <2>4, <3>1
    <3>4. dirs' \cap files' = {}
      BY <1>1, <2>2, <2>4 DEF Tree
    <3>5. QED
      BY <1>1, <2>2, <3>2, <3>3, <3>4 DEF Tree, Disk!TypeOK
  <2>5. QED
    BY <2>2, <2>3, <2>4
<1>15. CASE Disk!Enter(t)
  <2> DEFINE top == does[t].stack[Len(does[t].stack)]
  <2>1. does[t].path # <<>> /\ does[t].stack # <<>>
    BY <1>1, <1>15, Deleting DEF Disk!Enter
  <2>2. /\ does' \in [Threads -> Disk!Calls] /\ UNCHANGED <<dirs, raced>>
        /\ \/ UNCHANGED <<files, harmed>>
           \/ /\ files' = files \ {top.path}
              /\ harmed' = harmed \/ (harmed' = harmed \cup {top.path} /\ top.path \in files)
    BY <1>1, <1>15, <2>1, Enters
  <2> HIDE DEF top
  <2>3. files' \subseteq files /\ harmed' \subseteq harmed \cup files
    BY <2>2
  <2>4. QED
    BY <1>1, <2>2, <2>3 DEF Tree, Disk!TypeOK
<1>16. CASE Disk!Rmdir(t)
  <2> DEFINE top == does[t].stack[Len(does[t].stack)]
  <2>1. does[t].path # <<>> /\ does[t].stack # <<>>
    BY <1>1, <1>16, Deleting DEF Disk!Rmdir
  <2>2. /\ does' \in [Threads -> Disk!Calls] /\ UNCHANGED <<files, raced, harmed>>
        /\ \/ top.path \in dirs /\ Disk!Children(top.path) = {} /\ dirs' = dirs \ {top.path}
           \/ dirs' = dirs
    BY <1>1, <1>16, <2>1, Removes
  <2> HIDE DEF top
  <2>3. CASE dirs' = dirs
    BY <1>2, <1>3, <2>2, <2>3
  <2>4. CASE top.path \in dirs /\ Disk!Children(top.path) = {} /\ dirs' = dirs \ {top.path}
    <3>1. ASSUME NEW p \in dirs' \cup files', NEW d \in Disk!Above(p)
          PROVE  d \in dirs'
      <4>1. p \in dirs \cup files /\ d \in dirs
        BY <1>4, <2>2, <2>4, <3>1
      <4>2. d \in Seq(Disk!Names) /\ d # <<>> /\ Below(d, p) /\ d # p
        BY <1>4, <4>1, AboveOf
      <4>3. \E e \in dirs \cup files : e # <<>> /\ Disk!Front(e) = d
        BY <1>1, <4>1, <4>2, NotEmpty
      <4>4. Disk!Children(d) # {}
        BY <4>3 DEF Disk!Children
      <4>5. QED
        BY <2>4, <4>1, <4>4
    <3>2. dirs' \subseteq dirs
      BY <2>4
    <3>3. QED
      BY <1>1, <2>2, <3>1, <3>2 DEF Tree, Disk!TypeOK
  <2>5. QED
    BY <2>2, <2>3, <2>4
<1>17. QED
  BY <1>6, <1>7, <1>8, <1>9, <1>10, <1>11, <1>12, <1>13, <1>14, <1>15, <1>16

-----------------------------------------------------------------------------
(* The stack of a deletion. *)
LEMMA StackNew ==
  ASSUME NEW b \in Seq(Disk!Names)
  PROVE  StackOk(b, <<Disk!Frame(b)>>)
<1>1. Below(b, b)
  BY BelowOrder
<1>2. FrameOk(b, Disk!Frame(b)) /\ Disk!Frame(b).path = b
  BY <1>1 DEF FrameOk, Disk!Frame
<1> DEFINE s == <<Disk!Frame(b)>>
<1>3. Len(s) = 1 /\ s[1] = Disk!Frame(b) /\ s # <<>>
  OBVIOUS
<1> HIDE DEF s
<1>4. StackOk(b, s)
  BY <1>2, <1>3 DEF StackOk
<1>5. QED
  BY <1>4 DEF s

LEMMA StackTop ==
  ASSUME NEW b, NEW s \in Seq(Disk!Frames), StackOk(b, s), NEW m \in Disk!Frames,
         m.path = s[Len(s)].path, FrameOk(b, m)
  PROVE  StackOk(b, Disk!OnTop(s, m))
<1> DEFINE r == Disk!OnTop(s, m)
<1>1. s # <<>> /\ s[1].path = b /\ (\A i \in 1..Len(s) : FrameOk(b, s[i]))
      /\ (\A i \in 1..(Len(s) - 1) : s[i].opened /\ s[i + 1].path \in s[i].read)
  BY DEF StackOk
<1>2. /\ r # <<>> /\ Len(r) = Len(s) /\ Len(s) \in Nat \ {0}
      /\ \A i \in 1..Len(s) : r[i] = IF i = Len(s) THEN m ELSE s[i]
  BY <1>1, OnTopIs
<1> HIDE DEF r
<1>3. r[1].path = b
  BY <1>1, <1>2
<1>4. \A i \in 1..Len(r) : FrameOk(b, r[i])
  BY <1>1, <1>2
<1>5. ASSUME NEW i \in 1..(Len(r) - 1)
      PROVE  r[i].opened /\ r[i + 1].path \in r[i].read
  <2>1. i \in 1..Len(s) /\ i # Len(s) /\ i + 1 \in 1..Len(s) /\ i \in 1..(Len(s) - 1)
    BY <1>2
  <2>2. r[i] = s[i] /\ r[i + 1].path = s[i + 1].path
    BY <1>2, <2>1
  <2>3. QED
    BY <1>1, <2>1, <2>2
<1>6. StackOk(b, r)
  BY <1>2, <1>3, <1>4, <1>5 DEF StackOk
<1>7. QED
  BY <1>6 DEF r

LEMMA StackMore ==
  ASSUME NEW b, NEW s \in Seq(Disk!Frames), StackOk(b, s), NEW m \in Disk!Frames,
         FrameOk(b, m), s[Len(s)].opened, m.path \in s[Len(s)].read
  PROVE  /\ StackOk(b, Append(s, m)) /\ Append(s, m) \in Seq(Disk!Frames)
         /\ Len(Append(s, m)) = Len(s) + 1 /\ Len(s) \in Nat \ {0}
         /\ \A i \in 1..Len(s) : Append(s, m)[i] = s[i]
         /\ Append(s, m)[Len(s) + 1] = m
<1> DEFINE r == Append(s, m)
<1>1. s # <<>> /\ s[1].path = b /\ (\A i \in 1..Len(s) : FrameOk(b, s[i]))
      /\ (\A i \in 1..(Len(s) - 1) : s[i].opened /\ s[i + 1].path \in s[i].read)
  BY DEF StackOk
<1>2. Len(s) \in Nat \ {0}
  BY <1>1, EmptySeq
<1>3. /\ r \in Seq(Disk!Frames) /\ r # <<>> /\ Len(r) = Len(s) + 1
      /\ (\A i \in 1..Len(s) : r[i] = s[i]) /\ r[Len(s) + 1] = m
  BY AppendProperties
<1> HIDE DEF r
<1>4. r[1].path = b
  BY <1>1, <1>2, <1>3
<1>5. \A i \in 1..Len(r) : FrameOk(b, r[i])
  BY <1>1, <1>2, <1>3
<1>6. ASSUME NEW i \in 1..(Len(r) - 1)
      PROVE  r[i].opened /\ r[i + 1].path \in r[i].read
  <2>1. CASE i = Len(s)
    BY <1>2, <1>3, <2>1
  <2>2. CASE i # Len(s)
    <3>1. i \in 1..(Len(s) - 1) /\ i \in 1..Len(s) /\ i + 1 \in 1..Len(s)
      BY <1>2, <1>3, <2>2
    <3>2. QED
      BY <1>1, <1>3, <3>1
  <2>3. QED
    BY <2>1, <2>2
<1>7. StackOk(b, r)
  BY <1>3, <1>4, <1>5, <1>6 DEF StackOk
<1>8. QED
  BY <1>2, <1>3, <1>7 DEF r

LEMMA StackLess ==
  ASSUME NEW b, NEW s \in Seq(Disk!Frames), StackOk(b, s), Len(s) > 1
  PROVE  /\ StackOk(b, Disk!Front(s))
         /\ Len(Disk!Front(s)) = Len(s) - 1 /\ Len(s) \in Nat
         /\ \A i \in 1..(Len(s) - 1) : Disk!Front(s)[i] = s[i]
<1> DEFINE r == Disk!Front(s)
<1>1. s # <<>> /\ s[1].path = b /\ (\A i \in 1..Len(s) : FrameOk(b, s[i]))
      /\ (\A i \in 1..(Len(s) - 1) : s[i].opened /\ s[i + 1].path \in s[i].read)
  BY DEF StackOk
<1>2. r \in Seq(Disk!Frames) /\ Len(r) = Len(s) - 1 /\ (\A i \in 1..(Len(s) - 1) : r[i] = s[i])
  BY <1>1, FrontOf
<1>3. Len(s) \in Nat
  OBVIOUS
<1> HIDE DEF r
<1>4. r # <<>>
  <2>1. Len(<<>>) = 0
    BY EmptySeq
  <2>2. Len(r) # 0
    BY <1>2, <1>3
  <2>3. QED
    BY <2>1, <2>2
<1>5. r[1].path = b
  BY <1>1, <1>2, <1>3
<1>6. \A i \in 1..Len(r) : FrameOk(b, r[i])
  BY <1>1, <1>2, <1>3
<1>7. ASSUME NEW i \in 1..(Len(r) - 1)
      PROVE  r[i].opened /\ r[i + 1].path \in r[i].read
  <2>1. i \in 1..(Len(s) - 1) /\ i + 1 \in 1..(Len(s) - 1)
    BY <1>2, <1>3
  <2>2. r[i] = s[i] /\ r[i + 1] = s[i + 1]
    BY <1>2, <2>1
  <2>3. QED
    BY <1>1, <2>1, <2>2
<1>8. StackOk(b, r)
  BY <1>4, <1>5, <1>6, <1>7 DEF StackOk
<1>9. QED
  BY <1>2, <1>3, <1>8 DEF r

(* Something in a directory that is at or below another one is, too. *)
LEMMA EntryBelow ==
  ASSUME NEW b \in Seq(Disk!Names), NEW f \in Disk!Frames, FrameOk(b, f),
         NEW e \in Seq(Disk!Names), e # <<>>, Disk!Front(e) = f.path
  PROVE  FrameOk(b, Disk!Frame(e)) /\ Disk!Frame(e).path = e
<1>1. f.path \in Seq(Disk!Names) /\ Below(b, f.path)
  BY DEF Disk!Frames, FrameOk
<1>2. Below(f.path, e)
  BY FrontOf
<1>3. Below(b, e)
  BY <1>1, <1>2, BelowOrder
<1>4. QED
  BY <1>3 DEF FrameOk, Disk!Frame

LEMMA TopReplaced ==
  \A s \in Seq(Disk!Frames), m \in Disk!Frames : s # <<>> =>
     /\ Disk!OnTop(s, m) \in Seq(Disk!Frames) /\ Len(Disk!OnTop(s, m)) = Len(s) /\ Len(s) \in Nat \ {0}
     /\ \A i \in 1..Len(s) : Disk!OnTop(s, m)[i] = IF i = Len(s) THEN m ELSE s[i]
BY OnTopIs

(* Deletions stay at or below their paths, and what is below a directory    *)
(* that was found empty was created later: create_file tells the others.     *)
LEMMA CallsStep ==
  ASSUME PathsUsed, DiskInv, Disk!Next
  PROVE  CallsInv' /\ NoHarm'
<1>1. Tree /\ Disk!TypeOK /\ CallsInv /\ harmed = {}
  BY DEF DiskInv, Tree, NoHarm
<1>2. \A u \in Threads : does[u] \in Disk!Calls /\ Framed(does[u]) /\ FreshIn(does[u], files)
  BY <1>1 DEF CallsInv, Disk!TypeOK
<1>3. ASSUME NEW u \in Threads, files' \subseteq files,
             does'[u] = does[u] \/ does'[u] = [does[u] EXCEPT !.alone = FALSE]
      PROVE  Framed(does'[u]) /\ FreshIn(does'[u], files')
  <2>1. /\ does'[u].pc = does[u].pc /\ does'[u].path = does[u].path /\ does'[u].stack = does[u].stack
        /\ does'[u].stage = does[u].stage /\ does'[u].fresh = does[u].fresh
    BY <1>2, <1>3 DEF Disk!Calls
  <2>2. QED
    BY <1>2, <1>3, <2>1 DEF Framed, FreshIn
<1>4. ASSUME NEW t \in Threads, Others(t), files' \subseteq files, harmed' = harmed,
             Framed(does'[t]), FreshIn(does'[t], files')
      PROVE  CallsInv' /\ NoHarm'
  BY <1>1, <1>3, <1>4 DEF CallsInv, NoHarm, Others
<1>5. ASSUME NEW k, k.pc # "delete"
      PROVE  Framed(k) /\ FreshIn(k, files')
  BY <1>5 DEF Framed, FreshIn
<1>6. ASSUME NEW t \in Threads, does[t].pc = "delete", NEW b, PopTo(does[t], does'[t], b), files' \subseteq files
      PROVE  Framed(does'[t]) /\ FreshIn(does'[t], files')
  <2> DEFINE c == does[t]
             k == does'[t]
  <2>1. c.path # <<>> /\ StackOk(c.path, c.stack) /\ c.stack \in Seq(Disk!Frames) /\ FreshIn(c, files)
    BY <1>2, <1>6 DEF Framed, Disk!Calls
  <2> HIDE DEF c, k
  <2>2. CASE k.pc # "delete"
    BY <1>5, <2>2 DEF k
  <2>3. CASE k.pc = "delete"
    <3>1. /\ Len(c.stack) > 1 /\ k.path = c.path /\ k.stage = c.stage
          /\ k.stack = Disk!Front(c.stack) /\ k.fresh = c.fresh /\ c.pc = "delete"
      BY <1>6, <2>3 DEF PopTo, c, k
    <3>2. StackOk(c.path, Disk!Front(c.stack))
      BY <2>1, <3>1, StackLess
    <3>3. Framed(k)
      BY <2>1, <3>1, <3>2 DEF Framed
    <3>4. FreshIn(k, files')
      BY <1>6, <2>1, <3>1 DEF FreshIn
    <3>5. QED
      BY <3>3, <3>4 DEF k
  <2>4. QED
    BY <2>2, <2>3
<1>7. SUFFICES ASSUME NEW t \in Threads,
                      \/ \E goal \in Deleted : Disk!Delete(t, goal)
                      \/ \E goal \in Created, how \in {"create_file", "log"} : Disk!Create(t, goal, how)
                      \/ Disk!Access(t) \/ Disk!Mkdir(t) \/ Disk!OpenFile(t) \/ Disk!Failed(t)
                      \/ Disk!Enter(t) \/ Disk!ReadEntry(t) \/ Disk!Rmdir(t) \/ Disk!Look(t)
               PROVE  CallsInv' /\ NoHarm'
  BY DEF Disk!Next
<1>8. ASSUME NEW goal \in Deleted, Disk!Delete(t, goal)
      PROVE  CallsInv' /\ NoHarm'
  <2> DEFINE c == [Disk!Idle EXCEPT !.pc = "delete", !.path = goal, !.stack = <<Disk!Frame(goal)>>]
  <2>1. /\ c \in Disk!Calls /\ c.pc = "delete" /\ c.stage = "path" /\ c.path = goal
        /\ c.stack = <<Disk!Frame(goal)>>
    BY Deletes
  <2>2. Disk!Begin(t, c)
    BY <1>8 DEF Disk!Delete
  <2> HIDE DEF c
  <2>3. /\ UNCHANGED <<dirs, files, harmed>> /\ does'[t] = [c EXCEPT !.alone = does'[t].alone]
        /\ \A u \in Threads \ {t} : does'[u] = [does[u] EXCEPT !.alone = FALSE]
    BY <1>1, <2>1, <2>2, Begins
  <2>4. /\ does'[t].pc = "delete" /\ does'[t].stage = "path" /\ does'[t].path = goal
        /\ does'[t].stack = <<Disk!Frame(goal)>>
    BY <2>1, <2>3 DEF Disk!Calls
  <2>5. goal \in Seq(Disk!Names) /\ goal # <<>>
    BY DEF PathsUsed
  <2>6. Framed(does'[t]) /\ FreshIn(does'[t], files')
    BY <2>4, <2>5, StackNew DEF Framed, FreshIn
  <2>7. QED
    BY <1>1, <1>3, <2>3, <2>6 DEF CallsInv, NoHarm
<1>9. ASSUME NEW goal \in Created, NEW how \in {"create_file", "log"}, Disk!Create(t, goal, how)
      PROVE  CallsInv' /\ NoHarm'
  <2> DEFINE c == [Disk!Idle EXCEPT !.pc = "access", !.path = goal, !.how = how]
  <2>1. c \in Disk!Calls /\ c.pc = "access"
    BY Creates
  <2>2. Disk!Begin(t, c)
    BY <1>9 DEF Disk!Create
  <2> HIDE DEF c
  <2>3. /\ UNCHANGED <<dirs, files, harmed>> /\ does'[t] = [c EXCEPT !.alone = does'[t].alone]
        /\ \A u \in Threads \ {t} : does'[u] = [does[u] EXCEPT !.alone = FALSE]
    BY <1>1, <2>1, <2>2, Begins
  <2>4. does'[t].pc = "access"
    BY <2>1, <2>3 DEF Disk!Calls
  <2>5. Framed(does'[t]) /\ FreshIn(does'[t], files')
    BY <1>5, <2>4
  <2>6. QED
    BY <1>1, <1>3, <2>3, <2>5 DEF CallsInv, NoHarm
<1>10. CASE Disk!Access(t)
  <2>1. Others(t) /\ UNCHANGED <<files, harmed>> /\ does'[t].pc # "delete"
    BY <1>1, <1>10, Accesses
  <2>2. QED
    BY <1>4, <1>5, <2>1
<1>11. CASE Disk!Mkdir(t)
  <2>1. Others(t) /\ UNCHANGED <<files, harmed>> /\ does'[t].pc # "delete"
    BY <1>1, <1>11, Makes
  <2>2. QED
    BY <1>4, <1>5, <2>1
<1>12. CASE Disk!Failed(t)
  <2>1. Others(t) /\ UNCHANGED <<files, harmed>> /\ does'[t].pc # "delete"
    BY <1>1, <1>12, Fails
  <2>2. QED
    BY <1>4, <1>5, <2>1
<1>13. CASE Disk!OpenFile(t)
  <2> DEFINE p == does[t].path
  <2>1. p \in Created
    BY <1>13, OpensCreated DEF Disk!OpenFile
  <2>2. /\ UNCHANGED harmed
        /\ \/ /\ files' = files \cup {p} /\ does'[t].pc = "idle"
              /\ \A u \in Threads \ {t} :
                   /\ does'[u] = [does[u] EXCEPT !.fresh = does'[u].fresh]
                   /\ does'[u].fresh = IF does[u].pc # "idle" THEN does[u].fresh \cup {p} ELSE does[u].fresh
           \/ files' = files /\ does'[t].pc = "failed" /\ Others(t)
    BY <1>1, <1>13, <2>1, Opens
  <2> HIDE DEF p
  <2>3. Framed(does'[t]) /\ FreshIn(does'[t], files')
    BY <1>5, <2>2
  <2>4. CASE files' = files /\ Others(t)
    BY <1>4, <2>2, <2>3, <2>4
  <2>5. CASE /\ files' = files \cup {p}
             /\ \A u \in Threads \ {t} :
                  /\ does'[u] = [does[u] EXCEPT !.fresh = does'[u].fresh]
                  /\ does'[u].fresh = IF does[u].pc # "idle" THEN does[u].fresh \cup {p} ELSE does[u].fresh
    <3>1. ASSUME NEW u \in Threads \ {t}
          PROVE  Framed(does'[u]) /\ FreshIn(does'[u], files')
      <4>1. does'[u] = [does[u] EXCEPT !.fresh = does'[u].fresh]
        BY <2>5
      <4>2. /\ does'[u].pc = does[u].pc /\ does'[u].path = does[u].path /\ does'[u].stack = does[u].stack
            /\ does'[u].stage = does[u].stage
        BY <1>2, <4>1 DEF Disk!Calls
      <4>3. does[u].pc = "delete" => does'[u].fresh = does[u].fresh \cup {p}
        BY <2>5
      <4>4. QED
        BY <1>2, <2>5, <4>2, <4>3 DEF Framed, FreshIn
    <3>2. QED
      BY <1>1, <2>2, <2>3, <3>1 DEF CallsInv, NoHarm
  <2>6. QED
    BY <2>2, <2>4, <2>5
<1>14. CASE Disk!Look(t)
  <2> DEFINE p == does[t].path
  <2>1. /\ Others(t) /\ UNCHANGED <<dirs, files, harmed>>
        /\ \/ does'[t].pc = "idle"
           \/ /\ p \in dirs /\ Disk!Children(p) = {} /\ does'[t].pc = "delete" /\ does'[t].path = p
              /\ does'[t].stack = <<Disk!Frame(p)>>
    BY <1>1, <1>14, Looks
  <2>2. CASE does'[t].pc = "idle"
    BY <1>4, <1>5, <2>1, <2>2
  <2>3. CASE /\ p \in dirs /\ Disk!Children(p) = {} /\ does'[t].pc = "delete" /\ does'[t].path = p
             /\ does'[t].stack = <<Disk!Frame(p)>>
    <3>1. p \in Seq(Disk!Names) /\ p # <<>>
      BY <1>1, <2>3, PathsOf
    <3>2. Framed(does'[t])
      BY <2>3, <3>1, StackNew DEF Framed
    <3>3. ASSUME NEW f \in files', Below(p, f)
          PROVE  FALSE
      <4>1. f \in files /\ f # p
        BY <1>1, <2>1, <2>3, <3>3 DEF Tree
      <4>2. \E e \in dirs \cup files : e # <<>> /\ Disk!Front(e) = p
        BY <1>1, <3>1, <3>3, <4>1, NotEmpty
      <4>3. QED
        BY <2>3, <4>2 DEF Disk!Children
    <3>4. FreshIn(does'[t], files')
      BY <2>3, <3>3 DEF FreshIn
    <3>5. QED
      BY <1>4, <2>1, <3>2, <3>4
  <2>4. QED
    BY <2>1, <2>2, <2>3
<1>15. ASSUME does[t].pc = "delete"
       PROVE  LET top == does[t].stack[Len(does[t].stack)]
              IN  /\ does[t].path # <<>> /\ does[t].stack # <<>> /\ StackOk(does[t].path, does[t].stack)
                  /\ does[t].stack \in Seq(Disk!Frames) /\ does[t].path \in Seq(Disk!Names)
                  /\ top \in Disk!Frames /\ FrameOk(does[t].path, top)
  <2>1. /\ does[t].path # <<>> /\ does[t].stack # <<>> /\ StackOk(does[t].path, does[t].stack)
        /\ does[t].stack \in Seq(Disk!Frames) /\ does[t].path \in Seq(Disk!Names)
    BY <1>1, <1>2, <1>15, Deleting DEF Disk!Calls
  <2>2. Len(does[t].stack) \in 1..Len(does[t].stack)
    BY <2>1, EmptySeq
  <2>3. QED
    BY <2>1, <2>2, ElementOfSeq DEF StackOk
<1>16. CASE Disk!Enter(t)
  <2> DEFINE c == does[t]
             k == does'[t]
             top == c.stack[Len(c.stack)]
  <2>1. c.pc = "delete"
    BY <1>16 DEF Disk!Enter
  <2>2. /\ c.path # <<>> /\ c.stack # <<>> /\ StackOk(c.path, c.stack) /\ c.stack \in Seq(Disk!Frames)
        /\ c.path \in Seq(Disk!Names) /\ top \in Disk!Frames /\ FrameOk(c.path, top)
    BY <1>15, <2>1
  <2>3. /\ Others(t)
        /\ \/ /\ UNCHANGED <<files, harmed>>
              /\ k.pc = "delete" /\ k.path = c.path /\ k.stage = c.stage /\ k.fresh = c.fresh
              /\ \E m \in Disk!Frames :
                   /\ k.stack = Disk!OnTop(c.stack, m) /\ m.path = top.path /\ m.opened
                   /\ m.read = top.read /\ m.there = Disk!Children(top.path)
           \/ /\ files' = files \ {top.path}
              /\ PopTo(c, k, top.path \in files)
              /\ harmed' = harmed \/ (top.path \in files /\ c.stage = "empty" /\ top.path \notin c.fresh)
    BY <1>1, <1>16, <2>2, Enters
  <2> HIDE DEF c, k, top
  <2>4. CASE /\ UNCHANGED <<files, harmed>>
             /\ k.pc = "delete" /\ k.path = c.path /\ k.stage = c.stage /\ k.fresh = c.fresh
             /\ \E m \in Disk!Frames :
                  /\ k.stack = Disk!OnTop(c.stack, m) /\ m.path = top.path /\ m.opened
                  /\ m.read = top.read /\ m.there = Disk!Children(top.path)
    <3>1. PICK m \in Disk!Frames :
             /\ k.stack = Disk!OnTop(c.stack, m) /\ m.path = top.path /\ m.opened
             /\ m.read = top.read /\ m.there = Disk!Children(top.path)
      BY <2>4
    <3>2. FrameOk(c.path, m)
      BY <2>2, <3>1 DEF FrameOk, Disk!Children
    <3>3. StackOk(c.path, k.stack)
      BY <2>2, <3>1, <3>2, StackTop DEF top
    <3>4. Framed(k)
      BY <2>2, <2>4, <3>3 DEF Framed
    <3>5. FreshIn(c, files)
      BY <1>2 DEF c
    <3>6. FreshIn(k, files')
      BY <2>1, <2>4, <3>5 DEF FreshIn
    <3>7. QED
      BY <1>4, <2>3, <2>4, <3>4, <3>6 DEF k
  <2>5. CASE /\ files' = files \ {top.path}
             /\ PopTo(c, k, top.path \in files)
             /\ harmed' = harmed \/ (top.path \in files /\ c.stage = "empty" /\ top.path \notin c.fresh)
    <3>1. Framed(k) /\ FreshIn(k, files')
      BY <1>6, <2>1, <2>5 DEF c, k
    <3>2. ASSUME top.path \in files, c.stage = "empty"
          PROVE  top.path \in c.fresh
      BY <1>2, <2>1, <2>2, <3>2 DEF FreshIn, FrameOk, c
    <3>3. harmed' = harmed
      BY <2>5, <3>2
    <3>4. QED
      BY <1>4, <2>3, <2>5, <3>1, <3>3 DEF k
  <2>6. QED
    BY <2>3, <2>4, <2>5
<1>17. CASE Disk!ReadEntry(t)
  <2> DEFINE c == does[t]
             k == does'[t]
             top == c.stack[Len(c.stack)]
  <2>1. c.pc = "delete"
    BY <1>17 DEF Disk!ReadEntry
  <2>2. /\ c.path # <<>> /\ c.stack # <<>> /\ StackOk(c.path, c.stack) /\ c.stack \in Seq(Disk!Frames)
        /\ c.path \in Seq(Disk!Names) /\ top \in Disk!Frames /\ FrameOk(c.path, top)
    BY <1>15, <2>1
  <2>3. /\ Others(t) /\ UNCHANGED <<files, harmed>>
        /\ k.pc = "delete" /\ k.path = c.path /\ k.stage = c.stage /\ k.fresh = c.fresh
        /\ \E m \in Disk!Frames, e \in top.there \cup Disk!Children(top.path) :
             /\ k.stack = Append(Disk!OnTop(c.stack, m), Disk!Frame(e)) /\ Disk!Frame(e) \in Disk!Frames
             /\ m.path = top.path /\ m.opened /\ m.read = top.read \cup {e} /\ m.there = top.there
    BY <1>1, <1>17, <2>2, Reads
  <2> HIDE DEF c, k, top
  <2>4. PICK m \in Disk!Frames, e \in top.there \cup Disk!Children(top.path) :
             /\ k.stack = Append(Disk!OnTop(c.stack, m), Disk!Frame(e)) /\ Disk!Frame(e) \in Disk!Frames
             /\ m.path = top.path /\ m.opened /\ m.read = top.read \cup {e} /\ m.there = top.there
    BY <2>3
  <2>5. e # <<>> /\ Disk!Front(e) = top.path /\ e \in Seq(Disk!Names)
    BY <1>1, <2>2, PathsOf DEF FrameOk, Disk!Children, Disk!Frames
  <2>6. FrameOk(c.path, m)
    BY <2>2, <2>4, <2>5 DEF FrameOk
  <2>7. FrameOk(c.path, Disk!Frame(e)) /\ Disk!Frame(e).path = e
    BY <2>2, <2>5, EntryBelow
  <2> DEFINE s == Disk!OnTop(c.stack, m)
  <2>8. /\ StackOk(c.path, s) /\ s \in Seq(Disk!Frames)
        /\ s[Len(s)] = m
    <3>1. StackOk(c.path, s)
      BY <2>2, <2>4, <2>6, StackTop DEF top
    <3>2. /\ s \in Seq(Disk!Frames) /\ Len(s) = Len(c.stack) /\ Len(c.stack) \in Nat \ {0}
          /\ \A i \in 1..Len(c.stack) : s[i] = IF i = Len(c.stack) THEN m ELSE c.stack[i]
      <4>1. c.stack \in Seq(Disk!Frames) /\ c.stack # <<>> /\ m \in Disk!Frames
        BY <2>2
      <4>2. QED
        BY <4>1, TopReplaced
    <3> HIDE DEF s
    <3>3. Len(c.stack) \in 1..Len(c.stack)
      BY <3>2
    <3>4. s[Len(s)] = m
      BY <3>2, <3>3
    <3>5. QED
      BY <3>1, <3>2, <3>4
  <2> HIDE DEF s
  <2>9. StackOk(c.path, Append(s, Disk!Frame(e)))
    BY <2>4, <2>7, <2>8, StackMore
  <2>10. Framed(k)
    BY <2>2, <2>3, <2>4, <2>9 DEF Framed, s
  <2>11. FreshIn(k, files')
    BY <1>2, <2>1, <2>3 DEF FreshIn, c
  <2>12. QED
    BY <1>4, <2>3, <2>10, <2>11 DEF k
<1>18. CASE Disk!Rmdir(t)
  <2>1. does[t].pc = "delete"
    BY <1>18 DEF Disk!Rmdir
  <2>2. /\ Others(t) /\ UNCHANGED <<files, harmed>>
        /\ PopTo(does[t], does'[t], TRUE) \/ PopTo(does[t], does'[t], FALSE)
    BY <1>1, <1>15, <1>18, <2>1, Removes
  <2>3. Framed(does'[t]) /\ FreshIn(does'[t], files')
    BY <1>6, <2>1, <2>2
  <2>4. QED
    BY <1>4, <2>2, <2>3
<1>19. QED
  BY <1>7, <1>8, <1>9, <1>10, <1>11, <1>12, <1>13, <1>14, <1>16, <1>17, <1>18

-----------------------------------------------------------------------------
(* A call that runs alone finds what it made, so creating does not fail. *)
LEMMA MkdirSucceeds ==
  ASSUME PathsUsed, DiskInv, NEW t \in Threads, does[t].pc = "mkdir", does[t].alone
  PROVE  LET d == SubSeq(does[t].path, 1, does[t].above + 1)
         IN  d \notin dirs \cup files /\ Disk!Exists(Disk!Front(d))
<1> DEFINE c == does[t]
           d == SubSeq(c.path, 1, c.above + 1)
<1>1. /\ c.path \in Created /\ c.above + 1 \in 0..Len(c.path)
      /\ d \in Seq(Disk!Names) /\ d # <<>> /\ Len(d) = c.above + 1
      /\ d \in Disk!Above(c.path)
  BY MakesBelow
<1>2. c.path \in Seq(Disk!Names) /\ c.above \in Nat /\ Len(c.path) \in Nat
  BY <1>1 DEF PathsUsed, DiskInv, Tree, Disk!TypeOK, Disk!Calls
<1>3. d \notin dirs /\ \A n \in 1..c.above : SubSeq(c.path, 1, n) \in dirs
  BY DEF DiskInv, AloneInv, Creation, Disk!Creating
<1>4. d \notin files
  BY <1>1 DEF PathsUsed, DiskInv, Tree, Disk!TypeOK
<1>5. Disk!Front(d) = SubSeq(c.path, 1, c.above)
  <2> DEFINE n == c.above
  <2>1. n \in 0..Len(c.path) /\ n \in Nat /\ n + 1 \in 0..Len(c.path) /\ n + 1 - 1 = n
    BY <1>1, <1>2
  <2>2. /\ SubSeq(c.path, 1, n) \in Seq(Disk!Names) /\ Len(SubSeq(c.path, 1, n)) = n
        /\ \A i \in 1..n : SubSeq(c.path, 1, n)[i] = c.path[i]
    BY <1>2, <2>1, Cut
  <2>3. \A i \in 1..(n + 1) : d[i] = c.path[i]
    BY <1>2, <2>1, Cut
  <2>4. /\ Disk!Front(d) \in Seq(Disk!Names) /\ Len(Disk!Front(d)) = Len(d) - 1
        /\ \A i \in 1..(Len(d) - 1) : Disk!Front(d)[i] = d[i]
    BY <1>1, FrontOf
  <2> HIDE DEF n, d
  <2>5. \A i \in 1..n : Disk!Front(d)[i] = SubSeq(c.path, 1, n)[i]
    BY <1>1, <2>1, <2>2, <2>3, <2>4 DEF n
  <2>6. Len(Disk!Front(d)) = n
    BY <1>1, <2>1, <2>4 DEF n
  <2>7. Disk!Front(d) = SubSeq(c.path, 1, n)
    BY <2>2, <2>4, <2>5, <2>6, SeqEqual
  <2>8. QED
    BY <2>7 DEF n
<1>6. Disk!Exists(Disk!Front(d))
  <2>1. CASE c.above = 0
    <3>1. SubSeq(c.path, 1, 0) = <<>>
      BY SubSeqEmpty
    <3>2. QED
      BY <1>5, <2>1, <3>1 DEF Disk!Exists
  <2>2. CASE c.above # 0
    <3>1. c.above \in 1..c.above
      BY <1>2, <2>2
    <3>2. QED
      BY <1>3, <1>5, <3>1 DEF Disk!Exists
  <2>3. QED
    BY <2>1, <2>2
<1>7. QED
  BY <1>3, <1>4, <1>6

LEMMA OpenSucceeds ==
  ASSUME PathsUsed, DiskInv, NEW t \in Threads, does[t].pc = "open", does[t].alone
  PROVE  Disk!Exists(Disk!Front(does[t].path)) /\ does[t].path \notin dirs
<1> DEFINE c == does[t]
<1>1. c.path \in Created /\ c.path \in Seq(Disk!Names) /\ c.path # <<>>
  BY OpensCreated
<1>2. /\ c.above \in Nat /\ c.above + 1 = Len(c.path)
      /\ \A n \in 1..c.above : SubSeq(c.path, 1, n) \in dirs
  BY DEF DiskInv, AloneInv, Creation, Disk!Creating, Tree, Disk!TypeOK, Disk!Calls
<1>3. Disk!Front(c.path) = SubSeq(c.path, 1, c.above)
  <2>1. Len(c.path) - 1 = c.above
    BY <1>2
  <2>2. QED
    BY <2>1 DEF Disk!Front
<1>4. Disk!Exists(Disk!Front(c.path))
  <2>1. CASE c.above = 0
    <3>1. SubSeq(c.path, 1, 0) = <<>>
      BY SubSeqEmpty
    <3>2. QED
      BY <1>3, <2>1, <3>1 DEF Disk!Exists
  <2>2. CASE c.above # 0
    <3>1. c.above \in 1..c.above
      BY <1>2, <2>2
    <3>2. QED
      BY <1>2, <1>3, <3>1 DEF Disk!Exists
  <2>3. QED
    BY <2>1, <2>2
<1>5. c.path \notin dirs
  BY <1>1, NamesApart DEF DiskInv, Tree, Disk!TypeOK
<1>6. QED
  BY <1>4, <1>5

LEMMA AloneStep ==
  ASSUME PathsUsed, DiskInv, Disk!Next
  PROVE  AloneInv'
<1>1. Tree /\ Disk!TypeOK /\ CallsInv
  BY DEF DiskInv, Tree
<1>2. /\ \A u \in Threads : does[u] \in Disk!Calls /\ Creation(does[u], dirs)
      /\ \A u \in Threads : does[u].alone =>
            does[u].pc # "idle" /\ \A v \in Threads : v # u => does[v].pc = "idle"
      /\ ~raced => \A u \in Threads : does[u].pc \in Disk!Creating => does[u].alone
  BY <1>1 DEF DiskInv, AloneInv, Disk!TypeOK
<1>3. ASSUME NEW t \in Threads, does[t].pc # "idle", raced' = raced,
             does'[t].alone => does[t].alone /\ does'[t].pc # "idle",
             does'[t].pc \in Disk!Creating => does[t].pc \in Disk!Creating /\ does'[t].alone = does[t].alone,
             Creation(does'[t], dirs'),
             \A u \in Threads \ {t} : /\ does'[u].pc = does[u].pc /\ does'[u].path = does[u].path
                                      /\ does'[u].above = does[u].above /\ does'[u].alone = does[u].alone
      PROVE  AloneInv'
  <2>1. \A u \in Threads \ {t} : ~does'[u].alone
    BY <1>2, <1>3
  <2>2. \A u \in Threads \ {t} : Creation(does'[u], dirs')
    BY <1>2, <1>3, <2>1 DEF Creation
  <2>3. \A u \in Threads : does'[u].alone =>
            does'[u].pc # "idle" /\ \A v \in Threads : v # u => does'[v].pc = "idle"
    BY <1>2, <1>3, <2>1
  <2>4. ~raced' => \A u \in Threads : does'[u].pc \in Disk!Creating => does'[u].alone
    BY <1>2, <1>3
  <2>5. QED
    BY <1>3, <2>2, <2>3, <2>4 DEF AloneInv
<1>4. ASSUME NEW t \in Threads, does[t].pc # "idle", raced' = raced, Others(t),
             does'[t].alone => does[t].alone /\ does'[t].pc # "idle",
             does'[t].pc \in Disk!Creating => does[t].pc \in Disk!Creating /\ does'[t].alone = does[t].alone,
             Creation(does'[t], dirs')
      PROVE  AloneInv'
  BY <1>3, <1>4 DEF Others
<1>5. ASSUME NEW t \in Threads, does[t].pc # "idle", raced' = raced, Others(t),
             does'[t].alone => does[t].alone /\ does'[t].pc # "idle",
             does'[t].pc \notin Disk!Creating
      PROVE  AloneInv'
  <2>1. Creation(does'[t], dirs')
    BY <1>5 DEF Creation
  <2>2. QED
    BY <1>4, <1>5, <2>1
<1>6. ASSUME NEW t \in Threads, NEW c \in Disk!Calls, Disk!Begin(t, c), Creation(c, dirs), c.pc # "idle",
             c.pc \in Disk!Creating => c.pc = "access" /\ c.above = 0
      PROVE  AloneInv'
  <2>1. /\ UNCHANGED dirs /\ does' \in [Threads -> Disk!Calls]
        /\ does'[t] = [c EXCEPT !.alone = does'[t].alone] /\ does[t].pc = "idle"
        /\ does'[t].alone => \A u \in Threads : does[u].pc = "idle"
        /\ \A u \in Threads \ {t} : does'[u] = [does[u] EXCEPT !.alone = FALSE]
        /\ raced => raced'
        /\ ~raced' => \/ \A u \in Threads : does[u].pc = "idle"
                      \/ c.pc \notin Disk!Creating /\ \A u \in Threads : does[u].pc \notin Disk!Creating
        /\ (\A u \in Threads : does[u].pc = "idle") => does'[t].alone
    BY <1>1, <1>6, Begins
  <2>2. does'[t].pc = c.pc /\ does'[t].path = c.path /\ does'[t].above = c.above
    BY <2>1 DEF Disk!Calls
  <2>3. \A u \in Threads \ {t} : /\ does'[u].pc = does[u].pc /\ does'[u].path = does[u].path
                                 /\ does'[u].above = does[u].above /\ ~does'[u].alone
    BY <1>2, <2>1 DEF Disk!Calls
  <2>4. Creation(does'[t], dirs')
    BY <1>6, <2>1, <2>2 DEF Creation
  <2>5. \A u \in Threads \ {t} : Creation(does'[u], dirs')
    BY <1>2, <2>1, <2>3 DEF Creation
  <2>6. \A u \in Threads : does'[u].alone =>
            does'[u].pc # "idle" /\ \A v \in Threads : v # u => does'[v].pc = "idle"
    BY <1>6, <2>1, <2>2, <2>3
  <2>7. ~raced' => \A u \in Threads : does'[u].pc \in Disk!Creating => does'[u].alone
    <3> SUFFICES ASSUME ~raced', NEW u \in Threads, does'[u].pc \in Disk!Creating
                 PROVE  does'[u].alone
      OBVIOUS
    <3>1. CASE \A v \in Threads : does[v].pc = "idle"
      <4>1. u = t
        BY <2>3, <3>1 DEF Disk!Creating
      <4>2. QED
        BY <2>1, <3>1, <4>1
    <3>2. CASE c.pc \notin Disk!Creating /\ \A v \in Threads : does[v].pc \notin Disk!Creating
      BY <2>2, <2>3, <3>2
    <3>3. QED
      BY <2>1, <3>1, <3>2
  <2>8. QED
    BY <2>4, <2>5, <2>6, <2>7 DEF AloneInv
<1>7. SUFFICES ASSUME NEW t \in Threads,
                      \/ \E goal \in Deleted : Disk!Delete(t, goal)
                      \/ \E goal \in Created, how \in {"create_file", "log"} : Disk!Create(t, goal, how)
                      \/ Disk!Access(t) \/ Disk!Mkdir(t) \/ Disk!OpenFile(t) \/ Disk!Failed(t)
                      \/ Disk!Enter(t) \/ Disk!ReadEntry(t) \/ Disk!Rmdir(t) \/ Disk!Look(t)
               PROVE  AloneInv'
  BY DEF Disk!Next
<1>8. ASSUME NEW goal \in Deleted, Disk!Delete(t, goal)
      PROVE  AloneInv'
  <2> DEFINE c == [Disk!Idle EXCEPT !.pc = "delete", !.path = goal, !.stack = <<Disk!Frame(goal)>>]
  <2>1. c \in Disk!Calls /\ c.pc = "delete"
    BY Deletes
  <2>2. Disk!Begin(t, c)
    BY <1>8 DEF Disk!Delete
  <2> HIDE DEF c
  <2>3. Creation(c, dirs) /\ c.pc \notin Disk!Creating
    BY <2>1 DEF Creation, Disk!Creating
  <2>4. QED
    BY <1>6, <2>1, <2>2, <2>3
<1>9. ASSUME NEW goal \in Created, NEW how \in {"create_file", "log"}, Disk!Create(t, goal, how)
      PROVE  AloneInv'
  <2> DEFINE c == [Disk!Idle EXCEPT !.pc = "access", !.path = goal, !.how = how]
  <2>1. c \in Disk!Calls /\ c.pc = "access" /\ c.path = goal /\ c.above = 0
    BY Creates
  <2>2. Disk!Begin(t, c)
    BY <1>9 DEF Disk!Create
  <2> HIDE DEF c
  <2>3. goal \in Seq(Disk!Names) /\ goal # <<>>
    BY DEF PathsUsed
  <2>4. 0 < Len(goal)
    BY <2>3, EmptySeq
  <2>5. Creation(c, dirs)
    BY <2>1, <2>4 DEF Creation
  <2>6. QED
    BY <1>6, <2>1, <2>2, <2>5
<1> DEFINE c == does[t]
           k == does'[t]
<1>10. CASE Disk!Access(t)
  <2> DEFINE d == SubSeq(c.path, 1, c.above + 1)
  <2>1. /\ Others(t) /\ UNCHANGED <<dirs, raced>> /\ c.pc = "access" /\ k.path = c.path /\ k.alone = c.alone
        /\ \/ k.pc = "open" /\ k.above = c.above /\ c.above + 1 = Len(c.path)
           \/ k.pc = "access" /\ k.above = c.above + 1 /\ c.above + 1 # Len(c.path) /\ d \in dirs
           \/ k.pc = "mkdir" /\ k.above = c.above /\ c.above + 1 # Len(c.path) /\ d \notin dirs
    BY <1>1, <1>10, Accesses
  <2>2. /\ c.path \in Created /\ c.above < Len(c.path) /\ c.above \in Nat
        /\ c.alone => \A n \in 1..c.above : SubSeq(c.path, 1, n) \in dirs
    BY <1>2, <2>1 DEF Creation, Disk!Creating, Disk!Calls
  <2>3. Len(c.path) \in Nat
    BY <2>2, PathsOf, <1>1
  <2> HIDE DEF c, k
  <2>4. Creation(k, dirs')
    <3>1. CASE k.pc = "open" /\ k.above = c.above /\ c.above + 1 = Len(c.path)
      BY <2>1, <2>2, <3>1 DEF Creation
    <3>2. CASE k.pc = "access" /\ k.above = c.above + 1 /\ c.above + 1 # Len(c.path) /\ d \in dirs
      <4>1. c.alone => \A n \in 1..(c.above + 1) : SubSeq(c.path, 1, n) \in dirs
        <5>1. \A n \in 1..(c.above + 1) : n = c.above + 1 \/ n \in 1..c.above
          BY <2>2
        <5>2. QED
          BY <2>2, <3>2, <5>1
      <4>2. c.above + 1 < Len(c.path)
        BY <2>2, <2>3, <3>2
      <4>3. QED
        BY <2>1, <2>2, <3>2, <4>1, <4>2 DEF Creation
    <3>3. CASE k.pc = "mkdir" /\ k.above = c.above /\ c.above + 1 # Len(c.path) /\ d \notin dirs
      <4>1. c.above + 1 < Len(c.path)
        BY <2>2, <2>3, <3>3
      <4>2. QED
        BY <2>1, <2>2, <3>3, <4>1 DEF Creation
    <3>4. QED
      BY <2>1, <3>1, <3>2, <3>3
  <2>5. c.pc \in Disk!Creating /\ c.pc # "idle" /\ k.pc # "idle"
    BY <2>1 DEF Disk!Creating
  <2>6. QED
    BY <1>4, <2>1, <2>4, <2>5 DEF c, k
<1>11. CASE Disk!Mkdir(t)
  <2> DEFINE d == SubSeq(c.path, 1, c.above + 1)
  <2>1. /\ Others(t) /\ UNCHANGED raced /\ c.pc = "mkdir" /\ k.path = c.path /\ k.alone = c.alone
        /\ \/ /\ d \notin dirs \cup files /\ Disk!Exists(Disk!Front(d))
              /\ dirs' = dirs \cup {d} /\ k.pc = "access" /\ k.above = c.above + 1
           \/ /\ ~(d \notin dirs \cup files /\ Disk!Exists(Disk!Front(d)))
              /\ dirs' = dirs /\ k.pc \in {"open", "failed"} /\ k.above = c.above
    BY <1>1, <1>11, Makes
  <2>2. /\ c.path \in Created /\ c.above < Len(c.path) /\ c.above + 1 < Len(c.path) /\ c.above \in Nat
        /\ c.alone => \A n \in 1..c.above : SubSeq(c.path, 1, n) \in dirs
    BY <1>2, <2>1 DEF Creation, Disk!Creating, Disk!Calls
  <2>3. c.alone => d \notin dirs \cup files /\ Disk!Exists(Disk!Front(d))
    BY <2>1, MkdirSucceeds
  <2> HIDE DEF c, k
  <2>4. Creation(k, dirs')
    <3>1. CASE /\ dirs' = dirs \cup {d} /\ k.pc = "access" /\ k.above = c.above + 1
      <4>1. c.alone => \A n \in 1..(c.above + 1) : SubSeq(c.path, 1, n) \in dirs'
        <5>1. \A n \in 1..(c.above + 1) : n = c.above + 1 \/ n \in 1..c.above
          BY <2>2
        <5>2. QED
          BY <2>2, <3>1, <5>1
      <4>2. QED
        BY <2>1, <2>2, <3>1, <4>1 DEF Creation
    <3>2. CASE k.pc \in {"open", "failed"} /\ k.above = c.above /\ ~k.alone
      BY <2>1, <2>2, <3>2 DEF Creation
    <3>3. QED
      BY <2>1, <2>3, <3>1, <3>2
  <2>5. c.pc \in Disk!Creating /\ c.pc # "idle" /\ k.pc # "idle"
    BY <2>1 DEF Disk!Creating
  <2>6. QED
    BY <1>4, <2>1, <2>4, <2>5 DEF c, k
<1>12. CASE Disk!OpenFile(t)
  <2>1. c.path \in Created
    BY <1>12, OpensCreated DEF Disk!OpenFile
  <2>2. /\ UNCHANGED <<dirs, raced>> /\ c.pc = "open"
        /\ \/ /\ k.pc = "idle" /\ ~k.alone
              /\ \A u \in Threads \ {t} : does'[u] = [does[u] EXCEPT !.fresh = does'[u].fresh]
           \/ /\ ~(Disk!Exists(Disk!Front(c.path)) /\ c.path \notin dirs)
              /\ k.pc = "failed" /\ Others(t) /\ k.path = c.path /\ k.alone = c.alone /\ k.above = c.above
    BY <1>1, <1>12, <2>1, Opens
  <2>3. c.pc \in Disk!Creating /\ c.pc # "idle" /\ c.above < Len(c.path)
    BY <1>2, <2>2 DEF Disk!Creating, Creation
  <2>4. CASE /\ k.pc = "idle" /\ ~k.alone
             /\ \A u \in Threads \ {t} : does'[u] = [does[u] EXCEPT !.fresh = does'[u].fresh]
    <3>1. ASSUME NEW u \in Threads \ {t}
          PROVE  /\ does'[u].pc = does[u].pc /\ does'[u].path = does[u].path
                 /\ does'[u].above = does[u].above /\ does'[u].alone = does[u].alone
      <4>1. does'[u] = [does[u] EXCEPT !.fresh = does'[u].fresh] /\ does[u] \in Disk!Calls
        BY <1>2, <2>4
      <4>2. QED
        BY <4>1 DEF Disk!Calls
    <3>2. Creation(k, dirs') /\ k.pc \notin Disk!Creating
      BY <2>4 DEF Creation, Disk!Creating
    <3> HIDE DEF c, k
    <3>3. QED
      BY <1>3, <2>2, <2>3, <2>4, <3>1, <3>2 DEF c, k
  <2>5. CASE /\ ~(Disk!Exists(Disk!Front(c.path)) /\ c.path \notin dirs)
             /\ k.pc = "failed" /\ Others(t) /\ k.path = c.path /\ k.alone = c.alone /\ k.above = c.above
    <3>1. ~c.alone
      BY <2>2, <2>5, OpenSucceeds
    <3>2. Creation(k, dirs')
      BY <2>1, <2>3, <2>5, <3>1 DEF Creation
    <3> HIDE DEF c, k
    <3>3. QED
      BY <1>4, <2>2, <2>3, <2>5, <3>2 DEF c, k
  <2>6. QED
    BY <2>2, <2>4, <2>5
<1>13. CASE Disk!Failed(t)
  <2>1. Others(t) /\ UNCHANGED raced /\ c.pc = "failed" /\ k.pc = "idle" /\ ~k.alone
    BY <1>1, <1>13, Fails
  <2>2. k.pc \notin Disk!Creating
    BY <2>1 DEF Disk!Creating
  <2>3. QED
    BY <1>5, <2>1, <2>2
<1>14. CASE Disk!Look(t)
  <2>1. /\ Others(t) /\ UNCHANGED raced /\ c.pc = "look"
        /\ \/ k.pc = "idle" /\ ~k.alone
           \/ k.pc = "delete" /\ k.alone = c.alone
    BY <1>1, <1>14, Looks
  <2>2. k.pc \notin Disk!Creating
    BY <2>1 DEF Disk!Creating
  <2>3. QED
    BY <1>5, <2>1, <2>2
<1>15. ASSUME Others(t), UNCHANGED raced, c.pc = "delete",
              (k.pc = "delete" /\ k.alone = c.alone) \/ \E b : PopTo(c, k, b)
       PROVE  AloneInv'
  <2>1. k.pc \notin Disk!Creating /\ (k.alone => c.alone /\ k.pc # "idle")
    BY <1>15 DEF Disk!Creating, PopTo
  <2>2. QED
    BY <1>5, <1>15, <2>1
<1>16. CASE Disk!Enter(t)
  <2>1. c.pc = "delete"
    BY <1>16 DEF Disk!Enter
  <2>2. c.path # <<>> /\ c.stack # <<>>
    BY <1>1, <2>1, Deleting
  <2>3. /\ Others(t) /\ UNCHANGED raced
        /\ \/ k.pc = "delete" /\ k.alone = c.alone
           \/ PopTo(c, k, c.stack[Len(c.stack)].path \in files)
    BY <1>1, <1>16, <2>2, Enters
  <2>4. QED
    BY <1>15, <2>1, <2>3
<1>17. CASE Disk!ReadEntry(t)
  <2>1. c.pc = "delete"
    BY <1>17 DEF Disk!ReadEntry
  <2>2. c.path # <<>> /\ c.stack # <<>>
    BY <1>1, <2>1, Deleting
  <2>3. Others(t) /\ UNCHANGED raced /\ k.pc = "delete" /\ k.alone = c.alone
    BY <1>1, <1>17, <2>2, Reads
  <2>4. QED
    BY <1>15, <2>1, <2>3
<1>18. CASE Disk!Rmdir(t)
  <2>1. c.pc = "delete"
    BY <1>18 DEF Disk!Rmdir
  <2>2. c.path # <<>> /\ c.stack # <<>>
    BY <1>1, <2>1, Deleting
  <2>3. Others(t) /\ UNCHANGED raced /\ (PopTo(c, k, TRUE) \/ PopTo(c, k, FALSE))
    BY <1>1, <1>18, <2>2, Removes
  <2>4. QED
    BY <1>15, <2>1, <2>3
<1>19. QED
  BY <1>7, <1>8, <1>9, <1>10, <1>11, <1>12, <1>13, <1>14, <1>16, <1>17, <1>18

-----------------------------------------------------------------------------
(* The frame a deletion is in. *)
LEMMA Topmost ==
  ASSUME PathsUsed, DiskInv, NEW t \in Threads, does[t].pc = "delete"
  PROVE  LET c == does[t]
             top == c.stack[Len(c.stack)]
         IN  /\ c.path # <<>> /\ c.stack # <<>> /\ StackOk(c.path, c.stack)
             /\ c.stack \in Seq(Disk!Frames) /\ c.path \in Seq(Disk!Names) /\ Len(c.stack) \in Nat \ {0}
             /\ top \in Disk!Frames /\ FrameOk(c.path, top)
             /\ top.path \in Seq(Disk!Names) /\ top.path # <<>>
<1> DEFINE c == does[t]
           top == c.stack[Len(c.stack)]
<1>1. /\ c.path # <<>> /\ c.stack # <<>> /\ StackOk(c.path, c.stack)
      /\ c.stack \in Seq(Disk!Frames) /\ c.path \in Seq(Disk!Names)
  BY Deleting DEF DiskInv, Tree, Disk!TypeOK, Disk!Calls
<1>2. Len(c.stack) \in 1..Len(c.stack) /\ Len(c.stack) \in Nat \ {0}
  BY <1>1, EmptySeq
<1>3. top \in Disk!Frames /\ FrameOk(c.path, top)
  BY <1>1, <1>2, ElementOfSeq DEF StackOk
<1>4. top.path \in Seq(Disk!Names) /\ Below(c.path, top.path)
  BY <1>3 DEF FrameOk, Disk!Frames
<1> HIDE DEF c, top
<1>5. Len(c.path) \in Nat \ {0} /\ Len(c.path) <= Len(top.path)
  BY <1>1, <1>4, EmptySeq DEF Below
<1>6. top.path # <<>>
  <2>1. Len(<<>>) = 0
    BY EmptySeq
  <2>2. Len(top.path) # 0
    BY <1>4, <1>5
  <2>3. QED
    BY <2>1, <2>2
<1>7. QED
  BY <1>1, <1>2, <1>3, <1>4, <1>6 DEF c, top

(* A directory that has been read to the end can be removed, or is gone. *)
LEMMA ReadToTheEnd ==
  ASSUME PathsUsed, DiskInv, ~raced, NEW t \in Threads, does[t].pc = "delete",
         does[t].stack[Len(does[t].stack)].opened,
         does[t].stack[Len(does[t].stack)].there \subseteq does[t].stack[Len(does[t].stack)].read
  PROVE  LET p == does[t].stack[Len(does[t].stack)].path
         IN  p \notin files /\ (p \in dirs => Disk!Children(p) = {})
<1> DEFINE c == does[t]
           n == Len(c.stack)
           top == c.stack[n]
<1>1. n \in 1..n
  BY Topmost
<1>2. Gone(c, dirs, files)
  BY DEF DiskInv, GoneInv
<1>3. GoneFrom(top, {}, dirs, files)
  <2> HIDE DEF n
  <2>1. GoneFrom(c.stack[n], IF n < Len(c.stack) THEN {c.stack[n + 1].path} ELSE {}, dirs, files)
    BY <1>1, <1>2 DEF Gone, n
  <2>2. ~(n < Len(c.stack))
    BY <1>1 DEF n
  <2>3. QED
    BY <2>1, <2>2
<1>4. top.path \notin files
  BY <1>3 DEF GoneFrom
<1>5. ASSUME NEW e \in Disk!Children(top.path)
      PROVE  FALSE
  BY <1>3 DEF GoneFrom, Disk!Children
<1>6. QED
  BY <1>4, <1>5

(* What is removed does not come back to a deletion that knew of it. *)
LEMMA GoneLess ==
  ASSUME NEW c, NEW k, NEW D, NEW F, NEW E, NEW G, E \subseteq D, G \subseteq F, Gone(c, D, F),
         k.pc = "delete" => c.pc = "delete" /\ k.stack = c.stack
  PROVE  Gone(k, E, G)
BY DEF Gone, GoneFrom

LEMMA GonePop ==
  ASSUME NEW c, NEW k, NEW b, NEW D, NEW F, NEW E, NEW G, E \subseteq D, G \subseteq F, Gone(c, D, F),
         c.pc = "delete", c.stack \in Seq(Disk!Frames), StackOk(c.path, c.stack), PopTo(c, k, b),
         c.stack[Len(c.stack)].path \notin E \cup G
  PROVE  Gone(k, E, G)
<1>1. CASE k.pc # "delete"
  BY <1>1 DEF Gone
<1>2. CASE k.pc = "delete"
  <2> DEFINE n == Len(c.stack)
             s == k.stack
  <2>1. n > 1 /\ s = Disk!Front(c.stack)
    BY <1>2 DEF PopTo
  <2>2. Len(s) = n - 1 /\ n \in Nat /\ \A i \in 1..(n - 1) : s[i] = c.stack[i]
    BY <2>1, StackLess
  <2>3. \A i \in 1..n : GoneFrom(c.stack[i], IF i < n THEN {c.stack[i + 1].path} ELSE {}, D, F)
    BY DEF Gone
  <2>4. c.stack[n].path \notin E \cup G
    OBVIOUS
  <2> HIDE DEF n, s
  <2> SUFFICES ASSUME NEW i \in 1..(n - 1)
               PROVE  GoneFrom(s[i], IF i < n - 1 THEN {s[i + 1].path} ELSE {}, E, G)
    BY <2>2 DEF Gone, s
  <2>5. i \in 1..n /\ i < n /\ s[i] = c.stack[i]
    BY <2>2
  <2>6. GoneFrom(s[i], {c.stack[i + 1].path}, D, F)
    BY <2>3, <2>5
  <2>7. CASE i < n - 1
    <3>1. s[i + 1] = c.stack[i + 1]
      BY <2>2, <2>7
    <3>2. QED
      BY <2>6, <2>7, <3>1 DEF GoneFrom
  <2>8. CASE i = n - 1
    <3>1. i + 1 = n
      BY <2>2, <2>8
    <3>2. c.stack[i + 1].path \notin E \cup G
      BY <2>4, <3>1
    <3>3. ~(i < n - 1)
      BY <2>2, <2>8
    <3>4. GoneFrom(s[i], {}, E, G)
      BY <2>6, <3>2 DEF GoneFrom
    <3>5. QED
      BY <3>3, <3>4
  <2>9. QED
    BY <2>2, <2>7, <2>8
<1>3. QED
  BY <1>1, <1>2

LEMMA GoneStep ==
  ASSUME PathsUsed, DiskInv, Disk!Next
  PROVE  GoneInv'
<1>1. Tree /\ Disk!TypeOK /\ CallsInv
  BY DEF DiskInv, Tree
<1>2. SUFFICES ASSUME ~raced' PROVE \A u \in Threads : Gone(does'[u], dirs', files')
  BY DEF GoneInv
<1>3. ASSUME NEW k, k.pc # "delete"
      PROVE  Gone(k, dirs', files')
  BY <1>3 DEF Gone
<1>4. ASSUME ~raced, NEW t \in Threads, Others(t), dirs' \subseteq dirs, files' \subseteq files,
             Gone(does'[t], dirs', files')
      PROVE  \A u \in Threads : Gone(does'[u], dirs', files')
  <2>1. ASSUME NEW u \in Threads \ {t}
        PROVE  Gone(does'[u], dirs', files')
    <3>1. Gone(does[u], dirs, files) /\ does'[u] = does[u]
      BY <1>4 DEF DiskInv, GoneInv, Others
    <3>2. QED
      BY <1>4, <3>1, GoneLess
  <2>2. QED
    BY <1>4, <2>1
<1>5. ASSUME ~raced, NEW t \in Threads, does[t].pc \in Disk!Creating, does'[t].pc # "delete",
             \A u \in Threads \ {t} : does'[u].pc = does[u].pc
      PROVE  \A u \in Threads : Gone(does'[u], dirs', files')
  <2>1. \A u \in Threads \ {t} : does'[u].pc = "idle"
    BY <1>5 DEF DiskInv, AloneInv
  <2>2. QED
    BY <1>3, <1>5, <2>1
<1>6. ASSUME NEW t \in Threads, NEW c \in Disk!Calls, Disk!Begin(t, c), Gone(c, dirs, files)
      PROVE  \A u \in Threads : Gone(does'[u], dirs', files')
  <2>1. /\ UNCHANGED <<dirs, files>> /\ does'[t] = [c EXCEPT !.alone = does'[t].alone]
        /\ \A u \in Threads \ {t} : does'[u] = [does[u] EXCEPT !.alone = FALSE]
        /\ raced => raced'
    BY <1>1, <1>6, Begins
  <2>2. does'[t].pc = c.pc /\ does'[t].stack = c.stack
    BY <2>1 DEF Disk!Calls
  <2>3. ASSUME NEW u \in Threads \ {t}
        PROVE  Gone(does'[u], dirs', files')
    <3>1. does'[u] = [does[u] EXCEPT !.alone = FALSE] /\ does[u] \in Disk!Calls
      BY <1>1, <2>1 DEF Disk!TypeOK
    <3>2. does'[u].pc = does[u].pc /\ does'[u].stack = does[u].stack
      BY <3>1 DEF Disk!Calls
    <3>3. Gone(does[u], dirs, files)
      BY <1>2, <2>1 DEF DiskInv, GoneInv
    <3>4. QED
      BY <2>1, <3>2, <3>3, GoneLess
  <2>4. Gone(does'[t], dirs', files')
    BY <1>6, <2>1, <2>2, GoneLess
  <2>5. QED
    BY <2>3, <2>4
<1>7. SUFFICES ASSUME NEW t \in Threads,
                      \/ \E goal \in Deleted : Disk!Delete(t, goal)
                      \/ \E goal \in Created, how \in {"create_file", "log"} : Disk!Create(t, goal, how)
                      \/ Disk!Access(t) \/ Disk!Mkdir(t) \/ Disk!OpenFile(t) \/ Disk!Failed(t)
                      \/ Disk!Enter(t) \/ Disk!ReadEntry(t) \/ Disk!Rmdir(t) \/ Disk!Look(t)
               PROVE  \A u \in Threads : Gone(does'[u], dirs', files')
  BY DEF Disk!Next
<1>8. ASSUME NEW k, NEW p, k.stack = <<Disk!Frame(p)>>
      PROVE  Gone(k, dirs', files')
  <2>1. ~Disk!Frame(p).opened
    BY DEF Disk!Frame
  <2>2. \A i \in 1..Len(k.stack) : k.stack[i] = Disk!Frame(p)
    BY <1>8
  <2>3. QED
    BY <2>1, <2>2 DEF Gone, GoneFrom
<1>9. ASSUME NEW goal \in Deleted, Disk!Delete(t, goal)
      PROVE  \A u \in Threads : Gone(does'[u], dirs', files')
  <2> DEFINE c == [Disk!Idle EXCEPT !.pc = "delete", !.path = goal, !.stack = <<Disk!Frame(goal)>>]
  <2>1. c \in Disk!Calls /\ c.stack = <<Disk!Frame(goal)>>
    BY Deletes
  <2>2. Disk!Begin(t, c)
    BY <1>9 DEF Disk!Delete
  <2> HIDE DEF c
  <2>3. UNCHANGED <<dirs, files>>
    BY <1>1, <2>1, <2>2, Begins
  <2>4. Gone(c, dirs, files)
    BY <1>8, <2>1, <2>3
  <2>5. QED
    BY <1>6, <2>1, <2>2, <2>4
<1>10. ASSUME NEW goal \in Created, NEW how \in {"create_file", "log"}, Disk!Create(t, goal, how)
       PROVE  \A u \in Threads : Gone(does'[u], dirs', files')
  <2> DEFINE c == [Disk!Idle EXCEPT !.pc = "access", !.path = goal, !.how = how]
  <2>1. c \in Disk!Calls /\ c.pc = "access"
    BY Creates
  <2>2. Disk!Begin(t, c)
    BY <1>10 DEF Disk!Create
  <2> HIDE DEF c
  <2>3. Gone(c, dirs, files)
    BY <2>1 DEF Gone
  <2>4. QED
    BY <1>6, <2>1, <2>2, <2>3
<1> DEFINE c == does[t]
           k == does'[t]
<1>11. CASE Disk!Access(t)
  <2>1. Others(t) /\ UNCHANGED raced /\ c.pc = "access" /\ k.pc # "delete"
    BY <1>1, <1>11, Accesses
  <2>2. QED
    BY <1>2, <1>5, <2>1 DEF Others, Disk!Creating
<1>12. CASE Disk!Mkdir(t)
  <2>1. Others(t) /\ UNCHANGED raced /\ c.pc = "mkdir" /\ k.pc # "delete"
    BY <1>1, <1>12, Makes
  <2>2. QED
    BY <1>2, <1>5, <2>1 DEF Others, Disk!Creating
<1>13. CASE Disk!OpenFile(t)
  <2>1. c.path \in Created
    BY <1>13, OpensCreated DEF Disk!OpenFile
  <2>2. /\ UNCHANGED raced /\ c.pc = "open" /\ k.pc # "delete"
        /\ \/ \A u \in Threads \ {t} : does'[u] = [does[u] EXCEPT !.fresh = does'[u].fresh]
           \/ Others(t)
    BY <1>1, <1>13, <2>1, Opens
  <2>3. ASSUME NEW u \in Threads \ {t}
        PROVE  does'[u].pc = does[u].pc
    <3>1. does[u] \in Disk!Calls
      BY <1>1 DEF Disk!TypeOK
    <3>2. does'[u] = [does[u] EXCEPT !.fresh = does'[u].fresh] \/ does'[u] = does[u]
      BY <2>2 DEF Others
    <3>3. QED
      BY <3>1, <3>2 DEF Disk!Calls
  <2>4. QED
    BY <1>2, <1>5, <2>2, <2>3 DEF Disk!Creating
<1>14. CASE Disk!Failed(t)
  <2>1. Others(t) /\ UNCHANGED raced /\ c.pc = "failed" /\ k.pc # "delete"
    BY <1>1, <1>14, Fails
  <2>2. QED
    BY <1>2, <1>5, <2>1 DEF Others, Disk!Creating
<1>15. CASE Disk!Look(t)
  <2>1. /\ Others(t) /\ UNCHANGED <<dirs, files, raced>>
        /\ k.pc = "idle" \/ k.stack = <<Disk!Frame(c.path)>>
    BY <1>1, <1>15, Looks
  <2>2. Gone(k, dirs', files')
    BY <1>3, <1>8, <2>1
  <2>3. QED
    BY <1>2, <1>4, <2>1, <2>2
<1> DEFINE n == Len(c.stack)
           top == c.stack[n]
<1>16. CASE Disk!Enter(t)
  <2>1. c.pc = "delete"
    BY <1>16 DEF Disk!Enter
  <2>2. /\ c.path # <<>> /\ c.stack # <<>> /\ StackOk(c.path, c.stack) /\ c.stack \in Seq(Disk!Frames)
        /\ n \in Nat \ {0} /\ FrameOk(c.path, top)
    BY <2>1, Topmost
  <2>3. /\ Others(t) /\ UNCHANGED <<dirs, raced>> /\ ~top.opened
        /\ \/ /\ top.path \in dirs /\ UNCHANGED files /\ k.pc = "delete"
              /\ \E m \in Disk!Frames :
                   /\ k.stack = Disk!OnTop(c.stack, m) /\ m.path = top.path /\ m.opened
                   /\ m.read = top.read /\ m.there = Disk!Children(top.path)
           \/ /\ top.path \notin dirs /\ files' = files \ {top.path}
              /\ PopTo(c, k, top.path \in files)
    BY <1>1, <1>16, <2>2, Enters
  <2>4. ~raced /\ Gone(c, dirs, files)
    BY <1>2, <2>3 DEF DiskInv, GoneInv
  <2> HIDE DEF c, k, n, top
  <2>5. ASSUME NEW m \in Disk!Frames, k.stack = Disk!OnTop(c.stack, m), m.path = top.path, m.opened,
               m.read = top.read, m.there = Disk!Children(top.path),
               top.path \in dirs, UNCHANGED files, k.pc = "delete"
        PROVE  Gone(k, dirs', files')
    <3> DEFINE s == k.stack
    <3>1. Len(s) = n /\ \A i \in 1..n : s[i] = IF i = n THEN m ELSE c.stack[i]
      <4> DEFINE r == Disk!OnTop(c.stack, m)
      <4>1. Len(r) = n /\ \A i \in 1..n : r[i] = IF i = n THEN m ELSE c.stack[i]
        BY <2>2, TopReplaced DEF n
      <4> HIDE DEF r
      <4>2. s = r
        BY <2>5 DEF r
      <4>3. QED
        BY <4>1, <4>2
    <3> HIDE DEF s
    <3>2. top.read = {}
      BY <2>2, <2>3 DEF FrameOk
    <3>3. m.path \notin files
      BY <1>1, <2>5 DEF Tree
    <3>4. GoneFrom(m, {}, dirs', files')
      BY <2>3, <2>5, <3>2, <3>3 DEF GoneFrom, Disk!Children
    <3>5. ASSUME NEW i \in 1..n
          PROVE  GoneFrom(s[i], IF i < n THEN {s[i + 1].path} ELSE {}, dirs', files')
      <4>1. CASE i = n
        <5>1. ~(i < n) /\ s[i] = m
          BY <2>2, <3>1, <4>1
        <5>2. QED
          BY <3>4, <5>1
      <4>2. CASE i # n
        <5>1. i < n /\ i + 1 \in 1..n /\ s[i] = c.stack[i]
          BY <2>2, <3>1, <4>2
        <5>2. s[i + 1].path = c.stack[i + 1].path
          BY <2>5, <3>1, <5>1 DEF top
        <5>3. GoneFrom(c.stack[i], {c.stack[i + 1].path}, dirs, files)
          BY <2>1, <2>4, <5>1 DEF Gone, n
        <5>4. QED
          BY <2>3, <2>5, <5>1, <5>2, <5>3
      <4>3. QED
        BY <4>1, <4>2
    <3>6. QED
      BY <3>1, <3>5 DEF Gone, s
  <2>6. CASE top.path \notin dirs /\ files' = files \ {top.path} /\ PopTo(c, k, top.path \in files)
    <3>1. Gone(k, dirs', files')
      <4>1. c.stack[Len(c.stack)].path \notin dirs' \cup files' /\ dirs' \subseteq dirs /\ files' \subseteq files
        BY <2>3, <2>6 DEF top, n
      <4>2. QED
        BY <2>1, <2>2, <2>4, <2>6, <4>1, GonePop
    <3>2. QED
      BY <1>4, <2>3, <2>4, <2>6, <3>1 DEF k
  <2>7. CASE /\ top.path \in dirs /\ UNCHANGED files /\ k.pc = "delete"
             /\ \E m \in Disk!Frames :
                  /\ k.stack = Disk!OnTop(c.stack, m) /\ m.path = top.path /\ m.opened
                  /\ m.read = top.read /\ m.there = Disk!Children(top.path)
    <3>1. Gone(k, dirs', files')
      BY <2>5, <2>7
    <3>2. QED
      BY <1>4, <2>3, <2>4, <2>7, <3>1 DEF k
  <2>8. QED
    BY <2>3, <2>6, <2>7
<1>17. CASE Disk!ReadEntry(t)
  <2>1. c.pc = "delete"
    BY <1>17 DEF Disk!ReadEntry
  <2>2. /\ c.path # <<>> /\ c.stack # <<>> /\ c.stack \in Seq(Disk!Frames) /\ n \in Nat \ {0}
    BY <2>1, Topmost
  <2>3. /\ Others(t) /\ UNCHANGED <<dirs, files, raced>> /\ top.opened /\ k.pc = "delete"
        /\ \E m \in Disk!Frames, e \in top.there \cup Disk!Children(top.path) :
             /\ k.stack = Append(Disk!OnTop(c.stack, m), Disk!Frame(e)) /\ Disk!Frame(e) \in Disk!Frames
             /\ m.path = top.path /\ m.opened /\ m.read = top.read \cup {e} /\ m.there = top.there
    BY <1>1, <1>17, <2>2, Reads
  <2>4. ~raced /\ Gone(c, dirs, files)
    BY <1>2, <2>3 DEF DiskInv, GoneInv
  <2> HIDE DEF c, k, n, top
  <2>5. PICK m \in Disk!Frames, e \in top.there \cup Disk!Children(top.path) :
             /\ k.stack = Append(Disk!OnTop(c.stack, m), Disk!Frame(e)) /\ Disk!Frame(e) \in Disk!Frames
             /\ m.path = top.path /\ m.opened /\ m.read = top.read \cup {e} /\ m.there = top.there
    BY <2>3
  <2> DEFINE r == Disk!OnTop(c.stack, m)
             s == k.stack
  <2>6. r \in Seq(Disk!Frames) /\ Len(r) = n /\ \A i \in 1..n : r[i] = IF i = n THEN m ELSE c.stack[i]
    BY <2>2, TopReplaced DEF n
  <2> HIDE DEF r
  <2>7. Len(s) = n + 1 /\ (\A i \in 1..n : s[i] = r[i]) /\ s[n + 1] = Disk!Frame(e)
    BY <2>5, <2>6, AppendProperties DEF r
  <2> HIDE DEF s
  <2>8. /\ Disk!Frame(e).path = e /\ ~Disk!Frame(e).opened
    BY DEF Disk!Frame
  <2>9. GoneFrom(top, {}, dirs, files)
    <3>1. n \in 1..n /\ ~(n < n)
      BY <2>2
    <3>2. GoneFrom(c.stack[n], IF n < n THEN {c.stack[n + 1].path} ELSE {}, dirs, files)
      BY <2>1, <2>4, <3>1 DEF Gone, n
    <3>3. QED
      BY <3>1, <3>2 DEF top
  <2>10. GoneFrom(m, {e}, dirs', files')
    BY <2>3, <2>5, <2>9 DEF GoneFrom
  <2>11. ASSUME NEW i \in 1..(n + 1)
         PROVE  GoneFrom(s[i], IF i < n + 1 THEN {s[i + 1].path} ELSE {}, dirs', files')
    <3>1. CASE i = n + 1
      BY <2>7, <2>8, <3>1 DEF GoneFrom
    <3>2. CASE i = n
      <4>1. i < n + 1 /\ s[i] = m /\ s[i + 1].path = e
        BY <2>2, <2>6, <2>7, <2>8, <3>2
      <4>2. QED
        BY <2>10, <4>1
    <3>3. CASE i < n
      <4>1. i < n + 1 /\ i \in 1..n /\ i + 1 \in 1..n /\ s[i] = c.stack[i]
        BY <2>2, <2>6, <2>7, <3>3
      <4>2. s[i + 1].path = c.stack[i + 1].path
        BY <2>5, <2>6, <2>7, <4>1 DEF top
      <4>3. GoneFrom(c.stack[i], {c.stack[i + 1].path}, dirs, files)
        BY <2>1, <2>4, <3>3, <4>1 DEF Gone, n
      <4>4. QED
        BY <2>3, <4>1, <4>2, <4>3
    <3>4. QED
      BY <2>2, <3>1, <3>2, <3>3
  <2>12. Gone(k, dirs', files')
    BY <2>7, <2>11 DEF Gone, s
  <2>13. QED
    BY <1>4, <2>3, <2>4, <2>12 DEF k
<1>18. CASE Disk!Rmdir(t)
  <2>1. c.pc = "delete"
    BY <1>18 DEF Disk!Rmdir
  <2>2. c.path # <<>> /\ c.stack # <<>> /\ StackOk(c.path, c.stack) /\ c.stack \in Seq(Disk!Frames)
    BY <2>1, Topmost
  <2>3. /\ Others(t) /\ UNCHANGED <<files, raced>> /\ top.opened /\ top.there \subseteq top.read
        /\ \/ dirs' = dirs \ {top.path} /\ PopTo(c, k, TRUE)
           \/ /\ ~(top.path \in dirs /\ Disk!Children(top.path) = {})
              /\ dirs' = dirs /\ PopTo(c, k, FALSE)
    BY <1>1, <1>18, <2>2, Removes
  <2>4. ~raced /\ Gone(c, dirs, files)
    BY <1>2, <2>3 DEF DiskInv, GoneInv
  <2>5. top.path \notin files /\ (top.path \in dirs => Disk!Children(top.path) = {})
    BY <2>1, <2>3, <2>4, ReadToTheEnd
  <2>6. top.path \notin dirs' \cup files' /\ dirs' \subseteq dirs /\ files' \subseteq files
    BY <2>3, <2>5
  <2>7. Gone(k, dirs', files')
    BY <2>1, <2>2, <2>3, <2>4, <2>6, GonePop
  <2>8. QED
    BY <1>4, <2>3, <2>4, <2>6, <2>7
<1>19. QED
  BY <1>7, <1>9, <1>10, <1>11, <1>12, <1>13, <1>14, <1>15, <1>16, <1>17, <1>18

-----------------------------------------------------------------------------
(* Where nothing was created at the wrong time, an empty directory has    *)
(* somebody who will remove it or fill it.                                 *)
NothingIn(d, D, F) == \A e \in D \cup F : e # <<>> => Disk!Front(e) # d

LEMMA OwedPop ==
  ASSUME PathsUsed, DiskInv, ~raced, NEW t \in Threads, does[t].pc = "delete", NEW b,
         PopTo(does[t], does'[t], b), Others(t), NEW p, p = does[t].stack[Len(does[t].stack)].path,
         dirs' \subseteq dirs, dirs \cup files \subseteq dirs' \cup files' \cup {p},
         b \/ dirs \cup files \subseteq dirs' \cup files',
         \A d \in dirs' : ~Below(p, d),
         NEW d \in dirs', NothingIn(d, dirs', files')
  PROVE  \E u \in Threads : Owes(does'[u], d)
<1> DEFINE c == does[t]
           k == does'[t]
           n == Len(c.stack)
<1>1. /\ StackOk(c.path, c.stack) /\ c.stack \in Seq(Disk!Frames) /\ n \in Nat \ {0}
      /\ p # <<>> /\ p \in Seq(Disk!Names)
  BY Topmost
<1>2. \/ n > 1 /\ k.pc = "delete" /\ k.path = c.path
      \/ n = 1 /\ k.pc = "idle" /\ ~b
      \/ n = 1 /\ k.pc = "look" /\ k.path = Disk!Front(c.path)
  BY DEF PopTo
<1>3. n = 1 => c.path = p
  BY <1>1 DEF StackOk
<1>4. \A u \in Threads : u # t => does'[u] = does[u]
  BY DEF Others
<1> HIDE DEF c, k, n
<1>5. CASE NothingIn(d, dirs, files)
  <2>1. PICK u \in Threads : Owes(does[u], d)
    BY <1>5 DEF DiskInv, Owed, NothingIn
  <2>2. CASE u # t
    BY <1>4, <2>1, <2>2
  <2>3. CASE u = t
    <3>1. Below(c.path, d)
      BY <2>1, <2>3 DEF Owes, Disk!Creating, c
    <3>2. n > 1
      BY <1>1, <1>2, <1>3, <3>1
    <3>3. Owes(k, d)
      BY <1>1, <1>2, <3>1, <3>2 DEF Owes
    <3>4. QED
      BY <3>3 DEF k
  <2>4. QED
    BY <2>2, <2>3
<1>6. CASE ~NothingIn(d, dirs, files)
  <2>1. b /\ Disk!Front(p) = d
    BY <1>6 DEF NothingIn
  <2>2. CASE n > 1
    <3>1. n - 1 \in 1..(n - 1) /\ n - 1 \in 1..n /\ n - 1 + 1 = n
      BY <1>1, <2>2
    <3> DEFINE m == n - 1
    <3>2. m \in 1..(n - 1) /\ m \in 1..n /\ m + 1 = n
      BY <3>1
    <3> HIDE DEF m
    <3>3. FrameOk(c.path, c.stack[m]) /\ c.stack[m + 1].path \in c.stack[m].read
      BY <1>1, <3>2 DEF StackOk, n
    <3>4. c.stack[m + 1].path = p
      BY <3>2 DEF n, c
    <3>5. c.stack[m].path = d /\ Below(c.path, d)
      BY <2>1, <3>3, <3>4 DEF FrameOk
    <3>6. k.pc = "delete" /\ k.path = c.path
      BY <1>2, <2>2
    <3>7. Owes(k, d)
      BY <3>5, <3>6 DEF Owes
    <3>8. QED
      BY <3>7 DEF k
  <2>3. CASE n = 1
    <3>1. k.pc = "look" /\ k.path = d
      BY <1>2, <1>3, <2>1, <2>3
    <3>2. Owes(k, d)
      BY <3>1 DEF Owes
    <3>3. QED
      BY <3>2 DEF k
  <2>4. QED
    BY <1>1, <2>2, <2>3
<1>7. QED
  BY <1>5, <1>6

LEMMA OwedStep ==
  ASSUME PathsUsed, DiskInv, Disk!Next, Tree'
  PROVE  Owed'
<1>1. Tree /\ Disk!TypeOK /\ CallsInv
  BY DEF DiskInv, Tree
<1>2. SUFFICES ASSUME ~raced', NEW d \in dirs', NothingIn(d, dirs', files')
               PROVE  \E u \in Threads : Owes(does'[u], d)
  BY DEF Owed, NothingIn
<1>3. \A u \in Threads : does[u] \in Disk!Calls
  BY <1>1 DEF Disk!TypeOK
<1>4. ASSUME ~raced, d \in dirs, NothingIn(d, dirs, files),
             \A u \in Threads : Owes(does[u], d) => Owes(does'[u], d)
      PROVE  \E u \in Threads : Owes(does'[u], d)
  BY <1>4 DEF DiskInv, Owed, NothingIn
<1>5. ASSUME NEW c, NEW k, Owes(c, d), k.path = c.path,
             k.pc = c.pc \/ (c.pc \in Disk!Creating /\ k.pc \in Disk!Creating)
      PROVE  Owes(k, d)
  BY <1>5 DEF Owes, Disk!Creating
<1>6. ASSUME ~raced, NEW t \in Threads, Others(t), dirs' = dirs, files' = files,
             Owes(does[t], d) => Owes(does'[t], d)
      PROVE  \E u \in Threads : Owes(does'[u], d)
  <2>1. d \in dirs /\ NothingIn(d, dirs, files)
    BY <1>2, <1>6
  <2>2. \A u \in Threads : Owes(does[u], d) => Owes(does'[u], d)
    BY <1>6 DEF Others
  <2>3. QED
    BY <1>4, <1>6, <2>1, <2>2
<1>7. ASSUME NEW t \in Threads, NEW c \in Disk!Calls, Disk!Begin(t, c)
      PROVE  \E u \in Threads : Owes(does'[u], d)
  <2>1. /\ UNCHANGED <<dirs, files>> /\ does[t].pc = "idle"
        /\ \A u \in Threads \ {t} : does'[u] = [does[u] EXCEPT !.alone = FALSE]
        /\ raced => raced'
    BY <1>1, <1>7, Begins
  <2>2. ASSUME NEW u \in Threads, Owes(does[u], d)
        PROVE  Owes(does'[u], d)
    <3>1. u # t
      BY <2>1, <2>2 DEF Owes, Disk!Creating
    <3>2. does'[u] = [does[u] EXCEPT !.alone = FALSE] /\ does[u] \in Disk!Calls
      BY <1>3, <2>1, <3>1
    <3>3. does'[u].pc = does[u].pc /\ does'[u].path = does[u].path
      BY <3>2 DEF Disk!Calls
    <3>4. QED
      BY <1>5, <2>2, <3>3
  <2>3. d \in dirs /\ NothingIn(d, dirs, files) /\ ~raced
    BY <1>2, <2>1
  <2>4. QED
    BY <1>4, <2>2, <2>3
<1>8. SUFFICES ASSUME NEW t \in Threads,
                      \/ \E goal \in Deleted : Disk!Delete(t, goal)
                      \/ \E goal \in Created, how \in {"create_file", "log"} : Disk!Create(t, goal, how)
                      \/ Disk!Access(t) \/ Disk!Mkdir(t) \/ Disk!OpenFile(t) \/ Disk!Failed(t)
                      \/ Disk!Enter(t) \/ Disk!ReadEntry(t) \/ Disk!Rmdir(t) \/ Disk!Look(t)
               PROVE  \E u \in Threads : Owes(does'[u], d)
  BY DEF Disk!Next
<1>9. ASSUME NEW goal \in Deleted, Disk!Delete(t, goal)
      PROVE  \E u \in Threads : Owes(does'[u], d)
  BY <1>7, <1>9, Deletes DEF Disk!Delete
<1>10. ASSUME NEW goal \in Created, NEW how \in {"create_file", "log"}, Disk!Create(t, goal, how)
       PROVE  \E u \in Threads : Owes(does'[u], d)
  BY <1>7, <1>10, Creates DEF Disk!Create
<1> DEFINE c == does[t]
           k == does'[t]
<1>11. CASE Disk!Access(t)
  <2>1. /\ Others(t) /\ UNCHANGED <<dirs, files, raced>> /\ k.path = c.path
        /\ c.pc \in Disk!Creating /\ k.pc \in Disk!Creating
    BY <1>1, <1>11, Accesses DEF Disk!Creating
  <2>2. QED
    BY <1>2, <1>5, <1>6, <2>1
<1>12. CASE Disk!Mkdir(t)
  <2> DEFINE p == SubSeq(c.path, 1, c.above + 1)
  <2>1. /\ Others(t) /\ UNCHANGED <<files, raced>> /\ k.path = c.path /\ c.pc = "mkdir"
        /\ c.pc \in Disk!Creating /\ k.pc \in Disk!Creating
        /\ dirs' = dirs \/ dirs' = dirs \cup {p}
    BY <1>1, <1>12, Makes DEF Disk!Creating
  <2>2. Below(p, c.path)
    <3>1. c.path \in Created /\ p \in Disk!Above(c.path)
      BY <2>1, MakesBelow
    <3>2. c.path \in Seq(Disk!Names)
      BY <3>1 DEF PathsUsed
    <3>3. QED
      BY <3>1, <3>2, AboveOf
  <2> HIDE DEF p, c, k
  <2>3. CASE d = p
    <3>1. Owes(k, d)
      BY <2>1, <2>2, <2>3 DEF Owes
    <3>2. QED
      BY <3>1 DEF k
  <2>4. CASE d # p
    <3>1. d \in dirs /\ NothingIn(d, dirs, files) /\ ~raced
      BY <1>2, <2>1, <2>4 DEF NothingIn
    <3>2. Owes(c, d) => Owes(k, d)
      BY <1>5, <2>1
    <3>3. \A u \in Threads : Owes(does[u], d) => Owes(does'[u], d)
      BY <2>1, <3>2 DEF Others, c, k
    <3>4. QED
      BY <1>4, <3>1, <3>3
  <2>5. QED
    BY <2>3, <2>4
<1>13. CASE Disk!OpenFile(t)
  <2>1. c.path \in Created /\ c.path \in Seq(Disk!Names) /\ c.path # <<>>
    BY <1>13, OpensCreated DEF Disk!OpenFile
  <2>2. /\ UNCHANGED <<dirs, raced>> /\ c.pc = "open"
        /\ \/ /\ c.path \notin dirs /\ files' = files \cup {c.path}
              /\ \A u \in Threads \ {t} : does'[u] = [does[u] EXCEPT !.fresh = does'[u].fresh]
           \/ files' = files /\ k.pc = "failed" /\ Others(t) /\ k.path = c.path
    BY <1>1, <1>13, <2>1, Opens
  <2>3. CASE files' = files /\ k.pc = "failed" /\ Others(t) /\ k.path = c.path
    <3>1. Owes(c, d) => Owes(k, d)
      BY <1>5, <2>2, <2>3 DEF Disk!Creating
    <3>2. QED
      BY <1>2, <1>6, <2>2, <2>3, <3>1
  <2>4. CASE /\ c.path \notin dirs /\ files' = files \cup {c.path}
             /\ \A u \in Threads \ {t} : does'[u] = [does[u] EXCEPT !.fresh = does'[u].fresh]
    <3>1. d \in dirs /\ NothingIn(d, dirs, files) /\ ~raced
      BY <1>2, <2>2, <2>4 DEF NothingIn
    <3>2. ~Below(d, c.path)
      <4>1. d \in Seq(Disk!Names) /\ d # c.path
        BY <1>1, <2>4, <3>1, PathsOf
      <4>2. Disk!Above(c.path) \cup {c.path} \subseteq dirs' \cup files'
        BY <2>4 DEF Tree, Disk!TypeOK
      <4>3. Below(d, c.path) =>
               \E e \in Disk!Above(c.path) \cup {c.path} : e # <<>> /\ Disk!Front(e) = d
        BY <2>1, <4>1, ChildAbove
      <4>4. QED
        BY <1>2, <4>2, <4>3 DEF NothingIn
    <3>3. ASSUME NEW u \in Threads, Owes(does[u], d)
          PROVE  Owes(does'[u], d)
      <4>1. u # t
        BY <2>2, <3>2, <3>3 DEF Owes
      <4>2. does'[u] = [does[u] EXCEPT !.fresh = does'[u].fresh] /\ does[u] \in Disk!Calls
        BY <1>3, <2>4, <4>1
      <4>3. does'[u].pc = does[u].pc /\ does'[u].path = does[u].path
        BY <4>2 DEF Disk!Calls
      <4>4. QED
        BY <1>5, <3>3, <4>3
    <3>4. QED
      BY <1>4, <3>1, <3>3
  <2>5. QED
    BY <2>2, <2>3, <2>4
<1>14. CASE Disk!Failed(t)
  <2>1. UNCHANGED raced /\ c.pc = "failed"
    BY <1>1, <1>14, Fails
  <2>2. QED
    BY <1>2, <2>1 DEF DiskInv, AloneInv, Creation, Disk!Creating
<1>15. CASE Disk!Look(t)
  <2>1. /\ Others(t) /\ UNCHANGED <<dirs, files, raced>> /\ c.pc = "look"
        /\ \/ c.path \notin dirs \/ Disk!Children(c.path) # {}
           \/ c.path \in dirs /\ k.pc = "delete" /\ k.path = c.path
    BY <1>1, <1>15, Looks
  <2>2. ASSUME Owes(c, d)
        PROVE  Owes(k, d)
    <3>1. c.path = d
      BY <2>1, <2>2 DEF Owes, Disk!Creating
    <3>2. d \in dirs /\ Disk!Children(d) = {}
      BY <1>2, <2>1 DEF NothingIn, Disk!Children
    <3>3. Below(d, d)
      BY <1>1, <3>2, PathsOf, BelowOrder
    <3>4. QED
      BY <2>1, <3>1, <3>2, <3>3 DEF Owes
  <2>3. QED
    BY <1>2, <1>6, <2>1, <2>2
<1> DEFINE p == c.stack[Len(c.stack)].path
<1>16. ASSUME c.pc = "delete", p \notin dirs, NEW e \in dirs
       PROVE  ~Below(p, e)
  <2>1. p \in Seq(Disk!Names) /\ p # <<>>
    BY <1>16, Topmost
  <2>2. QED
    BY <1>1, <1>16, <2>1, NotEmpty
<1>17. CASE Disk!Enter(t)
  <2>1. c.pc = "delete"
    BY <1>17 DEF Disk!Enter
  <2>2. c.path # <<>> /\ c.stack # <<>>
    BY <2>1, Topmost
  <2>3. /\ Others(t) /\ UNCHANGED <<dirs, raced>>
        /\ \/ UNCHANGED files /\ k.pc = "delete" /\ k.path = c.path
           \/ p \notin dirs /\ files' = files \ {p} /\ PopTo(c, k, p \in files)
    BY <1>1, <1>17, <2>2, Enters
  <2>4. CASE UNCHANGED files /\ k.pc = "delete" /\ k.path = c.path
    <3>1. Owes(c, d) => Owes(k, d)
      BY <1>5, <2>1, <2>4
    <3>2. QED
      BY <1>2, <1>6, <2>3, <2>4, <3>1
  <2>5. CASE p \notin dirs /\ files' = files \ {p} /\ PopTo(c, k, p \in files)
    <3>1. \A e \in dirs' : ~Below(p, e)
      BY <1>16, <2>1, <2>3, <2>5
    <3>2. /\ dirs' \subseteq dirs /\ dirs \cup files \subseteq dirs' \cup files' \cup {p}
          /\ p \in files \/ dirs \cup files \subseteq dirs' \cup files'
      BY <2>3, <2>5
    <3>3. ~raced
      BY <1>2, <2>3
    <3>4. QED
      BY <1>2, <2>1, <2>3, <2>5, <3>1, <3>2, <3>3, OwedPop
  <2>6. QED
    BY <2>3, <2>4, <2>5
<1>18. CASE Disk!ReadEntry(t)
  <2>1. c.pc = "delete"
    BY <1>18 DEF Disk!ReadEntry
  <2>2. c.stack # <<>>
    BY <2>1, Topmost
  <2>3. Others(t) /\ UNCHANGED <<dirs, files, raced>> /\ k.pc = "delete" /\ k.path = c.path
    BY <1>1, <1>18, <2>2, Reads
  <2>4. Owes(c, d) => Owes(k, d)
    BY <1>5, <2>1, <2>3
  <2>5. QED
    BY <1>2, <1>6, <2>3, <2>4
<1>19. CASE Disk!Rmdir(t)
  <2>1. c.pc = "delete"
    BY <1>19 DEF Disk!Rmdir
  <2>2. c.path # <<>> /\ c.stack # <<>>
    BY <2>1, Topmost
  <2>3. /\ Others(t) /\ UNCHANGED <<files, raced>>
        /\ c.stack[Len(c.stack)].opened /\ c.stack[Len(c.stack)].there \subseteq c.stack[Len(c.stack)].read
        /\ \/ p \in dirs /\ Disk!Children(p) = {} /\ dirs' = dirs \ {p} /\ PopTo(c, k, TRUE)
           \/ /\ ~(p \in dirs /\ Disk!Children(p) = {})
              /\ dirs' = dirs /\ PopTo(c, k, FALSE)
    BY <1>1, <1>19, <2>2, Removes
  <2>4. ~raced
    BY <1>2, <2>3
  <2>5. p \in dirs => Disk!Children(p) = {}
    BY <2>1, <2>3, <2>4, ReadToTheEnd
  <2>6. \A e \in dirs' : ~Below(p, e)
    <3>1. CASE p \in dirs
      <4> SUFFICES ASSUME NEW e \in dirs', Below(p, e)
                   PROVE  FALSE
        OBVIOUS
      <4>1. p \in Seq(Disk!Names) /\ p # <<>>
        BY <2>1, Topmost
      <4>2. e \in dirs /\ e # p
        BY <2>3, <2>5, <3>1
      <4>3. \E f \in dirs \cup files : f # <<>> /\ Disk!Front(f) = p
        BY <1>1, <4>1, <4>2, NotEmpty
      <4>4. QED
        BY <2>5, <3>1, <4>3 DEF Disk!Children
    <3>2. CASE p \notin dirs
      BY <1>16, <2>1, <2>3, <3>2
    <3>3. QED
      BY <3>1, <3>2
  <2>7. CASE dirs' = dirs \ {p} /\ PopTo(c, k, TRUE)
    <3>1. dirs' \subseteq dirs /\ dirs \cup files \subseteq dirs' \cup files' \cup {p}
      BY <2>3, <2>7
    <3>2. /\ does[t].pc = "delete" /\ PopTo(does[t], does'[t], TRUE) /\ Others(t)
          /\ p = does[t].stack[Len(does[t].stack)].path
      BY <2>1, <2>3, <2>7
    <3> HIDE DEF c, k, p
    <3>3. QED
      BY <1>2, <2>4, <2>6, <3>1, <3>2, OwedPop
  <2>8. CASE dirs' = dirs /\ PopTo(c, k, FALSE)
    <3>1. /\ dirs' \subseteq dirs /\ dirs \cup files \subseteq dirs' \cup files' \cup {p}
          /\ dirs \cup files \subseteq dirs' \cup files'
      BY <2>3, <2>8
    <3>2. /\ does[t].pc = "delete" /\ PopTo(does[t], does'[t], FALSE) /\ Others(t)
          /\ p = does[t].stack[Len(does[t].stack)].path
      BY <2>1, <2>3, <2>8
    <3> HIDE DEF c, k, p
    <3>3. QED
      BY <1>2, <2>4, <2>6, <3>1, <3>2, OwedPop
  <2>9. QED
    BY <2>3, <2>7, <2>8
<1>20. QED
  BY <1>8, <1>9, <1>10, <1>11, <1>12, <1>13, <1>14, <1>15, <1>17, <1>18, <1>19

LEMMA DiskInit ==
  ASSUME PathsUsed, Disk!Init
  PROVE  DiskInv
<1>1. /\ files = InitFiles /\ dirs = UNION {Disk!Above(p) : p \in InitFiles}
      /\ does = [t \in Threads |-> Disk!Idle] /\ raced = FALSE /\ harmed = {}
  BY DEF Disk!Init
<1>2. \A t \in Threads : does[t] = Disk!Idle
  BY <1>1
<1>3. \A t \in Threads : does[t].pc = "idle" /\ ~does[t].alone
  BY <1>2, IdleCall
<1>4. \A p \in InitFiles : p \in Seq(Disk!Names) /\ p # <<>>
  BY DEF PathsUsed
<1>5. ASSUME NEW p \in dirs \cup files
      PROVE  Disk!Above(p) \subseteq dirs
  <2>1. CASE p \in InitFiles
    BY <1>1, <2>1
  <2>2. CASE p \in dirs
    <3>1. PICK q \in InitFiles : p \in Disk!Above(q)
      BY <1>1, <2>2
    <3>2. q \in Seq(Disk!Names) /\ Len(q) \in Nat
      BY <1>4
    <3>3. p \in Seq(Disk!Names) /\ Len(p) < Len(q) /\ Below(p, q) /\ Len(p) \in Nat
      BY <3>1, <3>2, AboveOf
    <3>4. ASSUME NEW d \in Disk!Above(p)
          PROVE  d \in Disk!Above(q)
      <4>1. d \in Seq(Disk!Names) /\ d # <<>> /\ Len(d) < Len(p) /\ Below(d, p) /\ Len(d) \in Nat
        BY <3>3, AboveOf
      <4>2. Below(d, q) /\ Len(d) < Len(q)
        BY <3>2, <3>3, <4>1, BelowOrder
      <4>3. QED
        BY <3>2, <4>1, <4>2, AboveOf
    <3>5. QED
      BY <1>1, <3>4
  <2>3. QED
    BY <1>1, <2>1, <2>2
<1>6. Disk!TypeOK
  BY <1>1, <1>5, IdleCall DEF Disk!TypeOK
<1>7. Tree
  BY <1>1, <1>6 DEF Tree, PathsUsed
<1>8. CallsInv /\ NoHarm /\ AloneInv /\ GoneInv
  BY <1>1, <1>3 DEF CallsInv, NoHarm, AloneInv, GoneInv, Framed, FreshIn, Creation, Gone, Disk!Creating
<1>9. Owed
  <2> SUFFICES ASSUME NEW d \in dirs
               PROVE  \E e \in dirs \cup files : e # <<>> /\ Disk!Front(e) = d
    BY DEF Owed
  <2>1. PICK p \in InitFiles : d \in Disk!Above(p)
    BY <1>1
  <2>2. p \in files /\ p \in Seq(Disk!Names)
    BY <1>1, <1>4
  <2>3. d \in Seq(Disk!Names) /\ d # <<>> /\ Below(d, p) /\ Len(d) < Len(p) /\ Len(d) \in Nat
    BY <2>1, <2>2, AboveOf
  <2>4. d # p
    BY <2>3
  <2>5. QED
    BY <1>6, <2>2, <2>3, <2>4, NotEmpty
<1>10. QED
  BY <1>7, <1>8, <1>9 DEF DiskInv

(* Deleting a path takes away nothing but what is at or below it, and what  *)
(* was created in a directory that was found empty; the directories that    *)
(* are emptied by it are removed, by somebody, unless something was created *)
(* while another call was made; and creating fails only if it was not alone *)
(* (create_file, delete_file and deleteEmptyDir of src/Util/File.cpp).      *)
THEOREM DeletionSpares ==
  ASSUME PathsUsed
  PROVE  Disk!Spec => [](Disk!TypeOK /\ Disk!FilesSpared)
<1>1. Disk!Init => DiskInv
  BY DiskInit
<1>2. DiskInv /\ [Disk!Next]_Disk!vars => DiskInv'
  <2> SUFFICES ASSUME DiskInv, [Disk!Next]_Disk!vars
               PROVE  DiskInv'
    OBVIOUS
  <2>1. CASE Disk!Next
    BY <2>1, TreeStep, CallsStep, AloneStep, GoneStep, OwedStep DEF DiskInv
  <2>2. CASE UNCHANGED Disk!vars
    <3>1. UNCHANGED <<dirs, files, does, raced, harmed>>
      BY <2>2 DEF Disk!vars
    <3>2. Tree'
      BY <3>1 DEF DiskInv, Tree, Disk!TypeOK
    <3>3. CallsInv' /\ NoHarm' /\ AloneInv' /\ GoneInv' /\ Owed'
      BY <3>1 DEF DiskInv, CallsInv, NoHarm, AloneInv, GoneInv, Owed
    <3>4. QED
      BY <3>2, <3>3 DEF DiskInv
  <2>3. QED
    BY <2>1, <2>2
<1>3. DiskInv => Disk!TypeOK /\ Disk!FilesSpared
  <2> SUFFICES ASSUME DiskInv
               PROVE  Disk!TypeOK /\ Disk!FilesSpared
    OBVIOUS
  <2>1. harmed = {} /\ Disk!TypeOK
    BY DEF DiskInv, NoHarm, Tree
  <2>2. ASSUME Disk!Active = {}, ~raced, NEW d \in dirs
        PROVE  Disk!Children(d) # {}
    <3>1. \A t \in Threads : ~Owes(does[t], d)
      BY <2>2 DEF Disk!Active, Owes, Disk!Creating
    <3>2. \E e \in dirs \cup files : e # <<>> /\ Disk!Front(e) = d
      BY <2>2, <3>1 DEF DiskInv, Owed
    <3>3. QED
      BY <3>2 DEF Disk!Children
  <2>3. \A t \in Threads : does[t].pc = "failed" => ~does[t].alone
    BY DEF DiskInv, AloneInv, Creation, Disk!Creating
  <2>4. QED
    BY <2>1, <2>2, <2>3 DEF Disk!FilesSpared
<1>4. QED
  BY <1>1, <1>2, <1>3, PTL DEF Disk!Spec

-----------------------------------------------------------------------------
(***************************************************************************)
(* The paths that absolutePath resolves (Paths.tla), for any characters.   *)
(***************************************************************************)
CONSTANTS Letters, PathTexts, Directories, exeDir
VARIABLE asked
Ways == INSTANCE Paths WITH Texts <- PathTexts

(* The two characters that mean something. *)
LEMMA Letter == "/" \in Ways!Character /\ "." \in Ways!Character
  BY DEF Ways!Character
Str == Ways!String
Chr == Ways!Character

(* Induction up to a number, over a set. *)
LEMMA UpTo ==
  ASSUME NEW N \in Nat, NEW S, 0 \in S, \A n \in 0..(N - 1) : n \in S => n + 1 \in S
  PROVE  0..N \subseteq S
<1> SUFFICES ASSUME (0..N) \ S # {} PROVE FALSE
  OBVIOUS
<1>1. (0..N) \ S \in SUBSET Nat
  OBVIOUS
<1>2. PICK n \in (0..N) \ S : \A m \in (0..N) \ S : n <= m
  BY <1>1, LeastOf
<1>3. n # 0 /\ n - 1 \in 0..(N - 1)
  BY <1>2
<1>4. n - 1 \in S
  BY <1>2, <1>3
<1>5. QED
  BY <1>2, <1>3, <1>4

(* What a loop makes, round by round. *)
Rounds(n, first, round, f) == f = [i \in 0..n |-> IF i = 0 THEN first ELSE round[i][f[i - 1]]]

(* The values that a loop goes through. *)
LEMMA RoundsExist ==
  ASSUME NEW N \in Nat, NEW first, NEW round
  PROVE  \E f : Rounds(N, first, round, f)
<1> DEFINE S == {n \in 0..N : \E f : Rounds(n, first, round, f)}
<1>1. 0 \in S
  <2> DEFINE f == [i \in 0..0 |-> first]
  <2>1. \A i \in 0..0 : i = 0
    OBVIOUS
  <2>2. f = [i \in 0..0 |-> IF i = 0 THEN first ELSE round[i][f[i - 1]]]
    BY <2>1
  <2> HIDE DEF f
  <2>3. QED
    BY <2>2 DEF Rounds
<1>2. ASSUME NEW n \in 0..(N - 1), n \in S
      PROVE  n + 1 \in S
  <2>1. PICK f : f = [i \in 0..n |-> IF i = 0 THEN first ELSE round[i][f[i - 1]]]
    BY <1>2 DEF Rounds
  <2> DEFINE g == [i \in 0..(n + 1) |-> IF i = n + 1 THEN round[n + 1][f[n]] ELSE f[i]]
             G(i) == IF i = 0 THEN first ELSE round[i][g[i - 1]]
  <2>2. ASSUME NEW i \in 0..(n + 1)
        PROVE  g[i] = G(i)
    <3>1. CASE i = n + 1
      <4>1. i - 1 = n /\ n \in 0..(n + 1) /\ n # n + 1 /\ i # 0
        BY <3>1
      <4>2. g[i] = round[i][f[n]] /\ g[n] = f[n]
        BY <3>1, <4>1
      <4>3. QED
        BY <4>1, <4>2
    <3>2. CASE i # n + 1
      <4>1. i \in 0..n
        BY <3>2
      <4>2. f[i] = IF i = 0 THEN first ELSE round[i][f[i - 1]]
        BY <2>1, <4>1
      <4>3. i # 0 => i - 1 \in 0..(n + 1) /\ i - 1 # n + 1
        BY <4>1
      <4>4. g[i] = f[i] /\ (i # 0 => g[i - 1] = f[i - 1])
        BY <3>2, <4>3
      <4>5. QED
        BY <4>2, <4>4
    <3>3. QED
      BY <3>1, <3>2
  <2>3. DOMAIN g = 0..(n + 1) /\ g = [i \in DOMAIN g |-> g[i]]
    OBVIOUS
  <2> HIDE DEF g, G
  <2>4. g = [i \in 0..(n + 1) |-> G(i)]
    BY <2>2, <2>3
  <2>5. Rounds(n + 1, first, round, g)
    BY <2>4 DEF G, Rounds
  <2>6. QED
    BY <2>5
<1> HIDE DEF S
<1>3. N \in S
  BY <1>1, <1>2, UpTo
<1>4. QED
  BY <1>3 DEF S

LEMMA RoundsAgree ==
  ASSUME NEW N \in Nat, NEW M \in 0..N, NEW first, NEW round, NEW f, NEW g,
         Rounds(N, first, round, f), Rounds(M, first, round, g)
  PROVE  f[M] = g[M]
<1> DEFINE S == {i \in 0..M : f[i] = g[i]}
<1>0. /\ \A i \in 0..M : f[i] = IF i = 0 THEN first ELSE round[i][f[i - 1]]
      /\ \A i \in 0..M : g[i] = IF i = 0 THEN first ELSE round[i][g[i - 1]]
  <2>1. \A i \in 0..N : f[i] = IF i = 0 THEN first ELSE round[i][f[i - 1]]
    BY DEF Rounds
  <2>2. \A i \in 0..M : g[i] = IF i = 0 THEN first ELSE round[i][g[i - 1]]
    BY DEF Rounds
  <2>3. \A i \in 0..M : i \in 0..N
    OBVIOUS
  <2>4. QED
    BY <2>1, <2>2, <2>3
<1>1. 0 \in S
  BY <1>0
<1>2. ASSUME NEW n \in 0..(M - 1), n \in S
      PROVE  n + 1 \in S
  <2>1. n + 1 \in 0..M /\ n + 1 # 0 /\ (n + 1) - 1 = n
    OBVIOUS
  <2>2. QED
    BY <1>0, <1>2, <2>1
<1> HIDE DEF S
<1>3. 0..M \subseteq S
  BY <1>1, <1>2, UpTo
<1>4. QED
  BY <1>3 DEF S

(* A loop, round by round. *)
LEMMA LoopStep ==
  ASSUME NEW n \in Nat, NEW first, NEW round
  PROVE  /\ Ways!Loop(0, first, round) = first
         /\ Ways!Loop(n + 1, first, round) = round[n + 1][Ways!Loop(n, first, round)]
<1> DEFINE F(m) == CHOOSE f : Rounds(m, first, round, f)
<1>1. ASSUME NEW m \in Nat
      PROVE  Rounds(m, first, round, F(m)) /\ Ways!Loop(m, first, round) = F(m)[m]
  <2>1. Rounds(m, first, round, F(m))
    BY RoundsExist
  <2>2. Ways!Loop(m, first, round) = F(m)[m]
    BY DEF Ways!Loop, Rounds
  <2>3. QED
    BY <2>1, <2>2
<1> HIDE DEF F
<1>2. F(0)[0] = first
  BY <1>1 DEF Rounds
<1>3. F(n + 1)[n + 1] = round[n + 1][F(n + 1)[n]]
  <2>1. n + 1 \in Nat /\ n + 1 \in 0..(n + 1) /\ n + 1 # 0 /\ (n + 1) - 1 = n
    OBVIOUS
  <2>2. QED
    BY <1>1, <2>1 DEF Rounds
<1>4. F(n + 1)[n] = F(n)[n]
  <2>1. n + 1 \in Nat /\ n \in 0..(n + 1)
    OBVIOUS
  <2>2. QED
    BY <1>1, <2>1, RoundsAgree
<1>5. QED
  BY <1>1, <1>2, <1>3, <1>4

(* What a prefix of a sequence holds. *)
LEMMA Prefix ==
  ASSUME NEW T, NEW s \in Seq(T), NEW n \in 0..Len(s)
  PROVE  /\ SubSeq(s, 1, n) \in Seq(T) /\ Len(SubSeq(s, 1, n)) = n
         /\ \A i \in 1..n : SubSeq(s, 1, n)[i] = s[i]
<1>1. \A i \in 1..n : s[i] \in T
  OBVIOUS
<1>2. QED
  BY <1>1, SubSeqProperties

(* A sequence is its front and its last element. *)
LEMMA FrontLast ==
  ASSUME NEW T, NEW s \in Seq(T), s # <<>>
  PROVE  /\ Ways!Front(s) \in Seq(T) /\ Len(Ways!Front(s)) = Len(s) - 1
         /\ \A i \in 1..(Len(s) - 1) : Ways!Front(s)[i] = s[i]
         /\ Ways!Last(s) = s[Len(s)] /\ Ways!Last(s) \in T /\ Len(s) \in Nat \ {0}
         /\ s = Append(Ways!Front(s), Ways!Last(s))
<1>1. Len(s) \in Nat \ {0} /\ Ways!Last(s) = s[Len(s)] /\ Ways!Last(s) \in T
  BY EmptySeq DEF Ways!Last
<1>3. /\ Ways!Front(s) \in Seq(T) /\ Len(Ways!Front(s)) = Len(s) - 1
      /\ \A i \in 1..(Len(s) - 1) : Ways!Front(s)[i] = s[i]
  BY <1>1, Len(s) - 1 \in 0..Len(s), Prefix DEF Ways!Front
<1>4. s = Append(Ways!Front(s), Ways!Last(s))
  <2> DEFINE a == Append(Ways!Front(s), Ways!Last(s))
  <2>1. a \in Seq(T) /\ Len(a) = Len(s) /\ \A i \in 1..Len(s) : s[i] = a[i]
    BY <1>1, <1>3, AppendProperties
  <2> HIDE DEF a
  <2>2. s = a
    BY <2>1, SeqEqual
  <2>3. QED
    BY <2>2 DEF a
<1>5. QED
  BY <1>1, <1>3, <1>4

(* A piece of a path. *)
Piece == {n \in Str : n # <<>> /\ \A j \in 1..Len(n) : n[j] # "/"}

(* The pieces of the first i characters. *)
PiecesTo(s, i) == Ways!Loop(i, <<>>, Ways!Read(s))

ReadStep(s, i, pieces) ==
    IF s[i] = "/" THEN pieces
    ELSE IF i = 1 \/ s[i - 1] = "/" THEN Append(pieces, <<s[i]>>)
    ELSE Append(Ways!Front(pieces), Append(Ways!Last(pieces), s[i]))

Open(s, i) == i # 0 /\ s[i] # "/"

LEMMA ReadsOne ==
  ASSUME NEW s \in Str, NEW i \in 1..Len(s), NEW pieces \in Seq(Piece), Open(s, i - 1) => pieces # <<>>
  PROVE  ReadStep(s, i, pieces) \in Seq(Piece) /\ (Open(s, i) => ReadStep(s, i, pieces) # <<>>)
<1>1. s[i] \in Chr /\ Len(s) \in Nat /\ i \in Nat
  BY DEF Str, Chr, Ways!String
<1>2. CASE s[i] = "/"
  BY <1>2 DEF ReadStep, Open
<1>3. CASE s[i] # "/" /\ (i = 1 \/ s[i - 1] = "/")
  <2>1. <<s[i]>> \in Piece
    BY <1>1, <1>3 DEF Piece, Str, Chr, Ways!String
  <2>2. Append(pieces, <<s[i]>>) \in Seq(Piece) /\ Append(pieces, <<s[i]>>) # <<>>
    BY <2>1, AppendProperties
  <2>3. QED
    BY <1>3, <2>2 DEF ReadStep
<1>4. CASE s[i] # "/" /\ ~(i = 1 \/ s[i - 1] = "/")
  <2>1. pieces # <<>>
    BY <1>1, <1>4 DEF Open
  <2>2. Ways!Front(pieces) \in Seq(Piece) /\ Ways!Last(pieces) \in Piece
    BY <2>1, FrontLast
  <2>3. Append(Ways!Last(pieces), s[i]) \in Piece
    <3> DEFINE n == Ways!Last(pieces)
               m == Append(n, s[i])
    <3>1. n \in Seq(Chr) /\ \A j \in 1..Len(n) : n[j] # "/"
      BY <2>2 DEF Piece, Str, Chr, Ways!String
    <3> HIDE DEF n
    <3>2. m \in Seq(Chr) /\ m # <<>> /\ Len(m) = Len(n) + 1 /\ Len(n) \in Nat
          /\ m[Len(n) + 1] = s[i] /\ \A j \in 1..Len(n) : m[j] = n[j]
      BY <1>1, <3>1, AppendProperties
    <3> HIDE DEF m
    <3>3. \A j \in 1..Len(m) : m[j] # "/"
      BY <1>4, <3>1, <3>2
    <3>4. m \in Piece
      BY <3>2, <3>3 DEF Piece, Str, Chr, Ways!String
    <3>5. QED
      BY <3>4 DEF m, n
  <2>4. /\ Append(Ways!Front(pieces), Append(Ways!Last(pieces), s[i])) \in Seq(Piece)
        /\ Append(Ways!Front(pieces), Append(Ways!Last(pieces), s[i])) # <<>>
    BY <2>2, <2>3, AppendProperties
  <2>5. QED
    BY <1>4, <2>4 DEF ReadStep
<1>5. QED
  BY <1>2, <1>3, <1>4

(* split reads one character after the other. *)
LEMMA PiecesStep ==
  ASSUME NEW s \in Str
  PROVE  /\ PiecesTo(s, 0) = <<>> /\ Ways!split(s) = PiecesTo(s, Len(s)) /\ Len(s) \in Nat
         /\ \A i \in 0..Len(s) : PiecesTo(s, i) \in Seq(Piece) /\ (Open(s, i) => PiecesTo(s, i) # <<>>)
         /\ \A i \in 1..Len(s) : PiecesTo(s, i) = ReadStep(s, i, PiecesTo(s, i - 1))
<1> DEFINE S == {i \in 0..Len(s) : PiecesTo(s, i) \in Seq(Piece) /\ (Open(s, i) => PiecesTo(s, i) # <<>>)}
<1>0. Len(s) \in Nat /\ DOMAIN s = 1..Len(s) /\ Piece \subseteq Str /\ Seq(Piece) \subseteq Seq(Str)
  BY DEF Str, Chr, Ways!String, Piece
<1>1. PiecesTo(s, 0) = <<>>
  BY LoopStep DEF PiecesTo
<1>2. 0 \in S
  <2>1. <<>> \in Seq(Piece)
    BY EmptySeq
  <2>2. PiecesTo(s, 0) \in Seq(Piece)
    BY <1>1, <2>1, Zenon
  <2>3. ~Open(s, 0)
    BY DEF Open
  <2>4. 0 \in 0..Len(s)
    BY <1>0
  <2>5. QED
    BY <2>2, <2>3, <2>4
<1>3. ASSUME NEW n \in 0..(Len(s) - 1), n \in S
      PROVE  n + 1 \in S /\ PiecesTo(s, n + 1) = ReadStep(s, n + 1, PiecesTo(s, n))
  <2>1. n + 1 \in 1..Len(s) /\ (n + 1) - 1 = n /\ n \in Nat
    BY <1>0
  <2>2. PiecesTo(s, n + 1) = Ways!Read(s)[n + 1][PiecesTo(s, n)]
    BY <2>1, LoopStep DEF PiecesTo
  <2>3. PiecesTo(s, n) \in Seq(Piece) /\ (Open(s, n) => PiecesTo(s, n) # <<>>)
    BY <1>3
  <2>4. PiecesTo(s, n) \in Seq(Ways!String)
    BY <1>0, <2>3 DEF Str
  <2>5. Ways!Read(s)[n + 1][PiecesTo(s, n)] = ReadStep(s, n + 1, PiecesTo(s, n))
    BY <1>0, <2>1, <2>4 DEF Ways!Read, ReadStep
  <2>6. ReadStep(s, n + 1, PiecesTo(s, n)) \in Seq(Piece)
        /\ (Open(s, n + 1) => ReadStep(s, n + 1, PiecesTo(s, n)) # <<>>)
    BY <2>1, <2>3, ReadsOne
  <2>7. QED
    BY <2>1, <2>2, <2>5, <2>6
<1> HIDE DEF S
<1>4. 0..Len(s) \subseteq S
  BY <1>0, <1>2, <1>3, UpTo
<1>5. ASSUME NEW i \in 1..Len(s)
      PROVE  PiecesTo(s, i) = ReadStep(s, i, PiecesTo(s, i - 1))
  <2>1. i - 1 \in 0..(Len(s) - 1) /\ (i - 1) + 1 = i /\ i - 1 \in S
    BY <1>0, <1>4
  <2>2. QED
    BY <1>3, <2>1
<1>6. Ways!split(s) = PiecesTo(s, Len(s))
  BY DEF Ways!split, PiecesTo
<1>7. QED
  BY <1>0, <1>1, <1>4, <1>5, <1>6 DEF S
Regroups(A, B, C) == (A \o B) \o C = A \o (B \o C)

LEMMA Regroup ==
  ASSUME NEW T, NEW A \in Seq(T), NEW B \in Seq(T), NEW C \in Seq(T)
  PROVE  Regroups(A, B, C)
BY ConcatAssociative DEF Regroups

(* The end of a concatenation is the end of its second part. *)
LEMMA ConcatEnd ==
  ASSUME NEW T, NEW A \in Seq(T), NEW B \in Seq(T), B # <<>>
  PROVE  /\ A \o B # <<>>
         /\ Ways!Front(A \o B) = A \o Ways!Front(B)
         /\ Ways!Last(A \o B) = Ways!Last(B)
<1> DEFINE C == Ways!Front(B)
           x == Ways!Last(B)
           D == A \o C
           E == Ways!Front(A \o B)
           y == Ways!Last(A \o B)
<1>1. C \in Seq(T) /\ x \in T /\ B = Append(C, x)
  BY FrontLast
<1> HIDE DEF C, x
<1>2. D \in Seq(T) /\ A \o B = Append(D, x)
  BY <1>1, ConcatProperties
<1> HIDE DEF D
<1>3. A \o B # <<>> /\ A \o B \in Seq(T)
  BY <1>1, <1>2, AppendProperties
<1>4. E \in Seq(T) /\ y \in T /\ A \o B = Append(E, y)
  BY <1>3, FrontLast
<1> HIDE DEF E, y
<1>5. E = D /\ y = x
  <2>1. Append(E, y) = Append(D, x)
    BY <1>2, <1>4
  <2>2. D \in Seq(T) /\ E \in Seq(T) /\ x \in T /\ y \in T
    BY <1>1, <1>2, <1>4
  <2>3. QED
    BY <2>1, <2>2, AppendInjective
<1>6. QED
  BY <1>3, <1>5 DEF C, D, E, x, y

(* What has been read depends on no character that follows. *)
LEMMA PiecesSame ==
  ASSUME NEW s \in Str, NEW t \in Str, NEW n \in 0..Len(s), n <= Len(t), \A i \in 1..n : s[i] = t[i]
  PROVE  PiecesTo(s, n) = PiecesTo(t, n)
<1> DEFINE S == {i \in 0..n : PiecesTo(s, i) = PiecesTo(t, i)}
<1>0. Len(s) \in Nat /\ Len(t) \in Nat /\ n \in Nat /\ PiecesTo(s, 0) = PiecesTo(t, 0)
  BY PiecesStep
<1>1. 0 \in S
  BY <1>0
<1>2. ASSUME NEW m \in 0..(n - 1), m \in S
      PROVE  m + 1 \in S
  <2>1. m + 1 \in 1..n /\ m + 1 \in 1..Len(s) /\ m + 1 \in 1..Len(t) /\ (m + 1) - 1 = m
    BY <1>0
  <2>2. PiecesTo(s, m + 1) = ReadStep(s, m + 1, PiecesTo(s, m)) /\ PiecesTo(t, m + 1) = ReadStep(t, m + 1, PiecesTo(t, m))
    BY <2>1, PiecesStep
  <2>3. s[m + 1] = t[m + 1] /\ (m + 1 # 1 => s[m] = t[m])
    BY <1>0, <2>1
  <2>4. PiecesTo(s, m) = PiecesTo(t, m)
    BY <1>2
  <2>5. ReadStep(s, m + 1, PiecesTo(t, m)) = ReadStep(t, m + 1, PiecesTo(t, m))
    BY <2>1, <2>3 DEF ReadStep
  <2>6. QED
    BY <2>1, <2>2, <2>4, <2>5
<1> HIDE DEF S
<1>3. 0..n \subseteq S
  BY <1>0, <1>1, <1>2, UpTo
<1>4. QED
  BY <1>0, <1>3 DEF S

Closed(s) == s = <<>> \/ s[Len(s)] = "/"

(* The pieces of a path that is a directory, and of what follows it. *)
LEMMA SplitConcat ==
  ASSUME NEW s \in Str, NEW t \in Str, Closed(s)
  PROVE  Ways!split(s \o t) = Ways!split(s) \o Ways!split(t)
<1> DEFINE u == s \o t
           k == Len(s)
           A == Ways!split(s)
           S == {i \in 0..Len(t) : PiecesTo(u, k + i) = A \o PiecesTo(t, i)}
<1>0. /\ u \in Str /\ Len(u) = k + Len(t) /\ k \in Nat /\ Len(t) \in Nat
      /\ \A i \in 1..k : u[i] = s[i]
      /\ \A i \in 1..Len(t) : u[k + i] = t[i]
  <2>1. /\ u \in Seq(Chr) /\ Len(u) = k + Len(t) /\ k \in Nat /\ Len(t) \in Nat
        /\ \A i \in 1..(k + Len(t)) : u[i] = IF i <= k THEN s[i] ELSE t[i - k]
    BY ConcatProperties DEF Str, Chr, Ways!String
  <2> HIDE DEF u, k
  <2>2. \A i \in 1..k : u[i] = s[i]
    BY <2>1
  <2>3. ASSUME NEW i \in 1..Len(t) PROVE u[k + i] = t[i]
    <3>1. k + i \in 1..(k + Len(t)) /\ ~(k + i <= k) /\ (k + i) - k = i
      BY <2>1
    <3>2. QED
      BY <2>1, <3>1
  <2>4. QED
    BY <2>1, <2>2, <2>3 DEF Str, Chr, Ways!String
<1>1. A \in Seq(Piece) /\ A = PiecesTo(s, k)
  <2>1. k \in 0..k
    BY <1>0
  <2>2. QED
    BY <2>1, PiecesStep
<1>2. k # 0 => u[k] = "/"
  <2>1. k # 0 => s # <<>>
    OBVIOUS
  <2>2. QED
    BY <1>0, <2>1 DEF Closed
<1> HIDE DEF u, A
<1>3. 0 \in S
  <2>1. PiecesTo(u, k) = PiecesTo(s, k)
    <3>1. k \in 0..Len(u) /\ k <= Len(s) /\ k \in 0..Len(s)
      BY <1>0
    <3>2. QED
      BY <1>0, <3>1, PiecesSame
  <2>2. PiecesTo(t, 0) = <<>> /\ A \o <<>> = A
    BY <1>1, PiecesStep, ConcatEmptySeq
  <2>3. k + 0 = k /\ 0 \in 0..Len(t)
    BY <1>0
  <2>4. QED
    BY <1>1, <2>1, <2>2, <2>3
<1>4. ASSUME NEW i \in 0..(Len(t) - 1), i \in S
      PROVE  i + 1 \in S
  <2> DEFINE B == PiecesTo(t, i)
             j == k + i
  <2>0. i \in Nat /\ i + 1 \in 1..Len(t) /\ (i + 1) - 1 = i /\ i \in 0..Len(t) /\ j + 1 \in 1..Len(u)
        /\ (j + 1) - 1 = j /\ k + (i + 1) = j + 1
    BY <1>0
  <2>1. PiecesTo(u, j) = A \o B
    BY <1>4
  <2>2. PiecesTo(u, j + 1) = ReadStep(u, j + 1, A \o B)
    BY <1>0, <2>0, <2>1, PiecesStep
  <2>3. PiecesTo(t, i + 1) = ReadStep(t, i + 1, B) /\ B \in Seq(Piece) /\ (Open(t, i) => B # <<>>)
    BY <2>0, PiecesStep
  <2>4. u[j + 1] = t[i + 1] /\ t[i + 1] \in Chr
    <3>1. u[k + (i + 1)] = t[i + 1]
      BY <1>0, <2>0
    <3>2. QED
      BY <2>0, <3>1 DEF Str, Chr, Ways!String
  <2>5. (j + 1 = 1 \/ u[j] = "/") <=> (i + 1 = 1 \/ t[i] = "/")
    <3>1. CASE i = 0
      BY <1>0, <1>2, <3>1
    <3>2. CASE i # 0
      <4>1. i \in 1..Len(t) /\ j + 1 # 1 /\ u[j] = t[i]
        BY <1>0, <2>0, <3>2
      <4>2. QED
        BY <2>0, <3>2, <4>1
    <3>3. QED
      BY <3>1, <3>2
  <2> HIDE DEF B, j
  <2>6. ReadStep(u, j + 1, A \o B) = A \o ReadStep(t, i + 1, B)
    <3>1. CASE t[i + 1] = "/"
      BY <2>4, <3>1 DEF ReadStep
    <3>2. CASE t[i + 1] # "/" /\ (i + 1 = 1 \/ t[i] = "/")
      <4>1. ReadStep(u, j + 1, A \o B) = Append(A \o B, <<t[i + 1]>>)
        BY <2>0, <2>4, <2>5, <3>2 DEF ReadStep
      <4>2. ReadStep(t, i + 1, B) = Append(B, <<t[i + 1]>>)
        BY <2>0, <3>2 DEF ReadStep
      <4>3. A \in Seq(Str) /\ B \in Seq(Str) /\ <<t[i + 1]>> \in Str
        BY <1>1, <2>3, <2>4 DEF Piece, Str, Chr, Ways!String
      <4>4. Append(A \o B, <<t[i + 1]>>) = A \o Append(B, <<t[i + 1]>>)
        <5> DEFINE e == <<t[i + 1]>>
        <5> HIDE DEF e
        <5>1. e \in Str
          BY <4>3 DEF e
        <5> DEFINE C == A \o B
                   d == <<e>>
        <5>2. C \in Seq(Str)
          BY <4>3, ConcatProperties
        <5>3. d \in Seq(Str) /\ Append(B, e) = B \o d
          BY <4>3, <5>1
        <5> HIDE DEF C
        <5>4. Append(C, e) = C \o d
          BY <5>1, <5>2
        <5> HIDE DEF d
        <5>5. (A \o B) \o d = A \o (B \o d)
          <6>1. Regroups(A, B, d)
            BY <4>3, <5>3, Regroup
          <6>2. QED
            BY <6>1 DEF Regroups
        <5>6. QED
          BY <5>3, <5>4, <5>5 DEF C, e
      <4>5. QED
        BY <4>1, <4>2, <4>4
    <3>3. CASE t[i + 1] # "/" /\ ~(i + 1 = 1 \/ t[i] = "/")
      <4> DEFINE e == Append(Ways!Last(B), t[i + 1])
      <4>1. B # <<>>
        BY <2>0, <2>3, <3>3 DEF Open
      <4>2. Ways!Last(B) \in Piece /\ Ways!Front(B) \in Seq(Piece)
        BY <2>3, <4>1, FrontLast
      <4>3. Ways!Front(A \o B) = A \o Ways!Front(B) /\ Ways!Last(A \o B) = Ways!Last(B)
        BY <1>1, <2>3, <4>1, ConcatEnd
      <4>4. e \in Str
        BY <2>4, <4>2, AppendProperties DEF Piece, Str, Chr, Ways!String
      <4>5. ReadStep(u, j + 1, A \o B) = Append(A \o Ways!Front(B), e)
        BY <2>0, <2>4, <2>5, <3>3, <4>3 DEF ReadStep
      <4>6. ReadStep(t, i + 1, B) = Append(Ways!Front(B), e)
        BY <2>0, <3>3 DEF ReadStep
      <4> HIDE DEF e
      <4>7. A \in Seq(Str) /\ Ways!Front(B) \in Seq(Str)
        BY <1>1, <4>2 DEF Piece
      <4>8. Append(A \o Ways!Front(B), e) = A \o Append(Ways!Front(B), e)
        <5> DEFINE C == Ways!Front(B)
        <5> HIDE DEF C
        <5>1. C \in Seq(Str)
          BY <4>7 DEF C
        <5> DEFINE E == A \o C
                   d == <<e>>
        <5>2. E \in Seq(Str)
          BY <4>7, <5>1, ConcatProperties
        <5>3. d \in Seq(Str) /\ Append(C, e) = C \o d
          BY <4>4, <5>1
        <5> HIDE DEF E
        <5>4. Append(E, e) = E \o d
          BY <4>4, <5>2
        <5> HIDE DEF d
        <5>5. (A \o C) \o d = A \o (C \o d)
          <6>1. Regroups(A, C, d)
            BY <4>7, <5>1, <5>3, Regroup
          <6>2. QED
            BY <6>1 DEF Regroups
        <5>6. QED
          BY <5>3, <5>4, <5>5 DEF C, E
      <4>9. QED
        BY <4>5, <4>6, <4>8
    <3>4. QED
      BY <3>1, <3>2, <3>3
  <2>7. PiecesTo(u, k + (i + 1)) = A \o PiecesTo(t, i + 1) /\ i + 1 \in 0..Len(t)
    BY <2>0, <2>2, <2>3, <2>6
  <2>8. QED
    BY <2>7
<1> HIDE DEF S, k
<1>5. 0..Len(t) \subseteq S
  <2> DEFINE n == Len(t)
  <2>1. n \in Nat /\ 0 \in S /\ \A i \in 0..(n - 1) : i \in S => i + 1 \in S
    BY <1>0, <1>3, <1>4
  <2> HIDE DEF n
  <2>2. 0..n \subseteq S
    BY <2>1, UpTo
  <2>3. QED
    BY <2>2 DEF n
<1>6. PiecesTo(u, k + Len(t)) = A \o PiecesTo(t, Len(t))
  <2>1. Len(t) \in 0..Len(t)
    BY <1>0
  <2>2. Len(t) \in S
    BY <1>5, <2>1
  <2>3. QED
    BY <2>2 DEF S
<1>7. Ways!split(u) = PiecesTo(u, Len(u)) /\ Ways!split(t) = PiecesTo(t, Len(t))
  BY <1>0, PiecesStep
<1>8. QED
  BY <1>0, <1>6, <1>7 DEF u, A

LEMMA AppendTo ==
  ASSUME NEW s \in Str, NEW c \in Chr
  PROVE  /\ Append(s, c) \in Str /\ Append(s, c) # <<>> /\ Len(Append(s, c)) = Len(s) + 1
         /\ Append(s, c)[Len(s) + 1] = c /\ \A i \in 1..Len(s) : Append(s, c)[i] = s[i]
         /\ Append(s, c) = s \o <<c>>
<1>1. s \in Seq(Chr)
  BY DEF Str, Chr, Ways!String
<1>2. /\ Append(s, c) \in Seq(Chr) /\ Append(s, c) # <<>> /\ Len(Append(s, c)) = Len(s) + 1
      /\ Append(s, c)[Len(s) + 1] = c /\ \A i \in 1..Len(s) : Append(s, c)[i] = s[i]
  BY <1>1, AppendProperties
<1>3. Append(s, c) = s \o <<c>>
  BY <1>1
<1>4. QED
  BY <1>2, <1>3 DEF Str, Chr, Ways!String

(* A piece with a slash behind it is that piece. *)
LEMMA SplitPiece ==
  ASSUME NEW n \in Piece
  PROVE  Ways!split(n \o <<"/">>) = <<n>>
<1> DEFINE u == n \o <<"/">>
           S == {i \in 0..Len(n) : i # 0 => PiecesTo(u, i) = <<SubSeq(n, 1, i)>>}
<1>0. /\ u \in Str /\ Len(u) = Len(n) + 1 /\ Len(n) \in Nat /\ Len(n) # 0 /\ n \in Str
      /\ \A i \in 1..Len(n) : u[i] = n[i] /\ n[i] # "/" /\ n[i] \in Chr
      /\ u[Len(n) + 1] = "/"
  <2>1. n \in Seq(Chr) /\ n # <<>> /\ \A i \in 1..Len(n) : n[i] # "/"
    BY DEF Piece, Str, Chr, Ways!String
  <2>2. Len(n) \in Nat /\ Len(n) # 0
    BY <2>1, EmptySeq
  <2>3. n \in Str /\ "/" \in Chr
    BY <2>1, Letter DEF Str, Chr, Ways!String
  <2>4. /\ u \in Str /\ Len(u) = Len(n) + 1 /\ u[Len(n) + 1] = "/"
        /\ \A i \in 1..Len(n) : u[i] = n[i]
    <3> DEFINE c == "/"
    <3> HIDE DEF c
    <3>1. c \in Chr
      BY <2>3 DEF c
    <3>2. u = n \o <<c>>
      BY DEF c
    <3> HIDE DEF u
    <3>3. u = Append(n, c)
      BY <2>3, <3>1, <3>2, AppendTo
    <3>4. /\ u \in Str /\ Len(u) = Len(n) + 1 /\ u[Len(n) + 1] = c
          /\ \A i \in 1..Len(n) : u[i] = n[i]
      BY <2>3, <3>1, <3>3, AppendTo
    <3>5. QED
      BY <3>4 DEF c
  <2>5. QED
    <3>1. \A i \in 1..Len(n) : n[i] \in Chr
      BY <2>1
    <3> HIDE DEF u
    <3>2. QED
      BY <2>1, <2>2, <2>3, <2>4, <3>1
<1> HIDE DEF u
<1>1. 0 \in S
  BY <1>0
<1>2. ASSUME NEW i \in 0..(Len(n) - 1), i \in S
      PROVE  i + 1 \in S
  <2>1. i + 1 \in 1..Len(u) /\ (i + 1) - 1 = i /\ i + 1 \in 1..Len(n) /\ i + 1 \in 0..Len(n) /\ i \in Nat
    BY <1>0
  <2>2. PiecesTo(u, i + 1) = ReadStep(u, i + 1, PiecesTo(u, i))
    BY <1>0, <2>1, PiecesStep
  <2>3. u[i + 1] = n[i + 1] /\ n[i + 1] # "/" /\ n[i + 1] \in Chr
    BY <1>0, <2>1
  <2>4. /\ SubSeq(n, 1, i + 1) \in Seq(Chr) /\ Len(SubSeq(n, 1, i + 1)) = i + 1
        /\ \A j \in 1..(i + 1) : SubSeq(n, 1, i + 1)[j] = n[j]
    BY <1>0, <2>1, Prefix DEF Str, Chr, Ways!String
  <2>5. PiecesTo(u, i + 1) = <<SubSeq(n, 1, i + 1)>>
    <3>1. CASE i = 0
      <4>1. PiecesTo(u, 0) = <<>>
        BY <1>0, PiecesStep
      <4>2. ReadStep(u, i + 1, PiecesTo(u, i)) = <<<<n[1]>>>>
        <5>1. i + 1 = 1 /\ u[1] = n[1] /\ n[1] # "/"
          BY <2>3, <3>1
        <5>2. ReadStep(u, 1, <<>>) = Append(<<>>, <<u[1]>>)
          BY <5>1 DEF ReadStep
        <5>3. Append(<<>>, <<u[1]>>) = <<<<u[1]>>>>
          OBVIOUS
        <5>4. PiecesTo(u, i) = <<>>
          BY <3>1, <4>1
        <5>5. QED
          BY <5>1, <5>2, <5>3, <5>4
      <4>3. SubSeq(n, 1, i + 1) = <<n[1]>>
        <5> DEFINE r == SubSeq(n, 1, i + 1)
                   q == <<n[1]>>
        <5>1. n[1] \in Chr
          BY <2>3, <3>1
        <5>2. q \in Seq(Chr) /\ Len(q) = 1 /\ q[1] = n[1]
          BY <5>1
        <5>3. r \in Seq(Chr) /\ Len(r) = 1 /\ r[1] = n[1]
          BY <2>4, <3>1
        <5> HIDE DEF q, r
        <5>4. \A k \in 1..Len(r) : r[k] = q[k]
          BY <5>2, <5>3
        <5>5. r = q
          BY <5>2, <5>3, <5>4, SeqEqual
        <5>6. QED
          BY <5>5 DEF q, r
      <4>4. QED
        BY <2>2, <4>2, <4>3
    <3>2. CASE i # 0
      <4> DEFINE p == SubSeq(n, 1, i)
                 q == Append(p, n[i + 1])
                 r == SubSeq(n, 1, i + 1)
      <4>1. i \in 1..Len(n) /\ i \in 0..Len(n) /\ i + 1 # 1
        BY <1>0, <2>1, <3>2
      <4>2. /\ p \in Seq(Chr) /\ Len(p) = i /\ \A j \in 1..i : p[j] = n[j]
        BY <1>0, <4>1, Prefix DEF Str, Chr, Ways!String
      <4>3. PiecesTo(u, i) = <<p>> /\ u[i] # "/"
        BY <1>0, <1>2, <3>2, <4>1
      <4> HIDE DEF p
      <4>4. Ways!Front(<<p>>) = <<>> /\ Ways!Last(<<p>>) = p
        BY DEF Ways!Front, Ways!Last
      <4>5. q \in Seq(Chr) /\ Len(q) = i + 1 /\ q[i + 1] = n[i + 1] /\ \A j \in 1..i : q[j] = p[j]
        BY <2>3, <4>2, AppendProperties
      <4>6. ReadStep(u, i + 1, PiecesTo(u, i)) = Append(<<>>, q)
        BY <2>1, <2>3, <4>1, <4>3, <4>4 DEF ReadStep
      <4> HIDE DEF q
      <4>7. r \in Seq(Chr) /\ Len(r) = i + 1 /\ \A j \in 1..(i + 1) : r[j] = n[j]
        BY <2>4
      <4>8. ASSUME NEW j \in 1..(i + 1) PROVE r[j] = q[j]
        <5>1. CASE j = i + 1
          BY <4>5, <4>7, <5>1
        <5>2. CASE j # i + 1
          <6>1. j \in 1..i
            BY <2>1, <5>2
          <6>2. p[j] = n[j] /\ q[j] = p[j] /\ r[j] = n[j]
            BY <4>2, <4>5, <4>7, <6>1
          <6>3. QED
            BY <6>2
        <5>3. QED
          BY <5>1, <5>2
      <4> HIDE DEF r
      <4>9. q = r
        <5>1. \A j \in 1..Len(r) : r[j] = q[j]
          BY <4>7, <4>8
        <5>2. QED
          BY <4>5, <4>7, <5>1, SeqEqual
      <4>10. Append(<<>>, q) = <<q>>
        OBVIOUS
      <4>11. QED
        BY <2>2, <4>6, <4>9, <4>10 DEF r
    <3>3. QED
      BY <3>1, <3>2
  <2>6. QED
    BY <2>1, <2>5
<1> HIDE DEF S
<1>3. Len(n) \in S
  <2>1. 0..Len(n) \subseteq S
    BY <1>0, <1>1, <1>2, UpTo
  <2>2. QED
    BY <1>0, <2>1
<1>4. PiecesTo(u, Len(n)) = <<n>>
  <2>1. SubSeq(n, 1, Len(n)) = n
    <3>1. /\ SubSeq(n, 1, Len(n)) \in Seq(Chr) /\ Len(SubSeq(n, 1, Len(n))) = Len(n)
          /\ \A j \in 1..Len(n) : SubSeq(n, 1, Len(n))[j] = n[j]
      BY <1>0, Len(n) \in 0..Len(n), Prefix DEF Str, Chr, Ways!String
    <3>2. n \in Seq(Chr) /\ \A j \in 1..Len(n) : n[j] = SubSeq(n, 1, Len(n))[j]
      BY <1>0, <3>1 DEF Str, Chr, Ways!String
    <3>3. n = SubSeq(n, 1, Len(n))
      BY <3>1, <3>2, SeqEqual
    <3>4. QED
      BY <3>3
  <2>2. QED
    BY <1>0, <1>3, <2>1 DEF S
<1>5. PiecesTo(u, Len(n) + 1) = <<n>>
  <2>1. Len(n) + 1 \in 1..Len(u) /\ (Len(n) + 1) - 1 = Len(n)
    BY <1>0
  <2>2. PiecesTo(u, Len(n) + 1) = ReadStep(u, Len(n) + 1, PiecesTo(u, Len(n)))
    BY <1>0, <2>1, PiecesStep
  <2>3. QED
    BY <1>0, <1>4, <2>2 DEF ReadStep
<1>6. QED
  BY <1>0, <1>5, PiecesStep DEF u

LEMMA SplitAppend ==
  ASSUME NEW s \in Str, NEW n \in Piece, Closed(s)
  PROVE  /\ Ways!split((s \o n) \o <<"/">>) = Append(Ways!split(s), n)
         /\ (s \o n) \o <<"/">> = s \o (n \o <<"/">>)
<1>1. s \in Seq(Chr) /\ n \in Seq(Chr) /\ <<"/">> \in Seq(Chr)
  <2>1. n \in Str /\ "/" \in Chr
    BY Letter DEF Piece, Chr
  <2>2. QED
    BY <2>1 DEF Str, Chr, Ways!String
<1>2. (s \o n) \o <<"/">> = s \o (n \o <<"/">>) /\ n \o <<"/">> \in Str
  <2> DEFINE c == <<"/">>
  <2>1. c \in Seq(Chr)
    BY <1>1
  <2> HIDE DEF c
  <2>2. Regroups(s, n, c)
    BY <1>1, <2>1, Regroup
  <2>3. n \o c \in Seq(Chr)
    BY <1>1, <2>1, ConcatProperties
  <2>4. QED
    BY <2>2, <2>3 DEF Regroups, c, Str, Chr, Ways!String
<1>3. Ways!split(s \o (n \o <<"/">>)) = Ways!split(s) \o Ways!split(n \o <<"/">>)
  BY <1>2, SplitConcat
<1>4. Ways!split(s) \in Seq(Piece)
  <2>1. Len(s) \in 0..Len(s) /\ Ways!split(s) = PiecesTo(s, Len(s))
    BY PiecesStep
  <2>2. QED
    BY <2>1, PiecesStep
<1> DEFINE A == Ways!split(s)
<1> HIDE DEF A
<1>5. A \o <<n>> = Append(A, n)
  BY <1>4 DEF A
<1>6. QED
  BY <1>2, <1>3, <1>5, SplitPiece DEF A

(* A slash at the end, put there or taken away, changes no piece. *)
LEMMA SplitEnd ==
  ASSUME NEW s \in Str
  PROVE  /\ Ways!split(Ways!Pushed(s)) = Ways!split(s) /\ Ways!split(Ways!Popped(s)) = Ways!split(s)
         /\ Ways!Pushed(s) \in Str /\ Ways!Popped(s) \in Str
         /\ Closed(Ways!Pushed(s)) /\ Ways!Pushed(s) # <<>>
<1>1. ASSUME NEW t \in Str
      PROVE  LET u == Append(t, "/")
             IN  u \in Str /\ Ways!split(u) = Ways!split(t) /\ Closed(u) /\ u # <<>>
  <2> DEFINE u == Append(t, "/")
  <2>1. /\ u \in Str /\ Len(u) = Len(t) + 1 /\ Len(t) \in Nat /\ u[Len(u)] = "/" /\ u # <<>>
        /\ \A i \in 1..Len(t) : t[i] = u[i]
    <3>1. "/" \in Chr /\ Len(t) \in Nat
      BY PiecesStep, Letter DEF Chr
    <3> DEFINE c == "/"
    <3> HIDE DEF c
    <3>2. c \in Chr
      BY <3>1 DEF c
    <3>3. /\ Append(t, c) \in Str /\ Append(t, c) # <<>> /\ Len(Append(t, c)) = Len(t) + 1
          /\ Append(t, c)[Len(t) + 1] = c /\ \A i \in 1..Len(t) : Append(t, c)[i] = t[i]
      BY <3>2, AppendTo
    <3>4. QED
      BY <3>1, <3>3 DEF c
  <2> HIDE DEF u
  <2>2. PiecesTo(t, Len(t)) = PiecesTo(u, Len(t))
    BY <2>1, Len(t) \in 0..Len(t), PiecesSame
  <2>3. Len(u) \in 1..Len(u) /\ Len(u) - 1 = Len(t)
    BY <2>1
  <2>4. PiecesTo(u, Len(u)) = ReadStep(u, Len(u), PiecesTo(u, Len(t)))
    BY <2>1, <2>3, PiecesStep
  <2>5. PiecesTo(u, Len(u)) = PiecesTo(t, Len(t))
    BY <2>1, <2>2, <2>4 DEF ReadStep
  <2>6. Ways!split(u) = Ways!split(t)
    BY <2>1, <2>5, PiecesStep
  <2>7. QED
    BY <2>1, <2>6 DEF Closed, u
<1>2. CASE Ways!EndsIn(s, "/")
  <2> DEFINE t == Ways!Front(s)
  <2>1. s # <<>> /\ Ways!Last(s) = "/"
    BY <1>2 DEF Ways!EndsIn
  <2>2. t \in Str /\ s = Append(t, "/") /\ Ways!Last(s) = s[Len(s)]
    BY <2>1, FrontLast DEF Str, Chr, Ways!String
  <2>3. Ways!Pushed(s) = s /\ Ways!Popped(s) = t
    BY <1>2 DEF Ways!Pushed, Ways!Popped
  <2> HIDE DEF t
  <2>4. Ways!split(s) = Ways!split(t)
    BY <1>1, <2>2
  <2>5. QED
    BY <2>1, <2>2, <2>3, <2>4 DEF Closed
<1>3. CASE ~Ways!EndsIn(s, "/")
  <2>1. Ways!Pushed(s) = s \o <<"/">> /\ Ways!Popped(s) = s
    BY <1>3 DEF Ways!Pushed, Ways!Popped
  <2>2. s \o <<"/">> = Append(s, "/")
    BY DEF Str, Chr, Ways!String
  <2>3. QED
    BY <1>1, <2>1, <2>2
<1>4. QED
  BY <1>2, <1>3

Slash == <<"/">>

(* Where a concatenation has what. *)
LEMMA Joined ==
  ASSUME NEW s \in Str, NEW t \in Str
  PROVE  /\ s \o t \in Str /\ Len(s \o t) = Len(s) + Len(t) /\ Len(s) \in Nat /\ Len(t) \in Nat
         /\ \A i \in 1..Len(s) : (s \o t)[i] = s[i]
         /\ \A i \in 1..Len(t) : (s \o t)[Len(s) + i] = t[i]
         /\ SubSeq(s \o t, 1, Len(s)) = s
<1> DEFINE u == s \o t
<1>1. /\ u \in Seq(Chr) /\ Len(u) = Len(s) + Len(t) /\ Len(s) \in Nat /\ Len(t) \in Nat
      /\ \A i \in 1..(Len(s) + Len(t)) : u[i] = IF i <= Len(s) THEN s[i] ELSE t[i - Len(s)]
  BY ConcatProperties DEF Str, Chr, Ways!String
<1> HIDE DEF u
<1>2. \A i \in 1..Len(s) : u[i] = s[i]
  BY <1>1
<1>3. ASSUME NEW i \in 1..Len(t) PROVE u[Len(s) + i] = t[i]
  <2>1. Len(s) + i \in 1..(Len(s) + Len(t)) /\ ~(Len(s) + i <= Len(s)) /\ (Len(s) + i) - Len(s) = i
    BY <1>1
  <2>2. QED
    BY <1>1, <2>1
<1>4. SubSeq(u, 1, Len(s)) = s
  <2>1. /\ SubSeq(u, 1, Len(s)) \in Seq(Chr) /\ Len(SubSeq(u, 1, Len(s))) = Len(s)
        /\ \A i \in 1..Len(s) : SubSeq(u, 1, Len(s))[i] = u[i]
    BY <1>1, Len(s) \in 0..Len(u), Prefix
  <2> DEFINE r == SubSeq(u, 1, Len(s))
  <2>2. r \in Seq(Chr) /\ s \in Seq(Chr) /\ Len(r) = Len(s) /\ \A i \in 1..Len(r) : r[i] = s[i]
    BY <1>2, <2>1 DEF Str, Chr, Ways!String
  <2> HIDE DEF r
  <2>3. r = s
    BY <2>2, SeqEqual
  <2>4. QED
    BY <2>3 DEF r
<1>5. QED
  BY <1>1, <1>2, <1>3, <1>4 DEF u, Str, Chr, Ways!String

LEMMA SlashIs == Slash \in Str /\ Len(Slash) = 1 /\ Slash[1] = "/"
<1>1. <<"/">> \in Seq(Chr)
  <2> DEFINE c == "/"
  <2>1. c \in Chr
    BY Letter DEF Chr
  <2> HIDE DEF c
  <2>2. <<c>> \in Seq(Chr)
    BY <2>1
  <2>3. QED
    BY <2>2 DEF c
<1>2. QED
  BY <1>1 DEF Slash, Str, Chr, Ways!String

LEMMA SlashAfter ==
  ASSUME NEW s \in Str
  PROVE  /\ s \o Slash \in Str /\ Len(s \o Slash) = Len(s) + 1 /\ Len(s) \in Nat
         /\ \A i \in 1..Len(s) : (s \o Slash)[i] = s[i]
         /\ (s \o Slash)[Len(s) + 1] = "/"
         /\ SubSeq(s \o Slash, 1, Len(s)) = s
<1> DEFINE c == Slash
<1>1. c \in Str /\ Len(c) = 1 /\ c[1] = "/" /\ 1 \in 1..Len(c)
  BY SlashIs
<1> HIDE DEF c
<1>2. /\ s \o c \in Str /\ Len(s \o c) = Len(s) + Len(c) /\ Len(s) \in Nat
      /\ \A i \in 1..Len(s) : (s \o c)[i] = s[i]
      /\ \A i \in 1..Len(c) : (s \o c)[Len(s) + i] = c[i]
      /\ SubSeq(s \o c, 1, Len(s)) = s
  BY <1>1, Joined
<1>3. (s \o c)[Len(s) + 1] = "/"
  BY <1>1, <1>2
<1>4. QED
  BY <1>1, <1>2, <1>3 DEF c

LEMMA PieceIs ==
  ASSUME NEW n \in Piece
  PROVE  n \in Str /\ Len(n) \in Nat \ {0} /\ \A i \in 1..Len(n) : n[i] # "/"
<1>1. n \in Seq(Chr) /\ n # <<>> /\ \A i \in 1..Len(n) : n[i] # "/"
  BY DEF Piece, Str, Chr, Ways!String
<1>2. Len(n) \in Nat \ {0}
  BY <1>1, EmptySeq
<1>3. QED
  BY <1>1, <1>2 DEF Str, Chr, Ways!String

LEMMA PoppedSlash ==
  ASSUME NEW s \in Str
  PROVE  Ways!Popped(s \o Slash) = s
<1> DEFINE u == s \o Slash
<1>1. u \in Str /\ Len(u) = Len(s) + 1 /\ u[Len(s) + 1] = "/" /\ SubSeq(u, 1, Len(s)) = s /\ Len(s) \in Nat
  BY SlashAfter
<1> HIDE DEF u
<1>2. u # <<>>
  BY <1>1
<1>3. Ways!Last(u) = "/" /\ Ways!Front(u) = s
  <2>1. Len(u) - 1 = Len(s)
    BY <1>1
  <2>2. QED
    BY <1>1, <2>1 DEF Ways!Last, Ways!Front
<1>4. Ways!Popped(u) = s
  BY <1>2, <1>3 DEF Ways!Popped, Ways!EndsIn
<1>5. QED
  BY <1>4 DEF u

(* parentDir takes the last name off. *)
LEMMA ParentIs ==
  ASSUME NEW s \in Str, NEW n \in Piece, Closed(s), s # <<>>
  PROVE  Ways!parentDir((s \o n) \o Slash) = s
<1> DEFINE u == s \o n
           D == {i \in DOMAIN u : u[i] = "/"}
           k == CHOOSE i \in D : \A j \in D : j <= i
<1>1. /\ u \in Str /\ Len(u) = Len(s) + Len(n) /\ Len(s) \in Nat /\ Len(n) \in Nat \ {0}
      /\ \A i \in 1..Len(s) : u[i] = s[i]
      /\ \A i \in 1..Len(n) : u[Len(s) + i] # "/"
      /\ SubSeq(u, 1, Len(s)) = s
  BY Joined, PieceIs
<1>2. Len(s) # 0 /\ s[Len(s)] = "/"
  <2>1. s \in Seq(Chr)
    BY DEF Str, Chr, Ways!String
  <2>2. Len(s) # 0
    BY <2>1, EmptySeq
  <2>3. QED
    BY <2>2 DEF Closed
<1>3. DOMAIN u = 1..Len(u)
  BY <1>1 DEF Str, Ways!String
<1> HIDE DEF u
<1>4. Len(s) \in D
  BY <1>1, <1>2, <1>3
<1>5. ASSUME NEW j \in D PROVE j <= Len(s)
  <2> SUFFICES ASSUME ~(j <= Len(s)) PROVE FALSE
    OBVIOUS
  <2>1. j \in 1..Len(u) /\ u[j] = "/"
    BY <1>3
  <2>2. j - Len(s) \in 1..Len(n) /\ Len(s) + (j - Len(s)) = j
    BY <1>1, <2>1
  <2>3. QED
    BY <1>1, <2>1, <2>2
<1>6. D \subseteq Int
  BY <1>3
<1> HIDE DEF D
<1>7. k = Len(s)
  <2>1. k \in D /\ \A j \in D : j <= k
    BY <1>4, <1>5
  <2> HIDE DEF k
  <2>2. k <= Len(s) /\ Len(s) <= k /\ k \in Int /\ Len(s) \in Int
    BY <1>4, <1>5, <1>6, <2>1
  <2>3. QED
    BY <2>2
<1>8. Ways!Popped(u \o Slash) = u
  BY <1>1, PoppedSlash
<1>9. Ways!parentDir(u \o Slash) = SubSeq(u, 1, k)
  <2>1. D # {}
    BY <1>4
  <2>2. Ways!parentDir(u \o Slash) = IF D = {} THEN u ELSE SubSeq(u, 1, k)
    BY <1>8 DEF Ways!parentDir, D
  <2>3. QED
    BY <2>1, <2>2
<1> HIDE DEF k
<1>10. Ways!parentDir(u \o Slash) = s
  BY <1>1, <1>7, <1>9
<1>11. QED
  BY <1>10 DEF u

Single(t) == \A i \in 2..Len(t) : ~(t[i - 1] = "/" /\ t[i] = "/")
Clean(t) == t \in Str /\ Closed(t) /\ Single(t) /\ (t # <<>> => t[1] # "/")

(* A way into a directory ends with the name of one. *)
LEMMA Decompose ==
  ASSUME NEW t, Clean(t), t # <<>>
  PROVE  \E u, n : Clean(u) /\ n \in Piece /\ t = (u \o n) \o Slash
<1> DEFINE L == Len(t)
           D == {i \in 0..(L - 1) : i = 0 \/ t[i] = "/"}
<1>0. /\ t \in Seq(Chr) /\ L \in Nat \ {0} /\ t[L] = "/" /\ t[1] # "/" /\ Single(t)
  <2>1. t \in Seq(Chr) /\ Single(t) /\ t[1] # "/" /\ t[L] = "/"
    BY DEF Clean, Closed, Str, Chr, Ways!String
  <2>2. QED
    BY <2>1, EmptySeq
<1> HIDE DEF L
<1>1. PICK k \in D : \A j \in D : k >= j
  <2>1. D \in SUBSET Nat /\ 0 \in D /\ \A j \in D : j <= L - 1
    BY <1>0
  <2>2. L - 1 \in Nat
    BY <1>0
  <2> HIDE DEF D
  <2>3. QED
    BY <2>1, <2>2, GreatestOf
<1>2. k \in 0..(L - 1) /\ (k = 0 \/ t[k] = "/") /\ k \in Nat
  BY <1>0, <1>1
<1>3. \A i \in (k + 1)..(L - 1) : t[i] # "/"
  <2> SUFFICES ASSUME NEW i \in (k + 1)..(L - 1), t[i] = "/" PROVE FALSE
    OBVIOUS
  <2>1. i \in D
    BY <1>0, <1>2
  <2>2. k >= i
    BY <1>1, <2>1
  <2>3. QED
    BY <1>2, <2>2
<1> HIDE DEF D
<1>4. k < L - 1
  <2> SUFFICES ASSUME k = L - 1 PROVE FALSE
    BY <1>0, <1>2
  <2>1. L # 1
    BY <1>0
  <2>2. L \in 2..Len(t) /\ L - 1 = k
    BY <1>0, <2>1 DEF L
  <2>3. t[L - 1] = "/"
    BY <1>0, <1>2, <2>1
  <2>4. QED
    BY <1>0, <2>2, <2>3 DEF Single
<1> DEFINE u == SubSeq(t, 1, k)
           n == SubSeq(t, k + 1, L - 1)
<1>5. u \in Seq(Chr) /\ Len(u) = k /\ \A i \in 1..k : u[i] = t[i]
  BY <1>0, <1>2, k \in 0..Len(t), Prefix DEF L
<1>6. n \in Seq(Chr) /\ Len(n) = (L - 1) - k /\ \A i \in 1..((L - 1) - k) : n[i] = t[k + i]
  <2>1. k + 1 \in Int /\ L - 1 \in Int /\ \A i \in (k + 1)..(L - 1) : t[i] \in Chr
    <3>1. \A i \in (k + 1)..(L - 1) : i \in 1..Len(t)
      BY <1>0, <1>2 DEF L
    <3>2. QED
      BY <1>0, <1>2, <3>1
  <2> DEFINE m == k + 1
             e == L - 1
  <2>2. /\ SubSeq(t, m, e) \in Seq(Chr) /\ Len(SubSeq(t, m, e)) = (IF m <= e THEN e - m + 1 ELSE 0)
        /\ \A i \in 1..(e - m + 1) : SubSeq(t, m, e)[i] = t[m + i - 1]
    <3> HIDE DEF m, e
    <3>1. m \in Int /\ e \in Int /\ \A i \in m..e : t[i] \in Chr
      BY <2>1 DEF m, e
    <3>2. QED
      BY <3>1, SubSeqProperties
  <2>3. m <= e /\ e - m + 1 = (L - 1) - k /\ \A i \in 1..((L - 1) - k) : m + i - 1 = k + i
    BY <1>0, <1>2, <1>4
  <2> HIDE DEF m, e
  <2>4. SubSeq(t, m, e) \in Seq(Chr) /\ Len(SubSeq(t, m, e)) = (L - 1) - k
        /\ \A i \in 1..((L - 1) - k) : SubSeq(t, m, e)[i] = t[k + i]
    BY <2>2, <2>3
  <2>5. QED
    BY <2>4 DEF m, e
<1> HIDE DEF u, n
<1>7. n \in Piece
  <2>1. n # <<>>
    BY <1>0, <1>2, <1>4, <1>6
  <2>2. ASSUME NEW i \in 1..Len(n) PROVE n[i] # "/"
    <3>1. k + i \in (k + 1)..(L - 1) /\ n[i] = t[k + i]
      BY <1>0, <1>2, <1>6
    <3>2. QED
      BY <1>3, <3>1
  <2>3. QED
    BY <1>6, <2>1, <2>2 DEF Piece, Str, Chr, Ways!String
<1>8. Clean(u)
  <2>1. u # <<>> => k # 0
    BY <1>5
  <2>2. Closed(u)
    <3>1. CASE k = 0
      BY <2>1, <3>1 DEF Closed
    <3>2. CASE k # 0
      BY <1>2, <1>5, <3>2 DEF Closed
    <3>3. QED
      BY <3>1, <3>2
  <2>3. Single(u)
    <3> SUFFICES ASSUME NEW i \in 2..k PROVE ~(u[i - 1] = "/" /\ u[i] = "/")
      BY <1>5 DEF Single
    <3>1. i - 1 \in 1..k /\ i \in 1..k /\ i \in 2..Len(t)
      BY <1>0, <1>2 DEF L
    <3>2. QED
      BY <1>0, <1>5, <3>1 DEF Single
  <2>4. u # <<>> => u[1] # "/"
    BY <1>0, <1>2, <1>5, <2>1
  <2>5. QED
    BY <1>5, <2>2, <2>3, <2>4 DEF Clean, Str, Chr, Ways!String
<1>9. t = (u \o n) \o Slash
  <2> DEFINE v == u \o n
             w == v \o Slash
  <2>1. u \in Str /\ n \in Str
    BY <1>5, <1>6 DEF Str, Chr, Ways!String
  <2>2. /\ v \in Str /\ Len(v) = L - 1 /\ \A i \in 1..k : v[i] = t[i]
        /\ \A i \in 1..((L - 1) - k) : v[k + i] = t[k + i]
    <3>1. /\ v \in Str /\ Len(v) = Len(u) + Len(n) /\ \A i \in 1..Len(u) : v[i] = u[i]
          /\ \A i \in 1..Len(n) : v[Len(u) + i] = n[i]
      BY <2>1, Joined
    <3> HIDE DEF v
    <3>2. Len(u) + Len(n) = L - 1
      BY <1>0, <1>2, <1>5, <1>6
    <3>3. QED
      BY <1>5, <1>6, <3>1, <3>2
  <2> HIDE DEF v
  <2>3. ASSUME NEW i \in 1..(L - 1) PROVE v[i] = t[i]
    <3>1. CASE i <= k
      BY <1>2, <2>2, <3>1
    <3>2. CASE ~(i <= k)
      <4>1. i - k \in 1..((L - 1) - k) /\ k + (i - k) = i
        BY <1>0, <1>2, <3>2
      <4>2. QED
        BY <2>2, <4>1
    <3>3. QED
      BY <3>1, <3>2
  <2>4. w \in Str /\ Len(w) = L /\ w[L] = "/" /\ \A i \in 1..(L - 1) : w[i] = t[i]
    <3>1. /\ w \in Str /\ Len(w) = Len(v) + 1 /\ \A i \in 1..Len(v) : w[i] = v[i]
          /\ w[Len(v) + 1] = "/"
      BY <2>2, SlashAfter
    <3> HIDE DEF w
    <3>2. Len(v) + 1 = L
      BY <1>0, <2>2
    <3>3. QED
      BY <2>2, <2>3, <3>1, <3>2
  <2> HIDE DEF w
  <2>5. \A i \in 1..Len(t) : t[i] = w[i]
    BY <1>0, <2>4 DEF L
  <2>6. w \in Seq(Chr) /\ Len(t) = Len(w)
    BY <2>4 DEF L, Str, Chr, Ways!String
  <2>7. t = w
    BY <1>0, <2>5, <2>6, SeqEqual
  <2>8. QED
    BY <2>7 DEF v, w
<1>10. QED
  BY <1>7, <1>8, <1>9

LEMMA SinglePrefix ==
  ASSUME NEW p \in Str, NEW k \in 0..Len(p)
  PROVE  /\ SubSeq(p, 1, k) \in Str /\ Len(SubSeq(p, 1, k)) = k
         /\ \A i \in 1..k : SubSeq(p, 1, k)[i] = p[i]
         /\ Single(p) => Single(SubSeq(p, 1, k))
<1> DEFINE q == SubSeq(p, 1, k)
<1>1. p \in Seq(Chr) /\ Len(p) \in Nat /\ k \in Nat
  BY PiecesStep DEF Str, Chr, Ways!String
<1>2. q \in Seq(Chr) /\ Len(q) = k /\ \A i \in 1..k : q[i] = p[i]
  BY <1>1, Prefix
<1> HIDE DEF q
<1>3. ASSUME Single(p), NEW i \in 2..k
      PROVE  ~(q[i - 1] = "/" /\ q[i] = "/")
  <2>1. i - 1 \in 1..k /\ i \in 1..k /\ i \in 2..Len(p)
    BY <1>1
  <2>2. QED
    BY <1>2, <1>3, <2>1 DEF Single
<1>4. QED
  BY <1>2, <1>3 DEF q, Single, Str, Chr, Ways!String

(* A piece put behind a path keeps its slashes single. *)
LEMMA SingleAppend ==
  ASSUME NEW p \in Str, NEW n \in Piece
  PROVE  /\ (p \o n) \o Slash \in Str /\ (p \o n) \o Slash # <<>>
         /\ Closed((p \o n) \o Slash)
         /\ Len((p \o n) \o Slash) > Len(p)
         /\ Single(p) => Single((p \o n) \o Slash)
         /\ ((p \o n) \o Slash)[1] = IF p = <<>> THEN n[1] ELSE p[1]
<1> DEFINE q == p \o n
           r == q \o Slash
<1>1. /\ n \in Str /\ Len(n) \in Nat \ {0} /\ \A i \in 1..Len(n) : n[i] # "/"
  BY PieceIs
<1>2. /\ q \in Str /\ Len(q) = Len(p) + Len(n) /\ Len(p) \in Nat
      /\ \A i \in 1..Len(p) : q[i] = p[i]
      /\ \A i \in 1..Len(n) : q[Len(p) + i] = n[i]
  BY <1>1, Joined
<1> HIDE DEF q
<1>3. /\ r \in Str /\ Len(r) = Len(q) + 1 /\ \A i \in 1..Len(q) : r[i] = q[i]
      /\ r[Len(q) + 1] = "/"
  BY <1>2, SlashAfter
<1> HIDE DEF r
<1>4. r # <<>> /\ Closed(r) /\ Len(r) > Len(p)
  <2>1. Len(r) # 0 /\ Len(r) > Len(p)
    BY <1>1, <1>2, <1>3
  <2>2. r # <<>>
    BY <2>1
  <2>3. QED
    BY <1>3, <2>1, <2>2 DEF Closed
<1>5. \A i \in 1..Len(n) : r[Len(p) + i] # "/"
  <2> SUFFICES ASSUME NEW i \in 1..Len(n) PROVE r[Len(p) + i] # "/"
    OBVIOUS
  <2>1. Len(p) + i \in 1..Len(q)
    BY <1>1, <1>2
  <2>2. QED
    BY <1>1, <1>2, <1>3, <2>1
<1>6. \A i \in 1..Len(p) : r[i] = p[i]
  <2> SUFFICES ASSUME NEW i \in 1..Len(p) PROVE r[i] = p[i]
    OBVIOUS
  <2>1. i \in 1..Len(q)
    BY <1>1, <1>2
  <2>2. QED
    BY <1>2, <1>3, <2>1
<1>7. ASSUME Single(p), NEW i \in 2..Len(r), r[i - 1] = "/", r[i] = "/"
      PROVE  FALSE
  <2>0. Len(r) = Len(p) + Len(n) + 1 /\ i \in Int
    BY <1>1, <1>2, <1>3
  <2>1. CASE i <= Len(p)
    <3>1. i \in 1..Len(p) /\ i - 1 \in 1..Len(p) /\ i \in 2..Len(p)
      BY <1>2, <2>0, <2>1
    <3>2. p[i - 1] = "/" /\ p[i] = "/"
      BY <1>6, <1>7, <3>1
    <3>3. QED
      BY <1>7, <3>1, <3>2 DEF Single
  <2>2. CASE i > Len(p) /\ i <= Len(p) + Len(n)
    <3>1. i - Len(p) \in 1..Len(n) /\ Len(p) + (i - Len(p)) = i
      BY <1>1, <1>2, <2>0, <2>2
    <3>2. r[i] # "/"
      BY <1>5, <3>1
    <3>3. QED
      BY <1>7, <3>2
  <2>3. CASE i > Len(p) + Len(n)
    <3>1. Len(n) \in 1..Len(n) /\ Len(p) + Len(n) = i - 1
      BY <1>1, <1>2, <2>0, <2>3
    <3>2. r[i - 1] # "/"
      BY <1>5, <3>1
    <3>3. QED
      BY <1>7, <3>2
  <2>4. QED
    BY <1>1, <1>2, <2>0, <2>1, <2>2, <2>3
<1>8. r[1] = IF p = <<>> THEN n[1] ELSE p[1]
  <2>1. CASE p = <<>>
    <3>1. Len(p) = 0 /\ 1 \in 1..Len(n) /\ 1 \in 1..Len(q) /\ Len(p) + 1 = 1
      BY <1>1, <1>2, <2>1
    <3>2. r[1] = q[1] /\ q[1] = n[1]
      BY <1>2, <1>3, <3>1
    <3>3. QED
      BY <2>1, <3>2
  <2>2. CASE p # <<>>
    <3>1. Len(p) # 0
      <4>1. p \in Seq(Chr)
        BY DEF Str, Chr, Ways!String
      <4>2. QED
        BY <2>2, <4>1, EmptySeq
    <3>2. 1 \in 1..Len(p)
      BY <1>2, <3>1
    <3>3. QED
      BY <1>6, <2>2, <3>2
  <2>3. QED
    BY <2>1, <2>2
<1>9. Single(p) => Single(r)
  BY <1>7 DEF Single
<1>10. QED
  BY <1>3, <1>4, <1>8, <1>9 DEF r, q

LEMMA CleanAppend ==
  ASSUME NEW t, Clean(t), NEW n \in Piece
  PROVE  Clean((t \o n) \o Slash)
<1>1. t \in Str /\ Single(t) /\ n[1] # "/" /\ (t # <<>> => t[1] # "/")
  <2>1. 1 \in 1..Len(n)
    BY PieceIs
  <2>2. QED
    BY <2>1, PieceIs DEF Clean
<1> DEFINE r == (t \o n) \o Slash
<1>2. r \in Str /\ Closed(r) /\ Single(r) /\ r[1] = IF t = <<>> THEN n[1] ELSE t[1]
  BY <1>1, SingleAppend
<1> HIDE DEF r
<1>3. Clean(r)
  BY <1>1, <1>2 DEF Clean
<1>4. QED
  BY <1>3 DEF r

LEMMA SinglePopped ==
  ASSUME NEW p \in Str
  PROVE  /\ Ways!Popped(p) \in Str
         /\ Single(p) => Single(Ways!Popped(p)) /\ ~Ways!EndsIn(Ways!Popped(p), "/")
<1>1. CASE ~Ways!EndsIn(p, "/")
  BY <1>1 DEF Ways!Popped
<1>2. CASE Ways!EndsIn(p, "/")
  <2> DEFINE q == Ways!Popped(p)
             k == Len(p) - 1
  <2>1. p # <<>> /\ p[Len(p)] = "/" /\ p \in Seq(Chr)
    BY <1>2 DEF Ways!EndsIn, Ways!Last, Str, Chr, Ways!String
  <2>2. Len(p) \in Nat \ {0}
    BY <2>1, EmptySeq
  <2>3. q = SubSeq(p, 1, k)
    BY <1>2 DEF Ways!Popped, Ways!Front
  <2>4. k \in 0..Len(p) /\ k \in Nat
    BY <2>2
  <2> HIDE DEF k
  <2>5. /\ q \in Str /\ Len(q) = k /\ (\A i \in 1..k : q[i] = p[i])
        /\ (Single(p) => Single(q))
    BY <2>3, <2>4, SinglePrefix
  <2> HIDE DEF q
  <2>6. ASSUME Single(p), q # <<>>, q[Len(q)] = "/"
        PROVE  FALSE
    <3>1. q \in Seq(Chr)
      BY <2>5 DEF Str, Chr, Ways!String
    <3>2. Len(q) # 0
      BY <2>6, <3>1, EmptySeq
    <3>3. k \in 1..k
      BY <2>4, <2>5, <3>2
    <3>4. p[k] = "/"
      BY <2>5, <2>6, <3>3
    <3>5. Len(p) \in 2..Len(p) /\ Len(p) - 1 = k
      BY <2>2, <2>4, <2>5, <3>2 DEF k
    <3>6. QED
      BY <2>1, <2>6, <3>4, <3>5 DEF Single
  <2>7. Single(p) => ~Ways!EndsIn(q, "/")
    BY <2>6 DEF Ways!EndsIn, Ways!Last
  <2>8. QED
    BY <2>5, <2>7 DEF q
<1>3. QED
  BY <1>1, <1>2

LEMMA SingleParent ==
  ASSUME NEW p \in Str
  PROVE  Ways!parentDir(p) \in Str /\ (Single(p) => Single(Ways!parentDir(p)))
<1> DEFINE u == Ways!Popped(p)
           D == {i \in DOMAIN u : u[i] = "/"}
           k == CHOOSE i \in D : \A j \in D : j <= i
<1>1. u \in Str /\ (Single(p) => Single(u))
  BY SinglePopped
<1>2. Ways!parentDir(p) = IF D = {} THEN u ELSE SubSeq(u, 1, k)
  BY DEF Ways!parentDir
<1> HIDE DEF u
<1>3. DOMAIN u = 1..Len(u) /\ Len(u) \in Nat
  BY <1>1 DEF Str, Ways!String
<1>4. ASSUME D # {}
      PROVE  k \in 0..Len(u)
  <2>1. D \in SUBSET Nat /\ \A j \in D : j <= Len(u)
    BY <1>3
  <2>2. D \subseteq 0..Len(u)
    BY <1>3
  <2> HIDE DEF D
  <2>3. \E i \in D : \A j \in D : i >= j
    BY <1>3, <1>4, <2>1, GreatestOf
  <2>4. PICK i \in D : \A j \in D : i >= j
    BY <2>3
  <2>5. ASSUME NEW j \in D PROVE j <= i
    BY <2>1, <2>4
  <2>6. k \in D
    BY <2>4, <2>5
  <2>7. QED
    BY <2>2, <2>6
<1> HIDE DEF D, k
<1>5. CASE D = {}
  BY <1>1, <1>2, <1>5
<1>6. CASE D # {}
  <2>1. SubSeq(u, 1, k) \in Str /\ (Single(u) => Single(SubSeq(u, 1, k)))
    BY <1>1, <1>4, <1>6, SinglePrefix
  <2>2. QED
    BY <1>1, <1>2, <1>6, <2>1
<1>7. QED
  BY <1>5, <1>6

Here == <<".">>
Upward == <<".", ".">>

Stepped(state, piece, root, up) ==
    IF state.left \/ state.undefined \/ piece = Here THEN state
    ELSE IF piece # Upward THEN [state EXCEPT !.path = (@ \o piece) \o Slash]
    ELSE IF ~up /\ Len(state.path) <= Len(root) THEN [state EXCEPT !.left = TRUE]
    ELSE IF state.path = <<>> THEN [state EXCEPT !.undefined = TRUE]
    ELSE [state EXCEPT !.path = Ways!parentDir(@)]

Start(root) == [path |-> root, left |-> FALSE, undefined |-> FALSE]
Walked(k, pieces, root, up) == Ways!Loop(k, Start(root), Ways!Walk(pieces, root, up))

(* A step of the walk keeps the types of its state. *)
LEMMA SteppedType ==
  ASSUME NEW state \in Ways!States, NEW piece \in Piece, NEW root \in Str, NEW up \in BOOLEAN
  PROVE  Stepped(state, piece, root, up) \in Ways!States
<1>1. state.path \in Str /\ state.left \in BOOLEAN /\ state.undefined \in BOOLEAN
      /\ state = [path |-> state.path, left |-> state.left, undefined |-> state.undefined]
  BY DEF Ways!States, Str
<1>2. (state.path \o piece) \o Slash \in Str /\ Ways!parentDir(state.path) \in Str
  BY <1>1, SingleAppend, SingleParent
<1> DEFINE a == (state.path \o piece) \o Slash
           b == Ways!parentDir(state.path)
<1>3. a \in Str /\ b \in Str
  BY <1>2
<1> HIDE DEF a, b
<1>4. /\ [state EXCEPT !.path = a] \in Ways!States
      /\ [state EXCEPT !.path = b] \in Ways!States
      /\ [state EXCEPT !.left = TRUE] \in Ways!States
      /\ [state EXCEPT !.undefined = TRUE] \in Ways!States
  BY <1>3 DEF Ways!States, Str
<1>5. \/ Stepped(state, piece, root, up) = state
      \/ Stepped(state, piece, root, up) = [state EXCEPT !.path = a]
      \/ Stepped(state, piece, root, up) = [state EXCEPT !.path = b]
      \/ Stepped(state, piece, root, up) = [state EXCEPT !.left = TRUE]
      \/ Stepped(state, piece, root, up) = [state EXCEPT !.undefined = TRUE]
  BY DEF Stepped, a, b
<1>6. QED
  BY <1>4, <1>5

LEMMA WalkSteps ==
  ASSUME NEW pieces \in Seq(Piece), NEW root \in Str, NEW up \in BOOLEAN
  PROVE  /\ Walked(0, pieces, root, up) = Start(root) /\ Len(pieces) \in Nat
         /\ \A k \in 0..Len(pieces) : Walked(k, pieces, root, up) \in Ways!States
         /\ \A k \in 0..(Len(pieces) - 1) :
               Walked(k + 1, pieces, root, up)
                 = Stepped(Walked(k, pieces, root, up), pieces[k + 1], root, up)
<1> DEFINE W(k) == Walked(k, pieces, root, up)
           S == {k \in 0..Len(pieces) : W(k) \in Ways!States}
<1>0. Len(pieces) \in Nat /\ DOMAIN pieces = 1..Len(pieces)
  OBVIOUS
<1>1. W(0) = Start(root) /\ 0 \in S
  <2>1. W(0) = Start(root)
    BY LoopStep DEF Walked
  <2>2. Start(root) \in Ways!States
    BY DEF Start, Ways!States, Str
  <2>3. QED
    BY <1>0, <2>1, <2>2
<1>2. ASSUME NEW k \in 0..(Len(pieces) - 1), W(k) \in Ways!States
      PROVE  /\ W(k + 1) = Stepped(W(k), pieces[k + 1], root, up)
             /\ k + 1 \in S
  <2>1. k \in Nat /\ k + 1 \in 0..Len(pieces) /\ k + 1 \in DOMAIN pieces /\ pieces[k + 1] \in Piece
    BY <1>0
  <2>2. W(k + 1) = Ways!Walk(pieces, root, up)[k + 1][W(k)]
    BY <2>1, LoopStep DEF Walked
  <2> DEFINE w == W(k)
  <2> HIDE DEF W
  <2>3. w \in Ways!States
    BY <1>2
  <2> HIDE DEF w
  <2>4. Ways!Walk(pieces, root, up)[k + 1][w] = Stepped(w, pieces[k + 1], root, up)
    BY <2>1, <2>3 DEF Ways!Walk, Stepped, Here, Upward, Slash
  <2>5. Stepped(w, pieces[k + 1], root, up) \in Ways!States
    BY <2>1, <2>3, SteppedType
  <2>6. QED
    BY <2>1, <2>2, <2>4, <2>5 DEF w
<1> HIDE DEF W
<1>3. ASSUME NEW k \in 0..(Len(pieces) - 1), k \in S PROVE k + 1 \in S
  BY <1>2, <1>3
<1> HIDE DEF S
<1>4. 0..Len(pieces) \subseteq S
  BY <1>0, <1>1, <1>3, UpTo
<1>5. \A k \in 0..Len(pieces) : W(k) \in Ways!States
  BY <1>4 DEF S
<1>6. \A k \in 0..(Len(pieces) - 1) : W(k + 1) = Stepped(W(k), pieces[k + 1], root, up)
  <2> SUFFICES ASSUME NEW k \in 0..(Len(pieces) - 1) PROVE W(k + 1) = Stepped(W(k), pieces[k + 1], root, up)
    OBVIOUS
  <2>1. k \in 0..Len(pieces)
    BY <1>0
  <2>2. QED
    BY <1>2, <1>5, <2>1
<1>7. QED
  BY <1>0, <1>1, <1>5, <1>6 DEF W

(* Paths have single slashes if the directory has. *)
LEMMA WalkSingle ==
  ASSUME NEW pieces \in Seq(Piece), NEW root \in Str, NEW up \in BOOLEAN, Single(root),
         NEW w, w = Walked(Len(pieces), pieces, root, up)
  PROVE  Single(w.path) /\ (w.undefined => w.path = <<>>) /\ (w.left => ~up)
<1> DEFINE Ok(v) == Single(v.path) /\ (v.undefined => v.path = <<>>) /\ (v.left => ~up)
           W(k) == Walked(k, pieces, root, up)
           S == {k \in 0..Len(pieces) : Ok(W(k))}
<1>1. Ok(W(0)) /\ Len(pieces) \in Nat
  <2>1. W(0) = Start(root) /\ Len(pieces) \in Nat
    BY WalkSteps
  <2> HIDE DEF W
  <2>2. Ok(Start(root))
    BY DEF Start
  <2>3. QED
    BY <2>1, <2>2
<1>2. ASSUME NEW v \in Ways!States, NEW piece \in Piece, Ok(v)
      PROVE  Ok(Stepped(v, piece, root, up))
  <2> DEFINE a == (v.path \o piece) \o Slash
             b == Ways!parentDir(v.path)
             x == Stepped(v, piece, root, up)
  <2>1. v.path \in Str /\ v.left \in BOOLEAN /\ v.undefined \in BOOLEAN
        /\ v = [path |-> v.path, left |-> v.left, undefined |-> v.undefined]
    BY DEF Ways!States, Str
  <2>2. Single(a) /\ Single(b)
    BY <1>2, <2>1, SingleAppend, SingleParent
  <2> HIDE DEF a, b
  <2>3. \/ x = v
        \/ ~v.undefined /\ x = [v EXCEPT !.path = a]
        \/ ~up /\ x = [v EXCEPT !.left = TRUE]
        \/ v.path = <<>> /\ x = [v EXCEPT !.undefined = TRUE]
        \/ ~v.undefined /\ x = [v EXCEPT !.path = b]
    BY <2>1 DEF Stepped, a, b
  <2> HIDE DEF x
  <2>4. CASE x = v
    BY <1>2, <2>4 DEF x
  <2>5. CASE ~v.undefined /\ x = [v EXCEPT !.path = a]
    <3>1. x.path = a /\ x.left = v.left /\ x.undefined = v.undefined
      BY <2>1, <2>5
    <3>2. QED
      BY <1>2, <2>2, <2>5, <3>1 DEF x
  <2>6. CASE ~up /\ x = [v EXCEPT !.left = TRUE]
    <3>1. x.path = v.path /\ x.undefined = v.undefined
      BY <2>1, <2>6
    <3>2. QED
      BY <1>2, <2>6, <3>1 DEF x
  <2>7. CASE v.path = <<>> /\ x = [v EXCEPT !.undefined = TRUE]
    <3>1. x.path = v.path /\ x.left = v.left
      BY <2>1, <2>7
    <3>2. QED
      BY <1>2, <2>7, <3>1 DEF x
  <2>8. CASE ~v.undefined /\ x = [v EXCEPT !.path = b]
    <3>1. x.path = b /\ x.left = v.left /\ x.undefined = v.undefined
      BY <2>1, <2>8
    <3>2. QED
      BY <1>2, <2>2, <2>8, <3>1 DEF x
  <2> HIDE DEF Ok
  <2>9. QED
    BY <2>3, <2>4, <2>5, <2>6, <2>7, <2>8 DEF x
<1> HIDE DEF Ok
<1>3. ASSUME NEW k \in 0..(Len(pieces) - 1), k \in S PROVE k + 1 \in S
  <2>1. k \in 0..Len(pieces) /\ k + 1 \in 0..Len(pieces) /\ k + 1 \in 1..Len(pieces) /\ pieces[k + 1] \in Piece
    BY <1>1
  <2>2. W(k) \in Ways!States /\ W(k + 1) = Stepped(W(k), pieces[k + 1], root, up)
    BY <2>1, WalkSteps
  <2> HIDE DEF W
  <2>3. Ok(W(k + 1))
    BY <1>2, <1>3, <2>1, <2>2
  <2>4. QED
    BY <2>1, <2>3
<1>4. 0 \in S
  BY <1>1
<1> HIDE DEF S
<1>5. Len(pieces) \in S
  <2>1. 0..Len(pieces) \subseteq S
    BY <1>1, <1>3, <1>4, UpTo
  <2>2. QED
    BY <1>1, <2>1
<1>6. Ok(w)
  BY <1>5 DEF S
<1>7. QED
  BY <1>6 DEF Ok

Understood(state, piece) ==
    IF piece = Here THEN state
    ELSE IF piece # Upward THEN [state EXCEPT !.names = Append(@, piece)]
    ELSE IF state.names # <<>> THEN [state EXCEPT !.names = Ways!Front(@)]
    ELSE [state EXCEPT !.outside = @ + 1]

Nothing == [names |-> <<>>, outside |-> 0]
Meant(k, pieces) == Ways!Loop(k, Nothing, Ways!Understand(pieces))
Plain == Piece \ {Here, Upward}
Meanings == [names : Seq(Plain), outside : Nat]

(* How a piece changes what the path means. *)
LEMMA UnderstoodType ==
  ASSUME NEW m \in Meanings, NEW piece \in Piece
  PROVE  /\ Understood(m, piece) \in Meanings /\ m.names \in Seq(Plain) /\ m.outside \in Nat
         /\ \/ piece = Here /\ Understood(m, piece) = m
            \/ /\ piece \in Plain /\ Understood(m, piece).outside = m.outside
               /\ Understood(m, piece).names = Append(m.names, piece)
            \/ /\ piece = Upward /\ m.names # <<>> /\ Understood(m, piece).outside = m.outside
               /\ Understood(m, piece).names = Ways!Front(m.names)
            \/ /\ piece = Upward /\ m.names = <<>> /\ Understood(m, piece).outside = m.outside + 1
               /\ Understood(m, piece).names = <<>>
<1>1. m.names \in Seq(Plain) /\ m.outside \in Nat /\ m = [names |-> m.names, outside |-> m.outside]
  BY DEF Meanings
<1>2. CASE piece = Here
  BY <1>1, <1>2 DEF Understood
<1>3. CASE piece # Here /\ piece # Upward
  <2> DEFINE a == Append(m.names, piece)
  <2>1. piece \in Plain
    BY <1>3 DEF Plain
  <2>2. a \in Seq(Plain)
    BY <1>1, <2>1
  <2> HIDE DEF a
  <2>3. Understood(m, piece) = [m EXCEPT !.names = a]
    BY <1>3 DEF Understood, a
  <2>4. [m EXCEPT !.names = a] = [names |-> a, outside |-> m.outside]
    BY <1>1
  <2>5. Understood(m, piece).names = a /\ Understood(m, piece).outside = m.outside
        /\ Understood(m, piece) \in Meanings
    BY <1>1, <2>2, <2>3, <2>4 DEF Meanings
  <2>6. QED
    BY <1>1, <2>1, <2>5 DEF a
<1>4. CASE piece = Upward /\ piece # Here /\ m.names # <<>>
  <2> DEFINE a == Ways!Front(m.names)
  <2>2. a \in Seq(Plain)
    BY <1>1, <1>4, FrontLast
  <2> HIDE DEF a
  <2>3. Understood(m, piece) = [m EXCEPT !.names = a]
    BY <1>4 DEF Understood, a
  <2>4. [m EXCEPT !.names = a] = [names |-> a, outside |-> m.outside]
    BY <1>1
  <2>5. Understood(m, piece).names = a /\ Understood(m, piece).outside = m.outside
        /\ Understood(m, piece) \in Meanings
    BY <1>1, <2>2, <2>3, <2>4 DEF Meanings
  <2>6. QED
    BY <1>1, <1>4, <2>5 DEF a
<1>5. CASE piece = Upward /\ piece # Here /\ m.names = <<>>
  <2>3. Understood(m, piece) = [m EXCEPT !.outside = m.outside + 1]
    BY <1>5 DEF Understood
  <2>4. [m EXCEPT !.outside = m.outside + 1] = [names |-> m.names, outside |-> m.outside + 1]
    BY <1>1
  <2>5. Understood(m, piece).names = m.names /\ Understood(m, piece).outside = m.outside + 1
        /\ Understood(m, piece) \in Meanings
    BY <1>1, <2>3, <2>4 DEF Meanings
  <2>6. QED
    BY <1>1, <1>5, <2>5
<1>6. QED
  BY <1>2, <1>3, <1>4, <1>5

LEMMA MeaningSteps ==
  ASSUME NEW pieces \in Seq(Piece)
  PROVE  /\ Meant(0, pieces) = Nothing /\ Len(pieces) \in Nat
         /\ \A k \in 0..Len(pieces) : Meant(k, pieces) \in Meanings
         /\ \A k \in 0..(Len(pieces) - 1) :
               Meant(k + 1, pieces) = Understood(Meant(k, pieces), pieces[k + 1])
<1> DEFINE M(k) == Meant(k, pieces)
           S == {k \in 0..Len(pieces) : M(k) \in Meanings}
<1>0. Len(pieces) \in Nat /\ DOMAIN pieces = 1..Len(pieces)
  OBVIOUS
<1>1. M(0) = Nothing /\ 0 \in S
  <2>1. M(0) = Nothing
    BY LoopStep DEF Meant
  <2>2. Nothing \in Meanings
    <3>1. <<>> \in Seq(Plain)
      BY EmptySeq
    <3>2. QED
      BY <3>1 DEF Nothing, Meanings
  <2>3. QED
    BY <1>0, <2>1, <2>2
<1>2. ASSUME NEW k \in 0..(Len(pieces) - 1), M(k) \in Meanings
      PROVE  M(k + 1) = Understood(M(k), pieces[k + 1]) /\ k + 1 \in S
  <2>1. k \in Nat /\ k + 1 \in 0..Len(pieces) /\ k + 1 \in DOMAIN pieces /\ pieces[k + 1] \in Piece
    BY <1>0
  <2>2. M(k + 1) = Ways!Understand(pieces)[k + 1][M(k)]
    BY <2>1, LoopStep DEF Meant
  <2> DEFINE m == M(k)
  <2> HIDE DEF M
  <2>3. m \in Meanings
    BY <1>2
  <2> HIDE DEF m
  <2>4. m \in Ways!Meanings
    <3>1. Seq(Plain) \subseteq Seq(Ways!String)
      BY DEF Plain, Piece, Str
    <3>2. QED
      BY <2>3, <3>1 DEF Meanings, Ways!Meanings
  <2>5. Ways!Understand(pieces)[k + 1][m] = Understood(m, pieces[k + 1])
    BY <2>1, <2>4 DEF Ways!Understand, Understood, Here, Upward
  <2>6. Understood(m, pieces[k + 1]) \in Meanings
    BY <2>1, <2>3, UnderstoodType
  <2>7. QED
    BY <2>1, <2>2, <2>5, <2>6 DEF m
<1> HIDE DEF M
<1>3. ASSUME NEW k \in 0..(Len(pieces) - 1), k \in S PROVE k + 1 \in S
  BY <1>2, <1>3
<1> HIDE DEF S
<1>4. 0..Len(pieces) \subseteq S
  BY <1>0, <1>1, <1>3, UpTo
<1>5. \A k \in 0..Len(pieces) : M(k) \in Meanings
  BY <1>4 DEF S
<1>6. \A k \in 0..(Len(pieces) - 1) : M(k + 1) = Understood(M(k), pieces[k + 1])
  <2> SUFFICES ASSUME NEW k \in 0..(Len(pieces) - 1) PROVE M(k + 1) = Understood(M(k), pieces[k + 1])
    OBVIOUS
  <2>1. k \in 0..Len(pieces)
    BY <1>0
  <2>2. QED
    BY <1>2, <1>5, <2>1
<1>7. QED
  BY <1>0, <1>1, <1>5, <1>6 DEF M

LEMMA SplitType ==
  ASSUME NEW s \in Str
  PROVE  Ways!split(s) \in Seq(Piece) /\ Len(s) \in Nat
<1>1. Len(s) \in 0..Len(s) /\ Ways!split(s) = PiecesTo(s, Len(s))
  BY PiecesStep
<1>2. QED
  BY <1>1, PiecesStep

LEMMA SplitNothing == Ways!split(<<>>) = <<>> /\ <<>> \in Str /\ Clean(<<>>)
<1>1. <<>> \in Str /\ Len(<<>>) = 0
  BY EmptySeq DEF Str, Ways!String
<1>2. Ways!split(<<>>) = PiecesTo(<<>>, Len(<<>>)) /\ PiecesTo(<<>>, 0) = <<>>
  BY <1>1, PiecesStep
<1>3. Clean(<<>>)
  BY <1>1 DEF Clean, Closed, Single
<1>4. QED
  BY <1>1, <1>2, <1>3

LEMMA ClosedConcat ==
  ASSUME NEW s \in Str, NEW t \in Str, Closed(s), Closed(t)
  PROVE  s \o t \in Str /\ Closed(s \o t) /\ (s # <<>> => s \o t # <<>>)
<1> DEFINE u == s \o t
<1>1. /\ u \in Str /\ Len(u) = Len(s) + Len(t) /\ Len(s) \in Nat /\ Len(t) \in Nat
      /\ \A i \in 1..Len(s) : u[i] = s[i]
      /\ \A i \in 1..Len(t) : u[Len(s) + i] = t[i]
  BY Joined
<1>2. (s = <<>> <=> Len(s) = 0) /\ (t = <<>> <=> Len(t) = 0) /\ (u = <<>> <=> Len(u) = 0)
  <2>1. s \in Seq(Chr) /\ t \in Seq(Chr) /\ u \in Seq(Chr)
    BY <1>1 DEF Str, Chr, Ways!String
  <2> HIDE DEF u
  <2>2. QED
    BY <2>1, EmptySeq
<1> HIDE DEF u
<1>3. CASE t = <<>>
  <2>1. Len(u) = Len(s)
    BY <1>1, <1>2, <1>3
  <2>2. s = <<>> \/ (Len(s) \in 1..Len(s) /\ s[Len(s)] = "/")
    BY <1>1, <1>2 DEF Closed
  <2>3. u = <<>> \/ u[Len(u)] = "/"
    BY <1>1, <1>2, <2>1, <2>2
  <2>4. QED
    BY <1>1, <1>2, <2>1, <2>3 DEF Closed, u
<1>4. CASE t # <<>>
  <2>1. Len(t) \in 1..Len(t) /\ t[Len(t)] = "/"
    BY <1>1, <1>2, <1>4 DEF Closed
  <2>2. u[Len(u)] = "/"
    BY <1>1, <2>1
  <2>3. u # <<>>
    BY <1>1, <1>2, <1>4
  <2>4. QED
    BY <1>1, <2>2, <2>3 DEF Closed, u
<1>5. QED
  BY <1>3, <1>4

(* The way to a directory below base without its last name. *)
LEMMA TakeLast ==
  ASSUME NEW base \in Str, Closed(base), base # <<>>, NEW t, Clean(t), t # <<>>
  PROVE  /\ Len(base \o t) > Len(base) /\ base \o t # <<>>
         /\ Ways!split(t) # <<>>
         /\ \E u : /\ Clean(u) /\ Ways!parentDir(base \o t) = base \o u
                   /\ Ways!split(u) = Ways!Front(Ways!split(t))
<1>1. PICK u, n : Clean(u) /\ n \in Piece /\ t = (u \o n) \o Slash
  BY Decompose
<1>2. u \in Str /\ Closed(u) /\ t \in Str /\ Closed(t)
  BY <1>1 DEF Clean
<1>3. Ways!split(t) = Append(Ways!split(u), n) /\ Ways!split(u) \in Seq(Piece)
  BY <1>1, <1>2, SplitAppend, SplitType DEF Slash
<1>4. Ways!split(t) # <<>> /\ Ways!split(u) = Ways!Front(Ways!split(t))
  <2> DEFINE A == Ways!split(u)
             B == Ways!split(t)
             E == Ways!Front(B)
             y == Ways!Last(B)
  <2>1. B = Append(A, n) /\ A \in Seq(Piece)
    BY <1>3
  <2> HIDE DEF A, B
  <2>2. B \in Seq(Piece) /\ B # <<>>
    BY <1>1, <2>1, AppendProperties
  <2>3. E \in Seq(Piece) /\ y \in Piece /\ B = Append(E, y)
    BY <2>2, FrontLast
  <2> HIDE DEF E, y
  <2>4. Append(A, n) = Append(E, y)
    BY <2>1, <2>3
  <2>5. A = E
    BY <1>1, <2>1, <2>3, <2>4, AppendInjective
  <2>6. QED
    BY <2>2, <2>5 DEF A, B, E
<1>5. base \o t = ((base \o u) \o n) \o Slash
  <2>1. base \in Seq(Chr) /\ u \in Seq(Chr) /\ n \in Seq(Chr) /\ Slash \in Seq(Chr)
    <3>1. n \in Str
      BY <1>1, PieceIs
    <3>2. QED
      BY <1>2, <3>1, SlashIs DEF Str, Chr, Ways!String
  <2>2. (base \o u) \o n = base \o (u \o n) /\ u \o n \in Seq(Chr)
    <3>1. (base \o u) \o n = base \o (u \o n)
      <4>1. Regroups(base, u, n)
        BY <2>1, Regroup
      <4>2. QED
        BY <4>1 DEF Regroups
    <3>2. u \o n \in Seq(Chr)
      BY <2>1, ConcatProperties
    <3>3. QED
      BY <3>1, <3>2
  <2> DEFINE c == Slash
             v == u \o n
  <2>3. c \in Seq(Chr) /\ v \in Seq(Chr)
    BY <2>1, <2>2
  <2> HIDE DEF c, v
  <2>4. (base \o v) \o c = base \o (v \o c)
    <3>1. Regroups(base, v, c)
      BY <2>1, <2>3, Regroup
    <3>2. QED
      BY <3>1 DEF Regroups
  <2>5. QED
    BY <1>1, <2>2, <2>4 DEF c, v
<1>6. base \o u \in Str /\ Closed(base \o u) /\ base \o u # <<>>
  BY <1>2, ClosedConcat
<1>7. Ways!parentDir(base \o t) = base \o u
  BY <1>1, <1>5, <1>6, ParentIs
<1>8. Len(base \o t) > Len(base) /\ base \o t # <<>>
  <2>1. /\ Len(base \o t) = Len(base) + Len(t) /\ Len(base) \in Nat /\ Len(t) \in Nat
        /\ base \o t \in Str
    BY <1>2, Joined
  <2>2. Len(t) # 0
    <3>1. t \in Seq(Chr)
      BY <1>2 DEF Str, Chr, Ways!String
    <3>2. QED
      BY <3>1, EmptySeq
  <2>3. base \o t # <<>>
    BY <1>2, ClosedConcat
  <2>4. QED
    BY <2>1, <2>2, <2>3
<1>9. QED
  BY <1>1, <1>4, <1>7, <1>8

(* What is left of the names F when there are m.outside more `..' than names, *)
(* and what follows.                                                          *)
Left(F, m) == SubSeq(F, 1, Len(F) - m.outside) \o m.names

At(base, F, w, m) ==
    /\ ~w.left /\ ~w.undefined
    /\ \E t : Clean(t) /\ w.path = base \o t /\ Ways!split(t) = Left(F, m)

Fits(base, F, up, w, m) ==
    /\ m.outside <= Len(F) => At(base, F, w, m)
    /\ ~up /\ m.outside > 0 => w.left /\ ~w.undefined

(* The names that are left. *)
LEMMA LeftIs ==
  ASSUME NEW F \in Seq(Piece), NEW m \in Meanings, m.outside <= Len(F)
  PROVE  /\ Left(F, m) \in Seq(Piece)
         /\ \A l : l.outside = m.outside =>
               /\ \A c \in Plain : l.names = Append(m.names, c) => Left(F, l) = Append(Left(F, m), c)
               /\ m.names # <<>> /\ l.names = Ways!Front(m.names)
                     => Left(F, m) # <<>> /\ Left(F, l) = Ways!Front(Left(F, m))
         /\ \A l : m.names = <<>> /\ m.outside < Len(F) /\ l.outside = m.outside + 1 /\ l.names = <<>>
                     => Left(F, m) # <<>> /\ Left(F, l) = Ways!Front(Left(F, m))
<1> DEFINE k == Len(F) - m.outside
           A == SubSeq(F, 1, k)
           N == m.names
<1>1. N \in Seq(Plain) /\ N \in Seq(Piece) /\ m.outside \in Nat /\ Len(F) \in Nat
  BY DEF Meanings, Plain
<1>2. k \in 0..Len(F) /\ k \in Nat
  BY <1>1
<1>3. A \in Seq(Piece) /\ Len(A) = k /\ \A i \in 1..k : A[i] = F[i]
  <2> HIDE DEF k
  <2>1. QED
    BY <1>2, Prefix
<1>4. Left(F, m) = A \o N
  BY DEF Left
<1>5. A \o N \in Seq(Piece)
  BY <1>1, <1>3, ConcatProperties
<1>6. ASSUME NEW c \in Plain, NEW l, l.outside = m.outside, l.names = Append(m.names, c)
      PROVE  Left(F, l) = Append(Left(F, m), c)
  <2>1. Left(F, l) = A \o Append(N, c)
    BY <1>6 DEF Left
  <2>2. c \in Piece
    BY DEF Plain
  <2> HIDE DEF A, N
  <2>3. A \o Append(N, c) = Append(A \o N, c)
    <3> DEFINE C == A \o N
               d == <<c>>
    <3>1. C \in Seq(Piece)
      BY <1>1, <1>3, ConcatProperties
    <3>2. d \in Seq(Piece) /\ Append(N, c) = N \o d
      BY <1>1, <2>2
    <3> HIDE DEF C
    <3>3. Append(C, c) = C \o d
      BY <2>2, <3>1
    <3> HIDE DEF d
    <3>4. (A \o N) \o d = A \o (N \o d)
      <4>1. Regroups(A, N, d)
        BY <1>1, <1>3, <3>2, Regroup
      <4>2. QED
        BY <4>1 DEF Regroups
    <3>5. QED
      BY <3>2, <3>3, <3>4 DEF C
  <2>4. QED
    BY <1>4, <2>1, <2>3
<1>7. ASSUME m.names # <<>>, NEW l, l.outside = m.outside, l.names = Ways!Front(m.names)
      PROVE  Left(F, m) # <<>> /\ Left(F, l) = Ways!Front(Left(F, m))
  <2>1. Left(F, l) = A \o Ways!Front(N) /\ N # <<>>
    BY <1>7 DEF Left
  <2> HIDE DEF A, N
  <2>2. A \o N # <<>> /\ Ways!Front(A \o N) = A \o Ways!Front(N)
    BY <1>1, <1>3, <2>1, ConcatEnd
  <2>3. QED
    BY <1>4, <2>1, <2>2
<1>8. ASSUME m.names = <<>>, m.outside < Len(F), NEW l, l.outside = m.outside + 1, l.names = <<>>
      PROVE  Left(F, m) # <<>> /\ Left(F, l) = Ways!Front(Left(F, m))
  <2> DEFINE j == k - 1
             B == SubSeq(F, 1, j)
             C == Ways!Front(A)
  <2>0. k # 0 /\ j \in 0..Len(F) /\ Len(F) - (m.outside + 1) = j
    BY <1>1, <1>8
  <2>1. Left(F, l) = B \o <<>> /\ Left(F, m) = A \o <<>>
    BY <1>4, <1>8, <2>0 DEF Left
  <2> HIDE DEF j, k
  <2>2. B \in Seq(Piece) /\ Len(B) = j /\ \A i \in 1..j : B[i] = F[i]
    BY <2>0, Prefix
  <2>3. k - 1 = j
    BY DEF j
  <2>4. \A i \in 1..j : i \in 1..k
    BY <1>2, <2>3
  <2> HIDE DEF A, B
  <2>5. A # <<>>
    BY <1>3, <2>0
  <2>6. C \in Seq(Piece) /\ Len(C) = j /\ \A i \in 1..j : C[i] = A[i]
    BY <1>3, <2>3, <2>5, FrontLast
  <2> HIDE DEF C
  <2>7. \A i \in 1..Len(B) : B[i] = C[i]
    BY <1>3, <2>2, <2>4, <2>6
  <2>8. B = C
    BY <2>2, <2>6, <2>7, SeqEqual
  <2>9. B \o <<>> = B /\ A \o <<>> = A
    BY <1>3, <2>2, ConcatEmptySeq
  <2>10. QED
    BY <2>1, <2>5, <2>8, <2>9 DEF C
<1>9. QED
  BY <1>4, <1>5, <1>6, <1>7, <1>8

(* Where a step goes. *)
StepOk(w, piece, root, up, x) ==
    /\ w.path \in Str
    /\ w.left \/ piece = Here => x = w
    /\ ~w.left /\ ~w.undefined /\ piece \in Plain =>
             /\ x.path = (w.path \o piece) \o Slash
             /\ x.left = w.left /\ x.undefined = w.undefined
    /\ ~w.left /\ ~w.undefined /\ piece = Upward /\ ~up /\ Len(w.path) <= Len(root) =>
             x.left /\ x.undefined = w.undefined
    /\ ~w.left /\ ~w.undefined /\ piece = Upward /\ (up \/ ~(Len(w.path) <= Len(root))) /\ w.path # <<>> =>
             /\ x.path = Ways!parentDir(w.path)
             /\ x.left = w.left /\ x.undefined = w.undefined

(* What a step of the walk does, piece by piece. *)
LEMMA StepCases ==
  ASSUME NEW w \in Ways!States, NEW piece \in Piece, NEW root \in Str, NEW up \in BOOLEAN
  PROVE  StepOk(w, piece, root, up, Stepped(w, piece, root, up))
<1> DEFINE x == Stepped(w, piece, root, up)
<1>1. w.path \in Str /\ w.left \in BOOLEAN /\ w.undefined \in BOOLEAN
      /\ w = [path |-> w.path, left |-> w.left, undefined |-> w.undefined]
  BY DEF Ways!States, Str
<1>2. Upward # Here
  BY DEF Upward, Here
<1> DEFINE a == (w.path \o piece) \o Slash
           b == Ways!parentDir(w.path)
<1>3. w.left \/ piece = Here => x = w
  BY DEF Stepped
<1>4. ASSUME ~w.left, ~w.undefined, piece \in Plain
      PROVE  x.path = a /\ x.left = w.left /\ x.undefined = w.undefined
  <2>1. piece # Here /\ piece # Upward
    BY <1>4 DEF Plain
  <2>2. x = [w EXCEPT !.path = a]
    BY <1>4, <2>1 DEF Stepped
  <2> HIDE DEF a
  <2>3. QED
    BY <1>1, <2>2
<1>5. ASSUME ~w.left, ~w.undefined, piece = Upward, ~up, Len(w.path) <= Len(root)
      PROVE  x.left /\ x.undefined = w.undefined
  <2>1. x = [w EXCEPT !.left = TRUE]
    BY <1>2, <1>5 DEF Stepped
  <2>2. QED
    BY <1>1, <2>1
<1>6. ASSUME ~w.left, ~w.undefined, piece = Upward, up \/ ~(Len(w.path) <= Len(root)), w.path # <<>>
      PROVE  x.path = b /\ x.left = w.left /\ x.undefined = w.undefined
  <2>1. x = [w EXCEPT !.path = b]
    BY <1>2, <1>6 DEF Stepped
  <2> HIDE DEF b
  <2>2. QED
    BY <1>1, <2>1
<1> HIDE DEF x
<1>7. StepOk(w, piece, root, up, x)
  BY <1>1, <1>3, <1>4, <1>5, <1>6 DEF StepOk
<1>8. QED
  BY <1>7 DEF x

(* One more piece of the path and of its meaning. *)
LEMMA FitsStep ==
  ASSUME NEW base \in Str, Closed(base), base # <<>>, NEW t0, Clean(t0), NEW up \in BOOLEAN, up \/ t0 = <<>>,
         NEW F, F = Ways!split(t0), NEW root, root = base \o t0,
         NEW w \in Ways!States, NEW m \in Meanings, NEW piece \in Piece, Fits(base, F, up, w, m)
  PROVE  Fits(base, F, up, Stepped(w, piece, root, up), Understood(m, piece))
<1> DEFINE x == Stepped(w, piece, root, up)
           l == Understood(m, piece)
<1>0. root \in Str /\ F \in Seq(Piece) /\ Len(F) \in Nat /\ (~up => root = base /\ F = <<>> /\ Len(F) = 0)
  <2>1. t0 \in Str
    BY DEF Clean
  <2>2. root \in Str /\ F \in Seq(Piece)
    BY <2>1, Joined, SplitType
  <2>3. base \o <<>> = base
    BY ConcatEmptySeq DEF Str, Chr, Ways!String
  <2>4. ~up => root = base /\ F = <<>>
    BY <2>3, SplitNothing
  <2>5. QED
    BY <2>2, <2>4, EmptySeq
<1>1. /\ l \in Meanings /\ m.names \in Seq(Plain) /\ m.outside \in Nat
      /\ \/ piece = Here /\ l = m
         \/ /\ piece \in Plain /\ l.outside = m.outside
            /\ l.names = Append(m.names, piece)
         \/ /\ piece = Upward /\ m.names # <<>> /\ l.outside = m.outside
            /\ l.names = Ways!Front(m.names)
         \/ /\ piece = Upward /\ m.names = <<>> /\ l.outside = m.outside + 1
            /\ l.names = <<>>
  BY UnderstoodType
<1>2. StepOk(w, piece, root, up, x)
  BY <1>0, StepCases
<1> HIDE DEF x, l
<1>3. ASSUME l.outside <= Len(F)
      PROVE  At(base, F, x, l)
  <2>1. m.outside <= Len(F)
    BY <1>0, <1>1, <1>3
  <2>2. ~w.left /\ ~w.undefined /\ At(base, F, w, m)
    BY <2>1 DEF Fits, At
  <2>3. PICK t : Clean(t) /\ w.path = base \o t /\ Ways!split(t) = Left(F, m)
    BY <2>2 DEF At
  <2>4. t \in Str /\ Closed(t)
    BY <2>3 DEF Clean
  <2>5. CASE piece = Here
    BY <1>1, <1>2, <2>2, <2>5 DEF Here, Upward, Plain, StepOk
  <2>6. CASE piece \in Plain
    <3> DEFINE u == (t \o piece) \o Slash
    <3>1. l.outside = m.outside /\ l.names = Append(m.names, piece)
      BY <1>1, <2>6 DEF Plain
    <3>2. Clean(u)
      BY <2>3, CleanAppend
    <3>3. Ways!split(u) = Left(F, l)
      <4>1. Ways!split(u) = Append(Ways!split(t), piece)
        BY <2>4, SplitAppend DEF Slash
      <4>2. Left(F, l) = Append(Left(F, m), piece)
        BY <1>0, <2>1, <2>6, <3>1, LeftIs
      <4>3. QED
        BY <2>3, <4>1, <4>2
    <3>4. x.path = base \o u
      <4> DEFINE c == Slash
      <4>1. base \in Seq(Chr) /\ t \in Seq(Chr) /\ piece \in Seq(Chr) /\ c \in Seq(Chr)
        <5>1. piece \in Str
          BY PieceIs
        <5>2. QED
          BY <2>4, <5>1, SlashIs DEF Str, Chr, Ways!String
      <4> HIDE DEF c
      <4> DEFINE v == t \o piece
      <4>2. (base \o t) \o piece = base \o v /\ v \in Seq(Chr)
        <5>1. Regroups(base, t, piece)
          BY <4>1, Regroup
        <5>2. v \in Seq(Chr)
          BY <4>1, ConcatProperties
        <5>3. QED
          BY <5>1, <5>2 DEF Regroups
      <4> HIDE DEF v
      <4>3. (base \o v) \o c = base \o (v \o c)
        <5>1. Regroups(base, v, c)
          BY <4>1, <4>2, Regroup
        <5>2. QED
          BY <5>1 DEF Regroups
      <4>4. x.path = ((base \o t) \o piece) \o c
        BY <1>2, <2>2, <2>3, <2>6 DEF c, StepOk
      <4>5. QED
        BY <4>2, <4>3, <4>4 DEF c, v
    <3> HIDE DEF u
    <3>5. ~x.left /\ ~x.undefined
      BY <1>2, <2>2, <2>6 DEF StepOk
    <3>6. QED
      BY <3>2, <3>3, <3>4, <3>5 DEF At
  <2>7. CASE piece = Upward
    <3>1. Left(F, m) # <<>> /\ Left(F, l) = Ways!Front(Left(F, m))
      <4>1. CASE m.names # <<>>
        <5>1. l.outside = m.outside /\ l.names = Ways!Front(m.names)
          BY <1>1, <2>7, <4>1 DEF Here, Upward, Plain
        <5>2. QED
          BY <1>0, <2>1, <4>1, <5>1, LeftIs
      <4>2. CASE m.names = <<>>
        <5>1. l.outside = m.outside + 1 /\ l.names = <<>>
          BY <1>1, <2>7, <4>2 DEF Here, Upward, Plain
        <5>2. m.outside < Len(F)
          BY <1>0, <1>1, <1>3, <5>1
        <5>3. QED
          BY <1>0, <2>1, <4>2, <5>1, <5>2, LeftIs
      <4>3. QED
        BY <4>1, <4>2
    <3>2. t # <<>>
      BY <2>3, <3>1, SplitNothing
    <3>3. /\ Len(base \o t) > Len(base) /\ base \o t # <<>>
          /\ \E u : /\ Clean(u) /\ Ways!parentDir(base \o t) = base \o u
                    /\ Ways!split(u) = Ways!Front(Ways!split(t))
      BY <2>3, <3>2, TakeLast
    <3>4. PICK u : /\ Clean(u) /\ Ways!parentDir(base \o t) = base \o u
                   /\ Ways!split(u) = Ways!Front(Ways!split(t))
      BY <3>3
    <3>5. up \/ ~(Len(w.path) <= Len(root))
      <4>1. Len(w.path) \in Int /\ Len(base) \in Int
        BY <1>2, SplitType DEF StepOk
      <4>2. CASE ~up
        <5>1. Len(w.path) > Len(root) /\ Len(root) \in Int
          BY <1>0, <2>3, <3>3, <4>1, <4>2
        <5>2. QED
          BY <4>1, <5>1
      <4>3. QED
        BY <4>2
    <3>6. x.path = Ways!parentDir(w.path) /\ ~x.left /\ ~x.undefined
      BY <1>2, <2>2, <2>3, <2>7, <3>3, <3>5 DEF StepOk
    <3>7. x.path = base \o u /\ Ways!split(u) = Left(F, l)
      BY <2>3, <3>1, <3>4, <3>6
    <3>8. QED
      BY <3>4, <3>6, <3>7 DEF At
  <2>8. QED
    BY <1>1, <2>5, <2>6, <2>7
<1>4. ASSUME ~up, l.outside > 0
      PROVE  x.left /\ ~x.undefined
  <2>1. CASE m.outside > 0
    <3>1. w.left /\ ~w.undefined
      BY <1>4, <2>1 DEF Fits
    <3>2. QED
      BY <1>2, <3>1 DEF StepOk
  <2>2. CASE ~(m.outside > 0)
    <3>1. m.outside = 0 /\ Len(F) = 0 /\ F = <<>> /\ root = base
      BY <1>0, <1>1, <1>4, <2>2
    <3>2. piece = Upward /\ m.names = <<>>
      BY <1>1, <1>4, <3>1
    <3>3. ~w.left /\ ~w.undefined /\ At(base, F, w, m)
      BY <3>1 DEF Fits, At
    <3>4. PICK t : Clean(t) /\ w.path = base \o t /\ Ways!split(t) = Left(F, m)
      BY <3>3 DEF At
    <3>5. Left(F, m) = <<>>
      <4>1. SubSeq(F, 1, 0) = <<>>
        BY SubSeqEmpty
      <4>2. Len(F) - m.outside = 0
        BY <3>1
      <4>3. Left(F, m) = SubSeq(F, 1, 0) \o m.names
        BY <4>2 DEF Left
      <4>4. SubSeq(F, 1, 0) \o m.names = <<>> \o <<>>
        BY <3>2, <4>1
      <4>5. <<>> \o <<>> = <<>>
        OBVIOUS
      <4>6. QED
        BY <4>3, <4>4, <4>5
    <3>6. t = <<>>
      BY <3>4, <3>5, TakeLast
    <3>7. w.path = base
      BY <3>4, <3>6, ConcatEmptySeq DEF Str, Chr, Ways!String
    <3>8. Len(w.path) <= Len(root)
      <4>1. Len(base) \in Nat
        BY SplitType
      <4>2. QED
        BY <3>1, <3>7, <4>1
    <3>9. QED
      BY <1>2, <1>4, <3>2, <3>3, <3>8 DEF StepOk
  <2>3. QED
    BY <2>1, <2>2
<1>5. Fits(base, F, up, x, l)
  BY <1>3, <1>4 DEF Fits
<1>6. QED
  BY <1>5 DEF x, l

(* Where the way through all the pieces ends. *)
LEMMA Fitting ==
  ASSUME NEW base \in Str, Closed(base), base # <<>>, NEW t0, Clean(t0), NEW up \in BOOLEAN, up \/ t0 = <<>>,
         NEW F, F = Ways!split(t0), NEW root, root = base \o t0, NEW pieces \in Seq(Piece)
  PROVE  Fits(base, F, up, Walked(Len(pieces), pieces, root, up), Meant(Len(pieces), pieces))
<1> DEFINE W(k) == Walked(k, pieces, root, up)
           M(k) == Meant(k, pieces)
           S == {k \in 0..Len(pieces) : Fits(base, F, up, W(k), M(k))}
<1>0. t0 \in Str /\ root \in Str /\ F \in Seq(Piece) /\ Len(F) \in Nat
  <2>1. t0 \in Str
    BY DEF Clean
  <2>2. QED
    BY <2>1, Joined, SplitType
<1>1. W(0) = Start(root) /\ M(0) = Nothing /\ Len(pieces) \in Nat
  BY <1>0, WalkSteps, MeaningSteps
<1>2. \A k \in 0..Len(pieces) : W(k) \in Ways!States /\ M(k) \in Meanings
  BY <1>0, WalkSteps, MeaningSteps
<1>3. \A k \in 0..(Len(pieces) - 1) : /\ W(k + 1) = Stepped(W(k), pieces[k + 1], root, up)
                                      /\ M(k + 1) = Understood(M(k), pieces[k + 1])
  BY <1>0, WalkSteps, MeaningSteps
<1> HIDE DEF W, M
<1>4. 0 \in S
  <2>1. Left(F, Nothing) = F
    <3> DEFINE G == SubSeq(F, 1, Len(F))
    <3>0. G \in Seq(Piece) /\ Len(G) = Len(F) /\ \A i \in 1..Len(F) : G[i] = F[i]
      BY <1>0, Len(F) \in 0..Len(F), Prefix
    <3>1. Left(F, Nothing) = SubSeq(F, 1, Len(F) - 0) \o <<>>
      BY DEF Left, Nothing
    <3>2. Len(F) - 0 = Len(F)
      BY <1>0
    <3>3. Left(F, Nothing) = G \o <<>>
      BY <3>1, <3>2
    <3> HIDE DEF G
    <3>4. G = F
      <4>1. \A i \in 1..Len(G) : G[i] = F[i]
        BY <3>0
      <4>2. QED
        BY <1>0, <3>0, <4>1, SeqEqual
    <3>5. F \o <<>> = F
      BY <1>0, ConcatEmptySeq
    <3>6. QED
      BY <3>3, <3>4, <3>5
  <2>2. At(base, F, Start(root), Nothing)
    <3>1. ~Start(root).left /\ ~Start(root).undefined /\ Start(root).path = base \o t0
      BY DEF Start
    <3>2. QED
      BY <2>1, <3>1 DEF At
  <2>3. ~(Nothing.outside > 0)
    BY DEF Nothing
  <2>4. Fits(base, F, up, W(0), M(0))
    BY <1>1, <2>2, <2>3 DEF Fits
  <2>5. QED
    BY <1>1, <2>4
<1>5. ASSUME NEW k \in 0..(Len(pieces) - 1), k \in S PROVE k + 1 \in S
  <2>1. k \in 0..Len(pieces) /\ k + 1 \in 0..Len(pieces) /\ k + 1 \in 1..Len(pieces) /\ pieces[k + 1] \in Piece
    BY <1>1
  <2>2. Fits(base, F, up, W(k), M(k)) /\ W(k) \in Ways!States /\ M(k) \in Meanings
    BY <1>2, <1>5, <2>1
  <2>3. Fits(base, F, up, Stepped(W(k), pieces[k + 1], root, up), Understood(M(k), pieces[k + 1]))
    BY <2>1, <2>2, FitsStep
  <2>4. Fits(base, F, up, W(k + 1), M(k + 1))
    BY <1>3, <2>3
  <2>5. QED
    BY <2>1, <2>4
<1> HIDE DEF S
<1>6. 0..Len(pieces) \subseteq S
  BY <1>1, <1>4, <1>5, UpTo
<1>7. Fits(base, F, up, W(Len(pieces)), M(Len(pieces)))
  BY <1>1, <1>6 DEF S
<1>8. QED
  BY <1>7 DEF W, M

(* A name means itself: plain names after others are what they are. *)
LEMMA MeantPlain ==
  ASSUME NEW A \in Seq(Piece), NEW B \in Seq(Plain)
  PROVE  Meant(Len(A \o B), A \o B).names = Meant(Len(A), A).names \o B
<1> DEFINE C == A \o B
           n == Len(A)
           S == {k \in 0..n : Meant(k, C) = Meant(k, A)}
           R == {k \in 0..Len(B) : Meant(n + k, C).names = Meant(n, A).names \o SubSeq(B, 1, k)}
<1>1. B \in Seq(Piece) /\ n \in Nat /\ Len(B) \in Nat
  BY DEF Plain
<1>2. /\ C \in Seq(Piece) /\ Len(C) = n + Len(B) /\ \A i \in 1..n : C[i] = A[i]
      /\ \A i \in 1..Len(B) : C[n + i] = B[i]
  <2>1. /\ C \in Seq(Piece) /\ Len(C) = n + Len(B)
        /\ \A i \in 1..(n + Len(B)) : C[i] = IF i <= n THEN A[i] ELSE B[i - n]
    BY <1>1, ConcatProperties
  <2> HIDE DEF C, n
  <2>2. \A i \in 1..n : C[i] = A[i]
    BY <1>1, <2>1
  <2>3. ASSUME NEW i \in 1..Len(B) PROVE C[n + i] = B[i]
    <3>1. n + i \in 1..(n + Len(B)) /\ ~(n + i <= n) /\ (n + i) - n = i
      BY <1>1
    <3>2. QED
      BY <2>1, <3>1
  <2>4. QED
    BY <2>1, <2>2, <2>3
<1> HIDE DEF C
<1>3. 0 \in S
  BY <1>1, <1>2, MeaningSteps
<1>4. ASSUME NEW k \in 0..(n - 1), k \in S PROVE k + 1 \in S
  <2>1. k + 1 \in 0..n /\ k + 1 \in 1..n /\ k \in 0..(Len(C) - 1)
    BY <1>1, <1>2
  <2>2. Meant(k + 1, C) = Understood(Meant(k, C), C[k + 1])
        /\ Meant(k + 1, A) = Understood(Meant(k, A), A[k + 1])
    BY <1>2, <2>1, MeaningSteps
  <2>3. C[k + 1] = A[k + 1] /\ Meant(k, C) = Meant(k, A)
    BY <1>2, <1>4, <2>1
  <2>4. QED
    BY <2>1, <2>2, <2>3
<1> HIDE DEF S
<1>5. Meant(n, C) = Meant(n, A)
  <2> HIDE DEF n
  <2>1. 0..n \subseteq S
    BY <1>1, <1>3, <1>4, UpTo
  <2>2. QED
    BY <1>1, <2>1 DEF S
<1>6. Meant(n, A) \in Meanings /\ Meant(n, A).names \in Seq(Plain)
  <2>1. n \in 0..Len(A)
    BY <1>1
  <2>2. QED
    BY <2>1, MeaningSteps DEF Meanings
<1> DEFINE N == Meant(n, A).names
<1>7. 0 \in R
  <2>1. SubSeq(B, 1, 0) = <<>>
    BY SubSeqEmpty
  <2>2. N \o <<>> = N
    BY <1>6, ConcatEmptySeq
  <2>3. n + 0 = n /\ 0 \in 0..Len(B)
    BY <1>1
  <2>4. QED
    BY <1>5, <2>1, <2>2, <2>3
<1> HIDE DEF n, N
<1>8. ASSUME NEW k \in 0..(Len(B) - 1), k \in R PROVE k + 1 \in R
  <2>1. k \in 0..Len(B) /\ k + 1 \in 1..Len(B) /\ k + 1 \in 0..Len(B) /\ n + k \in 0..(Len(C) - 1)
        /\ (n + k) + 1 = n + (k + 1) /\ n + k \in 0..Len(C)
    BY <1>1, <1>2
  <2>2. C[n + (k + 1)] = B[k + 1] /\ B[k + 1] \in Plain /\ B[k + 1] \in Piece
    BY <1>2, <2>1 DEF Plain
  <2> DEFINE m == Meant(n + k, C)
             c == B[k + 1]
             P == SubSeq(B, 1, k)
             Q == SubSeq(B, 1, k + 1)
  <2>3. Meant(n + (k + 1), C) = Understood(m, c) /\ m \in Meanings
    BY <1>2, <2>1, <2>2, MeaningSteps
  <2>4. Understood(m, c).names = Append(m.names, c)
    <3>1. c \in Piece /\ c # Here /\ c # Upward
      BY <2>2 DEF Plain
    <3> HIDE DEF m, c
    <3>2. QED
      BY <2>3, <3>1, UnderstoodType
  <2>5. m.names = N \o P
    BY <1>8 DEF N
  <2>6. /\ P \in Seq(Plain) /\ Len(P) = k /\ \A i \in 1..k : P[i] = B[i]
    BY <2>1, Prefix
  <2>7. /\ Q \in Seq(Plain) /\ Len(Q) = k + 1 /\ \A i \in 1..(k + 1) : Q[i] = B[i]
    BY <2>1, Prefix
  <2> HIDE DEF m, P, Q
  <2>8. Append(P, c) = Q
    <3> DEFINE a == Append(P, c)
    <3>1. a \in Seq(Plain) /\ Len(a) = k + 1 /\ a[k + 1] = c /\ \A i \in 1..k : a[i] = P[i]
      BY <2>2, <2>6, AppendProperties
    <3> HIDE DEF a
    <3>2. ASSUME NEW i \in 1..(k + 1) PROVE a[i] = Q[i]
      <4>1. CASE i = k + 1
        BY <2>7, <3>1, <4>1
      <4>2. CASE i # k + 1
        <5>1. i \in 1..k
          BY <2>1, <4>2
        <5>2. QED
          BY <2>6, <2>7, <3>1, <5>1
      <4>3. QED
        BY <4>1, <4>2
    <3>3. a = Q
      <4>1. \A i \in 1..Len(a) : a[i] = Q[i]
        BY <3>1, <3>2
      <4>2. QED
        BY <2>7, <3>1, <4>1, SeqEqual
    <3>4. QED
      BY <3>3 DEF a
  <2>9. N \in Seq(Plain)
    BY <1>6 DEF N
  <2> HIDE DEF c
  <2>10. Append(N \o P, c) = N \o Append(P, c)
    <3>1. c \in Plain
      BY <2>2 DEF c
    <3>2. P \in Seq(Plain)
      BY <2>6
    <3> HIDE DEF P, N
    <3>3. QED
      <4> DEFINE C2 == N \o P
                 d == <<c>>
      <4>1. C2 \in Seq(Plain)
        BY <2>9, <3>2, ConcatProperties
      <4>2. d \in Seq(Plain) /\ Append(P, c) = P \o d
        BY <3>1, <3>2
      <4> HIDE DEF C2
      <4>3. Append(C2, c) = C2 \o d
        BY <3>1, <4>1
      <4> HIDE DEF d
      <4>4. (N \o P) \o d = N \o (P \o d)
        <5>1. Regroups(N, P, d)
          BY <2>9, <3>2, <4>2, Regroup
        <5>2. QED
          BY <5>1 DEF Regroups
      <4>5. QED
        BY <4>2, <4>3, <4>4 DEF C2
  <2>11. Meant(n + (k + 1), C).names = N \o Q
    BY <2>3, <2>4, <2>5, <2>8, <2>10
  <2>12. QED
    BY <2>1, <2>11 DEF Q, N
<1> HIDE DEF R
<1>9. Len(B) \in R
  <2>1. 0..Len(B) \subseteq R
    BY <1>1, <1>7, <1>8, UpTo
  <2>2. QED
    BY <1>1, <2>1
<1>10. SubSeq(B, 1, Len(B)) = B
  <2> DEFINE G == SubSeq(B, 1, Len(B))
  <2>1. G \in Seq(Plain) /\ Len(G) = Len(B) /\ \A i \in 1..Len(B) : G[i] = B[i]
    BY <1>1, Len(B) \in 0..Len(B), Prefix
  <2> HIDE DEF G
  <2>2. \A i \in 1..Len(G) : G[i] = B[i]
    BY <2>1
  <2>3. G = B
    BY <2>1, <2>2, SeqEqual
  <2>4. QED
    BY <2>3 DEF G
<1>11. Meant(n + Len(B), C).names = N \o B
  BY <1>9, <1>10 DEF R, N
<1>12. QED
  BY <1>2, <1>11 DEF C, n, N

(* What the meaning of a path is, piece by piece. *)
LEMMA MeaningIs ==
  ASSUME NEW s \in Str
  PROVE  /\ Ways!Meaning(s) = Meant(Len(Ways!split(s)), Ways!split(s))
         /\ Ways!Meaning(s) \in Meanings
         /\ Ways!Meaning(s).names \in Seq(Plain) /\ Ways!Meaning(s).outside \in Nat
         /\ Ways!split(s) \in Seq(Piece)
         /\ \A t \in Str : Ways!split(t) = Ways!split(s) => Ways!Meaning(t) = Ways!Meaning(s)
<1>1. Ways!split(s) \in Seq(Piece)
  BY SplitType
<1>2. Len(Ways!split(s)) \in Nat
  BY <1>1
<1>3. Ways!Meaning(s) = Meant(Len(Ways!split(s)), Ways!split(s))
  BY DEF Ways!Meaning, Meant, Nothing
<1>4. Ways!Meaning(s) \in Meanings
  BY <1>1, <1>2, <1>3, Len(Ways!split(s)) \in 0..Len(Ways!split(s)), MeaningSteps
<1>5. Ways!Meaning(s).names \in Seq(Plain) /\ Ways!Meaning(s).outside \in Nat
  BY <1>4 DEF Meanings
<1>6. \A t \in Str : Ways!split(t) = Ways!split(s) => Ways!Meaning(t) = Ways!Meaning(s)
  BY DEF Ways!Meaning
<1>7. QED
  BY <1>1, <1>3, <1>4, <1>5, <1>6

LEMMA NoMeaning == Ways!Meaning(<<>>).names = <<>> /\ Ways!Meaning(<<>>).outside = 0
<1>1. <<>> \in Str /\ Ways!split(<<>>) = <<>>
  BY SplitNothing
<1>2. Len(<<>>) = 0 /\ <<>> \in Seq(Piece)
  BY EmptySeq
<1>3. Ways!Meaning(<<>>) = Meant(0, <<>>)
  BY <1>1, <1>2, MeaningIs
<1>4. Meant(0, <<>>) = Nothing
  BY <1>2, MeaningSteps
<1>5. QED
  BY <1>3, <1>4 DEF Nothing

(* What a directory followed by names means. *)
Follows(p, base, t) == p = base \o t \/ p = Ways!Popped(base \o t)
Adds(p, base, L) == Ways!Meaning(p).names = Ways!Meaning(base).names \o L

LEMMA MeaningConcat ==
  ASSUME NEW base \in Str, Closed(base), NEW t \in Str, NEW L \in Seq(Plain), Ways!split(t) = L,
         NEW p, Follows(p, base, t)
  PROVE  Adds(p, base, L)
<1> DEFINE A == Ways!split(base)
<1>1. base \o t \in Str
  BY Joined
<1>2. p \in Str /\ Ways!split(p) = Ways!split(base \o t)
  BY <1>1, SplitEnd DEF Follows
<1>3. Ways!split(base \o t) = A \o L
  BY SplitConcat
<1>4. Ways!Meaning(p) = Meant(Len(A \o L), A \o L)
  BY <1>2, <1>3, MeaningIs
<1>5. A \in Seq(Piece) /\ Ways!Meaning(base) = Meant(Len(A), A)
  BY MeaningIs
<1> HIDE DEF A
<1>6. Meant(Len(A \o L), A \o L).names = Meant(Len(A), A).names \o L
  BY <1>5, MeantPlain
<1>7. QED
  BY <1>4, <1>5, <1>6 DEF Adds

Came(way, from, up) == Walked(Len(Ways!split(way)), Ways!split(way), Ways!Pushed(from), up)

Ended(way, from, w, r) ==
    /\ way = <<>> => r.path = from /\ ~r.undefined
    /\ way # <<>> /\ from = <<>> => r.path = Ways!Pushed(from) /\ r.undefined
    /\ way # <<>> /\ from # <<>> /\ w.left => r.path = Ways!Pushed(from) /\ r.undefined = w.undefined
    /\ way # <<>> /\ from # <<>> /\ ~w.left /\ (w.undefined \/ Ways!EndsIn(way, "/"))
          => r.path = w.path /\ r.undefined = w.undefined
    /\ way # <<>> /\ from # <<>> /\ ~w.left /\ ~w.undefined /\ ~Ways!EndsIn(way, "/")
          => \/ w.path = <<>> /\ r.path = w.path /\ r.undefined
             \/ w.path # <<>> /\ r.path = Ways!Popped(w.path) /\ ~r.undefined

LEMMA ResolvedIs ==
  ASSUME NEW way \in Str, NEW from \in Str, NEW up \in BOOLEAN,
         NEW w, w = Came(way, from, up), NEW r, r = Ways!Resolved(way, from, up)
  PROVE  /\ w \in Ways!States /\ w.path \in Str
         /\ Ended(way, from, w, r)
         /\ r.path \in Str
<1> DEFINE pieces == Ways!split(way)
           root == Ways!Pushed(from)
<1>1. pieces \in Seq(Piece) /\ root \in Str
  BY SplitType, SplitEnd
<1>2. Len(pieces) \in 0..Len(pieces)
  BY <1>1
<1>3. w \in Ways!States
  BY <1>1, <1>2, WalkSteps DEF Came
<1>4. w.path \in Str /\ w = [path |-> w.path, left |-> w.left, undefined |-> w.undefined]
  BY <1>3 DEF Ways!States, Str
<1>5. r = IF way = <<>> THEN [Start(root) EXCEPT !.path = from]
          ELSE IF from = <<>> THEN [Start(root) EXCEPT !.undefined = TRUE]
          ELSE IF w.left THEN [w EXCEPT !.path = root]
          ELSE IF w.undefined \/ Ways!EndsIn(way, "/") THEN w
          ELSE IF w.path = <<>> THEN [w EXCEPT !.undefined = TRUE]
          ELSE [w EXCEPT !.path = Ways!Popped(@)]
  BY DEF Ways!Resolved, Came, Walked, Start
<1>6. Ways!Popped(w.path) \in Str
  BY <1>4, SplitEnd
<1> HIDE DEF root, pieces
<1>7. Start(root) = [path |-> root, left |-> FALSE, undefined |-> FALSE]
  BY DEF Start
<1> DEFINE q == Ways!Popped(w.path)
           v == Start(root)
           ends == Ways!EndsIn(way, "/")
           there == way # <<>> /\ from # <<>>
           alive == ~w.left /\ ~w.undefined /\ ~ends
<1>8. /\ way = <<>> => r = [v EXCEPT !.path = from]
      /\ way # <<>> /\ from = <<>> => r = [v EXCEPT !.undefined = TRUE]
      /\ there /\ w.left => r = [w EXCEPT !.path = root]
      /\ there /\ ~w.left /\ (w.undefined \/ ends) => r = w
      /\ there /\ alive /\ w.path = <<>> => r = [w EXCEPT !.undefined = TRUE]
      /\ there /\ alive /\ w.path # <<>> => r = [w EXCEPT !.path = q]
  <2>1. way = <<>> => r = [v EXCEPT !.path = from]
    BY <1>5
  <2>2. way # <<>> /\ from = <<>> => r = [v EXCEPT !.undefined = TRUE]
    BY <1>5
  <2>3. there /\ w.left => r = [w EXCEPT !.path = root]
    BY <1>5
  <2>4. there /\ ~w.left /\ (w.undefined \/ ends) => r = w
    BY <1>5
  <2>5. there /\ alive /\ w.path = <<>> => r = [w EXCEPT !.undefined = TRUE]
    BY <1>5
  <2>6. there /\ alive /\ w.path # <<>> => r = [w EXCEPT !.path = q]
    BY <1>5
  <2>7. QED
    BY <2>1, <2>2, <2>3, <2>4, <2>5, <2>6
<1>9. q \in Str
  BY <1>6
<1> HIDE DEF q
<1>10. /\ [v EXCEPT !.path = from].path = from /\ [v EXCEPT !.path = from].undefined = FALSE
       /\ [v EXCEPT !.undefined = TRUE].path = root /\ [v EXCEPT !.undefined = TRUE].undefined = TRUE
  BY <1>7
<1>11. /\ [w EXCEPT !.path = root].path = root /\ [w EXCEPT !.path = root].undefined = w.undefined
       /\ [w EXCEPT !.undefined = TRUE].path = w.path /\ [w EXCEPT !.undefined = TRUE].undefined = TRUE
       /\ [w EXCEPT !.path = q].path = q /\ [w EXCEPT !.path = q].undefined = w.undefined
  BY <1>4
<1>12. w.left \in BOOLEAN /\ w.undefined \in BOOLEAN
  BY <1>3 DEF Ways!States, Str
<1>13. ends \in BOOLEAN
  BY DEF Ways!EndsIn
<1> HIDE DEF v, ends
<1>14. /\ way = <<>> => r.path = from /\ r.undefined = FALSE
       /\ way # <<>> /\ from = <<>> => r.path = root /\ r.undefined = TRUE
       /\ there /\ w.left => r.path = root /\ r.undefined = w.undefined
       /\ there /\ ~w.left /\ (w.undefined \/ ends) => r.path = w.path /\ r.undefined = w.undefined
       /\ there /\ alive /\ w.path = <<>> => r.path = w.path /\ r.undefined = TRUE
       /\ there /\ alive /\ w.path # <<>> => r.path = q /\ r.undefined = w.undefined
  BY <1>8, <1>10, <1>11
<1>15. r.path \in Str
  <2>1. r.path = from \/ r.path = root \/ r.path = w.path \/ r.path = q
    BY <1>12, <1>13, <1>14
  <2>2. QED
    BY <1>1, <1>4, <1>9, <2>1 DEF root
<1>16. Ended(way, from, w, r)
  BY <1>12, <1>14 DEF Ended, root, q, ends
<1>17. QED
  BY <1>3, <1>4, <1>15, <1>16

(* A path that may not go up comes to nothing outside the directory that it is *)
(* relative to, whatever that directory is called: one that would lead out of it *)
(* at any moment is that directory, any other is what it means in it             *)
(* (absolutePath of src/Util/File.cpp, can_access_parent = false).  For a        *)
(* directory of no name, which the code has for the root if the current          *)
(* directory came to it by `..', the resolving is undefined instead, and for no  *)
(* other: it looks at the last character of the name.                            *)
THEOREM PathStaysInside ==
  ASSUME NEW way \in Str, NEW from \in Str, NEW r, r = Ways!Resolved(way, from, FALSE)
  PROVE  /\ r.undefined <=> (from = <<>> /\ way # <<>>)
         /\ ~r.undefined =>
               Ways!Meaning(r.path).names
                 = IF Ways!Meaning(way).outside > 0 THEN Ways!Meaning(from).names
                   ELSE Ways!Meaning(from).names \o Ways!Meaning(way).names
<1> DEFINE base == Ways!Pushed(from)
           w == Came(way, from, FALSE)
           m == Ways!Meaning(way)
           f == Ways!Meaning(from).names
<1>1. base \in Str /\ Closed(base) /\ base # <<>> /\ Ways!split(base) = Ways!split(from)
  BY SplitEnd
<1>2. Ways!Meaning(base).names = f /\ f \in Seq(Plain)
  BY <1>1, MeaningIs
<1>3. m \in Meanings /\ m.names \in Seq(Plain) /\ m.outside \in Nat /\ Ways!split(way) \in Seq(Piece)
      /\ m = Meant(Len(Ways!split(way)), Ways!split(way))
  BY MeaningIs
<1>4. Fits(base, <<>>, FALSE, w, m)
  <2>1. base \o <<>> = base
    <3>1. base \in Seq(Chr)
      BY <1>1 DEF Str, Chr, Ways!String
    <3> HIDE DEF base
    <3>2. QED
      BY <3>1, ConcatEmptySeq
  <2>2. Clean(<<>>) /\ Ways!split(<<>>) = <<>>
    BY SplitNothing
  <2> DEFINE pieces == Ways!split(way)
  <2>3. pieces \in Seq(Piece) /\ m = Meant(Len(pieces), pieces)
        /\ w = Walked(Len(pieces), pieces, base, FALSE)
    BY <1>3 DEF Came
  <2> HIDE DEF base, pieces, w, m
  <2>4. \A root, F : root = base \o <<>> /\ F = Ways!split(<<>>) =>
          Fits(base, F, FALSE, Walked(Len(pieces), pieces, root, FALSE), Meant(Len(pieces), pieces))
    BY <1>1, <2>2, <2>3, Fitting
  <2>5. QED
    BY <2>1, <2>2, <2>3, <2>4
<1>5. /\ way = <<>> => r.path = from /\ ~r.undefined
      /\ way # <<>> /\ from = <<>> => r.undefined
      /\ way # <<>> /\ from # <<>> /\ w.left => r.path = base /\ r.undefined = w.undefined
      /\ way # <<>> /\ from # <<>> /\ ~w.left /\ ~w.undefined /\ w.path # <<>> =>
            ~r.undefined /\ (r.path = w.path \/ r.path = Ways!Popped(w.path))
  <2>1. \A up \in BOOLEAN : Ended(way, from, Came(way, from, up), Ways!Resolved(way, from, up))
    BY ResolvedIs
  <2>2. Ended(way, from, w, r)
    BY <2>1
  <2>3. QED
    BY <2>2 DEF Ended
<1>6. m.outside > 0 => w.left /\ ~w.undefined
  BY <1>4 DEF Fits
<1>7. m.outside = 0 => /\ ~w.left /\ ~w.undefined
                       /\ \E t : Clean(t) /\ w.path = base \o t /\ Ways!split(t) = m.names
  <2> SUFFICES ASSUME m.outside = 0
               PROVE  /\ ~w.left /\ ~w.undefined
                      /\ \E t : Clean(t) /\ w.path = base \o t /\ Ways!split(t) = m.names
    OBVIOUS
  <2>1. m.outside <= Len(<<>>) /\ Len(<<>>) = 0
    <3>1. Len(<<>>) = 0
      BY EmptySeq
    <3>2. QED
      BY <3>1
  <2>2. At(base, <<>>, w, m)
    BY <1>4, <2>1 DEF Fits
  <2>3. Left(<<>>, m) = m.names
    <3> DEFINE N == m.names
               A == SubSeq(<<>>, 1, 0)
    <3>1. A \in Seq(Plain) /\ Len(A) = 0
      BY <2>1, EmptySeq, Prefix, 0 \in 0..Len(<<>>)
    <3>2. A = <<>>
      BY <3>1, EmptySeq
    <3>3. Left(<<>>, m) = A \o N
      <4>1. Len(<<>>) - m.outside = 0
        BY <2>1
      <4>2. QED
        BY <4>1 DEF Left
    <3>4. N \in Seq(Plain)
      BY <1>3
    <3> HIDE DEF A, N
    <3>5. <<>> \o N = N
      BY <3>4, ConcatEmptySeq
    <3>6. QED
      BY <3>2, <3>3, <3>5 DEF N
  <2>4. QED
    BY <2>2, <2>3 DEF At
<1>8. way = <<>> => m.names = <<>> /\ m.outside = 0
  BY NoMeaning
<1>9. f \o <<>> = f
  <2> HIDE DEF f
  <2>1. QED
    BY <1>2, ConcatEmptySeq
<1> HIDE DEF base, w, m, f
<1>10. CASE way = <<>>
  <2>1. Ways!Meaning(r.path).names = f
    BY <1>5, <1>10 DEF f
  <2>2. ~(m.outside > 0) /\ f \o m.names = f
    <3>1. m.names = <<>> /\ m.outside = 0
      BY <1>8, <1>10
    <3>2. QED
      BY <1>9, <3>1
  <2>3. QED
    BY <1>5, <1>10, <2>1, <2>2 DEF f, m
<1>11. CASE way # <<>> /\ from = <<>>
  BY <1>5, <1>11
<1>12. CASE way # <<>> /\ from # <<>> /\ m.outside > 0
  <2>1. Ways!Meaning(r.path).names = f /\ ~r.undefined
    BY <1>2, <1>5, <1>6, <1>12
  <2>2. QED
    BY <1>12, <2>1 DEF f, m
<1>13. CASE way # <<>> /\ from # <<>> /\ m.outside = 0
  <2>1. PICK t : Clean(t) /\ w.path = base \o t /\ Ways!split(t) = m.names
    BY <1>7, <1>13
  <2>2. t \in Str
    BY <2>1 DEF Clean
  <2>3. w.path # <<>>
    <3>1. base \in Seq(Chr) /\ t \in Seq(Chr)
      BY <1>1, <2>2 DEF Str, Chr, Ways!String
    <3>2. base \o t # <<>>
      BY <1>1, <3>1, ConcatEmptySeq, EmptySeq, ConcatProperties
    <3>3. QED
      BY <2>1, <3>2
  <2>4. Follows(r.path, base, t) /\ ~r.undefined
    <3>1. ~r.undefined /\ (r.path = w.path \/ r.path = Ways!Popped(w.path))
      BY <1>5, <1>7, <1>13, <2>3
    <3>2. QED
      BY <2>1, <3>1 DEF Follows
  <2>5. Ways!Meaning(r.path).names = f \o m.names
    <3> DEFINE N == m.names
    <3>1. N \in Seq(Plain) /\ Ways!split(t) = N
      BY <1>3, <2>1
    <3> DEFINE p == r.path
    <3>2. Follows(p, base, t)
      BY <2>4
    <3> HIDE DEF N, p
    <3>3. Adds(p, base, N)
      BY <1>1, <2>2, <3>1, <3>2, MeaningConcat
    <3>4. QED
      BY <1>2, <3>3 DEF N, p, Adds
  <2>6. ~(m.outside > 0)
    BY <1>13
  <2>7. QED
    BY <1>13, <2>4, <2>5, <2>6 DEF f, m
<1>14. QED
  <2>1. m.outside > 0 \/ m.outside = 0
    BY <1>3
  <2>2. QED
    BY <1>10, <1>11, <1>12, <1>13, <2>1

(* A directory is the root and a way down from it. *)
LEMMA DirectoryIs ==
  ASSUME NEW from \in Str, Ways!Directory(from)
  PROVE  /\ Single(Ways!Pushed(from))
         /\ Slash \in Str /\ Closed(Slash) /\ Slash # <<>> /\ Ways!split(Slash) = <<>>
         /\ \E t : /\ Clean(t) /\ Ways!Pushed(from) = Slash \o t
                   /\ Ways!split(t) = Ways!split(from) /\ Ways!split(t) \in Seq(Plain)
<1> DEFINE p == Ways!Pushed(from)
<1>1. /\ p \in Str /\ Closed(p) /\ p # <<>> /\ Ways!split(p) = Ways!split(from)
  BY SplitEnd
<1>2. p[1] = "/" /\ Single(p)
  BY DEF Ways!Directory, Single
<1>3. \A i \in DOMAIN Ways!split(from) : Ways!split(from)[i] \notin Ways!Dots
  BY DEF Ways!Directory
<1>4. Ways!split(from) \in Seq(Piece)
  BY SplitType
<1> HIDE DEF p
<1>5. p \in Seq(Chr) /\ Len(p) \in Nat /\ Len(p) >= 1
  <2>1. p \in Seq(Chr) /\ Len(p) \in Nat
    BY <1>1 DEF Str, Chr, Ways!String
  <2>2. Len(p) # 0
    BY <1>1, <2>1, EmptySeq
  <2>3. QED
    BY <2>1, <2>2
<1>6. Slash \in Str /\ Len(Slash) = 1 /\ Slash[1] = "/"
  BY SlashIs
<1>7. Closed(Slash) /\ Slash # <<>> /\ Ways!split(Slash) = <<>>
  <2>1. Slash # <<>>
    BY <1>6, EmptySeq
  <2>2. Closed(Slash)
    BY <1>6 DEF Closed
  <2>3. Ways!Pushed(<<>>) = Slash
    <3>1. Ways!Pushed(<<>>) = <<>> \o Slash
      BY DEF Ways!Pushed, Ways!EndsIn, Slash
    <3>2. Slash \in Seq(Chr)
      BY <1>6 DEF Str, Chr, Ways!String
    <3> HIDE DEF Slash
    <3>3. <<>> \o Slash = Slash
      BY <3>2, ConcatEmptySeq
    <3>4. QED
      BY <3>1, <3>3
  <2>4. <<>> \in Str /\ Ways!split(<<>>) = <<>>
    BY SplitNothing
  <2>5. Ways!split(Ways!Pushed(<<>>)) = Ways!split(<<>>)
    BY <2>4, SplitEnd
  <2>6. QED
    BY <2>1, <2>2, <2>3, <2>4, <2>5
<1> DEFINE t == SubSeq(p, 2, Len(p))
<1>8. t \in Seq(Chr) /\ Len(t) = Len(p) - 1 /\ \A i \in 1..(Len(p) - 1) : t[i] = p[i + 1]
  <2>1. 2 \in 1..(Len(p) + 1) /\ Len(p) \in 1..Len(p)
    BY <1>5
  <2>2. t = [i \in 1..(Len(p) - 1) |-> p[i + 1]]
    <3>1. t = [i \in 1..(Len(p) - 2 + 1) |-> p[i + 2 - 1]]
      BY <1>5
    <3>2. Len(p) - 2 + 1 = Len(p) - 1 /\ \A i \in 1..(Len(p) - 1) : i + 2 - 1 = i + 1
      BY <1>5
    <3>3. QED
      BY <1>5
  <2> HIDE DEF t
  <2>3. \A i \in 1..(Len(p) - 1) : p[i + 1] \in Chr
    BY <1>5
  <2>4. t \in [1..(Len(p) - 1) -> Chr] /\ Len(p) - 1 \in Nat
    BY <1>5, <2>2, <2>3
  <2>5. t \in Seq(Chr)
    BY <2>4
  <2>6. Len(t) = Len(p) - 1
    BY <2>4, <2>5
  <2>7. QED
    BY <2>2, <2>5, <2>6
<1> HIDE DEF t
<1>9. t \in Str
  BY <1>8 DEF Str, Chr, Ways!String
<1>10. p = Slash \o t
  <2> DEFINE q == Slash \o t
  <2>1. /\ q \in Str /\ Len(q) = Len(p)
        /\ \A i \in 1..1 : q[i] = Slash[i]
        /\ \A i \in 1..Len(t) : q[1 + i] = t[i]
    <3>1. q \in Str /\ Len(q) = Len(Slash) + Len(t)
      BY <1>6, <1>9, Joined
    <3>2. \A i \in 1..Len(Slash) : q[i] = Slash[i]
      BY <1>6, <1>9, Joined
    <3>3. \A i \in 1..Len(t) : q[Len(Slash) + i] = t[i]
      BY <1>6, <1>9, Joined
    <3> HIDE DEF q
    <3>4. QED
      BY <1>5, <1>6, <1>8, <3>1, <3>2, <3>3
  <2>2. q \in Seq(Chr)
    BY <2>1 DEF Str, Chr, Ways!String
  <2> HIDE DEF q
  <2>3. ASSUME NEW i \in 1..Len(p) PROVE p[i] = q[i]
    <3>1. CASE i = 1
      BY <1>2, <1>6, <2>1, <3>1
    <3>2. CASE i # 1
      <4>1. i - 1 \in 1..Len(t) /\ i - 1 \in 1..(Len(p) - 1) /\ 1 + (i - 1) = i /\ (i - 1) + 1 = i
        BY <1>5, <1>8, <3>2
      <4>2. q[1 + (i - 1)] = t[i - 1] /\ t[i - 1] = p[(i - 1) + 1]
        BY <1>8, <2>1, <4>1
      <4>3. QED
        BY <4>1, <4>2
    <3>3. QED
      BY <3>1, <3>2
  <2>4. p = q
    BY <1>5, <2>1, <2>2, <2>3, SeqEqual
  <2>5. QED
    BY <2>4 DEF q
<1>11. Clean(t)
  <2>1. Closed(t)
    <3>1. t = <<>> \/ Len(t) >= 1
      BY <1>8, EmptySeq
    <3>2. ASSUME Len(t) >= 1 PROVE t[Len(t)] = "/"
      <4>1. Len(t) \in 1..(Len(p) - 1) /\ Len(t) + 1 = Len(p)
        BY <1>5, <1>8, <3>2
      <4>2. t[Len(t)] = p[Len(p)]
        BY <1>8, <4>1
      <4>3. QED
        BY <1>1, <4>2 DEF Closed
    <3>3. QED
      BY <3>1, <3>2 DEF Closed
  <2>2. Single(t)
    <3> SUFFICES ASSUME NEW i \in 2..Len(t) PROVE ~(t[i - 1] = "/" /\ t[i] = "/")
      BY DEF Single
    <3>1. i - 1 \in 1..(Len(p) - 1) /\ i \in 1..(Len(p) - 1) /\ i + 1 \in 2..Len(p)
          /\ (i - 1) + 1 = (i + 1) - 1
      BY <1>5, <1>8
    <3>2. t[i - 1] = p[(i + 1) - 1] /\ t[i] = p[i + 1]
      BY <1>8, <3>1
    <3>3. QED
      BY <1>2, <3>1, <3>2 DEF Single
  <2>3. t # <<>> => t[1] # "/"
    <3> SUFFICES ASSUME t # <<>> PROVE t[1] # "/"
      OBVIOUS
    <3>1. Len(t) # 0
      BY <1>8, EmptySeq
    <3>2. 1 \in 1..(Len(p) - 1) /\ 2 \in 2..Len(p) /\ 1 + 1 = 2 /\ 2 - 1 = 1
      BY <1>5, <1>8, <3>1
    <3>3. t[1] = p[2]
      BY <1>8, <3>2
    <3>4. ~(p[2 - 1] = "/" /\ p[2] = "/")
      BY <1>2, <3>2 DEF Single
    <3>5. QED
      BY <1>2, <3>2, <3>3, <3>4
  <2>4. QED
    BY <1>9, <2>1, <2>2, <2>3 DEF Clean
<1>12. Ways!split(t) = Ways!split(from)
  <2> DEFINE S == Ways!split(t)
  <2>1. Ways!split(Slash \o t) = Ways!split(Slash) \o S
    BY <1>6, <1>7, <1>9, SplitConcat
  <2>2. S \in Seq(Piece)
    BY <1>9, SplitType
  <2> HIDE DEF S
  <2>3. <<>> \o S = S
    BY <2>2, ConcatEmptySeq
  <2>4. Ways!split(p) = S
    BY <1>7, <1>10, <2>1, <2>3
  <2>5. QED
    BY <1>1, <2>4 DEF S
<1>13. Ways!split(from) \in Seq(Plain)
  <2> DEFINE F == Ways!split(from)
  <2>1. F \in Seq(Piece) /\ \A i \in DOMAIN F : F[i] \notin Ways!Dots
    BY <1>3, <1>4
  <2> HIDE DEF F
  <2>2. \A i \in 1..Len(F) : F[i] \in Plain
    <3> SUFFICES ASSUME NEW i \in 1..Len(F) PROVE F[i] \in Plain
      OBVIOUS
    <3>1. F[i] \in Piece /\ F[i] \notin Ways!Dots
      BY <2>1
    <3>2. QED
      BY <3>1 DEF Ways!Dots, Plain, Here, Upward
  <2>3. F \in Seq(Plain)
    <3>1. Len(F) \in Nat /\ F = [i \in 1..Len(F) |-> F[i]]
      BY <2>1
    <3>2. F \in [1..Len(F) -> Plain]
      BY <2>2, <3>1
    <3>3. QED
      BY <3>1, <3>2
  <2>4. QED
    BY <2>3 DEF F
<1>14. QED
  BY <1>2, <1>6, <1>7, <1>10, <1>11, <1>12, <1>13 DEF p

(* Where a path that may go up comes to. *)
LEMMA Outside ==
  ASSUME NEW way \in Str, NEW from \in Str, Ways!Directory(from),
         NEW r, r = Ways!Resolved(way, from, TRUE),
         Ways!Meaning(way).outside <= Len(Ways!Meaning(from).names)
  PROVE  /\ r.undefined <=> (from = <<>> /\ way # <<>>)
         /\ ~r.undefined =>
               Ways!Meaning(r.path).names
                 = SubSeq(Ways!Meaning(from).names, 1,
                          Len(Ways!Meaning(from).names) - Ways!Meaning(way).outside)
                   \o Ways!Meaning(way).names
<1> DEFINE root == Ways!Pushed(from)
           w == Came(way, from, TRUE)
           m == Ways!Meaning(way)
           F == Ways!split(from)
<1>1. /\ Slash \in Str /\ Closed(Slash) /\ Slash # <<>> /\ Ways!split(Slash) = <<>>
      /\ \E t : /\ Clean(t) /\ root = Slash \o t /\ Ways!split(t) = F
                /\ Ways!split(t) \in Seq(Plain)
  BY DirectoryIs
<1>2. PICK t0 : Clean(t0) /\ root = Slash \o t0 /\ Ways!split(t0) = F
  BY <1>1
<1>3. F \in Seq(Plain)
  BY <1>1
<1>4. Ways!Meaning(from).names = F
  <2>1. Ways!Meaning(from) = Meant(Len(F), F)
    BY MeaningIs
  <2> HIDE DEF F
  <2>2. <<>> \in Seq(Piece) /\ Len(<<>>) = 0
    BY EmptySeq
  <2>3. Meant(Len(<<>> \o F), <<>> \o F).names = Meant(Len(<<>>), <<>>).names \o F
    BY <1>3, <2>2, MeantPlain
  <2>4. Meant(Len(<<>>), <<>>).names = <<>>
    <3>1. Meant(0, <<>>) = Nothing
      BY <2>2, MeaningSteps
    <3>2. QED
      BY <2>2, <3>1 DEF Nothing
  <2>5. <<>> \o F = F
    BY <1>3, ConcatEmptySeq
  <2>6. QED
    BY <2>1, <2>3, <2>4, <2>5
<1>5. m \in Meanings /\ m.names \in Seq(Plain) /\ m.outside \in Nat /\ Ways!split(way) \in Seq(Piece)
      /\ m = Meant(Len(Ways!split(way)), Ways!split(way))
  BY MeaningIs
<1>6. Fits(Slash, F, TRUE, w, m)
  <2> DEFINE pieces == Ways!split(way)
  <2>1. pieces \in Seq(Piece) /\ m = Meant(Len(pieces), pieces)
        /\ w = Walked(Len(pieces), pieces, root, TRUE)
    BY <1>5 DEF Came
  <2> HIDE DEF root, pieces, w, m, F
  <2>2. Fits(Slash, F, TRUE, Walked(Len(pieces), pieces, root, TRUE), Meant(Len(pieces), pieces))
    BY <1>1, <1>2, <2>1, Fitting
  <2>3. QED
    BY <2>1, <2>2
<1>7. Ended(way, from, w, r)
  BY ResolvedIs
<1>8. m.outside <= Len(F)
  BY <1>4
<1>9. Left(F, m) \in Seq(Plain)
  <2> DEFINE k == Len(F) - m.outside
             A == SubSeq(F, 1, k)
             N == m.names
  <2>1. N \in Seq(Plain) /\ k \in 0..Len(F)
    BY <1>3, <1>5, <1>8
  <2> HIDE DEF F, N, k
  <2>2. A \in Seq(Plain)
    BY <1>3, <2>1, Prefix
  <2> HIDE DEF A
  <2>3. A \o N \in Seq(Plain)
    BY <2>1, <2>2, ConcatProperties
  <2>4. QED
    BY <2>3 DEF A, N, k, Left
<1>10. ~w.left /\ ~w.undefined /\ \E t : Clean(t) /\ w.path = Slash \o t /\ Ways!split(t) = Left(F, m)
  BY <1>6, <1>8 DEF Fits, At
<1> HIDE DEF w, m, F
<1>11. CASE way = <<>>
  <2>1. m.names = <<>> /\ m.outside = 0
    BY <1>11, NoMeaning DEF m
  <2>2. r.path = from /\ ~r.undefined
    BY <1>7, <1>11 DEF Ended
  <2>3. Left(F, m) = F
    <3> DEFINE A == SubSeq(F, 1, Len(F))
    <3>1. Len(F) \in 0..Len(F) /\ Len(F) - 0 = Len(F)
      BY <1>3
    <3>2. A \in Seq(Plain) /\ Len(A) = Len(F) /\ \A i \in 1..Len(F) : A[i] = F[i]
      BY <1>3, <3>1, Prefix
    <3>3. Left(F, m) = A \o <<>>
      BY <2>1, <3>1 DEF Left
    <3> HIDE DEF A
    <3>4. A = F
      BY <1>3, <3>2, SeqEqual
    <3>5. A \o <<>> = A
      BY <3>2, ConcatEmptySeq
    <3>6. QED
      BY <3>3, <3>4, <3>5
  <2>4. Ways!Meaning(r.path).names = Left(F, m)
    BY <1>4, <2>2, <2>3
  <2>5. QED
    BY <1>4, <1>11, <2>2, <2>4 DEF Left, m
<1>12. CASE way # <<>> /\ from # <<>>
  <2>1. PICK t : Clean(t) /\ w.path = Slash \o t /\ Ways!split(t) = Left(F, m)
    BY <1>10
  <2>2. t \in Str
    BY <2>1 DEF Clean
  <2> DEFINE p == r.path
             L == Left(F, m)
  <2>3. Follows(p, Slash, t) /\ ~r.undefined
    <3>1. w.path # <<>>
      <4>1. Slash \in Seq(Chr) /\ t \in Seq(Chr)
        BY <1>1, <2>2 DEF Str, Chr, Ways!String
      <4> HIDE DEF Slash
      <4>2. Slash \o t # <<>>
        BY <1>1, <4>1, ConcatEmptySeq, EmptySeq, ConcatProperties
      <4>3. QED
        BY <2>1, <4>2
    <3>2. ~r.undefined /\ (r.path = w.path \/ r.path = Ways!Popped(w.path))
      BY <1>7, <1>10, <1>12, <3>1 DEF Ended
    <3>3. QED
      BY <2>1, <3>2 DEF Follows
  <2>4. L \in Seq(Plain) /\ Ways!split(t) = L
    BY <1>9, <2>1
  <2> HIDE DEF p, L
  <2>5. Ways!Meaning(p).names = Ways!Meaning(Slash).names \o L
    <3>1. Adds(p, Slash, L)
      BY <1>1, <2>2, <2>3, <2>4, MeaningConcat
    <3>2. QED
      BY <3>1 DEF Adds
  <2>6. Ways!Meaning(Slash).names = <<>>
    <3>1. <<>> \in Str /\ Ways!split(<<>>) = <<>>
      BY SplitNothing
    <3>2. Ways!Meaning(Slash) = Ways!Meaning(<<>>)
      BY <1>1, <3>1, MeaningIs
    <3>3. QED
      BY <3>2, NoMeaning
  <2>7. <<>> \o L = L
    BY <2>4, ConcatEmptySeq
  <2>8. Ways!Meaning(p).names = L
    BY <2>5, <2>6, <2>7
  <2>9. ~r.undefined /\ Ways!Meaning(r.path).names = Left(F, m)
    BY <2>3, <2>8 DEF p, L
  <2> DEFINE R == Left(F, m)
  <2>10. R = SubSeq(F, 1, Len(F) - Ways!Meaning(way).outside) \o Ways!Meaning(way).names
    BY DEF Left, m
  <2> HIDE DEF R
  <2>11. QED
    BY <1>4, <1>12, <2>9, <2>10 DEF R
<1>13. CASE way # <<>> /\ from = <<>>
  BY <1>7, <1>13 DEF Ended
<1>14. QED
  BY <1>11, <1>12, <1>13

(* A path that does not end as a directory comes to no directory, but when it *)
(* has been sent back.                                                        *)
LEMMA Ending ==
  ASSUME NEW way \in Str, NEW from \in Str, NEW up \in BOOLEAN, Single(Ways!Pushed(from)),
         NEW r, r = Ways!Resolved(way, from, up), ~r.undefined, Ways!EndsIn(r.path, "/")
  PROVE  \/ way = <<>> \/ Ways!EndsIn(way, "/")
         \/ ~up /\ Ways!Meaning(way).outside > 0
<1> DEFINE root == Ways!Pushed(from)
           w == Came(way, from, up)
           m == Ways!Meaning(way)
           pieces == Ways!split(way)
<1>1. root \in Str /\ Closed(root) /\ root # <<>>
  BY SplitEnd
<1>2. pieces \in Seq(Piece) /\ m \in Meanings /\ m = Meant(Len(pieces), pieces) /\ m.outside \in Nat
      /\ w = Walked(Len(pieces), pieces, root, up)
  BY MeaningIs DEF Came
<1>3. Ended(way, from, w, r) /\ w.path \in Str
  BY ResolvedIs
<1> HIDE DEF root, w, m, pieces
<1>4. Single(w.path) /\ (w.undefined => w.path = <<>>) /\ (w.left => ~up)
  BY <1>1, <1>2, WalkSingle DEF root
<1>5. ~up /\ w.left => m.outside > 0
  <2> SUFFICES ASSUME ~up, w.left, ~(m.outside > 0) PROVE FALSE
    OBVIOUS
  <2>1. m.outside = 0
    BY <1>2
  <2>2. root \o <<>> = root
    <3>1. root \in Seq(Chr)
      BY <1>1 DEF Str, Chr, Ways!String
    <3>2. QED
      BY <3>1, ConcatEmptySeq
  <2>3. Clean(<<>>) /\ Ways!split(<<>>) = <<>>
    BY SplitNothing
  <2>4. up = FALSE
    OBVIOUS
  <2>5. \A b, F : b = root \o <<>> /\ F = Ways!split(<<>>) =>
          Fits(root, F, FALSE, Walked(Len(pieces), pieces, b, FALSE), Meant(Len(pieces), pieces))
    BY <1>1, <1>2, <2>3, Fitting
  <2>6. Fits(root, <<>>, FALSE, w, m)
    BY <1>2, <2>2, <2>3, <2>4, <2>5
  <2>7. m.outside <= Len(<<>>)
    BY <2>1, EmptySeq
  <2>8. QED
    BY <2>6, <2>7 DEF Fits, At
<1>6. ~w.left /\ w.undefined => ~Ways!EndsIn(w.path, "/")
  BY <1>4 DEF Ways!EndsIn
<1>7. ~Ways!EndsIn(Ways!Popped(w.path), "/")
  BY <1>3, <1>4, SinglePopped
<1>8. SUFFICES ASSUME way # <<>>, ~Ways!EndsIn(way, "/") PROVE ~up /\ m.outside > 0
  BY DEF m
<1>9. w.left
  <2> SUFFICES ASSUME ~w.left PROVE FALSE
    OBVIOUS
  <2>1. from # <<>>
    BY <1>3, <1>8 DEF Ended
  <2>2. CASE w.undefined
    BY <1>3, <1>6, <1>8, <2>1, <2>2 DEF Ended
  <2>3. CASE ~w.undefined
    BY <1>3, <1>7, <1>8, <2>1, <2>3 DEF Ended
  <2>4. QED
    BY <2>2, <2>3
<1>10. QED
  BY <1>4, <1>5, <1>9

LEMMA CurrentPathIs ==
  ASSUME Ways!PathsAssumption, NEW d \in Directories
  PROVE  /\ Ways!CurrentPath(d).path \in Str
         /\ Ways!CurrentPath(d).undefined \/ Ways!Directory(Ways!CurrentPath(d).path)
<1>1. d \in Str /\ exeDir \in Str
      /\ (Ways!CurrentPath(d).undefined \/ Ways!Directory(Ways!CurrentPath(d).path))
  BY DEF Ways!PathsAssumption, Str
<1>2. Ways!Resolved(d, exeDir, TRUE).path \in Str
  <2>1. \A w, r : w = Came(d, exeDir, TRUE) /\ r = Ways!Resolved(d, exeDir, TRUE) => r.path \in Str
    BY <1>1, ResolvedIs
  <2>2. QED
    BY <2>1
<1>3. Ways!CurrentPath(d).path \in Str
  <2> DEFINE relative == d # <<>> /\ d[1] = "."
  <2>1. CASE relative
    BY <1>2, <2>1 DEF Ways!CurrentPath
  <2>2. CASE ~relative
    BY <1>1, <2>2 DEF Ways!CurrentPath
  <2>3. QED
    BY <2>1, <2>2
<1>4. QED
  BY <1>1, <1>3

(* Paths are resolved to what they mean: one that may not go up stays inside,  *)
(* one that may does what it says as long as it does not go beyond the root,   *)
(* and the result ends with a slash only if the path does or has been sent     *)
(* back; this is undefined if the current directory has come to no name or     *)
(* its own resolving was undefined, and else never (absolutePath of            *)
(* src/Util/File.cpp), for any characters, for paths of any length and         *)
(* directories as the system names them.                                       *)
THEOREM PathsResolved ==
  ASSUME Ways!PathsAssumption
  PROVE  Ways!Spec => []Ways!PathsRight
<1>1. Ways!Init => Ways!PathsRight
  BY DEF Ways!Init, Ways!PathsRight
<1>2. Ways!PathsRight /\ [Ways!Next]_asked => Ways!PathsRight'
  <2> SUFFICES ASSUME Ways!PathsRight, [Ways!Next]_asked
               PROVE  Ways!PathsRight'
    OBVIOUS
  <2>1. CASE Ways!Ask
    <3>1. PICK way \in PathTexts, d \in Directories, up \in BOOLEAN :
             asked' = [path |-> way, from |-> Ways!CurrentPath(d), up |-> up,
                       result |-> Ways!absolutePath(way, d, up)]
      BY <2>1 DEF Ways!Ask
    <3> DEFINE current == Ways!CurrentPath(d)
               from == current.path
               r == Ways!Resolved(way, from, up)
               F == Ways!Meaning(from).names
               M == Ways!Meaning(way)
    <3>2. way \in Str /\ from \in Str /\ (current.undefined \/ Ways!Directory(from))
      BY CurrentPathIs DEF Ways!PathsAssumption, Str
    <3>3. /\ asked' # <<>>
          /\ asked'.path = way /\ asked'.from = current /\ asked'.up = up
          /\ asked'.result = IF current.undefined THEN current ELSE r
      BY <3>1 DEF Ways!absolutePath
    <3>4. CASE current.undefined
      <4> HIDE DEF current, r
      <4>1. asked'.result = current /\ asked'.result.undefined /\ asked'.from.undefined
        BY <3>3, <3>4
      <4>2. QED
        BY <4>1 DEF Ways!PathsRight
    <3>5. CASE ~current.undefined
      <4>1. Ways!Directory(from)
        BY <3>2, <3>5
      <4>2. asked'.result = r /\ ~asked'.from.undefined /\ asked'.from.path = from
        BY <3>3, <3>5
      <4> HIDE DEF from, current
      <4>3. up = FALSE =>
               /\ r.undefined <=> (from = <<>> /\ way # <<>>)
               /\ ~r.undefined => Ways!Meaning(r.path).names = IF M.outside > 0 THEN F ELSE F \o M.names
        <5>1. \A x : x = Ways!Resolved(way, from, FALSE) =>
                 /\ x.undefined <=> (from = <<>> /\ way # <<>>)
                 /\ ~x.undefined =>
                       Ways!Meaning(x.path).names = IF M.outside > 0 THEN F ELSE F \o M.names
          BY <3>2, PathStaysInside
        <5>2. up = FALSE => r = Ways!Resolved(way, from, FALSE)
          OBVIOUS
        <5> HIDE DEF r, F, M
        <5>3. QED
          BY <5>1, <5>2
      <4>4. up = TRUE /\ M.outside <= Len(F) =>
               /\ r.undefined <=> (from = <<>> /\ way # <<>>)
               /\ ~r.undefined =>
                     Ways!Meaning(r.path).names = SubSeq(F, 1, Len(F) - M.outside) \o M.names
        <5>1. M.outside <= Len(F) =>
               \A x : x = Ways!Resolved(way, from, TRUE) =>
                 /\ x.undefined <=> (from = <<>> /\ way # <<>>)
                 /\ ~x.undefined =>
                       Ways!Meaning(x.path).names = SubSeq(F, 1, Len(F) - M.outside) \o M.names
          BY <3>2, <4>1, Outside
        <5>2. up = TRUE => r = Ways!Resolved(way, from, TRUE)
          OBVIOUS
        <5> HIDE DEF r, F, M
        <5>3. QED
          BY <5>1, <5>2
      <4>5. ~r.undefined /\ Ways!EndsIn(r.path, "/") =>
               \/ way = <<>> \/ Ways!EndsIn(way, "/")
               \/ ~up /\ M.outside > 0
        <5>1. Single(Ways!Pushed(from))
          BY <3>2, <4>1, DirectoryIs
        <5>2. \A x : x = Ways!Resolved(way, from, up) /\ ~x.undefined /\ Ways!EndsIn(x.path, "/") =>
                 \/ way = <<>> \/ Ways!EndsIn(way, "/")
                 \/ ~up /\ M.outside > 0
          BY <3>2, <5>1, Ending
        <5>3. QED
          BY <5>2
      <4>6. asked'.path = way /\ asked'.up = up /\ asked' # <<>>
        BY <3>3
      <4> HIDE DEF r
      <4>7. QED
        BY <4>2, <4>3, <4>4, <4>5, <4>6 DEF Ways!PathsRight
    <3>6. QED
      BY <3>4, <3>5
  <2>2. CASE Ways!Done
    BY <2>2 DEF Ways!Done, Ways!PathsRight
  <2>3. CASE UNCHANGED asked
    BY <2>3 DEF Ways!PathsRight
  <2>4. QED
    BY <2>1, <2>2, <2>3 DEF Ways!Next
<1>3. QED
  BY <1>1, <1>2, PTL DEF Ways!Spec
=============================================================================
