--------------------------- MODULE Shipper_proofs ---------------------------
(***************************************************************************)
(* Type correctness of Shipper for every value of its constants, and, if   *)
(* no disk write fails half way, that no event is lost between the log and *)
(* the store, through crashes, rotations, a full spool and lost answers,   *)
(* and that the spool stays in the order of the log, but for the lines of  *)
(* a stream that was opened after a rotation.                              *)
(***************************************************************************)
EXTENDS Shipper, SequenceTheorems, TLAPS

(* The invariants that TypeOK needs to be inductive.                       *)

\* A log file begins where the files before it end, or later.
LogInv ==
    /\ \A g \in 1 .. active : start[g] <= written
    /\ \A g, h \in 1 .. active : g <= h => start[g] <= start[h]

\* A stream is open, or about to be: where it reads, the checkpoint is not
\* ahead of it, and is at the same line unless the stream strayed.
ReadInv ==
    /\ tail # "idle" => up /\ checkpoint.file \in 1 .. active
    /\ tail = "opening" => checkpoint.offset <= Size(checkpoint.file)
    /\ tail \in {"reading", "save"} =>
          /\ fd <= active
          /\ checkpoint.file <= fd
          /\ checkpoint.file = fd => checkpoint.offset = read /\ read <= Size(fd)
          /\ start[checkpoint.file] + checkpoint.offset <= start[fd] + read
    /\ tail = "save" => read < Size(fd)

TInv == TypeOK /\ LogInv /\ ReadInv

(* With no disk fault, memory and file are one FIFO.                       *)

MemInv ==
    /\ up => pending = spool /\ ~torn
    /\ ~up => pending = <<>>
    /\ Corrupt \notin Range(spool)

BatchInv ==
    /\ flush = "idle" => batch = <<>>
    /\ Len(batch) <= Len(pending)
    /\ \A i \in 1 .. Len(batch) : batch[i] = pending[i]

\* Between append and saveCheckpoint the line at the checkpoint is safe.
SaveInv ==
    tail = "save" => Line \in Noise \cup Range(spool)

SInv == TInv /\ faults = 0 /\ MemInv /\ BatchInv /\ SaveInv /\ TakenIsSafe

-----------------------------------------------------------------------------
(* The constants.                                                          *)

\* The assumption on the constants, in pieces.
LEMMA ConstantFacts ==
    /\ MaxLines \in Nat /\ MaxRotations \in Nat
    /\ MaxCrashes \in Nat /\ MaxFaults \in Nat
    /\ BatchSize \in Nat \ {0} /\ MaxAttempts \in Nat \ {0}
    /\ Noise \subseteq Lines /\ Refused \subseteq Lines
BY ShipperAssumption DEF Lines

-----------------------------------------------------------------------------
(* Sequences.                                                              *)

\* A prefix of s has its first elements.
LEMMA PrefixFacts ==
    ASSUME NEW S, NEW s \in Seq(S), NEW n \in Nat
    PROVE  /\ Prefix(s, n) \in Seq(S)
           /\ Len(Prefix(s, n)) <= Len(s)
           /\ Len(Prefix(s, n)) <= n
           /\ \A i \in 1 .. Len(Prefix(s, n)) : Prefix(s, n)[i] = s[i]
BY DEF Prefix

\* What is left after the first n elements.
LEMMA SuffixFacts ==
    ASSUME NEW S, NEW s \in Seq(S), NEW n \in 0 .. Len(s)
    PROVE  /\ Suffix(s, n) \in Seq(S)
           /\ Len(Suffix(s, n)) = Len(s) - n
           /\ \A i \in 1 .. Len(s) - n : Suffix(s, n)[i] = s[n + i]
BY DEF Suffix

\* The elements of a sequence, and of one with an element more.
LEMMA RangeFacts ==
    ASSUME NEW S, NEW s \in Seq(S), NEW e \in S
    PROVE  /\ Range(s) = {s[i] : i \in 1 .. Len(s)}
           /\ Range(s) \subseteq S
           /\ Append(s, e) \in Seq(S)
           /\ Range(Append(s, e)) = Range(s) \cup {e}
<1>1. Range(s) = {s[i] : i \in 1 .. Len(s)}
  BY DEF Range
<1>2. Append(s, e) \in Seq(S) /\ Len(Append(s, e)) = Len(s) + 1
  OBVIOUS
<1>3. Range(Append(s, e)) = {Append(s, e)[i] : i \in 1 .. Len(s) + 1}
  BY <1>2 DEF Range
<1>4. /\ \A i \in 1 .. Len(s) : Append(s, e)[i] = s[i]
      /\ Append(s, e)[Len(s) + 1] = e
  OBVIOUS
<1>5. 1 .. Len(s) + 1 = (1 .. Len(s)) \cup {Len(s) + 1}
  OBVIOUS
<1> QED
  BY <1>1, <1>2, <1>3, <1>4, <1>5

-----------------------------------------------------------------------------
(* Type correctness.                                                       *)

\* The size of a log file that exists.
LEMMA SizeType ==
    ASSUME TypeOK, LogInv, NEW g \in 1 .. active
    PROVE  Size(g) \in 0 .. MaxLines
<1>1. start[g] \in 0 .. MaxLines /\ written \in 0 .. MaxLines
  <2>1. g \in Files
    BY ConstantFacts DEF TypeOK, Files
  <2> QED
    BY <2>1 DEF TypeOK
<1>2. CASE g = active
  BY <1>1, <1>2, ConstantFacts DEF LogInv, Size, TypeOK, Files
<1>3. CASE g # active
  <2>1. g + 1 \in Files /\ g + 1 \in 1 .. active /\ g <= g + 1
    BY <1>3, ConstantFacts DEF TypeOK, Files
  <2>2. start[g + 1] \in 0 .. MaxLines /\ start[g] <= start[g + 1]
    BY <2>1 DEF TypeOK, LogInv
  <2> QED
    BY <1>1, <1>3, <2>2, ConstantFacts DEF Size
<1> QED
  BY <1>2, <1>3

\* The initial state satisfies the type invariant and what it needs.
LEMMA TInit == Init => TInv
<1> SUFFICES ASSUME Init PROVE TInv
  OBVIOUS
<1>1. 0 \in 0 .. MaxLines /\ 1 \in Files /\ 0 \in 0 .. MaxRotations + 1
  BY ConstantFacts DEF Files
<1>2. NoCheckpoint \in Checkpoints
  BY <1>1 DEF Checkpoints, NoCheckpoint
<1>3. /\ 0 \in 0 .. MaxAttempts - 1
      /\ 0 \in 0 .. MaxCrashes
      /\ 0 \in 0 .. MaxFaults
  BY ConstantFacts
<1>4. <<>> \in Seq(Lines) /\ <<>> \in Seq(Lines \cup {Corrupt})
  OBVIOUS
<1>5. TypeOK
  BY <1>1, <1>2, <1>3, <1>4 DEF Init, TypeOK
<1>6. LogInv /\ ReadInv
  BY <1>1 DEF Init, LogInv, ReadInv, Files
<1> QED
  BY <1>5, <1>6 DEF TInv

\* The end of a log file that exists.
LEMMA EndFacts ==
    ASSUME TypeOK, LogInv, NEW g \in 1 .. active
    PROVE  /\ start[g] \in Nat /\ written \in Nat /\ written <= MaxLines
           /\ start[g] + Size(g) <= written
           /\ \A h \in 1 .. active : g < h => start[g] + Size(g) <= start[h]
<1>1. /\ active \in Nat /\ written \in Nat /\ written <= MaxLines
      /\ \A h \in 1 .. active : start[h] \in Nat /\ start[h] <= written
  BY ConstantFacts DEF TypeOK, Files, LogInv
<1>2. CASE g = active
  BY <1>1, <1>2 DEF Size
<1>3. CASE g # active
  <2>1. g + 1 \in 1 .. active /\ Size(g) = start[g + 1] - start[g]
    BY <1>1, <1>3 DEF Size
  <2>2. \A h \in 1 .. active : g < h => start[g + 1] <= start[h]
    BY <1>1, <2>1 DEF LogInv
  <2> QED
    BY <1>1, <2>1, <2>2
<1> QED
  BY <1>2, <1>3

\* The line of a stream that has one to read, and where the checkpoint goes.
LEMMA LineFacts ==
    ASSUME TInv, tail \in {"reading", "save"}, read < Size(fd)
    PROVE  /\ Line \in Lines
           /\ Line <= written
           /\ read + 1 \in 0 .. MaxLines
           /\ Advanced \in Checkpoints
           /\ Advanced.file = checkpoint.file
           /\ Advanced.offset = checkpoint.offset + 1
<1>1. /\ fd \in 1 .. active /\ read \in Nat
      /\ checkpoint \in Checkpoints
      /\ checkpoint.file \in 1 .. active /\ checkpoint.offset \in Nat
      /\ start[checkpoint.file] + checkpoint.offset <= start[fd] + read
  BY ConstantFacts DEF TInv, TypeOK, ReadInv, Files, Checkpoints
<1>2. Size(fd) \in 0 .. MaxLines
  BY <1>1, SizeType DEF TInv
<1>3. /\ start[fd] \in Nat /\ written \in Nat /\ written <= MaxLines
      /\ start[fd] + Size(fd) <= written
      /\ start[checkpoint.file] \in Nat
  BY <1>1, EndFacts DEF TInv
<1>4. Advanced = [file |-> checkpoint.file, offset |-> checkpoint.offset + 1]
  BY <1>1 DEF Advanced, Checkpoints
<1>5. /\ Line = start[fd] + read + 1
      /\ Line <= written /\ read + 1 \in 0 .. MaxLines
      /\ checkpoint.offset + 1 \in 0 .. MaxLines
  BY <1>1, <1>2, <1>3, ConstantFacts DEF Line
<1>6. Line \in Lines
  BY <1>1, <1>3, <1>5, ConstantFacts DEF Lines
<1> QED
  BY <1>1, <1>4, <1>5, <1>6 DEF Checkpoints

\* Where StartRead resumes.
LEMMA ResumeFacts ==
    ASSUME TInv, NEW c \in Checkpoints,
           NEW from, from = IF Rotated(c) THEN [file |-> active, offset |-> 0]
                            ELSE c
    PROVE  /\ from \in Checkpoints
           /\ from.file = active
           /\ from.offset <= Size(active)
<1>1. active \in 1 .. active /\ active \in 0 .. MaxRotations + 1
  BY ConstantFacts DEF TInv, TypeOK, Files
<1>2. Size(active) \in 0 .. MaxLines
  BY <1>1, SizeType DEF TInv
<1>3. c.offset \in 0 .. MaxLines
  BY DEF Checkpoints
<1>4. CASE Rotated(c)
  BY <1>1, <1>2, <1>4, ConstantFacts DEF Checkpoints
<1>5. CASE ~Rotated(c)
  BY <1>1, <1>2, <1>3, <1>5, ConstantFacts DEF Rotated
<1> QED
  BY <1>4, <1>5

\* The checkpoint of a shipper that has none is well formed.
LEMMA FirstCheckpointType ==
    ASSUME TInv
    PROVE  FirstCheckpoint \in Checkpoints
<1>1. active \in 1 .. active /\ active \in 0 .. MaxRotations + 1
  BY ConstantFacts DEF TInv, TypeOK, Files
<1>2. Size(active) \in 0 .. MaxLines /\ 0 \in 0 .. MaxLines
  BY <1>1, SizeType, ConstantFacts DEF TInv
<1> QED
  BY <1>1, <1>2 DEF FirstCheckpoint, Checkpoints

\* A record that append wrote, after whatever was in the file.
LEMMA AppendTypes ==
    ASSUME TypeOK, NEW l \in Lines
    PROVE  /\ Append(pending, l) \in Seq(Lines)
           /\ Append(spool, IF torn THEN Corrupt ELSE l)
                 \in Seq(Lines \cup {Corrupt})
BY DEF TypeOK

\* Where the loop of flush goes on, and what it gives up.
LEMMA FlushTypes ==
    ASSUME TypeOK
    PROVE  /\ Prefix(pending, BatchSize) \in Seq(Lines)
           /\ Suffix(pending, Len(batch)) \in Seq(Lines)
           /\ <<>> \in Seq(Lines)
           /\ 0 \in 0 .. MaxAttempts - 1
<1>1. BatchSize \in Nat /\ pending \in Seq(Lines) /\ Len(batch) \in Nat
  BY ConstantFacts DEF TypeOK
<1>2. Suffix(pending, Len(batch)) \in Seq(Lines)
  BY <1>1 DEF Suffix
<1> QED
  BY <1>1, <1>2, PrefixFacts, ConstantFacts

\* The ids that ingest stores are lines.
LEMMA StoreTypes ==
    ASSUME TypeOK
    PROVE  /\ stored \cup Inserted(batch, stored) \subseteq Lines
           /\ \A X \in PartlyInserted(batch, stored) : X \subseteq Lines
<1>1. Range(batch) \subseteq Lines
  BY DEF TypeOK, Range
<1>2. ASSUME NEW n \in 0 .. Len(batch)
      PROVE  Range(Prefix(batch, n)) \subseteq Lines
  <2>1. n \in Nat /\ batch \in Seq(Lines)
    BY DEF TypeOK
  <2>2. Prefix(batch, n) \in Seq(Lines)
    BY <2>1, PrefixFacts
  <2> QED
    BY <2>2 DEF Range
<1> QED
  BY <1>1, <1>2 DEF TypeOK, Inserted, PartlyInserted

\* No step leaves the types.
LEMMA TypeStep == TInv /\ [Next]_vars => TypeOK'
<1> SUFFICES ASSUME TInv, [Next]_vars PROVE TypeOK'
  OBVIOUS
<1> USE DEF TInv
<1> TypeOK
  OBVIOUS
<1>1. CASE WriteLine
  <2>1. written' \in 0 .. MaxLines
    BY <1>1, ConstantFacts DEF WriteLine, TypeOK
  <2> QED
    BY <1>1, <2>1 
       DEF WriteLine, TypeOK, tailer, stream, history, flusher, queue, process
<1>2. CASE Rotate
  <2>1. active' \in Files /\ start' \in [Files -> 0 .. MaxLines]
    BY <1>2, ConstantFacts DEF Rotate, TypeOK, Files
  <2> QED
    BY <1>2, <2>1 
       DEF Rotate, TypeOK, tailer, stream, history, flusher, queue, process
<1>3. CASE StartRead
  <2> DEFINE first == checkpoint = NoCheckpoint
             c == IF first THEN FirstCheckpoint ELSE checkpoint
             from == IF Rotated(c) THEN [file |-> active, offset |-> 0] ELSE c
  <2>1. c \in Checkpoints
    BY FirstCheckpointType DEF TypeOK
  <2>2. from \in Checkpoints
    BY <2>1, ResumeFacts
  <2>3. checkpoint' = from /\ saved' = IF first THEN c ELSE saved
    BY <1>3 DEF StartRead
  <2>4. saved' \in Checkpoints
    BY <2>1, <2>3 DEF TypeOK
  <2>5. tail' \in {"idle", "opening", "reading", "save"}
    BY <1>3 DEF StartRead, TypeOK
  <2>6. UNCHANGED <<log, stream, flusher, queue, process, faults, stored,
                    history>>
    BY <1>3 DEF StartRead
  <2> HIDE DEF from, c, first
  <2>7. checkpoint' \in Checkpoints
    BY <2>2, <2>3
  <2> QED
    BY <2>4, <2>5, <2>6, <2>7
       DEF TypeOK, log, stream, history, flusher, queue, process
<1>4. CASE DropLine
  BY <1>4 DEF DropLine, TypeOK, log, stream, history, flusher, queue, process
<1>5. CASE AppendEvent
  <2>1. Line \in Lines
    BY <1>5, LineFacts DEF AppendEvent, NextLine
  <2>2. /\ pending' \in Seq(Lines)
        /\ spool' \in Seq(Lines \cup {Corrupt})
        /\ torn' \in BOOLEAN
        /\ tail' = "save"
        /\ strays' \in SUBSET Lines
    BY <1>5, <2>1, AppendTypes DEF AppendEvent, Strayed, TypeOK
  <2> QED
    BY <1>5, <2>2 DEF AppendEvent, TypeOK, log, stream, flusher, process
<1>6. CASE AppendShort
  <2>1. Line \in Lines
    BY <1>6, LineFacts DEF AppendShort, NextLine
  <2>2. /\ pending' \in Seq(Lines) /\ torn' \in BOOLEAN /\ tail' = "save"
        /\ strays' \in SUBSET Lines
    BY <1>6, <2>1, AppendTypes DEF AppendShort, Strayed, TypeOK
  <2>3. faults' \in 0 .. MaxFaults
    BY <1>6, ConstantFacts DEF AppendShort, TypeOK
  <2> QED
    BY <1>6, <2>2, <2>3 DEF AppendShort, TypeOK, log, stream, flusher, process
<1>7. CASE SpoolFull
  BY <1>7 DEF SpoolFull, TypeOK, log, stream, history, flusher, queue, process
<1>8. CASE SaveCheckpoint
  <2>1. /\ Line \in Lines /\ Advanced \in Checkpoints
        /\ read + 1 \in 0 .. MaxLines
    BY <1>8, LineFacts DEF SaveCheckpoint, ReadInv
  <2> QED
    BY <1>8, <2>1 DEF SaveCheckpoint, TypeOK, log, flusher, queue, process
<1>9. CASE SaveFails
  <2>1. Line \in Lines /\ Advanced \in Checkpoints
    BY <1>9, LineFacts DEF SaveFails, ReadInv
  <2>2. faults' \in 0 .. MaxFaults
    BY <1>9, ConstantFacts DEF SaveFails, TypeOK
  <2> QED
    BY <1>9, <2>1, <2>2
       DEF SaveFails, TypeOK, log, stream, flusher, queue, process
<1>10. CASE EndOfFile
  BY <1>10 DEF EndOfFile, TypeOK, log, stream, history, flusher, queue, process
<1>11. CASE StartFlush
  BY <1>11, FlushTypes 
     DEF StartFlush, TypeOK, log, tailer, stream, history, queue, process
<1>12. CASE PostAccepted
  <2>1. pending' \in Seq(Lines) /\ spool' \in Seq(Lines \cup {Corrupt})
    <3>1. pending' \in Seq(Lines) /\ spool' = pending'
      BY <1>12, FlushTypes DEF PostAccepted
    <3> QED
      BY <3>1
  <2>2. /\ batch' \in Seq(Lines)
        /\ attempt' \in 0 .. MaxAttempts - 1
        /\ flush' \in {"idle", "posting"}
    <3>1. BatchSize \in Nat
      BY ConstantFacts
    <3>2. Prefix(pending', BatchSize) \in Seq(Lines)
      BY <2>1, <3>1, PrefixFacts
    <3> QED
      BY <1>12, <3>2, FlushTypes DEF PostAccepted, ContinueFlush
  <2>3. stored' \subseteq Lines /\ torn' \in BOOLEAN
    BY <1>12, StoreTypes DEF PostAccepted
  <2> QED
    BY <1>12, <2>1, <2>2, <2>3 
       DEF PostAccepted, TypeOK, log, tailer, stream, history, process
<1>13. CASE PostFailed
  <2>1. stored' \subseteq Lines
    BY <1>13, StoreTypes DEF PostFailed
  <2>2. /\ batch' \in Seq(Lines)
        /\ flush' \in {"idle", "posting"}
        /\ attempt' \in 0 .. MaxAttempts - 1
    <3>1. attempt \in 0 .. MaxAttempts - 1 /\ MaxAttempts \in Nat
      BY ConstantFacts DEF TypeOK
    <3>2. CASE attempt + 1 < MaxAttempts
      <4>1. attempt + 1 \in 0 .. MaxAttempts - 1
        BY <3>1, <3>2
      <4> QED
        BY <1>13, <3>2, <4>1 DEF PostFailed, TypeOK
    <3>3. CASE ~(attempt + 1 < MaxAttempts)
      BY <1>13, <3>3, FlushTypes DEF PostFailed, GiveUp
    <3> QED
      BY <3>2, <3>3
  <2> QED
    BY <1>13, <2>1, <2>2
       DEF PostFailed, TypeOK, log, tailer, stream, history, queue, process
<1>14. CASE PostRejected
  BY <1>14, FlushTypes
     DEF PostRejected, GiveUp, TypeOK, log, tailer, stream, history, queue,
         process
<1>15. CASE Crash
  <2>1. NoCheckpoint \in Checkpoints
    BY ConstantFacts DEF NoCheckpoint, Checkpoints
  <2>2. crashes' \in 0 .. MaxCrashes
    BY <1>15, ConstantFacts DEF Crash, TypeOK
  <2>3. stored' \subseteq Lines
    BY <1>15, StoreTypes DEF Crash
  <2>4. torn' \in BOOLEAN /\ saved' \in Checkpoints /\ lost' \in BOOLEAN
    BY <1>15, <2>1 DEF Crash, TypeOK
  <2>5. pending' \in Seq(Lines) /\ batch' \in Seq(Lines)
        /\ attempt' \in 0 .. MaxAttempts - 1 /\ flush' = "idle"
    BY <1>15, FlushTypes DEF Crash, GiveUp
  <2> QED
    BY <1>15, <2>1, <2>2, <2>3, <2>4, <2>5 
       DEF Crash, TypeOK, log, stream, history
<1>16. CASE Restart
  <2>1. pending' \in Seq(Lines)
    BY <1>16 DEF Restart, TypeOK, Range
  <2> QED
    BY <1>16, <2>1 DEF Restart, TypeOK, log, stream, history, flusher
<1>17. CASE UNCHANGED vars
  BY <1>17
     DEF vars, log, tailer, stream, history, flusher, queue, process, TypeOK
<1>18. CASE OpenStream
  <2>1. active \in Files /\ checkpoint.offset \in 0 .. MaxLines
    BY DEF TypeOK, Checkpoints
  <2>2. read' \in 0 .. MaxLines /\ fd' \in Files
    BY <1>18, <2>1, ConstantFacts DEF OpenStream, Lines
  <2> QED
    BY <1>18, <2>2 DEF OpenStream, TypeOK, log, history, flusher, queue, process
<1>19. CASE OpenFails
  BY <1>19 DEF OpenFails, TypeOK, log, stream, history, flusher, queue, process
<1> QED
  BY <1>1, <1>2, <1>3, <1>4, <1>5, <1>6, <1>7, <1>8, <1>9, <1>10, <1>11,
     <1>12, <1>13, <1>14, <1>15, <1>16, <1>17, <1>18, <1>19
     DEF Next, Read, Post

\* Lines that are written and logs that rotate keep the log in order, and no
\* log file that exists gets shorter.
LEMMA LogStep ==
    ASSUME TInv, [Next]_vars
    PROVE  /\ LogInv'
           /\ active <= active'
           /\ \A g \in 1 .. active : /\ Size(g) <= Size(g)'
                                    /\ Size(g)' \in Nat
                                    /\ start'[g] = start[g]
<1> USE DEF TInv
<1>1. active \in Nat \ {0} /\ active <= MaxRotations + 1 /\ MaxRotations \in Nat
  BY ConstantFacts DEF TypeOK, Files
<1>2. written \in Nat
  BY ConstantFacts DEF TypeOK
<1>3. \A g \in 1 .. MaxRotations + 1 : start[g] \in Nat
  BY ConstantFacts DEF TypeOK, Files
<1>4. \A g \in 1 .. active : start[g] \in Nat /\ start[g] <= written
  BY <1>1, <1>3 DEF LogInv
<1>5. \A g \in 1 .. active - 1 : start[g] <= start[g + 1] /\ start[g + 1] \in Nat
  <2> SUFFICES ASSUME NEW g \in 1 .. active - 1
               PROVE  start[g] <= start[g + 1] /\ start[g + 1] \in Nat
    OBVIOUS
  <2>1. g \in 1 .. active /\ g + 1 \in 1 .. active /\ g <= g + 1
    BY <1>1
  <2> QED
    BY <1>4, <2>1 DEF LogInv
<1>6. CASE WriteLine
  <2>1. written' = written + 1 /\ start' = start /\ active' = active
    BY <1>6 DEF WriteLine
  <2>2. LogInv'
    BY <1>1, <1>2, <1>4, <2>1 DEF LogInv
  <2>3. ASSUME NEW g \in 1 .. active PROVE Size(g) <= Size(g)' /\ Size(g)' \in Nat
    BY <1>1, <1>2, <1>4, <1>5, <2>1 DEF Size
  <2> QED
    BY <1>1, <2>1, <2>2, <2>3
<1>7. CASE Rotate
  <2>1. /\ active' = active + 1
        /\ written' = written
        /\ active + 1 \in 1 .. MaxRotations + 1
    BY <1>1, <1>7 DEF Rotate
  <2>2. \A g \in 1 .. active : start'[g] = start[g]
    BY <1>1, <1>7, <2>1 DEF Rotate, Files, TypeOK
  <2>3. start'[active + 1] = written
    BY <1>1, <1>7, <2>1 DEF Rotate, Files, TypeOK
  <2>4. \A g \in 1 .. active + 1 : start'[g] <= written
    BY <1>1, <1>2, <1>4, <2>2, <2>3
  <2>5. ASSUME NEW g \in 1 .. active + 1, NEW h \in 1 .. active + 1, g <= h
        PROVE  start'[g] <= start'[h]
    <3>1. CASE h = active + 1
      BY <2>3, <2>4, <3>1
    <3>2. CASE h # active + 1
      <4>1. g \in 1 .. active /\ h \in 1 .. active
        BY <1>1, <2>5, <3>2
      <4> QED
        BY <2>2, <2>5, <4>1 DEF LogInv
    <3> QED
      BY <3>1, <3>2
  <2>6. LogInv'
    BY <1>1, <2>1, <2>4, <2>5 DEF LogInv
  <2>7. ASSUME NEW g \in 1 .. active PROVE Size(g) <= Size(g)' /\ Size(g)' \in Nat
    <3>1. CASE g = active
      <4>1. Size(g) = written - start[g] /\ start[g] \in Nat
        BY <1>1, <1>4, <3>1 DEF Size
      <4>2. Size(g)' = written - start[g] /\ start[g] <= written
        BY <1>1, <1>4, <2>1, <2>2, <2>3, <3>1 DEF Size
      <4> QED
        BY <1>2, <4>1, <4>2
    <3>2. CASE g # active
      <4>1. g + 1 \in 1 .. active /\ g # active + 1 /\ g \in 1 .. active - 1
        BY <1>1, <3>2
      <4>2. Size(g) = start[g + 1] - start[g]
        BY <3>2 DEF Size
      <4>3. Size(g)' = start[g + 1] - start[g]
        BY <2>1, <2>2, <4>1 DEF Size
      <4> QED
        BY <1>4, <1>5, <4>1, <4>2, <4>3
    <3> QED
      BY <3>1, <3>2
  <2> QED
    BY <1>1, <2>1, <2>2, <2>6, <2>7
<1>8. CASE UNCHANGED log
  <2>1. written' = written /\ start' = start /\ active' = active
    BY <1>8 DEF log
  <2>2. LogInv'
    BY <2>1 DEF LogInv
  <2>3. ASSUME NEW g \in 1 .. active PROVE Size(g) <= Size(g)' /\ Size(g)' \in Nat
    BY <1>1, <1>2, <1>4, <1>5, <2>1 DEF Size
  <2> QED
    BY <1>1, <2>1, <2>2, <2>3
<1>9. WriteLine \/ Rotate \/ UNCHANGED log
  BY DEF Next, Read, Post, StartRead, OpenStream, OpenFails, DropLine,
         AppendEvent, AppendShort,
         SpoolFull, SaveCheckpoint, SaveFails, EndOfFile, StartFlush,
         PostAccepted, PostFailed, PostRejected, Crash, Restart, vars
<1> QED
  BY <1>6, <1>7, <1>8, <1>9

\* What an unchanged log leaves as it is.
LEMMA LogSame ==
    ASSUME UNCHANGED log
    PROVE  /\ active' = active /\ start' = start /\ written' = written
           /\ \A g : Size(g)' = Size(g)
BY DEF log, Size

\* The stream and the checkpoint stay where they belong.
LEMMA ReadStep ==
    ASSUME TInv, [Next]_vars
    PROVE  ReadInv'
<1> USE DEF TInv
<1>1. /\ fd \in Nat \ {0} /\ active \in Nat \ {0} /\ active \in 1 .. active
      /\ checkpoint.offset \in Nat /\ read \in Nat
      /\ \A g \in 1 .. active : Size(g) \in Nat /\ start[g] \in Nat
      /\ \A h \in 1 .. active : h < active => start[h] + Size(h) <= start[active]
  <2>1. /\ fd \in Nat \ {0} /\ active \in Nat \ {0} /\ active \in 1 .. active
        /\ checkpoint.offset \in Nat /\ read \in Nat
    BY ConstantFacts DEF TypeOK, Files, Checkpoints
  <2>2. ASSUME NEW g \in 1 .. active
        PROVE  /\ Size(g) \in Nat /\ start[g] \in Nat
               /\ g < active => start[g] + Size(g) <= start[active]
    BY <2>1, SizeType, EndFacts, ConstantFacts
  <2> QED
    BY <2>1, <2>2
<1>2. CASE WriteLine \/ Rotate
  <2>1. UNCHANGED <<tail, up, checkpoint, fd, read>>
    BY <1>2 DEF WriteLine, Rotate, tailer, stream, process
  <2>2. active <= active' /\ active' \in Nat
    BY <1>1, <1>2, LogStep DEF WriteLine, Rotate
  <2>3. ASSUME NEW k \in 1 .. active
        PROVE  /\ Size(k) <= Size(k)' /\ Size(k)' \in Nat
               /\ start'[k] = start[k] /\ k \in 1 .. active'
    BY <1>1, <2>2, LogStep
  <2>4. ASSUME tail # "idle"
        PROVE  /\ checkpoint.file \in 1 .. active'
               /\ start'[checkpoint.file] = start[checkpoint.file]
               /\ Size(checkpoint.file) <= Size(checkpoint.file)'
               /\ Size(checkpoint.file)' \in Nat
    <3>1. PICK k \in 1 .. active : k = checkpoint.file
      BY <2>4 DEF ReadInv
    <3>2. Size(checkpoint.file) = Size(k) /\ Size(checkpoint.file)' = Size(k)'
      BY <2>1, <3>1 DEF Size
    <3> QED
      BY <2>3, <3>1, <3>2
  <2>5. ASSUME tail \in {"reading", "save"}
        PROVE  /\ fd \in 1 .. active /\ start'[fd] = start[fd]
               /\ Size(fd) <= Size(fd)' /\ Size(fd)' \in Nat
    <3>1. PICK k \in 1 .. active : k = fd
      BY <1>1, <2>5 DEF ReadInv
    <3>2. Size(fd) = Size(k) /\ Size(fd)' = Size(k)'
      BY <2>1, <3>1 DEF Size
    <3> QED
      BY <2>3, <3>1, <3>2
  <2> QED
    BY <1>1, <2>1, <2>2, <2>4, <2>5 DEF ReadInv
<1>3. SUFFICES ASSUME UNCHANGED log PROVE ReadInv'
  BY <1>2 DEF Next, Read, Post, StartRead, OpenStream, OpenFails, DropLine,
              AppendEvent, AppendShort, SpoolFull, SaveCheckpoint, SaveFails,
              EndOfFile, StartFlush, PostAccepted, PostFailed, PostRejected,
              Crash, Restart, vars
<1>4. /\ active' = active /\ start' = start
      /\ \A g : Size(g)' = Size(g)
  BY <1>3, LogSame
<1>5. CASE StartRead
  <2> DEFINE first == checkpoint = NoCheckpoint
             c == IF first THEN FirstCheckpoint ELSE checkpoint
             from == IF Rotated(c) THEN [file |-> active, offset |-> 0] ELSE c
  <2>1. c \in Checkpoints
    BY FirstCheckpointType DEF TypeOK
  <2>2. /\ from \in Checkpoints /\ from.file = active
        /\ from.offset <= Size(active)
    BY <2>1, ResumeFacts
  <2>3. /\ tail = "idle" /\ up /\ up' = up
        /\ checkpoint' = from
        /\ tail' \in {"idle", "opening"}
    BY <1>5 DEF StartRead, process
  <2> HIDE DEF from, c, first
  <2>5. Size(checkpoint.file)' = Size(active)
    BY <1>4, <2>2, <2>3 DEF Size
  <2> QED
    BY <1>1, <1>4, <2>2, <2>3, <2>5 DEF ReadInv
<1>6. CASE OpenStream
  <2>1. /\ tail = "opening" /\ tail' = "reading" /\ UNCHANGED <<up, checkpoint>>
        /\ fd' = active
        /\ read' \in IF checkpoint.file = active \/ checkpoint.offset = 0
                     THEN {checkpoint.offset} ELSE Lines
    BY <1>6 DEF OpenStream, process
  <2>2. /\ up /\ checkpoint.file \in 1 .. active
        /\ checkpoint.offset <= Size(checkpoint.file)
    BY <2>1 DEF ReadInv
  <2>3. Size(fd)' = Size(active) /\ read' \in Nat
    BY <1>1, <1>4, <2>1, ConstantFacts DEF Size, Lines
  <2>4. CASE checkpoint.file = active
    BY <1>1, <1>4, <2>1, <2>2, <2>3, <2>4 DEF ReadInv
  <2>5. CASE checkpoint.file # active
    <3>1. start[checkpoint.file] + checkpoint.offset <= start[active]
      BY <1>1, <2>2, <2>5
    <3>2. start[checkpoint.file] + checkpoint.offset <= start[active] + read'
      BY <1>1, <2>2, <2>3, <3>1
    <3> QED
      BY <1>1, <1>4, <2>1, <2>2, <2>3, <2>5, <3>2 DEF ReadInv
  <2> QED
    BY <2>4, <2>5
<1>7. CASE DropLine \/ AppendEvent \/ AppendShort
  <2>1. /\ tail = "reading" /\ tail' = "save"
        /\ UNCHANGED <<up, fd, read, checkpoint>>
        /\ read < Size(fd)
    BY <1>7 DEF DropLine, AppendEvent, AppendShort, NextLine, process, stream
  <2>2. Size(fd)' = Size(fd)
    BY <1>4, <2>1 DEF Size
  <2> QED
    BY <1>4, <2>1, <2>2 DEF ReadInv
<1>8. CASE SaveCheckpoint
  <2>1. /\ tail = "save" /\ tail' = "reading" /\ UNCHANGED <<up, fd>>
        /\ checkpoint' = Advanced /\ read' = read + 1
    BY <1>8 DEF SaveCheckpoint, process
  <2>2. /\ up /\ checkpoint.file \in 1 .. active /\ fd \in 1 .. active
        /\ checkpoint.file <= fd /\ read < Size(fd)
        /\ checkpoint.file = fd => checkpoint.offset = read
        /\ start[checkpoint.file] + checkpoint.offset <= start[fd] + read
    BY <1>1, <2>1 DEF ReadInv
  <2>3. /\ checkpoint'.file = checkpoint.file
        /\ checkpoint'.offset = checkpoint.offset + 1
    BY <2>1, <2>2, LineFacts
  <2>4. Size(fd)' = Size(fd) /\ Size(fd) \in Nat
        /\ start[fd] \in Nat /\ start[checkpoint.file] \in Nat
    BY <1>1, <1>4, <2>1, <2>2 DEF Size
  <2>5. start[checkpoint.file] + checkpoint'.offset <= start[fd] + read'
    BY <1>1, <2>1, <2>2, <2>3, <2>4
  <2> QED
    BY <1>1, <1>4, <2>1, <2>2, <2>3, <2>4, <2>5 DEF ReadInv
<1>9. CASE SpoolFull \/ EndOfFile \/ Crash \/ SaveFails \/ OpenFails
  BY <1>9 DEF SpoolFull, EndOfFile, Crash, SaveFails, OpenFails, ReadInv
<1>10. CASE Restart
  <2>1. tail' = "idle"
    BY <1>10 DEF Restart, ReadInv
  <2> QED
    BY <2>1 DEF ReadInv
<1>11. CASE UNCHANGED <<tailer, tail, fd, read, up>>
  <2>1. UNCHANGED <<checkpoint, tail, fd, read, up>>
    BY <1>11 DEF tailer
  <2>2. /\ Size(checkpoint.file)' = Size(checkpoint.file)
        /\ Size(fd)' = Size(fd)
    BY <1>4, <2>1 DEF Size
  <2> QED
    BY <1>4, <2>1, <2>2 DEF ReadInv
<1>12. UNCHANGED <<tailer, tail, fd, read, up>> \/ StartRead \/ OpenStream
       \/ OpenFails \/ DropLine \/ AppendEvent \/ AppendShort \/ SpoolFull
       \/ SaveCheckpoint \/ SaveFails \/ EndOfFile \/ Crash \/ Restart
  BY <1>3, <1>4 DEF Next, Read, Post, StartFlush, PostAccepted, PostFailed,
                    PostRejected, tailer, stream, process, vars, WriteLine,
                    Rotate
<1> QED
  BY <1>5, <1>6, <1>7, <1>8, <1>9, <1>10, <1>11, <1>12

\* The shape of the state holds in every behaviour.
THEOREM TypeCorrect == Spec => []TypeOK
<1>1. Init => TInv
  BY TInit
<1>2. TInv /\ [Next]_vars => TInv'
  BY TypeStep, LogStep, ReadStep DEF TInv
<1>3. TInv => TypeOK
  BY DEF TInv
<1> QED
  BY <1>1, <1>2, <1>3, PTL DEF Spec

-----------------------------------------------------------------------------
(* No event is lost.                                                       *)

\* What is posted and what is left make up the FIFO.
LEMMA AckSplit ==
    ASSUME TypeOK, BatchInv
    PROVE  Range(pending) \subseteq
              Range(batch) \cup Range(Suffix(pending, Len(batch)))
<1> DEFINE n == Len(batch)
           rest == Suffix(pending, n)
<1>1. pending \in Seq(Lines) /\ batch \in Seq(Lines) /\ n \in 0 .. Len(pending)
  BY DEF TypeOK, BatchInv
<1>2. /\ rest \in Seq(Lines)
      /\ Len(rest) = Len(pending) - n
      /\ \A i \in 1 .. Len(pending) - n : rest[i] = pending[n + i]
  BY <1>1, SuffixFacts
<1> HIDE DEF rest
<1>3. ASSUME NEW i \in 1 .. Len(pending)
      PROVE  pending[i] \in Range(batch) \cup Range(rest)
  <2>1. CASE i <= n
    BY <1>1, <2>1 DEF BatchInv, Range
  <2>2. CASE i > n
    <3>1. i - n \in 1 .. Len(rest) /\ rest[i - n] = pending[i]
      BY <1>1, <1>2, <2>2
    <3> QED
      BY <1>2, <3>1 DEF Range
  <2> QED
    BY <1>1, <2>1, <2>2
<1> QED
  BY <1>1, <1>3 DEF Range, rest

\* A step takes no id out of the store.
LEMMA StoredGrows == [Next]_vars => stored \subseteq stored'
BY DEF Next, Read, Post, WriteLine, Rotate, StartRead, OpenStream, OpenFails,
       DropLine, AppendEvent,
       AppendShort, SpoolFull, SaveCheckpoint, SaveFails, EndOfFile,
       StartFlush, PostAccepted, PostFailed, PostRejected, Crash, Restart,
       PartlyInserted, vars

\* With no disk faults a step leaves the FIFO alone, or is one of four.
LEMMA QueueSteps ==
    ASSUME faults = 0, faults' = 0, [Next]_vars
    PROVE  \/ AppendEvent \/ PostAccepted \/ Crash \/ Restart
           \/ UNCHANGED <<pending, spool, torn, up>>
<1>1. ~AppendShort /\ ~SaveFails
  BY DEF AppendShort, SaveFails
<1>2. CASE WriteLine \/ Rotate \/ StartRead \/ OpenStream \/ OpenFails
           \/ DropLine \/ SpoolFull
           \/ SaveCheckpoint \/ EndOfFile \/ StartFlush \/ PostFailed
           \/ PostRejected \/ UNCHANGED vars
  BY <1>2 DEF WriteLine, Rotate, StartRead, OpenStream, OpenFails, DropLine,
              SpoolFull,
              SaveCheckpoint, EndOfFile, StartFlush, PostFailed, PostRejected,
              queue, process, vars
<1>3. CASE AppendEvent \/ PostAccepted \/ Crash \/ Restart
  BY <1>3 DEF AppendEvent, PostAccepted, Crash, Restart
<1> QED
  BY <1>1, <1>2, <1>3 DEF Next, Read, Post

\* What append does when the file has no partial record.
LEMMA AppendEffect ==
    ASSUME SInv, AppendEvent
    PROVE  /\ up' = up /\ up /\ torn' = FALSE
           /\ Line \in Lines
           /\ pending' = Append(pending, Line)
           /\ spool' = Append(spool, Line)
           /\ Range(spool') = Range(spool) \cup {Line}
<1>1. up /\ up' = up /\ tail = "reading" /\ read < Size(fd)
  BY DEF AppendEvent, NextLine, process
<1>2. Line \in Lines
  BY <1>1, LineFacts DEF SInv
<1>3. spool' = Append(spool, Line)
  BY <1>1 DEF AppendEvent, SInv, MemInv
<1>4. spool \in Seq(Lines \cup {Corrupt})
  BY DEF SInv, TInv, TypeOK
<1>5. Range(spool') = Range(spool) \cup {Line}
  BY <1>2, <1>3, <1>4, RangeFacts
<1> QED
  BY <1>1, <1>2, <1>3, <1>5 DEF AppendEvent

\* Memory and file stay one FIFO.
LEMMA MemStep ==
    ASSUME faults' = 0, SInv, [Next]_vars, TypeOK'
    PROVE  MemInv'
<1>1. Corrupt \notin Lines
  BY ConstantFacts DEF Corrupt, Lines
<1>2. CASE AppendEvent
  BY <1>1, <1>2, AppendEffect DEF SInv, MemInv
<1>3. CASE PostAccepted
  <2>1. up' /\ ~torn' /\ spool' = pending'
    BY <1>3 DEF PostAccepted, Scheduled, process
  <2>2. Range(pending') \subseteq Lines
    BY DEF TypeOK, Range
  <2> QED
    BY <1>1, <2>1, <2>2 DEF MemInv
<1>4. CASE Crash
  BY <1>4 DEF Crash, SInv, MemInv
<1>5. CASE Restart
  BY <1>5 DEF Restart, SInv, MemInv
<1>6. CASE UNCHANGED <<pending, spool, torn, up>>
  BY <1>6 DEF SInv, MemInv
<1> QED
  BY <1>2, <1>3, <1>4, <1>5, <1>6, QueueSteps DEF SInv

\* The batch stays the head of the FIFO, whatever is appended meanwhile.
LEMMA BatchStep ==
    ASSUME faults' = 0, SInv, [Next]_vars, TypeOK'
    PROVE  BatchInv'
<1>1. /\ pending \in Seq(Lines) /\ pending' \in Seq(Lines)
      /\ batch \in Seq(Lines) /\ BatchSize \in Nat
  BY ConstantFacts DEF SInv, TInv, TypeOK
<1>2. CASE AppendEvent
  <2>1. /\ UNCHANGED <<flush, batch>>
        /\ Line \in Lines
        /\ pending' = Append(pending, Line)
    BY <1>2, AppendEffect DEF AppendEvent, flusher
  <2> QED
    BY <1>1, <2>1 DEF SInv, BatchInv
<1>3. CASE StartFlush \/ PostAccepted
  <2>1. batch' = Prefix(pending', BatchSize)
    BY <1>3 DEF StartFlush, PostAccepted, ContinueFlush, queue
  <2>2. /\ Len(batch') <= Len(pending')
        /\ \A i \in 1 .. Len(batch') : batch'[i] = pending'[i]
    BY <1>1, <2>1, PrefixFacts
  <2>3. flush' = "idle" => pending' = <<>>
    BY <1>3 DEF StartFlush, PostAccepted, ContinueFlush
  <2>4. pending' = <<>> => batch' = <<>>
    BY <2>1 DEF Prefix
  <2> QED
    BY <2>2, <2>3, <2>4 DEF BatchInv
<1>4. CASE PostFailed \/ PostRejected \/ Crash
  <2>1. CASE batch' = <<>>
    BY <1>1, <2>1 DEF BatchInv
  <2>2. CASE UNCHANGED <<flush, batch, pending>>
    BY <2>2 DEF SInv, BatchInv
  <2> QED
    BY <1>4, <2>1, <2>2
       DEF PostFailed, PostRejected, Crash, GiveUp, queue
<1>5. CASE Restart
  <2>1. batch = <<>> /\ batch' = batch
    BY <1>1, <1>5 DEF Restart, SInv, MemInv, BatchInv, flusher
  <2> QED
    BY <1>1, <2>1 DEF BatchInv
<1>6. CASE UNCHANGED <<flush, batch, pending>>
  BY <1>6 DEF SInv, BatchInv
<1>7. AppendEvent \/ StartFlush \/ PostAccepted \/ PostFailed \/ PostRejected
      \/ Crash \/ Restart \/ UNCHANGED <<flush, batch, pending>>
  BY DEF SInv, Next, Read, Post, WriteLine, Rotate, StartRead, OpenStream,
         OpenFails, DropLine,
         AppendShort, SpoolFull, SaveCheckpoint, SaveFails, EndOfFile,
         flusher, queue, vars
<1> QED
  BY <1>2, <1>3, <1>4, <1>5, <1>6, <1>7

\* Nothing comes between append and saveCheckpoint but Cowrie and a crash.
LEMMA SaveStep ==
    ASSUME faults' = 0, SInv, [Next]_vars
    PROVE  SaveInv'
<1>1. CASE WriteLine \/ Rotate
  <2>1. UNCHANGED <<fd, read, tail, spool>>
    BY <1>1 DEF WriteLine, Rotate, tailer, stream, queue
  <2>2. ASSUME tail = "save" PROVE start'[fd] = start[fd]
    <3>1. fd \in 1 .. active
      BY <2>2, ConstantFacts DEF SInv, TInv, ReadInv, TypeOK, Files
    <3> QED
      BY <3>1, LogStep DEF SInv
  <2> QED
    BY <2>1, <2>2 DEF SInv, SaveInv, Line
<1>2. CASE AppendEvent
  <2>1. UNCHANGED <<fd, read, start>>
    BY <1>2 DEF AppendEvent, log, stream
  <2> QED
    BY <1>2, <2>1, AppendEffect DEF SaveInv, Line
<1>3. CASE DropLine
  BY <1>3 DEF DropLine, SaveInv, Line, log, stream
<1>4. CASE UNCHANGED <<fd, read, tail, spool, start>>
  BY <1>4 DEF SInv, SaveInv, Line
<1>5. CASE tail' # "save"
  BY <1>5 DEF SaveInv
<1>6. CASE StartRead \/ OpenStream \/ OpenFails \/ SpoolFull \/ SaveCheckpoint
           \/ SaveFails \/ EndOfFile \/ Crash
  BY <1>5, <1>6 DEF StartRead, OpenStream, OpenFails, SpoolFull,
                    SaveCheckpoint, SaveFails, EndOfFile, Crash
<1>7. CASE StartFlush \/ PostFailed \/ PostRejected \/ UNCHANGED vars
  BY <1>4, <1>7 DEF StartFlush, PostFailed, PostRejected, log, tailer, stream,
                    queue, vars
<1>8. CASE PostAccepted
  BY <1>5, <1>8 DEF PostAccepted, Scheduled, tailer
<1>9. CASE Restart
  BY <1>5, <1>9 DEF Restart, SInv, TInv, ReadInv
<1>10. CASE AppendShort
  BY <1>10 DEF AppendShort, SInv
<1> QED
  BY <1>1, <1>2, <1>3, <1>6, <1>7, <1>8, <1>9, <1>10 DEF Next, Read, Post

\* The ids that leave the spool file in a step are stored, or were refused.
LEMMA SpoolLeaves ==
    ASSUME faults' = 0, SInv, [Next]_vars
    PROVE  Range(spool) \subseteq Range(spool') \cup stored' \cup Refused
<1>1. CASE AppendEvent
  BY <1>1, AppendEffect
<1>2. CASE PostAccepted
  <2>1. spool = pending /\ spool' = Suffix(pending, Len(batch))
    BY <1>2 DEF PostAccepted, Scheduled, SInv, MemInv
  <2>2. stored' = stored \cup Inserted(batch, stored)
    BY <1>2 DEF PostAccepted
  <2>3. Range(batch) \subseteq stored' \cup Refused
    BY <2>2 DEF Inserted
  <2> QED
    BY <2>1, <2>3, AckSplit DEF SInv, TInv
<1>3. CASE UNCHANGED spool
  BY <1>3
<1> QED
  BY <1>1, <1>2, <1>3, QueueSteps DEF SInv, Crash, Restart

\* Every step keeps what the tailer has passed in the file or in the store.
LEMMA SafeStep ==
    ASSUME faults' = 0, SInv, [Next]_vars
    PROVE  TakenIsSafe'
<1>1. \/ taken' = taken
      \/ /\ tail = "save"
         /\ taken' = taken \cup {Line}
  BY DEF Next, Read, Post, WriteLine, Rotate, StartRead, OpenStream,
         OpenFails, DropLine, AppendEvent, AppendShort, SpoolFull, SaveCheckpoint, SaveFails,
         EndOfFile, StartFlush, PostAccepted, PostFailed, PostRejected, Crash,
         Restart, tailer, history, vars
<1>2. taken' \ (Noise \cup Refused) \subseteq Range(spool) \cup stored
  BY <1>1 DEF SInv, SaveInv, TakenIsSafe
<1> QED
  BY <1>2, SpoolLeaves, StoredGrows DEF TakenIsSafe

\* What has failed once has failed for good.
LEMMA FaultsGrow == TypeOK /\ [Next]_vars /\ faults' = 0 => faults = 0
<1>1. CASE AppendShort \/ SaveFails
  BY <1>1 DEF AppendShort, SaveFails, TypeOK
<1>2. CASE StartRead \/ OpenStream \/ OpenFails \/ DropLine \/ AppendEvent
           \/ SpoolFull \/ SaveCheckpoint \/ EndOfFile \/ WriteLine \/ Rotate \/ Crash \/ Restart
           \/ UNCHANGED vars
  BY <1>2 DEF StartRead, OpenStream, OpenFails, DropLine, AppendEvent,
              SpoolFull, SaveCheckpoint,
              EndOfFile, WriteLine, Rotate, Crash, Restart, vars
<1>3. CASE StartFlush \/ PostAccepted \/ PostFailed \/ PostRejected
  BY <1>3 DEF StartFlush, PostAccepted, PostFailed, PostRejected
<1> QED
  BY <1>1, <1>2, <1>3 DEF Next, Read, Post

\* The inductive invariant of the delivery argument.
LEMMA SafeInvariance == Spec => []TInv /\ [](faults = 0 => SInv)
<1>1. Init => TInv /\ SInv
  <2>1. Range(<<>>) = {}
    BY DEF Range
  <2> QED
    BY <2>1, TInit DEF Init, SInv, MemInv, BatchInv, SaveInv, TakenIsSafe
<1>2. TInv /\ [Next]_vars => TInv'
  BY TypeStep, LogStep, ReadStep DEF TInv
<1>3. TInv /\ (faults = 0 => SInv) /\ [Next]_vars => (faults = 0 => SInv)'
  <2> SUFFICES ASSUME TInv, faults = 0 => SInv, [Next]_vars, faults' = 0
               PROVE  SInv'
    OBVIOUS
  <2>1. SInv
    BY FaultsGrow DEF TInv
  <2>2. TInv' /\ TypeOK'
    BY <1>2 DEF TInv
  <2> QED
    BY <2>1, <2>2, MemStep, BatchStep, SaveStep, SafeStep DEF SInv
<1> QED
  BY <1>1, <1>2, <1>3, PTL DEF Spec

\* As long as every disk write is complete, an event the tailer is done with
\* is in the spool file or in the store, whatever crashes, rotates or is lost.
THEOREM NothingTakenIsLost == Spec => [](faults = 0 => TakenIsSafe)
<1>1. SInv => TakenIsSafe
  BY DEF SInv
<1> QED
  BY <1>1, SafeInvariance, PTL

\* As long as every disk write is complete, load() never meets a bad record,
\* wherever the crashes cut the file off.
THEOREM AlwaysRestartable == Spec => []Restartable
<1>1. (faults = 0 => SInv) => Restartable
  BY DEF SInv, MemInv, Restartable
<1> QED
  BY <1>1, SafeInvariance, PTL

\* If every disk write is complete, an event leaves the spool file only when
\* ingest has stored it or refuses it.
THEOREM OnlyStoredIsAcked ==
    ASSUME MaxFaults = 0
    PROVE  Spec => AckedIsStored
<1>1. TInv => faults = 0
  BY DEF TInv, TypeOK
<1>2. SInv /\ TInv' /\ [Next]_vars =>
        [\A e \in Lines :
            e \in Range(spool) \ Range(spool') => e \in stored' \cup Refused]_vars
  <2> SUFFICES ASSUME SInv, TInv', [Next]_vars
               PROVE  \A e \in Lines : e \in Range(spool) \ Range(spool') =>
                                          e \in stored' \cup Refused
    OBVIOUS
  <2>1. faults' = 0
    BY DEF TInv, TypeOK
  <2> QED
    BY <2>1, SpoolLeaves
<1> QED
  BY <1>1, <1>2, SafeInvariance, PTL DEF Spec, AckedIsStored

-----------------------------------------------------------------------------
(* The FIFO is in the order of the log.                                    *)

\* Every record of q is a line up to n, or one of X.
Within(q, n, X) == \A i \in 1 .. Len(q) : q[i] <= n \/ q[i] \in X

\* The records of q follow the log, but for those of X.
InOrder(q, X) == \A i \in 1 .. Len(q) - 1 : q[i] <= q[i + 1] \/ q[i] \in X

\* The line at which a tailer that wakes up with checkpoint c goes on.
Resume(c) == start[active] + (IF c.file = active THEN c.offset ELSE 0) + 1

\* c is at a log file, and not past the end of the active one.
Placed(c) ==
    /\ c.file \in 1 .. active
    /\ c.file = active => c.offset <= Size(c.file)

\* A tailer that wakes up with checkpoint c goes on after what is in the file,
\* or repeats its last record.
Follows(c) == Placed(c) /\ Within(spool, Resume(c), strays)

\* So does a restart.
SavedInv == IF saved = NoCheckpoint THEN spool = <<>> ELSE Follows(saved)

\* So does the tailer, whose checkpoint is the saved one unless it has just
\* found the log rotated; and so does the stream it has open.
ReaderInv ==
    /\ checkpoint # NoCheckpoint =>
          /\ Follows(checkpoint)
          /\ saved # NoCheckpoint
          /\ \/ saved = checkpoint
             \/ saved.file < checkpoint.file /\ checkpoint.offset = 0
    /\ tail \in {"reading", "save"} => Within(spool, Line, strays)

\* A process that has no checkpoint in memory has none on disk.
UpInv == up /\ checkpoint = NoCheckpoint => saved = NoCheckpoint

OInv ==
    /\ InOrder(spool, strays)
    /\ Within(spool, written, strays)
    /\ SavedInv
    /\ ReaderInv
    /\ UpInv

\* A bound may rise, and the exceptions may grow.
LEMMA WithinRises ==
    ASSUME NEW q \in Seq(Nat), NEW n \in Nat, NEW m \in Nat, n <= m,
           NEW X, NEW Y, X \subseteq Y, Within(q, n, X)
    PROVE  Within(q, m, Y)
BY DEF Within

\* A record more, up to the bound or excepted.
LEMMA WithinAppend ==
    ASSUME NEW q \in Seq(Nat), NEW n \in Nat, NEW e \in Nat,
           NEW X, NEW Y, X \subseteq Y, Within(q, n, X), e <= n \/ e \in Y
    PROVE  Within(Append(q, e), n, Y)
<1> SUFFICES ASSUME NEW i \in 1 .. Len(Append(q, e))
             PROVE  Append(q, e)[i] <= n \/ Append(q, e)[i] \in Y
  BY DEF Within
<1>1. CASE i = Len(q) + 1
  BY <1>1
<1>2. CASE i # Len(q) + 1
  <2>1. i \in 1 .. Len(q) /\ Append(q, e)[i] = q[i]
    BY <1>2
  <2> QED
    BY <2>1 DEF Within
<1> QED
  BY <1>1, <1>2

\* A record more, after all the others.
LEMMA OrderAppend ==
    ASSUME NEW q \in Seq(Nat), NEW e \in Nat,
           NEW X, NEW Y, X \subseteq Y, InOrder(q, X), Within(q, e, X)
    PROVE  InOrder(Append(q, e), Y)
<1> SUFFICES ASSUME NEW i \in 1 .. Len(Append(q, e)) - 1
             PROVE  \/ Append(q, e)[i] <= Append(q, e)[i + 1]
                    \/ Append(q, e)[i] \in Y
  BY DEF InOrder
<1>1. i \in 1 .. Len(q) /\ Append(q, e)[i] = q[i]
  OBVIOUS
<1>2. CASE i = Len(q)
  <2>1. Append(q, e)[i + 1] = e
    BY <1>2
  <2> QED
    BY <1>1, <2>1 DEF Within
<1>3. CASE i # Len(q)
  <2>1. i \in 1 .. Len(q) - 1 /\ Append(q, e)[i + 1] = q[i + 1]
    BY <1>1, <1>3
  <2> QED
    BY <1>1, <2>1 DEF InOrder
<1> QED
  BY <1>2, <1>3

\* What is left after the first records.
LEMMA SuffixOrdered ==
    ASSUME NEW q \in Seq(Nat), NEW k \in 0 .. Len(q), NEW X, InOrder(q, X)
    PROVE  /\ InOrder(Suffix(q, k), X)
           /\ \A n : Within(q, n, X) => Within(Suffix(q, k), n, X)
<1> DEFINE r == Suffix(q, k)
<1>1. /\ Len(r) = Len(q) - k
      /\ \A i \in 1 .. Len(q) - k : r[i] = q[k + i]
  BY SuffixFacts
<1>2. Len(q) \in Nat /\ k \in Nat /\ k <= Len(q)
  OBVIOUS
<1> HIDE DEF r
<1>3. ASSUME NEW i \in 1 .. Len(r) - 1
      PROVE  r[i] <= r[i + 1] \/ r[i] \in X
  <2>1. /\ k + i \in 1 .. Len(q) - 1 /\ k + (i + 1) = (k + i) + 1
        /\ i \in 1 .. Len(q) - k /\ i + 1 \in 1 .. Len(q) - k
    BY <1>1, <1>2
  <2>2. q[k + i] <= q[(k + i) + 1] \/ q[k + i] \in X
    BY <2>1 DEF InOrder
  <2>3. r[i] = q[k + i] /\ r[i + 1] = q[(k + i) + 1]
    <3>1. r[i] = q[k + i] /\ r[i + 1] = q[k + (i + 1)]
      BY <1>1, <2>1
    <3> QED
      BY <2>1, <3>1
  <2> QED
    BY <2>2, <2>3
<1>4. ASSUME NEW n, Within(q, n, X), NEW i \in 1 .. Len(r)
      PROVE  r[i] <= n \/ r[i] \in X
  <2>1. k + i \in 1 .. Len(q) /\ r[i] = q[k + i]
    BY <1>1, <1>2
  <2>2. q[k + i] <= n \/ q[k + i] \in X
    BY <1>4, <2>1 DEF Within
  <2> QED
    BY <2>1, <2>2
<1> QED
  BY <1>3, <1>4 DEF r, InOrder, Within

\* Where a position in the log is, in lines.
LEMMA PositionFacts ==
    ASSUME TInv, NEW c \in Checkpoints, Placed(c)
    PROVE  /\ c.file \in 1 .. active /\ c.offset \in Nat /\ c # NoCheckpoint
           /\ active \in Nat \ {0} /\ active \in 1 .. active
           /\ start[active] \in Nat /\ written \in Nat /\ Resume(c) \in Nat
           /\ start[active] + 1 <= Resume(c)
<1>1. /\ c.file \in 1 .. active /\ c.offset \in Nat
      /\ active \in Nat \ {0} /\ active \in 1 .. active
  BY ConstantFacts DEF TInv, TypeOK, Placed, Checkpoints, Files
<1>2. start[active] \in Nat /\ written \in Nat
  BY <1>1, EndFacts DEF TInv
<1>3. c # NoCheckpoint
  BY <1>1 DEF NoCheckpoint
<1> QED
  BY <1>1, <1>2, <1>3 DEF Resume

\* What the inductive invariants say of records and checkpoints.
LEMMA OrderTypes ==
    ASSUME SInv
    PROVE  /\ spool \in Seq(Nat)
           /\ checkpoint \in Checkpoints /\ saved \in Checkpoints
           /\ written \in Nat /\ TInv
<1>1. Lines \cup {Corrupt} \subseteq Nat
  BY ConstantFacts DEF Lines, Corrupt
<1>2. spool \in Seq(Lines \cup {Corrupt})
  BY DEF SInv, TInv, TypeOK
<1>3. spool \in Seq(Nat)
  BY <1>1, <1>2
<1> QED
  BY <1>3, ConstantFacts DEF SInv, TInv, TypeOK

\* The line a stream is at: unless it strayed, the tailer would go on there or
\* later if it woke up now.
LEMMA StreamFacts ==
    ASSUME TInv, tail \in {"reading", "save"}
    PROVE  /\ Line \in Nat /\ fd \in 1 .. active
           /\ checkpoint.file \in 1 .. active /\ checkpoint.file <= fd
           /\ checkpoint # NoCheckpoint
           /\ checkpoint.file = fd => checkpoint.offset = read
           /\ fd = checkpoint.file /\ read < Size(fd) =>
                 /\ Line <= Resume(checkpoint)
                 /\ checkpoint.offset = 0 => Line <= start[active] + 1
<1>1. /\ fd \in 1 .. active /\ read \in Nat /\ active \in Nat
      /\ checkpoint.file \in 1 .. active /\ checkpoint.file <= fd
      /\ checkpoint.file = fd => checkpoint.offset = read
  BY ConstantFacts DEF TInv, TypeOK, ReadInv, Files
<1>2. /\ start[fd] \in Nat /\ Size(fd) \in Nat
      /\ fd < active => start[fd] + Size(fd) <= start[active]
      /\ fd <= active => start[fd] <= start[active]
      /\ start[active] \in Nat
  <2>1. active \in 1 .. active
    BY <1>1
  <2>2. \A g \in 1 .. active : Size(g) \in Nat
    BY SizeType, ConstantFacts DEF TInv
  <2>3. \A g \in 1 .. active :
           /\ start[g] \in Nat
           /\ \A h \in 1 .. active : g < h => start[g] + Size(g) <= start[h]
    BY EndFacts DEF TInv
  <2>4. fd <= active => start[fd] <= start[active]
    BY <1>1, <2>1 DEF TInv, LogInv
  <2> QED
    BY <1>1, <2>1, <2>2, <2>3, <2>4
<1>3. Line = start[fd] + read + 1 /\ Line \in Nat
  BY <1>1, <1>2 DEF Line
<1>4. checkpoint # NoCheckpoint
  BY <1>1 DEF NoCheckpoint
<1>5. ASSUME fd = checkpoint.file, read < Size(fd)
      PROVE  /\ Line <= Resume(checkpoint)
             /\ checkpoint.offset = 0 => Line <= start[active] + 1
  <2>1. CASE fd = active
    BY <1>1, <1>2, <1>3, <1>5, <2>1 DEF Resume
  <2>2. CASE fd # active
    BY <1>1, <1>2, <1>3, <1>5, <2>2 DEF Resume
  <2> QED
    BY <2>1, <2>2
<1> QED
  BY <1>1, <1>3, <1>4, <1>5

\* Cowrie moves no position, and resuming only gets later.
LEMMA LogMoves ==
    ASSUME TInv, [Next]_vars
    PROVE  /\ written \in Nat /\ written' \in Nat /\ written <= written'
           /\ \A c \in Checkpoints : Placed(c) =>
                 Placed(c)' /\ Resume(c)' \in {Resume(c), written + 1}
           /\ \A g \in 1 .. active : start'[g] = start[g]
<1>1. /\ active \in Nat \ {0} /\ active \in 1 .. active /\ active \in Files
      /\ written \in Nat /\ written' \in Nat /\ start[active] \in Nat
  <2>1. TypeOK'
    BY TypeStep
  <2>2. written' \in Nat
    BY <2>1, ConstantFacts DEF TypeOK
  <2> QED
    BY <2>2, ConstantFacts DEF TInv, TypeOK, Files
<1>2. \A g \in 1 .. active : start'[g] = start[g]
  BY LogStep
<1>3. CASE UNCHANGED <<start, active>> /\ written' \in {written, written + 1}
  <2>1. ASSUME NEW c \in Checkpoints, Placed(c)
        PROVE  Placed(c)' /\ Resume(c)' = Resume(c)
    <3>1. /\ Size(active) <= Size(active)'
          /\ Size(active)' \in Nat /\ Size(active) \in Int
      <4>1. PICK k \in 1 .. active : k = active
        BY <1>1
      <4>2. Size(k) <= Size(k)' /\ Size(k)' \in Nat /\ Size(k) \in Int
        BY LogStep, SizeType, ConstantFacts DEF TInv
      <4>3. Size(active) = Size(k) /\ Size(active)' = Size(k)'
        BY <1>3, <4>1 DEF Size
      <4> QED
        BY <4>2, <4>3
    <3>2. c.offset \in Nat
      BY <2>1, PositionFacts
    <3>3. c.file = active => Size(c.file)' = Size(active)'
      BY <1>3 DEF Size
    <3>4. Resume(c)' = Resume(c)
      BY <1>3 DEF Resume
    <3> QED
      BY <1>3, <2>1, <3>1, <3>2, <3>3, <3>4 DEF Placed
  <2> QED
    BY <1>1, <1>2, <1>3, <2>1
<1>4. CASE Rotate
  <2>1. /\ active' = active + 1 /\ written' = written
        /\ start'[active + 1] = written
    BY <1>1, <1>4, ConstantFacts DEF Rotate, TInv, TypeOK, Files
  <2>2. ASSUME NEW c \in Checkpoints, Placed(c)
        PROVE  Placed(c)' /\ Resume(c)' = written + 1
    <3>1. c.file \in 1 .. active
      BY <2>2 DEF Placed
    <3> QED
      BY <1>1, <2>1, <3>1 DEF Placed, Resume
  <2> QED
    BY <1>1, <1>2, <2>1, <2>2
<1> QED
  BY <1>3, <1>4
     DEF Next, Read, Post, StartRead, OpenStream, OpenFails, DropLine,
         AppendEvent, AppendShort, SpoolFull, SaveCheckpoint, SaveFails,
         EndOfFile, StartFlush, PostAccepted, PostFailed, PostRejected, Crash,
         Restart, vars, log, WriteLine

\* Cowrie's steps keep the order.
LEMMA LogKeepsOrder ==
    ASSUME SInv, OInv, [Next]_vars,
           UNCHANGED <<spool, saved, checkpoint, tail, stream, strays, up>>
    PROVE  OInv'
<1>1. /\ written \in Nat /\ written' \in Nat /\ written <= written'
      /\ \A c \in Checkpoints : Placed(c) =>
            Placed(c)' /\ Resume(c)' \in {Resume(c), written + 1}
      /\ \A g \in 1 .. active : start'[g] = start[g]
  BY OrderTypes, LogMoves
<1>2. /\ InOrder(spool, strays) /\ Within(spool, written, strays)
      /\ spool \in Seq(Nat)
  BY OrderTypes DEF OInv
<1>3. Within(spool, written + 1, strays) /\ Within(spool, written', strays)
  BY <1>1, <1>2, WithinRises
<1>4. ASSUME NEW c \in Checkpoints, Follows(c)
      PROVE  Placed(c)' /\ Within(spool, Resume(c)', strays)
  <2>1. Placed(c) /\ Within(spool, Resume(c), strays)
    BY <1>4 DEF Follows
  <2>2. Placed(c)' /\ Resume(c)' \in {Resume(c), written + 1}
    BY <1>1, <2>1
  <2> QED
    BY <1>3, <2>1, <2>2
<1>5. ASSUME NEW c \in Checkpoints, Follows(c) PROVE Follows(c)'
  BY <1>4, <1>5 DEF Follows, Within
<1>6. SavedInv'
  <2>1. CASE saved = NoCheckpoint
    BY <2>1 DEF OInv, SavedInv
  <2>2. CASE saved # NoCheckpoint
    <3>1. PICK c \in Checkpoints : c = saved
      BY OrderTypes
    <3>2. Follows(c)'
      BY <1>5, <2>2, <3>1 DEF OInv, SavedInv
    <3>3. saved' = c
      BY <3>1
    <3> QED
      BY <2>2, <3>1, <3>2, <3>3 DEF SavedInv, Follows, Placed, Resume, Size
  <2> QED
    BY <2>1, <2>2
<1>7. ReaderInv'
  <2>1. ASSUME checkpoint # NoCheckpoint PROVE Follows(checkpoint)'
    <3>1. PICK c \in Checkpoints : c = checkpoint
      BY OrderTypes
    <3>2. Follows(c)'
      BY <1>5, <2>1, <3>1 DEF OInv, ReaderInv
    <3>3. checkpoint' = c
      BY <3>1
    <3> QED
      BY <3>1, <3>2, <3>3 DEF Follows, Placed, Resume, Size
  <2>2. ASSUME tail \in {"reading", "save"} PROVE Line' = Line
    <3>1. fd \in 1 .. active
      BY <2>2, OrderTypes, StreamFacts
    <3> QED
      BY <1>1, <3>1 DEF Line, stream
  <2> QED
    BY <2>1, <2>2 DEF OInv, ReaderInv, Within
<1>8. InOrder(spool', strays') /\ Within(spool', written', strays')
  BY <1>2, <1>3
<1> QED
  BY <1>6, <1>7, <1>8 DEF OInv, UpInv

\* The order after a step that leaves Cowrie's log alone, said of the spool
\* and the two checkpoints it leads to.
LEMMA OrderAfter ==
    ASSUME UNCHANGED log,
           NEW s, s = saved', NEW c, c = checkpoint',
           NEW q, q = spool', NEW X, X = strays', NEW l, l = Line',
           InOrder(q, X), Within(q, written, X),
           s = NoCheckpoint => q = <<>>,
           s # NoCheckpoint => Placed(s) /\ Within(q, Resume(s), X),
           c # NoCheckpoint =>
               /\ Placed(c) /\ Within(q, Resume(c), X)
               /\ s # NoCheckpoint
               /\ s = c \/ (s.file < c.file /\ c.offset = 0),
           tail' \in {"reading", "save"} => Within(q, l, X),
           up' /\ c = NoCheckpoint => s = NoCheckpoint
    PROVE  OInv'
<1>1. start' = start /\ active' = active /\ written' = written
  BY DEF log
<1>2. SavedInv'
  BY <1>1 DEF SavedInv, Follows, Placed, Resume, Size
<1>3. ReaderInv'
  BY <1>1 DEF ReaderInv, Follows, Placed, Resume, Size
<1>4. InOrder(spool', strays') /\ Within(spool', written', strays')
  BY <1>1
<1> QED
  BY <1>2, <1>3, <1>4 DEF OInv, UpInv

\* What OInv says of the checkpoints, in pieces.
LEMMA OrderFacts ==
    ASSUME SInv, OInv
    PROVE  /\ InOrder(spool, strays) /\ Within(spool, written, strays)
           /\ saved = NoCheckpoint => spool = <<>>
           /\ saved # NoCheckpoint =>
                 Placed(saved) /\ Within(spool, Resume(saved), strays)
           /\ checkpoint # NoCheckpoint =>
                 /\ Placed(checkpoint)
                 /\ Within(spool, Resume(checkpoint), strays)
                 /\ saved # NoCheckpoint
                 /\ \/ saved = checkpoint
                    \/ saved.file < checkpoint.file /\ checkpoint.offset = 0
           /\ tail \in {"reading", "save"} => Within(spool, Line, strays)
           /\ up /\ checkpoint = NoCheckpoint => saved = NoCheckpoint
BY DEF OInv, SavedInv, ReaderInv, Follows, UpInv

\* A record appended goes to the end, or is a stray; a restart may repeat it.
LEMMA AppendOrdered ==
    ASSUME SInv, OInv, AppendEvent
    PROVE  OInv'
<1>1. /\ tail = "reading" /\ tail' = "save" /\ read < Size(fd)
      /\ UNCHANGED <<log, checkpoint, stream, saved, up>>
      /\ spool' = Append(spool, Line) /\ strays' = Strayed
  BY AppendEffect DEF AppendEvent, NextLine
<1>2. /\ Line \in Nat /\ fd \in 1 .. active
      /\ checkpoint.file \in 1 .. active /\ checkpoint # NoCheckpoint
      /\ fd = checkpoint.file =>
            /\ Line <= Resume(checkpoint)
            /\ checkpoint.offset = 0 => Line <= start[active] + 1
  BY <1>1, OrderTypes, StreamFacts
<1>3. Line <= written /\ written \in Nat
  BY <1>1, OrderTypes, LineFacts
<1>4. /\ Placed(checkpoint) /\ saved # NoCheckpoint /\ Placed(saved)
      /\ \/ saved = checkpoint
         \/ saved.file < checkpoint.file /\ checkpoint.offset = 0
  BY <1>2, OrderFacts
<1>5. /\ Resume(checkpoint) \in Nat /\ Resume(saved) \in Nat
      /\ start[active] + 1 <= Resume(saved) /\ start[active] \in Nat
  BY <1>4, OrderTypes, PositionFacts
<1>6. strays \subseteq strays' /\ (fd # checkpoint.file => Line \in strays')
  BY <1>1 DEF Strayed
<1>7. fd = checkpoint.file => Line <= Resume(checkpoint) /\ Line <= Resume(saved)
  BY <1>2, <1>4, <1>5
<1>8. /\ Within(spool, written, strays) /\ Within(spool, Resume(saved), strays)
      /\ Within(spool, Resume(checkpoint), strays) /\ Within(spool, Line, strays)
      /\ InOrder(spool, strays) /\ spool \in Seq(Nat)
  BY <1>1, <1>2, <1>4, OrderFacts, OrderTypes
<1>9. /\ Within(spool', written, strays')
      /\ Within(spool', Resume(saved), strays')
      /\ Within(spool', Resume(checkpoint), strays')
      /\ Within(spool', Line, strays')
      /\ InOrder(spool', strays')
  <2> DEFINE l == Line
             q == Append(spool, l)
             Y == strays'
  <2>1. /\ l \in Nat /\ written \in Nat /\ l <= l
        /\ l <= written \/ l \in Y
        /\ l <= Resume(saved) \/ l \in Y
        /\ l <= Resume(checkpoint) \/ l \in Y
        /\ strays \subseteq Y
    BY <1>2, <1>3, <1>6, <1>7
  <2> HIDE DEF l, Y
  <2>2. /\ Within(q, written, Y) /\ Within(q, Resume(saved), Y)
        /\ Within(q, Resume(checkpoint), Y)
    BY <2>1, <1>5, <1>8, WithinAppend
  <2>3. Within(spool, l, strays)
    BY <1>8 DEF l
  <2>4. Within(q, l, Y) /\ InOrder(q, Y)
    BY <2>1, <2>3, <1>8, WithinAppend, OrderAppend
  <2> QED
    BY <1>1, <2>2, <2>4 DEF l, Y
<1>10. Line' = Line /\ (up' /\ checkpoint = NoCheckpoint => saved = NoCheckpoint)
  BY <1>1, OrderFacts DEF Line, stream, log
<1> QED
  BY <1>1, <1>4, <1>9, <1>10, OrderAfter

\* An acknowledged batch leaves the records after it, in their order.
LEMMA AckOrdered ==
    ASSUME SInv, OInv, PostAccepted
    PROVE  OInv'
<1>1. /\ UNCHANGED <<log, checkpoint, tail, stream, strays, saved, up>>
      /\ spool = pending /\ spool' = Suffix(spool, Len(batch))
      /\ spool \in Seq(Lines) /\ Len(batch) \in 0 .. Len(spool)
  BY DEF PostAccepted, Scheduled, SInv, MemInv, BatchInv, TInv, TypeOK, tailer,
         history, process
<1>2. /\ InOrder(spool', strays)
      /\ \A n : Within(spool, n, strays) => Within(spool', n, strays)
  BY <1>1, OrderTypes, OrderFacts, SuffixOrdered
<1>3. ASSUME spool = <<>> PROVE spool' = <<>>
  <2>1. Len(spool) = 0 /\ Len(batch) = 0
    BY <1>1, <1>3
  <2> QED
    BY <1>1, <1>3, <2>1 DEF Suffix
<1>4. Line' = Line
  BY <1>1 DEF Line, stream, log
<1> QED
  BY <1>1, <1>2, <1>3, <1>4, OrderFacts, OrderAfter

\* Finding the place in the log keeps the order.
LEMMA StartOrdered ==
    ASSUME SInv, OInv, StartRead
    PROVE  OInv'
<1> DEFINE first == checkpoint = NoCheckpoint
           c == IF first THEN FirstCheckpoint ELSE checkpoint
           from == IF Rotated(c) THEN [file |-> active, offset |-> 0] ELSE c
<1>1. /\ UNCHANGED <<log, spool, strays, up>> /\ up
      /\ tail' \in {"idle", "opening"}
      /\ checkpoint' = from /\ saved' = IF first THEN c ELSE saved
  BY DEF StartRead, queue, process, history
<1>2. /\ active \in Nat \ {0} /\ active \in 1 .. active
      /\ Size(active) \in Nat /\ start[active] \in Nat
  <2>1. active \in Nat \ {0} /\ active \in 1 .. active /\ active \in Files
    BY ConstantFacts DEF SInv, TInv, TypeOK, Files
  <2> QED
    BY <2>1, SizeType, ConstantFacts DEF SInv, TInv, TypeOK
<1>3. /\ InOrder(spool, strays) /\ Within(spool, written, strays)
      /\ tail' \notin {"reading", "save"}
  BY <1>1, OrderFacts
<1>4. CASE first
  <2>1. spool = <<>>
    BY <1>1, <1>4, OrderFacts
  <2>2. c.file = active /\ c.offset \in {0, Size(active)}
    BY <1>4 DEF FirstCheckpoint
  <2>3. Placed(c) /\ ~Rotated(c) /\ c # NoCheckpoint
    BY <1>2, <2>2 DEF Placed, Rotated, NoCheckpoint
  <2>4. from = c /\ saved' = c /\ checkpoint' = c
    BY <1>1, <1>4, <2>3
  <2>5. \A n : Within(spool, n, strays)
    BY <2>1 DEF Within
  <2> HIDE DEF c, from, first
  <2> QED
    BY <1>1, <1>3, <2>1, <2>3, <2>4, <2>5, OrderAfter
<1>5. CASE ~first
  <2>1. /\ Placed(checkpoint) /\ Within(spool, Resume(checkpoint), strays)
        /\ saved # NoCheckpoint /\ saved' = saved
        /\ Placed(saved) /\ Within(spool, Resume(saved), strays)
        /\ \/ saved = checkpoint
           \/ saved.file < checkpoint.file /\ checkpoint.offset = 0
    BY <1>1, <1>5, OrderFacts
  <2>2. CASE Rotated(checkpoint)
    <3>1. from.file = active /\ from.offset = 0
      BY <1>5, <2>2
    <3>2. checkpoint.file # active /\ checkpoint.file \in 1 .. active
      BY <1>2, <2>1, <2>2, OrderTypes, PositionFacts DEF Rotated, Placed
    <3> HIDE DEF from, c, first
    <3>3. Placed(from) /\ from # NoCheckpoint /\ Resume(from) = Resume(checkpoint)
      BY <1>2, <3>1, <3>2 DEF Placed, NoCheckpoint, Resume
    <3>4. saved.file < from.file
      <4>1. saved.file \in 1 .. active
        BY <2>1 DEF Placed
      <4> QED
        BY <1>2, <2>1, <3>1, <3>2, <4>1
    <3>5. Within(spool, Resume(from), strays)
      BY <2>1, <3>3
    <3> QED
      BY <1>1, <1>3, <2>1, <3>1, <3>3, <3>4, <3>5, OrderAfter
  <2>3. CASE ~Rotated(checkpoint)
    <3>1. from = checkpoint /\ checkpoint # NoCheckpoint
      BY <1>5, <2>3
    <3>2. checkpoint' = checkpoint
      BY <1>1, <3>1
    <3> HIDE DEF from, c, first
    <3> QED
      BY <1>1, <1>3, <2>1, <3>1, <3>2, OrderAfter
  <2> QED
    BY <2>2, <2>3
<1> QED
  BY <1>4, <1>5

\* Opening the stream keeps the order, whatever the path names by then.
LEMMA OpenOrdered ==
    ASSUME SInv, OInv, OpenStream
    PROVE  OInv'
<1>1. /\ UNCHANGED <<log, spool, strays, up, checkpoint, saved>>
      /\ tail = "opening" /\ fd' = active
      /\ read' \in IF checkpoint.file = active \/ checkpoint.offset = 0
                   THEN {checkpoint.offset} ELSE Lines
  BY DEF OpenStream, queue, process, history
<1>2. checkpoint # NoCheckpoint
  BY <1>1 DEF SInv, TInv, ReadInv, NoCheckpoint
<1>3. /\ Placed(checkpoint) /\ Within(spool, Resume(checkpoint), strays)
      /\ checkpoint \in Checkpoints /\ spool \in Seq(Nat)
  BY <1>2, OrderFacts, OrderTypes
<1>4. /\ Resume(checkpoint) \in Nat /\ start[active] \in Nat
      /\ checkpoint.offset \in Nat
  BY <1>3, OrderTypes, PositionFacts
<1>5. Line' = start[active] + read' + 1 /\ read' \in Nat
  BY <1>1, <1>4, ConstantFacts DEF Line, log, Lines
<1>6. Resume(checkpoint) <= Line' /\ Line' \in Nat
  BY <1>1, <1>4, <1>5 DEF Resume
<1>7. Within(spool, Line', strays)
  <2> DEFINE l == Line'
  <2>1. l \in Nat /\ Resume(checkpoint) <= l
    BY <1>6
  <2> HIDE DEF l
  <2>2. Within(spool, l, strays)
    BY <1>3, <1>4, <2>1, WithinRises
  <2> QED
    BY <2>2 DEF l
<1> QED
  BY <1>1, <1>7, OrderFacts, OrderAfter

\* Going on to the next line keeps the order.
LEMMA SaveOrdered ==
    ASSUME SInv, OInv, SaveCheckpoint
    PROVE  OInv'
<1>1. /\ UNCHANGED <<log, spool, strays, up, fd>> /\ tail = "save"
      /\ checkpoint' = Advanced /\ saved' = Advanced /\ read' = read + 1
  BY DEF SaveCheckpoint, queue, process
<1>2. read < Size(fd)
  BY <1>1 DEF SInv, TInv, ReadInv
<1>3. /\ Line \in Nat /\ fd \in 1 .. active
      /\ checkpoint.file \in 1 .. active /\ checkpoint.file <= fd
      /\ checkpoint # NoCheckpoint
      /\ checkpoint.file = fd => checkpoint.offset = read
  BY <1>1, OrderTypes, StreamFacts
<1>4. /\ Advanced \in Checkpoints
      /\ Advanced.file = checkpoint.file
      /\ Advanced.offset = checkpoint.offset + 1
      /\ read + 1 \in Nat
  BY <1>1, <1>2, OrderTypes, LineFacts, ConstantFacts
<1>5. /\ Placed(checkpoint) /\ Within(spool, Resume(checkpoint), strays)
      /\ Within(spool, Line, strays) /\ spool \in Seq(Nat)
  BY <1>1, <1>3, OrderFacts, OrderTypes
<1>6. /\ checkpoint.offset \in Nat /\ active \in Nat
      /\ start[active] \in Nat /\ Resume(checkpoint) \in Nat
  BY <1>5, OrderTypes, PositionFacts
<1>7. Placed(Advanced) /\ Advanced # NoCheckpoint
  <2>1. Size(fd) \in Nat /\ read \in Nat
    BY <1>3, SizeType, OrderTypes, ConstantFacts DEF TInv, TypeOK
  <2>2. ASSUME Advanced.file = active
        PROVE  Advanced.offset <= Size(Advanced.file)
    <3>1. fd = active /\ checkpoint.offset = read
      BY <1>3, <1>4, <1>6, <2>2
    <3> QED
      BY <1>2, <1>4, <2>1, <2>2, <3>1
  <2> QED
    BY <1>3, <1>4, <2>2 DEF Placed, NoCheckpoint
<1>8. Resume(Advanced) \in Nat /\ Resume(checkpoint) <= Resume(Advanced)
  BY <1>4, <1>6 DEF Resume
<1>9. Line' = Line + 1
  <2>1. read \in Nat /\ start[fd] \in Nat
    BY <1>3, EndFacts, OrderTypes, ConstantFacts DEF TInv, TypeOK
  <2> QED
    BY <1>1, <2>1 DEF Line, log
<1>10. Within(spool, Resume(Advanced), strays)
  BY <1>5, <1>6, <1>8, WithinRises
<1>11. Within(spool, Line', strays)
  <2> DEFINE l == Line
  <2>1. l \in Nat /\ l + 1 \in Nat /\ l <= l + 1 /\ Line' = l + 1
        /\ Within(spool, l, strays)
    BY <1>3, <1>5, <1>9
  <2> HIDE DEF l
  <2>2. Within(spool, l + 1, strays)
    BY <1>5, <2>1, WithinRises
  <2> QED
    BY <2>1, <2>2
<1> QED
  BY <1>1, <1>7, <1>10, <1>11, OrderFacts, OrderAfter

\* Every step keeps the order, if no write fails and no checkpoint is lost.
LEMMA OrderStep ==
    ASSUME faults' = 0, PowerLoss = FALSE, SInv, OInv, [Next]_vars
    PROVE  OInv'
<1>1. CASE WriteLine \/ Rotate \/ StartFlush \/ PostFailed \/ PostRejected
           \/ UNCHANGED vars
  <2>1. UNCHANGED <<spool, saved, checkpoint, tail, stream, strays, up>>
    BY <1>1 DEF WriteLine, Rotate, StartFlush, PostFailed, PostRejected, vars,
                tailer, history, queue, process
  <2> QED
    BY <2>1, LogKeepsOrder
<1>2. CASE DropLine \/ SpoolFull \/ EndOfFile \/ OpenFails
  <2>1. /\ UNCHANGED <<log, checkpoint, saved, spool, strays, stream, up>>
        /\ tail' # "idle" => tail = "reading"
    BY <1>2 DEF DropLine, SpoolFull, EndOfFile, OpenFails, NextLine, queue,
                process, history
  <2>2. Line' = Line
    BY <2>1 DEF Line, stream, log
  <2> QED
    BY <2>1, <2>2, OrderFacts, OrderAfter
<1>3. CASE Crash \/ Restart
  <2>1. /\ UNCHANGED <<log, spool, strays>> /\ saved' = saved /\ tail' = "idle"
        /\ \/ ~up' /\ checkpoint' = NoCheckpoint
           \/ checkpoint' = saved
    BY <1>3 DEF Crash, Restart, SInv, TInv, ReadInv, history
  <2> QED
    BY <2>1, OrderFacts, OrderAfter
<1>4. ~AppendShort /\ ~SaveFails
  BY DEF AppendShort, SaveFails, SInv
<1> QED
  BY <1>1, <1>2, <1>3, <1>4, StartOrdered, OpenOrdered, AppendOrdered,
     SaveOrdered, AckOrdered DEF Next, Read, Post

\* As long as every disk write is complete, and if no power loss takes the
\* checkpoint back, the spool stays one FIFO, in memory and in the file, and in
\* the order of the log but for the lines of a stream that was opened after a
\* rotation, whatever crashes, rotates or is acknowledged.
THEOREM SpoolStaysInOrder ==
    ASSUME PowerLoss = FALSE
    PROVE  Spec => [](faults = 0 => SpoolInOrder)
<1>1. Init => OInv
  <2> SUFFICES ASSUME Init PROVE OInv
    OBVIOUS
  <2>1. /\ Len(spool) = 0 /\ spool = <<>> /\ checkpoint = NoCheckpoint
        /\ saved = NoCheckpoint /\ tail = "idle"
    BY DEF Init
  <2> QED
    BY <2>1 DEF OInv, InOrder, Within, SavedInv, ReaderInv, UpInv
<1>2. TInv /\ (faults = 0 => SInv) /\ (faults = 0 => OInv) /\ [Next]_vars
        => (faults = 0 => OInv)'
  BY OrderStep, FaultsGrow DEF TInv
<1>3. SInv /\ OInv => SpoolInOrder
  BY DEF SInv, MemInv, OInv, InOrder, SpoolInOrder
<1> QED
  BY <1>1, <1>2, <1>3, SafeInvariance, PTL DEF Spec
=============================================================================
