--------------------------------- MODULE Replay ---------------------------------
(***************************************************************************)
(* The replay tool (honeypot/shipper/src/replay.ts): it reads preserved    *)
(* Cowrie logs line by line, collects events into batches, posts each      *)
(* until it is answered 2xx, and counts what the answers say.  It keeps no *)
(* checkpoint: an operator may run it again from the start.                *)
(***************************************************************************)
EXTENDS Schema

CONSTANTS
    Files,          \* the logs a run may be given: sequences of lines
    SensorName,     \* SENSOR_NAME of the tool
    SizeOf(_),      \* bytes of an event in the body
    MaxBatchEvents, MaxBatchBytes, EnvelopeBytes,
    Backoffs,       \* backoff.length
    Now,            \* Date.now(), which hardly moves during a run
    MaxRuns         \* bound

\* What a line may be: a text is made of characters, an address is one.
IsLine(e) ==
    e \notin {NotJson, JsonNull} =>
        /\ \A f \in TextFields \cap DOMAIN e : e[f] # Other => e[f] \in Texts
        /\ "src_ip" \in DOMAIN e /\ e.src_ip \notin {Other, NotAnAddress}
              => IsAddress(e.src_ip)

ASSUME ReplayAssumption ==
    /\ Backoffs \in Nat
    /\ \A f \in Files : f \in Seq(Range(f)) /\ \A n \in DOMAIN f : IsLine(f[n])

VARIABLES
    file,           \* the log
    tool,           \* where the tool is
    pos,            \* the line it reads next
    batch,          \* lines collected, as positions in the file
    batchBytes,
    attempt,
    count,          \* mapped, accepted, duplicate, rejected
    runs

replay == <<file, tool, pos, batch, batchBytes, attempt, count, runs>>

NoCount == [mapped |-> 0, accepted |-> 0, duplicate |-> 0, rejected |-> 0]

ReplayInit ==
    /\ tool = "scan" /\ pos = 1
    /\ batch = <<>> /\ batchBytes = EnvelopeBytes
    /\ attempt = 0 /\ count = NoCount
    /\ runs = 1

Wire(n) == ParseLine(file[n], Now)

\* One event more than fits (mutant).
Full_TooLate(w) ==
    /\ batch # <<>>
    /\ Len(batch) > MaxBatchEvents \/ batchBytes + SizeOf(w) > MaxBatchBytes

\* The batch has to go before w is added.
Full(w) ==
    /\ batch # <<>>
    /\ Len(batch) >= MaxBatchEvents \/ batchBytes + SizeOf(w) > MaxBatchBytes

\* A line that is no event.
SkipLine ==
    /\ tool = "scan" /\ pos <= Len(file) /\ ~Throws(file[pos]) /\ Wire(pos) = None
    /\ pos' = pos + 1
    /\ UNCHANGED <<file, tool, batch, batchBytes, attempt, count, runs>>

\* Nobody catches what parseLine throws: the process exits, its batch unsent.
LineThrows ==
    /\ tool = "scan" /\ pos <= Len(file) /\ Throws(file[pos])
    /\ tool' = "dead"
    /\ UNCHANGED <<file, pos, batch, batchBytes, attempt, count, runs>>

AddLine ==
    /\ tool = "scan" /\ pos <= Len(file)
    /\ LET w == Wire(pos) IN
        /\ w # None /\ ~Full(w)
        /\ batch' = Append(batch, pos)
        /\ batchBytes' = batchBytes + SizeOf(w)
    /\ pos' = pos + 1
    /\ count' = [count EXCEPT !.mapped = @ + 1]
    /\ UNCHANGED <<file, tool, attempt, runs>>

\* sendBatch is called: the batch is full, or the last line has been read.
BeginSend ==
    /\ tool = "scan" /\ batch # <<>>
    /\ pos <= Len(file) => Wire(pos) # None /\ Full(Wire(pos))
    /\ tool' = "send"
    /\ attempt' = 0
    /\ UNCHANGED <<file, pos, batch, batchBytes, count, runs>>

Complete ==
    /\ tool = "scan" /\ pos > Len(file) /\ batch = <<>>
    /\ tool' = "done"
    /\ UNCHANGED <<file, pos, batch, batchBytes, attempt, count, runs>>

\* 2xx: the counts of the answer, and back to the loop.
Taken(reply) ==
    /\ count' = [count EXCEPT !.accepted = @ + reply.accepted,
                              !.duplicate = @ + reply.duplicate,
                              !.rejected = @ + reply.rejected]
    /\ batch' = <<>> /\ batchBytes' = EnvelopeBytes
    /\ tool' = "scan"
    /\ UNCHANGED <<file, pos, attempt, runs>>

\* The counter starts anew with each attempt (mutant).
NextAttempt_Reset == 0

NextAttempt == attempt + 1

\* One attempt more than there are delays (mutant).
LastAttempt_Late == attempt > Backoffs

LastAttempt == attempt >= Backoffs

\* Anything else.  A 4xx is thrown inside the try, so its catch waits and
\* tries again, as for a 429, a 5xx, a timeout or a lost connection.
Refused ==
    /\ IF LastAttempt
       THEN tool' = "dead" /\ attempt' = attempt
       ELSE tool' = "send" /\ attempt' = NextAttempt
    /\ UNCHANGED <<file, pos, batch, batchBytes, count, runs>>

\* The operator runs the tool again on the same file.
RunAgain ==
    /\ tool \in {"dead", "done"} /\ runs < MaxRuns
    /\ runs' = runs + 1
    /\ tool' = "scan" /\ pos' = 1
    /\ batch' = <<>> /\ batchBytes' = EnvelopeBytes
    /\ attempt' = 0 /\ count' = NoCount
    /\ UNCHANGED file
===============================================================================
