------------------------------ MODULE IngestApi ------------------------------
(***************************************************************************)
(* POST /v1/events (createEventsHandler in src/server.ts, after the token, *)
(* media type and envelope checks): what one batch of event ids adds to    *)
(* the store and what the handler answers.                                 *)
(*                                                                         *)
(* An event is its id; the same line always has the same id.  The store    *)
(* answers here for its id column only: module LifetimeStore has the rest. *)
(***************************************************************************)
EXTENDS Naturals, Sequences, Functions

CONSTANT
    Refused         \* the events eventSchema refuses, e.g. a session longer
                    \* than seven days, or a clock ten minutes ahead

Prefix(s, n) == SubSeq(s, 1, IF n <= Len(s) THEN n ELSE Len(s))

\* The ids insertEvents creates: ON CONFLICT (id) DO NOTHING RETURNING id.
Inserted(batch, ids) == Range(batch) \ (Refused \cup ids)

\* 400 if something was refused and nothing was new, else 202.
Status(batch, ids) ==
    IF Range(batch) \cap Refused # {} /\ Inserted(batch, ids) = {}
    THEN 400 ELSE 202

\* What a request that dies on the way can leave in the store: insertEvents
\* commits its chunks one by one, in the order of the batch.
PartlyInserted(batch, ids) ==
    {ids \cup Inserted(Prefix(batch, n), ids) : n \in 0 .. Len(batch)}
=============================================================================
