------------------------------- MODULE CowrieMap -------------------------------
(***************************************************************************)
(* Which wire event a line of the Cowrie log becomes, if any               *)
(* (honeypot/shipper/src/map.ts), used by the shipper and the replay tool. *)
(*                                                                         *)
(* A line that parses is the function from the fields it has to their      *)
(* values; a line that does not is NotJson, and JsonNull is the line null. *)
(* A text is its length and how many of its characters, all at its front,  *)
(* are control characters.  A wire event has every field; one that is      *)
(* undefined in the code is None.                                          *)
(***************************************************************************)
EXTENDS Integers, TLC

CONSTANTS
    NotJson,        \* a blank line, or one JSON.parse refuses
    JsonNull,       \* a line that is the JSON value null
    Other,          \* a value of another type than the field should have
    None,           \* no value
    Limit           \* the length a text field is cut to, as a function

Text(n, controls) == [len |-> n, ctl |-> controls]

Texts == [len : Nat, ctl : Nat]

\* The fields of a record that are cut.
TextFields == {"session", "version", "username", "password", "input", "url", "outfile"}

ASSUME MappingAssumption ==
    /\ Limit \in [TextFields -> Nat]
    /\ None \notin Texts

Slice(s, n) ==
    [len |-> IF s.len < n THEN s.len ELSE n, ctl |-> IF s.ctl < n THEN s.ctl ELSE n]

\* String(x ?? ""), of a text, a value of another type, or nothing.
AsText(e, f) ==
    IF f \notin DOMAIN e THEN Text(0, 0)
    ELSE IF e[f] = Other THEN Text(1, 0) ELSE e[f]

\* typeof e[f] === "string".
IsText(e, f) == f \in DOMAIN e /\ e[f] # Other

\* Texts are not cut (mutant).
Cut_Whole(e, f) == AsText(e, f)

Cut(e, f) == Slice(AsText(e, f), Limit[f])

\* isoTs: a time stamp that does not parse becomes the current time.
IsoTs(e, now) ==
    IF "timestamp" \in DOMAIN e /\ e.timestamp # Other THEN e.timestamp ELSE now

\* What every event has, and no more; the rest is undefined.
Base(e, now) ==
    [ts |-> IsoTs(e, now), src_ip |-> e.src_ip, type |-> None,
     session |-> IF "session" \in DOMAIN e /\ e.session # Text(0, 0)
                 THEN Cut(e, "session") ELSE None,
     protocol |-> IF "protocol" \in DOMAIN e /\ e.protocol \in {"ssh", "telnet"}
                  THEN e.protocol ELSE None,
     username |-> None, password |-> None, success |-> None, command |-> None,
     url |-> None, client_version |-> None, duration |-> None]

\* The switch on eventid; None for a record that is not surfaced.
Specific(e, base) ==
    CASE e.eventid = "cowrie.session.connect" -> [base EXCEPT !.type = "session_connect"]
      [] e.eventid \in {"cowrie.client.version", "cowrie.client.kex"} ->
            IF IsText(e, "version")
            THEN [base EXCEPT !.type = "client_version", !.client_version = Cut(e, "version")]
            ELSE None
      [] e.eventid \in {"cowrie.login.success", "cowrie.login.failed"} ->
            [base EXCEPT !.type = "login_attempt", !.success = e.eventid = "cowrie.login.success",
                         !.username = Cut(e, "username"), !.password = Cut(e, "password")]
      [] e.eventid \in {"cowrie.command.input", "cowrie.command.failed"} ->
            IF IsText(e, "input")
            THEN [base EXCEPT !.type = "command", !.command = Cut(e, "input")]
            ELSE None
      [] e.eventid \in {"cowrie.session.file_download", "cowrie.session.file_upload"} ->
            [base EXCEPT !.type = "file_download",
                         !.url = IF "url" \in DOMAIN e THEN Cut(e, "url") ELSE Cut(e, "outfile")]
      [] e.eventid = "cowrie.session.closed" ->
            [base EXCEPT !.type = "session_closed",
                         !.duration = IF "duration" \in DOMAIN e /\ e.duration # Other
                                      THEN e.duration ELSE None]
      [] OTHER -> None

\* mapCowrieEvent
MapCowrieEvent(e, now) ==
    IF "eventid" \notin DOMAIN e \/ "src_ip" \notin DOMAIN e THEN None
    ELSE IF e.src_ip = Other THEN None
    ELSE Specific(e, Base(e, now))

\* mapCowrieEvent reads a property of null, outside the try of parseLine.
Throws(line) == line = JsonNull

\* parseLine, of a line it does not throw on.
ParseLine(line, now) ==
    IF line \in {NotJson, JsonNull} THEN None ELSE MapCowrieEvent(line, now)

\* deterministicEventId: a keyed digest of the sensor's name and the line.
EventId(sensor, line) == <<sensor, line>>
===============================================================================
