--------------------------------- MODULE Schema ---------------------------------
(***************************************************************************)
(* What the write API makes of a wire event: eventSchema, batchSchema and  *)
(* normalizeEvent in ingest/src/schema.ts, truncateIp and hashIp in        *)
(* privacy.ts, the enricher in geo.ts.                                     *)
(*                                                                         *)
(* An IPv6 address is eight hextets.  As a text it has the hextets before  *)
(* "::" (head), those after it (tail), and perhaps four bytes with dots at *)
(* its end (dotted), which stand for two hextets more.                     *)
(***************************************************************************)
EXTENDS CowrieMap, Sequences, SequencesExt

CONSTANTS
    MaxLength,      \* safeString(max), as a function of the field
    Ahead,          \* ten minutes
    Since,          \* 2020-01-01
    Longest,        \* seven days
    MaxEvents,      \* 500
    NotAnAddress,   \* a text that is no IP address
    CountryOf(_), AsnOf(_)      \* what the MaxMind databases have on an address

ASSUME SchemaAssumption ==
    MaxLength \in [{"session", "username", "password", "command", "url", "client_version"} -> Nat]

EventTypes == {"session_connect", "login_attempt", "command",
               "file_download", "client_version", "session_closed"}

\* stripControl, of a text or nothing.
Strip(s) == IF s = None THEN None ELSE Text(s.len - s.ctl, 0)

InRange(t, now) == t < now + Ahead /\ t > Since

\* eventSchema: every text within its maximum.
EventOk(w, now) ==
    /\ InRange(w.ts, now)
    /\ w.type \in EventTypes
    /\ w.src_ip # NotAnAddress
    /\ \A f \in DOMAIN MaxLength : w[f] # None => w[f].len <= MaxLength[f]
    /\ w.protocol # None => w.protocol \in {"ssh", "telnet"}
    /\ w.duration # None => w.duration \in 0 .. Longest
    /\ w.type = "login_attempt" => None \notin {w.username, w.password}
    /\ w.type = "command" => w.command # None

\* batchSchema: the name is stripped before it is tested for being a token.
\* boot is None when the sender leaves sensor_boot_ts out.
BatchOk(sensor, boot, events, now) ==
    /\ sensor.len <= MaxLength["session"] /\ Strip(sensor).len > 0
    /\ boot # None => InRange(boot, now)
    /\ Len(events) \in 1 .. MaxEvents

-------------------------------------------------------------------------------
(* Addresses *)

Zeros(n) == [i \in 1 .. n |-> 0]

\* The dotted bytes count as one hextet (mutant).
TailParts_One(ip) ==
    IF ip.dotted = <<>> THEN ip.tail ELSE Append(ip.tail, ip.dotted[4])

\* The dotted bytes are rewritten as two hextets.  (Where there is no "::",
\* they end the head, and it is all one.)
TailParts(ip) ==
    LET o == ip.dotted
    IN  IF o = <<>> THEN ip.tail
        ELSE ip.tail \o <<256 * o[1] + o[2], 256 * o[3] + o[4]>>

\* Array(Math.max(missing, 0))
Missing(ip) ==
    LET n == 8 - Len(ip.head) - Len(TailParts(ip)) IN IF n > 0 THEN n ELSE 0

\* expandIpv6
ExpandIpv6(ip) == ip.head \o Zeros(Missing(ip)) \o TailParts(ip)

\* truncateIp: a.b.c.0/24, or the first three hextets and /48.
TruncateIp(ip) ==
    IF ip.version = 4 THEN [version |-> 4, prefix |-> SubSeq(ip.parts, 1, 3)]
    ELSE [version |-> 6, prefix |-> SubSeq(ExpandIpv6(ip), 1, 3)]

\* What an address is made of.
IsAddress(ip) ==
    \/ ip.version = 4
    \/ /\ ip.version = 6
       /\ ip.head \in Seq(Nat) /\ ip.tail \in Seq(Nat)
       /\ ip.dotted = <<>> \/ ip.dotted \in [1 .. 4 -> 0 .. 255]
       /\ Len(ip.head) + Len(TailParts(ip)) <= 8

\* hashIp: a keyed digest of the text.
HashIp(ip) == <<"hmac", ip>>

NoEnrichment == [country |-> None, asn |-> None]

\* buildEnricher: each database is absent, good or broken; a broken one turns
\* enrichment off altogether.
Enrich(geo, ip) ==
    IF "broken" \in {geo.country, geo.asn} THEN NoEnrichment
    ELSE [country |-> IF geo.country = "good" THEN CountryOf(ip) ELSE None,
          asn     |-> IF geo.asn = "good" THEN AsnOf(ip) ELSE None]

-------------------------------------------------------------------------------
(* normalizeEvent: the row of events that is stored. *)

NormalizeEvent(id, w, geo) ==
    [id |-> id, ts |-> w.ts, type |-> w.type,
     src_ip_hash |-> HashIp(w.src_ip), src_ip_trunc |-> TruncateIp(w.src_ip),
     country |-> Enrich(geo, w.src_ip).country, asn |-> Enrich(geo, w.src_ip).asn,
     session |-> Strip(w.session), protocol |-> w.protocol,
     username |-> Strip(w.username), password |-> Strip(w.password), success |-> w.success,
     command |-> Strip(w.command), url |-> Strip(w.url),
     client_version |-> Strip(w.client_version), duration |-> w.duration]

\* Postgres refuses a NUL in a text column.
Storable(row) ==
    \A f \in DOMAIN MaxLength : row[f] # None => row[f].ctl = 0
===============================================================================
