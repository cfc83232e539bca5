-------------------------------- MODULE Handlers --------------------------------
(***************************************************************************)
(* The order in which a request is turned away, by the HTTP handlers       *)
(* (ingest/src/server.ts, read-server.ts), by the node:http bridge in      *)
(* front of them (node-adapter.ts) and by the functions that wrap them     *)
(* (ingest/api).  Each is a sequence of checks; the first that fails gives *)
(* the status.  What a request that passes them does is in WritePath.      *)
(*                                                                         *)
(* A request is a record: method, url (whether the target and the Host     *)
(* header make one), path, auth (the token it presents), json (its media   *)
(* type), declared and size (of its body), body.                           *)
(***************************************************************************)
EXTENDS Integers, Sequences

CONSTANTS
    IngestToken, RollupsToken, CronSecret,  \* secrets of a deployment, or Unset
    Unset,          \* a secret that is missing or has fewer than 16 characters
    MaxBody,        \* MAX_BODY_BYTES
    MaxRead         \* the ceiling of readBody

Passed == 0

\* A check, by the status it answers with if the request fails it.
Refuse(fails, status) == IF fails THEN status ELSE Passed

\* The status of the first check that fails, or Passed.
FirstOf(checks) ==
    LET failed == {i \in DOMAIN checks : checks[i] # Passed}
    IN  IF failed = {} THEN Passed
        ELSE checks[CHOOSE i \in failed : \A j \in failed : i <= j]

Reads == {"GET", "HEAD"}

\* checkBearer.
Bearer(req, token) == req.auth = token

\* createEventsHandler, up to the envelope; admitted is what the rate
\* limiters say (module Admission).
EventsChecks(req, admitted) == FirstOf(<<
    Refuse(req.method # "POST", 405),
    Refuse(~admitted, 429),
    Refuse(~Bearer(req, IngestToken), 401),
    Refuse(~req.json, 415),
    Refuse(req.declared > MaxBody, 413),
    Refuse(req.body = "unreadable", 400),
    Refuse(req.size > MaxBody, 413),
    Refuse(req.body \in {"no json", "no envelope"}, 400) >>)

\* createRollupsHandler.
RollupsChecks(req, admitted) == FirstOf(<<
    Refuse(req.method \notin Reads, 405),
    Refuse(RollupsToken # Unset /\ ~Bearer(req, RollupsToken), 401),
    Refuse(~admitted, 429) >>)

\* The methods that new Request refuses.
Forbidden == {"CONNECT", "TRACE"}

\* serveWithNodeHttp: whatever toWebRequest throws is a 500, and the handler
\* never runs.  new URL throws, readBody gives up, or new Request throws.
BridgeChecks(req) == FirstOf(<<
    Refuse(req.url = "bad", 500),
    Refuse(req.method \notin Reads /\ req.size > MaxRead, 500),
    Refuse(req.method \in Forbidden, 500) >>)

\* buildServer.
ServerChecks(req) == FirstOf(<<
    Refuse(req.path = "/healthz" /\ req.method \in Reads, 200),
    Refuse(req.path = "/healthz", 405),
    Refuse(req.path # "/v1/events", 404) >>)

\* buildReadServer: the method comes before the path.
ReadServerChecks(req) == FirstOf(<<
    Refuse(req.method \notin Reads, 405),
    Refuse(req.path = "/healthz", 200),
    Refuse(req.path # "/v1/rollups", 404) >>)

\* api/v1/events.ts, api/v1/rollups.ts and api/cron/aggregate.ts, before they
\* touch the datastore.
FunctionChecks(fn, req) ==
    CASE fn = "events" -> FirstOf(<<
            Refuse(IngestToken = Unset \/ ~Bearer(req, IngestToken), 401) >>)
      [] fn = "rollups" -> FirstOf(<<
            Refuse(RollupsToken = Unset, 503),
            Refuse(~Bearer(req, RollupsToken), 401) >>)
      [] fn = "cron" -> FirstOf(<<
            Refuse(CronSecret = Unset \/ ~Bearer(req, CronSecret), 401) >>)
===============================================================================
