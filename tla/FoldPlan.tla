------------------------------ MODULE FoldPlan ------------------------------
(***************************************************************************)
(* The statements of EventRepository.foldNewEvents, in the order the       *)
(* transaction runs them, and the rows each of them reads.                 *)
(*                                                                         *)
(* A statement is named by its position.  Every statement reads            *)
(* "WHERE folded = FALSE" (that part is in LifetimeStore) and a condition  *)
(* on the columns of the row (that part is Takes).                         *)
(***************************************************************************)
EXTENDS Naturals

CONSTANTS
    Events,     \* the event ids that ever reach the store
    Shape       \* Shape[e]: what the columns of row e hold, as Takes needs it

EventType == {"session_connect", "login_attempt", "command",
              "client_version", "other"}

\* The nullable columns some statement tests with IS NOT NULL.
Column == {"username", "password", "asn", "client_version", "command"}

ASSUME ShapeAssumption ==
    Shape \in [Events -> [type : EventType, present : SUBSET Column]]

Techniques    == 1    \* SELECT type, protocol, success, command, COUNT(*)
Counters      == 2    \* counters: total_events, total_login_attempts, ...
Sources       == 3    \* distinct_sources
Credentials   == 4    \* rollup_credentials
Usernames     == 5    \* rollup_usernames
Passwords     == 6    \* rollup_passwords
Countries     == 7    \* rollup_countries
Asns          == 8    \* rollup_asns
Clients       == 9    \* rollup_clients
Commands      == 10   \* rollup_commands
Daily         == 11   \* rollup_timeseries, granularity 'day'
FirstEvent    == 12   \* SELECT MIN(ts), then meta.first_event_ts
NumStatements == 12

Statements == 1 .. NumStatements

\* The statements that count login attempts only.
LoginBoards == {Credentials, Usernames, Passwords, Countries, Daily}

\* The column a statement requires to be non-null.
Needs == [s \in Statements |->
            CASE s = Credentials -> {"username", "password"}
              [] s = Usernames   -> {"username"}
              [] s = Passwords   -> {"password"}
              [] s = Asns        -> {"asn"}
              [] s = Clients     -> {"client_version"}
              [] s = Commands    -> {"command"}
              [] OTHER           -> {}]

\* Row e satisfies the WHERE clause of statement s.
Takes(s, e) ==
    /\ s \in LoginBoards => Shape[e].type = "login_attempt"
    /\ s = Clients => Shape[e].type = "client_version"
    /\ s = Commands => Shape[e].type = "command"
    /\ Needs[s] \subseteq Shape[e].present
=============================================================================
