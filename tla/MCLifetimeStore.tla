-------------------------- MODULE MCLifetimeStore ---------------------------
(* Small instances of LifetimeStore for TLC. *)
EXTENDS LifetimeStore, TLC

CONSTANTS e1, e2, r1, r2

\* A complete login attempt, and a command of a source without geography.
MCShape ==
    e1 :> [type |-> "login_attempt", present |-> {"username", "password", "asn"}]
    @@ e2 :> [type |-> "command", present |-> {"command"}]

OneEventShape ==
    e1 :> [type |-> "login_attempt", present |-> {"username", "password", "asn"}]

TwoRunners == Permutations({r1, r2})
=============================================================================
