------------------------------- MODULE MCService -------------------------------
EXTENDS Service, TLC

CONSTANTS e1, e2

\* e2 happens one tick after e1; its batch comes from a restarted sensor.
MCTs   == (e1 :> 0) @@ (e2 :> 1)
MCBoot == (e1 :> 0) @@ (e2 :> 1)
===============================================================================
