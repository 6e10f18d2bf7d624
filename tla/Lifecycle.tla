------------------------------ MODULE Lifecycle ------------------------------
(***************************************************************************)
(* What internal/session promises its user, with no goroutine in sight: a  *)
(* client has at most one runtime; opening one and shutting one down        *)
(* exclude each other; a runtime appears only while opening and never while *)
(* shutting down; and neither replaces or drops one whose connection is    *)
(* still open.  A shutdown may be withdrawn (its context ends).             *)
(***************************************************************************)
CONSTANTS Conns, NoConn

VARIABLES phase,    \* "down", "opening", "up", "closing"
          runtime,  \* the connection in use
          open      \* connections whose server link is up or being regained

vars == <<phase, runtime, open>>

Settled == IF runtime = NoConn THEN "down" ELSE "up"

Init == phase = "down" /\ runtime = NoConn /\ open = {}

Open == /\ phase \in {"down", "up"}
        /\ runtime \notin open
        /\ phase' = "opening"
        /\ UNCHANGED <<runtime, open>>

Attach == /\ phase = "opening"
          /\ runtime \notin open
          /\ runtime' \in Conns
          /\ UNCHANGED <<phase, open>>

Settle == /\ phase = "opening"
          /\ phase' = Settled
          /\ UNCHANGED <<runtime, open>>

Shut == /\ phase # "closing"
        /\ phase' = "closing"
        /\ UNCHANGED <<runtime, open>>

Detach == /\ phase = "closing"
          /\ runtime \notin open
          /\ runtime' = NoConn
          /\ phase' = "down"
          /\ UNCHANGED open

Withdraw == /\ phase = "closing"
            /\ phase' \in {"opening", Settled}
            /\ UNCHANGED <<runtime, open>>

Transport == /\ open' \subseteq Conns
             /\ UNCHANGED <<phase, runtime>>

Next == Open \/ Attach \/ Settle \/ Shut \/ Detach \/ Withdraw \/ Transport

Spec == Init /\ [][Next]_vars
=============================================================================
