------------------------------ MODULE MCServing ------------------------------
(***************************************************************************)
(* Subscriptions with a variable that only watches: whether some clear of  *)
(* the registry has crossed an activation since the client was made.       *)
(***************************************************************************)
EXTENDS MCSubscriptions

VARIABLE crossed

WatchedInit == Init /\ crossed = FALSE

WatchedNext == Next /\ crossed' = (crossed \/ ~Uncrossed')

WatchedSpec == WatchedInit /\ [][WatchedNext]_<<vars, crossed>>

\* However often the client is closed, loses its connection and is started
\* again, every intent is served or shows its error whenever it is started, as
\* long as no clear has crossed an activation: no handle of an earlier
\* connection is left in the registry for activateRecord to take for live
\* (handlers_runtime.go:233), and none of a later one is taken out of it.
ServingUncrossed == ~crossed => ServingAll
=============================================================================
