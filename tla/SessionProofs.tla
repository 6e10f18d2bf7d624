---------------------------- MODULE SessionProofs ----------------------------
(***************************************************************************)
(* The safety properties of Session hold for any sets of connections,      *)
(* Start callers and Close callers, and for any number of transport        *)
(* losses.  None of them is inductive; the inductive invariant IInv adds   *)
(* who holds m.starting and m.closing (Locks), what a Close knows while it *)
(* waits and after (Fence), what m.nc can be (Runtime), what a Start call  *)
(* has in its hands (Holding), and who answers for a connection (Owners).  *)
(***************************************************************************)
EXTENDS Session, TLAPS

\* Where a Start call holds a connection that is not installed.
HoldingPc == {"dialing", "connected", "bound", "abort"}

\* startDone is the channel of the one Start in flight; one Close works.
Locks ==
    /\ starting <=> startDone # NoStart
    /\ \A s \in Starters : startPc[s] # "idle" <=> startDone = s
    /\ closing <=> closeRequested
    /\ closing <=> \E k \in Closers : closePc[k] # "idle"
    /\ \A k, l \in Closers : closePc[k] # "idle" /\ closePc[l] # "idle" => k = l

\* A waiting Close waits for the Start in flight, and afterwards there is none.
Fence ==
    \A k \in Closers :
        /\ closePc[k] = "wait" => /\ closeWaits[k] \in Starters
                                  /\ startDone \in {closeWaits[k], NoStart}
        /\ closePc[k] \in {"drain", "finish"} => /\ startDone = NoStart
                                                 /\ closeConn[k] = nc
        /\ closePc[k] = "finish" /\ nc # NoConn => ~Live(nc)

\* The installed connection was dialled, and is closed until Start replaces it.
Runtime ==
    /\ handles = nc
    /\ state = "connected" => nc # NoConn /\ ~closing
    /\ nc # NoConn => /\ nc \notin abandoned
                      /\ status[nc] \notin {"unused", "dialing", "failed"}
    /\ \A s \in Starters : startPc[s] \notin {"idle", "return"} /\ nc # NoConn
                             => status[nc] = "closed"

\* What a Start call holds is its own, and after the call it is m.nc or nothing.
Holding ==
    \A s \in Starters :
        /\ startPc[s] \in HoldingPc => /\ startConn[s] \in Conns \ abandoned
                                       /\ startConn[s] # nc
                                       /\ status[startConn[s]] # "unused"
        /\ startPc[s] \in {"connected", "bound", "abort"}
             => status[startConn[s]] \notin {"dialing", "failed"}
        /\ startPc[s] \notin HoldingPc
             => \/ startConn[s] = NoConn
                \/ startPc[s] = "return" /\ startConn[s] = nc

\* Every dial under way, refused or live has an owner; no given-up dial is free.
Owners ==
    /\ \A c \in Conns : status[c] \in {"dialing", "failed", "connected",
                                       "reconnecting"} => Owned(c)
    /\ \A c \in abandoned : status[c] # "unused"

IInv == TypeOK /\ Locks /\ Fence /\ Runtime /\ Holding /\ Owners

-----------------------------------------------------------------------------
(* Types.                                                                  *)

\* Close on a connection keeps the types of what nats.go keeps.
LEMMA CloseConnType ==
    ASSUME TypeOK, NEW c \in Conns, CloseConn(c)
    PROVE  /\ status' \in [Conns -> Status]
           /\ callbacks' \in [Conns -> Seq(Callback)]
           /\ drops' = drops
<1>1. /\ status' \in [Conns -> Status]
      /\ drops' = drops
  BY DEF CloseConn, TypeOK, Status
<1>2. ASSUME NEW q \in Seq(Callback), NEW r \in Seq(Callback)
      PROVE  q \o r \in Seq(Callback)
  OBVIOUS
<1>3. callbacks' \in [Conns -> Seq(Callback)]
  <2> DEFINE more == CASE status[c] = "closed"       -> << >>
                       [] status[c] = "reconnecting" -> <<"closed">>
                       [] OTHER                      -> <<"disconnect", "closed">>
  <2>1. more \in Seq(Callback)
    BY DEF Callback
  <2>2. callbacks' = [callbacks EXCEPT ![c] = callbacks[c] \o more]
    BY DEF CloseConn, Enqueue
  <2>3. callbacks[c] \o more \in Seq(Callback)
    BY <1>2, <2>1 DEF TypeOK
  <2> HIDE DEF more
  <2> QED BY <2>2, <2>3 DEF TypeOK
<1> QED BY <1>1, <1>3

\* Every step keeps the types, given what a Start call holds.
LEMMA TypeStep ==
    ASSUME TypeOK, Holding, [Next]_vars PROVE TypeOK'
<1> USE DEF TypeOK, State, Status, StartPc, ClosePc, Callback, connVars,
   managerVars, startVars, closeVars, rebindVars, StartRefused, CloseWanted,
   WaitsFirst
<1>1. ASSUME NEW s \in Starters, StartBegin(s) PROVE TypeOK'
  BY <1>1 DEF StartBegin, SetStart
<1>2. ASSUME NEW s \in Starters, StartDial(s) PROVE TypeOK'
  <2>1. UNCHANGED <<callbacks, drops, managerVars, abandoned, closeVars,
                     rebindVars, outlived>>
    BY <1>2 DEF StartDial, Dial, connVars
  <2>2. status' \in [Conns -> Status]
    BY <1>2 DEF StartDial, Dial, connVars
  <2>3. /\ startPc' \in [Starters -> StartPc]
        /\ startConn' \in [Starters -> Conns \union {NoConn}]
    <3>1. CASE SetStart(s, "failed", NoConn)
      BY <3>1 DEF SetStart
    <3>2. CASE \E c \in Conns : Dial(c) /\ SetStart(s, "dialing", c)
      BY <3>2 DEF SetStart
    <3> QED BY <1>2, <3>1, <3>2 DEF StartDial
  <2> QED BY <2>1, <2>2, <2>3 DEF managerVars, closeVars, rebindVars
<1>3. ASSUME NEW s \in Starters, StartConnects(s) PROVE TypeOK'
  BY <1>3 DEF StartConnects, SetStart
<1>4. ASSUME NEW s \in Starters, StartConnectFails(s) PROVE TypeOK'
  BY <1>4 DEF StartConnectFails, SetStart
<1>5. ASSUME NEW s \in Starters, StartLeavesDial(s) PROVE TypeOK'
  BY <1>5 DEF StartLeavesDial, SetStart, Holding, HoldingPc
<1>6. ASSUME NEW s \in Starters, StartBinds(s) PROVE TypeOK'
  BY <1>6 DEF StartBinds, SetStart
<1>7. ASSUME NEW s \in Starters, StartSetupFails(s) PROVE TypeOK'
  BY <1>7, CloseConnType DEF StartSetupFails, SetStart, Holding, HoldingPc
<1>8. ASSUME NEW s \in Starters, StartInstalls(s) PROVE TypeOK'
  BY <1>8 DEF StartInstalls, SetStart
<1>9. ASSUME NEW s \in Starters, StartAborts(s) PROVE TypeOK'
  BY <1>9 DEF StartAborts, SetStart
<1>10. ASSUME NEW s \in Starters, StartClosesAborted(s) PROVE TypeOK'
  BY <1>10, CloseConnType DEF StartClosesAborted, SetStart, Holding, HoldingPc
<1>11. ASSUME NEW s \in Starters, StartDegrades(s) PROVE TypeOK'
  BY <1>11 DEF StartDegrades, SetStart
<1>12. ASSUME NEW s \in Starters, StartReturns(s) PROVE TypeOK'
  BY <1>12 DEF StartReturns, SetStart
<1>13. ASSUME NEW k \in Closers, CloseAlreadyClosing(k) PROVE TypeOK'
  BY <1>13 DEF CloseAlreadyClosing, InFlight
<1>14. ASSUME NEW k \in Closers, CloseNothing(k) PROVE TypeOK'
  BY <1>14 DEF CloseNothing, InFlight
<1>15. ASSUME NEW k \in Closers, CloseBegin(k) PROVE TypeOK'
  BY <1>15 DEF CloseBegin, SetClose
<1>16. ASSUME NEW k \in Closers, CloseSeesStart(k) PROVE TypeOK'
  BY <1>16 DEF CloseSeesStart, SetClose
<1>17. ASSUME NEW k \in Closers, CloseLeavesWait(k) PROVE TypeOK'
  BY <1>17 DEF CloseLeavesWait, SetClose
<1>18. ASSUME NEW k \in Closers, CloseDrains(k) PROVE TypeOK'
  BY <1>18, CloseConnType DEF CloseDrains, DrainConn, SetClose
<1>19. ASSUME NEW k \in Closers, CloseForces(k) PROVE TypeOK'
  BY <1>19, CloseConnType DEF CloseForces, SetClose
<1>20. ASSUME NEW k \in Closers, CloseFinishes(k) PROVE TypeOK'
  BY <1>20 DEF CloseFinishes, SetClose, InFlight
<1>21. ASSUME NEW c \in Conns, OnDisconnect(c) PROVE TypeOK'
  BY <1>21 DEF OnDisconnect, TakesCallback
<1>22. ASSUME NEW c \in Conns, OnReconnect(c) PROVE TypeOK'
  <2>1. UNCHANGED <<status, drops, managerVars, startVars, closeVars, rebound,
                     outlived>>
    BY <1>22 DEF OnReconnect, TakesCallback
  <2>2. callbacks' \in [Conns -> Seq(Callback)]
    BY <1>22 DEF OnReconnect, TakesCallback
  <2>3. rebinding' \in [Conns -> Nat]
    BY <1>22 DEF OnReconnect
  <2> QED BY <2>1, <2>2, <2>3 DEF managerVars, startVars, closeVars
<1>23. ASSUME NEW c \in Conns, OnClosed(c) PROVE TypeOK'
  BY <1>23 DEF OnClosed, TakesCallback
<1>24. ASSUME NEW c \in Conns, RebindFetches(c) PROVE TypeOK'
  <2>1. UNCHANGED <<connVars, managerVars, startVars, closeVars, outlived>>
    BY <1>24 DEF RebindFetches
  <2>2. rebinding[c] - 1 \in Nat /\ rebound[c] + 1 \in Nat
    BY <1>24 DEF RebindFetches
  <2>3. /\ rebinding' \in [Conns -> Nat]
        /\ rebound' \in [Conns -> Nat]
    BY <1>24, <2>2 DEF RebindFetches
  <2> QED BY <2>1, <2>3 DEF connVars, managerVars, startVars, closeVars
<1>25. ASSUME NEW c \in Conns, RebindFails(c) PROVE TypeOK'
  <2>1. rebinding[c] - 1 \in Nat /\ rebinding' = [rebinding EXCEPT ![c] = rebinding[c] - 1]
    BY <1>25 DEF RebindFails
  <2>2. rebinding' \in [Conns -> Nat]
    BY <2>1
  <2> QED BY <1>25, <2>2 DEF RebindFails
<1>26. ASSUME NEW c \in Conns, RebindInstalls(c) PROVE TypeOK'
  <2>1. rebound[c] - 1 \in Nat /\ rebound' = [rebound EXCEPT ![c] = rebound[c] - 1]
    BY <1>26 DEF RebindInstalls, Rebound
  <2>2. rebound' \in [Conns -> Nat]
    BY <2>1
  <2> QED BY <1>26, <2>2 DEF RebindInstalls, Rebound
<1>27. ASSUME NEW c \in Conns, RebindDiscards(c) PROVE TypeOK'
  <2>1. rebound[c] - 1 \in Nat /\ rebound' = [rebound EXCEPT ![c] = rebound[c] - 1]
    BY <1>27 DEF RebindDiscards, Rebound
  <2>2. rebound' \in [Conns -> Nat]
    BY <2>1
  <2> QED BY <1>27, <2>2 DEF RebindDiscards, Rebound
<1>28. ASSUME NEW c \in Conns, CloseAbandoned(c) PROVE TypeOK'
  BY <1>28, CloseConnType DEF CloseAbandoned
<1>29. ASSUME NEW c \in Conns, Environment(c) PROVE TypeOK'
  <2>1. CASE DialSucceeds(c)
    BY <1>29, <2>1 DEF Environment, DialSucceeds
  <2>2. CASE DialFails(c)
    BY <1>29, <2>2 DEF Environment, DialFails
  <2>3. CASE ConnDrops(c)
    <3>1. drops' \in [Conns -> 0..MaxDrops]
      BY <2>3, MaxDropsAssumption DEF ConnDrops
    <3>2. /\ status' \in [Conns -> Status]
          /\ callbacks' \in [Conns -> Seq(Callback)]
      BY <2>3 DEF ConnDrops, Enqueue
    <3> QED BY <1>29, <3>1, <3>2 DEF Environment
  <2>4. CASE ConnReconnects(c)
    BY <1>29, <2>4 DEF Environment, ConnReconnects, Enqueue
  <2>5. CASE ConnGivesUp(c)
    BY <1>29, <2>5, CloseConnType DEF Environment, ConnGivesUp
  <2>6. CASE DrainCompletes(c)
    BY <1>29, <2>6, CloseConnType DEF Environment, DrainCompletes
  <2> QED BY <1>29, <2>1, <2>2, <2>3, <2>4, <2>5, <2>6 DEF Environment,
     ConnStep
<1>30. CASE UNCHANGED vars
  BY <1>30 DEF vars
<1> QED BY <1>1, <1>2, <1>3, <1>4, <1>5, <1>6, <1>7, <1>8, <1>9, <1>10,
   <1>11, <1>12, <1>13, <1>14, <1>15, <1>16, <1>17, <1>18, <1>19, <1>20,
   <1>21, <1>22, <1>23, <1>24, <1>25, <1>26, <1>27, <1>28, <1>29, <1>30 DEF
   Next, StartStep, CloseStep, CallbackStep, RebindStep

-----------------------------------------------------------------------------
(* The five parts of the inductive invariant, one lemma each.              *)

\* m.starting, m.startDone and m.closing change hands only as Locks says.
LEMMA LocksStep ==
    ASSUME TypeOK, Locks, [Next]_vars PROVE Locks'
<1> USE DEF TypeOK, Locks, connVars, managerVars, startVars, closeVars,
   rebindVars, StartRefused, CloseWanted, WaitsFirst
<1>1. ASSUME NEW s \in Starters, StartBegin(s) PROVE Locks'
  <2>1. startDone = NoStart /\ \A t \in Starters : startPc[t] = "idle"
    BY <1>1, NoStartAssumption DEF StartBegin
  <2>2. \A t \in Starters : startPc'[t] # "idle" <=> startDone' = t
    BY <1>1, <2>1 DEF StartBegin, SetStart
  <2>3. starting' <=> startDone' # NoStart
    BY <1>1, NoStartAssumption DEF StartBegin
  <2> QED BY <1>1, <2>2, <2>3 DEF StartBegin, closeVars
<1>2. ASSUME NEW s \in Starters, StartDial(s) PROVE Locks'
  BY <1>2 DEF StartDial, Dial, SetStart
<1>3. ASSUME NEW s \in Starters, StartConnects(s) PROVE Locks'
  BY <1>3 DEF StartConnects, SetStart
<1>4. ASSUME NEW s \in Starters, StartConnectFails(s) PROVE Locks'
  BY <1>4 DEF StartConnectFails, SetStart
<1>5. ASSUME NEW s \in Starters, StartLeavesDial(s) PROVE Locks'
  BY <1>5 DEF StartLeavesDial, SetStart
<1>6. ASSUME NEW s \in Starters, StartBinds(s) PROVE Locks'
  BY <1>6 DEF StartBinds, SetStart
<1>7. ASSUME NEW s \in Starters, StartSetupFails(s) PROVE Locks'
  BY <1>7 DEF StartSetupFails, CloseConn, Enqueue, SetStart
<1>8. ASSUME NEW s \in Starters, StartInstalls(s) PROVE Locks'
  BY <1>8 DEF StartInstalls, SetStart
<1>9. ASSUME NEW s \in Starters, StartAborts(s) PROVE Locks'
  BY <1>9 DEF StartAborts, SetStart
<1>10. ASSUME NEW s \in Starters, StartClosesAborted(s) PROVE Locks'
  BY <1>10 DEF StartClosesAborted, CloseConn, Enqueue, SetStart
<1>11. ASSUME NEW s \in Starters, StartDegrades(s) PROVE Locks'
  BY <1>11 DEF StartDegrades, SetStart
<1>12. ASSUME NEW s \in Starters, StartReturns(s) PROVE Locks'
  <2>1. startDone = s /\ startDone' = NoStart /\ ~starting'
    BY <1>12 DEF StartReturns
  <2>2. \A t \in Starters : startPc'[t] = "idle"
    BY <1>12, <2>1 DEF StartReturns, SetStart
  <2> QED BY <1>12, <2>1, <2>2, NoStartAssumption DEF StartReturns, closeVars
<1>13. ASSUME NEW k \in Closers, CloseAlreadyClosing(k) PROVE Locks'
  BY <1>13 DEF CloseAlreadyClosing
<1>14. ASSUME NEW k \in Closers, CloseNothing(k) PROVE Locks'
  BY <1>14 DEF CloseNothing
<1>15. ASSUME NEW k \in Closers, CloseBegin(k) PROVE Locks'
  BY <1>15 DEF CloseBegin, SetClose
<1>16. ASSUME NEW k \in Closers, CloseSeesStart(k) PROVE Locks'
  BY <1>16 DEF CloseSeesStart, SetClose
<1>17. ASSUME NEW k \in Closers, CloseLeavesWait(k) PROVE Locks'
  BY <1>17 DEF CloseLeavesWait, SetClose
<1>18. ASSUME NEW k \in Closers, CloseDrains(k) PROVE Locks'
  BY <1>18 DEF CloseDrains, DrainConn, CloseConn, Enqueue, SetClose
<1>19. ASSUME NEW k \in Closers, CloseForces(k) PROVE Locks'
  BY <1>19 DEF CloseForces, CloseConn, Enqueue, SetClose
<1>20. ASSUME NEW k \in Closers, CloseFinishes(k) PROVE Locks'
  BY <1>20 DEF CloseFinishes, SetClose
<1>21. ASSUME NEW c \in Conns, OnDisconnect(c) PROVE Locks'
  BY <1>21 DEF OnDisconnect, TakesCallback
<1>22. ASSUME NEW c \in Conns, OnReconnect(c) PROVE Locks'
  BY <1>22 DEF OnReconnect, TakesCallback
<1>23. ASSUME NEW c \in Conns, OnClosed(c) PROVE Locks'
  BY <1>23 DEF OnClosed, TakesCallback
<1>24. ASSUME NEW c \in Conns, RebindFetches(c) PROVE Locks'
  BY <1>24 DEF RebindFetches
<1>25. ASSUME NEW c \in Conns, RebindFails(c) PROVE Locks'
  BY <1>25 DEF RebindFails
<1>26. ASSUME NEW c \in Conns, RebindInstalls(c) PROVE Locks'
  BY <1>26 DEF RebindInstalls, Rebound
<1>27. ASSUME NEW c \in Conns, RebindDiscards(c) PROVE Locks'
  BY <1>27 DEF RebindDiscards, Rebound
<1>28. ASSUME NEW c \in Conns, CloseAbandoned(c) PROVE Locks'
  BY <1>28 DEF CloseAbandoned, CloseConn, Enqueue
<1>29. ASSUME NEW c \in Conns, Environment(c) PROVE Locks'
  <2>1. CASE DialSucceeds(c)
    BY <1>29, <2>1 DEF Environment, DialSucceeds
  <2>2. CASE DialFails(c)
    BY <1>29, <2>2 DEF Environment, DialFails
  <2>3. CASE ConnDrops(c)
    BY <1>29, <2>3 DEF Environment, ConnDrops, Enqueue
  <2>4. CASE ConnReconnects(c)
    BY <1>29, <2>4 DEF Environment, ConnReconnects, Enqueue
  <2>5. CASE ConnGivesUp(c)
    BY <1>29, <2>5 DEF Environment, ConnGivesUp, CloseConn, Enqueue
  <2>6. CASE DrainCompletes(c)
    BY <1>29, <2>6 DEF Environment, DrainCompletes, CloseConn, Enqueue
  <2> QED BY <1>29, <2>1, <2>2, <2>3, <2>4, <2>5, <2>6 DEF Environment,
     ConnStep
<1>30. CASE UNCHANGED vars
  BY <1>30 DEF vars
<1> QED BY <1>1, <1>2, <1>3, <1>4, <1>5, <1>6, <1>7, <1>8, <1>9, <1>10,
   <1>11, <1>12, <1>13, <1>14, <1>15, <1>16, <1>17, <1>18, <1>19, <1>20,
   <1>21, <1>22, <1>23, <1>24, <1>25, <1>26, <1>27, <1>28, <1>29, <1>30 DEF
   Next, StartStep, CloseStep, CallbackStep, RebindStep

\* A Close that waits, drains or finishes keeps what it knows.
LEMMA FenceStep ==
    ASSUME TypeOK, Locks, Fence, Runtime, [Next]_vars PROVE Fence'
<1> USE DEF TypeOK, Fence, Live, connVars, managerVars, startVars, closeVars,
   rebindVars, StartRefused, CloseWanted, WaitsFirst
<1>1. ASSUME NEW s \in Starters, StartBegin(s) PROVE Fence'
  BY <1>1 DEF StartBegin, SetStart, Locks
<1>2. ASSUME NEW s \in Starters, StartDial(s) PROVE Fence'
  BY <1>2 DEF StartDial, Dial, SetStart
<1>3. ASSUME NEW s \in Starters, StartConnects(s) PROVE Fence'
  BY <1>3 DEF StartConnects, SetStart
<1>4. ASSUME NEW s \in Starters, StartConnectFails(s) PROVE Fence'
  BY <1>4 DEF StartConnectFails, SetStart
<1>5. ASSUME NEW s \in Starters, StartLeavesDial(s) PROVE Fence'
  BY <1>5 DEF StartLeavesDial, SetStart
<1>6. ASSUME NEW s \in Starters, StartBinds(s) PROVE Fence'
  BY <1>6 DEF StartBinds, SetStart
<1>7. ASSUME NEW s \in Starters, StartSetupFails(s) PROVE Fence'
  BY <1>7 DEF StartSetupFails, CloseConn, Enqueue, SetStart
<1>8. ASSUME NEW s \in Starters, StartInstalls(s) PROVE Fence'
  BY <1>8 DEF StartInstalls, SetStart, Locks
<1>9. ASSUME NEW s \in Starters, StartAborts(s) PROVE Fence'
  BY <1>9 DEF StartAborts, SetStart
<1>10. ASSUME NEW s \in Starters, StartClosesAborted(s) PROVE Fence'
  BY <1>10 DEF StartClosesAborted, CloseConn, Enqueue, SetStart
<1>11. ASSUME NEW s \in Starters, StartDegrades(s) PROVE Fence'
  BY <1>11 DEF StartDegrades, SetStart
<1>12. ASSUME NEW s \in Starters, StartReturns(s) PROVE Fence'
  BY <1>12 DEF StartReturns, SetStart, Locks
<1>13. ASSUME NEW k \in Closers, CloseAlreadyClosing(k) PROVE Fence'
  BY <1>13 DEF CloseAlreadyClosing
<1>14. ASSUME NEW k \in Closers, CloseNothing(k) PROVE Fence'
  BY <1>14 DEF CloseNothing
<1>15. ASSUME NEW k \in Closers, CloseBegin(k) PROVE Fence'
  BY <1>15 DEF CloseBegin, SetClose, Locks
<1>16. ASSUME NEW k \in Closers, CloseSeesStart(k) PROVE Fence'
  BY <1>16 DEF CloseSeesStart, SetClose, Locks
<1>17. ASSUME NEW k \in Closers, CloseLeavesWait(k) PROVE Fence'
  BY <1>17 DEF CloseLeavesWait, SetClose, Locks
<1>18. ASSUME NEW k \in Closers, CloseDrains(k) PROVE Fence'
  BY <1>18 DEF CloseDrains, DrainConn, CloseConn, Enqueue, SetClose, Locks
<1>19. ASSUME NEW k \in Closers, CloseForces(k) PROVE Fence'
  BY <1>19 DEF CloseForces, CloseConn, Enqueue, SetClose, Locks
<1>20. ASSUME NEW k \in Closers, CloseFinishes(k) PROVE Fence'
  BY <1>20 DEF CloseFinishes, SetClose, Locks
<1>21. ASSUME NEW c \in Conns, OnDisconnect(c) PROVE Fence'
  BY <1>21 DEF OnDisconnect, TakesCallback
<1>22. ASSUME NEW c \in Conns, OnReconnect(c) PROVE Fence'
  BY <1>22 DEF OnReconnect, TakesCallback
<1>23. ASSUME NEW c \in Conns, OnClosed(c) PROVE Fence'
  BY <1>23 DEF OnClosed, TakesCallback
<1>24. ASSUME NEW c \in Conns, RebindFetches(c) PROVE Fence'
  BY <1>24 DEF RebindFetches
<1>25. ASSUME NEW c \in Conns, RebindFails(c) PROVE Fence'
  BY <1>25 DEF RebindFails
<1>26. ASSUME NEW c \in Conns, RebindInstalls(c) PROVE Fence'
  BY <1>26 DEF RebindInstalls, Rebound
<1>27. ASSUME NEW c \in Conns, RebindDiscards(c) PROVE Fence'
  BY <1>27 DEF RebindDiscards, Rebound
<1>28. ASSUME NEW c \in Conns, CloseAbandoned(c) PROVE Fence'
  BY <1>28 DEF CloseAbandoned, CloseConn, Enqueue
<1>29. ASSUME NEW c \in Conns, Environment(c) PROVE Fence'
  <2>1. CASE DialSucceeds(c)
    BY <1>29, <2>1 DEF Environment, DialSucceeds, Runtime
  <2>2. CASE DialFails(c)
    BY <1>29, <2>2 DEF Environment, DialFails
  <2>3. CASE ConnDrops(c)
    BY <1>29, <2>3 DEF Environment, ConnDrops, Enqueue
  <2>4. CASE ConnReconnects(c)
    BY <1>29, <2>4 DEF Environment, ConnReconnects, Enqueue
  <2>5. CASE ConnGivesUp(c)
    BY <1>29, <2>5 DEF Environment, ConnGivesUp, CloseConn, Enqueue
  <2>6. CASE DrainCompletes(c)
    BY <1>29, <2>6 DEF Environment, DrainCompletes, CloseConn, Enqueue
  <2> QED BY <1>29, <2>1, <2>2, <2>3, <2>4, <2>5, <2>6 DEF Environment,
     ConnStep
<1>30. CASE UNCHANGED vars
  BY <1>30 DEF vars
<1> QED BY <1>1, <1>2, <1>3, <1>4, <1>5, <1>6, <1>7, <1>8, <1>9, <1>10,
   <1>11, <1>12, <1>13, <1>14, <1>15, <1>16, <1>17, <1>18, <1>19, <1>20,
   <1>21, <1>22, <1>23, <1>24, <1>25, <1>26, <1>27, <1>28, <1>29, <1>30 DEF
   Next, StartStep, CloseStep, CallbackStep, RebindStep

\* The installed connection and its handles stay what Runtime says.
LEMMA RuntimeStep ==
    ASSUME TypeOK, Locks, Fence, Runtime, Holding, [Next]_vars PROVE Runtime'
<1> USE DEF TypeOK, Runtime, connVars, managerVars, startVars, closeVars,
   rebindVars, StartRefused, CloseWanted, WaitsFirst
<1>1. ASSUME NEW s \in Starters, StartBegin(s) PROVE Runtime'
  BY <1>1 DEF StartBegin, SetStart, Locks
<1>2. ASSUME NEW s \in Starters, StartDial(s) PROVE Runtime'
  BY <1>2 DEF StartDial, Dial, SetStart, Locks, Holding, HoldingPc
<1>3. ASSUME NEW s \in Starters, StartConnects(s) PROVE Runtime'
  BY <1>3 DEF StartConnects, SetStart, Holding, HoldingPc
<1>4. ASSUME NEW s \in Starters, StartConnectFails(s) PROVE Runtime'
  BY <1>4 DEF StartConnectFails, SetStart, Holding, HoldingPc
<1>5. ASSUME NEW s \in Starters, StartLeavesDial(s) PROVE Runtime'
  BY <1>5 DEF StartLeavesDial, SetStart, Holding, HoldingPc
<1>6. ASSUME NEW s \in Starters, StartBinds(s) PROVE Runtime'
  BY <1>6 DEF StartBinds, SetStart
<1>7. ASSUME NEW s \in Starters, StartSetupFails(s) PROVE Runtime'
  BY <1>7 DEF StartSetupFails, CloseConn, Enqueue, SetStart, Holding, HoldingPc
<1>8. ASSUME NEW s \in Starters, StartInstalls(s) PROVE Runtime'
  <2>1. \A t \in Starters \ {s} : startPc[t] = "idle"
    BY <1>8, NoStartAssumption DEF StartInstalls, Locks
  <2>2. /\ startConn[s] \in Conns \ abandoned
        /\ status[startConn[s]] \notin {"unused", "dialing", "failed"}
    BY <1>8 DEF StartInstalls, Holding, HoldingPc
  <2>3. startPc'[s] = "return" /\ \A t \in Starters \ {s} : startPc'[t] = "idle"
    BY <1>8, <2>1 DEF StartInstalls, SetStart
  <2>4. /\ nc' = startConn[s] /\ handles' = nc' /\ ~closing'
        /\ UNCHANGED <<status, abandoned>>
    BY <1>8 DEF StartInstalls, connVars
  <2> QED BY <2>2, <2>3, <2>4, NoConnAssumption
<1>9. ASSUME NEW s \in Starters, StartAborts(s) PROVE Runtime'
  BY <1>9 DEF StartAborts, SetStart
<1>10. ASSUME NEW s \in Starters, StartClosesAborted(s) PROVE Runtime'
  BY <1>10 DEF StartClosesAborted, CloseConn, Enqueue, SetStart, Holding,
     HoldingPc
<1>11. ASSUME NEW s \in Starters, StartDegrades(s) PROVE Runtime'
  BY <1>11 DEF StartDegrades, SetStart
<1>12. ASSUME NEW s \in Starters, StartReturns(s) PROVE Runtime'
  BY <1>12 DEF StartReturns, SetStart, Locks
<1>13. ASSUME NEW k \in Closers, CloseAlreadyClosing(k) PROVE Runtime'
  BY <1>13 DEF CloseAlreadyClosing
<1>14. ASSUME NEW k \in Closers, CloseNothing(k) PROVE Runtime'
  BY <1>14 DEF CloseNothing
<1>15. ASSUME NEW k \in Closers, CloseBegin(k) PROVE Runtime'
  BY <1>15 DEF CloseBegin, SetClose
<1>16. ASSUME NEW k \in Closers, CloseSeesStart(k) PROVE Runtime'
  BY <1>16 DEF CloseSeesStart, SetClose
<1>17. ASSUME NEW k \in Closers, CloseLeavesWait(k) PROVE Runtime'
  BY <1>17 DEF CloseLeavesWait, SetClose
<1>18. ASSUME NEW k \in Closers, CloseDrains(k) PROVE Runtime'
  BY <1>18 DEF CloseDrains, DrainConn, CloseConn, Enqueue, SetClose, Locks,
     Fence
<1>19. ASSUME NEW k \in Closers, CloseForces(k) PROVE Runtime'
  BY <1>19 DEF CloseForces, CloseConn, Enqueue, SetClose, Locks, Fence
<1>20. ASSUME NEW k \in Closers, CloseFinishes(k) PROVE Runtime'
  BY <1>20 DEF CloseFinishes, SetClose, Locks, Fence
<1>21. ASSUME NEW c \in Conns, OnDisconnect(c) PROVE Runtime'
  BY <1>21 DEF OnDisconnect, TakesCallback
<1>22. ASSUME NEW c \in Conns, OnReconnect(c) PROVE Runtime'
  BY <1>22 DEF OnReconnect, TakesCallback
<1>23. ASSUME NEW c \in Conns, OnClosed(c) PROVE Runtime'
  BY <1>23 DEF OnClosed, TakesCallback
<1>24. ASSUME NEW c \in Conns, RebindFetches(c) PROVE Runtime'
  BY <1>24 DEF RebindFetches
<1>25. ASSUME NEW c \in Conns, RebindFails(c) PROVE Runtime'
  BY <1>25 DEF RebindFails
<1>26. ASSUME NEW c \in Conns, RebindInstalls(c) PROVE Runtime'
  <2>1. /\ nc = c /\ nc' = c /\ handles' = c /\ ~closing'
        /\ UNCHANGED <<status, abandoned, startPc>>
    BY <1>26 DEF RebindInstalls, Rebound, connVars, startVars
  <2> QED BY <2>1, NoConnAssumption
<1>27. ASSUME NEW c \in Conns, RebindDiscards(c) PROVE Runtime'
  BY <1>27 DEF RebindDiscards, Rebound
<1>28. ASSUME NEW c \in Conns, CloseAbandoned(c) PROVE Runtime'
  BY <1>28 DEF CloseAbandoned, CloseConn, Enqueue
<1>29. ASSUME NEW c \in Conns, Environment(c) PROVE Runtime'
  <2>1. CASE DialSucceeds(c)
    BY <1>29, <2>1 DEF Environment, DialSucceeds
  <2>2. CASE DialFails(c)
    BY <1>29, <2>2 DEF Environment, DialFails
  <2>3. CASE ConnDrops(c)
    BY <1>29, <2>3 DEF Environment, ConnDrops, Enqueue
  <2>4. CASE ConnReconnects(c)
    BY <1>29, <2>4 DEF Environment, ConnReconnects, Enqueue
  <2>5. CASE ConnGivesUp(c)
    BY <1>29, <2>5 DEF Environment, ConnGivesUp, CloseConn, Enqueue
  <2>6. CASE DrainCompletes(c)
    BY <1>29, <2>6 DEF Environment, DrainCompletes, CloseConn, Enqueue
  <2> QED BY <1>29, <2>1, <2>2, <2>3, <2>4, <2>5, <2>6 DEF Environment,
     ConnStep
<1>30. CASE UNCHANGED vars
  BY <1>30 DEF vars
<1> QED BY <1>1, <1>2, <1>3, <1>4, <1>5, <1>6, <1>7, <1>8, <1>9, <1>10,
   <1>11, <1>12, <1>13, <1>14, <1>15, <1>16, <1>17, <1>18, <1>19, <1>20,
   <1>21, <1>22, <1>23, <1>24, <1>25, <1>26, <1>27, <1>28, <1>29, <1>30 DEF
   Next, StartStep, CloseStep, CallbackStep, RebindStep

\* A Start call keeps its connection to itself until it is installed.
LEMMA HoldingStep ==
    ASSUME TypeOK, Locks, Fence, Runtime, Holding, Owners, [Next]_vars PROVE Holding'
<1> USE DEF TypeOK, Holding, HoldingPc, connVars, managerVars, startVars,
   closeVars, rebindVars, StartRefused, CloseWanted, WaitsFirst
<1>1. ASSUME NEW s \in Starters, StartBegin(s) PROVE Holding'
  BY <1>1 DEF StartBegin, SetStart, Locks
<1>2. ASSUME NEW s \in Starters, StartDial(s) PROVE Holding'
  <2>1. \A t \in Starters \ {s} : startPc[t] = "idle"
    BY <1>2, NoStartAssumption DEF StartDial, Locks
  <2>2. \A t \in Starters \ {s} : startConn[t] = NoConn
    BY <2>1
  <2>3. CASE SetStart(s, "failed", NoConn) /\ UNCHANGED connVars
    BY <1>2, <2>1, <2>2, <2>3 DEF SetStart
  <2>4. ASSUME NEW c \in Conns, Dial(c), SetStart(s, "dialing", c)
        PROVE  Holding'
    <3>1. c \notin abandoned /\ c # nc /\ UNCHANGED <<abandoned, nc>>
      BY <1>2, <2>4, NoConnAssumption
         DEF StartDial, Dial, Owners, Runtime, managerVars
    <3>2. status'[c] = "dialing"
      BY <2>4 DEF Dial
    <3>3. /\ startPc'[s] = "dialing" /\ startConn'[s] = c
          /\ \A t \in Starters \ {s} : startPc'[t] = "idle" /\ startConn'[t] = NoConn
      BY <2>1, <2>2, <2>4 DEF SetStart
    <3> QED BY <3>1, <3>2, <3>3
  <2> QED BY <1>2, <2>3, <2>4 DEF StartDial
<1>3. ASSUME NEW s \in Starters, StartConnects(s) PROVE Holding'
  BY <1>3 DEF StartConnects, SetStart
<1>4. ASSUME NEW s \in Starters, StartConnectFails(s) PROVE Holding'
  <2>1. \A t \in Starters \ {s} : startPc[t] = "idle"
    BY <1>4, NoStartAssumption DEF StartConnectFails, Locks
  <2>2. /\ startPc'[s] = "failed" /\ startConn'[s] = NoConn
        /\ \A t \in Starters \ {s} : /\ startPc'[t] = "idle"
                                     /\ startConn'[t] = startConn[t]
    BY <1>4, <2>1 DEF StartConnectFails, SetStart
  <2>3. \A t \in Starters \ {s} : startConn[t] = NoConn
    BY <2>1
  <2> QED BY <2>2, <2>3
<1>5. ASSUME NEW s \in Starters, StartLeavesDial(s) PROVE Holding'
  BY <1>5 DEF StartLeavesDial, SetStart, Locks
<1>6. ASSUME NEW s \in Starters, StartBinds(s) PROVE Holding'
  BY <1>6 DEF StartBinds, SetStart
<1>7. ASSUME NEW s \in Starters, StartSetupFails(s) PROVE Holding'
  BY <1>7 DEF StartSetupFails, CloseConn, Enqueue, SetStart, Locks
<1>8. ASSUME NEW s \in Starters, StartInstalls(s) PROVE Holding'
  BY <1>8 DEF StartInstalls, SetStart, Locks
<1>9. ASSUME NEW s \in Starters, StartAborts(s) PROVE Holding'
  BY <1>9 DEF StartAborts, SetStart
<1>10. ASSUME NEW s \in Starters, StartClosesAborted(s) PROVE Holding'
  BY <1>10 DEF StartClosesAborted, CloseConn, Enqueue, SetStart, Locks
<1>11. ASSUME NEW s \in Starters, StartDegrades(s) PROVE Holding'
  BY <1>11 DEF StartDegrades, SetStart
<1>12. ASSUME NEW s \in Starters, StartReturns(s) PROVE Holding'
  BY <1>12 DEF StartReturns, SetStart, Locks
<1>13. ASSUME NEW k \in Closers, CloseAlreadyClosing(k) PROVE Holding'
  BY <1>13 DEF CloseAlreadyClosing
<1>14. ASSUME NEW k \in Closers, CloseNothing(k) PROVE Holding'
  BY <1>14 DEF CloseNothing
<1>15. ASSUME NEW k \in Closers, CloseBegin(k) PROVE Holding'
  BY <1>15 DEF CloseBegin, SetClose
<1>16. ASSUME NEW k \in Closers, CloseSeesStart(k) PROVE Holding'
  BY <1>16 DEF CloseSeesStart, SetClose
<1>17. ASSUME NEW k \in Closers, CloseLeavesWait(k) PROVE Holding'
  BY <1>17 DEF CloseLeavesWait, SetClose
<1>18. ASSUME NEW k \in Closers, CloseDrains(k) PROVE Holding'
  BY <1>18 DEF CloseDrains, DrainConn, CloseConn, Enqueue, SetClose
<1>19. ASSUME NEW k \in Closers, CloseForces(k) PROVE Holding'
  BY <1>19 DEF CloseForces, CloseConn, Enqueue, SetClose
<1>20. ASSUME NEW k \in Closers, CloseFinishes(k) PROVE Holding'
  <2>1. \A t \in Starters : startPc[t] = "idle"
    BY <1>20, NoStartAssumption DEF CloseFinishes, Locks, Fence
  <2>2. \A t \in Starters : startConn[t] = NoConn
    BY <2>1
  <2> QED BY <1>20, <2>1, <2>2 DEF CloseFinishes, startVars
<1>21. ASSUME NEW c \in Conns, OnDisconnect(c) PROVE Holding'
  BY <1>21 DEF OnDisconnect, TakesCallback
<1>22. ASSUME NEW c \in Conns, OnReconnect(c) PROVE Holding'
  BY <1>22 DEF OnReconnect, TakesCallback
<1>23. ASSUME NEW c \in Conns, OnClosed(c) PROVE Holding'
  BY <1>23 DEF OnClosed, TakesCallback
<1>24. ASSUME NEW c \in Conns, RebindFetches(c) PROVE Holding'
  BY <1>24 DEF RebindFetches
<1>25. ASSUME NEW c \in Conns, RebindFails(c) PROVE Holding'
  BY <1>25 DEF RebindFails
<1>26. ASSUME NEW c \in Conns, RebindInstalls(c) PROVE Holding'
  BY <1>26 DEF RebindInstalls, Rebound
<1>27. ASSUME NEW c \in Conns, RebindDiscards(c) PROVE Holding'
  BY <1>27 DEF RebindDiscards, Rebound
<1>28. ASSUME NEW c \in Conns, CloseAbandoned(c) PROVE Holding'
  BY <1>28 DEF CloseAbandoned, CloseConn, Enqueue
<1>29. ASSUME NEW c \in Conns, Environment(c) PROVE Holding'
  <2>1. CASE DialSucceeds(c)
    BY <1>29, <2>1 DEF Environment, DialSucceeds
  <2>2. CASE DialFails(c)
    BY <1>29, <2>2 DEF Environment, DialFails
  <2>3. CASE ConnDrops(c)
    BY <1>29, <2>3 DEF Environment, ConnDrops, Enqueue
  <2>4. CASE ConnReconnects(c)
    BY <1>29, <2>4 DEF Environment, ConnReconnects, Enqueue
  <2>5. CASE ConnGivesUp(c)
    BY <1>29, <2>5 DEF Environment, ConnGivesUp, CloseConn, Enqueue
  <2>6. CASE DrainCompletes(c)
    BY <1>29, <2>6 DEF Environment, DrainCompletes, CloseConn, Enqueue
  <2> QED BY <1>29, <2>1, <2>2, <2>3, <2>4, <2>5, <2>6 DEF Environment,
     ConnStep
<1>30. CASE UNCHANGED vars
  BY <1>30 DEF vars
<1> QED BY <1>1, <1>2, <1>3, <1>4, <1>5, <1>6, <1>7, <1>8, <1>9, <1>10,
   <1>11, <1>12, <1>13, <1>14, <1>15, <1>16, <1>17, <1>18, <1>19, <1>20,
   <1>21, <1>22, <1>23, <1>24, <1>25, <1>26, <1>27, <1>28, <1>29, <1>30 DEF
   Next, StartStep, CloseStep, CallbackStep, RebindStep

\* Whoever lets go of a connection has closed it or passed it on.
LEMMA OwnersStep ==
    ASSUME TypeOK, Locks, Fence, Runtime, Holding, Owners, [Next]_vars PROVE Owners'
<1> USE DEF TypeOK, Owners, Owned, connVars, managerVars, startVars,
   closeVars, rebindVars, StartRefused, CloseWanted, WaitsFirst
<1>1. ASSUME NEW s \in Starters, StartBegin(s) PROVE Owners'
  BY <1>1 DEF StartBegin, SetStart, Runtime, Holding, HoldingPc
<1>2. ASSUME NEW s \in Starters, StartDial(s) PROVE Owners'
  <2>1. CASE SetStart(s, "failed", NoConn) /\ UNCHANGED connVars
    BY <1>2, <2>1, NoConnAssumption
       DEF StartDial, SetStart, connVars, managerVars, Holding, HoldingPc
  <2>2. ASSUME NEW c \in Conns, Dial(c), SetStart(s, "dialing", c)
        PROVE  Owners'
    <3>1. startConn[s] = NoConn
      BY <1>2 DEF StartDial, Holding, HoldingPc
    <3>2. startConn'[s] = c /\ \A t \in Starters \ {s} : startConn'[t] = startConn[t]
      BY <2>2 DEF SetStart
    <3>3. \A d \in Conns : Owned(d) => Owned(d)'
      BY <1>2, <3>1, <3>2, NoConnAssumption DEF StartDial, managerVars
    <3>4. status'[c] = "dialing" /\ \A d \in Conns \ {c} : status'[d] = status[d]
      BY <2>2 DEF Dial
    <3>5. abandoned' = abandoned
      BY <1>2 DEF StartDial
    <3> QED BY <3>2, <3>3, <3>4, <3>5
  <2> QED BY <1>2, <2>1, <2>2 DEF StartDial
<1>3. ASSUME NEW s \in Starters, StartConnects(s) PROVE Owners'
  BY <1>3 DEF StartConnects, SetStart, Runtime, Holding, HoldingPc
<1>4. ASSUME NEW s \in Starters, StartConnectFails(s) PROVE Owners'
  BY <1>4 DEF StartConnectFails, SetStart, Runtime, Holding, HoldingPc
<1>5. ASSUME NEW s \in Starters, StartLeavesDial(s) PROVE Owners'
  BY <1>5 DEF StartLeavesDial, SetStart, Runtime, Holding, HoldingPc
<1>6. ASSUME NEW s \in Starters, StartBinds(s) PROVE Owners'
  BY <1>6 DEF StartBinds, SetStart
<1>7. ASSUME NEW s \in Starters, StartSetupFails(s) PROVE Owners'
  BY <1>7 DEF StartSetupFails, CloseConn, Enqueue, SetStart, Runtime,
     Holding, HoldingPc
<1>8. ASSUME NEW s \in Starters, StartInstalls(s) PROVE Owners'
  <2>1. nc # NoConn => status[nc] = "closed"
    BY <1>8 DEF StartInstalls, Runtime
  <2>2. UNCHANGED <<status, abandoned, startConn>>
    BY <1>8 DEF StartInstalls, SetStart, connVars
  <2>3. ASSUME NEW c \in Conns,
               status[c] \in {"dialing", "failed", "connected", "reconnecting"}
        PROVE  c \in abandoned \/ \E t \in Starters : startConn[t] = c
    BY <2>1, <2>3, NoConnAssumption
  <2> QED BY <2>2, <2>3
<1>9. ASSUME NEW s \in Starters, StartAborts(s) PROVE Owners'
  BY <1>9 DEF StartAborts, SetStart
<1>10. ASSUME NEW s \in Starters, StartClosesAborted(s) PROVE Owners'
  BY <1>10 DEF StartClosesAborted, CloseConn, Enqueue, SetStart, Runtime,
     Holding, HoldingPc
<1>11. ASSUME NEW s \in Starters, StartDegrades(s) PROVE Owners'
  BY <1>11 DEF StartDegrades, SetStart, Runtime, Holding, HoldingPc
<1>12. ASSUME NEW s \in Starters, StartReturns(s) PROVE Owners'
  BY <1>12 DEF StartReturns, SetStart, Runtime, Holding, HoldingPc
<1>13. ASSUME NEW k \in Closers, CloseAlreadyClosing(k) PROVE Owners'
  BY <1>13 DEF CloseAlreadyClosing
<1>14. ASSUME NEW k \in Closers, CloseNothing(k) PROVE Owners'
  BY <1>14 DEF CloseNothing
<1>15. ASSUME NEW k \in Closers, CloseBegin(k) PROVE Owners'
  BY <1>15 DEF CloseBegin, SetClose
<1>16. ASSUME NEW k \in Closers, CloseSeesStart(k) PROVE Owners'
  BY <1>16 DEF CloseSeesStart, SetClose
<1>17. ASSUME NEW k \in Closers, CloseLeavesWait(k) PROVE Owners'
  BY <1>17 DEF CloseLeavesWait, SetClose
<1>18. ASSUME NEW k \in Closers, CloseDrains(k) PROVE Owners'
  BY <1>18 DEF CloseDrains, DrainConn, CloseConn, Enqueue, SetClose
<1>19. ASSUME NEW k \in Closers, CloseForces(k) PROVE Owners'
  BY <1>19 DEF CloseForces, CloseConn, Enqueue, SetClose
<1>20. ASSUME NEW k \in Closers, CloseFinishes(k) PROVE Owners'
  BY <1>20 DEF CloseFinishes, SetClose, Locks, Fence, Runtime, Live
<1>21. ASSUME NEW c \in Conns, OnDisconnect(c) PROVE Owners'
  BY <1>21 DEF OnDisconnect, TakesCallback
<1>22. ASSUME NEW c \in Conns, OnReconnect(c) PROVE Owners'
  BY <1>22 DEF OnReconnect, TakesCallback
<1>23. ASSUME NEW c \in Conns, OnClosed(c) PROVE Owners'
  BY <1>23 DEF OnClosed, TakesCallback
<1>24. ASSUME NEW c \in Conns, RebindFetches(c) PROVE Owners'
  BY <1>24 DEF RebindFetches
<1>25. ASSUME NEW c \in Conns, RebindFails(c) PROVE Owners'
  BY <1>25 DEF RebindFails
<1>26. ASSUME NEW c \in Conns, RebindInstalls(c) PROVE Owners'
  BY <1>26 DEF RebindInstalls, Rebound
<1>27. ASSUME NEW c \in Conns, RebindDiscards(c) PROVE Owners'
  BY <1>27 DEF RebindDiscards, Rebound
<1>28. ASSUME NEW c \in Conns, CloseAbandoned(c) PROVE Owners'
  BY <1>28 DEF CloseAbandoned, CloseConn, Enqueue, Runtime, Holding, HoldingPc
<1>29. ASSUME NEW c \in Conns, Environment(c) PROVE Owners'
  <2>1. CASE DialSucceeds(c)
    BY <1>29, <2>1 DEF Environment, DialSucceeds
  <2>2. CASE DialFails(c)
    BY <1>29, <2>2 DEF Environment, DialFails
  <2>3. CASE ConnDrops(c)
    BY <1>29, <2>3 DEF Environment, ConnDrops, Enqueue
  <2>4. CASE ConnReconnects(c)
    BY <1>29, <2>4 DEF Environment, ConnReconnects, Enqueue
  <2>5. CASE ConnGivesUp(c)
    BY <1>29, <2>5 DEF Environment, ConnGivesUp, CloseConn, Enqueue
  <2>6. CASE DrainCompletes(c)
    BY <1>29, <2>6 DEF Environment, DrainCompletes, CloseConn, Enqueue
  <2> QED BY <1>29, <2>1, <2>2, <2>3, <2>4, <2>5, <2>6 DEF Environment,
     ConnStep
<1>30. CASE UNCHANGED vars
  BY <1>30 DEF vars
<1> QED BY <1>1, <1>2, <1>3, <1>4, <1>5, <1>6, <1>7, <1>8, <1>9, <1>10,
   <1>11, <1>12, <1>13, <1>14, <1>15, <1>16, <1>17, <1>18, <1>19, <1>20,
   <1>21, <1>22, <1>23, <1>24, <1>25, <1>26, <1>27, <1>28, <1>29, <1>30 DEF
   Next, StartStep, CloseStep, CallbackStep, RebindStep

-----------------------------------------------------------------------------
(* The invariant, and what follows from it.                                *)

\* The invariant holds at the start.
LEMMA InitIInv == Init => IInv
<1> SUFFICES ASSUME Init PROVE IInv
  OBVIOUS
<1> USE NoConnAssumption, NoStartAssumption, MaxDropsAssumption DEF Init,
   ConnInit
<1>1. TypeOK
  <2>1. /\ status \in [Conns -> Status]
        /\ callbacks \in [Conns -> Seq(Callback)]
        /\ drops \in [Conns -> 0..MaxDrops]
    BY DEF Status, Callback
  <2>2. /\ rebinding \in [Conns -> Nat]
        /\ rebound \in [Conns -> Nat]
    OBVIOUS
  <2> QED BY <2>1, <2>2 DEF TypeOK, State, StartPc, ClosePc
<1>2. Locks /\ Fence /\ Runtime
  BY DEF Locks, Fence, Runtime
<1>3. Holding /\ Owners
  BY DEF Holding, HoldingPc, Owners
<1> QED BY <1>1, <1>2, <1>3 DEF IInv

\* Every step keeps it.
LEMMA IInvStep == IInv /\ [Next]_vars => IInv'
BY TypeStep, LocksStep, FenceStep, RuntimeStep, HoldingStep, OwnersStep DEF
   IInv

\* IInv holds throughout: the invariant every result below rests on.
THEOREM Inductive == Spec => []IInv
BY InitIInv, IInvStep, PTL DEF Spec

\* Every variable always holds a value of its kind.
THEOREM TypeCorrect == Spec => []TypeOK
BY Inductive, PTL DEF IInv

\* No live connection is ever forgotten by Start, Close and connectNATS.
THEOREM NoLeak == Spec => []NoConnectionLeak
<1>1. IInv => NoConnectionLeak
  BY DEF IInv, Owners, NoConnectionLeak, Live
<1> QED BY <1>1, Inductive, PTL

\* There is never a second live runtime beside one that is running.
THEOREM OneRuntime == Spec => []SingleRuntime
<1>1. IInv => SingleRuntime
  <2> SUFFICES ASSUME IInv,
                      NEW c \in Conns \ abandoned, NEW d \in Conns \ abandoned,
                      Live(c), Live(d)
               PROVE  c = d
    BY DEF SingleRuntime
  <2>1. /\ nc = c \/ \E s \in Starters : startConn[s] = c
        /\ nc = d \/ \E s \in Starters : startConn[s] = d
    BY DEF IInv, Owners, Owned, Live
  <2>2. ASSUME NEW s \in Starters, NEW e \in Conns, Live(e), startConn[s] = e,
               nc # e
        PROVE  startDone = s /\ (nc \in Conns => ~Live(nc))
    <3>1. startPc[s] \in HoldingPc
      BY <2>2, NoConnAssumption DEF IInv, Holding
    <3>2. startDone = s
      BY <3>1 DEF IInv, Locks, HoldingPc
    <3>3. nc \in Conns => status[nc] = "closed"
      BY <3>1, NoConnAssumption DEF IInv, Runtime, HoldingPc
    <3> QED BY <3>2, <3>3 DEF Live
  <2> QED BY <2>1, <2>2
<1> QED BY <1>1, Inductive, PTL

\* A Close that has stopped waiting works alone, on the installed connection.
THEOREM CloseFences == Spec => []CloseFencesStart
<1>1. IInv => CloseFencesStart
  BY NoStartAssumption DEF IInv, Locks, Fence, CloseFencesStart, InFlight
<1> QED BY <1>1, Inductive, PTL

\* Health never says connected without a runtime, or during a Close.
THEOREM ConnectedSound == Spec => []ConnectedHasRuntime
<1>1. IInv => ConnectedHasRuntime
  BY DEF IInv, Runtime, ConnectedHasRuntime
<1> QED BY <1>1, Inductive, PTL

\* A flag is set only while the call that set it is in progress.
THEOREM RefusedOnlyBusy == Spec => []RefusedOnlyWhileBusy
<1>1. IInv => RefusedOnlyWhileBusy
  BY DEF IInv, TypeOK, Locks, RefusedOnlyWhileBusy, InFlight
<1> QED BY <1>1, Inductive, PTL

\* Where m.nc changes: at an installation over nothing or over a closed
\* connection, and at the end of a Close, whose drain has begun.
LEMMA RuntimeChanges ==
    ASSUME IInv, [Next]_vars, nc' # nc
    PROVE  /\ nc # NoConn => ~Live(nc)
           /\ \/ \E s \in Starters : StartInstalls(s)
              \/ \E k \in Closers : CloseFinishes(k)
<1>1. \/ \E s \in Starters : StartInstalls(s)
      \/ \E k \in Closers : CloseFinishes(k)
  <2> USE DEF managerVars
  <2>1. ASSUME NEW s \in Starters, StartStep(s) PROVE StartInstalls(s)
    BY <2>1 DEF StartStep, StartBegin, StartDial, StartConnects,
       StartConnectFails, StartLeavesDial, StartBinds, StartSetupFails,
       StartAborts, StartClosesAborted, StartDegrades, StartReturns
  <2>2. ASSUME NEW k \in Closers, CloseStep(k) PROVE CloseFinishes(k)
    BY <2>2 DEF CloseStep, CloseAlreadyClosing, CloseNothing, CloseBegin,
       CloseSeesStart, CloseLeavesWait, CloseDrains, CloseForces
  <2>3. ASSUME NEW c \in Conns,
               CallbackStep(c) \/ RebindStep(c) \/ CloseAbandoned(c) \/ Environment(c)
        PROVE  FALSE
    BY <2>3 DEF CallbackStep, OnDisconnect, OnReconnect, OnClosed, RebindStep,
       RebindFetches, RebindFails, RebindInstalls, RebindDiscards, Rebound,
       CloseAbandoned, Environment
  <2>4. CASE UNCHANGED vars
    BY <2>4 DEF vars
  <2> QED BY <2>1, <2>2, <2>3, <2>4 DEF Next
<1>2. ASSUME NEW s \in Starters, StartInstalls(s) PROVE nc # NoConn => ~Live(nc)
  BY <1>2 DEF IInv, Runtime, StartInstalls, Live
<1>3. ASSUME NEW k \in Closers, CloseFinishes(k) PROVE nc # NoConn => ~Live(nc)
  BY <1>3 DEF IInv, Fence, CloseFinishes
<1> QED BY <1>1, <1>2, <1>3

\* No step replaces or drops a connection that is in use.
THEOREM LetGoOnlyDead == Spec => RuntimeLetGoOnlyDead
<1>1. IInv /\ [Next]_vars => [LetsGoOnlyDead]_vars
  BY RuntimeChanges DEF LetsGoOnlyDead, StartInstalls, CloseFinishes
<1> QED BY <1>1, Inductive, PTL DEF Spec, RuntimeLetGoOnlyDead

-----------------------------------------------------------------------------
(* The Manager implements Lifecycle.                                       *)

\* A step that leaves m.nc, m.starting and m.closing alone is Transport.
LEMMA QuietStep ==
    ASSUME UNCHANGED <<nc, starting, closing>> PROVE Promise!Transport
<1>1. LiveConns' \subseteq Conns
  BY DEF LiveConns
<1> QED BY <1>1 DEF Promise!Transport, Phase

\* Only these six steps touch them.
LEMMA LifecycleSteps ==
    ASSUME [Next]_vars
    PROVE  \/ UNCHANGED <<nc, starting, closing>>
           \/ \E s \in Starters : \/ StartBegin(s)
                                 \/ StartInstalls(s)
                                 \/ StartReturns(s)
           \/ \E k \in Closers : \/ CloseBegin(k)
                                \/ CloseLeavesWait(k)
                                \/ CloseFinishes(k)
<1> USE DEF managerVars
<1>1. ASSUME NEW s \in Starters, StartStep(s)
      PROVE  \/ UNCHANGED <<nc, starting, closing>>
             \/ StartBegin(s) \/ StartInstalls(s) \/ StartReturns(s)
  BY <1>1 DEF StartStep, StartDial, StartConnects, StartConnectFails,
     StartLeavesDial, StartBinds, StartSetupFails, StartAborts,
     StartClosesAborted, StartDegrades
<1>2. ASSUME NEW k \in Closers, CloseStep(k)
      PROVE  \/ UNCHANGED <<nc, starting, closing>>
             \/ CloseBegin(k) \/ CloseLeavesWait(k) \/ CloseFinishes(k)
  BY <1>2 DEF CloseStep, CloseAlreadyClosing, CloseNothing, CloseSeesStart,
     CloseDrains, CloseForces
<1>3. ASSUME NEW c \in Conns,
             CallbackStep(c) \/ RebindStep(c) \/ CloseAbandoned(c) \/ Environment(c)
      PROVE  UNCHANGED <<nc, starting, closing>>
  BY <1>3 DEF CallbackStep, OnDisconnect, OnReconnect, OnClosed, RebindStep,
     RebindFetches, RebindFails, RebindInstalls, RebindDiscards, Rebound,
     CloseAbandoned, Environment
<1>4. CASE UNCHANGED vars
  BY <1>4 DEF vars
<1> QED BY <1>1, <1>2, <1>3, <1>4 DEF Next

\* Start and Close are Open, Attach, Settle and Shut, Withdraw, Detach.
LEMMA StepRefines == IInv /\ [Next]_vars => [Promise!Next]_(Promise!vars)
<1> SUFFICES ASSUME IInv, [Next]_vars PROVE [Promise!Next]_(Promise!vars)
  OBVIOUS
<1> USE DEF IInv, Phase, LiveConns, Live, connVars, StartRefused, CloseWanted
<1>1. ASSUME NEW s \in Starters, StartBegin(s) PROVE Promise!Open
  <2>1. nc \notin LiveConns /\ LiveConns' = LiveConns
    BY <1>1, NoConnAssumption DEF StartBegin
  <2>2. Phase \in {"down", "up"} /\ Phase' = "opening" /\ nc' = nc
    BY <1>1 DEF StartBegin
  <2> QED BY <2>1, <2>2 DEF Promise!Open
<1>2. ASSUME NEW s \in Starters, StartInstalls(s) PROVE Promise!Attach
  <2>1. Phase = "opening" /\ Phase' = Phase
    BY <1>2, NoStartAssumption DEF StartInstalls, Locks
  <2>2. nc \notin LiveConns /\ nc' \in Conns
    BY <1>2, NoConnAssumption DEF StartInstalls, Runtime, Holding, HoldingPc
  <2>3. LiveConns' = LiveConns
    BY <1>2 DEF StartInstalls
  <2> QED BY <2>1, <2>2, <2>3 DEF Promise!Attach
<1>3. ASSUME NEW s \in Starters, StartReturns(s)
      PROVE  Promise!Settle \/ UNCHANGED Promise!vars
  <2>1. starting /\ ~starting' /\ closing' = closing /\ nc' = nc
    BY <1>3, NoStartAssumption DEF StartReturns, Locks
  <2>2. LiveConns' = LiveConns
    BY <1>3 DEF StartReturns
  <2> QED BY <2>1, <2>2 DEF Promise!Settle, Promise!Settled, Promise!vars
<1>4. ASSUME NEW k \in Closers, CloseBegin(k) PROVE Promise!Shut
  BY <1>4 DEF CloseBegin, Promise!Shut
<1>5. ASSUME NEW k \in Closers, CloseLeavesWait(k) PROVE Promise!Withdraw
  <2>1. closing /\ ~closing' /\ nc' = nc
    BY <1>5 DEF CloseLeavesWait, Locks
  <2>2. LiveConns' = LiveConns
    BY <1>5 DEF CloseLeavesWait
  <2> QED BY <2>1, <2>2 DEF Promise!Withdraw, Promise!Settled
<1>6. ASSUME NEW k \in Closers, CloseFinishes(k) PROVE Promise!Detach
  <2>1. closing /\ ~closing' /\ ~starting' /\ nc' = NoConn
    BY <1>6 DEF CloseFinishes, Locks, Fence
  <2>2. nc \notin LiveConns /\ LiveConns' = LiveConns
    BY <1>6, NoConnAssumption DEF CloseFinishes, Fence
  <2> QED BY <2>1, <2>2 DEF Promise!Detach
<1> QED BY <1>1, <1>2, <1>3, <1>4, <1>5, <1>6, LifecycleSteps, QuietStep
        DEF Promise!Next

\* The goroutines of Start, Close and the callbacks, however they interleave,
\* keep the promises of Lifecycle.
THEOREM Implementation == Spec => ImplementsLifecycle
<1>1. Init => Promise!Init
  <2> SUFFICES ASSUME Init PROVE Promise!Init
    OBVIOUS
  <2>1. LiveConns = {}
    BY DEF Init, ConnInit, LiveConns, Live
  <2> QED BY <2>1 DEF Init, Phase, Promise!Init
<1> QED BY <1>1, StepRefines, Inductive, PTL
        DEF Spec, ImplementsLifecycle, Promise!Spec
=============================================================================
