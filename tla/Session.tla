------------------------------- MODULE Session -------------------------------
(***************************************************************************)
(* internal/session: the Manager that owns the NATS connection.            *)
(*                                                                         *)
(* Any number of goroutines call Start and Close, nats.go's callback       *)
(* goroutine of each connection calls onDisconnect, onReconnect and        *)
(* onClosed, and every onReconnect spawns a rebindAfterReconnect goroutine. *)
(* All of them share the Manager's fields under m.mu.  One action is one   *)
(* critical section of m.mu, or one call on a connection made outside it;  *)
(* between two actions of a goroutine any other goroutine may run, as it   *)
(* may when the code has released the lock.                                *)
(*                                                                         *)
(* A call that returns before it changes anything (a canceled context,     *)
(* Start while starting, closing or running) is a step that changes        *)
(* nothing and has no action.  The model is of a configuration with        *)
(* RetryOnFailedConnect off: with it on, Start always returns that way.    *)
(***************************************************************************)
EXTENDS NatsConn

CONSTANTS Starters,   \* goroutines that call Start, again and again
          Closers,    \* goroutines that call Close, again and again
          NoConn,     \* a nil *nats.Conn
          NoStart     \* a nil startDone channel

ASSUME NoConnAssumption  == NoConn \notin Conns
ASSUME NoStartAssumption == NoStart \notin Starters

VARIABLES
    nc,              \* m.nc
    handles,         \* the connection m.js and m.kv were made from
    state,           \* m.health.State
    starting,        \* m.starting
    startDone,       \* m.startDone: the Start call whose channel it is
    closing,         \* m.closing
    closeRequested,  \* m.closeRequested
    startPc,         \* where each Start call stands
    startConn,       \* its local nc
    abandoned,       \* dials whose Start gave up; a helper closes the result
    closePc,         \* where each Close call stands
    closeWaits,      \* its local startDone
    closeConn,       \* its local nc
    rebinding,       \* rebinding[c]: rebind goroutines of c fetching handles
    rebound,         \* rebound[c]: those that have them, before the lock
    outlived         \* history: Start calls in flight when a Close returned

managerVars == <<nc, handles, state, starting, startDone, closing,
                 closeRequested>>
startVars   == <<startPc, startConn, abandoned>>
closeVars   == <<closePc, closeWaits, closeConn>>
rebindVars  == <<rebinding, rebound>>
vars == <<connVars, managerVars, startVars, closeVars, rebindVars, outlived>>

State == {"new", "connecting", "connected", "reconnecting", "draining",
          "closed", "degraded"}

StartPc == {"idle", "dial", "dialing", "connected", "bound", "abort",
            "failed", "return"}
ClosePc == {"idle", "wait", "drain", "finish"}

InFlight == {s \in Starters : startPc[s] # "idle"}

Init == /\ ConnInit
        /\ nc = NoConn
        /\ handles = NoConn
        /\ state = "new"
        /\ starting = FALSE
        /\ startDone = NoStart
        /\ closing = FALSE
        /\ closeRequested = FALSE
        /\ startPc = [s \in Starters |-> "idle"]
        /\ startConn = [s \in Starters |-> NoConn]
        /\ abandoned = {}
        /\ closePc = [k \in Closers |-> "idle"]
        /\ closeWaits = [k \in Closers |-> NoStart]
        /\ closeConn = [k \in Closers |-> NoConn]
        /\ rebinding = [c \in Conns |-> 0]
        /\ rebound = [c \in Conns |-> 0]
        /\ outlived = {}

-----------------------------------------------------------------------------
(* Start.                                                                  *)

SetStart(s, pc, c) == /\ startPc' = [startPc EXCEPT ![s] = pc]
                      /\ startConn' = [startConn EXCEPT ![s] = c]

\* Mutant: Start does not look at m.starting.
StartRefusedUnlessStarting == closing \/ (nc # NoConn /\ status[nc] # "closed")

StartRefused == \/ starting
                \/ closing
                \/ nc # NoConn /\ status[nc] # "closed"

StartBegin(s) ==
    /\ startPc[s] = "idle"
    /\ ~StartRefused
    /\ starting' = TRUE
    /\ startDone' = s
    /\ state' = "connecting"
    /\ SetStart(s, "dial", NoConn)
    /\ UNCHANGED <<connVars, nc, handles, closing, closeRequested, abandoned,
                   closeVars, rebindVars, outlived>>

\* connectNATS: the deadline has passed or an option cannot be built, or else
\* a goroutine of its own dials.
StartDial(s) ==
    /\ startPc[s] = "dial"
    /\ \/ /\ SetStart(s, "failed", NoConn)
          /\ UNCHANGED connVars
       \/ \E c \in Conns : Dial(c) /\ SetStart(s, "dialing", c)
    /\ UNCHANGED <<managerVars, abandoned, closeVars, rebindVars, outlived>>

StartConnects(s) ==
    /\ startPc[s] = "dialing"
    /\ status[startConn[s]] \notin {"dialing", "failed"}
    /\ SetStart(s, "connected", startConn[s])
    /\ UNCHANGED <<connVars, managerVars, abandoned, closeVars, rebindVars,
                   outlived>>

\* A failed dial leaves no connection, so its identity is free again.
StartConnectFails(s) ==
    /\ startPc[s] = "dialing"
    /\ status[startConn[s]] = "failed"
    /\ status' = [status EXCEPT ![startConn[s]] = "unused"]
    /\ SetStart(s, "failed", NoConn)
    /\ UNCHANGED <<callbacks, drops, managerVars, abandoned, closeVars,
                   rebindVars, outlived>>

\* Mutant: the helper goroutine is left without the dial's result.
StartForgetsDial(s) ==
    /\ startPc[s] = "dialing"
    /\ abandoned' = abandoned \union {NoConn}
    /\ SetStart(s, "failed", NoConn)
    /\ UNCHANGED <<connVars, managerVars, closeVars, rebindVars, outlived>>

\* The context ends while the dial is out (or the select prefers it).
StartLeavesDial(s) ==
    /\ startPc[s] = "dialing"
    /\ abandoned' = abandoned \union {startConn[s]}
    /\ SetStart(s, "failed", NoConn)
    /\ UNCHANGED <<connVars, managerVars, closeVars, rebindVars, outlived>>

\* Mutant: it takes the late connection and does not close it.
IgnoreAbandoned(c) ==
    /\ c \in abandoned
    /\ status[c] # "dialing"
    /\ abandoned' = abandoned \ {c}
    /\ UNCHANGED <<connVars, managerVars, startPc, startConn, closeVars,
                   rebindVars, outlived>>

\* The helper goroutine connectNATS leaves behind.
CloseAbandoned(c) ==
    /\ c \in abandoned
    /\ status[c] # "dialing"
    /\ abandoned' = abandoned \ {c}
    /\ \/ /\ status[c] = "failed"
          /\ status' = [status EXCEPT ![c] = "unused"]
          /\ UNCHANGED <<callbacks, drops>>
       \/ /\ status[c] # "failed"
          /\ CloseConn(c)
    /\ UNCHANGED <<managerVars, startPc, startConn, closeVars, rebindVars,
                   outlived>>

\* The context is still live, and JetStream and the KV bucket answer.
StartBinds(s) ==
    /\ startPc[s] = "connected"
    /\ status[startConn[s]] = "connected"
    /\ SetStart(s, "bound", startConn[s])
    /\ UNCHANGED <<connVars, managerVars, abandoned, closeVars, rebindVars,
                   outlived>>

\* The context has ended, or JetStream or the KV bucket cannot be had.
StartSetupFails(s) ==
    /\ startPc[s] = "connected"
    /\ CloseConn(startConn[s])
    /\ SetStart(s, "failed", NoConn)
    /\ UNCHANGED <<managerVars, abandoned, closeVars, rebindVars, outlived>>

\* Mutant: Start installs without a look at the Close that waits for it.
CloseUnseen == FALSE

CloseWanted == closeRequested \/ closing

StartInstalls(s) ==
    /\ startPc[s] = "bound"
    /\ ~CloseWanted
    /\ nc' = startConn[s]
    /\ handles' = startConn[s]
    /\ state' = "connected"
    /\ SetStart(s, "return", startConn[s])
    /\ UNCHANGED <<connVars, starting, startDone, closing, closeRequested,
                   abandoned, closeVars, rebindVars, outlived>>

StartAborts(s) ==
    /\ startPc[s] = "bound"
    /\ CloseWanted
    /\ SetStart(s, "abort", startConn[s])
    /\ UNCHANGED <<connVars, managerVars, abandoned, closeVars, rebindVars,
                   outlived>>

StartClosesAborted(s) ==
    /\ startPc[s] = "abort"
    /\ CloseConn(startConn[s])
    /\ SetStart(s, "return", NoConn)
    /\ UNCHANGED <<managerVars, abandoned, closeVars, rebindVars, outlived>>

StartDegrades(s) ==
    /\ startPc[s] = "failed"
    /\ state' = "degraded"
    /\ SetStart(s, "return", NoConn)
    /\ UNCHANGED <<connVars, nc, handles, starting, startDone, closing,
                   closeRequested, abandoned, closeVars, rebindVars, outlived>>

\* Mutant: the deferred block leaves the channel open.
StartReturnsUnsignalled(s) ==
    /\ startPc[s] = "return"
    /\ starting' = FALSE
    /\ SetStart(s, "idle", NoConn)
    /\ outlived' = outlived \ {s}
    /\ UNCHANGED <<connVars, nc, handles, state, startDone, closing,
                   closeRequested, abandoned, closeVars, rebindVars>>

\* The deferred block.
StartReturns(s) ==
    /\ startPc[s] = "return"
    /\ starting' = FALSE
    /\ startDone' = IF startDone = s THEN NoStart ELSE startDone
    /\ SetStart(s, "idle", NoConn)
    /\ outlived' = outlived \ {s}
    /\ UNCHANGED <<connVars, nc, handles, state, closing, closeRequested,
                   abandoned, closeVars, rebindVars>>

-----------------------------------------------------------------------------
(* Close.                                                                  *)

SetClose(k, pc, c) == /\ closePc' = [closePc EXCEPT ![k] = pc]
                      /\ closeConn' = [closeConn EXCEPT ![k] = c]

\* Another Close is under way: nil at once.
CloseAlreadyClosing(k) ==
    /\ closePc[k] = "idle"
    /\ closing
    /\ outlived' = outlived \union InFlight
    /\ UNCHANGED <<connVars, managerVars, startVars, closeVars, rebindVars>>

CloseNothing(k) ==
    /\ closePc[k] = "idle"
    /\ ~closing
    /\ startDone = NoStart
    /\ nc = NoConn
    /\ state' = "closed"
    /\ closeRequested' = FALSE
    /\ outlived' = outlived \union InFlight
    /\ UNCHANGED <<connVars, nc, handles, starting, startDone, closing,
                   startVars, closeVars, rebindVars>>

\* Mutant: Close takes m.nc = nil for closed while a Start is under way.
NeverWaits == FALSE

WaitsFirst == startDone # NoStart

CloseBegin(k) ==
    /\ closePc[k] = "idle"
    /\ ~closing
    /\ startDone # NoStart \/ nc # NoConn
    /\ closing' = TRUE
    /\ closeRequested' = TRUE
    /\ state' = "draining"
    /\ closeWaits' = [closeWaits EXCEPT ![k] = startDone]
    /\ SetClose(k, IF WaitsFirst THEN "wait" ELSE "drain", nc)
    /\ UNCHANGED <<connVars, nc, handles, starting, startDone, startVars,
                   rebindVars, outlived>>

\* <-startDone, and m.nc read again.
CloseSeesStart(k) ==
    /\ closePc[k] = "wait"
    /\ startDone # closeWaits[k]
    /\ closeWaits' = [closeWaits EXCEPT ![k] = NoStart]
    /\ SetClose(k, "drain", nc)
    /\ UNCHANGED <<connVars, managerVars, startVars, rebindVars, outlived>>

\* Mutant: a Close that gives up its wait withdraws the request and not the flag.
CloseLeavesClosing(k) ==
    /\ closePc[k] = "wait"
    /\ state' = "degraded"
    /\ closeRequested' = FALSE
    /\ closeWaits' = [closeWaits EXCEPT ![k] = NoStart]
    /\ SetClose(k, "idle", NoConn)
    /\ UNCHANGED <<connVars, nc, handles, starting, startDone, closing,
                   startVars, rebindVars, outlived>>

\* <-ctx.Done() instead: the call fails and withdraws its request.
CloseLeavesWait(k) ==
    /\ closePc[k] = "wait"
    /\ state' = "degraded"
    /\ closeRequested' = FALSE
    /\ closing' = FALSE
    /\ closeWaits' = [closeWaits EXCEPT ![k] = NoStart]
    /\ SetClose(k, "idle", NoConn)
    /\ UNCHANGED <<connVars, nc, handles, starting, startDone, startVars,
                   rebindVars, outlived>>

\* drainConnection gets Drain's answer; on an error the connection is closed,
\* which Drain's failures have already done.
CloseDrains(k) ==
    /\ closePc[k] = "drain"
    /\ \/ closeConn[k] = NoConn /\ UNCHANGED connVars
       \/ closeConn[k] # NoConn /\ DrainConn(closeConn[k])
    /\ SetClose(k, "finish", closeConn[k])
    /\ UNCHANGED <<managerVars, startVars, closeWaits, rebindVars, outlived>>

\* drainConnection runs out of time, and the connection is closed.
CloseForces(k) ==
    /\ closePc[k] = "drain"
    /\ closeConn[k] # NoConn
    /\ CloseConn(closeConn[k])
    /\ SetClose(k, "finish", closeConn[k])
    /\ UNCHANGED <<managerVars, startVars, closeWaits, rebindVars, outlived>>

CloseFinishes(k) ==
    /\ closePc[k] = "finish"
    /\ nc' = NoConn
    /\ handles' = NoConn
    /\ closeRequested' = FALSE
    /\ closing' = FALSE
    /\ state' = "closed"
    /\ SetClose(k, "idle", NoConn)
    /\ outlived' = outlived \union InFlight
    /\ UNCHANGED <<connVars, starting, startDone, startVars, closeWaits,
                   rebindVars>>

-----------------------------------------------------------------------------
(* The callback goroutine of a connection, and the rebind goroutines.      *)

TakesCallback(c, cb) == /\ callbacks[c] # << >>
                        /\ Head(callbacks[c]) = cb
                        /\ callbacks' = [callbacks EXCEPT ![c] = Tail(@)]
                        /\ UNCHANGED <<status, drops>>

OnDisconnect(c) ==
    /\ TakesCallback(c, "disconnect")
    /\ state' = IF closing THEN state ELSE "reconnecting"
    /\ UNCHANGED <<nc, handles, starting, startDone, closing, closeRequested,
                   startVars, closeVars, rebindVars, outlived>>

OnReconnect(c) ==
    /\ TakesCallback(c, "reconnect")
    /\ rebinding' = IF closing THEN rebinding
                    ELSE [rebinding EXCEPT ![c] = @ + 1]
    /\ UNCHANGED <<managerVars, startVars, closeVars, rebound, outlived>>

\* Mutant: only the connection that is installed is listened to.
OnClosedInstalled(c) ==
    /\ TakesCallback(c, "closed")
    /\ state' = IF nc = c THEN "closed" ELSE state
    /\ UNCHANGED <<nc, handles, starting, startDone, closing, closeRequested,
                   startVars, closeVars, rebindVars, outlived>>

\* The connection the handler is called for is not looked at.
OnClosed(c) ==
    /\ TakesCallback(c, "closed")
    /\ state' = "closed"
    /\ UNCHANGED <<nc, handles, starting, startDone, closing, closeRequested,
                   startVars, closeVars, rebindVars, outlived>>

\* JetStream and the KV bucket answer on the connection.
RebindFetches(c) ==
    /\ rebinding[c] > 0
    /\ status[c] = "connected"
    /\ rebinding' = [rebinding EXCEPT ![c] = @ - 1]
    /\ rebound' = [rebound EXCEPT ![c] = @ + 1]
    /\ UNCHANGED <<connVars, managerVars, startVars, closeVars, outlived>>

\* They do not, and the state is set without a look at closing or m.nc.
RebindFails(c) ==
    /\ rebinding[c] > 0
    /\ rebinding' = [rebinding EXCEPT ![c] = @ - 1]
    /\ state' = "degraded"
    /\ UNCHANGED <<connVars, nc, handles, starting, startDone, closing,
                   closeRequested, startVars, closeVars, rebound, outlived>>

Rebound(c) == /\ rebound[c] > 0
              /\ rebound' = [rebound EXCEPT ![c] = @ - 1]
              /\ UNCHANGED <<connVars, nc, starting, startDone, closing,
                             closeRequested, startVars, closeVars, rebinding,
                             outlived>>

\* Mutant: the handles are replaced, the health is not.
RebindSilently(c) == /\ Rebound(c)
                     /\ ~closing
                     /\ nc = c
                     /\ handles' = c
                     /\ UNCHANGED state

RebindInstalls(c) == /\ Rebound(c)
                     /\ ~closing
                     /\ nc = c
                     /\ handles' = c
                     /\ state' = "connected"

RebindDiscards(c) == /\ Rebound(c)
                     /\ closing \/ nc # c
                     /\ UNCHANGED <<handles, state>>

-----------------------------------------------------------------------------
StartStep(s) == \/ StartBegin(s)
                \/ StartDial(s)
                \/ StartConnects(s)
                \/ StartConnectFails(s)
                \/ StartLeavesDial(s)
                \/ StartBinds(s)
                \/ StartSetupFails(s)
                \/ StartInstalls(s)
                \/ StartAborts(s)
                \/ StartClosesAborted(s)
                \/ StartDegrades(s)
                \/ StartReturns(s)

CloseStep(k) == \/ CloseAlreadyClosing(k)
                \/ CloseNothing(k)
                \/ CloseBegin(k)
                \/ CloseSeesStart(k)
                \/ CloseLeavesWait(k)
                \/ CloseDrains(k)
                \/ CloseForces(k)
                \/ CloseFinishes(k)

CallbackStep(c) == OnDisconnect(c) \/ OnReconnect(c) \/ OnClosed(c)

RebindStep(c) == \/ RebindFetches(c)
                 \/ RebindFails(c)
                 \/ RebindInstalls(c)
                 \/ RebindDiscards(c)

Environment(c) ==
    /\ ConnStep(c)
    /\ UNCHANGED <<managerVars, startVars, closeVars, rebindVars, outlived>>

Next == \/ \E s \in Starters : StartStep(s)
        \/ \E k \in Closers : CloseStep(k)
        \/ \E c \in Conns : \/ CallbackStep(c)
                             \/ RebindStep(c)
                             \/ CloseAbandoned(c)
                             \/ Environment(c)

Spec == Init /\ [][Next]_vars

(***************************************************************************)
(* Every goroutine that is not blocked runs on; a dial is answered within  *)
(* its timeout, the setup and the rebind end within the KV timeout, and a  *)
(* drain within nats.go's own.  Nothing is assumed of the server (whether  *)
(* and when a lost link comes back) nor of the callers (whether they call  *)
(* at all, or end the context of a call that waits).                       *)
(***************************************************************************)
StartProgress(s) == \/ StartDial(s)
                    \/ StartConnects(s)
                    \/ StartConnectFails(s)
                    \/ StartBinds(s)
                    \/ StartSetupFails(s)
                    \/ StartInstalls(s)
                    \/ StartAborts(s)
                    \/ StartClosesAborted(s)
                    \/ StartDegrades(s)
                    \/ StartReturns(s)
CloseProgress(k) == \/ CloseSeesStart(k)
                    \/ CloseDrains(k)
                    \/ CloseForces(k)
                    \/ CloseFinishes(k)
DialAnswered(c)  == (DialSucceeds(c) \/ DialFails(c)) /\ Environment(c)
DrainEnds(c)     == DrainCompletes(c) /\ Environment(c)

Fairness == /\ \A s \in Starters : WF_vars(StartProgress(s))
            /\ \A k \in Closers : WF_vars(CloseProgress(k))
            /\ \A c \in Conns : /\ WF_vars(CallbackStep(c))
                                /\ WF_vars(RebindStep(c))
                                /\ WF_vars(CloseAbandoned(c))
                                /\ WF_vars(DialAnswered(c))
                                /\ WF_vars(DrainEnds(c))

FairSpec == Spec /\ Fairness

-----------------------------------------------------------------------------
(* Properties.                                                             *)

\* Every variable holds a value of its kind.
TypeOK ==
    /\ status \in [Conns -> Status]
    /\ callbacks \in [Conns -> Seq(Callback)]
    /\ drops \in [Conns -> 0..MaxDrops]
    /\ nc \in Conns \union {NoConn}
    /\ handles \in Conns \union {NoConn}
    /\ state \in State
    /\ starting \in BOOLEAN
    /\ startDone \in Starters \union {NoStart}
    /\ closing \in BOOLEAN
    /\ closeRequested \in BOOLEAN
    /\ startPc \in [Starters -> StartPc]
    /\ startConn \in [Starters -> Conns \union {NoConn}]
    /\ abandoned \subseteq Conns
    /\ closePc \in [Closers -> ClosePc]
    /\ closeWaits \in [Closers -> Starters \union {NoStart}]
    /\ closeConn \in [Closers -> Conns \union {NoConn}]
    /\ rebinding \in [Conns -> Nat]
    /\ rebound \in [Conns -> Nat]
    /\ outlived \subseteq Starters

\* Someone who will use or close it knows of connection c.
Owned(c) == \/ nc = c
            \/ c \in abandoned
            \/ \E s \in Starters : startConn[s] = c

\* No live connection is forgotten, whatever Start, Close, a canceled dial and
\* a canceled Close do to each other: it is installed, or in the hands of the
\* Start that dialled it, or left to connectNATS's helper goroutine.
NoConnectionLeak == \A c \in Conns : Live(c) => Owned(c)

\* Apart from dials that were given up, at most one connection is live: Start
\* never builds a second runtime beside one that is still running.
SingleRuntime ==
    \A c, d \in Conns \ abandoned : Live(c) /\ Live(d) => c = d

\* Once Close is past its wait no Start is in flight, and the connection it
\* drains is the one installed (m.nc is read again after the wait).
CloseFencesStart ==
    \A k \in Closers : closePc[k] \in {"drain", "finish"} =>
        /\ InFlight = {}
        /\ closeConn[k] = nc

\* Health says connected only while handles of the installed connection are
\* there and no Close is under way.
ConnectedHasRuntime ==
    state = "connected" => nc # NoConn /\ handles = nc /\ ~closing

\* The installed connection is replaced or dropped only when it is no longer
\* live, and replaced only by a connection that Start has just set up.
LetsGoOnlyDead ==
    nc' # nc => /\ nc # NoConn => ~Live(nc)
                /\ nc' # NoConn => \E s \in Starters : /\ startPc[s] = "bound"
                                                      /\ nc' = startConn[s]

RuntimeLetGoOnlyDead == [][LetsGoOnlyDead]_vars

\* PROMPTS/04c-runtime-fixes.md:169: "no live runtime can appear after Close
\* has already completed during a Start/Close race".  Holds of one closing
\* goroutine at a time; see CloseAlreadyClosing.
NoLateRuntime ==
    [][ \A s \in outlived : nc' # nc /\ nc' # NoConn => nc' # startConn[s] ]_vars

\* Every call of Start or Close returns, time and again: nobody waits for a
\* startDone that is never closed.
CallsReturn == /\ \A s \in Starters : []<>(startPc[s] = "idle")
               /\ \A k \in Closers : []<>(closePc[k] = "idle")

\* A connection whose dial was given up is closed in the end.
AbandonedDialsEnd ==
    \A c \in Conns : c \in abandoned ~> status[c] \in {"unused", "closed"}

Rebinding == \E c \in Conns : rebinding[c] + rebound[c] > 0

\* If no Start follows a Close that has shut a runtime down then health ends in
\* closed: the disconnect handler of the drained connection, which runs after
\* the Close and moves health to reconnecting, does not have the last word.  A
\* rebind may have it: one that fails sets degraded without a look at m.closing
\* and m.nc (callbacks.go:60-64, 75-79), so it is said of a Close that none
\* outlives.
ClosedInTheEnd == \A k \in Closers :
    [](closePc[k] = "finish" /\ nc # NoConn /\ [](InFlight = {} /\ ~Rebinding)
        => <>[](state = "closed"))

\* Who sets a flag takes it back, whatever way its call ends, given up waits
\* included: Start and Close are refused only while another call is in progress.
RefusedOnlyWhileBusy ==
    /\ starting \/ startDone # NoStart => InFlight # {}
    /\ closing \/ closeRequested => \E k \in Closers : closePc[k] # "idle"

Serving == nc # NoConn /\ status[nc] = "connected" /\ ~closing

\* If the installed connection stays up then health ends in connected, or in
\* degraded when a rebind failed, whatever order the disconnect, reconnect and
\* rebind steps came in.  The handlers of an earlier connection can undo that:
\* onClosed does not ask which connection it is for.  So it is said of the first.
HealthConverges ==
    <>[](Serving /\ \A d \in Conns \ {nc} : status[d] = "unused")
      => <>[](state \in {"connected", "degraded"})

-----------------------------------------------------------------------------
(* The Manager implements Lifecycle.                                       *)

Phase == IF closing THEN "closing"
         ELSE IF starting THEN "opening"
         ELSE IF nc = NoConn THEN "down" ELSE "up"

LiveConns == {c \in Conns : Live(c)}

Promise == INSTANCE Lifecycle WITH phase <- Phase, runtime <- nc,
                                   open <- LiveConns

\* Every step of the goroutines is a step of the promised life cycle, or none:
\* see Lifecycle for what that rules out.
ImplementsLifecycle == Promise!Spec
=============================================================================
