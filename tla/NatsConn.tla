------------------------------- MODULE NatsConn -------------------------------
(***************************************************************************)
(* The part of github.com/nats-io/nats.go that internal/session relies on: *)
(* the status of every connection the client has dialled and, for each     *)
(* connection, the FIFO of handler invocations that nats.go's asynchronous *)
(* callback goroutine has still to make.  The library is a dependency of   *)
(* the repository and not part of it, so everything here is external: it   *)
(* is what session.go and callbacks.go assume of the handlers registered   *)
(* in buildNATSOptions, and of Status, Drain and Close.                    *)
(***************************************************************************)
EXTENDS Integers, Sequences, FiniteSets

CONSTANTS Conns,      \* identities of the connections that can ever be dialled
          MaxDrops    \* bound: how often one connection loses its transport

ASSUME MaxDropsAssumption == MaxDrops \in Nat

VARIABLES status,     \* status[c]: nats.go's view of connection c
          callbacks,  \* callbacks[c]: handler invocations queued for c
          drops       \* drops[c]: transport losses of c so far

connVars == <<status, callbacks, drops>>

Status   == {"unused", "dialing", "failed", "connected", "reconnecting",
             "draining", "closed"}
Callback == {"disconnect", "reconnect", "closed"}

\* A connection that holds (or is trying to regain) a server link.
Live(c) == status[c] \in {"connected", "reconnecting"}

Enqueue(c, cbs) == callbacks' = [callbacks EXCEPT ![c] = @ \o cbs]

ConnInit == /\ status = [c \in Conns |-> "unused"]
            /\ callbacks = [c \in Conns |-> << >>]
            /\ drops = [c \in Conns |-> 0]

-----------------------------------------------------------------------------
(* Calls the session makes.                                                *)

Dial(c) == /\ status[c] = "unused"
           /\ status' = [status EXCEPT ![c] = "dialing"]
           /\ UNCHANGED <<callbacks, drops>>

\* nc.Close(): the status changes at once, the handlers run later on the
\* callback goroutine; a disconnect is reported only if the link was up.
CloseConn(c) ==
    /\ status' = [status EXCEPT ![c] = "closed"]
    /\ Enqueue(c, CASE status[c] = "closed"       -> << >>
                    [] status[c] = "reconnecting" -> <<"closed">>
                    [] OTHER                      -> <<"disconnect", "closed">>)
    /\ UNCHANGED drops

\* nc.Drain(): only marks the connection; a goroutine of nats.go completes the
\* drain after Drain has returned.  Draining while reconnecting closes instead.
DrainConn(c) ==
    \/ /\ status[c] = "connected"
       /\ status' = [status EXCEPT ![c] = "draining"]
       /\ UNCHANGED <<callbacks, drops>>
    \/ /\ status[c] = "reconnecting"
       /\ CloseConn(c)
    \/ /\ status[c] \in {"draining", "closed"}
       /\ UNCHANGED connVars

-----------------------------------------------------------------------------
(* What the connection does on its own.                                    *)

DialSucceeds(c) == /\ status[c] = "dialing"
                   /\ status' = [status EXCEPT ![c] = "connected"]
                   /\ UNCHANGED <<callbacks, drops>>

DialFails(c) == /\ status[c] = "dialing"
                /\ status' = [status EXCEPT ![c] = "failed"]
                /\ UNCHANGED <<callbacks, drops>>

ConnDrops(c) == /\ status[c] = "connected"
                /\ drops[c] < MaxDrops
                /\ status' = [status EXCEPT ![c] = "reconnecting"]
                /\ drops' = [drops EXCEPT ![c] = @ + 1]
                /\ Enqueue(c, <<"disconnect">>)

ConnReconnects(c) == /\ status[c] = "reconnecting"
                     /\ status' = [status EXCEPT ![c] = "connected"]
                     /\ Enqueue(c, <<"reconnect">>)
                     /\ UNCHANGED drops

\* MaxReconnects attempts used up.
ConnGivesUp(c) == /\ status[c] = "reconnecting"
                  /\ CloseConn(c)

DrainCompletes(c) == /\ status[c] = "draining"
                     /\ CloseConn(c)

ConnStep(c) == \/ DialSucceeds(c)
               \/ DialFails(c)
               \/ ConnDrops(c)
               \/ ConnReconnects(c)
               \/ ConnGivesUp(c)
               \/ DrainCompletes(c)
=============================================================================
