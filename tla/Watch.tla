-------------------------------- MODULE Watch --------------------------------
(***************************************************************************)
(* Desired-config watches: internal/kv/watch.go, and the bookkeeping of    *)
(* agentcore/client.go around it (WatchDesiredConfig, trackWatch,          *)
(* stopAllWatches and the part of Close that matters to them).             *)
(*                                                                         *)
(* A watch is one call of WatchDesiredConfig.  It has a caller, a helper   *)
(* goroutine that turns the end of the caller's context into a cancel of   *)
(* watchCtx, and a consumer goroutine that reads the watcher's updates and *)
(* calls the handler.  Other goroutines call the returned StopFunc, and    *)
(* Close.  An update is good (it decodes), skipped (it does not, or is a   *)
(* delete marker), or the nil that ends the initial values.                *)
(***************************************************************************)
EXTENDS Integers, Sequences, FiniteSets

CONSTANTS Watches,     \* calls of WatchDesiredConfig
          Stoppers,    \* goroutines that call StopFuncs
          Closers,     \* goroutines that call Close
          NoWatch,     \* the watch of a goroutine that stops none
          MaxUpdates   \* bound: updates sent to one watch, the nil apart

ASSUME NoWatchAssumption == NoWatch \notin Watches
ASSUME MaxUpdatesAssumption == MaxUpdates \in Nat
ASSUME CallersAssumption == Stoppers \intersect Closers = {}

VARIABLES
    open,       \* the session's connection is there
    caller,     \* caller[w]: where the WatchDesiredConfig call stands
    parentDone, \* parentDone[w]: the caller's context has ended
    canceled,   \* canceled[w]: watchCtx has ended
    updates,    \* updates[w]: the channel of the watcher
    sent,       \* sent[w]: updates sent so far
    caughtUp,   \* caughtUp[w]: the nil update has been sent
    closed,     \* closed[w]: the channel is closed
    consumer,   \* consumer[w]: where the consumer goroutine stands
    ready,      \* ready[w]: the ready channel is closed
    watches,    \* c.watches
    once,       \* once[w]: of the tracked StopFunc: fresh, running or done
    stopPc,     \* where each stopping or closing goroutine stands
    stopping,   \* stopping[p]: the watch it is stopping
    stopList    \* stopList[k]: those a Close still has to stop

wireVars   == <<updates, sent, caughtUp>>
watchVars  == <<caller, parentDone, canceled, closed, consumer, ready>>
clientVars == <<watches, once>>
stopVars   == <<stopPc, stopping, stopList>>
vars == <<open, wireVars, watchVars, clientVars, stopVars>>

Callers  == Stoppers \union Closers
Update   == {"good", "skipped", "nil"}
CallerPc == {"idle", "waiting", "join", "failed", "track", "held"}
Consumer == {"none", "select", "handler", "leaving", "closing", "done"}
StopPc   == {"idle", "blocked", "stop", "join", "next", "session"}

Init == /\ open = TRUE
        /\ caller = [w \in Watches |-> "idle"]
        /\ parentDone = [w \in Watches |-> FALSE]
        /\ canceled = [w \in Watches |-> FALSE]
        /\ updates = [w \in Watches |-> << >>]
        /\ sent = [w \in Watches |-> 0]
        /\ caughtUp = [w \in Watches |-> FALSE]
        /\ closed = [w \in Watches |-> FALSE]
        /\ consumer = [w \in Watches |-> "none"]
        /\ ready = [w \in Watches |-> FALSE]
        /\ watches = {}
        /\ once = [w \in Watches |-> "fresh"]
        /\ stopPc = [p \in Callers |-> "idle"]
        /\ stopping = [p \in Callers |-> NoWatch]
        /\ stopList = [k \in Closers |-> {}]

-----------------------------------------------------------------------------
(* WatchDesiredConfig.                                                     *)

CallerAt(w, pc) == caller' = [caller EXCEPT ![w] = pc]

\* The handle is there, the watcher starts, and so does its consumer.
WatchBegins(w) ==
    /\ caller[w] = "idle"
    /\ open
    /\ CallerAt(w, "waiting")
    /\ consumer' = [consumer EXCEPT ![w] = "select"]
    /\ UNCHANGED <<open, wireVars, parentDone, canceled, closed, ready,
                   clientVars, stopVars>>

SeesReady(w) ==
    /\ caller[w] = "waiting"
    /\ ready[w]
    /\ CallerAt(w, "track")
    /\ UNCHANGED <<open, wireVars, parentDone, canceled, closed, consumer,
                   ready, clientVars, stopVars>>

\* Mutant: a watch that did not become ready is left running.
WatchAbandoned(w) ==
    /\ caller[w] = "waiting"
    /\ CallerAt(w, "failed")
    /\ UNCHANGED <<open, wireVars, parentDone, canceled, closed, consumer,
                   ready, clientVars, stopVars>>

\* The consumer is done, or the time or the context is over: the watch is
\* canceled and the watcher stopped.
WatchGivesUp(w) ==
    /\ caller[w] = "waiting"
    /\ CallerAt(w, "join")
    /\ canceled' = [canceled EXCEPT ![w] = TRUE]
    /\ closed' = [closed EXCEPT ![w] = TRUE]
    /\ UNCHANGED <<open, wireVars, parentDone, consumer, ready, clientVars,
                   stopVars>>

WatchFails(w) ==
    /\ caller[w] = "join"
    /\ consumer[w] = "done"
    /\ CallerAt(w, "failed")
    /\ UNCHANGED <<open, wireVars, parentDone, canceled, closed, consumer,
                   ready, clientVars, stopVars>>

\* trackWatch, whatever has happened to the client meanwhile.
Tracks(w) ==
    /\ caller[w] = "track"
    /\ CallerAt(w, "held")
    /\ watches' = watches \union {w}
    /\ UNCHANGED <<open, wireVars, parentDone, canceled, closed, consumer,
                   ready, once, stopVars>>

ParentEnds(w) ==
    /\ caller[w] # "idle"
    /\ ~parentDone[w]
    /\ parentDone' = [parentDone EXCEPT ![w] = TRUE]
    /\ UNCHANGED <<open, wireVars, caller, canceled, closed, consumer, ready,
                   clientVars, stopVars>>

HelperCancels(w) ==
    /\ parentDone[w]
    /\ ~canceled[w]
    /\ canceled' = [canceled EXCEPT ![w] = TRUE]
    /\ UNCHANGED <<open, wireVars, caller, parentDone, closed, consumer, ready,
                   clientVars, stopVars>>

-----------------------------------------------------------------------------
(* consumeWatch.  When several cases of its select are ready it may take   *)
(* any of them; a closed channel yields what is left in it first.          *)

ConsumerAt(w, pc) == consumer' = [consumer EXCEPT ![w] = pc]

\* Mutant: a closed channel is not noticed.
LeavesWhenCanceled(w) == canceled[w]

MayLeave(w) == \/ canceled[w]
               \/ closed[w] /\ updates[w] = << >>

ConsumerLeaves(w) ==
    /\ consumer[w] = "select"
    /\ MayLeave(w)
    /\ ConsumerAt(w, "leaving")
    /\ UNCHANGED <<open, wireVars, caller, parentDone, canceled, closed, ready,
                   clientVars, stopVars>>

ConsumerTakes(w) ==
    /\ consumer[w] = "select"
    /\ updates[w] # << >>
    /\ updates' = [updates EXCEPT ![w] = Tail(@)]
    /\ LET u == Head(updates[w])
       IN  /\ ready' = [ready EXCEPT ![w] = @ \/ u = "nil"]
           /\ ConsumerAt(w, IF u = "good" THEN "handler" ELSE "select")
    /\ UNCHANGED <<open, sent, caughtUp, caller, parentDone, canceled, closed,
                   clientVars, stopVars>>

HandlerReturns(w) ==
    /\ consumer[w] = "handler"
    /\ ConsumerAt(w, "select")
    /\ UNCHANGED <<open, wireVars, caller, parentDone, canceled, closed, ready,
                   clientVars, stopVars>>

\* The deferred calls: ready is closed before done.
ConsumerMarksReady(w) ==
    /\ consumer[w] = "leaving"
    /\ ConsumerAt(w, "closing")
    /\ ready' = [ready EXCEPT ![w] = TRUE]
    /\ UNCHANGED <<open, wireVars, caller, parentDone, canceled, closed,
                   clientVars, stopVars>>

ConsumerEnds(w) ==
    /\ consumer[w] = "closing"
    /\ ConsumerAt(w, "done")
    /\ UNCHANGED <<open, wireVars, caller, parentDone, canceled, closed, ready,
                   clientVars, stopVars>>

-----------------------------------------------------------------------------
(* The StopFunc that trackWatch returns.                                   *)

StopAt(p, pc, w) == /\ stopPc' = [stopPc EXCEPT ![p] = pc]
                    /\ stopping' = [stopping EXCEPT ![p] = w]

\* once.Do, and the entry is taken from c.watches.  If Close has it, that is
\* all.
StopTakes(s, w) ==
    /\ stopPc[s] = "idle"
    /\ caller[w] = "held"
    /\ once[w] = "fresh"
    /\ watches' = watches \ {w}
    /\ \/ /\ w \in watches
          /\ once' = [once EXCEPT ![w] = "running"]
          /\ StopAt(s, "stop", w)
       \/ /\ w \notin watches
          /\ once' = [once EXCEPT ![w] = "done"]
          /\ UNCHANGED <<stopPc, stopping>>
    /\ UNCHANGED <<open, wireVars, watchVars, stopList>>

\* A second call waits for the first.
StopBlocks(s, w) ==
    /\ stopPc[s] = "idle"
    /\ once[w] = "running"
    /\ StopAt(s, "blocked", w)
    /\ UNCHANGED <<open, wireVars, watchVars, clientVars, stopList>>

StopUnblocks(s) ==
    /\ stopPc[s] = "blocked"
    /\ once[stopping[s]] = "done"
    /\ StopAt(s, "idle", NoWatch)
    /\ UNCHANGED <<open, wireVars, watchVars, clientVars, stopList>>

\* Mutant: done is awaited first.
JoinsFirst(p) ==
    /\ stopPc[p] = "stop"
    /\ StopAt(p, "join", stopping[p])
    /\ UNCHANGED <<open, wireVars, watchVars, clientVars, stopList>>

\* The store's stop function: the watch is canceled, the watcher stopped ...
StopsWatch(p) ==
    /\ stopPc[p] = "stop"
    /\ canceled' = [canceled EXCEPT ![stopping[p]] = TRUE]
    /\ closed' = [closed EXCEPT ![stopping[p]] = TRUE]
    /\ StopAt(p, "join", stopping[p])
    /\ UNCHANGED <<open, wireVars, caller, parentDone, consumer, ready,
                   clientVars, stopList>>

\* Mutant: the stop function does not wait.
Unjoined(p) == TRUE

\* ... and its consumer awaited.
Joined(p) == consumer[stopping[p]] = "done"

StopReturns(s) ==
    /\ s \in Stoppers
    /\ stopPc[s] = "join"
    /\ Joined(s)
    /\ once' = [once EXCEPT ![stopping[s]] = "done"]
    /\ StopAt(s, "idle", NoWatch)
    /\ UNCHANGED <<open, wireVars, watchVars, watches, stopList>>

-----------------------------------------------------------------------------
(* Close: stopAllWatches, then the session.                                *)

\* Mutant: the map is not emptied.
CloseLists(k) ==
    /\ stopPc[k] = "idle"
    /\ stopList' = [stopList EXCEPT ![k] = watches]
    /\ StopAt(k, "next", NoWatch)
    /\ UNCHANGED <<open, wireVars, watchVars, clientVars>>

CloseTakes(k) ==
    /\ stopPc[k] = "idle"
    /\ stopList' = [stopList EXCEPT ![k] = watches]
    /\ watches' = {}
    /\ StopAt(k, "next", NoWatch)
    /\ UNCHANGED <<open, wireVars, watchVars, once>>

CloseNext(k) ==
    /\ stopPc[k] = "next"
    /\ \/ \E w \in stopList[k] :
            /\ stopList' = [stopList EXCEPT ![k] = @ \ {w}]
            /\ StopAt(k, "stop", w)
       \/ /\ stopList[k] = {}
          /\ StopAt(k, "session", NoWatch)
          /\ UNCHANGED stopList
    /\ UNCHANGED <<open, wireVars, watchVars, clientVars>>

CloseJoins(k) ==
    /\ k \in Closers
    /\ stopPc[k] = "join"
    /\ Joined(k)
    /\ StopAt(k, "next", NoWatch)
    /\ UNCHANGED <<open, wireVars, watchVars, clientVars, stopList>>

\* The channels of the watchers on a connection are closed with it.
Disconnects == /\ open' = FALSE
               /\ closed' = [w \in Watches |-> closed[w] \/ caller[w] # "idle"]

\* A Close that another one has overtaken in session.Close returns at once.
ClosesSession(k) ==
    /\ stopPc[k] = "session"
    /\ \/ Disconnects
       \/ /\ \E j \in Closers \ {k} : stopPc[j] = "session"
          /\ UNCHANGED <<open, closed>>
    /\ StopAt(k, "idle", NoWatch)
    /\ UNCHANGED <<wireVars, caller, parentDone, canceled, consumer, ready,
                   clientVars, stopList>>

-----------------------------------------------------------------------------
(* JetStream, on the other side of the channels.                           *)

Sends(w, u) ==
    /\ caller[w] # "idle"
    /\ ~closed[w]
    /\ updates' = [updates EXCEPT ![w] = Append(@, u)]
    /\ \/ /\ u # "nil"
          /\ sent[w] < MaxUpdates
          /\ sent' = [sent EXCEPT ![w] = @ + 1]
          /\ UNCHANGED caughtUp
       \/ /\ u = "nil"
          /\ ~caughtUp[w]
          /\ caughtUp' = [caughtUp EXCEPT ![w] = TRUE]
          /\ UNCHANGED sent
    /\ UNCHANGED <<open, watchVars, clientVars, stopVars>>

\* The link is lost for good.
ConnectionLost ==
    /\ open
    /\ Disconnects
    /\ UNCHANGED <<wireVars, caller, parentDone, canceled, consumer, ready,
                   clientVars, stopVars>>

-----------------------------------------------------------------------------

CallerProgress(w) == \/ SeesReady(w)
                     \/ WatchGivesUp(w)
                     \/ WatchFails(w)
                     \/ Tracks(w)

ConsumerStep(w) == \/ ConsumerLeaves(w)
                   \/ ConsumerTakes(w)
                   \/ HandlerReturns(w)
                   \/ ConsumerMarksReady(w)
                   \/ ConsumerEnds(w)

StopProgress(p) == \/ StopUnblocks(p)
                   \/ StopsWatch(p)
                   \/ StopReturns(p)

CloseProgress(k) == \/ CloseNext(k)
                    \/ StopsWatch(k)
                    \/ CloseJoins(k)
                    \/ ClosesSession(k)

Next == \/ \E w \in Watches : \/ WatchBegins(w)
                              \/ CallerProgress(w)
                              \/ ParentEnds(w)
                              \/ HelperCancels(w)
                              \/ ConsumerStep(w)
                              \/ \E u \in Update : Sends(w, u)
        \/ \E s \in Stoppers : \/ \E w \in Watches : \/ StopTakes(s, w)
                                                     \/ StopBlocks(s, w)
                               \/ StopProgress(s)
        \/ \E k \in Closers : CloseTakes(k) \/ CloseProgress(k)
        \/ ConnectionLost

Spec == Init /\ [][Next]_vars

(***************************************************************************)
(* Every goroutine that is not blocked runs on, and the handlers return.   *)
(* Nothing is assumed of JetStream, of the callers' contexts, or of who    *)
(* calls Stop or Close and when; a wait for ready ends with its timeout.   *)
(***************************************************************************)
Fairness == /\ \A w \in Watches : /\ WF_vars(CallerProgress(w))
                                  /\ WF_vars(HelperCancels(w))
                                  /\ WF_vars(ConsumerStep(w))
            /\ \A s \in Stoppers : WF_vars(StopProgress(s))
            /\ \A k \in Closers : WF_vars(CloseProgress(k))

FairSpec == Spec /\ Fairness

-----------------------------------------------------------------------------
(* Properties.                                                             *)

\* Every variable holds a value of its kind.
WatchTypeOK ==
    /\ open \in BOOLEAN
    /\ caller \in [Watches -> CallerPc]
    /\ parentDone \in [Watches -> BOOLEAN]
    /\ canceled \in [Watches -> BOOLEAN]
    /\ updates \in [Watches -> Seq(Update)]
    /\ sent \in [Watches -> 0..MaxUpdates]
    /\ caughtUp \in [Watches -> BOOLEAN]
    /\ closed \in [Watches -> BOOLEAN]
    /\ consumer \in [Watches -> Consumer]
    /\ ready \in [Watches -> BOOLEAN]
    /\ watches \subseteq Watches
    /\ once \in [Watches -> {"fresh", "running", "done"}]
    /\ stopPc \in [Callers -> StopPc]
    /\ stopping \in [Callers -> Watches \union {NoWatch}]
    /\ stopList \in [Closers -> SUBSET Watches]

Running(w) == consumer[w] \notin {"none", "done"}

\* Goroutine p has taken watch w from c.watches and has yet to see it end.
Stops(p, w) == \/ stopping[p] = w /\ stopPc[p] \in {"stop", "join"}
               \/ p \in Closers /\ w \in stopList[p]

\* A consumer that nothing has told to end can still be told: its caller has
\* not returned, or the client tracks it, or someone is about to stop it.
NoStrayConsumer == \A w \in Watches :
    Running(w) /\ ~canceled[w] /\ ~closed[w] =>
        \/ caller[w] \in {"waiting", "track"}
        \/ w \in watches
        \/ \E p \in Callers : Stops(p, w)

\* However StopFuncs and Closes race, one goroutine takes each watch to stop
\* it, and the client tracks it no longer then.
StoppedByOne == \A w \in Watches :
    /\ Cardinality({p \in Callers : Stops(p, w)}) <= 1
    /\ w \in watches => \A p \in Callers : ~Stops(p, w)

\* A StopFunc that has returned leaves no handler running, unless a Close has
\* the watch: then it returns at once and the Close waits.
StopIsFinal == \A w \in Watches :
    once[w] = "done" => ~Running(w) \/ \E k \in Closers : Stops(k, w)

\* A WatchDesiredConfig call that waited, a StopFunc and a Close all return:
\* nobody waits for a done channel that is never closed.
WatchCallsReturn ==
    /\ \A w \in Watches : caller[w] = "waiting" ~> caller[w] \in {"failed", "held"}
    /\ \A p \in Callers : stopPc[p] # "idle" ~> stopPc[p] = "idle"

\* The consumers on a connection end with it, those of a WatchDesiredConfig
\* call that Close did not see included.
WatchesEndWithConnection ==
    \A w \in Watches : ~open ~> ~Running(w)
=============================================================================
