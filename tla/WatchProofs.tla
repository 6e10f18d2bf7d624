----------------------------- MODULE WatchProofs -----------------------------
(* Theorems of Watch: its safety properties for any number of watches,     *)
(* StopFunc callers, Closes and updates.                                   *)
EXTENDS Watch, FiniteSetTheorems, TLAPS

\* How far the call that makes a watch has come says what its consumer does and
\* whether anybody can stop it.
Stages ==
    /\ \A w \in Watches : caller[w] = "idle" <=> consumer[w] = "none"
    /\ \A w \in Watches : caller[w] = "join" => canceled[w]
    /\ \A w \in Watches : caller[w] = "failed" => consumer[w] = "done"
    /\ \A w \in watches : caller[w] = "held" /\ once[w] = "fresh"
    /\ \A w \in Watches : once[w] # "fresh" => caller[w] = "held"

\* A Close that does not stop watches has none left to stop.
Emptied == \A k \in Closers : stopPc[k] \in {"idle", "session"} => stopList[k] = {}

\* A watch is tracked or being stopped, not both, and it is being stopped by one
\* goroutine; if that is a StopFunc, its once is running.
Owned ==
    /\ \A p \in Callers, w \in Watches :
          Stops(p, w) => /\ caller[w] = "held" /\ w \notin watches
                         /\ p \in Stoppers => once[w] = "running"
    /\ \A p, q \in Callers, w \in Watches : Stops(p, w) /\ Stops(q, w) => p = q

\* Who lets go of a watch has seen its consumer end.
Released ==
    \A w \in Watches :
        caller[w] = "held" /\ w \notin watches /\ (\A p \in Callers : ~Stops(p, w))
            => consumer[w] = "done"

\* The inductive invariant.
WatchInv == WatchTypeOK /\ Stages /\ Emptied /\ Owned /\ Released

\* A step that leaves every watch with the same owner keeps the invariant, if it
\* neither revives a consumer nor takes back a cancel.
LEMMA QuietStep ==
    ASSUME WatchInv, WatchTypeOK', Emptied',
           UNCHANGED <<caller, clientVars>>,
           \A p \in Callers, w \in Watches : Stops(p, w)' <=> Stops(p, w),
           \A w \in Watches : /\ consumer[w] = "done" => consumer'[w] = "done"
                              /\ consumer[w] = "none" <=> consumer'[w] = "none"
                              /\ canceled[w] => canceled'[w]
    PROVE  WatchInv'
<1>1. Stages'
  BY DEF WatchInv, Stages, WatchTypeOK, clientVars
<1>2. Owned'
  BY DEF WatchInv, Owned, clientVars
<1>3. Released'
  BY DEF WatchInv, Released, clientVars
<1> QED BY <1>1, <1>2, <1>3 DEF WatchInv

\* So does all that a consumer, JetStream or a context does.
LEMMA BackgroundStep ==
    ASSUME WatchInv, WatchTypeOK',
           UNCHANGED <<caller, clientVars, stopVars>>,
           \A w \in Watches : /\ consumer[w] = "done" => consumer'[w] = "done"
                              /\ consumer[w] = "none" <=> consumer'[w] = "none"
                              /\ canceled[w] => canceled'[w]
    PROVE  WatchInv'
<1>1. \A p, w : Stops(p, w)' <=> Stops(p, w)
  BY DEF Stops, stopVars
<1>2. Emptied'
  BY DEF WatchInv, Emptied, stopVars
<1> QED BY <1>1, <1>2, QuietStep

\* A step of the caller, but for the last, is about a watch nobody stops.
LEMMA CallerStep ==
    ASSUME WatchInv, NEW w \in Watches, WatchBegins(w) \/ CallerProgress(w)
    PROVE  WatchInv'
<1> USE DEF WatchInv
<1>0. \A p, v : Stops(p, v)' <=> Stops(p, v)
  BY DEF Stops, stopVars, WatchBegins, CallerProgress, SeesReady, WatchGivesUp,
         WatchFails, Tracks
<1>1. WatchTypeOK'
  BY DEF WatchTypeOK, WatchBegins, CallerProgress, SeesReady, WatchGivesUp,
         WatchFails, Tracks, CallerAt, CallerPc, Consumer, wireVars, clientVars,
         stopVars
<1>2. Emptied'
  BY DEF Emptied, stopVars, WatchBegins, CallerProgress, SeesReady, WatchGivesUp,
         WatchFails, Tracks
<1>3. \A p \in Callers : ~Stops(p, w)
  BY DEF Owned, WatchBegins, CallerProgress, SeesReady, WatchGivesUp, WatchFails,
         Tracks
<1>4. caller[w] # "held" /\ w \notin watches /\ once[w] = "fresh"
  BY DEF Stages, WatchBegins, CallerProgress, SeesReady, WatchGivesUp, WatchFails,
         Tracks
<1>5. CASE WatchBegins(w)
  <2>1. Stages'
    BY <1>4, <1>5 DEF Stages, WatchBegins, CallerAt, WatchTypeOK, clientVars
  <2>2. Owned' /\ Released'
    BY <1>0, <1>3, <1>4, <1>5
       DEF Owned, Released, WatchBegins, CallerAt, WatchTypeOK, clientVars
  <2> QED BY <1>1, <1>2, <2>1, <2>2
<1>6. CASE SeesReady(w) \/ WatchGivesUp(w) \/ WatchFails(w)
  <2>1. Stages'
    BY <1>4, <1>6 DEF Stages, SeesReady, WatchGivesUp, WatchFails, CallerAt,
                      WatchTypeOK, clientVars
  <2>2. Owned' /\ Released'
    BY <1>0, <1>3, <1>4, <1>6
       DEF Owned, Released, SeesReady, WatchGivesUp, WatchFails, CallerAt,
           WatchTypeOK, clientVars
  <2> QED BY <1>1, <1>2, <2>1, <2>2
<1>7. CASE Tracks(w)
  <2>1. Stages'
    BY <1>4, <1>7 DEF Stages, Tracks, CallerAt, WatchTypeOK
  <2>2. Owned' /\ Released'
    BY <1>0, <1>3, <1>4, <1>7 DEF Owned, Released, Tracks, CallerAt, WatchTypeOK
  <2> QED BY <1>1, <1>2, <2>1, <2>2
<1> QED BY <1>5, <1>6, <1>7 DEF CallerProgress

\* The steps of contexts, of the consumer and of JetStream.
LEMMA ConsumingStep ==
    ASSUME WatchInv, NEW w \in Watches,
           \/ ParentEnds(w) \/ HelperCancels(w) \/ ConsumerStep(w)
           \/ \E u \in Update : Sends(w, u)
    PROVE  WatchInv'
<1> USE DEF WatchInv
<1>1. CASE ParentEnds(w) \/ HelperCancels(w)
  <2>1. WatchTypeOK'
    BY <1>1 DEF WatchTypeOK, ParentEnds, HelperCancels, wireVars, clientVars, stopVars
  <2> QED BY <1>1, <2>1, BackgroundStep
          DEF ParentEnds, HelperCancels, WatchTypeOK
<1>2. CASE ConsumerLeaves(w) \/ HandlerReturns(w) \/ ConsumerMarksReady(w)
           \/ ConsumerEnds(w)
  <2>1. WatchTypeOK'
    BY <1>2 DEF WatchTypeOK, ConsumerLeaves, HandlerReturns, ConsumerMarksReady,
                ConsumerEnds, ConsumerAt, Consumer, wireVars, clientVars, stopVars
  <2> QED BY <1>2, <2>1, BackgroundStep
          DEF ConsumerLeaves, HandlerReturns, ConsumerMarksReady, ConsumerEnds,
              ConsumerAt, WatchTypeOK
<1>3. CASE ConsumerTakes(w)
  <2>1. updates[w] \in Seq(Update) /\ updates[w] # << >>
    BY <1>3 DEF WatchTypeOK, ConsumerTakes
  <2>2. Tail(updates[w]) \in Seq(Update)
    BY <2>1
  <2>3. WatchTypeOK'
    BY <1>3, <2>2 DEF WatchTypeOK, ConsumerTakes, ConsumerAt, Consumer, clientVars,
                      stopVars
  <2> QED BY <1>3, <2>3, BackgroundStep DEF ConsumerTakes, ConsumerAt, WatchTypeOK
<1>4. ASSUME NEW u \in Update, Sends(w, u)
      PROVE  WatchInv'
  <2>1. updates' \in [Watches -> Seq(Update)]
    <3>1. Append(updates[w], u) \in Seq(Update)
      BY DEF WatchTypeOK
    <3> QED BY <1>4, <3>1 DEF WatchTypeOK, Sends
  <2>2. sent' \in [Watches -> 0..MaxUpdates]
    <3>1. sent[w] < MaxUpdates => sent[w] + 1 \in 0..MaxUpdates
      BY MaxUpdatesAssumption DEF WatchTypeOK
    <3>2. sent' = sent \/ (sent[w] < MaxUpdates /\ sent' = [sent EXCEPT ![w] = sent[w] + 1])
      BY <1>4 DEF Sends
    <3> QED BY <3>1, <3>2 DEF WatchTypeOK
  <2>3. WatchTypeOK'
    <3>1. caughtUp' \in [Watches -> BOOLEAN]
      BY <1>4 DEF WatchTypeOK, Sends
    <3>2. UNCHANGED <<open, caller, parentDone, canceled, closed, consumer, ready,
                      watches, once, stopPc, stopping, stopList>>
      BY <1>4 DEF Sends, watchVars, clientVars, stopVars
    <3> QED BY <2>1, <2>2, <3>1, <3>2 DEF WatchTypeOK
  <2> QED BY <1>4, <2>3, BackgroundStep DEF Sends, watchVars
<1> QED BY <1>1, <1>2, <1>3, <1>4 DEF ConsumerStep

\* The store's stop function, whoever runs it: the watch keeps its owner.
LEMMA StopsWatchStep ==
    ASSUME WatchInv, NEW p \in Callers, StopsWatch(p)
    PROVE  WatchInv'
<1> USE DEF WatchInv
<1>1. WatchTypeOK'
  BY DEF WatchTypeOK, StopsWatch, StopAt, StopPc, wireVars, clientVars
<1>2. Emptied'
  BY DEF Emptied, WatchTypeOK, StopsWatch, StopAt
<1>3. \A q \in Callers, w \in Watches : Stops(q, w)' <=> Stops(q, w)
  BY DEF WatchTypeOK, StopsWatch, StopAt, Stops
<1> QED BY <1>1, <1>2, <1>3, QuietStep DEF StopsWatch, WatchTypeOK

\* A StopFunc takes its watch, or waits for the one that has.
LEMMA StopFuncBegins ==
    ASSUME WatchInv, NEW s \in Stoppers, NEW w \in Watches,
           StopTakes(s, w) \/ StopBlocks(s, w)
    PROVE  WatchInv'
<1> USE DEF WatchInv
<1>0. s \in Callers /\ s \notin Closers
  BY CallersAssumption DEF Callers
<1>1. Emptied'
  BY <1>0 DEF Emptied, WatchTypeOK, StopTakes, StopBlocks, StopAt, Callers
<1>2. CASE StopTakes(s, w) /\ w \in watches
  <2>1. WatchTypeOK'
    <3>1. UNCHANGED <<open, wireVars, watchVars, stopList>> /\ watches' \subseteq Watches
      BY <1>2 DEF StopTakes, WatchTypeOK
    <3>2. once' \in [Watches -> {"fresh", "running", "done"}]
      BY <1>2 DEF StopTakes, WatchTypeOK
    <3>3. /\ stopPc' \in [Callers -> StopPc]
          /\ stopping' \in [Callers -> Watches \union {NoWatch}]
      <4>1. StopAt(s, "stop", w)
        BY <1>2 DEF StopTakes
      <4> QED BY <1>0, <4>1 DEF StopAt, StopPc, WatchTypeOK
    <3> QED BY <3>1, <3>2, <3>3 DEF WatchTypeOK, wireVars, watchVars
  <2>2. \A v \in Watches : Stops(s, v)' <=> v = w
    BY <1>0, <1>2 DEF WatchTypeOK, StopTakes, StopAt, Stops
  <2>3. \A q \in Callers \ {s}, v \in Watches : Stops(q, v)' <=> Stops(q, v)
    BY <1>0, <1>2 DEF WatchTypeOK, StopTakes, StopAt, Stops
  <2>4. \A q \in Callers : ~Stops(q, w)
    BY <1>2 DEF Owned
  <2>5. Stages'
    BY <1>2 DEF Stages, WatchTypeOK, StopTakes, watchVars
  <2>6. Owned'
    <3>1. \A q \in Callers, v \in Watches :
             Stops(q, v)' => /\ caller'[v] = "held" /\ v \notin watches'
                             /\ q \in Stoppers => once'[v] = "running"
      <4>1. UNCHANGED caller /\ watches' = watches \ {w}
        BY <1>2 DEF StopTakes, watchVars
      <4>2. once'[w] = "running" /\ \A v \in Watches \ {w} : once'[v] = once[v]
        BY <1>2 DEF StopTakes, WatchTypeOK
      <4>3. caller[w] = "held"
        BY <1>2 DEF StopTakes
      <4> QED BY <2>2, <2>3, <2>4, <4>1, <4>2, <4>3 DEF Owned
    <3>2. \A p, q \in Callers, v \in Watches : Stops(p, v)' /\ Stops(q, v)' => p = q
      BY <2>2, <2>3, <2>4 DEF Owned
    <3> QED BY <3>1, <3>2 DEF Owned
  <2>7. Released'
    <3>1. UNCHANGED <<caller, consumer>> /\ watches' = watches \ {w}
      BY <1>2 DEF StopTakes, watchVars
    <3>2. \A v \in Watches : ~Stops(s, v)
      BY <1>0, <1>2 DEF StopTakes, Stops
    <3> QED BY <1>0, <2>2, <2>3, <3>1, <3>2 DEF Released
  <2> QED BY <1>1, <2>1, <2>5, <2>6, <2>7
<1>3. CASE StopTakes(s, w) /\ w \notin watches
  <2>1. WatchTypeOK'
    BY <1>3 DEF WatchTypeOK, StopTakes, wireVars, watchVars
  <2>2. UNCHANGED <<caller, consumer, canceled, watches, stopPc, stopping, stopList>>
    BY <1>3 DEF StopTakes, watchVars
  <2>3. \A q, v : Stops(q, v)' <=> Stops(q, v)
    BY <2>2 DEF Stops
  <2>4. \A q \in Stoppers : ~Stops(q, w)
    BY <1>3 DEF Owned, StopTakes, Callers
  <2>5. Stages'
    BY <1>3, <2>2 DEF Stages, WatchTypeOK, StopTakes
  <2>6. Owned'
    BY <1>3, <2>2, <2>3, <2>4 DEF Owned, WatchTypeOK, StopTakes
  <2>7. Released'
    BY <2>2, <2>3 DEF Released
  <2> QED BY <1>1, <2>1, <2>5, <2>6, <2>7
<1>4. CASE StopBlocks(s, w)
  <2>1. WatchTypeOK'
    BY <1>0, <1>4 DEF WatchTypeOK, StopBlocks, StopAt, StopPc, wireVars, watchVars,
                      clientVars
  <2>2. \A q \in Callers, v \in Watches : Stops(q, v)' <=> Stops(q, v)
    BY <1>0, <1>4 DEF WatchTypeOK, StopBlocks, StopAt, Stops
  <2> QED BY <1>1, <1>4, <2>1, <2>2, QuietStep DEF StopBlocks, watchVars
<1> QED BY <1>2, <1>3, <1>4 DEF StopTakes

\* Who waited at once for another's stop goes on when that has ended.
LEMMA UnblocksStep ==
    ASSUME WatchInv, NEW s \in Stoppers, StopUnblocks(s)
    PROVE  WatchInv'
<1> USE DEF WatchInv
<1>0. s \in Callers /\ s \notin Closers
  BY CallersAssumption DEF Callers
<1>1. WatchTypeOK'
  BY <1>0 DEF WatchTypeOK, StopUnblocks, StopAt, StopPc, wireVars, watchVars, clientVars
<1>2. Emptied'
  BY <1>0 DEF Emptied, WatchTypeOK, StopUnblocks, StopAt
<1>3. \A q \in Callers, v \in Watches : Stops(q, v)' <=> Stops(q, v)
  BY <1>0 DEF WatchTypeOK, StopUnblocks, StopAt, Stops
<1> QED BY <1>1, <1>2, <1>3, QuietStep DEF StopUnblocks, watchVars

\* A StopFunc returns when the consumer of its watch has ended.
LEMMA StopFuncReturns ==
    ASSUME WatchInv, NEW s \in Stoppers, StopReturns(s)
    PROVE  WatchInv'
<1> USE DEF WatchInv
<1>0. s \in Callers /\ s \notin Closers
  BY CallersAssumption DEF Callers
<1>1. WatchTypeOK'
  BY <1>0 DEF WatchTypeOK, StopReturns, StopAt, StopPc, wireVars, watchVars
<1>2. Emptied'
  BY <1>0 DEF Emptied, WatchTypeOK, StopReturns, StopAt
<1>3. \A v \in Watches : ~Stops(s, v)'
  BY <1>0, NoWatchAssumption DEF WatchTypeOK, StopReturns, StopAt, Stops
<1>4. \A q \in Callers \ {s}, v \in Watches : Stops(q, v)' <=> Stops(q, v)
  BY <1>0 DEF WatchTypeOK, StopReturns, StopAt, Stops
<1>5. \A v \in Watches : Stops(s, v) => v = stopping[s] /\ consumer[v] = "done"
  BY <1>0 DEF StopReturns, Stops, Joined
<1>6. stopping[s] \in Watches => Stops(s, stopping[s])
  BY DEF StopReturns, Stops
<1>7. Stages'
  BY <1>0, <1>6 DEF Stages, Owned, WatchTypeOK, StopReturns, watchVars
<1>8. Owned'
  <2>1. UNCHANGED <<caller, watches>>
    BY DEF StopReturns, watchVars
  <2>2. \A v \in Watches : once'[v] = once[v] \/ Stops(s, v)
    BY <1>6 DEF StopReturns, WatchTypeOK
  <2>3. ASSUME NEW q \in Callers, NEW v \in Watches, Stops(q, v)'
        PROVE  q # s /\ Stops(q, v) /\ once'[v] = once[v]
    BY <1>0, <1>3, <1>4, <2>2, <2>3 DEF Owned
  <2> QED BY <2>1, <2>3 DEF Owned
<1>9. Released'
  BY <1>3, <1>4, <1>5 DEF Released, StopReturns, watchVars
<1> QED BY <1>1, <1>2, <1>7, <1>8, <1>9

\* A Close takes all the watches and stops them one by one.
LEMMA CloseStep ==
    ASSUME WatchInv, NEW k \in Closers,
           CloseTakes(k) \/ CloseNext(k) \/ CloseJoins(k) \/ ClosesSession(k)
    PROVE  WatchInv'
<1> USE DEF WatchInv
<1>0. k \in Callers /\ k \notin Stoppers
  BY CallersAssumption DEF Callers
<1>1. WatchTypeOK'
  <2>1. UNCHANGED <<wireVars, caller, parentDone, canceled, consumer, ready, once>>
    BY DEF CloseTakes, CloseNext, CloseJoins, ClosesSession, watchVars, clientVars
  <2>2. open' \in BOOLEAN /\ closed' \in [Watches -> BOOLEAN] /\ watches' \subseteq Watches
    BY DEF WatchTypeOK, CloseTakes, CloseNext, CloseJoins, ClosesSession,
           Disconnects, watchVars, clientVars
  <2>3. stopPc' \in [Callers -> StopPc]
    BY <1>0 DEF WatchTypeOK, CloseTakes, CloseNext, CloseJoins, ClosesSession,
                StopAt, StopPc
  <2>4. /\ stopping' \in [Callers -> Watches \union {NoWatch}]
        /\ stopList' \in [Closers -> SUBSET Watches]
    <3>0. /\ stopList \in [Closers -> SUBSET Watches] /\ watches \subseteq Watches
          /\ stopping \in [Callers -> Watches \union {NoWatch}]
      BY DEF WatchTypeOK
    <3> HIDE DEF WatchInv
    <3>1. CASE CloseTakes(k)
      BY <1>0, <3>0, <3>1 DEF CloseTakes, StopAt
    <3>2. CASE CloseNext(k)
      BY <1>0, <3>0, <3>2 DEF CloseNext, StopAt
    <3>3. CASE CloseJoins(k) \/ ClosesSession(k)
      BY <1>0, <3>0, <3>3 DEF CloseJoins, ClosesSession, StopAt
    <3> QED BY <3>1, <3>2, <3>3
  <2> QED BY <2>1, <2>2, <2>3, <2>4 DEF WatchTypeOK, wireVars
<1>2. Emptied'
  <2>1. CASE CloseNext(k)
    BY <1>0, <2>1 DEF Emptied, WatchTypeOK, CloseNext, StopAt, Callers
  <2>2. CASE CloseTakes(k) \/ CloseJoins(k)
    BY <1>0, <2>2 DEF Emptied, WatchTypeOK, CloseTakes, CloseJoins, StopAt, Callers
  <2>3. CASE ClosesSession(k)
    BY <1>0, <2>3 DEF Emptied, WatchTypeOK, ClosesSession, StopAt, Callers
  <2> QED BY <2>1, <2>2, <2>3
<1>3. \A q \in Callers \ {k}, v \in Watches : Stops(q, v)' <=> Stops(q, v)
  BY <1>0 DEF WatchTypeOK, CloseTakes, CloseNext, CloseJoins, ClosesSession,
              StopAt, Stops
<1>4. CASE CloseTakes(k)
  <2>1. \A v \in Watches : ~Stops(k, v)
    BY <1>0, <1>4 DEF CloseTakes, Stops, Emptied
  <2>2. \A v \in Watches : Stops(k, v)' <=> v \in watches
    BY <1>0, <1>4, NoWatchAssumption DEF WatchTypeOK, CloseTakes, StopAt, Stops
  <2>3. Stages'
    BY <1>4 DEF Stages, CloseTakes, watchVars
  <2>4. Owned'
    BY <1>0, <1>3, <1>4, <2>1, <2>2 DEF Owned, Stages, CloseTakes, watchVars
  <2>5. Released'
    BY <1>0, <1>3, <1>4, <2>1, <2>2 DEF Released, CloseTakes, watchVars
  <2> QED BY <1>1, <1>2, <2>3, <2>4, <2>5
<1>5. CASE CloseNext(k)
  <2>1. \A v \in Watches : Stops(k, v)' <=> Stops(k, v)
    BY <1>0, <1>5, NoWatchAssumption DEF WatchTypeOK, CloseNext, StopAt, Stops
  <2> QED BY <1>1, <1>2, <1>3, <1>5, <2>1, QuietStep DEF CloseNext, watchVars
<1>6. CASE CloseJoins(k)
  <2>1. \A v \in Watches : Stops(k, v)' <=> v \in stopList[k]
    BY <1>0, <1>6, NoWatchAssumption DEF WatchTypeOK, CloseJoins, StopAt, Stops
  <2>2. \A v \in Watches : Stops(k, v) /\ ~Stops(k, v)' => consumer[v] = "done"
    BY <1>0, <1>6, <2>1 DEF CloseJoins, Joined, Stops
  <2>3. \A v \in Watches : Stops(k, v)' => Stops(k, v)
    BY <2>1 DEF Stops
  <2>4. UNCHANGED <<caller, consumer, canceled, watches, once>>
    BY <1>6 DEF CloseJoins, watchVars, clientVars
  <2>5. Stages'
    BY <2>4 DEF Stages
  <2>6. Owned'
    BY <1>0, <1>3, <2>3, <2>4 DEF Owned
  <2>7. Released'
    BY <1>0, <1>3, <2>2, <2>4 DEF Released
  <2> QED BY <1>1, <1>2, <2>5, <2>6, <2>7
<1>7. CASE ClosesSession(k)
  <2>1. \A v \in Watches : Stops(k, v)' <=> Stops(k, v)
    BY <1>0, <1>7, NoWatchAssumption DEF WatchTypeOK, ClosesSession, StopAt, Stops
  <2> QED BY <1>1, <1>2, <1>3, <1>7, <2>1, QuietStep DEF ClosesSession
<1> QED BY <1>4, <1>5, <1>6, <1>7

\* WatchInv is inductive.
LEMMA WatchStep == WatchInv /\ [Next]_vars => WatchInv'
<1> SUFFICES ASSUME WatchInv, [Next]_vars
             PROVE  WatchInv'
  OBVIOUS
<1>1. ASSUME NEW w \in Watches,
             \/ WatchBegins(w) \/ CallerProgress(w) \/ ParentEnds(w)
             \/ HelperCancels(w) \/ ConsumerStep(w) \/ \E u \in Update : Sends(w, u)
      PROVE  WatchInv'
  BY <1>1, CallerStep, ConsumingStep
<1>2. ASSUME NEW s \in Stoppers,
             \/ \E w \in Watches : StopTakes(s, w) \/ StopBlocks(s, w)
             \/ StopReturns(s)
      PROVE  WatchInv'
  BY <1>2, StopFuncBegins, StopFuncReturns
<1>3. ASSUME NEW s \in Stoppers, StopUnblocks(s)
      PROVE  WatchInv'
  BY <1>3, UnblocksStep
<1>4. ASSUME NEW p \in Callers, StopsWatch(p)
      PROVE  WatchInv'
  BY <1>4, StopsWatchStep
<1>5. ASSUME NEW k \in Closers,
             CloseTakes(k) \/ CloseNext(k) \/ CloseJoins(k) \/ ClosesSession(k)
      PROVE  WatchInv'
  BY <1>5, CloseStep
<1>6. CASE ConnectionLost
  <2>1. WatchTypeOK'
    BY <1>6 DEF WatchInv, WatchTypeOK, ConnectionLost, Disconnects, wireVars,
                clientVars, stopVars
  <2> QED BY <1>6, <2>1, BackgroundStep DEF ConnectionLost
<1>7. CASE UNCHANGED vars
  <2>1. WatchTypeOK'
    BY <1>7 DEF WatchInv, WatchTypeOK, vars, wireVars, watchVars, clientVars, stopVars
  <2> QED BY <1>7, <2>1, BackgroundStep DEF vars, watchVars
<1> QED BY <1>1, <1>2, <1>3, <1>4, <1>5, <1>6, <1>7
        DEF Next, StopProgress, CloseProgress, Callers

\* It holds before any call.
LEMMA WatchBegun == Init => WatchInv
<1> SUFFICES ASSUME Init PROVE WatchInv
  OBVIOUS
<1>1. WatchTypeOK
  BY MaxUpdatesAssumption DEF Init, WatchTypeOK, CallerPc, Consumer, StopPc
<1>2. \A p \in Callers, w \in Watches : ~Stops(p, w)
  BY DEF Init, Stops
<1> QED BY <1>1, <1>2 DEF Init, WatchInv, Stages, Emptied, Owned, Released

\* It holds always.
LEMMA WatchAlways == Spec => []WatchInv
<1>1. Init => WatchInv
  BY WatchBegun
<1>2. WatchInv /\ [Next]_vars => WatchInv'
  BY WatchStep
<1> QED BY <1>1, <1>2, PTL DEF Spec

-----------------------------------------------------------------------------

\* Every variable holds a value of its kind, in every instance.
THEOREM WatchTypeCorrect == Spec => []WatchTypeOK
<1>1. WatchInv => WatchTypeOK
  BY DEF WatchInv
<1> QED BY <1>1, WatchAlways, PTL

\* However the calls race, no consumer is left that nobody can tell to end.
THEOREM NoStray == Spec => []NoStrayConsumer
<1>1. WatchInv => NoStrayConsumer
  <2> SUFFICES ASSUME WatchInv, NEW w \in Watches,
                      consumer[w] \notin {"none", "done"}, ~canceled[w],
                      caller[w] \notin {"waiting", "track"}, w \notin watches,
                      \A p \in Callers : ~Stops(p, w)
               PROVE  FALSE
    BY DEF NoStrayConsumer, Running
  <2>1. caller[w] \in {"idle", "join", "failed", "held"}
    BY DEF WatchInv, WatchTypeOK, CallerPc
  <2> QED BY <2>1 DEF WatchInv, Stages, Released
<1> QED BY <1>1, WatchAlways, PTL

\* However many StopFunc callers and Closes there are, one of them stops a watch.
THEOREM OneStopper == Spec => []StoppedByOne
<1>1. WatchInv => StoppedByOne
  <2>1. ASSUME WatchInv, NEW w \in Watches
        PROVE  w \in watches => \A p \in Callers : ~Stops(p, w)
    BY <2>1 DEF WatchInv, Owned
  <2>2. ASSUME WatchInv, NEW w \in Watches
        PROVE  Cardinality({p \in Callers : Stops(p, w)}) <= 1
    <3> DEFINE S == {p \in Callers : Stops(p, w)}
    <3>1. S = {} \/ \E p \in Callers : S = {p}
      BY <2>2 DEF WatchInv, Owned
    <3>2. Cardinality(S) = 0 \/ Cardinality(S) = 1
      BY <3>1, FS_EmptySet, FS_Singleton
    <3> HIDE DEF S
    <3>3. Cardinality(S) <= 1
      BY <3>2
    <3> QED BY <3>3 DEF S
  <2> QED BY <2>1, <2>2 DEF StoppedByOne
<1> QED BY <1>1, WatchAlways, PTL

\* A StopFunc that returned leaves no handler, but for a Close that waits for it.
THEOREM StopFinal == Spec => []StopIsFinal
<1>1. WatchInv => StopIsFinal
  <2> SUFFICES ASSUME WatchInv, NEW w \in Watches, once[w] = "done",
                      Running(w)
               PROVE  \E k \in Closers : Stops(k, w)
    BY DEF StopIsFinal
  <2>1. caller[w] = "held" /\ w \notin watches
    BY DEF WatchInv, Stages
  <2>2. PICK p \in Callers : Stops(p, w)
    BY <2>1 DEF WatchInv, Released, Running
  <2>3. p \notin Stoppers
    BY <2>2 DEF WatchInv, Owned
  <2> QED BY <2>2, <2>3 DEF Callers
<1> QED BY <1>1, WatchAlways, PTL
=============================================================================
