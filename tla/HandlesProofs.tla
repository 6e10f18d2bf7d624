---------------------------- MODULE HandlesProofs ----------------------------
(***************************************************************************)
(* What becomes of the subscriptions, for any numbers of goroutines, keys  *)
(* and subscriptions: whose callback a handle is for, how a subscription   *)
(* is orphaned, when none is, and when every intent is served.             *)
(***************************************************************************)
EXTENDS SubscriptionsProofs

-----------------------------------------------------------------------------
(* Whose subscription a handle is.                                         *)

\* A handle in an entry delivers to that entry's callback or to nobody, and so
\* does the subscription of a goroutine that is about to enter it.
OwnHandles ==
    /\ \A id \in Registered :
          entries[id].sub # NoSub => live[entries[id].sub] \in {0, id}
    /\ \A w \in Workers :
          pc[w] \in {"flush", "mark"} => live[job[w].sub] \in {0, job[w].rec.id}

\* Whoever is at flush or mark got there by subscribing, and still holds that
\* subscription for that record.
LEMMA ComesFromSubscribe ==
    ASSUME SubsInv, [Next]_vars, NEW w \in Workers, pc'[w] \in {"flush", "mark"}
    PROVE  \/ w \in Activators /\ Subscribes(w)
           \/ /\ pc[w] \in {"flush", "mark"}
              /\ job'[w].sub = job[w].sub
              /\ job'[w].rec = job[w].rec
<1> USE DEF SubsInv, Placed
<1> DEFINE Elsewhere == \E p \in Pc \ {"flush", "mark"} : \E j : Go(w, p, j)
<1>1. ASSUME Elsewhere PROVE FALSE
  BY <1>1 DEF Go
<1>2. ASSUME StartBegins(w) \/ ActivationStep(w)
      PROVE  Subscribes(w) \/ FlushSucceeds(w) \/ Elsewhere
  <2> USE DEF Sync, Continues, Gives, Pc
  <2>1. CASE \/ \E key \in Keys : RegisterBegins(w, key)
             \/ RegisterAdds(w) \/ RegisterConflicts(w) \/ RegisterChecks(w)
             \/ RegisterLooksUp(w) \/ RegisterRollsBack(w) \/ RegisterDrops(w)
    BY <2>1 DEF RegisterBegins, RegisterAdds, RegisterConflicts, RegisterChecks,
                RegisterLooksUp, RegisterRollsBack, RegisterDrops
  <2>2. CASE StartBegins(w) \/ StartConnects(w) \/ StartFails(w)
               \/ RestoreBegins(w) \/ ListsRecords(w) \/ DropsStale(w)
    BY <2>2 DEF StartBegins, StartConnects, StartFails, RestoreBegins,
                ListsRecords, DropsStale
  <2>3. CASE NextRecord(w)
    BY <2>3 DEF NextRecord
  <2>4. CASE SubscribeFails(w) \/ FlushFails(w) \/ Marks(w) \/ Discards(w)
               \/ Unmarks(w) \/ StartFinishes(w) \/ RestoreFinishes(w)
    BY <2>4 DEF SubscribeFails, FlushFails, Marks, Discards, Unmarks,
                StartFinishes, RestoreFinishes
  <2> QED BY <1>2, <2>1, <2>2, <2>3, <2>4 DEF ActivationStep
<1>3. ASSUME DeactivationStep(w) \/ CommonStep(w) PROVE Elsewhere
  <2>1. CASE CloseBegins(w) \/ ClosedHookBegins(w) \/ ClosesSession(w)
               \/ CloseLeaves(w) \/ Clears(w) \/ Unsubs(w) \/ ReadsCounts(w)
    BY <2>1 DEF CloseBegins, ClosedHookBegins, ClosesSession, CloseLeaves,
                Clears, Unsubs, ReadsCounts, Sync, Pc
  <2>2. CASE PublishesCounts(w)
    <3>1. job[w].after \in Pc \ {"flush", "mark"}
      BY DEF Job, Pc
    <3> QED BY <2>2, <3>1 DEF PublishesCounts
  <2> QED BY <1>3, <2>1, <2>2 DEF DeactivationStep, CommonStep
<1>4. ASSUME FlushSucceeds(w)
      PROVE  pc[w] = "flush" /\ job'[w] = job[w]
  BY <1>4 DEF FlushSucceeds, Go
<1> HIDE DEF Elsewhere
<1> QED BY <1>1, <1>2, <1>3, <1>4, OneMoves, RolesAssumption
        DEF ActivationStep, Subscribes

\* No step makes a handle deliver to the callback of another entry.
LEMMA OwnStep ==
    ASSUME SubsInv, OwnHandles, [Next]_vars PROVE OwnHandles'
<1> USE DEF SubsInv
<1>0. /\ \A id \in Registered : entries[id].sub \in Subs \union {NoSub}
      /\ \A w \in Workers : pc[w] \in {"flush", "mark"} => job[w].sub \in Subs
  BY DEF RegInv, RegTypeOK, Entry, Registered, Placed, Holds
<1>1. ASSUME NEW w \in Activators, Subscribes(w) PROVE OwnHandles'
  <2> w \in Workers /\ job[w] \in Job
    BY DEF Workers, Placed
  <2>1. PICK sub \in Subs :
          /\ Unreferenced(sub)
          /\ live' = [live EXCEPT ![sub] = job[w].rec.id]
          /\ Go(w, "flush", [job[w] EXCEPT !.sub = sub])
    BY <1>1 DEF Subscribes
  <2>2. UNCHANGED entries
    BY <1>1 DEF Subscribes, regVars
  <2>3. \A s \in Subs \ {sub} : live'[s] = live[s]
    BY <2>1 DEF LinkOK
  <2>4. ASSUME NEW id \in Registered, entries[id].sub # NoSub
        PROVE  live'[entries[id].sub] \in {0, id}
    BY <1>0, <2>1, <2>3, <2>4 DEF Unreferenced, OwnHandles
  <2>5. ASSUME NEW v \in Workers, v # w, pc'[v] \in {"flush", "mark"}
        PROVE  live'[job'[v].sub] \in {0, job'[v].rec.id}
    <3>1. pc'[v] = pc[v] /\ job'[v] = job[v]
      BY <2>1, <2>5 DEF Go, Placed
    <3>2. job[v].sub \in Subs \ {sub}
      BY <1>0, <2>1, <2>5, <3>1 DEF Unreferenced
    <3> QED BY <2>3, <2>5, <3>1, <3>2 DEF OwnHandles
  <2>6. /\ job'[w].sub = sub
        /\ job'[w].rec = job[w].rec
        /\ live'[sub] = job[w].rec.id
    BY <2>1 DEF Go, Placed, Job, LinkOK
  <2> QED BY <2>2, <2>4, <2>5, <2>6 DEF OwnHandles, Registered
<1>2. ASSUME \A w \in Activators : ~Subscribes(w) PROVE OwnHandles'
  <2>1. NothingWakes
    BY <1>2, OnlySubscribesWakes
  <2>2. ASSUME NEW w \in Workers, pc'[w] \in {"flush", "mark"}
        PROVE  live'[job'[w].sub] \in {0, job'[w].rec.id}
    <3>1. /\ pc[w] \in {"flush", "mark"}
          /\ job'[w].sub = job[w].sub
          /\ job'[w].rec = job[w].rec
      BY <1>2, <2>2, ComesFromSubscribe
    <3> QED BY <1>0, <2>1, <3>1 DEF NothingWakes, OwnHandles
  <2>3. ASSUME NEW id \in Registered', entries'[id].sub # NoSub
        PROVE  live'[entries'[id].sub] \in {0, id}
    <3>1. CASE NothingEntered
      BY <1>0, <2>1, <2>3, <3>1 DEF NothingEntered, NothingWakes, OwnHandles
    <3>2. ASSUME NEW w \in Activators, Marks(w)
          PROVE  live'[entries'[id].sub] \in {0, id}
      <4>1. /\ id \in Registered
            /\ IF id = job[w].rec.id THEN entries'[id].sub = job[w].sub
               ELSE entries'[id].sub = entries[id].sub
        BY <2>3, <3>2 DEF Marks, MarkActive, RegInv, RegTypeOK, Registered, Entry
      <4>2. pc[w] = "mark" /\ w \in Workers
        BY <3>2 DEF Marks, Workers
      <4> QED BY <1>0, <2>1, <2>3, <4>1, <4>2 DEF NothingWakes, OwnHandles
    <3> QED BY <3>1, <3>2, OnlyMarksEnters
  <2> QED BY <2>2, <2>3 DEF OwnHandles
<1> QED BY <1>1, <1>2

-----------------------------------------------------------------------------
(* How a subscription is orphaned.                                         *)

\* w is about to enter sub in the registry, or to unsubscribe it.
HandOf(w, sub) == \/ job[w].sub = sub
                  \/ sub \in job[w].handles
                  \/ pc[w] = "stale" /\ job[w].rec.sub = sub

\* A goroutine that goes on without letting go of sub, which no entry let go of
\* either, does not orphan it.
LEMMA NotLetGo ==
    ASSUME SubsInv, NEW w \in Workers, NEW p, NEW j, Go(w, p, j),
           NEW sub \in Subs, Orphan(sub)', ~Orphan(sub), live[sub] # 0,
           HandOf(w, sub) => HandOf(w, sub)',
           \A id \in Registered : entries[id].sub = sub =>
               id \in Registered' /\ entries'[id].sub = sub
    PROVE  FALSE
<1>1. ASSUME NEW v \in Workers, v # w PROVE pc'[v] = pc[v] /\ job'[v] = job[v]
  BY <1>1 DEF Go, SubsInv, Placed
<1>2. \A v \in Workers : ~HandOf(v, sub)'
  BY DEF Orphan, InHand, HandOf
<1>3. \A v \in Workers : ~HandOf(v, sub)
  BY <1>1, <1>2 DEF HandOf
<1>4. PICK id \in Registered : entries[id].sub = sub
  BY <1>3 DEF Orphan, InHand, HandOf
<1> QED BY <1>4 DEF Orphan

\* A live subscription is orphaned by an activation that writes over another
\* one's handle, and by nothing else.
LEMMA OrphanStep ==
    ASSUME SubsInv, Carrying, [Next]_vars,
           NEW sub \in Subs, Orphan(sub)', ~Orphan(sub)
    PROVE  live[sub] # 0 /\ \E w \in Activators : Overwrites(w, sub)
<1> USE DEF SubsInv
<1> sub # NoSub
  BY NoSubAssumption
<1> DEFINE Kept == \A id \in Registered : entries[id].sub = sub =>
                      id \in Registered' /\ entries'[id].sub = sub
<1>1. live'[sub] # 0
  BY DEF Orphan
<1>2. ASSUME live[sub] = 0 PROVE FALSE
  <2>1. PICK w \in Activators : Subscribes(w)
    BY <1>1, <1>2, OnlySubscribesWakes DEF NothingWakes
  <2>2. PICK s \in Subs : /\ live' = [live EXCEPT ![s] = job[w].rec.id]
                          /\ Go(w, "flush", [job[w] EXCEPT !.sub = s])
    BY <2>1 DEF Subscribes
  <2>3. s = sub
    BY <1>1, <1>2, <2>2 DEF LinkOK
  <2>4. w \in Workers /\ job'[w].sub = sub
    BY <2>2, <2>3 DEF Go, Placed, Job, Workers
  <2> QED BY <2>4 DEF Orphan, InHand
<1>3. ASSUME NEW w \in Workers, pc[w] \notin {"flush", "mark", "discard", "drop"},
             pc[w] \notin {"unsub", "stale"}, Kept,
             StartBegins(w) \/ ActivationStep(w) \/ DeactivationStep(w)
               \/ CommonStep(w)
      PROVE  FALSE
  <2>1. ~HandOf(w, sub)
    BY <1>3 DEF HandOf, Carrying, Carries
  <2>2. PICK p, j : Go(w, p, j)
    BY <1>3, StepGoes
  <2> QED BY <1>2, <1>3, <2>1, <2>2, NotLetGo
<1>4. ASSUME NEW w \in Workers, job[w] \in Job,
             StartBegins(w) \/ ActivationStep(w), w \in Activators
      PROVE  Overwrites(w, sub)
  <2>1. CASE \/ RegisterConflicts(w) \/ RegisterChecks(w) \/ RegisterLooksUp(w)
             \/ \E key \in Keys : RegisterBegins(w, key)
    BY <1>3, <1>4, <2>1 DEF RegisterConflicts, RegisterChecks, RegisterLooksUp,
                RegisterBegins, AddConflict, TakeID, Registered, regVars
  <2>2. CASE StartBegins(w) \/ StartConnects(w) \/ StartFails(w)
               \/ RestoreBegins(w) \/ ListsRecords(w) \/ NextRecord(w)
    BY <1>3, <1>4, <2>2 DEF StartBegins, StartConnects, StartFails,
                RestoreBegins, ListsRecords, NextRecord, Registered, regVars
  <2>3. CASE Subscribes(w) \/ SubscribeFails(w) \/ StartFinishes(w)
               \/ RestoreFinishes(w)
    BY <1>3, <1>4, <2>3 DEF Subscribes, SubscribeFails, StartFinishes,
                RestoreFinishes, Registered, regVars
  <2>4. CASE RegisterAdds(w)
    BY <1>3, <1>4, <2>4 DEF RegisterAdds, Add, RegInv, IdsFresh, Registered
  <2>5. CASE RegisterDrops(w) \/ FlushFails(w) \/ Discards(w) \/ DropsStale(w)
    <3> DEFINE s == IF pc[w] = "stale" THEN job[w].rec.sub ELSE job[w].sub
    <3>1. s # sub
      BY <1>1, <2>5 DEF RegisterDrops, FlushFails, Discards, DropsStale,
                        Unsubscribe, LinkOK
    <3>2. ~HandOf(w, sub)
      BY <2>5, <3>1 DEF RegisterDrops, FlushFails, Discards, DropsStale, HandOf,
                        Carrying, Carries
    <3>3. Kept
      BY <2>5 DEF RegisterDrops, FlushFails, Discards, DropsStale, regVars,
                  Registered
    <3>4. PICK p, j : Go(w, p, j)
      BY <1>4, StepGoes
    <3> QED BY <1>2, <3>2, <3>3, <3>4, NotLetGo
  <2>6. CASE FlushSucceeds(w)
    <3>1. Go(w, "mark", job[w]) /\ UNCHANGED entries /\ pc[w] = "flush"
      BY <2>6 DEF FlushSucceeds, regVars
    <3>2. HandOf(w, sub) => HandOf(w, sub)'
      BY <3>1 DEF HandOf, Go, Placed
    <3> QED BY <1>2, <3>1, <3>2, NotLetGo DEF Registered
  <2>7. CASE RegisterRollsBack(w)
    <3> DEFINE id == job[w].id
    <3>1. pc[w] = "rollback" /\ Remove(id)
      BY <2>7 DEF RegisterRollsBack
    <3>2. CASE id \in Registered /\ entries[id].sub = sub
      <4>1. Go(w, "drop", [job[w] EXCEPT !.sub = sub])
        BY <2>7, <3>2 DEF RegisterRollsBack
      <4>2. job'[w].sub = sub
        BY <4>1 DEF Go, Placed, Job
      <4> QED BY <4>2 DEF Orphan, InHand
    <3>3. CASE ~(id \in Registered /\ entries[id].sub = sub)
      <4>1. Kept
        BY <3>1, <3>3 DEF Remove, Registered
      <4> QED BY <1>3, <1>4, <3>1, <4>1
    <3> QED BY <3>2, <3>3
  <2>8. CASE Marks(w)
    <3> DEFINE id == job[w].rec.id
    <3>1. pc[w] = "mark" /\ MarkActive(id, job[w].sub)
      BY <2>8 DEF Marks
    <3>2. CASE id \in Registered /\ entries[id].sub = sub
      <4>1. pc'[w] # "mark"
        BY <2>8 DEF Marks, Continues, Sync, Go, Placed
      <4> QED BY <3>1, <3>2, <4>1 DEF Overwrites
    <3>3. CASE ~(id \in Registered /\ entries[id].sub = sub)
      <4>1. Kept
        BY <3>1, <3>3 DEF MarkActive, Registered, RegInv, RegTypeOK
      <4>2. ASSUME job[w].sub = sub, id \in Registered PROVE FALSE
        <5>1. id \in Registered' /\ entries'[id].sub = sub
          BY <3>1, <4>2 DEF MarkActive, Registered, RegInv, RegTypeOK, Entry
        <5> QED BY <5>1 DEF Orphan
      <4>3. HandOf(w, sub) => HandOf(w, sub)'
        <5>1. ASSUME HandOf(w, sub) PROVE job[w].sub = sub /\ id \notin Registered
          BY <3>1, <4>2, <5>1 DEF HandOf, Carrying, Carries
        <5>2. ASSUME id \notin Registered PROVE job'[w] = job[w]
          BY <2>8, <5>2 DEF Marks, Go, Placed
        <5> QED BY <5>1, <5>2 DEF HandOf
      <4>4. PICK p, j : Go(w, p, j)
        BY <1>4, StepGoes
      <4> QED BY <1>2, <4>1, <4>3, <4>4, NotLetGo
    <3> QED BY <3>2, <3>3
  <2>9. CASE Unmarks(w)
    <3> DEFINE id == job[w].rec.id
    <3>1. pc[w] = "unmark" /\ MarkInactive(id)
      BY <2>9 DEF Unmarks
    <3>2. CASE id \in Registered /\ entries[id].sub = sub
      <4>1. pc'[w] # "unmark"
        BY <2>9 DEF Unmarks, Gives, Go, Placed
      <4> QED BY <3>1, <3>2, <4>1 DEF Overwrites
    <3>3. CASE ~(id \in Registered /\ entries[id].sub = sub)
      <4>1. Kept
        BY <3>1, <3>3 DEF MarkInactive, Registered, RegInv, RegTypeOK
      <4> QED BY <1>3, <1>4, <3>1, <4>1
    <3> QED BY <3>2, <3>3
  <2> QED BY <1>4, <2>1, <2>2, <2>3, <2>4, <2>5, <2>6, <2>7, <2>8, <2>9
          DEF ActivationStep
<1>5. ASSUME NEW w \in Workers, job[w] \in Job,
             DeactivationStep(w) \/ CommonStep(w)
      PROVE  FALSE
  <2>1. CASE CloseBegins(w) \/ ClosedHookBegins(w) \/ ClosesSession(w)
               \/ CloseLeaves(w) \/ ReadsCounts(w) \/ PublishesCounts(w)
    BY <1>3, <1>5, <2>1 DEF CloseBegins, ClosedHookBegins, ClosesSession,
                CloseLeaves, ReadsCounts, PublishesCounts, Registered, regVars
  <2>2. CASE Clears(w)
    <3>1. job'[w].handles = ActiveHandles /\ pc[w] = "clear"
      BY <2>2 DEF Clears, Go, Placed, Job
    <3>2. \A id \in Registered : entries[id].sub # sub
      BY <3>1 DEF ActiveHandles, Orphan, InHand
    <3> QED BY <1>3, <1>5, <3>1, <3>2
  <2>3. CASE Unsubs(w)
    <3>1. pc[w] = "unsub" /\ UNCHANGED entries
      BY <2>3 DEF Unsubs, regVars
    <3>2. HandOf(w, sub) => sub \in job[w].handles
      BY <3>1 DEF HandOf, Carrying, Carries
    <3>3. sub \in job[w].handles => sub \in job'[w].handles
      <4>1. ASSUME NEW s \in job[w].handles, Unsubscribe(s),
                   Go(w, "unsub", [job[w] EXCEPT !.handles = @ \ {s}])
            PROVE  sub \in job[w].handles => sub \in job'[w].handles
        <5>1. s # sub
          BY <1>1, <4>1 DEF Unsubscribe, LinkOK
        <5>2. job'[w].handles = job[w].handles \ {s}
          BY <4>1 DEF Go, Placed, Job
        <5> QED BY <5>1, <5>2
      <4> QED BY <2>3, <4>1 DEF Unsubs
    <3>4. PICK p, j : Go(w, p, j)
      BY <1>5, StepGoes
    <3> QED BY <1>2, <3>1, <3>2, <3>3, <3>4, NotLetGo DEF HandOf, Registered
  <2> QED BY <1>5, <2>1, <2>2, <2>3 DEF DeactivationStep, CommonStep
<1>6. ASSUME UNCHANGED <<entries, pc, job>> PROVE FALSE
  BY <1>2, <1>6 DEF Orphan, InHand, Registered
<1>7. \A w \in Workers : job[w] \in Job
  BY DEF Placed
<1> HIDE DEF Kept
<1> QED BY <1>2, <1>4, <1>5, <1>6, <1>7, RolesAssumption
        DEF Next, Workers, vars, regVars

\* What the results below rest on, with any number of activations at once.
HandlesInv == SubsInv /\ Carrying /\ OwnHandles

\* A new client satisfies it.
LEMMA HandlesInitOK == Init => HandlesInv
<1> SUFFICES ASSUME Init PROVE Carrying /\ OwnHandles
  BY SubsInitOK DEF HandlesInv
<1> QED BY DEF Init, RegInit, Carrying, Carries, NoJob, OwnHandles, Registered

\* Every step keeps it.
LEMMA HandlesStep == HandlesInv /\ [Next]_vars => HandlesInv'
BY SubsStep, CarryingStep, OwnStep DEF HandlesInv

\* With any number of goroutines registering, starting, restoring and closing
\* at once, the one way to orphan a subscription is an activation writing over
\* the handle that another one entered.
THEOREM OrphansOnlyByOverwriting == Spec => OrphansByOverwriting
<1>1. HandlesInv /\ [Next]_vars =>
        [\A sub \in Subs : Orphan(sub)' /\ ~Orphan(sub) =>
            live[sub] # 0 /\ \E w \in Activators : Overwrites(w, sub)]_vars
  BY OrphanStep DEF HandlesInv
<1> QED BY HandlesInitOK, HandlesStep, <1>1, PTL DEF Spec, OrphansByOverwriting

\* A message is delivered twice only by a subscription that is orphaned or in a
\* goroutine's hands: two entries never share one callback.
THEOREM TwiceOnlyByOrphan == Spec => [](NoOrphan => OneLivePerIntent)
<1>1. ASSUME HandlesInv, NoOrphan PROVE OneLivePerIntent
  <2> SUFFICES ASSUME NEW s \in Subs, NEW t \in Subs, s # t, live[s] # 0,
                      live[s] = live[t], ~InHand(s), ~InHand(t)
               PROVE  FALSE
    BY DEF OneLivePerIntent
  <2>1. PICK i \in Registered : entries[i].sub = s
    BY <1>1 DEF NoOrphan, Orphan
  <2>2. PICK k \in Registered : entries[k].sub = t
    BY <1>1 DEF NoOrphan, Orphan
  <2>3. live[s] = i /\ live[t] = k
    BY <1>1, <2>1, <2>2, NoSubAssumption DEF HandlesInv, OwnHandles
  <2> QED BY <2>1, <2>2, <2>3
<1> QED BY HandlesInitOK, HandlesStep, <1>1, PTL DEF Spec

-----------------------------------------------------------------------------
(* Activations that do not overlap.                                        *)

\* The intents whose activation by w is begun or listed.
InProgress(w) == {r.id : r \in job[w].todo} \union
                     IF pc[w] \in Acting THEN {job[w].rec.id} ELSE {}

\* No intent is being activated by two goroutines at once.
ActivationsApart == \A v, w \in Activators :
    v # w => InProgress(v) \intersect InProgress(w) = {}

\* An activation's record is still true of the entry, or the entry's handle has
\* been taken from it since, so that nothing live is written over.
Current(p, j) ==
    /\ \A r \in j.todo : r.id \in Registered => entries[r.id].sub \in {r.sub, NoSub}
    /\ \A r, t \in j.todo : r.id = t.id => r = t
    /\ p \in Acting =>
         /\ \A r \in j.todo : r.id # j.rec.id
         /\ j.rec.id \in Registered =>
              \/ entries[j.rec.id].sub = NoSub
              \/ p = "stale" /\ entries[j.rec.id].sub = j.rec.sub
              \/ p # "stale" /\ live[entries[j.rec.id].sub] = 0

AllCurrent == \A w \in Activators : Current(pc[w], job[w])

\* An entered subscription that is unsubscribed is not used again.
LEMMA EnteredStaysDead ==
    ASSUME SubsInv, [Next]_vars, NEW id \in Registered, entries[id].sub # NoSub,
           live[entries[id].sub] = 0
    PROVE  live'[entries[id].sub] = 0
<1> USE DEF SubsInv
<1>1. entries[id].sub \in Subs
  BY DEF RegInv, RegTypeOK, Entry, Registered
<1>2. CASE NothingWakes
  BY <1>1, <1>2 DEF NothingWakes
<1>3. ASSUME NEW v \in Activators, Subscribes(v)
      PROVE  live'[entries[id].sub] = 0
  <2>1. PICK s \in Subs : /\ Unreferenced(s)
                          /\ live' = [live EXCEPT ![s] = job[v].rec.id]
    BY <1>3 DEF Subscribes
  <2> QED BY <1>1, <2>1 DEF Unreferenced, LinkOK
<1> QED BY <1>2, <1>3, OnlySubscribesWakes

\* What another goroutine does, if it is at work on other intents, leaves a
\* record current.
LEMMA StaysCurrent ==
    ASSUME SubsInv, AllCurrent, ActivationsApart, [Next]_vars,
           NEW w \in Activators, pc'[w] = pc[w], job'[w] = job[w]
    PROVE  Current(pc[w], job[w])'
<1> USE DEF SubsInv
<1>0. Current(pc[w], job[w])
  BY DEF AllCurrent
<1>1. ASSUME NEW id \in InProgress(w), id \in Registered'
      PROVE  \/ entries'[id].sub = NoSub
             \/ id \in Registered /\ entries'[id].sub = entries[id].sub
  <2>1. CASE NothingEntered
    BY <1>1, <2>1 DEF NothingEntered
  <2>2. ASSUME NEW v \in Activators, Marks(v)
        PROVE  id \in Registered /\ entries'[id].sub = entries[id].sub
    <3>1. pc[v] = "mark" /\ MarkActive(job[v].rec.id, job[v].sub)
      BY <2>2 DEF Marks
    <3>2. v # w
      BY <2>2, <3>1 DEF Marks, Continues, Sync, Go, Placed, Workers
    <3>3. job[v].rec.id \in InProgress(v)
      BY <3>1 DEF InProgress, Acting
    <3>4. id # job[v].rec.id
      BY <1>1, <3>2, <3>3 DEF ActivationsApart
    <3> QED BY <1>1, <3>1, <3>4 DEF MarkActive, Registered, RegInv, RegTypeOK
  <2> QED BY <2>1, <2>2, OnlyMarksEnters
<1>2. \A r \in job[w].todo :
        r.id \in Registered' => entries'[r.id].sub \in {r.sub, NoSub}
  BY <1>0, <1>1 DEF Current, InProgress
<1>3. ASSUME pc[w] \in Acting, job[w].rec.id \in Registered'
      PROVE  \/ entries'[job[w].rec.id].sub = NoSub
             \/ pc[w] = "stale" /\ entries'[job[w].rec.id].sub = job[w].rec.sub
             \/ pc[w] # "stale" /\ live'[entries'[job[w].rec.id].sub] = 0
  BY <1>0, <1>1, <1>3, EnteredStaysDead DEF Current, InProgress
<1> QED BY <1>0, <1>2, <1>3 DEF Current

\* Going on with no more records than before, outside an activation.
LEMMA LeavesCurrent ==
    ASSUME SubsInv, AllCurrent, NEW w \in Activators, NothingEntered,
           NEW p, NEW j, Go(w, p, j), p \notin Acting, j.todo \subseteq job[w].todo
    PROVE  Current(pc[w], job[w])'
<1>1. \A r \in j.todo : r.id \in Registered' => entries'[r.id].sub \in {r.sub, NoSub}
  BY DEF NothingEntered, AllCurrent, Current
<1>2. pc'[w] = p /\ job'[w] = j
  BY DEF Go, SubsInv, Placed, Workers
<1> QED BY <1>1, <1>2 DEF Current, AllCurrent

\* Going on with the same record and the same list.
LEMMA GoesOnCurrent ==
    ASSUME SubsInv, AllCurrent, [Next]_vars, NEW w \in Activators,
           NEW p \in Acting \ {"stale"}, NEW j, Go(w, p, j), pc[w] \in Acting,
           j.todo = job[w].todo, j.rec.id = job[w].rec.id, UNCHANGED entries,
           pc[w] = "stale" => live'[job[w].rec.sub] = 0
    PROVE  Current(pc[w], job[w])'
<1>1. pc'[w] = p /\ job'[w] = j
  BY DEF Go, SubsInv, Placed, Workers
<1>2. ASSUME j.rec.id \in Registered, entries[j.rec.id].sub # NoSub
      PROVE  live'[entries[j.rec.id].sub] = 0
  BY <1>2, EnteredStaysDead DEF Current, AllCurrent
<1> QED BY <1>1, <1>2 DEF Current, AllCurrent, Registered

\* A goroutine's own step that starts no activation leaves its list current.
LEMMA ListStaysCurrent ==
    ASSUME SubsInv, Carrying, AllCurrent, NEW w \in Activators,
           \/ \E key \in Keys : RegisterBegins(w, key)
           \/ RegisterAdds(w) \/ RegisterConflicts(w) \/ RegisterChecks(w)
           \/ RegisterRollsBack(w) \/ RegisterDrops(w)
           \/ StartBegins(w) \/ StartConnects(w) \/ StartFails(w)
           \/ RestoreBegins(w) \/ StartFinishes(w) \/ RestoreFinishes(w)
           \/ Unmarks(w) \/ CommonStep(w)
    PROVE  Current(pc[w], job[w])'
<1> w \in Workers /\ job[w] \in Job /\ NoJob.todo = {}
  BY DEF Workers, SubsInv, Placed, NoJob
<1>1. NothingEntered
  <2>1. ~Marks(w)
    BY DEF Marks, RegisterBegins, RegisterAdds, RegisterConflicts,
           RegisterChecks, RegisterRollsBack, RegisterDrops, StartBegins,
           StartConnects, StartFails, RestoreBegins, StartFinishes,
           RestoreFinishes, Unmarks, CommonStep, Clears, Unsubs, ReadsCounts,
           PublishesCounts
  <2> QED BY <2>1, StepEnters DEF ActivationStep
<1> USE <1>1, LeavesCurrent DEF Acting, Sync
<1>2. ASSUME NEW key \in Keys, RegisterBegins(w, key)
      PROVE  Current(pc[w], job[w])'
  <2> DEFINE j == [NoJob EXCEPT !.kind = "register", !.id = nextID + 1, !.key = key]
  <2>1. j.todo = {}
    BY DEF NoJob
  <2>2. Go(w, "add", j)
    BY <1>2 DEF RegisterBegins
  <2> HIDE DEF j
  <2> QED BY <2>1, <2>2
<1>3. CASE RegisterConflicts(w) \/ RegisterChecks(w)
  BY <1>3 DEF RegisterConflicts, RegisterChecks
<1>4. CASE RegisterAdds(w)
  BY <1>4 DEF RegisterAdds, Job
<1>5. CASE RegisterRollsBack(w)
  BY <1>5 DEF RegisterRollsBack, Job
<1>6. CASE RegisterDrops(w)
  <2> DEFINE j == [[job[w] EXCEPT !.sub = NoSub] EXCEPT !.after = "idle"]
  <2>1. j.todo = job[w].todo
    BY DEF Job
  <2>2. Go(w, "sync", j)
    BY <1>6 DEF RegisterDrops
  <2> HIDE DEF j
  <2> QED BY <2>1, <2>2
<1>7. CASE StartBegins(w) \/ StartConnects(w) \/ StartFails(w)
             \/ RestoreBegins(w)
  BY <1>7 DEF StartBegins, StartConnects, StartFails, RestoreBegins, NoJob
<1>8. CASE StartFinishes(w) \/ RestoreFinishes(w)
  BY <1>8 DEF StartFinishes, RestoreFinishes
<1>9. CASE Unmarks(w)
  <2> DEFINE j == [Done(job[w]) EXCEPT !.failed = TRUE]
  <2>1. j.todo = job[w].todo /\ Done(job[w]).todo = job[w].todo
    BY DEF Done, Job
  <2>2. Go(w, "rollback", Done(job[w])) \/ Go(w, "next", j)
    BY <1>9 DEF Unmarks, Gives
  <2> HIDE DEF j
  <2> QED BY <2>1, <2>2
<1>10. CASE Clears(w) \/ ReadsCounts(w)
  BY <1>10 DEF Clears, ReadsCounts, Job
<1>11. CASE Unsubs(w)
  BY <1>11 DEF Unsubs, Job
<1>12. CASE PublishesCounts(w)
  <2>1. job[w].after \notin Acting
    BY DEF Job
  <2> QED BY <1>12, <2>1 DEF PublishesCounts, Job, NoJob
<1> QED BY <1>2, <1>3, <1>4, <1>5, <1>6, <1>7, <1>8, <1>9, <1>10, <1>11, <1>12
        DEF CommonStep

\* A goroutine's own step in an activation leaves its record and list current.
LEMMA RecordStaysCurrent ==
    ASSUME SubsInv, Carrying, AllCurrent, [Next]_vars, NEW w \in Activators,
           \/ RegisterLooksUp(w) \/ ListsRecords(w) \/ NextRecord(w)
           \/ DropsStale(w) \/ Subscribes(w) \/ SubscribeFails(w)
           \/ FlushSucceeds(w) \/ FlushFails(w) \/ Marks(w) \/ Discards(w)
    PROVE  Current(pc[w], job[w])'
<1> w \in Workers /\ job[w] \in Job /\ Carries(pc[w], job[w]) /\ Current(pc[w], job[w])
  BY DEF Workers, SubsInv, Placed, Carrying, AllCurrent
<1>1. ASSUME UNCHANGED entries PROVE NothingEntered
  BY <1>1 DEF NothingEntered, Registered
<1>2. CASE RegisterLooksUp(w)
  <2> DEFINE id == job[w].id
             r == [id |-> id, sub |-> NoSub]
             j == [job[w] EXCEPT !.rec = r]
             k == [job[w] EXCEPT !.after = "idle"]
  <2>1. UNCHANGED entries
    BY <1>2 DEF RegisterLooksUp, regVars
  <2>2. CASE id \in Registered /\ entries[id].sub = NoSub
    <3>1. Go(w, "subscribe", j)
      BY <1>2, <2>2 DEF RegisterLooksUp
    <3>2. j.rec.id = id /\ j.todo = job[w].todo
      BY DEF Job
    <3>3. job[w].todo = {}
      BY <1>2 DEF RegisterLooksUp, Carries
    <3> HIDE DEF j
    <3>4. pc'[w] = "subscribe" /\ job'[w] = j
      BY <3>1 DEF Go, SubsInv, Placed
    <3> QED BY <2>1, <2>2, <3>2, <3>3, <3>4 DEF Current, Registered
  <2>3. CASE ~(id \in Registered /\ entries[id].sub = NoSub)
    <3>1. Go(w, "sync", k)
      BY <1>2, <2>3 DEF RegisterLooksUp, Sync
    <3>2. k.todo = job[w].todo
      BY DEF Job
    <3> HIDE DEF k
    <3> QED BY <1>1, <2>1, <3>1, <3>2, LeavesCurrent DEF Acting
  <2> QED BY <2>2, <2>3
<1>3. CASE ListsRecords(w)
  <2> DEFINE T == {[id |-> id, sub |-> entries[id].sub] : id \in Registered}
             j == [job[w] EXCEPT !.todo = T]
  <2>1. Go(w, "next", j) /\ UNCHANGED entries
    BY <1>3 DEF ListsRecords, regVars
  <2>2. j.todo = T
    BY DEF Job
  <2> HIDE DEF j
  <2>3. pc'[w] = "next" /\ job'[w] = j
    BY <2>1 DEF Go, SubsInv, Placed
  <2> QED BY <2>1, <2>2, <2>3 DEF Current, Acting, Registered
<1>4. CASE NextRecord(w)
  <2>1. UNCHANGED entries /\ pc[w] = "next"
    BY <1>4 DEF NextRecord, regVars
  <2>2. CASE Sync(w, job[w], "finish")
    <3> DEFINE k == [job[w] EXCEPT !.after = "finish"]
    <3>1. Go(w, "sync", k) /\ k.todo = job[w].todo
      BY <2>2 DEF Sync, Job
    <3> HIDE DEF k
    <3> QED BY <1>1, <2>1, <3>1, LeavesCurrent DEF Acting
  <2>3. ASSUME NEW r \in job[w].todo,
               Go(w, "next", [job[w] EXCEPT !.todo = @ \ {r}])
        PROVE  Current(pc[w], job[w])'
    <3> DEFINE k == [job[w] EXCEPT !.todo = @ \ {r}]
    <3>1. Go(w, "next", k) /\ k.todo \subseteq job[w].todo
      BY <2>3 DEF Job
    <3> HIDE DEF k
    <3> QED BY <1>1, <2>1, <3>1, LeavesCurrent DEF Acting
  <2>4. ASSUME NEW r \in job[w].todo,
               LET j == [job[w] EXCEPT !.todo = @ \ {r}, !.rec = r]
               IN  \/ r.sub = NoSub /\ Go(w, "subscribe", j)
                   \/ Go(w, "stale", j)
        PROVE  Current(pc[w], job[w])'
    <3> DEFINE j == [job[w] EXCEPT !.todo = @ \ {r}, !.rec = r]
    <3>1. j.todo = job[w].todo \ {r} /\ j.rec = r
      BY DEF Job
    <3>2. \E p \in {"stale", "subscribe"} :
            Go(w, p, j) /\ (p = "subscribe" => r.sub = NoSub)
      BY <2>4
    <3> HIDE DEF j
    <3>3. /\ job'[w] = j
          /\ pc'[w] = "stale" \/ (pc'[w] = "subscribe" /\ r.sub = NoSub)
      BY <3>2 DEF Go, SubsInv, Placed
    <3>4. /\ \A t \in j.todo : t \in job[w].todo /\ t.id # r.id
          /\ r.id \in Registered => entries[r.id].sub \in {r.sub, NoSub}
      BY <2>4, <3>1 DEF Current
    <3>5. entries' = entries /\ Registered' = Registered
      BY <2>1 DEF Registered
    <3> QED BY <3>1, <3>3, <3>4, <3>5 DEF Current
  <2> QED BY <1>4, <2>2, <2>3, <2>4 DEF NextRecord
<1>5. CASE DropsStale(w)
  <2> DEFINE j == [job[w] EXCEPT !.rec.sub = NoSub]
  <2>1. /\ Go(w, "subscribe", j)
        /\ UNCHANGED entries
        /\ pc[w] = "stale"
        /\ Unsubscribe(job[w].rec.sub)
    BY <1>5 DEF DropsStale, regVars
  <2>2. j.todo = job[w].todo /\ j.rec.id = job[w].rec.id
    BY DEF Job, Record
  <2>3. job[w].rec.id \in Registered => entries[job[w].rec.id].sub \in {NoSub, job[w].rec.sub}
    BY <2>1 DEF Current, Acting
  <2> HIDE DEF j
  <2>4. pc'[w] = "subscribe" /\ job'[w] = j
    BY <2>1 DEF Go, SubsInv, Placed
  <2>5. ASSUME job[w].rec.id \in Registered, entries[job[w].rec.id].sub # NoSub
        PROVE  live'[entries[job[w].rec.id].sub] = 0
    <3>1. entries[job[w].rec.id].sub \in Subs
      BY <2>5 DEF SubsInv, RegInv, RegTypeOK, Entry, Registered
    <3> QED BY <2>1, <2>3, <2>5, <3>1 DEF Unsubscribe, SubsInv, LinkOK
  <2> QED BY <2>1, <2>2, <2>4, <2>5 DEF Current, Acting, Registered
<1>6. CASE Subscribes(w)
  <2>1. PICK s \in Subs : Go(w, "flush", [job[w] EXCEPT !.sub = s])
    BY <1>6 DEF Subscribes
  <2> DEFINE j == [job[w] EXCEPT !.sub = s]
  <2>2. j.todo = job[w].todo /\ j.rec.id = job[w].rec.id
    BY DEF Job
  <2>3. Go(w, "flush", j)
    BY <2>1
  <2> HIDE DEF j
  <2> QED BY <1>6, <2>2, <2>3, GoesOnCurrent DEF Subscribes, Acting, regVars
<1>7. CASE SubscribeFails(w) \/ FlushSucceeds(w)
  BY <1>7, GoesOnCurrent DEF SubscribeFails, FlushSucceeds, Acting, regVars
<1>8. CASE FlushFails(w)
  <2> DEFINE j == [job[w] EXCEPT !.sub = NoSub]
  <2>1. j.todo = job[w].todo /\ j.rec.id = job[w].rec.id
    BY DEF Job
  <2>2. Go(w, "unmark", j)
    BY <1>8 DEF FlushFails
  <2> HIDE DEF j
  <2> QED BY <1>8, <2>1, <2>2, GoesOnCurrent DEF FlushFails, Acting, regVars
<1>9. ASSUME Continues(w, job[w])
      PROVE  pc'[w] \notin Acting /\ job'[w].todo = job[w].todo
  <2> DEFINE j == Done(job[w])
             k == [j EXCEPT !.after = "idle"]
  <2>1. j.todo = job[w].todo
    BY DEF Done, Job
  <2>2. k.todo = j.todo
    BY DoneOK DEF Job
  <2>3. Go(w, "sync", k) \/ Go(w, "next", j)
    BY <1>9 DEF Continues, Sync
  <2> HIDE DEF j, k
  <2> QED BY <2>1, <2>2, <2>3 DEF Go, SubsInv, Placed, Acting
<1>10. CASE Marks(w)
  <2> DEFINE id == job[w].rec.id
  <2>1. pc[w] = "mark" /\ MarkActive(id, job[w].sub)
    BY <1>10 DEF Marks
  <2>2. CASE id \notin Registered
    <3>1. Go(w, "discard", job[w]) /\ UNCHANGED entries
      BY <1>10, <2>1, <2>2 DEF Marks, MarkActive
    <3> QED BY <2>1, <3>1, GoesOnCurrent DEF Acting
  <2>3. CASE id \in Registered
    <3>1. pc'[w] \notin Acting /\ job'[w].todo = job[w].todo
      BY <1>9, <1>10, <2>3 DEF Marks
    <3>2. \A r \in job[w].todo : r.id # id
      BY <2>1 DEF Current, Acting
    <3>3. \A i \in Registered' : i \in Registered /\ (i # id => entries'[i] = entries[i])
      BY <2>1, <2>3 DEF MarkActive, Registered, SubsInv, RegInv, RegTypeOK
    <3> QED BY <3>1, <3>2, <3>3 DEF Current
  <2> QED BY <2>2, <2>3
<1>11. CASE Discards(w)
  <2>1. UNCHANGED entries /\ Continues(w, job[w])
    BY <1>11 DEF Discards, regVars
  <2>2. pc'[w] \notin Acting /\ job'[w].todo = job[w].todo
    BY <1>9, <2>1
  <2> QED BY <2>1, <2>2 DEF Current, Registered
<1> QED BY <1>2, <1>3, <1>4, <1>5, <1>6, <1>7, <1>8, <1>10, <1>11

\* While activations are apart every record stays current.
LEMMA CurrentStep ==
    ASSUME HandlesInv, AllCurrent, ActivationsApart, [Next]_vars
    PROVE  AllCurrent'
<1> SUFFICES ASSUME NEW w \in Activators PROVE Current(pc[w], job[w])'
  BY DEF AllCurrent
<1> USE DEF HandlesInv
<1>1. CASE pc'[w] = pc[w] /\ job'[w] = job[w]
  BY <1>1, StaysCurrent
<1>2. CASE StartBegins(w) \/ ActivationStep(w) \/ CommonStep(w)
  BY <1>2, ListStaysCurrent, RecordStaysCurrent DEF ActivationStep
<1>3. w \in Workers /\ w \notin Deactivators
  BY RolesAssumption DEF Workers
<1> QED BY <1>1, <1>2, <1>3, OneMoves DEF SubsInv

\* A current record is written over no live handle but its own.
LEMMA NothingOverwritten ==
    ASSUME HandlesInv, AllCurrent, NEW w \in Activators, NEW sub \in Subs,
           Overwrites(w, sub)
    PROVE  live[sub] = 0
BY NoSubAssumption DEF Overwrites, AllCurrent, Current, Acting

\* As long as no two goroutines activate one intent at the same time, every
\* live subscription can be taken back, whatever fails and whatever closes.
THEOREM NoOrphanIfApart == Spec /\ []ActivationsApart => []NoOrphan
<1> DEFINE I == HandlesInv /\ AllCurrent /\ NoOrphan
<1>1. Init => I
  <2> SUFFICES ASSUME Init PROVE AllCurrent /\ NoOrphan
    BY HandlesInitOK
  <2>1. \A w \in Activators : pc[w] = "idle" /\ job[w].todo = {}
    BY DEF Init, NoJob, Workers
  <2> QED BY <2>1 DEF Init, AllCurrent, Current, Acting, NoOrphan, Orphan
<1>2. I /\ ActivationsApart /\ [Next]_vars => I'
  <2> SUFFICES ASSUME I, ActivationsApart, [Next]_vars PROVE NoOrphan'
    BY HandlesStep, CurrentStep
  <2>1. ASSUME NEW sub \in Subs, Orphan(sub)' PROVE FALSE
    <3>1. ~Orphan(sub)
      BY DEF NoOrphan
    <3> QED BY <2>1, <3>1, OrphanStep, NothingOverwritten DEF HandlesInv
  <2> QED BY <2>1 DEF NoOrphan
<1> HIDE DEF I
<1>3. I => NoOrphan
  BY DEF I
<1> QED BY <1>1, <1>2, <1>3, PTL DEF Spec

\* One goroutine registers, starts and restores, as in a client that registers
\* its handlers and then calls Start; any number close and run closed handlers.
OneActivator == \A v, w \in Activators : v = w

\* Then no subscription is ever orphaned.
THEOREM NoOrphanOneActivator == OneActivator => (Spec => []NoOrphan)
<1> SUFFICES ASSUME OneActivator PROVE Spec => []NoOrphan
  OBVIOUS
<1>1. ActivationsApart
  BY DEF OneActivator, ActivationsApart
<1> QED BY <1>1, NoOrphanIfApart, PTL

\* And no message is delivered twice, save by a subscription being taken back.
THEOREM OneLiveIfApart == Spec /\ []ActivationsApart => []OneLivePerIntent
BY NoOrphanIfApart, TwiceOnlyByOrphan, PTL

\* Nor is one in a client whose activations one goroutine makes.
THEOREM OneLiveOneActivator == OneActivator => (Spec => []OneLivePerIntent)
<1> SUFFICES ASSUME OneActivator PROVE Spec => []OneLivePerIntent
  OBVIOUS
<1>1. ActivationsApart
  BY DEF OneActivator, ActivationsApart
<1> QED BY <1>1, OneLiveIfApart, PTL

-----------------------------------------------------------------------------
(* Who does what.                                                          *)

\* Only a starter starts, and only a deactivator closes.
Plays(w, p, j) == /\ j.kind = "start" => w \in Starters
                  /\ j.kind \in {"close", "closed"} => w \in Deactivators
                  /\ p = "starting" => j.kind = "start"
                  /\ p = "clear" => j.kind \in {"start", "close", "closed"}

Playing == \A w \in Workers : Plays(w, pc[w], job[w])

\* Going to a place with what the goroutine may do there keeps that.
LEMMA GoPlaying ==
    ASSUME Placed, Playing, NEW w \in Workers, NEW p, NEW j, Plays(w, p, j),
           Go(w, p, j)
    PROVE  Playing'
BY DEF Placed, Go, Playing

\* Every step keeps that.
LEMMA PlayingStep ==
    ASSUME SubsInv, Playing, [Next]_vars PROVE Playing'
<1> USE DEF SubsInv, Plays, Sync
<1>1. ASSUME NEW w \in Workers,
             \/ w \in Starters /\ StartBegins(w)
             \/ w \in Activators /\ ActivationStep(w)
             \/ w \in Deactivators /\ DeactivationStep(w)
             \/ CommonStep(w)
      PROVE  Playing'
  <2> job[w] \in Job /\ NoJob \in Job /\ Plays(w, pc[w], job[w])
    BY NoJobOK DEF Placed, Playing
  <2>1. CASE \/ \E key \in Keys : RegisterBegins(w, key)
             \/ RegisterAdds(w) \/ RegisterConflicts(w) \/ RegisterChecks(w)
    BY <2>1, GoPlaying DEF RegisterBegins, RegisterAdds, RegisterConflicts,
                            RegisterChecks, NoJob, Job
  <2>2. CASE RegisterLooksUp(w) \/ RegisterRollsBack(w) \/ RegisterDrops(w)
    BY <2>2, GoPlaying DEF RegisterLooksUp, RegisterRollsBack, RegisterDrops, Job
  <2>3. CASE StartBegins(w) /\ w \in Starters
    BY <2>3, GoPlaying DEF StartBegins, NoJob
  <2>4. CASE StartConnects(w) \/ StartFails(w) \/ RestoreBegins(w)
    BY <2>4, GoPlaying DEF StartConnects, StartFails, RestoreBegins, NoJob
  <2>5. CASE ListsRecords(w) \/ DropsStale(w)
    BY <2>5, GoPlaying DEF ListsRecords, DropsStale, Job, Record
  <2>6. CASE NextRecord(w)
    BY <2>6, GoPlaying DEF NextRecord, Job
  <2>7. CASE Subscribes(w) \/ SubscribeFails(w) \/ FlushSucceeds(w)
               \/ FlushFails(w)
    BY <2>7, GoPlaying DEF Subscribes, SubscribeFails, FlushSucceeds,
                            FlushFails, Job
  <2>8. CASE Marks(w) \/ Discards(w) \/ Unmarks(w)
    BY <2>8, GoPlaying DEF Marks, Discards, Unmarks, Continues, Gives, Done, Job
  <2>9. CASE StartFinishes(w) \/ RestoreFinishes(w)
    BY <2>9, GoPlaying DEF StartFinishes, RestoreFinishes, NoJob
  <2>10. CASE w \in Deactivators /\ DeactivationStep(w)
    BY <2>10, GoPlaying DEF DeactivationStep, CloseBegins, ClosedHookBegins,
                            ClosesSession, CloseLeaves, NoJob
  <2>11. CASE Clears(w) \/ Unsubs(w)
    BY <2>11, GoPlaying DEF Clears, Unsubs, Job
  <2>12. CASE ReadsCounts(w) \/ PublishesCounts(w)
    BY <2>12, GoPlaying DEF ReadsCounts, PublishesCounts, NoJob, Job
  <2> QED BY <1>1, <2>1, <2>2, <2>3, <2>4, <2>5, <2>6, <2>7, <2>8, <2>9, <2>10,
             <2>11, <2>12 DEF ActivationStep, CommonStep
<1>2. CASE UNCHANGED <<pc, job>>
  BY <1>2 DEF Playing
<1> QED BY <1>1, <1>2, RolesAssumption DEF Next, Workers, vars

-----------------------------------------------------------------------------
(* Where a goroutine's subscription, handles and records come from.        *)

\* One goroutine moves at a time.
LEMMA OneActor ==
    ASSUME Placed, [Next]_vars
    PROVE  \/ UNCHANGED <<regVars, pc, job>>
           \/ \E a \in Workers :
                /\ \/ a \in Starters /\ StartBegins(a)
                   \/ a \in Activators /\ ActivationStep(a)
                   \/ a \in Deactivators /\ DeactivationStep(a)
                   \/ CommonStep(a)
                /\ \A v \in Workers \ {a} : pc'[v] = pc[v] /\ job'[v] = job[v]
<1>1. ASSUME NEW a \in Workers,
             StartBegins(a) \/ ActivationStep(a) \/ DeactivationStep(a)
               \/ CommonStep(a),
             NEW v \in Workers \ {a}
      PROVE  pc'[v] = pc[v] /\ job'[v] = job[v]
  <2>1. PICK p, j : Go(a, p, j)
    BY <1>1, StepGoes
  <2> QED BY <2>1 DEF Go, Placed
<1> QED BY <1>1, RolesAssumption DEF Next, Workers, vars

\* A step that does not make a subscription, roll back or clear gets hold of
\* none.
LEMMA GetsNoSub ==
    ASSUME SubsInv, NEW a \in Workers,
           StartBegins(a) \/ ActivationStep(a) \/ DeactivationStep(a) \/ CommonStep(a),
           ~Subscribes(a), ~RegisterRollsBack(a), ~Clears(a)
    PROVE  /\ job'[a].sub \in {job[a].sub, NoSub}
           /\ job'[a].handles \subseteq job[a].handles
<1> USE DEF SubsInv, Sync
<1> DEFINE Less(j) == j.sub \in {job[a].sub, NoSub} /\ j.handles \subseteq job[a].handles
<1> job[a] \in Job /\ NoJob.sub = NoSub /\ NoJob.handles = {}
  BY DEF Placed, NoJob
<1>1. ASSUME NEW p, NEW j, Go(a, p, j), Less(j)
      PROVE  Less(job'[a])
  BY <1>1 DEF Go, Placed
<1>2. CASE \/ \E key \in Keys : RegisterBegins(a, key)
           \/ RegisterConflicts(a) \/ RegisterChecks(a)
  BY <1>1, <1>2 DEF RegisterBegins, RegisterConflicts, RegisterChecks, NoJob
<1>3. CASE RegisterAdds(a) \/ RegisterLooksUp(a)
  BY <1>1, <1>3 DEF RegisterAdds, RegisterLooksUp, Job
<1>4. CASE RegisterDrops(a) \/ FlushFails(a)
  BY <1>1, <1>4 DEF RegisterDrops, FlushFails, Job
<1>5. CASE StartBegins(a) \/ StartConnects(a) \/ StartFails(a)
             \/ RestoreBegins(a)
  BY <1>1, <1>5 DEF StartBegins, StartConnects, StartFails, RestoreBegins, NoJob
<1>6. CASE ListsRecords(a) \/ DropsStale(a)
  BY <1>1, <1>6 DEF ListsRecords, DropsStale, Job
<1>7. CASE NextRecord(a)
  BY <1>1, <1>7 DEF NextRecord, Job
<1>8. CASE SubscribeFails(a) \/ FlushSucceeds(a)
  BY <1>1, <1>8 DEF SubscribeFails, FlushSucceeds
<1>9. CASE Marks(a) \/ Discards(a)
  BY <1>1, <1>9 DEF Marks, Discards, Continues, Done, Job
<1>10. CASE Unmarks(a)
  BY <1>1, <1>10 DEF Unmarks, Gives, Done, Job
<1>11. CASE StartFinishes(a) \/ RestoreFinishes(a)
  BY <1>1, <1>11 DEF StartFinishes, RestoreFinishes
<1>12. CASE DeactivationStep(a)
  BY <1>1, <1>12 DEF DeactivationStep, CloseBegins, ClosedHookBegins,
                     ClosesSession, CloseLeaves, NoJob
<1>13. CASE Unsubs(a)
  BY <1>1, <1>13 DEF Unsubs, Job
<1>14. CASE ReadsCounts(a) \/ PublishesCounts(a)
  BY <1>1, <1>14 DEF ReadsCounts, PublishesCounts, Job
<1> QED BY <1>2, <1>3, <1>4, <1>5, <1>6, <1>7, <1>8, <1>9, <1>10, <1>11, <1>12,
           <1>13, <1>14 DEF ActivationStep, CommonStep

\* A goroutine that does not list the registry takes its record from its list.
LEMMA RecordsKept ==
    ASSUME SubsInv, NEW a \in Workers,
           StartBegins(a) \/ ActivationStep(a) \/ DeactivationStep(a) \/ CommonStep(a),
           ~ListsRecords(a)
    PROVE  /\ job'[a].todo \subseteq job[a].todo
           /\ \/ job'[a].rec.sub = NoSub
              \/ job'[a].rec = job[a].rec
              \/ job'[a].rec \in job[a].todo
<1> USE DEF SubsInv, Sync
<1> DEFINE Old(j) == /\ j.todo \subseteq job[a].todo
                     /\ \/ j.rec.sub = NoSub
                        \/ j.rec = job[a].rec
                        \/ j.rec \in job[a].todo
<1> job[a] \in Job /\ NoJob \in Job /\ NoJob.todo = {} /\ NoJob.rec.sub = NoSub
  BY NoJobOK DEF Placed, NoJob
<1>1. ASSUME NEW p, NEW j, Go(a, p, j), Old(j)
      PROVE  Old(job'[a])
  BY <1>1 DEF Go, Placed
<1>2. CASE \/ \E key \in Keys : RegisterBegins(a, key)
           \/ RegisterConflicts(a) \/ RegisterChecks(a)
  BY <1>1, <1>2 DEF RegisterBegins, RegisterConflicts, RegisterChecks, NoJob
<1>3. CASE RegisterAdds(a) \/ RegisterLooksUp(a)
  BY <1>1, <1>3 DEF RegisterAdds, RegisterLooksUp, Job
<1>4. CASE RegisterDrops(a) \/ FlushFails(a) \/ Subscribes(a)
  BY <1>1, <1>4 DEF RegisterDrops, FlushFails, Subscribes, Job
<1>5. CASE StartBegins(a) \/ StartConnects(a) \/ StartFails(a)
             \/ RestoreBegins(a)
  BY <1>1, <1>5 DEF StartBegins, StartConnects, StartFails, RestoreBegins, NoJob
<1>7. CASE DropsStale(a)
  BY <1>1, <1>7 DEF DropsStale, Job, Record
<1>8. CASE NextRecord(a)
  BY <1>1, <1>8 DEF NextRecord, Job
<1>9. CASE SubscribeFails(a) \/ FlushSucceeds(a)
  BY <1>1, <1>9 DEF SubscribeFails, FlushSucceeds
<1>10. CASE Marks(a) \/ Discards(a)
  BY <1>1, <1>10 DEF Marks, Discards, Continues, Done, NoJob, Job
<1>11. CASE Unmarks(a)
  BY <1>1, <1>11 DEF Unmarks, Gives, Done, NoJob, Job
<1>12. CASE RegisterRollsBack(a)
  BY <1>1, <1>12 DEF RegisterRollsBack, Job
<1>13. CASE StartFinishes(a) \/ RestoreFinishes(a)
  BY <1>1, <1>13 DEF StartFinishes, RestoreFinishes
<1>14. CASE DeactivationStep(a)
  BY <1>1, <1>14 DEF DeactivationStep, CloseBegins, ClosedHookBegins,
                     ClosesSession, CloseLeaves, NoJob
<1>15. CASE Clears(a) \/ Unsubs(a)
  BY <1>1, <1>15 DEF Clears, Unsubs, Job
<1>16. CASE ReadsCounts(a) \/ PublishesCounts(a)
  BY <1>1, <1>16 DEF ReadsCounts, PublishesCounts, Job
<1> QED BY <1>2, <1>3, <1>4, <1>5, <1>7, <1>8, <1>9, <1>10, <1>11, <1>12,
           <1>13, <1>14, <1>15, <1>16 DEF ActivationStep, CommonStep

\* Its list is what the registry held when it was read.
LEMMA Listed ==
    ASSUME SubsInv, NEW a \in Workers, ListsRecords(a)
    PROVE  /\ job'[a].todo = {[id |-> id, sub |-> entries[id].sub] : id \in Registered}
           /\ job'[a].rec = job[a].rec
           /\ job'[a].kind = job[a].kind
           /\ pc'[a] = "next"
<1> DEFINE T == {[id |-> id, sub |-> entries[id].sub] : id \in Registered}
           j == [job[a] EXCEPT !.todo = T]
<1>1. Go(a, "next", j)
  BY DEF ListsRecords
<1>2. j.todo = T /\ j.rec = job[a].rec /\ j.kind = job[a].kind
  BY DEF SubsInv, Placed, Job
<1> HIDE DEF T, j
<1>3. job'[a] = j /\ pc'[a] = "next"
  BY <1>1 DEF Go, SubsInv, Placed
<1> QED BY <1>2, <1>3 DEF T

\* The records a goroutine works on come from the registry.
LEMMA RecordsFrom ==
    ASSUME SubsInv, NEW a \in Workers,
           StartBegins(a) \/ ActivationStep(a) \/ DeactivationStep(a) \/ CommonStep(a)
    PROVE  /\ \A r \in job'[a].todo :
                 r \in job[a].todo \/ (r.id \in Registered /\ r.sub = entries[r.id].sub)
           /\ \/ job'[a].rec.sub = NoSub
              \/ job'[a].rec = job[a].rec
              \/ job'[a].rec \in job[a].todo
<1>1. CASE ListsRecords(a)
  BY <1>1, Listed
<1>2. CASE ~ListsRecords(a)
  BY <1>2, RecordsKept
<1> QED BY <1>1, <1>2

\* A goroutine's record is about a subscription of its intent's own, or of
\* nobody's.
OwnRecords == \A w \in Workers :
    /\ job[w].rec.sub # NoSub => live[job[w].rec.sub] \in {0, job[w].rec.id}
    /\ \A r \in job[w].todo : r.sub # NoSub => live[r.sub] \in {0, r.id}

\* Every step keeps the records' handles the intents' own.
LEMMA OwnRecordsStep ==
    ASSUME SubsInv, OwnHandles, OwnRecords, [Next]_vars PROVE OwnRecords'
<1> USE DEF SubsInv
<1> DEFINE Own(r) == r.sub # NoSub => live[r.sub] \in {0, r.id}
           Known(r) == \/ \E v \in Workers : r = job[v].rec \/ r \in job[v].todo
                       \/ r.id \in Registered /\ r.sub = entries[r.id].sub
                       \/ r.sub = NoSub
<1>1. ASSUME NEW r, Known(r) PROVE Own(r)'
  <2>1. Own(r)
    BY <1>1 DEF OwnRecords, OwnHandles
  <2>2. r.sub \in Subs \union {NoSub}
    BY <1>1 DEF Placed, Job, Record, RegInv, RegTypeOK, Entry, Registered
  <2>3. CASE NothingWakes
    BY <2>1, <2>2, <2>3 DEF NothingWakes
  <2>4. ASSUME NEW v \in Activators, Subscribes(v) PROVE Own(r)'
    <3>1. PICK s \in Subs : /\ Unreferenced(s)
                            /\ live' = [live EXCEPT ![s] = job[v].rec.id]
      BY <2>4 DEF Subscribes
    <3>2. r.sub # s
      BY <1>1, <3>1, NoSubAssumption DEF Unreferenced
    <3> QED BY <2>1, <2>2, <3>1, <3>2 DEF LinkOK
  <2> QED BY <2>3, <2>4, OnlySubscribesWakes
<1>2. ASSUME NEW w \in Workers
      PROVE  Known(job'[w].rec) /\ \A r \in job'[w].todo : Known(r)
  <2>1. CASE pc'[w] = pc[w] /\ job'[w] = job[w]
    BY <2>1
  <2>2. CASE StartBegins(w) \/ ActivationStep(w) \/ DeactivationStep(w)
               \/ CommonStep(w)
    BY <2>2, RecordsFrom
  <2> QED BY <2>1, <2>2, OneMoves
<1> HIDE DEF Known
<1> QED BY <1>1, <1>2 DEF OwnRecords

\* Whoever is about to drop a subscription it rolled back does just that.
LEMMA DropLetsGo ==
    ASSUME SubsInv, NEW a \in Workers, pc[a] = "drop",
           StartBegins(a) \/ ActivationStep(a) \/ DeactivationStep(a) \/ CommonStep(a)
    PROVE  job'[a].sub = NoSub
<1>1. RegisterDrops(a)
  BY DEF ActivationStep, RegisterBegins, RegisterAdds, RegisterConflicts,
        RegisterChecks, RegisterLooksUp, RegisterRollsBack,
        StartBegins, StartConnects, StartFails, RestoreBegins, ListsRecords,
        NextRecord, DropsStale, Subscribes, SubscribeFails, FlushSucceeds,
        FlushFails, Marks, Discards, Unmarks, StartFinishes, RestoreFinishes,
        DeactivationStep, CommonStep, CloseBegins, ClosedHookBegins,
        ClosesSession, CloseLeaves, Clears, Unsubs, ReadsCounts, PublishesCounts
<1> QED BY <1>1 DEF RegisterDrops, Sync, Go, SubsInv, Placed, Job

Entered(sub) == \E id \in Registered : entries[id].sub = sub

Recorded(sub) == \E v \in Workers : \/ job[v].rec.sub = sub
                                    \/ \E r \in job[v].todo : r.sub = sub

\* A subscription is in one place: in one entry, in one goroutine's hand, or
\* among the handles that are being unsubscribed; and whoever is about to enter
\* it is the first to know of it.
Apart(sub) ==
    /\ \A i, k \in Registered : entries[i].sub = sub /\ entries[k].sub = sub => i = k
    /\ \A w \in Workers : job[w].sub = sub =>
          /\ ~Entered(sub)
          /\ pc[w] # "drop" => ~Recorded(sub)
          /\ \A v \in Workers : sub \notin job[v].handles /\ (job[v].sub = sub => v = w)
    /\ \A w \in Workers : sub \in job[w].handles => ~Entered(sub)

AllApart == \A sub \in Subs : Apart(sub)

\* Every step keeps every subscription in one place.
LEMMA ApartStep ==
    ASSUME SubsInv, AllApart, [Next]_vars, NEW sub \in Subs
    PROVE  Apart(sub)'
<1> USE DEF SubsInv
<1>0. Apart(sub) /\ sub # NoSub
  BY NoSubAssumption DEF AllApart
<1>1. CASE UNCHANGED <<regVars, pc, job>>
  BY <1>0, <1>1 DEF Apart, Entered, Recorded, Registered, regVars
<1>2. ASSUME NEW a \in Workers,
             StartBegins(a) \/ ActivationStep(a) \/ DeactivationStep(a) \/ CommonStep(a),
             \A v \in Workers \ {a} : pc'[v] = pc[v] /\ job'[v] = job[v]
      PROVE  Apart(sub)'
  <2> job[a] \in Job
    BY DEF Placed
  <2>1. CASE Subscribes(a)
    <3>1. PICK s \in Subs : Unreferenced(s) /\ Go(a, "flush", [job[a] EXCEPT !.sub = s])
      BY <2>1 DEF Subscribes
    <3>2. /\ job'[a].sub = s
          /\ job'[a].rec = job[a].rec
          /\ job'[a].todo = job[a].todo
          /\ job'[a].handles = job[a].handles
          /\ pc'[a] = "flush" /\ pc[a] = "subscribe"
      BY <2>1, <3>1 DEF Go, Placed, Job, Subscribes
    <3>3. Registered' = Registered /\ entries' = entries
      BY <2>1 DEF Subscribes, regVars, Registered
    <3>4. (Entered(sub)' <=> Entered(sub)) /\ (Recorded(sub)' <=> Recorded(sub))
      BY <1>2, <3>2, <3>3 DEF Entered, Recorded
    <3>5. CASE s = sub
      <4>1. /\ ~Entered(sub) /\ ~Recorded(sub)
            /\ \A v \in Workers : sub \notin job[v].handles /\ job[v].sub # sub
        BY <3>1, <3>5 DEF Unreferenced, Entered, Recorded
      <4> QED BY <1>0, <1>2, <3>2, <3>3, <3>4, <3>5, <4>1 DEF Apart
    <3>6. CASE s # sub
      BY <1>0, <1>2, <3>2, <3>3, <3>4, <3>6 DEF Apart
    <3> QED BY <3>5, <3>6
  <2>2. CASE RegisterRollsBack(a)
    <3> DEFINE id == job[a].id
    <3>1. /\ pc[a] = "rollback"
          /\ Registered' = Registered \ {id}
          /\ \A i \in Registered' : entries'[i] = entries[i]
      BY <2>2 DEF RegisterRollsBack, Remove, Registered
    <3>2. /\ job'[a].rec = job[a].rec
          /\ job'[a].todo = job[a].todo
          /\ job'[a].handles = job[a].handles
      BY <2>2 DEF RegisterRollsBack, Sync, Go, Placed, Job
    <3>3. \/ job'[a].sub = job[a].sub /\ pc'[a] = "sync"
          \/ /\ pc'[a] = "drop" /\ id \in Registered
             /\ job'[a].sub = entries[id].sub
      BY <2>2 DEF RegisterRollsBack, Sync, Go, Placed, Job
    <3>4. (Entered(sub)' => Entered(sub)) /\ (Recorded(sub)' <=> Recorded(sub))
      BY <1>2, <3>1, <3>2 DEF Entered, Recorded
    <3>5. CASE id \in Registered /\ entries[id].sub = sub
      <4>1. ~Entered(sub)'
        BY <1>0, <3>1, <3>5 DEF Entered, Apart
      <4>2. \A v \in Workers : sub \notin job[v].handles /\ job[v].sub # sub
        BY <1>0, <3>5 DEF Apart, Entered
      <4> QED BY <1>0, <1>2, <3>1, <3>2, <3>3, <3>4, <4>1, <4>2 DEF Apart
    <3>6. CASE ~(id \in Registered /\ entries[id].sub = sub)
      BY <1>0, <1>2, <3>1, <3>2, <3>3, <3>4, <3>6 DEF Apart
    <3> QED BY <3>5, <3>6
  <2>3. CASE Clears(a)
    <3>1. ~Entered(sub)' /\ Registered' = Registered
      BY <1>0, <2>3 DEF Entered, Clears, ClearActiveHandles, Registered, RegInv,
                        RegTypeOK, Entry
    <3>2. /\ job'[a].handles = ActiveHandles
          /\ job'[a].sub = job[a].sub
          /\ job'[a].rec = job[a].rec
          /\ job'[a].todo = job[a].todo
          /\ pc[a] = "clear"
      BY <2>3 DEF Clears, Go, Placed, Job
    <3>3. Recorded(sub)' <=> Recorded(sub)
      BY <1>2, <3>2 DEF Recorded
    <3>4. sub \in ActiveHandles => Entered(sub)
      BY DEF ActiveHandles, Entered
    <3>5. \A i \in Registered' : entries'[i].sub # sub
      BY <3>1 DEF Entered
    <3> QED BY <1>0, <1>2, <3>1, <3>2, <3>3, <3>4, <3>5 DEF Apart
  <2>4. CASE Marks(a)
    <3> DEFINE id == job[a].rec.id
    <3>1. /\ pc[a] = "mark" /\ Registered' = Registered
          /\ \A i \in Registered : IF i = id THEN entries'[i].sub = job[a].sub
                                  ELSE entries'[i].sub = entries[i].sub
      BY <2>4 DEF Marks, MarkActive, RegInv, RegTypeOK, Registered, Entry
    <3>2. \/ job'[a].sub = NoSub
          \/ /\ job'[a].sub = job[a].sub /\ id \notin Registered
             /\ pc'[a] = "discard"
      <4> DEFINE d == Done(job[a])
                 e == [d EXCEPT !.after = "idle"]
      <4>1. \/ id \notin Registered /\ Go(a, "discard", job[a])
            \/ Go(a, "sync", e)
            \/ Go(a, "next", d)
        BY <2>4 DEF Marks, Continues, Sync
      <4>2. d.sub = NoSub /\ e.sub = NoSub
        BY DEF Done, Job
      <4> HIDE DEF d, e
      <4> QED BY <4>1, <4>2 DEF Go, Placed
    <3>3. /\ job'[a].todo \subseteq job[a].todo
          /\ job'[a].rec.sub = NoSub \/ job'[a].rec = job[a].rec \/ job'[a].rec \in job[a].todo
      BY <2>4, RecordsKept DEF Marks, ListsRecords, ActivationStep
    <3>4. job'[a].handles \subseteq job[a].handles
      BY <2>4, GetsNoSub DEF Marks, Subscribes, RegisterRollsBack, Clears, ActivationStep
    <3>5. Recorded(sub)' => Recorded(sub)
      BY <1>0, <1>2, <3>3 DEF Recorded
    <3>6. CASE job[a].sub = sub
      <4>1. /\ ~Entered(sub) /\ ~Recorded(sub)
            /\ \A v \in Workers : sub \notin job[v].handles /\ (job[v].sub = sub => v = a)
        BY <1>0, <3>1, <3>6 DEF Apart
      <4>2. \A i \in Registered : entries'[i].sub = sub => i = id
        BY <3>1, <4>1 DEF Entered
      <4>3. job'[a].sub = sub => ~Entered(sub)'
        BY <1>0, <3>1, <3>2, <4>2 DEF Entered
      <4> QED BY <1>0, <1>2, <3>1, <3>2, <3>4, <3>5, <4>1, <4>2, <4>3 DEF Apart
    <3>7. CASE job[a].sub # sub
      <4>1. \A i \in Registered : entries'[i].sub = sub => entries[i].sub = sub
        BY <3>1, <3>7
      <4>2. Entered(sub)' => Entered(sub)
        BY <3>1, <4>1 DEF Entered
      <4>3. job'[a].sub # sub
        BY <1>0, <3>2, <3>7
      <4> QED BY <1>0, <1>2, <3>1, <3>4, <3>5, <4>1, <4>2, <4>3 DEF Apart
    <3> QED BY <3>6, <3>7
  <2>5. CASE ListsRecords(a)
    <3>1. /\ pc[a] = "list" /\ pc'[a] = "next"
          /\ entries' = entries /\ Registered' = Registered
          /\ job'[a].rec = job[a].rec
          /\ \A r \in job'[a].todo : r.id \in Registered /\ r.sub = entries[r.id].sub
      BY <2>5, Listed DEF ListsRecords, regVars, Registered
    <3>2. job'[a].sub \in {job[a].sub, NoSub} /\ job'[a].handles \subseteq job[a].handles
      BY <2>5, GetsNoSub DEF ListsRecords, Subscribes, RegisterRollsBack, Clears, ActivationStep
    <3>3. Entered(sub)' <=> Entered(sub)
      BY <3>1 DEF Entered
    <3>4. Recorded(sub)' => Recorded(sub) \/ Entered(sub)
      BY <1>2, <3>1 DEF Recorded, Entered
    <3> QED BY <1>0, <1>2, <3>1, <3>2, <3>3, <3>4 DEF Apart
  <2>6. CASE ~Subscribes(a) /\ ~RegisterRollsBack(a) /\ ~Clears(a) /\ ~Marks(a)
               /\ ~ListsRecords(a)
    <3>1. NothingEntered
      BY <1>2, <2>6, StepEnters
    <3>2. job'[a].sub \in {job[a].sub, NoSub} /\ job'[a].handles \subseteq job[a].handles
      BY <1>2, <2>6, GetsNoSub
    <3>3. /\ job'[a].todo \subseteq job[a].todo
          /\ job'[a].rec.sub = NoSub \/ job'[a].rec = job[a].rec \/ job'[a].rec \in job[a].todo
      BY <1>2, <2>6, RecordsKept
    <3>4. pc[a] = "drop" => job'[a].sub = NoSub
      BY <1>2, DropLetsGo
    <3>5. Recorded(sub)' => Recorded(sub)
      BY <1>0, <1>2, <3>3 DEF Recorded
    <3>6. \A i \in Registered' : entries'[i].sub = sub => i \in Registered /\ entries[i].sub = sub
      BY <1>0, <3>1 DEF NothingEntered
    <3>7. Entered(sub)' => Entered(sub)
      BY <3>6 DEF Entered
    <3> QED BY <1>0, <1>2, <3>2, <3>4, <3>5, <3>6, <3>7 DEF Apart
  <2> QED BY <2>1, <2>2, <2>3, <2>4, <2>5, <2>6
<1> QED BY <1>1, <1>2, OneActor

-----------------------------------------------------------------------------
(* Start against Close.                                                    *)

\* What a goroutine does from where it stands.
LEMMA PlaceSteps ==
    ASSUME NEW a \in Workers,
           StartBegins(a) \/ ActivationStep(a) \/ DeactivationStep(a) \/ CommonStep(a)
    PROVE  /\ pc[a] = "check" => RegisterChecks(a)
           /\ pc[a] = "lookup" => RegisterLooksUp(a)
           /\ pc[a] = "starting" => StartConnects(a) \/ StartFails(a)
           /\ pc[a] = "list" => ListsRecords(a)
           /\ pc[a] = "next" => NextRecord(a)
           /\ pc[a] = "stale" => DropsStale(a)
           /\ pc[a] = "subscribe" => Subscribes(a) \/ SubscribeFails(a)
           /\ pc[a] = "flush" => FlushSucceeds(a) \/ FlushFails(a)
           /\ pc[a] = "mark" => Marks(a)
           /\ pc[a] = "discard" => Discards(a)
           /\ pc[a] = "unmark" => Unmarks(a)
           /\ pc[a] = "clear" => Clears(a)
           /\ pc[a] = "sync" => ReadsCounts(a)
           /\ pc[a] = "publish" => PublishesCounts(a)
<1>1. CASE StartBegins(a) \/ ActivationStep(a)
  BY <1>1
  DEF ActivationStep, RegisterBegins, RegisterAdds, RegisterConflicts,
      RegisterChecks, RegisterLooksUp, RegisterRollsBack, RegisterDrops,
      StartBegins, StartConnects, StartFails, RestoreBegins, ListsRecords,
      NextRecord, DropsStale, Subscribes, SubscribeFails, FlushSucceeds,
      FlushFails, Marks, Discards, Unmarks, StartFinishes, RestoreFinishes
<1>2. CASE DeactivationStep(a) \/ CommonStep(a)
  BY <1>2 DEF DeactivationStep, CommonStep, CloseBegins, ClosedHookBegins,
      ClosesSession, CloseLeaves, Clears, Unsubs, ReadsCounts, PublishesCounts
<1> QED BY <1>1, <1>2

\* Only Start starts, only a listing takes it past its list, and whoever comes
\* to clear has turned the callbacks off.
LEMMA StartsOnly ==
    ASSUME SubsInv, Carrying, NEW a \in Workers,
           StartBegins(a) \/ ActivationStep(a) \/ DeactivationStep(a) \/ CommonStep(a)
    PROVE  /\ pc'[a] = "starting" => StartBegins(a)
           /\ job'[a].kind = "start" => StartBegins(a) \/ job[a].kind = "start"
           /\ Past(a)' => Past(a) \/ (ListsRecords(a) /\ job[a].kind = "start")
           /\ pc'[a] = "clear" => ~enabled'
<1> USE DEF SubsInv, Sync
<1> DEFINE Same(p, j) == /\ p # "starting"
                         /\ p # "clear"
                         /\ j.kind = "start" => job[a].kind = "start"
                         /\ PastAt(p, j) => PastAt(pc[a], job[a])
<1> /\ job[a] \in Job /\ NoJob \in Job /\ NoJob.kind = "none"
    /\ Carries(pc[a], job[a])
  BY NoJobOK DEF Placed, NoJob, Carrying
<1> ~PastAt("idle", NoJob)
  BY DEF PastAt
<1>1. ASSUME NEW p, NEW j, Go(a, p, j), Same(p, j)
      PROVE  Same(pc'[a], job'[a])
  BY <1>1 DEF Go, Placed
<1>2. CASE \/ \E key \in Keys : RegisterBegins(a, key)
           \/ RegisterConflicts(a) \/ RegisterChecks(a)
  BY <1>1, <1>2 DEF RegisterBegins, RegisterConflicts, RegisterChecks, NoJob,
                    PastAt, Acting, Past
<1>3. CASE RegisterAdds(a) \/ RegisterLooksUp(a)
  BY <1>1, <1>3 DEF RegisterAdds, RegisterLooksUp, Job, PastAt, Acting, Past, Carries
<1>4. CASE RegisterDrops(a) \/ FlushFails(a) \/ Subscribes(a)
  BY <1>1, <1>4 DEF RegisterDrops, FlushFails, Subscribes, Job, PastAt, Acting, Past
<1>5. CASE StartBegins(a)
  BY <1>5 DEF StartBegins, PastAt, Acting, Past, Go, Placed
<1>6. CASE StartConnects(a) \/ StartFails(a) \/ RestoreBegins(a)
  BY <1>1, <1>6 DEF StartConnects, StartFails, RestoreBegins, NoJob, PastAt,
                    Acting, Past
<1>7. CASE ListsRecords(a)
  BY <1>7, Listed DEF PastAt, Past
<1>8. CASE DropsStale(a)
  BY <1>1, <1>8 DEF DropsStale, Job, PastAt, Acting, Past
<1>9. CASE NextRecord(a)
  BY <1>1, <1>9 DEF NextRecord, Job, PastAt, Acting, Past
<1>10. CASE SubscribeFails(a) \/ FlushSucceeds(a)
  BY <1>1, <1>10 DEF SubscribeFails, FlushSucceeds, PastAt, Acting, Past
<1>11. CASE Marks(a) \/ Discards(a)
  BY <1>1, <1>11 DEF Marks, Discards, Continues, Done, NoJob, Job, PastAt,
                     Acting, Past
<1>12. CASE Unmarks(a)
  BY <1>1, <1>12 DEF Unmarks, Gives, Done, NoJob, Job, PastAt, Acting, Past
<1>13. CASE RegisterRollsBack(a)
  BY <1>1, <1>13 DEF RegisterRollsBack, Job, PastAt, Acting, Past
<1>14. CASE StartFinishes(a)
  BY <1>14 DEF StartFinishes, PastAt, Acting, Past, Go, Placed
<1>15. CASE RestoreFinishes(a)
  BY <1>1, <1>15 DEF RestoreFinishes, Past
<1>16. CASE CloseBegins(a) \/ ClosedHookBegins(a)
  BY <1>16 DEF CloseBegins, ClosedHookBegins, NoJob, PastAt, Acting, Past, Go,
               Placed
<1>17. CASE ClosesSession(a) \/ CloseLeaves(a)
  BY <1>1, <1>17 DEF ClosesSession, CloseLeaves, Past
<1>18. CASE Clears(a) \/ Unsubs(a)
  BY <1>1, <1>18 DEF Clears, Unsubs, Job, PastAt, Acting, Past
<1>19. CASE ReadsCounts(a) \/ PublishesCounts(a)
  BY <1>1, <1>19 DEF ReadsCounts, PublishesCounts, Job, PastAt, Acting, Past
<1> QED BY <1>2, <1>3, <1>4, <1>5, <1>6, <1>7, <1>8, <1>9, <1>10, <1>11, <1>12,
           <1>13, <1>14, <1>15, <1>16, <1>17, <1>18, <1>19
        DEF ActivationStep, CommonStep, DeactivationStep

\* One goroutine starts the client.
OneStarter == \A v, w \in Starters : v = w

\* Before the first Start nobody starts, a session connects while somebody
\* starts it, and without a connection nothing is subscribed.
SessionOK ==
    /\ session = "new" => \A w \in Workers : job[w].kind # "start"
    /\ session = "connecting" <=> \E w \in Workers : pc[w] = "starting"
    /\ session \notin {"up", "down"} => \A sub \in Subs : live[sub] = 0

\* While somebody is about to clear the registry the callbacks are off.
OffWhileClearing == \A w \in Workers : pc[w] = "clear" => ~enabled

\* Only the steps of Start, of session.Close and of the link move the session.
LEMMA SessionMoves ==
    ASSUME [Next]_vars
    PROVE  \/ UNCHANGED session
           \/ \E a \in Starters : StartBegins(a)
           \/ \E a \in Activators : StartConnects(a) \/ StartFails(a)
           \/ \E a \in Deactivators : ClosesSession(a)
           \/ LinkDrops /\ UNCHANGED <<pc, job>>
           \/ LinkReturns /\ UNCHANGED <<pc, job>>
           \/ LinkLost /\ UNCHANGED <<pc, job>>
<1> USE DEF linkVars
<1>1. ASSUME NEW a \in Activators, ActivationStep(a)
      PROVE  UNCHANGED session \/ StartConnects(a) \/ StartFails(a)
  BY <1>1 DEF ActivationStep, RegisterBegins, RegisterAdds, RegisterConflicts,
      RegisterChecks, RegisterLooksUp, RegisterRollsBack, RegisterDrops,
      RestoreBegins, ListsRecords, NextRecord, DropsStale, Subscribes,
      SubscribeFails, FlushSucceeds, FlushFails, Marks, Discards, Unmarks,
      StartFinishes, RestoreFinishes
<1>2. ASSUME NEW a \in Deactivators, DeactivationStep(a)
      PROVE  UNCHANGED session \/ ClosesSession(a)
  BY <1>2 DEF DeactivationStep, CloseBegins, ClosedHookBegins, CloseLeaves
<1>3. ASSUME NEW a \in Workers, CommonStep(a) PROVE UNCHANGED session
  BY <1>3 DEF CommonStep, Clears, Unsubs, ReadsCounts, PublishesCounts
<1> QED BY <1>1, <1>2, <1>3 DEF Next, vars

\* With one starter every step keeps the session's state right.
LEMMA SessionStep ==
    ASSUME OneStarter, SubsInv, Carrying, Playing, SessionOK, [Next]_vars
    PROVE  SessionOK'
<1> USE DEF SubsInv
<1> session \in Session
  BY DEF LinkOK
<1>0. ASSUME NEW v \in Workers, NEW w \in Workers,
             pc[v] = "starting", pc[w] = "starting"
      PROVE  v = w
  BY <1>0 DEF Playing, Plays, OneStarter
<1>1. ASSUME NEW w \in Workers, \A a \in Starters : ~StartBegins(a)
      PROVE  /\ pc'[w] = "starting" => pc[w] = "starting"
             /\ job'[w].kind = "start" => job[w].kind = "start"
  <2>1. pc'[w] = "starting" \/ job'[w].kind = "start" => w \in Starters
    BY PlayingStep DEF Playing, Plays
  <2> QED BY <1>1, <2>1, OneMoves, StartsOnly
<1>2. ASSUME NEW w \in Workers, pc[w] = "starting",
             \A a \in Activators : ~StartConnects(a) /\ ~StartFails(a)
      PROVE  pc'[w] = "starting"
  <2>1. w \in Activators
    BY <1>2, RolesAssumption DEF Playing, Plays
  <2>2. CASE StartBegins(w) \/ ActivationStep(w) \/ DeactivationStep(w) \/ CommonStep(w)
    BY <1>2, <2>1, <2>2, PlaceSteps
  <2> QED BY <1>2, <2>2, OneMoves
<1>3. ASSUME NEW a \in Starters, StartBegins(a) PROVE SessionOK'
  <2>1. a \in Workers /\ UNCHANGED live /\ pc[a] = "idle"
    BY <1>3, RolesAssumption DEF StartBegins, Workers
  <2>2. \/ session \in {"up", "down"} /\ session' = session /\ pc'[a] = "list"
        \/ session \in {"new", "closed"} /\ session' = "connecting" /\ pc'[a] = "starting"
    BY <1>3, <2>1 DEF StartBegins, Go, Placed
  <2>3. \A v \in Workers : v # a => pc'[v] = pc[v]
    BY <1>3 DEF StartBegins, Go, Placed
  <2> QED BY <2>1, <2>2, <2>3 DEF SessionOK
<1>4. ASSUME NEW a \in Activators, StartConnects(a) \/ StartFails(a)
      PROVE  SessionOK'
  <2>1. /\ a \in Workers /\ UNCHANGED live /\ pc[a] = "starting"
        /\ session' \in {"up", "closed"}
    BY <1>4, RolesAssumption DEF StartConnects, StartFails, Workers
  <2>2. pc'[a] # "starting" /\ \A v \in Workers : v # a => pc'[v] = pc[v]
    BY <1>4, <2>1 DEF StartConnects, StartFails, Go, Placed
  <2> QED BY <1>0, <2>1, <2>2 DEF SessionOK
<1>5. ASSUME NEW a \in Deactivators, ClosesSession(a) PROVE SessionOK'
  <2>1. /\ a \in Workers /\ session # "connecting" /\ session' = "closed"
        /\ \A sub \in Subs : live'[sub] = 0
    BY <1>5 DEF ClosesSession, NothingLive, Workers
  <2>2. \A v \in Workers : pc'[v] = "starting" => pc[v] = "starting"
    BY <1>5 DEF ClosesSession, Go, Placed
  <2> QED BY <2>1, <2>2 DEF SessionOK
<1>6. CASE (LinkDrops \/ LinkReturns \/ LinkLost) /\ UNCHANGED <<pc, job>>
  BY <1>6 DEF LinkDrops, LinkReturns, LinkLost, NothingLive, SessionOK
<1>7. CASE /\ UNCHANGED session
           /\ \A a \in Starters : ~StartBegins(a)
           /\ \A a \in Activators : ~StartConnects(a) /\ ~StartFails(a)
  <2>1. session \notin {"up", "down"} => NothingWakes
    BY OnlySubscribesWakes DEF Subscribes
  <2> QED BY <1>1, <1>2, <1>7, <2>1 DEF SessionOK, NothingWakes
<1> QED BY <1>3, <1>4, <1>5, <1>6, <1>7, SessionMoves

\* The callbacks are turned on by a Start that has worked through its list.
LEMMA TurnsOn ==
    ASSUME [Next]_vars, ~enabled, enabled'
    PROVE  \E a \in Activators : StartFinishes(a)
<1> USE DEF clientVars
<1>1. ASSUME NEW a \in Activators, ActivationStep(a)
      PROVE  UNCHANGED enabled \/ StartFinishes(a)
  BY <1>1 DEF ActivationStep, RegisterBegins, RegisterAdds, RegisterConflicts,
      RegisterChecks, RegisterLooksUp, RegisterRollsBack, RegisterDrops,
      StartConnects, StartFails, RestoreBegins, ListsRecords, NextRecord,
      DropsStale, Subscribes, SubscribeFails, FlushSucceeds, FlushFails, Marks,
      Discards, Unmarks, RestoreFinishes
<1>2. ASSUME NEW a \in Workers,
             StartBegins(a) \/ DeactivationStep(a) \/ CommonStep(a)
      PROVE  UNCHANGED enabled \/ enabled' = FALSE
  BY <1>2 DEF StartBegins, DeactivationStep, CloseBegins, ClosedHookBegins,
      ClosesSession, CloseLeaves, CommonStep, Clears, Unsubs, ReadsCounts,
      PublishesCounts
<1> QED BY <1>1, <1>2, RolesAssumption DEF Next, vars, Workers

\* Every step keeps the callbacks off while somebody clears.
LEMMA OffStep ==
    ASSUME OneStarter, SubsInv, Carrying, Playing, Uncrossed, OffWhileClearing,
           [Next]_vars
    PROVE  OffWhileClearing'
<1> USE DEF SubsInv
<1> SUFFICES ASSUME NEW w \in Workers, pc'[w] = "clear" PROVE ~enabled'
  BY DEF OffWhileClearing
<1>1. CASE StartBegins(w) \/ ActivationStep(w) \/ DeactivationStep(w) \/ CommonStep(w)
  BY <1>1, StartsOnly
<1>2. CASE pc'[w] = pc[w]
  <2>1. ~enabled
    BY <1>2 DEF OffWhileClearing
  <2> SUFFICES ASSUME enabled' PROVE FALSE
    OBVIOUS
  <2>2. PICK a \in Activators : StartFinishes(a)
    BY <2>1, TurnsOn
  <2>3. pc[a] = "finish" /\ Past(a) /\ a \in Starters /\ a \in Workers
    BY <2>2 DEF StartFinishes, Past, PastAt, Playing, Plays, Workers
  <2>4. w \notin Deactivators
    BY <1>2, <2>3 DEF Uncrossed
  <2>5. w \in Starters
    BY <1>2, <2>4 DEF Playing, Plays
  <2> QED BY <1>2, <2>3, <2>5 DEF OneStarter
<1> QED BY <1>1, <1>2, OneMoves

-----------------------------------------------------------------------------
(* How subscriptions die.                                                  *)

\* A step that ends a subscription unsubscribes it, or the connection is gone.
LEMMA DiesHow ==
    ASSUME SubsInv, [Next]_vars, NEW sub \in Subs, live'[sub] # live[sub],
           live'[sub] = 0
    PROVE  \/ \E w \in Workers : job[w].sub = sub /\ pc[w] \in {"flush", "discard", "drop"}
           \/ \E w \in Workers : sub \in job[w].handles
           \/ \E w \in Activators : DropsStale(w) /\ job[w].rec.sub = sub
           \/ \E w \in Deactivators : ClosesSession(w)
           \/ LinkLost
<1> USE DEF SubsInv, LinkOK, linkVars, Unsubscribe
<1>1. ASSUME NEW w \in Activators, StartBegins(w) \/ ActivationStep(w)
      PROVE  \/ job[w].sub = sub /\ pc[w] \in {"flush", "discard", "drop"}
             \/ DropsStale(w) /\ job[w].rec.sub = sub
  <2>1. CASE RegisterDrops(w) \/ FlushFails(w) \/ Discards(w)
    BY <2>1 DEF RegisterDrops, FlushFails, Discards
  <2>2. CASE DropsStale(w)
    BY <2>2 DEF DropsStale
  <2>3. CASE Subscribes(w)
    <3>1. PICK s \in Subs : Unreferenced(s) /\ live' = [live EXCEPT ![s] = job[w].rec.id]
      BY <2>3 DEF Subscribes
    <3> QED BY <3>1 DEF Unreferenced
  <2> QED BY <1>1, <2>1, <2>2, <2>3
      DEF ActivationStep, RegisterBegins, RegisterAdds, RegisterConflicts,
          RegisterChecks, RegisterLooksUp, RegisterRollsBack, StartBegins,
          StartConnects, StartFails, RestoreBegins, ListsRecords, NextRecord,
          SubscribeFails, FlushSucceeds, Marks, Unmarks, StartFinishes,
          RestoreFinishes
<1>2. ASSUME NEW w \in Workers, CommonStep(w) PROVE sub \in job[w].handles
  <2>1. CASE Unsubs(w)
    BY <2>1 DEF Unsubs
  <2> QED BY <1>2, <2>1 DEF CommonStep, Clears, ReadsCounts, PublishesCounts
<1>3. ASSUME NEW w \in Deactivators, DeactivationStep(w) PROVE ClosesSession(w)
  BY <1>3 DEF DeactivationStep, CloseBegins, ClosedHookBegins, CloseLeaves
<1>4. ~LinkDrops /\ ~LinkReturns
  BY DEF LinkDrops, LinkReturns
<1> QED BY <1>1, <1>2, <1>3, <1>4, RolesAssumption DEF Next, Workers, vars

\* Something is to clear the registry: a closed handler is due, or Close or one
\* of those is about to.
ClearDue == closedHooks > 0 \/ \E d \in Deactivators : pc[d] = "clear"

\* It does, or it still is to.
LEMMA ClearDueStays ==
    ASSUME SubsInv, ClearDue, [Next]_vars
    PROVE  ClearDue' \/ \E d \in Deactivators : Clears(d)
<1> USE DEF SubsInv
<1>1. CASE closedHooks > 0
  <2> closedHooks \in Nat
    BY DEF LinkOK
  <2> USE DEF linkVars
  <2>1. ASSUME NEW w \in Workers, w \in Activators, StartBegins(w) \/ ActivationStep(w)
        PROVE  closedHooks' \in {closedHooks, closedHooks + 1}
    BY <2>1 DEF ActivationStep, RegisterBegins, RegisterAdds, RegisterConflicts,
        RegisterChecks, RegisterLooksUp, RegisterRollsBack, RegisterDrops,
        StartBegins, StartConnects, StartFails, RestoreBegins, ListsRecords,
        NextRecord, DropsStale, Subscribes, SubscribeFails, FlushSucceeds,
        FlushFails, Marks, Discards, Unmarks, StartFinishes, RestoreFinishes
  <2>2. ASSUME NEW w \in Deactivators, ClosedHookBegins(w) PROVE pc'[w] = "clear"
    BY <2>2 DEF ClosedHookBegins, Go, Placed, Workers
  <2>3. ASSUME NEW w \in Deactivators, DeactivationStep(w), ~ClosedHookBegins(w)
        PROVE  closedHooks' \in {closedHooks, closedHooks + 1}
    BY <2>3 DEF DeactivationStep, CloseBegins, ClosesSession, CloseLeaves
  <2>4. ASSUME NEW w \in Workers, CommonStep(w) PROVE UNCHANGED closedHooks
    BY <2>4 DEF CommonStep, Clears, Unsubs, ReadsCounts, PublishesCounts
  <2>5. ASSUME LinkDrops \/ LinkReturns \/ LinkLost
        PROVE  closedHooks' \in {closedHooks, closedHooks + 1}
    BY <2>5 DEF LinkDrops, LinkReturns, LinkLost
  <2>6. \/ closedHooks' \in {closedHooks, closedHooks + 1}
        \/ \E w \in Deactivators : pc'[w] = "clear"
    BY <2>1, <2>2, <2>3, <2>4, <2>5, RolesAssumption DEF Next, Workers, vars
  <2> QED BY <1>1, <2>6 DEF ClearDue
<1>2. ASSUME NEW d \in Deactivators, pc[d] = "clear" PROVE ClearDue' \/ Clears(d)
  BY <1>2, OneMoves, PlaceSteps, RolesAssumption DEF ClearDue, Workers
<1> QED BY <1>1, <1>2 DEF ClearDue

\* When the connection goes, either its closed handler will clear the registry
\* or nothing was subscribed.
LEMMA ConnectionGone ==
    ASSUME SubsInv, SessionOK, LinkLost \/ \E w \in Deactivators : ClosesSession(w)
    PROVE  ClearDue' \/ \A sub \in Subs : live[sub] = 0
<1> closedHooks \in Nat
  BY DEF SubsInv, LinkOK
<1>1. CASE LinkLost
  BY <1>1 DEF LinkLost, ClearDue
<1>2. ASSUME NEW w \in Deactivators, ClosesSession(w)
      PROVE  ClearDue' \/ \A sub \in Subs : live[sub] = 0
  BY <1>2 DEF ClosesSession, ClearDue, SessionOK
<1> QED BY <1>1, <1>2

\* A subscription that is about to be entered delivers to its intent, unless
\* the registry is to be cleared.
MarkLive == \A w \in Activators :
    pc[w] = "mark" => ClearDue \/ live[job[w].sub] = job[w].rec.id

\* Every step keeps that.
LEMMA MarkLiveStep ==
    ASSUME SubsInv, OwnHandles, AllApart, SessionOK, Uncrossed, MarkLive,
           [Next]_vars
    PROVE  MarkLive'
<1> USE DEF SubsInv
<1> SUFFICES ASSUME NEW w \in Activators, pc'[w] = "mark", ~ClearDue'
             PROVE  live'[job'[w].sub] = job'[w].rec.id
  BY DEF MarkLive
<1> DEFINE s == job[w].sub
<1>0. w \in Workers
  BY DEF Workers
<1>1. /\ pc[w] \in {"flush", "mark"}
      /\ job'[w].sub = s /\ job'[w].rec = job[w].rec
  <2>1. ~Subscribes(w)
    BY <1>0 DEF Subscribes, Go, Placed
  <2> QED BY <1>0, <2>1, ComesFromSubscribe
<1>2. s \in Subs
  BY <1>0, <1>1 DEF Placed, Holds
<1>3. CASE pc[w] = "flush"
  <2>1. FlushSucceeds(w)
    <3>1. ~FlushFails(w)
      BY <1>0 DEF FlushFails, Go, Placed
    <3> QED BY <1>0, <1>3, <3>1, OneMoves, PlaceSteps
  <2>2. live[s] # 0 /\ live' = live
    BY <2>1 DEF FlushSucceeds, linkVars
  <2>3. live[s] \in {0, job[w].rec.id}
    BY <1>0, <1>3 DEF OwnHandles
  <2> QED BY <1>1, <2>2, <2>3
<1>4. CASE pc[w] = "mark"
  <2>1. ~ClearDue
    BY <1>4, ClearDueStays DEF Uncrossed, Clears
  <2>2. live[s] = job[w].rec.id
    BY <1>4, <2>1 DEF MarkLive
  <2> SUFFICES ASSUME live'[s] # live[s] PROVE FALSE
    BY <1>1, <2>2
  <2>3. live'[s] = 0
    <3>1. ASSUME NEW v \in Activators, Subscribes(v) PROVE live'[s] = live[s]
      <4>1. PICK t \in Subs : Unreferenced(t) /\ live' = [live EXCEPT ![t] = job[v].rec.id]
        BY <3>1 DEF Subscribes
      <4>2. t # s
        BY <1>0, <4>1 DEF Unreferenced
      <4> QED BY <1>2, <4>1, <4>2 DEF LinkOK
    <3> QED BY <1>2, <3>1, OnlySubscribesWakes DEF NothingWakes
  <2>4. /\ \A v \in Workers : s \notin job[v].handles /\ (job[v].sub = s => v = w)
        /\ \A v \in Workers : job[v].rec.sub # s
    BY <1>0, <1>2, <1>4 DEF AllApart, Apart, Recorded
  <2>5. LinkLost \/ \E v \in Deactivators : ClosesSession(v)
    BY <1>2, <1>4, <2>3, <2>4, DiesHow, RolesAssumption DEF Workers
  <2>6. live[s] = 0
    BY <1>2, <2>5, ConnectionGone
  <2> QED BY <2>3, <2>6
<1> QED BY <1>1, <1>3, <1>4

-----------------------------------------------------------------------------
(* Entered handles.                                                        *)

\* A goroutine is at work to give the intent another handle.
Replaces(w, id) == /\ pc[w] \in {"subscribe", "flush", "mark", "unmark"}
                   /\ job[w].rec.id = id

\* It ends by entering the handle, or the failure.
LEMMA ReplacesOn ==
    ASSUME SubsInv, [Next]_vars, NEW w \in Activators, NEW id, Replaces(w, id)
    PROVE  Replaces(w, id)' \/ Marks(w) \/ Unmarks(w)
<1> USE DEF SubsInv
<1> w \in Workers /\ job[w] \in Job
  BY DEF Workers, Placed
<1>1. CASE Subscribes(w) \/ SubscribeFails(w) \/ FlushSucceeds(w) \/ FlushFails(w)
  BY <1>1 DEF Subscribes, SubscribeFails, FlushSucceeds, FlushFails, Go, Placed,
              Job, Replaces
<1>2. CASE pc'[w] = pc[w] /\ job'[w] = job[w]
  BY <1>2 DEF Replaces
<1> QED BY <1>1, <1>2, OneMoves, PlaceSteps DEF Replaces

\* An entered handle delivers to its intent, unless it is being replaced or the
\* registry is to be cleared.
HandleOK(id) == entries[id].sub # NoSub =>
    \/ ClearDue
    \/ live[entries[id].sub] = id
    \/ \E w \in Activators : Replaces(w, id)

HandlesOK == \A id \in Registered : HandleOK(id)

\* Every step keeps that.
LEMMA HandlesOKStep ==
    ASSUME SubsInv, OwnHandles, OwnRecords, AllApart, SessionOK, MarkLive,
           HandlesOK, [Next]_vars
    PROVE  HandlesOK'
<1> USE DEF SubsInv
<1> SUFFICES ASSUME NEW id \in Registered', entries'[id].sub # NoSub, ~ClearDue',
                    \A w \in Activators : ~Replaces(w, id)'
             PROVE  live'[entries'[id].sub] = id
  BY DEF HandlesOK, HandleOK
<1> DEFINE s == entries'[id].sub
<1>1. \A w \in Workers : ~Clears(w)
  BY DEF Clears, ClearActiveHandles, RegInv, RegTypeOK, Registered, Entry
<1>2. ~ClearDue
  BY <1>1, ClearDueStays DEF Workers
<1>3. ASSUME NEW w \in Activators, Marks(w), job[w].rec.id = id
      PROVE  live'[s] = id
  <2>1. s = job[w].sub /\ live' = live /\ pc[w] = "mark"
    BY <1>3 DEF Marks, MarkActive, RegInv, RegTypeOK, Registered, Entry, linkVars
  <2> QED BY <1>2, <1>3, <2>1 DEF MarkLive
<1>4. CASE \A w \in Activators : Marks(w) => job[w].rec.id # id
  <2>1. id \in Registered /\ entries[id].sub = s
    <3>1. CASE NothingEntered
      BY <3>1 DEF NothingEntered
    <3>2. ASSUME NEW w \in Activators, Marks(w)
          PROVE  id \in Registered /\ entries[id].sub = s
      BY <1>4, <3>2 DEF Marks, MarkActive, RegInv, RegTypeOK, Registered, Entry
    <3> QED BY <3>1, <3>2, OnlyMarksEnters
  <2>2. s \in Subs /\ id # 0
    BY <2>1 DEF RegInv, RegTypeOK, Registered, Entry, IDs
  <2>3. \A w \in Activators : ~Replaces(w, id)
    <3>1. ASSUME NEW w \in Activators, Replaces(w, id), Unmarks(w) PROVE FALSE
      BY <2>1, <3>1 DEF Replaces, Unmarks, MarkInactive, RegInv, RegTypeOK,
                        Registered, Entry
    <3> QED BY <1>4, <3>1, ReplacesOn DEF Replaces
  <2>4. live[s] = id
    BY <1>2, <2>1, <2>3 DEF HandlesOK, HandleOK
  <2> SUFFICES ASSUME live'[s] # live[s] PROVE FALSE
    BY <2>4
  <2>5. live'[s] = 0
    <3>1. ASSUME NEW v \in Activators, Subscribes(v) PROVE live'[s] = live[s]
      <4>1. PICK t \in Subs : Unreferenced(t) /\ live' = [live EXCEPT ![t] = job[v].rec.id]
        BY <3>1 DEF Subscribes
      <4>2. t # s
        BY <2>1, <4>1 DEF Unreferenced
      <4> QED BY <2>2, <4>1, <4>2 DEF LinkOK
    <3> QED BY <2>2, <3>1, OnlySubscribesWakes DEF NothingWakes
  <2>6. \A v \in Workers : job[v].sub # s /\ s \notin job[v].handles
    BY <2>1, <2>2 DEF AllApart, Apart, Entered
  <2>7. ASSUME NEW v \in Activators, DropsStale(v), job[v].rec.sub = s
        PROVE  FALSE
    <3>1. v \in Workers /\ job[v] \in Job
      BY DEF Workers, Placed
    <3>2. job[v].rec.id = id
      BY <2>2, <2>4, <2>7, <3>1, NoSubAssumption DEF OwnRecords
    <3>3. pc'[v] = "subscribe" /\ job'[v].rec.id = job[v].rec.id
      BY <2>7, <3>1 DEF DropsStale, Go, Placed, Job, Record
    <3> QED BY <3>2, <3>3 DEF Replaces
  <2>8. LinkLost \/ \E v \in Deactivators : ClosesSession(v)
    BY <2>2, <2>5, <2>6, <2>7, DiesHow
  <2> QED BY <2>2, <2>4, <2>8, ConnectionGone
<1> QED BY <1>3, <1>4

-----------------------------------------------------------------------------
(* Entries without a handle.                                               *)

\* Where the records an activation has still to come to matter.
Working == Acting \union {"next"}

\* A goroutine is at work for the intent: it activates it, has it on its list,
\* or registers it.
Busy(w, id) ==
    \/ pc[w] = "stale" /\ job[w].rec.id = id
    \/ Replaces(w, id)
    \/ /\ pc[w] \in Working
       /\ \E r \in job[w].todo : r.id = id /\ (r.sub = NoSub \/ job[w].kind = "restore")
    \/ /\ job[w].kind = "register" /\ job[w].id = id
       /\ \/ pc[w] \in {"check", "lookup"}
          \/ pc[w] \in {"sync", "publish"} /\ job[w].after = "check"

\* The next Start will take the intent up: none has listed the records yet, and
\* the client is not started, not connected, or being started.
Awaits == /\ \A w \in Activators : ~Past(w)
          /\ \/ ~enabled
             \/ session \notin {"up", "down"}
             \/ \E w \in Starters : pc[w] \in {"starting", "list"} /\ job[w].kind = "start"

\* An intent without a handle has an error, or will be seen to.
BareOK(id) == entries[id].sub = NoSub =>
    \/ entries[id].err
    \/ ClearDue
    \/ Awaits
    \/ \E w \in Activators : Busy(w, id)

BaresOK == \A id \in Registered : BareOK(id)

\* An intent that is new is being registered.
LEMMA NewIntent ==
    ASSUME SubsInv, Carrying, [Next]_vars, NEW id \in Registered', id \notin Registered
    PROVE  \E w \in Activators : Busy(w, id)'
<1> USE DEF SubsInv
<1>1. ASSUME NEW w \in Activators, RegisterAdds(w) PROVE Busy(w, id)'
  <2>1. w \in Workers /\ job[w] \in Job /\ Carries(pc[w], job[w])
    BY DEF Workers, Placed, Carrying
  <2>2. job[w].id = id /\ pc[w] = "add"
    BY <1>1 DEF RegisterAdds, Add, Registered
  <2>3. /\ pc'[w] = "sync" /\ job'[w].after = "check"
        /\ job'[w].kind = job[w].kind /\ job'[w].id = job[w].id
    BY <1>1, <2>1 DEF RegisterAdds, Sync, Go, Placed, Job
  <2> QED BY <2>1, <2>2, <2>3 DEF Busy, Carries
<1>2. ASSUME NEW w \in Workers,
             StartBegins(w) \/ ActivationStep(w) \/ DeactivationStep(w) \/ CommonStep(w),
             ~RegisterAdds(w)
      PROVE  FALSE
  <2> USE DEF Registered, RegInv, RegTypeOK, regVars
  <2>1. CASE RegisterRollsBack(w)
    BY <2>1 DEF RegisterRollsBack, Remove
  <2>2. CASE Marks(w)
    BY <2>2 DEF Marks, MarkActive
  <2>3. CASE Unmarks(w)
    BY <2>3 DEF Unmarks, MarkInactive
  <2>4. CASE Clears(w)
    BY <2>4 DEF Clears, ClearActiveHandles
  <2>5. CASE UNCHANGED entries
    BY <2>5
  <2>6. CASE StartBegins(w) \/ ActivationStep(w)
    BY <1>2, <2>1, <2>2, <2>3, <2>5, <2>6
       DEF ActivationStep, RegisterBegins, TakeID, RegisterConflicts, AddConflict,
           RegisterChecks, RegisterLooksUp, RegisterDrops, StartBegins,
           StartConnects, StartFails, RestoreBegins, ListsRecords, NextRecord,
           DropsStale, Subscribes, SubscribeFails, FlushSucceeds, FlushFails,
           Discards, StartFinishes, RestoreFinishes
  <2>7. CASE DeactivationStep(w) \/ CommonStep(w)
    BY <2>4, <2>5, <2>7
       DEF DeactivationStep, CommonStep, CloseBegins, ClosedHookBegins,
           ClosesSession, CloseLeaves, Unsubs, ReadsCounts, PublishesCounts
  <2> QED BY <1>2, <2>6, <2>7
<1>3. ASSUME NEW w \in Workers, RegisterAdds(w), DeactivationStep(w) \/ CommonStep(w)
      PROVE  FALSE
  BY <1>3 DEF RegisterAdds, DeactivationStep, CommonStep, CloseBegins,
       ClosedHookBegins, ClosesSession, CloseLeaves, Clears, Unsubs,
       ReadsCounts, PublishesCounts
<1>4. ASSUME NEW w \in Workers, RegisterAdds(w), StartBegins(w) PROVE FALSE
  BY <1>4 DEF RegisterAdds, StartBegins
<1>5. ~UNCHANGED entries
  BY DEF Registered
<1> QED BY <1>1, <1>2, <1>3, <1>4, <1>5, RolesAssumption
        DEF Next, Workers, vars, regVars

\* An intent loses its handle to an error or to a clear, and an error goes when a
\* handle comes.
LEMMA BareFrom ==
    ASSUME SubsInv, [Next]_vars, NEW id \in Registered, id \in Registered',
           entries'[id].sub = NoSub
    PROVE  \/ entries'[id].err
           \/ entries[id].sub = NoSub /\ ~entries[id].err
           \/ \E w \in Workers : Clears(w)
<1> USE DEF SubsInv
<1>1. ASSUME NEW w \in Workers,
             StartBegins(w) \/ ActivationStep(w) \/ DeactivationStep(w) \/ CommonStep(w)
      PROVE  entries'[id] = entries[id] \/ entries'[id].err \/ Clears(w)
  <2> USE DEF Registered, RegInv, RegTypeOK, Entry, regVars
  <2>1. CASE RegisterAdds(w)
    BY <2>1 DEF RegisterAdds, Add, IdsFresh
  <2>2. CASE RegisterRollsBack(w)
    BY <2>2 DEF RegisterRollsBack, Remove
  <2>3. CASE Marks(w)
    <3>1. job[w].sub # NoSub
      BY <2>3, NoSubAssumption DEF Marks, Placed, Holds
    <3> QED BY <2>3, <3>1 DEF Marks, MarkActive
  <2>4. CASE Unmarks(w)
    BY <2>4 DEF Unmarks, MarkInactive
  <2>5. CASE UNCHANGED entries
    BY <2>5
  <2>6. CASE StartBegins(w) \/ ActivationStep(w)
    BY <2>1, <2>2, <2>3, <2>4, <2>5, <2>6
       DEF ActivationStep, RegisterBegins, TakeID, RegisterConflicts, AddConflict,
           RegisterChecks, RegisterLooksUp, RegisterDrops, StartBegins,
           StartConnects, StartFails, RestoreBegins, ListsRecords, NextRecord,
           DropsStale, Subscribes, SubscribeFails, FlushSucceeds, FlushFails,
           Discards, StartFinishes, RestoreFinishes
  <2>7. CASE DeactivationStep(w) \/ CommonStep(w)
    BY <2>5, <2>7
       DEF DeactivationStep, CommonStep, CloseBegins, ClosedHookBegins,
           ClosesSession, CloseLeaves, Unsubs, ReadsCounts, PublishesCounts
  <2> QED BY <1>1, <2>6, <2>7
<1>2. CASE UNCHANGED entries
  BY <1>2
<1> QED BY <1>1, <1>2, RolesAssumption DEF Next, Workers, vars, regVars

\* After a clear the next Start takes every intent up.
LEMMA ClearAwaits ==
    ASSUME OneStarter, SubsInv, Carrying, Playing, Uncrossed, OffWhileClearing,
           [Next]_vars, NEW d \in Workers, Clears(d)
    PROVE  Awaits'
<1> USE DEF SubsInv
<1>1. pc[d] = "clear" /\ ~enabled'
  BY DEF Clears, clientVars, OffWhileClearing
<1>2. ASSUME NEW w \in Activators, Past(w)' PROVE FALSE
  <2>1. w \in Workers
    BY DEF Workers
  <2>2. Past(w)
    <3>1. CASE w = d
      BY <1>1, <1>2, <2>1, <3>1 DEF Clears, Go, Placed, Past, PastAt, Acting
    <3>2. CASE w # d
      BY <1>2, <2>1, <3>2 DEF Clears, Go, Placed, Past
    <3> QED BY <3>1, <3>2
  <2>3. d \notin Deactivators
    BY <1>1, <2>2 DEF Uncrossed
  <2>4. d \in Starters /\ w \in Starters
    BY <1>1, <2>1, <2>2, <2>3 DEF Playing, Plays, Past, PastAt
  <2> QED BY <1>1, <2>2, <2>4 DEF OneStarter, Past, PastAt, Acting
<1> QED BY <1>1, <1>2 DEF Awaits

\* The Start that an intent awaits lists it.
LEMMA AwaitsStays ==
    ASSUME OneStarter, SubsInv, Carrying, Playing, SessionOK, Awaits, [Next]_vars,
           NEW id \in Registered, entries[id].sub = NoSub
    PROVE  Awaits' \/ \E w \in Activators : Busy(w, id)'
<1> USE DEF SubsInv
<1> SUFFICES ASSUME \A w \in Activators : ~Busy(w, id)'
             PROVE  Awaits'
  OBVIOUS
<1>1. ASSUME NEW w \in Workers, ListsRecords(w), job[w].kind = "start" PROVE FALSE
  <2>1. w \in Activators
    BY <1>1, RolesAssumption DEF Playing, Plays
  <2>2. /\ [id |-> id, sub |-> NoSub] \in job'[w].todo
        /\ pc'[w] = "next"
    BY <1>1, Listed
  <2>3. Busy(w, id)'
    BY <2>2 DEF Busy, Working
  <2> QED BY <2>1, <2>3
<1>2. ASSUME NEW w \in Activators PROVE ~Past(w)'
  <2>1. ~Past(w) /\ w \in Workers
    BY DEF Awaits, Workers
  <2>2. CASE StartBegins(w) \/ ActivationStep(w) \/ DeactivationStep(w) \/ CommonStep(w)
    BY <1>1, <2>1, <2>2, StartsOnly
  <2>3. CASE pc'[w] = pc[w] /\ job'[w] = job[w]
    BY <2>1, <2>3 DEF Past
  <2> QED BY <2>1, <2>2, <2>3, OneMoves
<1>3. CASE ~enabled
  <2>1. ASSUME NEW a \in Activators, StartFinishes(a) PROVE FALSE
    BY <2>1 DEF StartFinishes, Awaits, Past, PastAt
  <2> QED BY <1>2, <1>3, <2>1, TurnsOn DEF Awaits
<1>4. CASE session \notin {"up", "down"}
  <2> SUFFICES ASSUME session' \in {"up", "down"} PROVE Awaits'
    BY <1>2 DEF Awaits
  <2>1. PICK a \in Activators : StartConnects(a)
    BY <1>4, SessionMoves DEF StartBegins, StartFails, ClosesSession, LinkDrops,
                              LinkReturns, LinkLost
  <2>2. a \in Workers /\ pc[a] = "starting" /\ pc'[a] = "list" /\ job'[a] = job[a]
    BY <2>1 DEF StartConnects, Go, Placed, Workers
  <2>3. job[a].kind = "start" /\ a \in Starters
    BY <2>2 DEF Playing, Plays
  <2> QED BY <1>2, <2>2, <2>3 DEF Awaits
<1>5. ASSUME NEW w \in Starters, pc[w] \in {"starting", "list"},
             job[w].kind = "start"
      PROVE  Awaits'
  <2>1. w \in Workers /\ w \in Activators
    BY RolesAssumption DEF Workers
  <2>2. CASE StartConnects(w)
    <3>1. pc'[w] = "list" /\ job'[w] = job[w]
      BY <2>1, <2>2 DEF StartConnects, Go, Placed
    <3> QED BY <1>2, <1>5, <3>1 DEF Awaits
  <2>3. CASE StartFails(w)
    BY <1>2, <2>3 DEF StartFails, Awaits
  <2>4. CASE pc'[w] = pc[w] /\ job'[w] = job[w]
    BY <1>2, <1>5, <2>4 DEF Awaits
  <2> QED BY <1>1, <1>5, <2>1, <2>2, <2>3, <2>4, OneMoves, PlaceSteps
<1> QED BY <1>3, <1>4, <1>5 DEF Awaits

\* Activating one record of a list leaves the rest of the list alone.
LEMMA WorksOn ==
    ASSUME SubsInv, NEW w \in Workers, pc[w] \in Acting, job[w].kind # "register",
           StartBegins(w) \/ ActivationStep(w) \/ DeactivationStep(w) \/ CommonStep(w)
    PROVE  /\ pc'[w] \in Working
           /\ job'[w].todo = job[w].todo
           /\ job'[w].kind = job[w].kind
<1> USE DEF SubsInv, Acting, Working
<1> job[w] \in Job
  BY DEF Placed
<1>1. CASE DropsStale(w)
  BY <1>1 DEF DropsStale, Go, Placed, Job
<1>2. CASE Subscribes(w) \/ SubscribeFails(w) \/ FlushSucceeds(w) \/ FlushFails(w)
  BY <1>2 DEF Subscribes, SubscribeFails, FlushSucceeds, FlushFails, Go, Placed, Job
<1>3. ASSUME NEW p \in Working, NEW j, Go(w, p, j), j.todo = job[w].todo,
             j.kind = job[w].kind
      PROVE  /\ pc'[w] \in Working
             /\ job'[w].todo = job[w].todo
             /\ job'[w].kind = job[w].kind
  BY <1>3 DEF Go, Placed
<1>4. CASE Marks(w) \/ Discards(w)
  <2> DEFINE j == Done(job[w])
  <2>1. Go(w, "discard", job[w]) \/ Go(w, "next", j)
    BY <1>4 DEF Marks, Discards, Continues
  <2>2. j.todo = job[w].todo /\ j.kind = job[w].kind
    BY DEF Done, Job
  <2> HIDE DEF j
  <2> QED BY <1>3, <2>1, <2>2
<1>5. CASE Unmarks(w)
  <2> DEFINE j == [Done(job[w]) EXCEPT !.failed = TRUE]
  <2>1. Go(w, "next", j)
    BY <1>5 DEF Unmarks, Gives
  <2>2. j.todo = job[w].todo /\ j.kind = job[w].kind
    BY DEF Done, Job
  <2> HIDE DEF j
  <2> QED BY <1>3, <2>1, <2>2
<1> QED BY <1>1, <1>2, <1>4, <1>5, PlaceSteps

\* Whoever is at work for an intent gives it a handle or an error, stays at work,
\* or leaves it to the Start under way.
LEMMA BusyStays ==
    ASSUME OneStarter, SubsInv, Carrying, Playing, SessionOK, [Next]_vars,
           NEW id \in Registered, entries[id].sub = NoSub,
           id \in Registered', entries'[id].sub = NoSub,
           NEW w \in Activators, Busy(w, id)
    PROVE  Busy(w, id)' \/ entries'[id].err \/ Awaits'
<1> USE DEF SubsInv
<1>0. w \in Workers /\ job[w] \in Job /\ Carries(pc[w], job[w])
  BY DEF Workers, Placed, Carrying
<1> SUFFICES ASSUME StartBegins(w) \/ ActivationStep(w) \/ DeactivationStep(w)
                      \/ CommonStep(w)
             PROVE  Busy(w, id)' \/ entries'[id].err \/ Awaits'
  <2>1. CASE pc'[w] = pc[w] /\ job'[w] = job[w]
    BY <2>1 DEF Busy, Replaces
  <2> QED BY <1>0, <2>1, OneMoves
<1>1. CASE pc[w] = "stale" /\ job[w].rec.id = id
  <2>1. DropsStale(w)
    BY <1>0, <1>1, PlaceSteps
  <2>2. pc'[w] = "subscribe" /\ job'[w].rec.id = id
    BY <1>0, <1>1, <2>1 DEF DropsStale, Go, Placed, Job, Record
  <2> QED BY <2>2 DEF Busy, Replaces
<1>2. CASE Replaces(w, id)
  <2>1. CASE Marks(w)
    <3>1. job[w].sub # NoSub
      BY <1>0, <2>1, NoSubAssumption DEF Marks, Placed, Holds
    <3> QED BY <1>2, <2>1, <3>1 DEF Marks, MarkActive, Replaces, RegInv,
                RegTypeOK, Registered, Entry
  <2>2. CASE Unmarks(w)
    BY <1>2, <2>2 DEF Unmarks, MarkInactive, Replaces, RegInv, RegTypeOK,
                      Registered, Entry
  <2> QED BY <1>2, <2>1, <2>2, ReplacesOn DEF Busy
<1>3. ASSUME NEW r \in job[w].todo, r.id = id, pc[w] \in Working,
             r.sub = NoSub \/ job[w].kind = "restore"
      PROVE  Busy(w, id)'
  <2>1. job[w].kind # "register"
    BY <1>0, <1>3 DEF Carries
  <2>2. CASE pc[w] \in Acting
    BY <1>0, <1>3, <2>1, <2>2, WorksOn DEF Busy
  <2>3. CASE pc[w] = "next"
    <3>1. NextRecord(w)
      BY <1>0, <2>3, PlaceSteps
    <3>2. PICK t \in job[w].todo :
            LET j == [job[w] EXCEPT !.todo = @ \ {t}, !.rec = t]
            IN  \/ t.sub = NoSub /\ Go(w, "subscribe", j)
                \/ t.sub # NoSub /\ job[w].kind = "restore" /\ Go(w, "stale", j)
                \/ /\ t.sub # NoSub /\ job[w].kind = "start"
                   /\ Go(w, "next", [job[w] EXCEPT !.todo = @ \ {t}])
      BY <1>3, <3>1 DEF NextRecord
    <3> DEFINE j == [job[w] EXCEPT !.todo = @ \ {t}, !.rec = t]
               i == [job[w] EXCEPT !.todo = @ \ {t}]
    <3>3. \/ t.sub = NoSub /\ Go(w, "subscribe", j)
          \/ t.sub # NoSub /\ job[w].kind = "restore" /\ Go(w, "stale", j)
          \/ t.sub # NoSub /\ job[w].kind = "start" /\ Go(w, "next", i)
      BY <3>2
    <3>4. /\ j.todo = job[w].todo \ {t} /\ j.kind = job[w].kind /\ j.rec = t
          /\ i.todo = job[w].todo \ {t} /\ i.kind = job[w].kind
      BY <1>0 DEF Job
    <3> HIDE DEF i, j
    <3>5. /\ job'[w].todo = job[w].todo \ {t}
          /\ job'[w].kind = job[w].kind
          /\ \/ pc'[w] \in {"subscribe", "stale"} /\ job'[w].rec = t
             \/ pc'[w] = "next" /\ t.sub # NoSub /\ job[w].kind = "start"
      BY <1>0, <3>3, <3>4 DEF Go, Placed
    <3>6. CASE t = r
      BY <1>3, <3>5, <3>6 DEF Busy, Replaces
    <3>7. CASE t # r
      BY <1>3, <3>5, <3>7 DEF Busy, Working, Acting
    <3> QED BY <3>6, <3>7
  <2> QED BY <1>3, <2>2, <2>3 DEF Working
<1>4. CASE job[w].kind = "register" /\ job[w].id = id /\ pc[w] = "check"
  <2>1. RegisterChecks(w)
    BY <1>0, <1>4, PlaceSteps
  <2>2. CASE Go(w, "lookup", job[w])
    BY <1>0, <1>4, <2>2 DEF Go, Placed, Busy
  <2>3. CASE Deferred /\ Go(w, "idle", NoJob)
    <3>1. pc'[w] = "idle" /\ session' = session
      BY <1>0, <2>1, <2>3 DEF RegisterChecks, Go, Placed, linkVars
    <3>2. ASSUME NEW v \in Activators, Past(v) PROVE FALSE
      <4>1. v \in Workers
        BY DEF Workers
      <4>2. job[v].kind = "start" /\ v \in Starters /\ pc[v] # "starting"
        BY <3>2, <4>1 DEF Past, PastAt, Playing, Plays, Acting
      <4>3. PICK x \in Workers : pc[x] = "starting"
        BY <2>3, <4>1, <4>2 DEF Deferred, SessionOK
      <4>4. x \in Starters
        BY <4>3 DEF Playing, Plays
      <4> QED BY <4>2, <4>3, <4>4 DEF OneStarter
    <3>3. ASSUME NEW v \in Activators PROVE ~Past(v)'
      <4>1. CASE v = w
        BY <3>1, <4>1 DEF Past, PastAt, Acting
      <4>2. CASE v # w
        <5>1. pc'[v] = pc[v] /\ job'[v] = job[v]
          BY <1>0, <2>3, <4>2 DEF Go, Placed, Workers
        <5> QED BY <3>2, <5>1 DEF Past
      <4> QED BY <4>1, <4>2
    <3> QED BY <2>3, <3>1, <3>3 DEF Awaits, Deferred
  <2> QED BY <2>1, <2>2, <2>3 DEF RegisterChecks
<1>5. CASE job[w].kind = "register" /\ job[w].id = id /\ pc[w] = "lookup"
  <2> DEFINE r == [id |-> id, sub |-> NoSub]
             j == [job[w] EXCEPT !.rec = r]
  <2>1. Go(w, "subscribe", j)
    BY <1>0, <1>5, PlaceSteps DEF RegisterLooksUp
  <2>2. j.rec = r
    BY <1>0 DEF Job
  <2> HIDE DEF j
  <2>3. pc'[w] = "subscribe" /\ job'[w].rec.id = id
    BY <1>0, <2>1, <2>2 DEF Go, Placed
  <2> QED BY <2>3 DEF Busy, Replaces
<1>6. CASE /\ job[w].kind = "register" /\ job[w].id = id
           /\ pc[w] \in {"sync", "publish"} /\ job[w].after = "check"
  <2>1. ReadsCounts(w) \/ PublishesCounts(w)
    BY <1>0, <1>6, PlaceSteps
  <2>2. CASE ReadsCounts(w)
    BY <1>0, <1>6, <2>2 DEF ReadsCounts, Go, Placed, Job, Busy
  <2>3. CASE PublishesCounts(w)
    BY <1>0, <1>6, <2>3 DEF PublishesCounts, Go, Placed, Job, Busy
  <2> QED BY <2>1, <2>2, <2>3
<1> QED BY <1>1, <1>2, <1>3, <1>4, <1>5, <1>6 DEF Busy

\* Every step keeps an eye on every intent without a handle.
LEMMA BaresOKStep ==
    ASSUME OneStarter, SubsInv, Carrying, Playing, Uncrossed, OffWhileClearing,
           SessionOK, BaresOK, [Next]_vars
    PROVE  BaresOK'
<1> USE DEF SubsInv
<1> SUFFICES ASSUME NEW id \in Registered', entries'[id].sub = NoSub,
                    ~entries'[id].err, ~ClearDue', ~Awaits'
             PROVE  \E w \in Activators : Busy(w, id)'
  BY DEF BaresOK, BareOK
<1>1. \A w \in Workers : ~Clears(w)
  BY ClearAwaits
<1>2. ~ClearDue
  BY <1>1, ClearDueStays DEF Workers
<1>3. CASE id \notin Registered
  BY <1>3, NewIntent
<1>4. CASE id \in Registered
  <2>1. entries[id].sub = NoSub /\ ~entries[id].err
    BY <1>1, <1>4, BareFrom
  <2>2. Awaits \/ \E w \in Activators : Busy(w, id)
    BY <1>2, <1>4, <2>1 DEF BaresOK, BareOK
  <2> QED BY <1>4, <2>1, <2>2, AwaitsStays, BusyStays
<1> QED BY <1>3, <1>4

-----------------------------------------------------------------------------
(* Every intent is served.                                                 *)

\* The inductive invariant, while no clear crosses a Start.
ServingInv == /\ SubsInv /\ Carrying /\ Playing
              /\ OwnHandles /\ OwnRecords /\ AllApart
              /\ SessionOK /\ OffWhileClearing
              /\ MarkLive /\ HandlesOK /\ BaresOK

\* A new client satisfies it.
LEMMA ServingInitOK == Init => ServingInv
<1> SUFFICES ASSUME Init PROVE ServingInv
  OBVIOUS
<1>1. Registered = {}
  BY DEF Init, RegInit, Registered
<1>2. \A w \in Workers : pc[w] = "idle" /\ job[w] = NoJob
  BY DEF Init
<1>3. SubsInv
  BY SubsInitOK
<1>4. Carrying /\ Playing
  BY <1>2 DEF Carrying, Carries, Playing, Plays, NoJob
<1>5. OwnHandles /\ OwnRecords
  BY <1>1, <1>2 DEF OwnHandles, OwnRecords, NoJob
<1>6. AllApart
  BY <1>1, <1>2, NoSubAssumption DEF AllApart, Apart, Entered, Recorded, NoJob
<1>7. SessionOK
  BY <1>2 DEF Init, SessionOK, NoJob
<1>8. OffWhileClearing /\ MarkLive
  BY <1>2 DEF OffWhileClearing, MarkLive, Workers
<1>9. HandlesOK /\ BaresOK
  BY <1>1 DEF HandlesOK, BaresOK
<1> QED BY <1>3, <1>4, <1>5, <1>6, <1>7, <1>8, <1>9 DEF ServingInv

\* Every step from a state in which no clear crosses a Start keeps it.
LEMMA ServingStep ==
    ASSUME OneStarter, ServingInv, Uncrossed, [Next]_vars
    PROVE  ServingInv'
<1> USE DEF ServingInv
<1>1. SubsInv' /\ Carrying' /\ Playing'
  BY SubsStep, CarryingStep, PlayingStep
<1>2. OwnHandles' /\ OwnRecords'
  BY OwnStep, OwnRecordsStep
<1>3. AllApart'
  BY ApartStep DEF AllApart
<1>4. SessionOK' /\ OffWhileClearing'
  BY SessionStep, OffStep
<1>5. MarkLive' /\ HandlesOK' /\ BaresOK'
  BY MarkLiveStep, HandlesOKStep, BaresOKStep
<1> QED BY <1>1, <1>2, <1>3, <1>4, <1>5

\* With one goroutine that calls Start, and any number that register, restore
\* and close, every intent is served, or has an error that says why not, whenever
\* the client is started and at rest: if no clear ever crosses a Start.
THEOREM ServingIfUncrossed == OneStarter => (Spec /\ []Uncrossed => []ServingAll)
<1> SUFFICES ASSUME OneStarter PROVE Spec /\ []Uncrossed => []ServingAll
  OBVIOUS
<1>1. ServingInv /\ Uncrossed /\ [Next]_vars => ServingInv'
  BY ServingStep
<1>2. ServingInv => ServingAll
  BY RolesAssumption DEF ServingInv, ServingAll, Started, HandlesOK, HandleOK, BaresOK, BareOK, ClearDue,
         Awaits, Busy, Replaces, Idle, Working, Acting, Workers
<1> QED BY ServingInitOK, <1>1, <1>2, PTL DEF Spec

\* In particular as long as no connection is closed: however often the link is
\* lost and restored, and however registrations, Start and restores overlap.
THEOREM ServingUnclosed ==
    OneStarter /\ Deactivators = {} => (Spec => []ServingAll)
<1> SUFFICES ASSUME OneStarter, Deactivators = {} PROVE Spec => []ServingAll
  OBVIOUS
<1>1. Uncrossed
  BY DEF Uncrossed
<1> QED BY <1>1, ServingIfUncrossed, PTL

=============================================================================
