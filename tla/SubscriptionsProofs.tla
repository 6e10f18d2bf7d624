------------------------ MODULE SubscriptionsProofs ------------------------
(***************************************************************************)
(* The client's use of the registry, for any numbers of goroutines, keys   *)
(* and subscriptions.  SubsInv adds to the types and to the registry's own *)
(* invariant what a goroutine's locals hold where it stands (Holds): the   *)
(* step that enters a subscription is a call of MarkActive only because    *)
(* whoever gets there holds one.                                           *)
(***************************************************************************)
EXTENDS Subscriptions, RegistryProofs, FiniteSetTheorems

\* What a goroutine's local variables hold where it stands.
Holds(p, j) == /\ p \in Pc
               /\ j \in Job
               /\ p = "add" => j.key \in Keys
               /\ p \in {"flush", "mark", "discard", "drop"} => j.sub \in Subs

\* Every goroutine stands at a place with the locals that belong there.
Placed == /\ pc \in [Workers -> Pc]
          /\ job \in [Workers -> Job]
          /\ \A w \in Workers : Holds(pc[w], job[w])

\* The types of the connection's and the client's variables.
LinkOK == /\ session \in Session
          /\ losses \in 0..MaxLosses
          /\ live \in [Subs -> 0..MaxID]
          /\ restores \in Nat
          /\ closedHooks \in Nat
          /\ enabled \in BOOLEAN
          /\ counts \in Nat \X Nat
          /\ outdated \in BOOLEAN

\* The inductive invariant.
SubsInv == RegInv /\ LinkOK /\ Placed

\* Going to a place with the locals it calls for keeps every goroutine placed.
LEMMA GoOK ==
    ASSUME Placed, NEW w \in Workers, NEW p, NEW j, Holds(p, j), Go(w, p, j)
    PROVE  Placed'
BY DEF Placed, Go, Holds

\* Fresh locals are locals.
LEMMA NoJobOK == NoJob \in Job
BY MaxIDAssumption DEF NoJob, Job, Kind, Record

\* Setting one local to a value of its kind gives locals.
LEMMA FieldOK ==
    ASSUME NEW j \in Job
    PROVE  /\ \A x \in 0..MaxID : [j EXCEPT !.id = x] \in Job
           /\ \A x \in Keys \union {NoKey} : [j EXCEPT !.key = x] \in Job
           /\ \A x \in SUBSET Record : [j EXCEPT !.todo = x] \in Job
           /\ \A x \in BOOLEAN : [j EXCEPT !.failed = x] \in Job
           /\ \A x \in Record : [j EXCEPT !.rec = x] \in Job
           /\ \A x \in Subs \union {NoSub} : [j EXCEPT !.sub = x] \in Job
           /\ \A x \in SUBSET Subs : [j EXCEPT !.handles = x] \in Job
           /\ \A x \in Nat \X Nat : [j EXCEPT !.seen = x] \in Job
           /\ \A x \in {"idle", "check", "finish", "session"} : [j EXCEPT !.after = x] \in Job
           /\ \A x \in Kind : [j EXCEPT !.kind = x] \in Job
BY DEF Job

\* Going to publish the counts keeps every goroutine placed.
LEMMA SyncOK ==
    ASSUME Placed, NEW w \in Workers, NEW j \in Job,
           NEW after \in {"idle", "check", "finish", "session"}, Sync(w, j, after)
    PROVE  Placed'
BY FieldOK, GoOK DEF Sync, Holds, Pc

\* Forgetting the record and its subscription gives locals.
LEMMA DoneOK == \A j \in Job : Done(j) \in Job
BY NoJobOK DEF Done, Job

\* Going on after an activation keeps every goroutine placed.
LEMMA ContinuesOK ==
    ASSUME Placed, NEW w \in Workers, NEW j \in Job, Continues(w, j)
    PROVE  Placed'
BY SyncOK, DoneOK, GoOK DEF Continues, Holds, Pc

\* Giving an activation up keeps every goroutine placed.
LEMMA GivesOK ==
    ASSUME Placed, NEW w \in Workers, NEW j \in Job, Gives(w, j)
    PROVE  Placed'
BY FieldOK, DoneOK, GoOK DEF Gives, Holds, Pc

\* The steps of a registration keep every goroutine placed.
LEMMA Registering ==
    ASSUME SubsInv, NEW w \in Workers,
           \/ \E key \in Keys : RegisterBegins(w, key)
           \/ RegisterAdds(w) \/ RegisterConflicts(w) \/ RegisterChecks(w)
           \/ RegisterLooksUp(w) \/ RegisterRollsBack(w) \/ RegisterDrops(w)
    PROVE  Placed'
<1> USE NoJobOK, MaxIDAssumption DEF SubsInv, Holds, Pc
<1> job[w] \in Job
  BY DEF Placed
<1>1. ASSUME NEW key \in Keys, RegisterBegins(w, key) PROVE Placed'
  <2>1. nextID \in 0..MaxID /\ nextID < MaxID
    BY <1>1 DEF RegisterBegins, TakeID, RegInv, RegTypeOK
  <2> DEFINE j == [NoJob EXCEPT !.kind = "register", !.id = nextID + 1,
                                !.key = key]
  <2>2. nextID + 1 \in 0..MaxID
    BY <2>1
  <2>3. j \in Job
    BY <2>2 DEF Job, Kind
  <2>4. j.key = key
    BY DEF NoJob
  <2> HIDE DEF j
  <2>5. Go(w, "add", j)
    BY <1>1 DEF RegisterBegins, j
  <2> QED BY <2>3, <2>4, <2>5, GoOK
<1>2. ASSUME RegisterAdds(w) PROVE Placed'
  BY <1>2, SyncOK DEF RegisterAdds
<1>3. ASSUME RegisterConflicts(w) PROVE Placed'
  BY <1>3, GoOK DEF RegisterConflicts
<1>4. ASSUME RegisterChecks(w) PROVE Placed'
  BY <1>4, GoOK DEF RegisterChecks
<1>5. ASSUME RegisterLooksUp(w) PROVE Placed'
  <2> DEFINE r == [id |-> job[w].id, sub |-> NoSub]
             j == [job[w] EXCEPT !.rec = r]
  <2>1. r \in Record
    BY DEF Record, Job
  <2>2. j \in Job
    BY <2>1, FieldOK
  <2> HIDE DEF r
  <2>3. Go(w, "subscribe", j) \/ Sync(w, job[w], "idle")
    BY <1>5 DEF RegisterLooksUp, r
  <2> QED BY <2>2, <2>3, GoOK, SyncOK
<1>6. ASSUME RegisterRollsBack(w) PROVE Placed'
  <2>1. CASE job[w].id \in Registered /\ entries[job[w].id].sub # NoSub
    <3> DEFINE s == entries[job[w].id].sub
               j == [job[w] EXCEPT !.sub = s]
    <3>1. s \in Subs
      BY <2>1 DEF RegInv, RegTypeOK, Entry, Registered
    <3>2. j \in Job
      BY <3>1, FieldOK
    <3>4. j.sub = s
      BY DEF Job
    <3>3. Go(w, "drop", j)
      BY <1>6, <2>1 DEF RegisterRollsBack
    <3> HIDE DEF j
    <3> QED BY <3>1, <3>2, <3>3, <3>4, GoOK
  <2>2. CASE ~(job[w].id \in Registered /\ entries[job[w].id].sub # NoSub)
    BY <1>6, <2>2, SyncOK DEF RegisterRollsBack
  <2> QED BY <2>1, <2>2
<1>7. ASSUME RegisterDrops(w) PROVE Placed'
  BY <1>7, SyncOK, FieldOK DEF RegisterDrops
<1> QED BY <1>1, <1>2, <1>3, <1>4, <1>5, <1>6, <1>7

\* The steps of Start and of a restore around the activations do.
LEMMA Listing ==
    ASSUME SubsInv, NEW w \in Workers,
           \/ StartBegins(w) \/ StartConnects(w) \/ StartFails(w)
           \/ RestoreBegins(w) \/ ListsRecords(w) \/ NextRecord(w)
           \/ DropsStale(w) \/ StartFinishes(w) \/ RestoreFinishes(w)
    PROVE  Placed'
<1> USE NoJobOK, MaxIDAssumption DEF SubsInv, Holds, Pc
<1> job[w] \in Job
  BY DEF Placed
<1>1. ASSUME StartBegins(w) PROVE Placed'
  <2> DEFINE j == [NoJob EXCEPT !.kind = "start"]
  <2>1. j \in Job
    BY FieldOK DEF Kind
  <2>2. Go(w, "list", j) \/ Go(w, "starting", j)
    BY <1>1 DEF StartBegins
  <2> HIDE DEF j
  <2> QED BY <2>1, <2>2, GoOK
<1>2. ASSUME StartConnects(w) \/ StartFails(w) PROVE Placed'
  BY <1>2, GoOK DEF StartConnects, StartFails
<1>3. ASSUME RestoreBegins(w) PROVE Placed'
  <2> DEFINE j == [NoJob EXCEPT !.kind = "restore"]
  <2>1. j \in Job
    BY FieldOK DEF Kind
  <2>2. Go(w, "list", j) \/ Go(w, "idle", NoJob)
    BY <1>3 DEF RestoreBegins
  <2> HIDE DEF j
  <2> QED BY <2>1, <2>2, GoOK
<1>4. ASSUME ListsRecords(w) PROVE Placed'
  <2> DEFINE T == {[id |-> id, sub |-> entries[id].sub] : id \in Registered}
             j == [job[w] EXCEPT !.todo = T]
  <2>1. T \in SUBSET Record
    BY DEF RegInv, RegTypeOK, Entry, Registered, IDs, Record
  <2> HIDE DEF T
  <2>2. j \in Job
    BY <2>1, FieldOK
  <2>3. Go(w, "next", j)
    BY <1>4 DEF ListsRecords, T
  <2> QED BY <2>2, <2>3, GoOK
<1>5. ASSUME NextRecord(w) PROVE Placed'
  <2>1. CASE job[w].todo = {} /\ Sync(w, job[w], "finish")
    BY <2>1, SyncOK
  <2>2. ASSUME NEW r \in job[w].todo,
               LET j == [job[w] EXCEPT !.todo = @ \ {r}, !.rec = r]
               IN  \/ Go(w, "subscribe", j)
                   \/ Go(w, "stale", j)
                   \/ Go(w, "next", [job[w] EXCEPT !.todo = @ \ {r}])
        PROVE  Placed'
    <3> DEFINE i == [job[w] EXCEPT !.todo = @ \ {r}]
               j == [job[w] EXCEPT !.todo = @ \ {r}, !.rec = r]
    <3>1. r \in Record /\ job[w].todo \ {r} \in SUBSET Record
      BY DEF Job
    <3>2. i \in Job
      BY <3>1, FieldOK
    <3>3. j \in Job
      BY <3>1 DEF Job
    <3>4. Go(w, "subscribe", j) \/ Go(w, "stale", j) \/ Go(w, "next", i)
      BY <2>2
    <3> HIDE DEF i, j
    <3> QED BY <3>2, <3>3, <3>4, GoOK
  <2> QED BY <1>5, <2>1, <2>2 DEF NextRecord
<1>6. ASSUME DropsStale(w) PROVE Placed'
  <2> DEFINE j == [job[w] EXCEPT !.rec.sub = NoSub]
  <2>1. j \in Job
    BY DEF Job, Record
  <2>2. Go(w, "subscribe", j)
    BY <1>6 DEF DropsStale
  <2> HIDE DEF j
  <2> QED BY <2>1, <2>2, GoOK
<1>7. ASSUME StartFinishes(w) \/ RestoreFinishes(w) PROVE Placed'
  BY <1>7, GoOK DEF StartFinishes, RestoreFinishes
<1> QED BY <1>1, <1>2, <1>3, <1>4, <1>5, <1>6, <1>7

\* The steps of one activation do: whoever comes to mark an entry holds a
\* subscription.
LEMMA Activating ==
    ASSUME SubsInv, NEW w \in Workers,
           \/ Subscribes(w) \/ SubscribeFails(w) \/ FlushSucceeds(w)
           \/ FlushFails(w) \/ Marks(w) \/ Discards(w) \/ Unmarks(w)
    PROVE  Placed'
<1> USE DEF SubsInv, Holds, Pc
<1> job[w] \in Job
  BY DEF Placed
<1>1. ASSUME Subscribes(w) PROVE Placed'
  <2>1. PICK sub \in Subs : Go(w, "flush", [job[w] EXCEPT !.sub = sub])
    BY <1>1 DEF Subscribes
  <2> DEFINE j == [job[w] EXCEPT !.sub = sub]
  <2>2. j \in Job
    BY FieldOK
  <2>4. j.sub = sub
    BY DEF Job
  <2>3. Go(w, "flush", j)
    BY <2>1
  <2> HIDE DEF j
  <2> QED BY <2>2, <2>3, <2>4, GoOK
<1>2. ASSUME SubscribeFails(w) PROVE Placed'
  BY <1>2, GoOK DEF SubscribeFails
<1>3. ASSUME FlushSucceeds(w) PROVE Placed'
  <2>1. job[w].sub \in Subs
    BY <1>3 DEF FlushSucceeds, Placed
  <2> QED BY <1>3, <2>1, GoOK DEF FlushSucceeds
<1>4. ASSUME FlushFails(w) PROVE Placed'
  <2>1. [job[w] EXCEPT !.sub = NoSub] \in Job
    BY FieldOK
  <2> QED BY <1>4, <2>1, GoOK DEF FlushFails
<1>5. ASSUME Marks(w) PROVE Placed'
  <2>1. job[w].sub \in Subs
    BY <1>5 DEF Marks, Placed
  <2> QED BY <1>5, <2>1, GoOK, ContinuesOK DEF Marks
<1>6. ASSUME Discards(w) PROVE Placed'
  BY <1>6, ContinuesOK DEF Discards
<1>7. ASSUME Unmarks(w) PROVE Placed'
  BY <1>7, GivesOK DEF Unmarks
<1> QED BY <1>1, <1>2, <1>3, <1>4, <1>5, <1>6, <1>7

\* The counts of a registry are numbers: it is finite.
LEMMA CountsOK == RegTypeOK => Counts \in Nat \X Nat
<1> SUFFICES ASSUME RegTypeOK PROVE Counts \in Nat \X Nat
  OBVIOUS
<1>1. IsFiniteSet(1..MaxID)
  BY FS_Interval, MaxIDAssumption
<1>2. IsFiniteSet(Registered)
  BY <1>1, FS_Subset DEF RegTypeOK, IDs
<1>3. IsFiniteSet({id \in Registered : entries[id].sub # NoSub})
  BY <1>2, FS_Subset
<1> QED BY <1>2, <1>3, FS_CardinalityType DEF Counts

\* The steps of Close, of the closed handler and of publishing counts do.
LEMMA Deactivating ==
    ASSUME SubsInv, NEW w \in Workers,
           \/ CloseBegins(w) \/ ClosedHookBegins(w) \/ ClosesSession(w)
           \/ CloseLeaves(w) \/ Clears(w) \/ Unsubs(w) \/ ReadsCounts(w)
           \/ PublishesCounts(w)
    PROVE  Placed'
<1> USE NoJobOK DEF SubsInv, Holds, Pc
<1> job[w] \in Job
  BY DEF Placed
<1>1. ASSUME CloseBegins(w) \/ ClosedHookBegins(w) PROVE Placed'
  <2> DEFINE j(k) == [NoJob EXCEPT !.kind = k]
  <2>1. j("close") \in Job /\ j("closed") \in Job
    BY FieldOK DEF Kind
  <2>2. Go(w, "clear", j("close")) \/ Go(w, "clear", j("closed"))
    BY <1>1 DEF CloseBegins, ClosedHookBegins
  <2> HIDE DEF j
  <2> QED BY <2>1, <2>2, GoOK
<1>2. ASSUME ClosesSession(w) \/ CloseLeaves(w) PROVE Placed'
  BY <1>2, GoOK DEF ClosesSession, CloseLeaves
<1>3. ASSUME Clears(w) PROVE Placed'
  <2> DEFINE j == [job[w] EXCEPT !.handles = ActiveHandles]
  <2>1. ActiveHandles \in SUBSET Subs
    BY DEF ActiveHandles, RegInv, RegTypeOK, Entry, Registered
  <2>2. j \in Job
    BY <2>1, FieldOK
  <2>3. Go(w, "unsub", j)
    BY <1>3 DEF Clears
  <2> HIDE DEF j
  <2> QED BY <2>2, <2>3, GoOK
<1>4. ASSUME Unsubs(w) PROVE Placed'
  <2>1. ASSUME NEW sub \in job[w].handles,
               Go(w, "unsub", [job[w] EXCEPT !.handles = @ \ {sub}])
        PROVE  Placed'
    <3> DEFINE j == [job[w] EXCEPT !.handles = @ \ {sub}]
    <3>1. job[w].handles \ {sub} \in SUBSET Subs
      BY DEF Job
    <3>2. j \in Job
      BY <3>1, FieldOK
    <3> HIDE DEF j
    <3> QED BY <2>1, <3>2, GoOK DEF j
  <2>2. ASSUME Sync(w, job[w], IF job[w].kind = "close" THEN "session" ELSE "idle")
        PROVE  Placed'
    BY <2>2, SyncOK
  <2> QED BY <1>4, <2>1, <2>2 DEF Unsubs
<1>5. ASSUME ReadsCounts(w) PROVE Placed'
  <2> DEFINE j == [job[w] EXCEPT !.seen = Counts]
  <2>1. j \in Job
    BY CountsOK, FieldOK DEF RegInv
  <2>2. Go(w, "publish", j)
    BY <1>5 DEF ReadsCounts
  <2> HIDE DEF j
  <2> QED BY <2>1, <2>2, GoOK
<1>6. ASSUME PublishesCounts(w) PROVE Placed'
  <2> DEFINE i == [job[w] EXCEPT !.seen = <<0, 0>>]
             j == [job[w] EXCEPT !.seen = <<0, 0>>, !.after = "idle"]
             after == job[w].after
  <2>1. j \in Job
    BY DEF Job
  <2>2. after \in {"idle", "check", "finish", "session"}
    BY DEF Job
  <2>3. Go(w, after, NoJob) \/ Go(w, after, j)
    BY <1>6 DEF PublishesCounts
  <2> HIDE DEF j, after
  <2> QED BY <2>1, <2>2, <2>3, GoOK
<1> QED BY <1>1, <1>2, <1>3, <1>4, <1>5, <1>6

\* Every step keeps every goroutine placed.
LEMMA PlacedStep == ASSUME SubsInv, [Next]_vars PROVE Placed'
<1>1. CASE UNCHANGED <<pc, job>>
  BY <1>1 DEF SubsInv, Placed
<1>2. ASSUME NEW w \in Workers,
             StartBegins(w) \/ ActivationStep(w) \/ DeactivationStep(w)
               \/ CommonStep(w)
      PROVE  Placed'
  BY <1>2, Registering, Listing, Activating, Deactivating
     DEF ActivationStep, DeactivationStep, CommonStep
<1> QED BY <1>1, <1>2, RolesAssumption DEF Next, vars, Workers

\* Every step keeps the types of the connection's and the client's state.
LEMMA LinkStep == ASSUME SubsInv, [Next]_vars PROVE LinkOK'
<1> USE MaxIDAssumption, BoundsAssumption
    DEF SubsInv, LinkOK, Session, linkVars, clientVars, Unsubscribe
<1>0. NothingLive => live' \in [Subs -> 0..MaxID]
  BY DEF NothingLive
<1>1. ASSUME NEW w \in Workers, StartBegins(w) \/ ActivationStep(w)
      PROVE  LinkOK'
  <2> job[w] \in Job
    BY DEF Placed
  <2>1. job[w].rec.id \in 0..MaxID
    BY DEF Job, Record
  <2>2. CASE \E key \in Keys : RegisterBegins(w, key)
    BY <2>2 DEF RegisterBegins
  <2>3. CASE RegisterAdds(w) \/ RegisterConflicts(w) \/ RegisterChecks(w)
               \/ RegisterLooksUp(w) \/ RegisterRollsBack(w)
    BY <2>3 DEF RegisterAdds, RegisterConflicts, RegisterChecks,
                RegisterLooksUp, RegisterRollsBack
  <2>4. CASE RegisterDrops(w) \/ DropsStale(w) \/ FlushFails(w) \/ Discards(w)
    BY <2>4 DEF RegisterDrops, DropsStale, FlushFails, Discards
  <2>5. CASE StartBegins(w) \/ StartConnects(w) \/ StartFails(w)
               \/ RestoreBegins(w)
    BY <2>5 DEF StartBegins, StartConnects, StartFails, RestoreBegins
  <2>6. CASE ListsRecords(w) \/ NextRecord(w) \/ SubscribeFails(w)
               \/ FlushSucceeds(w) \/ RestoreFinishes(w)
    BY <2>6 DEF ListsRecords, NextRecord, SubscribeFails, FlushSucceeds,
                RestoreFinishes
  <2>7. CASE Marks(w) \/ Unmarks(w)
    BY <2>7 DEF Marks, Unmarks
  <2>8. CASE StartFinishes(w)
    BY <2>8 DEF StartFinishes, Job
  <2>9. CASE Subscribes(w)
    BY <2>1, <2>9 DEF Subscribes
  <2> QED BY <1>1, <2>2, <2>3, <2>4, <2>5, <2>6, <2>7, <2>8, <2>9
          DEF ActivationStep
<1>2. ASSUME NEW w \in Workers, DeactivationStep(w) \/ CommonStep(w)
      PROVE  LinkOK'
  <2>1. CASE CloseBegins(w) \/ CloseLeaves(w)
    BY <2>1 DEF CloseBegins, CloseLeaves
  <2>6. CASE ClosedHookBegins(w)
    <3>1. enabled' \in BOOLEAN
      BY <2>6 DEF ClosedHookBegins
    <3>3. closedHooks \in Nat
      OBVIOUS
    <3>4. closedHooks > 0 /\ closedHooks' = closedHooks - 1
      BY <2>6 DEF ClosedHookBegins
    <3>5. closedHooks' \in Nat
      BY <3>3, <3>4
    <3>2. UNCHANGED <<session, losses, live, restores, counts, outdated>>
      BY <2>6 DEF ClosedHookBegins
    <3> QED BY <3>1, <3>2, <3>5
  <2>4. CASE ClosesSession(w)
    BY <1>0, <2>4 DEF ClosesSession
  <2>2. CASE Clears(w) \/ ReadsCounts(w)
    BY <2>2 DEF Clears, ReadsCounts
  <2>5. CASE Unsubs(w)
    <3>1. UNCHANGED live \/ \E sub \in job[w].handles : Unsubscribe(sub)
      BY <2>5 DEF Unsubs
    <3>2. live' \in [Subs -> 0..MaxID]
      BY <3>1
    <3> QED BY <2>5, <3>2 DEF Unsubs
  <2>3. CASE PublishesCounts(w)
    BY <2>3 DEF PublishesCounts, Placed, Job
  <2> QED BY <1>2, <2>1, <2>2, <2>3, <2>4, <2>5, <2>6
          DEF DeactivationStep, CommonStep
<1>3. CASE /\ LinkDrops \/ LinkReturns \/ LinkLost
           /\ UNCHANGED clientVars
  BY <1>0, <1>3 DEF LinkDrops, LinkReturns, LinkLost
<1>4. CASE UNCHANGED vars
  BY <1>4 DEF vars
<1> QED BY <1>1, <1>2, <1>3, <1>4, RolesAssumption DEF Next, Workers

\* Every step of the client is a call of one registry method, or leaves the
\* registry alone.
LEMMA RegistryStep == ASSUME SubsInv, [Next]_vars PROVE [RegNext]_regVars
<1> USE DEF SubsInv
<1>1. ASSUME NEW w \in Workers, StartBegins(w) \/ ActivationStep(w)
      PROVE  [RegNext]_regVars
  <2>1. CASE \E key \in Keys : RegisterBegins(w, key)
    BY <2>1 DEF RegisterBegins, RegNext
  <2>2. CASE RegisterAdds(w) \/ RegisterConflicts(w)
    <3>1. job[w].key \in Keys
      BY <2>2 DEF RegisterAdds, RegisterConflicts, Placed, Holds
    <3>2. \/ Add(job[w].id, job[w].key)
          \/ AddConflict(job[w].id, job[w].key)
      BY <2>2 DEF RegisterAdds, RegisterConflicts
    <3>3. job[w].id \in IDs
      BY <3>2 DEF Add, AddConflict, RegInv, RegTypeOK
    <3> QED BY <3>1, <3>2, <3>3 DEF RegNext
  <2>3. CASE RegisterRollsBack(w)
    <3>1. Remove(job[w].id)
      BY <2>3 DEF RegisterRollsBack
    <3>2. CASE job[w].id \in Registered
      BY <3>1, <3>2 DEF RegNext, RegInv, RegTypeOK
    <3>3. CASE job[w].id \notin Registered
      BY <3>1, <3>3 DEF Remove, regVars, RegInv, RegTypeOK, Registered
    <3> QED BY <3>2, <3>3
  <2>4. CASE Marks(w)
    <3>1. MarkActive(job[w].rec.id, job[w].sub) /\ job[w].sub \in Subs
      BY <2>4 DEF Marks, Placed, Holds
    <3>2. CASE job[w].rec.id \in Registered
      BY <3>1, <3>2 DEF RegNext, RegInv, RegTypeOK
    <3>3. CASE job[w].rec.id \notin Registered
      BY <3>1, <3>3 DEF MarkActive, regVars
    <3> QED BY <3>2, <3>3
  <2>5. CASE Unmarks(w)
    <3>1. MarkInactive(job[w].rec.id)
      BY <2>5 DEF Unmarks
    <3>2. CASE job[w].rec.id \in Registered
      BY <3>1, <3>2 DEF RegNext, RegInv, RegTypeOK
    <3>3. CASE job[w].rec.id \notin Registered
      BY <3>1, <3>3 DEF MarkInactive, regVars
    <3> QED BY <3>2, <3>3
  <2>6. CASE UNCHANGED regVars
    BY <2>6
  <2>7. \/ UNCHANGED regVars
        \/ \E key \in Keys : RegisterBegins(w, key)
        \/ RegisterAdds(w) \/ RegisterConflicts(w) \/ RegisterRollsBack(w)
        \/ Marks(w) \/ Unmarks(w)
    BY <1>1 DEF ActivationStep, RegisterChecks, RegisterLooksUp, RegisterDrops,
                StartBegins, StartConnects, StartFails, RestoreBegins,
                ListsRecords, NextRecord, DropsStale, Subscribes,
                SubscribeFails, FlushSucceeds, FlushFails, Discards,
                StartFinishes, RestoreFinishes
  <2> QED BY <2>1, <2>2, <2>3, <2>4, <2>5, <2>6, <2>7
<1>2. ASSUME NEW w \in Workers, DeactivationStep(w) \/ CommonStep(w)
      PROVE  [RegNext]_regVars
  <2>1. CASE Clears(w)
    BY <2>1 DEF Clears, RegNext
  <2>2. CASE UNCHANGED regVars
    BY <2>2
  <2> QED BY <1>2, <2>1, <2>2
          DEF DeactivationStep, CommonStep, CloseBegins, ClosedHookBegins,
              ClosesSession, CloseLeaves, Unsubs, ReadsCounts, PublishesCounts
<1>3. CASE UNCHANGED regVars
  BY <1>3
<1> QED BY <1>1, <1>2, <1>3, RolesAssumption DEF Next, Workers, vars

\* A new client satisfies the invariant and has an empty registry.
LEMMA SubsInitOK == Init => SubsInv /\ RegInit
<1> SUFFICES ASSUME Init PROVE SubsInv /\ RegInit
  OBVIOUS
<1>1. RegInv /\ RegInit
  BY RegInitOK DEF Init
<1>2. LinkOK
  <2>1. 0 \in 0..MaxLosses /\ 0 \in 0..MaxID
    BY MaxIDAssumption, BoundsAssumption
  <2> QED BY <2>1 DEF Init, LinkOK, Session
<1>3. Placed
  BY NoJobOK DEF Init, Placed, Holds, Pc
<1> QED BY <1>1, <1>2, <1>3 DEF SubsInv

\* The invariant is inductive.
LEMMA SubsStep == SubsInv /\ [Next]_vars => SubsInv' /\ [RegNext]_regVars
BY PlacedStep, LinkStep, RegistryStep, RegTypeStep, IndexStep, IdsStep
   DEF SubsInv, RegInv

\* Type correctness, for any keys, subscriptions, goroutines and bounds.
THEOREM SubsTypeCorrect == Spec => []SubsTypeOK
<1>1. SubsInv => SubsTypeOK
  BY DEF SubsInv, RegInv, LinkOK, Placed, SubsTypeOK
<1> QED BY SubsInitOK, SubsStep, <1>1, PTL DEF Spec

\* The registry's key index is exact however the client's goroutines
\* interleave: no key ever has two registrations.
THEOREM SubsIndexExact == Spec => []IndexExact
<1>1. SubsInv => IndexExact
  BY DEF SubsInv, RegInv
<1> QED BY SubsInitOK, SubsStep, <1>1, PTL DEF Spec

\* The client implements Registry: its goroutines, with all their locals and
\* stale records, change the registry only as single calls of its methods do.
THEOREM UsesRegistry == Spec => RegSpec
BY SubsInitOK, SubsStep, PTL DEF Spec, RegSpec

-----------------------------------------------------------------------------
(* The counts.                                                             *)

\* From these places every way on publishes the counts.
Due == {"lookup", "list", "next", "stale", "subscribe", "flush", "mark",
        "discard", "unmark", "rollback", "drop", "clear", "unsub", "sync",
        "publish"}

\* The inductive invariant: counts that are wrong, and were not wrong when
\* they were stored, will be published again by a goroutine at work.
CountsDue == outdated \/ counts = Counts \/ \E w \in Workers : pc[w] \in Due

\* A goroutine that goes to a place from where it will publish is one.
LEMMA GoDue ==
    ASSUME Placed, NEW w \in Workers, NEW p \in Due, NEW j, Go(w, p, j)
    PROVE  CountsDue'
BY DEF Placed, Go, CountsDue

\* A goroutine that was not about to publish may go anywhere, if it leaves the
\* counts alone.
LEMMA GoQuiet ==
    ASSUME Placed, CountsDue, NEW w \in Workers, pc[w] \notin Due,
           NEW p, NEW j, Go(w, p, j), UNCHANGED <<entries, counts, outdated>>
    PROVE  CountsDue'
BY DEF Placed, Go, CountsDue, Counts, Registered

\* Every step keeps somebody about to publish, or the counts right.
LEMMA CountsDueStep ==
    ASSUME SubsInv, CountsDue, [Next]_vars PROVE CountsDue'
<1> USE DEF SubsInv
<1>1. ASSUME NEW w \in Workers,
             \/ RegisterAdds(w) \/ RegisterLooksUp(w) \/ RegisterRollsBack(w)
             \/ RegisterDrops(w) \/ ListsRecords(w) \/ NextRecord(w)
             \/ DropsStale(w) \/ Subscribes(w) \/ SubscribeFails(w)
             \/ FlushSucceeds(w) \/ FlushFails(w) \/ Marks(w) \/ Discards(w)
             \/ Unmarks(w) \/ Clears(w) \/ Unsubs(w) \/ ReadsCounts(w)
      PROVE  CountsDue'
  <2>1. \E p \in Due : \E j : Go(w, p, j)
    <3> USE DEF Due, Sync, Continues, Gives
    <3>1. CASE RegisterAdds(w) \/ RegisterLooksUp(w) \/ RegisterRollsBack(w)
      BY <3>1 DEF RegisterAdds, RegisterLooksUp, RegisterRollsBack
    <3>2. CASE RegisterDrops(w) \/ ListsRecords(w) \/ DropsStale(w)
      BY <3>2 DEF RegisterDrops, ListsRecords, DropsStale
    <3>3. CASE NextRecord(w)
      BY <3>3 DEF NextRecord
    <3>4. CASE Subscribes(w) \/ SubscribeFails(w) \/ FlushSucceeds(w)
                 \/ FlushFails(w)
      BY <3>4 DEF Subscribes, SubscribeFails, FlushSucceeds, FlushFails
    <3>5. CASE Marks(w) \/ Discards(w) \/ Unmarks(w)
      BY <3>5 DEF Marks, Discards, Unmarks
    <3>6. CASE Clears(w) \/ Unsubs(w) \/ ReadsCounts(w)
      BY <3>6 DEF Clears, Unsubs, ReadsCounts
    <3> QED BY <1>1, <3>1, <3>2, <3>3, <3>4, <3>5, <3>6
  <2> QED BY <2>1, GoDue
<1>2. ASSUME NEW w \in Workers,
             \/ \E key \in Keys : RegisterBegins(w, key)
             \/ RegisterConflicts(w) \/ RegisterChecks(w)
             \/ StartBegins(w) \/ StartConnects(w) \/ StartFails(w)
             \/ RestoreBegins(w) \/ StartFinishes(w) \/ RestoreFinishes(w)
             \/ CloseBegins(w) \/ ClosedHookBegins(w) \/ ClosesSession(w)
             \/ CloseLeaves(w)
      PROVE  CountsDue'
  <2>1. /\ pc[w] \notin Due
        /\ UNCHANGED <<entries, counts, outdated>>
        /\ \E p, j : Go(w, p, j)
    <3> USE DEF Due, regVars, clientVars
    <3>1. CASE (\E key \in Keys : RegisterBegins(w, key))
                 \/ RegisterConflicts(w) \/ RegisterChecks(w)
      BY <3>1 DEF RegisterBegins, RegisterConflicts, RegisterChecks, TakeID,
                  AddConflict
    <3>2. CASE StartBegins(w) \/ StartConnects(w) \/ StartFails(w)
                 \/ RestoreBegins(w)
      BY <3>2 DEF StartBegins, StartConnects, StartFails, RestoreBegins
    <3>3. CASE StartFinishes(w) \/ RestoreFinishes(w)
      BY <3>3 DEF StartFinishes, RestoreFinishes
    <3>4. CASE CloseBegins(w) \/ ClosedHookBegins(w) \/ ClosesSession(w)
                 \/ CloseLeaves(w)
      BY <3>4 DEF CloseBegins, ClosedHookBegins, ClosesSession, CloseLeaves
    <3> QED BY <1>2, <3>1, <3>2, <3>3, <3>4
  <2> QED BY <2>1, GoQuiet
<1>3. ASSUME NEW w \in Workers, PublishesCounts(w) PROVE CountsDue'
  BY <1>3 DEF PublishesCounts, CountsDue, Counts, Registered, regVars
<1>4. CASE UNCHANGED <<regVars, clientVars, pc>>
  BY <1>4 DEF CountsDue, Counts, Registered, regVars, clientVars
<1> QED BY <1>1, <1>2, <1>3, <1>4, RolesAssumption
        DEF Next, ActivationStep, DeactivationStep, CommonStep, Workers, vars

\* Whatever operations of the client overlap, once all of them are done the
\* health counts are those of the registry, unless they were already wrong when
\* they were stored.
THEOREM CountsSettled == Spec => []CountsSettle
<1>1. Init => CountsDue
  <2>1. ASSUME Init PROVE Counts = <<0, 0>>
    <3>1. Registered = {}
      BY <2>1 DEF Init, RegInit, Registered
    <3> QED BY <3>1, FS_EmptySet DEF Counts
  <2> QED BY <2>1 DEF Init, CountsDue
<1>2. SubsInv /\ CountsDue /\ [Next]_vars => SubsInv' /\ CountsDue'
  BY SubsStep, CountsDueStep
<1>3. CountsDue => CountsSettle
  BY DEF CountsDue, CountsSettle, Idle, Due
<1> QED BY SubsInitOK, <1>1, <1>2, <1>3, PTL DEF Spec

-----------------------------------------------------------------------------
(* What goroutines hold.                                                   *)

\* What a goroutine carries from place to place: a subscription only while it
\* activates or takes back, handles only while it unsubscribes them, a listed
\* record only while it works through a list.
Carries(p, j) ==
    /\ j.sub # NoSub => p \in {"flush", "mark", "discard", "drop"}
    /\ j.handles # {} => p = "unsub"
    /\ p \in {"subscribe", "flush", "mark", "discard", "unmark"} => j.rec.sub = NoSub
    /\ p \in {"add", "check", "lookup", "rollback", "drop"} => j.kind = "register"
    /\ p \in {"sync", "publish"} /\ j.after = "check" => j.kind = "register"
    /\ p \in {"starting", "list"} => j.kind # "register"
    /\ j.kind = "register" => j.todo = {}

Carrying == \A w \in Workers : Carries(pc[w], job[w])

\* Going to a place with what belongs there keeps every goroutine's load right.
LEMMA GoCarrying ==
    ASSUME Placed, Carrying, NEW w \in Workers, NEW p, NEW j, Carries(p, j),
           Go(w, p, j)
    PROVE  Carrying'
BY DEF Placed, Go, Carrying

\* Every step keeps the goroutines' loads right.
LEMMA CarryingStep ==
    ASSUME SubsInv, Carrying, [Next]_vars PROVE Carrying'
<1> USE DEF SubsInv, Carries, Sync
<1>1. ASSUME NEW w \in Workers,
             StartBegins(w) \/ ActivationStep(w) \/ DeactivationStep(w)
               \/ CommonStep(w)
      PROVE  Carrying'
  <2> job[w] \in Job /\ NoJob \in Job /\ Carries(pc[w], job[w])
    BY NoJobOK DEF Placed, Carrying
  <2>1. CASE \/ \E key \in Keys : RegisterBegins(w, key)
             \/ RegisterAdds(w) \/ RegisterConflicts(w) \/ RegisterChecks(w)
    BY <2>1, GoCarrying DEF RegisterBegins, RegisterAdds, RegisterConflicts,
                            RegisterChecks, NoJob, Job
  <2>2. CASE RegisterLooksUp(w) \/ RegisterRollsBack(w) \/ RegisterDrops(w)
    BY <2>2, GoCarrying DEF RegisterLooksUp, RegisterRollsBack, RegisterDrops, Job
  <2>3. CASE StartBegins(w) \/ StartConnects(w) \/ StartFails(w)
               \/ RestoreBegins(w)
    BY <2>3, GoCarrying DEF StartBegins, StartConnects, StartFails,
                            RestoreBegins, NoJob
  <2>4. CASE ListsRecords(w) \/ DropsStale(w)
    BY <2>4, GoCarrying DEF ListsRecords, DropsStale, Job, Record
  <2>5. CASE NextRecord(w)
    BY <2>5, GoCarrying DEF NextRecord, Job
  <2>6. CASE Subscribes(w) \/ SubscribeFails(w) \/ FlushSucceeds(w)
               \/ FlushFails(w)
    BY <2>6, GoCarrying DEF Subscribes, SubscribeFails, FlushSucceeds,
                            FlushFails, Job
  <2>7. CASE Marks(w) \/ Discards(w) \/ Unmarks(w)
    BY <2>7, GoCarrying DEF Marks, Discards, Unmarks, Continues, Gives, Done, Job
  <2>8. CASE StartFinishes(w) \/ RestoreFinishes(w) \/ CloseBegins(w)
               \/ ClosedHookBegins(w) \/ ClosesSession(w) \/ CloseLeaves(w)
    BY <2>8, GoCarrying DEF StartFinishes, RestoreFinishes, CloseBegins,
                            ClosedHookBegins, ClosesSession, CloseLeaves, NoJob
  <2>9. CASE Clears(w) \/ Unsubs(w)
    BY <2>9, GoCarrying DEF Clears, Unsubs, Job
  <2>10. CASE ReadsCounts(w) \/ PublishesCounts(w)
    BY <2>10, GoCarrying DEF ReadsCounts, PublishesCounts, NoJob, Job
  <2> QED BY <1>1, <2>1, <2>2, <2>3, <2>4, <2>5, <2>6, <2>7, <2>8, <2>9, <2>10
          DEF ActivationStep, DeactivationStep, CommonStep
<1>2. CASE UNCHANGED <<pc, job>>
  BY <1>2 DEF Carrying
<1> QED BY <1>1, <1>2, RolesAssumption DEF Next, Workers, vars

-----------------------------------------------------------------------------
(* What a step can do to the subscriptions and to the entries' handles.    *)

\* No subscription comes to life, or changes what it delivers to.
NothingWakes == \A sub \in Subs : live'[sub] \in {0, live[sub]}

\* No handle is entered in the registry.
NothingEntered == \A id \in Registered' :
    entries'[id].sub # NoSub => id \in Registered /\ entries'[id].sub = entries[id].sub

\* Only subscribeInternal makes a subscription.
LEMMA OnlySubscribesWakes ==
    ASSUME SubsInv, [Next]_vars
    PROVE  NothingWakes \/ \E w \in Activators : Subscribes(w)
<1> USE DEF NothingWakes, SubsInv, LinkOK, linkVars, Unsubscribe, NothingLive
<1>1. ASSUME NEW w \in Activators, StartBegins(w) \/ ActivationStep(w)
      PROVE  NothingWakes \/ Subscribes(w)
  <2>1. CASE RegisterDrops(w) \/ DropsStale(w) \/ FlushFails(w) \/ Discards(w)
    BY <2>1 DEF RegisterDrops, DropsStale, FlushFails, Discards
  <2>2. CASE UNCHANGED live
    BY <2>2
  <2> QED BY <1>1, <2>1, <2>2
      DEF ActivationStep, RegisterBegins, RegisterAdds, RegisterConflicts,
          RegisterChecks, RegisterLooksUp, RegisterRollsBack, StartBegins,
          StartConnects, StartFails, RestoreBegins, ListsRecords, NextRecord,
          SubscribeFails, FlushSucceeds, Marks, Unmarks, StartFinishes,
          RestoreFinishes
<1>2. ASSUME NEW w \in Workers, DeactivationStep(w) \/ CommonStep(w)
      PROVE  NothingWakes
  <2>1. CASE Unsubs(w)
    BY <2>1 DEF Unsubs
  <2>2. CASE ClosesSession(w)
    BY <2>2 DEF ClosesSession
  <2>3. CASE UNCHANGED live
    BY <2>3
  <2> QED BY <1>2, <2>1, <2>2, <2>3
      DEF DeactivationStep, CommonStep, CloseBegins, ClosedHookBegins,
          CloseLeaves, Clears, ReadsCounts, PublishesCounts
<1>3. CASE LinkDrops \/ LinkReturns \/ LinkLost
  BY <1>3 DEF LinkDrops, LinkReturns, LinkLost
<1>4. CASE UNCHANGED vars
  BY <1>4 DEF vars
<1> QED BY <1>1, <1>2, <1>3, <1>4, RolesAssumption DEF Next, Workers

\* A goroutine enters a handle by MarkActive only, ...
LEMMA StepEnters ==
    ASSUME SubsInv, NEW w \in Workers,
           StartBegins(w) \/ ActivationStep(w) \/ DeactivationStep(w) \/ CommonStep(w)
    PROVE  NothingEntered \/ Marks(w)
<1> USE DEF NothingEntered, SubsInv, RegInv, RegTypeOK, Registered, Entry, regVars
<1>1. CASE RegisterAdds(w)
  BY <1>1 DEF RegisterAdds, Add
<1>2. CASE RegisterRollsBack(w)
  BY <1>2 DEF RegisterRollsBack, Remove
<1>3. CASE Unmarks(w)
  BY <1>3 DEF Unmarks, MarkInactive
<1>4. CASE Clears(w)
  BY <1>4 DEF Clears, ClearActiveHandles
<1>5. CASE UNCHANGED entries
  BY <1>5
<1>6. CASE StartBegins(w) \/ ActivationStep(w)
  BY <1>1, <1>2, <1>3, <1>5, <1>6
     DEF ActivationStep, RegisterBegins, TakeID, RegisterConflicts, AddConflict,
         RegisterChecks, RegisterLooksUp, RegisterDrops, StartBegins,
         StartConnects, StartFails, RestoreBegins, ListsRecords, NextRecord,
         DropsStale, Subscribes, SubscribeFails, FlushSucceeds, FlushFails,
         Discards, StartFinishes, RestoreFinishes
<1>7. CASE DeactivationStep(w) \/ CommonStep(w)
  BY <1>4, <1>5, <1>7
     DEF DeactivationStep, CommonStep, CloseBegins, ClosedHookBegins,
         ClosesSession, CloseLeaves, Unsubs, ReadsCounts, PublishesCounts
<1> QED BY <1>6, <1>7

\* ... and an activation.
LEMMA OnlyMarksEnters ==
    ASSUME SubsInv, [Next]_vars
    PROVE  NothingEntered \/ \E w \in Activators : Marks(w)
<1>1. CASE UNCHANGED entries
  BY <1>1 DEF NothingEntered, Registered
<1>2. ASSUME NEW w \in Workers, Marks(w),
             DeactivationStep(w) \/ CommonStep(w)
      PROVE  FALSE
  BY <1>2 DEF Marks, DeactivationStep, CommonStep, CloseBegins,
       ClosedHookBegins, ClosesSession, CloseLeaves, Clears, Unsubs,
       ReadsCounts, PublishesCounts
<1> QED BY <1>1, <1>2, StepEnters, RolesAssumption
        DEF Next, Workers, vars, regVars

\* The step of a goroutine takes it somewhere, ...
LEMMA StepGoes ==
    ASSUME NEW w \in Workers,
           StartBegins(w) \/ ActivationStep(w) \/ DeactivationStep(w) \/ CommonStep(w)
    PROVE  \E p, j : Go(w, p, j)
<1> USE DEF Sync, Continues, Gives
<1>1. CASE StartBegins(w) \/ ActivationStep(w)
  BY <1>1 DEF ActivationStep, RegisterBegins, RegisterAdds, RegisterConflicts,
        RegisterChecks, RegisterLooksUp, RegisterRollsBack, RegisterDrops,
        StartBegins, StartConnects, StartFails, RestoreBegins, ListsRecords,
        NextRecord, DropsStale, Subscribes, SubscribeFails, FlushSucceeds,
        FlushFails, Marks, Discards, Unmarks, StartFinishes, RestoreFinishes
<1>2. CASE DeactivationStep(w) \/ CommonStep(w)
  BY <1>2 DEF DeactivationStep, CommonStep, CloseBegins, ClosedHookBegins,
        ClosesSession, CloseLeaves, Clears, Unsubs, ReadsCounts, PublishesCounts
<1> QED BY <1>1, <1>2

\* ... and no other step moves it.
LEMMA OneMoves ==
    ASSUME Placed, [Next]_vars, NEW w \in Workers
    PROVE  \/ pc'[w] = pc[w] /\ job'[w] = job[w]
           \/ w \in Starters /\ StartBegins(w)
           \/ w \in Activators /\ ActivationStep(w)
           \/ w \in Deactivators /\ DeactivationStep(w)
           \/ CommonStep(w)
<1>1. ASSUME NEW v \in Workers, v # w,
             StartBegins(v) \/ ActivationStep(v) \/ DeactivationStep(v)
               \/ CommonStep(v)
      PROVE  pc'[w] = pc[w] /\ job'[w] = job[w]
  <2>1. PICK p, j : Go(v, p, j)
    BY <1>1, StepGoes
  <2> QED BY <1>1, <2>1 DEF Go, Placed
<1>2. CASE UNCHANGED <<pc, job>>
  BY <1>2
<1> QED BY <1>1, <1>2, RolesAssumption DEF Next, Workers, vars
=============================================================================
