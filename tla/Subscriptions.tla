---------------------------- MODULE Subscriptions ----------------------------
(***************************************************************************)
(* agentcore/handlers_runtime.go: how a client turns registered intents    *)
(* into NATS subscriptions and back.  Registration, Start, the restore     *)
(* after a reconnect, Close and the closed handler are goroutines that     *)
(* share the registry (module Registry) and one connection at a time.      *)
(*                                                                         *)
(* subMu protects single calls on the registry only, so an activation is a *)
(* sequence of steps: a record is read, a subscription made and flushed    *)
(* outside the lock, and the entry marked under it.  One action is one     *)
(* locked call, or one call on the connection between two of them.         *)
(*                                                                         *)
(* The session is seen as this code sees it: by Health().State and by what *)
(* Connection() answers.  Session models how these come about.             *)
(***************************************************************************)
EXTENDS Registry

CONSTANTS Activators,    \* goroutines that register, start or restore
          Starters,      \* those of them that call Start
          Deactivators,  \* goroutines that close, or run the closed handler
          NoKey,         \* no registration key
          MaxLosses,     \* bound: how often the link is lost
          MaxHooks       \* bound: a Start finds fewer closed handlers due

Workers == Activators \union Deactivators

ASSUME RolesAssumption == /\ Activators \intersect Deactivators = {}
                          /\ Starters \subseteq Activators
ASSUME NoKeyAssumption == NoKey \notin Keys
ASSUME BoundsAssumption == MaxLosses \in Nat /\ MaxHooks \in Nat

VARIABLES
    session,      \* the session: new, connecting, up, down (reconnecting), closed
    losses,       \* how often the link has been lost
    live,         \* live[sub]: the id whose callback sub delivers to, or 0
    restores,     \* OnReconnected hooks that are due
    closedHooks,  \* OnClosed hooks that are due
    enabled,      \* c.callbacksEnabled
    counts,       \* the counts in the health snapshot
    outdated,     \* history: they were no longer right when they were stored
    pc,           \* where each goroutine stands
    job           \* its local variables

linkVars   == <<session, losses, live, restores, closedHooks>>
clientVars == <<enabled, counts, outdated>>
vars == <<regVars, linkVars, clientVars, pc, job>>

Session == {"new", "connecting", "up", "down", "closed"}
Kind == {"none", "register", "start", "restore", "close", "closed"}
Pc == {"idle", "add", "check", "lookup", "starting", "list", "next", "stale",
       "subscribe", "flush", "mark", "discard", "unmark", "rollback", "drop",
       "finish", "clear", "unsub", "session", "sync", "publish"}

\* A registry.ActivationRecord.
Record == [id : 0..MaxID, sub : Subs \union {NoSub}]

NoJob == [kind |-> "none", id |-> 0, key |-> NoKey, todo |-> {}, failed |-> FALSE,
          rec |-> [id |-> 0, sub |-> NoSub], sub |-> NoSub, handles |-> {},
          seen |-> <<0, 0>>, after |-> "idle"]

Init == /\ RegInit
        /\ session = "new"
        /\ losses = 0
        /\ live = [sub \in Subs |-> 0]
        /\ restores = 0
        /\ closedHooks = 0
        /\ enabled = FALSE
        /\ counts = <<0, 0>>
        /\ outdated = FALSE
        /\ pc = [w \in Workers |-> "idle"]
        /\ job = [w \in Workers |-> NoJob]

Go(w, p, j) == /\ pc' = [pc EXCEPT ![w] = p]
               /\ job' = [job EXCEPT ![w] = j]

\* Every operation ends by publishing the counts.
Sync(w, j, after) == Go(w, "sync", [j EXCEPT !.after = after])

Idle == \A w \in Workers : pc[w] = "idle"

\* A *nats.Subscription nobody has a pointer to.
Unreferenced(sub) ==
    /\ live[sub] = 0
    /\ \A id \in Registered : entries[id].sub # sub
    /\ \A w \in Workers : /\ sub # job[w].sub
                          /\ sub # job[w].rec.sub
                          /\ sub \notin job[w].handles
                          /\ \A r \in job[w].todo : r.sub # sub

Unsubscribe(sub) == live' = [live EXCEPT ![sub] = 0]

Job == [kind : Kind, id : 0..MaxID, key : Keys \union {NoKey},
        todo : SUBSET Record, failed : BOOLEAN, rec : Record,
        sub : Subs \union {NoSub}, handles : SUBSET Subs,
        seen : Nat \X Nat, after : {"idle", "check", "finish", "session"}]

-----------------------------------------------------------------------------
(* Registration.                                                           *)

RegisterBegins(w, key) ==
    /\ pc[w] = "idle"
    /\ TakeID
    /\ Go(w, "add", [NoJob EXCEPT !.kind = "register", !.id = nextID + 1,
                                  !.key = key])
    /\ UNCHANGED <<linkVars, clientVars>>

RegisterAdds(w) ==
    /\ pc[w] = "add"
    /\ Add(job[w].id, job[w].key)
    /\ Sync(w, job[w], "check")
    /\ UNCHANGED <<linkVars, clientVars>>

RegisterConflicts(w) ==
    /\ pc[w] = "add"
    /\ AddConflict(job[w].id, job[w].key)
    /\ Go(w, "idle", NoJob)
    /\ UNCHANGED <<linkVars, clientVars>>

\* Mutant: a registration made while the link is down is left to Start too.
DeferredUnlessUp == session # "up"

Deferred == session \in {"new", "connecting"}

\* activateAfterRegistration: before and during Start the activation is left to
\* Start.  While Start connects, the state it reads may be another one: that of
\* a Close that waits, or what a late handler of an earlier connection has left
\* (see Session; which of them there are is not told apart here).
RegisterChecks(w) ==
    /\ pc[w] = "check"
    /\ \/ Deferred /\ Go(w, "idle", NoJob)
       \/ (Deferred => session = "connecting") /\ Go(w, "lookup", job[w])
    /\ UNCHANGED <<regVars, linkVars, clientVars>>

\* activationRecordByID
RegisterLooksUp(w) ==
    /\ pc[w] = "lookup"
    /\ LET id == job[w].id IN
       IF id \in Registered /\ entries[id].sub = NoSub
       THEN Go(w, "subscribe", [job[w] EXCEPT !.rec = [id |-> id, sub |-> NoSub]])
       ELSE Sync(w, job[w], "idle")
    /\ UNCHANGED <<regVars, linkVars, clientVars>>

\* Mutant: the counts are not published again after a rollback.
RollsBackSilently(w) ==
    /\ pc[w] = "rollback"
    /\ Remove(job[w].id)
    /\ Go(w, "idle", NoJob)
    /\ UNCHANGED <<linkVars, clientVars>>

\* rollbackRegistration
RegisterRollsBack(w) ==
    /\ pc[w] = "rollback"
    /\ Remove(job[w].id)
    /\ IF job[w].id \in Registered /\ entries[job[w].id].sub # NoSub
       THEN Go(w, "drop", [job[w] EXCEPT !.sub = entries[job[w].id].sub])
       ELSE Sync(w, job[w], "idle")
    /\ UNCHANGED <<linkVars, clientVars>>

RegisterDrops(w) ==
    /\ pc[w] = "drop"
    /\ Unsubscribe(job[w].sub)
    /\ Sync(w, [job[w] EXCEPT !.sub = NoSub], "idle")
    /\ UNCHANGED <<regVars, session, losses, restores, closedHooks, clientVars>>

-----------------------------------------------------------------------------
(* Start, and the restore after a reconnect: both work through a list of   *)
(* records read at its beginning.                                          *)

\* startSession: nil at once if the session is running.
StartBegins(w) ==
    /\ pc[w] = "idle"
    /\ \/ /\ session \in {"up", "down"}
          /\ Go(w, "list", [NoJob EXCEPT !.kind = "start"])
          /\ UNCHANGED session
       \/ /\ session \in {"new", "closed"}
          /\ closedHooks < MaxHooks
          /\ session' = "connecting"
          /\ Go(w, "starting", [NoJob EXCEPT !.kind = "start"])
    /\ UNCHANGED <<regVars, losses, live, restores, closedHooks, clientVars>>

StartConnects(w) ==
    /\ pc[w] = "starting"
    /\ session' = "up"
    /\ Go(w, "list", job[w])
    /\ UNCHANGED <<regVars, losses, live, restores, closedHooks, clientVars>>

\* A connection that was dialled and closed again has its closed handler run.
StartFails(w) ==
    /\ pc[w] = "starting"
    /\ session' = "closed"
    /\ closedHooks' \in {closedHooks, closedHooks + 1}
    /\ Go(w, "idle", NoJob)
    /\ UNCHANGED <<regVars, losses, live, restores, clientVars>>

\* onSessionReconnected, on a rebind goroutine of its own.
RestoreBegins(w) ==
    /\ pc[w] = "idle"
    /\ restores > 0
    /\ restores' = restores - 1
    /\ IF enabled THEN Go(w, "list", [NoJob EXCEPT !.kind = "restore"])
       ELSE Go(w, "idle", NoJob)
    /\ UNCHANGED <<regVars, session, losses, live, closedHooks, clientVars>>

ListsRecords(w) ==
    /\ pc[w] = "list"
    /\ Go(w, "next", [job[w] EXCEPT !.todo =
                        {[id |-> id, sub |-> entries[id].sub] : id \in Registered}])
    /\ UNCHANGED <<regVars, linkVars, clientVars>>

\* activateRecord: Start leaves a record that was active when it was listed, a
\* restore replaces its subscription.
NextRecord(w) ==
    /\ pc[w] = "next"
    /\ \/ /\ job[w].todo = {}
          /\ Sync(w, job[w], "finish")
       \/ \E r \in job[w].todo :
            LET j == [job[w] EXCEPT !.todo = @ \ {r}, !.rec = r]
            IN  \/ /\ r.sub = NoSub
                   /\ Go(w, "subscribe", j)
                \/ /\ r.sub # NoSub
                   /\ job[w].kind = "restore"
                   /\ Go(w, "stale", j)
                \/ /\ r.sub # NoSub
                   /\ job[w].kind = "start"
                   /\ Go(w, "next", [job[w] EXCEPT !.todo = @ \ {r}])
    /\ UNCHANGED <<regVars, linkVars, clientVars>>

\* Mutant: the restore leaves the stale subscription alone.
KeepsStale(w) ==
    /\ pc[w] = "stale"
    /\ Go(w, "subscribe", job[w])
    /\ UNCHANGED <<regVars, linkVars, clientVars>>

DropsStale(w) ==
    /\ pc[w] = "stale"
    /\ Unsubscribe(job[w].rec.sub)
    /\ Go(w, "subscribe", [job[w] EXCEPT !.rec.sub = NoSub])
    /\ UNCHANGED <<regVars, session, losses, restores, closedHooks, clientVars>>

StartFinishes(w) ==
    /\ pc[w] = "finish"
    /\ job[w].kind = "start"
    /\ enabled' = ~job[w].failed
    /\ IF job[w].failed THEN Go(w, "clear", job[w]) ELSE Go(w, "idle", NoJob)
    /\ UNCHANGED <<regVars, linkVars, counts, outdated>>

RestoreFinishes(w) ==
    /\ pc[w] = "finish"
    /\ job[w].kind = "restore"
    /\ Go(w, "idle", NoJob)
    /\ UNCHANGED <<regVars, linkVars, clientVars>>

-----------------------------------------------------------------------------
(* activateRecord: one record, whoever activates it.                       *)

Done(j) == [j EXCEPT !.rec = NoJob.rec, !.sub = NoSub]

Continues(w, j) == IF j.kind = "register" THEN Sync(w, Done(j), "idle")
                   ELSE Go(w, "next", Done(j))

Gives(w, j) == IF j.kind = "register" THEN Go(w, "rollback", Done(j))
               ELSE Go(w, "next", [Done(j) EXCEPT !.failed = TRUE])

\* subscribeInternal: Connection() answers and Subscribe succeeds, ...
Subscribes(w) ==
    /\ pc[w] = "subscribe"
    /\ session = "up"
    /\ \E sub \in Subs : /\ Unreferenced(sub)
                         /\ live' = [live EXCEPT ![sub] = job[w].rec.id]
                         /\ Go(w, "flush", [job[w] EXCEPT !.sub = sub])
    /\ UNCHANGED <<regVars, session, losses, restores, closedHooks, clientVars>>

\* ... or one of them fails; ...
SubscribeFails(w) ==
    /\ pc[w] = "subscribe"
    /\ Go(w, "unmark", job[w])
    /\ UNCHANGED <<regVars, linkVars, clientVars>>

\* ... the server has the subscription, ...
FlushSucceeds(w) ==
    /\ pc[w] = "flush"
    /\ session = "up"
    /\ live[job[w].sub] # 0
    /\ Go(w, "mark", job[w])
    /\ UNCHANGED <<regVars, linkVars, clientVars>>

\* Mutant: a subscription whose flush failed is not undone.
FlushFailsLeaving(w) ==
    /\ pc[w] = "flush"
    /\ Go(w, "unmark", [job[w] EXCEPT !.sub = NoSub])
    /\ UNCHANGED <<regVars, linkVars, clientVars>>

\* ... or has not said so within the timeout.
FlushFails(w) ==
    /\ pc[w] = "flush"
    /\ Unsubscribe(job[w].sub)
    /\ Go(w, "unmark", [job[w] EXCEPT !.sub = NoSub])
    /\ UNCHANGED <<regVars, session, losses, restores, closedHooks, clientVars>>

Marks(w) ==
    /\ pc[w] = "mark"
    /\ MarkActive(job[w].rec.id, job[w].sub)
    /\ IF job[w].rec.id \in Registered THEN Continues(w, job[w])
       ELSE Go(w, "discard", job[w])
    /\ UNCHANGED <<linkVars, clientVars>>

\* The registration was removed during its activation.
Discards(w) ==
    /\ pc[w] = "discard"
    /\ Unsubscribe(job[w].sub)
    /\ Continues(w, job[w])
    /\ UNCHANGED <<regVars, session, losses, restores, closedHooks, clientVars>>

Unmarks(w) ==
    /\ pc[w] = "unmark"
    /\ MarkInactive(job[w].rec.id)
    /\ Gives(w, job[w])
    /\ UNCHANGED <<linkVars, clientVars>>

-----------------------------------------------------------------------------
(* syncSubscriptionHealth: the counts are read in one critical section and *)
(* stored in another.                                                      *)

ReadsCounts(w) ==
    /\ pc[w] = "sync"
    /\ Go(w, "publish", [job[w] EXCEPT !.seen = Counts])
    /\ UNCHANGED <<regVars, linkVars, clientVars>>

PublishesCounts(w) ==
    /\ pc[w] = "publish"
    /\ counts' = job[w].seen
    /\ outdated' = (job[w].seen # Counts)
    /\ LET j == [job[w] EXCEPT !.seen = <<0, 0>>, !.after = "idle"]
       IN  Go(w, job[w].after, IF job[w].after = "idle" THEN NoJob ELSE j)
    /\ UNCHANGED <<regVars, linkVars, enabled>>

-----------------------------------------------------------------------------
(* Close, and the closed handler of a connection.                          *)

CloseBegins(w) ==
    /\ pc[w] = "idle"
    /\ enabled' = FALSE
    /\ Go(w, "clear", [NoJob EXCEPT !.kind = "close"])
    /\ UNCHANGED <<regVars, linkVars, counts, outdated>>

\* onSessionClosed, on the callback goroutine of the connection that closed.
ClosedHookBegins(w) ==
    /\ pc[w] = "idle"
    /\ closedHooks > 0
    /\ closedHooks' = closedHooks - 1
    /\ enabled' = FALSE
    /\ Go(w, "clear", [NoJob EXCEPT !.kind = "closed"])
    /\ UNCHANGED <<regVars, session, losses, live, restores, counts, outdated>>

\* deactivateAllSubscriptions
Clears(w) ==
    /\ pc[w] = "clear"
    /\ ClearActiveHandles
    /\ Go(w, "unsub", [job[w] EXCEPT !.handles = ActiveHandles])
    /\ UNCHANGED <<linkVars, clientVars>>

Unsubs(w) ==
    /\ pc[w] = "unsub"
    /\ \/ \E sub \in job[w].handles :
            /\ Unsubscribe(sub)
            /\ Go(w, "unsub", [job[w] EXCEPT !.handles = @ \ {sub}])
       \/ /\ job[w].handles = {}
          /\ Sync(w, job[w], IF job[w].kind = "close" THEN "session" ELSE "idle")
          /\ UNCHANGED live
    /\ UNCHANGED <<regVars, session, losses, restores, closedHooks, clientVars>>

\* Nothing is subscribed on a connection that is closed.
NothingLive == live' = [sub \in Subs |-> 0]

\* session.Close, which waits for a Start under way ...
ClosesSession(w) ==
    /\ pc[w] = "session"
    /\ session # "connecting"
    /\ session' = "closed"
    /\ closedHooks' = IF session \in {"up", "down"} THEN closedHooks + 1
                      ELSE closedHooks
    /\ NothingLive
    /\ Go(w, "idle", NoJob)
    /\ UNCHANGED <<regVars, losses, restores, clientVars>>

\* ... unless its context ends while a Start connects, or just when that returns;
\* if another Close is there it returns at once.
CloseLeaves(w) ==
    /\ pc[w] = "session"
    /\ \/ session = "connecting"
       \/ \E v \in Starters : pc[v] = "list" /\ job[v].kind = "start"
       \/ \E v \in Deactivators \ {w} : pc[v] = "session"
    /\ Go(w, "idle", NoJob)
    /\ UNCHANGED <<regVars, linkVars, clientVars>>

-----------------------------------------------------------------------------
(* The connection on its own.  nats.go repeats the subscriptions of a      *)
(* connection to the server when its link returns.                         *)

LinkDrops == /\ session = "up"
             /\ losses < MaxLosses
             /\ session' = "down"
             /\ losses' = losses + 1
             /\ UNCHANGED <<live, restores, closedHooks>>

\* The hook is called unless the rebind fails.
LinkReturns == /\ session = "down"
               /\ session' = "up"
               /\ restores' \in {restores, restores + 1}
               /\ UNCHANGED <<losses, live, closedHooks>>

LinkLost == /\ session = "down"
            /\ session' = "closed"
            /\ NothingLive
            /\ closedHooks' = closedHooks + 1
            /\ UNCHANGED <<losses, restores>>

-----------------------------------------------------------------------------

ActivationStep(w) == \/ \E key \in Keys : RegisterBegins(w, key)
                     \/ RegisterAdds(w)
                     \/ RegisterConflicts(w)
                     \/ RegisterChecks(w)
                     \/ RegisterLooksUp(w)
                     \/ RegisterRollsBack(w)
                     \/ RegisterDrops(w)
                     \/ StartConnects(w)
                     \/ StartFails(w)
                     \/ RestoreBegins(w)
                     \/ ListsRecords(w)
                     \/ NextRecord(w)
                     \/ DropsStale(w)
                     \/ Subscribes(w)
                     \/ SubscribeFails(w)
                     \/ FlushSucceeds(w)
                     \/ FlushFails(w)
                     \/ Marks(w)
                     \/ Discards(w)
                     \/ Unmarks(w)
                     \/ StartFinishes(w)
                     \/ RestoreFinishes(w)

DeactivationStep(w) == \/ CloseBegins(w)
                       \/ ClosedHookBegins(w)
                       \/ ClosesSession(w)
                       \/ CloseLeaves(w)

CommonStep(w) == \/ Clears(w)
                 \/ Unsubs(w)
                 \/ ReadsCounts(w)
                 \/ PublishesCounts(w)

Next == \/ \E w \in Starters : StartBegins(w)
        \/ \E w \in Activators : ActivationStep(w)
        \/ \E w \in Deactivators : DeactivationStep(w)
        \/ \E w \in Workers : CommonStep(w)
        \/ /\ LinkDrops \/ LinkReturns \/ LinkLost
           /\ UNCHANGED <<regVars, clientVars, pc, job>>

Spec == Init /\ [][Next]_vars

-----------------------------------------------------------------------------
(* Properties.                                                             *)

\* Every variable holds a value of its kind.
SubsTypeOK == /\ RegTypeOK
              /\ session \in Session
              /\ losses \in 0..MaxLosses
              /\ live \in [Subs -> 0..MaxID]
              /\ restores \in Nat
              /\ closedHooks \in Nat
              /\ enabled \in BOOLEAN
              /\ counts \in Nat \X Nat
              /\ outdated \in BOOLEAN
              /\ pc \in [Workers -> Pc]
              /\ job \in [Workers -> Job]

\* A goroutine is about to enter sub in the registry, or to unsubscribe it.
InHand(sub) == \E w \in Workers : \/ job[w].sub = sub
                                  \/ sub \in job[w].handles
                                  \/ pc[w] = "stale" /\ job[w].rec.sub = sub

\* sub delivers to a handler, and neither the registry nor a goroutine at work
\* knows its handle.
Orphan(sub) == /\ live[sub] # 0
               /\ ~InHand(sub)
               /\ \A id \in Registered : entries[id].sub # sub

\* Whatever fails half way, Close and a restore can still take every
\* subscription back: one activation at a time orphans none.
NoOrphan == \A sub \in Subs : ~Orphan(sub)

\* w writes over a handle that another goroutine entered after w read the record.
Overwrites(w, sub) == /\ pc[w] \in {"mark", "unmark"}
                      /\ job[w].rec.id \in Registered
                      /\ entries[job[w].rec.id].sub = sub
                      /\ pc'[w] # pc[w]

\* However many goroutines activate at once, a subscription is orphaned in one
\* way only: activateRecord subscribes outside the lock and then sets ActiveSub
\* without looking again (handlers_runtime.go:241-259), over a live handle that
\* is not its own.  No failed flush, rollback, Close or closed handler, and no
\* two of them crossing, does it.
OrphansByOverwriting ==
    [][\A sub \in Subs : Orphan(sub)' /\ ~Orphan(sub) =>
            live[sub] # 0 /\ \E w \in Activators : Overwrites(w, sub)]_vars

\* Health tells how many intents are registered and how many are active once
\* every goroutine is done: whatever changes the registry publishes the counts
\* after its last change.  The exception is a goroutine that stored what it had
\* read before another's change (handlers_runtime.go:397 reads and stores in two
\* steps): nothing corrects that until the next change.
CountsSettle == Idle /\ ~outdated => counts = Counts

\* PROMPTS/05-subscribe-handlers-reconnect.md:261: "Must avoid duplicate active
\* subscriptions during Start(ctx) and reconnect restore": a message is not
\* delivered twice to a handler, save by a subscription being taken back.
OneLivePerIntent == \A s, t \in Subs :
    /\ s # t
    /\ live[s] # 0
    /\ live[s] = live[t]
    => InHand(s) \/ InHand(t)

\* The client is started, and nothing is under way or due.
Started == Idle /\ session = "up" /\ enabled /\ restores = 0 /\ closedHooks = 0

\* PROMPTS/05-subscribe-handlers-reconnect.md:297: "After Start(ctx), all
\* registered handlers should be active", and after a restart too (:341).  When
\* the client is started, every intent has a live subscription, or an error
\* that says why not.
ServingAll ==
    Started => \A id \in Registered :
                  \/ entries[id].err
                  \/ entries[id].sub # NoSub /\ live[entries[id].sub] = id

\* The places at which one record is being activated.
Acting == {"stale", "subscribe", "flush", "mark", "discard", "unmark"}

\* A Start that has listed the records, and is not done.
PastAt(p, j) == /\ j.kind = "start"
                /\ \/ p \in Acting \union {"next", "finish"}
                   \/ p \in {"sync", "publish"} /\ j.after = "finish"

Past(w) == PastAt(pc[w], job[w])

\* Neither Close nor the closed handler clears the registry while a Start works
\* through its list, or an activation is about to enter its handle.  The code
\* does not see to it (handlers_runtime.go:233, 381); where it comes about all
\* the same, ServingAll holds.
Uncrossed == \A d \in Deactivators, w \in Activators :
    pc[d] = "clear" => pc[w] # "mark" /\ ~Past(w)
=============================================================================
