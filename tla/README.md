# A TLA+ verification of nats-agent-core

`nats-agent-core` is a Go library that agents embed to talk over NATS: it keeps
one connection with JetStream and a KV bucket, registers handlers for
configure, action, result and status messages, stores a target's desired
configuration in the bucket and announces it, and lets an agent watch or load
it. The library starts few goroutines of its own, but its callers, nats.go's
handlers, its rebind goroutine and its watch consumers all meet in a few
mutexes, and most calls let go of them while they wait for the network. That is
what this directory models, checks with TLC, and in part proves with TLAPS.

Every definition follows the Go code; `PROJECT.json` maps each to its lines.
nats.go is a dependency: what the code assumes of it is modelled as an
environment and marked external.

## 1. Inventory

| component | code | state | operations |
|---|---|---|---|
| session manager | `internal/session` | `nc`, `js`, `kv`, health, `starting`/`startDone`, `closing`/`closeRequested` | Start, Close, onDisconnect, onReconnect, onClosed, rebindAfterReconnect |
| registry | `internal/registry` | entries by id, ids by key, id counter | Add, MarkActive, MarkInactive, ClearActiveHandles, Remove, Counts |
| subscriptions | `agentcore/handlers_runtime.go` | registry, `callbacksEnabled`, the live `*nats.Subscription`s, counts in health | register (with rollback), activate, restore, deactivate, publish counts |
| client | `agentcore/client.go` | `watches`, handler context, `callbacksEnabled` | Start, Close, Submit*, Publish*, trackWatch, stopAllWatches |
| dispatch | `handlers_runtime.go:463-657` | none of its own | decode, validate, call the handler, recover |
| desired-config store | `internal/kv/store.go` | none; the KV slot of a target | StoreDesiredConfig, LoadDesiredConfig |
| desired-config watch | `internal/kv/watch.go` | per watch: context, consumer, `ready`, `done`, `once` | WatchDesiredConfig, StopFunc |
| publisher | `internal/transport` | none | Publish (publish, then flush) |
| message contract | `internal/contract`, `agentcore/contracts.go`, and copies in `handlers_runtime.go`, `kv/store.go` | none | validate, encode, decode |
| subjects and keys | `internal/subjects`, `internal/kv/helpers.go` | the patterns in effect | PatternsFromConfig, NewBuilder, ...Subject, buildDesiredConfigKey |
| options | `session/options.go`, `agentcore/config.go` | the options in effect | normalizeConfig |
| errors, observability | `runtimeerr`, `errors.go`, `observe.go` | none | types and interfaces |

How they meet. `Client.Start` calls `session.Start` and then activates every
registered intent. The session calls back into the client from goroutines that
nats.go or the session starts: `OnReconnected` after a rebind (restore every
subscription) and `OnClosed` (clear every handle). `Client.Close` disables the
callbacks, unsubscribes, stops the watches, and closes the session.
`SubmitConfigure` goes through the store (Put, Get) and the publisher; the
agent's configure callback loads the slot. Everything asks the session for its
handles (`Connection`, `KeyValue`) when it needs them and uses them after the
lock is gone.

What is hard, and what it must not break:

* Start, Close and a dial that was given up hand one connection around. It must
  never be without an owner, doubled, or installed after a Close.
* Handlers of nats.go are queued per connection and run late; they must not
  speak for a newer connection.
* An activation reads an entry, subscribes and flushes without the lock, and
  then writes the entry. No subscription may be lost or doubled on the way, and
  in the end every intent is served.
* StopFunc, Close, timeouts and contexts compete to end a watch; its consumer
  must stay within someone's reach and be awaited once.
* Storing and announcing a config are two steps with four failures between
  them; agents come and go meanwhile.
* `callbacksEnabled` and the handler context are written one after the other,
  by Start, Close and the closed hook at once. A handler must have a context
  that ends when the client does, and no sooner.
* The rules of a message are written three times, its subject and its key are
  built by two copies of one check, and every zero option has a meaning: what
  one side lets out the other must accept, and nobody else may get it.

The hazards are listed one by one, at their lines, in `PROJECT.json`.

## 2. Modules

| module | models | extends |
|---|---|---|
| `NatsConn` | connections of nats.go: status, queued handlers (external) | |
| `Session` | `session.go`, `callbacks.go` | `NatsConn` |
| `Lifecycle` | abstract: what the session promises | |
| `Client` | Start, Close, the handler context, the closed hook, dispatch | |
| `Registry` | `registry.go` | |
| `Subscriptions` | `handlers_runtime.go`, Start and Close of `client.go` | `Registry` |
| `Watch` | `watch.go`, trackWatch and stopAllWatches of `client.go` | |
| `DesiredConfig` | SubmitConfigure, `store.go`, `publisher.go`, the configure callback, StartupReconcile | |
| `Slot` | abstract: what store, notifications and reconcile promise | |
| `Contract` | the message types, their rules, their encoding | |
| `Subjects` | patterns, names, subjects, keys | |
| `Options` | `options.go`, `config.go` | `Subjects` |
| `Exchange` | one message from New over Submit and Publish to the callbacks | `Contract`, `Options` |
| `SessionProofs`, `ClientProofs`, `RegistryProofs`, `SubscriptionsProofs`, `WatchProofs`, `DesiredConfigProofs`, `ExchangeProofs` | theorems | the module they are about |
| `HandlesProofs` | theorems on who holds a subscription | `SubscriptionsProofs` |
| `MC*` | instances for TLC: symmetry sets, configurations, names | |
| `MCServing` | `Subscriptions` with a variable that watches for a clear that crosses an activation | `MCSubscriptions` |

**Session.** A goroutine in Start or Close has a program counter; one action is
one critical section of `m.mu` or one call on the connection between two of
them. `startDone` names the Start whose channel it is. `status`, `callbacks`
and `drops` belong to nats.go. `rebinding` and `rebound` count the rebind
goroutines before and after they have fetched their handles. `outlived` is a
history variable for one property. Health is its state only. `Session` checks
`ImplementsLifecycle`, the refinement of the abstract `Lifecycle`: opening and
shutting exclude each other, a runtime appears only while opening, and none is
let go while its connection lives.

**Client.** What handlers see of the life of a client: the flag
`callbacksEnabled` and the handler context. Every goroutine that is in Start,
Close or the closed hook has a program counter, one action per access of the
flag or critical section of `c.mu`; Close, the hook and a Start that could not
activate share the steps of the teardown. A context is a number, 0 is
`context.Background()` or none. The session is up or down and `due` counts the
closed handlers to come; what Start and Close do with subscriptions is in
`Subscriptions`, with watches in `Watch`, with the connection in `Session`.
Two history variables name the one case in which the code keeps no promise: a
Start during which a teardown begins may enable last (`late`), and leaves
`callbacksEnabled` set on a closed client. The properties exempt
it by name. A Close may return with the session as it was, because another Close
is at work on it or because its context ends while it waits for a Start;
`Subscriptions` has both, and `Watch`, in which no Start runs, the first.

**Registry and Subscriptions.** `Add` is two steps, as the id is drawn before
the lock. A worker's local variables are the record `job`; `pc` tells where it
stands in activateRecord, subscribeInternal, rollbackRegistration or
deactivateAllSubscriptions. `live[sub]` is what the server would deliver, the
truth that the registry's entries are compared with. The session is seen as
this code sees it: a state and whether there is a connection. `outdated` tells
that counts are being stored that another goroutine's change has overtaken.

**Watch.** Each watch has a caller, a helper that turns the caller's context
into a cancel, and a consumer with a program counter; `once` is the sync.Once
of the tracked StopFunc. An update either decodes and reaches the handler, or
is skipped (a delete marker, or a value that does not decode), or is the nil
after the initial values.

**DesiredConfig and Slot.** `log` is the sequence of values the slot has had,
and a revision is an index into it; the bucket itself keeps the last. A Put is a
request that may be stored or lost at any time, in particular after its caller
has timed out. `wire` holds notifications, unordered; who does not receive one
is in `lost` if nothing but that notification could have told it. The
configure handler is the application's, and does what the README and the
integration tests do: it calls LoadDesiredConfig. All of it implements `Slot`
(`ImplementsSlot`): every call writes once at most, is accepted and announced
only after it has, and agents read the slot as it is at that moment.

**Contract, Subjects, Options, Exchange.** The pure parts. A message is a
function from the fields of its type to "empty", "bad" or "good", which is all
the rules look at; a set of rules is the set of fields that must be set and the
set of those that must be well formed. `Contract` keeps the copies of the rules
apart, as the code does. Names, patterns and subjects are sequences of pieces
(a word, a ".", white space, a wildcard, "%s"), so that Sprintf can make two
names into one subject if the checks let it (`Fill`). `Exchange` puts one message
through all of it: New with some configuration, one call that sends (every
message the rules let through, every pair of names), and every callback that
could be registered.

## 3. Runs

| run | instance | distinct states | shows |
|---|---|---|---|
| `session_life` | 2 connections, 2 Start, 2 Close callers, 1 loss each | 220 621 | no leak, one runtime, Close fences Start, health has a runtime, follows it and stays closed after a Close, calls are refused only while another is in progress and return, given-up dials end, implements `Lifecycle` |
| `client_life` | 2 Start, 1 Close caller, 1 closed hook, 1 handler, 2 contexts | 387 141 | enabled means a live context and a session, nothing survives a stop, handlers are told to stop |
| `subs_single` | 1 activating and 1 deactivating goroutine, 2 keys, 3 subscriptions, 1 loss | 977 951 | no orphan, no duplicate, counts settle, every intent of a started client is served unless a clear crossed an activation |
| `subs_racing` | 2 activating goroutines (one may Start), 2 keys, 3 subscriptions, 2 losses | 1 980 532 | exact index with two that register, every intent is served whenever a started client is at rest; a subscription is orphaned only by an activation that writes over its handle |
| `watch_life` | 1 watch, 2 StopFunc callers, 2 Closes, 2 updates | 59 794 | no stray consumer, stopped by one, stop is final, calls return, consumers end with the connection |
| `desired_flow` | 2 SubmitConfigures, 1 StoreDesiredConfig, 1 agent that may crash once | 273 788 | stored before announced, durable when accepted, known after recovery, implements `Slot` |
| `exchange_flow` | 67 configurations, 9 names, every message | 18 999 | what is sent is read, what is stored can be announced, nobody else is called, calls have deadlines |

Bounds. Two connections let a Start replace a connection while the handlers of
the one before are still queued, or a dial be abandoned beside a live one. Two
callers of each kind are what a mutex-protected flag can confuse; a third would
repeat the part of the second. One handler is enough, as handlers share nothing
but what they read. `client_life` has one Close; what a second does that another
overtakes is in the theorems about `Client`. `MaxContexts` bounds the Starts that make a context. One watch is what StopFuncs and Closes
compete for; that a Close stops several in turn is in the theorems about `Watch`. Two
keys are what an index can confuse; three subscriptions are one per activation
and a replacement. Two losses let a second restore overtake a first. With
`MaxHooks` = n (`MaxDue` in `Client`) a Start begins only while fewer than n
closed handlers are due; that of a Start that fails comes on top. Two
submitters and a silent writer are what one slot can confuse, and one crash
shows recovery. The safety properties do not depend on these bounds: they are
theorems for all values (section 4), three of those about `Subscriptions` under
hypotheses that the runs below show to be needed. The names and configurations of `exchange_flow` are one for each
reason of the code to refuse one, two good names, a name with the separator
that a pattern may use, and patterns that give two kinds one subject. In the
`subs_*` runs identities are interchangeable and symmetry is used; runs with
liveness properties do not use it.

Deadlock checking is off where the model has used up its bounded inputs and
really stops: `subs_racing`, `subs_duplicate` (ids and losses used up, nobody
closes), the `desired_*` runs (each call is made once) and the `exchange_*` runs
(one message).

Five runs are expected to fail. Each states what a document of the repository
says and shows what the code does:

| run | statement | what happens |
|---|---|---|
| `session_late` | no runtime appears after a Close has completed (`PROMPTS/04c-runtime-fixes.md:169`) | a second Close returns at once; the first withdraws when its context ends; Start then installs |
| `subs_duplicate` | no duplicate subscriptions (`PROMPTS/05-subscribe-handlers-reconnect.md:261`) | a registration and Start activate one entry; the first handle is overwritten |
| `subs_restart` | all registered handlers are active after Start (same file, `:297`) | a late closed handler takes the handles of the new Start; it also sets health to closed over it (`callbacks.go:33`) |
| `desired_revision` | revision metadata belongs to the entry (`REQUIREMENTS_CHECKLIST.md:55`) | the Get after the Put finds another writer's entry |
| `exchange_outcome` | configure outcomes include the config UUID (`SPEC.md:354`) | PublishResult lets a result of a configure command out without one |

So `NoOrphan` and `OneLivePerIntent` hold with one activating goroutine
(`subs_single`) and not with two that activate one intent at the same time, and
`ServingAll` holds without closed handlers (`subs_racing`), and with Close and
closed handlers as long as no clear crosses an activation (`subs_single`, in which
`MCServing` watches for that), and not if one clears the registry during a
Start. The theorems about them have just that as hypothesis.

Some properties say what the code does not promise. `HealthConverges` allows
degraded over a live connection, whichever rebind set it, and is said of the
first connection. `ClosedInTheEnd` is said of a Close that no rebind outlives:
one that fails after onClosed leaves a closed client degraded
(`callbacks.go:60-79`). The properties of `Client` exempt a Start that a teardown
overlaps (`late`): it may enable the callbacks of a client that is closed by then
(`client.go:234`). What `ServingUncrossed` exempts happens too, in two ways: the
clear takes the handles of a Start (`subs_restart`), or an activation enters the
handle of a connection that Close has shut down meanwhile, and the next Start
skips the entry as active (`handlers_runtime.go:233`). `CountsSettle` exempts
counts overtaken between reading and storing them. `AddresseesApart` exempts
patterns whose placeholders share a token ("%s-%s"), which New accepts.
`KindsApart` exempts, for custom patterns that give an action and a result one
subject, a result that has every field of an action command. `StoredIsUsable`
holds of the default clock: with `WithClock` a zero or unwritable time would
fail after the Put.

Every property of a passing run has a mutant: a plausible slip in one mapped
definition (the definition marked `Mutant:` before it) under which TLC finds the
property violated.

### Fairness

Weak fairness on the steps of goroutines that are not blocked. In `Session` a
dial ends within its timeout, the setup and rebind within the KV timeout, and a
drain within nats.go's: the code passes these timeouts on. In `Watch` handlers
return, which is an assumption about the user; a handler that calls its own
StopFunc would wait for itself. In `DesiredConfig` a subscription's goroutine
delivers what has reached it and the agent, once up, starts its client and
reconciles until that succeeds. In `Client` a Start or teardown that has begun
goes on and nats.go runs the closed handlers that are due; handlers need not
return. Nothing is assumed of servers, of links coming
back, of Puts being stored, of contexts ending, or of anybody calling anything.

## 4. Proofs

All for any values of the constants, from the named assumptions in the modules
(null values differ from real ones, roles are disjoint, bounds are naturals).

* `SessionProofs`. None of the safety properties is inductive. `IInv` adds who
  holds the flags (`Locks`: `startDone` belongs to the one Start in flight, at
  most one Close works), what a waiting Close knows (`Fence`), what `m.nc` can be
  (`Runtime`: replaceable only when closed), what a Start call holds
  (`Holding`), and who answers for each connection (`Owners`). From it:
  `RefusedOnlyBusy`, `TypeCorrect`, `NoLeak`, `OneRuntime`, `CloseFences`, `ConnectedSound`,
  `LetGoOnlyDead`, and `Implementation` (every step is a step of `Lifecycle` or
  a stutter).
* `ClientProofs`: `ClientTypeCorrect`, `EnabledAlwaysHasContext`,
  `StartedIsConnected`, `StoppedIsCanceled`, `CanceledOnlyDisabled`. The
  invariant `ClientInv` says that a Start no teardown overlaps runs alone
  (`Apart`) and keeps the context and the connection it found (`Kept`), that
  callbacks enabled on a lost connection will be disabled (`WillDisable`), and
  where every context is: canceled, current, or in the hands of a teardown
  (`Accounted`), which has not forgotten it (`Claimed`).
* `RegistryProofs`: `RegistryConsistent`. The index is exact because ids are
  fresh (`IdsFresh`): an id drawn and not yet entered is in no entry.
* `SubscriptionsProofs`: `SubsTypeCorrect`, `SubsIndexExact`, `CountsSettled`,
  and `UsesRegistry`: every step of the client is one call of a registry method
  or leaves the registry alone. `SubsInv` adds what a goroutine's locals hold
  where it stands. For the counts, `CountsDue` says that wrong ones have been
  overtaken or will be published by a goroutine at work.
* `HandlesProofs` follows a subscription from the goroutine that makes it
  (`Carrying`) to the one entry that holds it (`OwnHandles`), or to the one that
  takes it back. Two results need nothing more than `HandlesInv`, which is this
  and `SubsInv`:
  `OrphansOnlyByOverwriting` (of all interleavings only an activation that writes
  over another's handle loses one) and `TwiceOnlyByOrphan` (without an orphan no
  message is delivered twice). The others have hypotheses about the run:
  * `NoOrphanIfApart`, `OneLiveIfApart`: no orphan, no duplicate as long as no two
    goroutines have the same intent in progress (`ActivationsApart`), whatever
    fails and whatever closes. The invariant is `AllCurrent`: what an activation
    has read of an entry is still true of it, or the entry's handle has been
    taken. `NoOrphanOneActivator` and `OneLiveOneActivator` are the case of one
    activating goroutine and any number that close.
  * `ServingIfUncrossed`: with one goroutine that calls Start, and any number that
    register, restore and close, every intent is served or has an error that
    says why not, if nobody clears the registry while a Start works through its
    list or an activation is about to enter its handle (`Uncrossed`; the code
    does not enforce it, `handlers_runtime.go:233`). `ServingInv` says that
    a handle in an entry lives, or will be replaced or cleared (`HandlesOK`), that
    an entry without one has an error, is on somebody's list, or waits for Start
    (`BaresOK`), that each subscription is in one place (`AllApart`),
    and that what is about to be entered lives (`MarkLive`). `ServingUnclosed` is
    the case in which no connection is closed: any number of losses, restores and
    overlapping registrations.
* `WatchProofs`: `WatchTypeCorrect`, `NoStray`, `OneStopper`, `StopFinal`, for
  any number of watches, StopFuncs and Closes. `WatchInv` follows a watch
  through the hands it passes: how far its caller, consumer and `once` may be
  apart (`Stages`), that who takes it from `c.watches` takes it alone (`Owned`,
  `Emptied`), and what has ended when it is let go (`Released`).
* `DesiredConfigProofs`: `DesiredTypeCorrect`, `StoreThenNotify`,
  `AcceptedDurable`, `ReconcileSuffices`, `SlotImplemented`. The invariant says that a call past
  its Put has its config in the log at or before the revision it holds
  (`HasStored`), and that from the publication on a reconciled agent has the
  config, is about to load it, or has lost the notification (`Told`). The log
  only grows (`LogGrows`), so what was announced stays loadable. For the
  refinement `WritesOnce` is needed too: a Put is under way or done, never both.
* `ExchangeProofs`: `SentIsAlwaysRead`, `CallsAlwaysBounded`,
  `StoredIsAlwaysUsable`, `AddresseesAlwaysApart`, `KindsAlwaysApart`, for any
  configurations and names. `ExchangeInv` says that what is sent and what is
  stored has passed the checks of its kind (`Checked`, `Addressed`, `Stored`),
  under patterns and options that New has checked (`Patterned`, `Completed`),
  and that a handler is called only on its subject (`Reached`). What
  satisfies the rules of the sender satisfies those of the reader
  (`CopiesAgree`), and nothing the encoding changes is seen by them
  (`RoundTrip`); normalizing leaves no zero that means "no limit"
  (`NormalizedOptions`). That one name, and two names where each is a whole
  token, can be told from the subject is in the lemmas about Sprintf
  (`OneNameApart`, `TwoNamesApart`): a valid name has no ".", so it ends where
  the token does. A good name makes a good key, as `validateToken` implies the
  rule for subject tokens.

Two assumptions of `Exchange` say what the code is given: `NamesAssumption` (a
name is a text) and `ConfigsAssumption` (the options are of their Go types, and
patterns are texts).

Model-checked only: liveness. `CallsReturn`, `AbandonedDialsEnd`,
`HealthConverges` and `ClosedInTheEnd` (`session_life`), `HandlersToldToStop` (`client_life`),
`WatchCallsReturn` and `WatchesEndWithConnection` (`watch_life`) and
`AcceptedBecomesKnown` (`desired_flow`) rest on fairness, which the prover does
not have. Every other property of a passing run is a theorem; `NoOrphan`,
`OneLivePerIntent` and `ServingAll` are so under the hypotheses above
(`ServingUncrossed` is `ServingIfUncrossed` for the instance), and
`subs_duplicate` and `subs_restart` show what happens without them. Three
properties are theorems and in no run: the types of `Watch` and of
`DesiredConfig`, and `RuntimeLetGoOnlyDead`, most of which `ImplementsLifecycle`
says. No recursive
operator is used, as induction over data is out of the prover's reach.

## 5. Not modelled

* Errors, logging, metrics: no state of the library depends on them.
* Credentials and TLS: passed on to nats.go unread.
* Replicas of the bucket: a Get sees the slot as it is, as with the default of
  one replica. Entries do not expire, as with the default TTL of none: with one, a
  stored config may be gone when the store reads it back or an agent loads it.
* A client started again in `Watch`: one Start, which has returned, is taken for
  granted there. Health as `Subscriptions` reads it: while the session connects a
  registration may find any other state there, the work of a Close that waits or
  of a late handler, and then goes on to activate.
* What a payload contains, how a field is spelt, and the order in which a
  subscription delivers.
* HealthSubject and ExecutionConfig, which nothing in the library uses.
* The whole client at once. `Session`, `Subscriptions`, `Watch` and `Client` are
  checked apart: each sees of the others what the code passes between them (up
  or down, a closed handler that is due). Their product is out of TLC's reach.

## 6. Plan

Done: all components that have a state or a rule, and a theorem for every safety
property. What could follow:

1. `ServingAll` under a weaker hypothesis than `Uncrossed`: a clear that crosses
   an activation harms only the entries of its snapshot.
2. An abstract specification of what a registered intent promises (served,
   failed with an error, or closed), which `Subscriptions` implements under the
   same hypotheses; the parts of `ServingInv` are its refinement mapping.
3. What `Client` and `Subscriptions` see of each other: that the closed handler
   of one is that of the other.
