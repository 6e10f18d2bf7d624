---------------------------- MODULE DesiredConfig ----------------------------
(***************************************************************************)
(* Desired configuration of one target: SubmitConfigure and                *)
(* StoreDesiredConfig on the submitting side (agentcore/client.go,         *)
(* internal/kv/store.go, internal/transport/publisher.go), configure       *)
(* notifications and StartupReconcile on the side of the agents            *)
(* (agentcore/client.go, handlers_runtime.go), and between them the KV     *)
(* slot of the target and the configure subject.                           *)
(*                                                                         *)
(* A call stands for its own config: that of a retry differs from that of  *)
(* the call it repeats.  An agent's configure handler does what README and *)
(* the integration tests make it do: it calls LoadDesiredConfig.           *)
(***************************************************************************)
EXTENDS Integers, Sequences, FiniteSets

CONSTANTS Calls,      \* calls of SubmitConfigure and StoreDesiredConfig
          Silent,     \* those of StoreDesiredConfig
          Agents,     \* clients that own the target
          NoCall,     \* what an agent without a notification handles
          MaxCrashes  \* bound: how often one agent goes down

ASSUME SilentAssumption == Silent \subseteq Calls
ASSUME NoCallAssumption == NoCall \notin Calls
ASSUME MaxCrashesAssumption == MaxCrashes \in Nat

VARIABLES
    log,       \* the values the slot has had; the revision is the index
    puts,      \* Put requests on their way to JetStream
    pc,        \* pc[c]: where the call stands
    rev,       \* rev[c]: the revision it holds, 0 for none
    wire,      \* wire[a]: notifications on their way to agent a
    phase,     \* phase[a]: how far the agent's life has come
    handling,  \* handling[a]: the notification its handler runs for
    seen,      \* seen[a]: the latest revision it has loaded
    lost,      \* lost[a]: notifications it has missed since it reconciled
    crashes    \* crashes[a]: how often it has gone down

callVars  == <<puts, pc, rev>>
agentVars == <<phase, handling, seen, crashes>>
vars == <<log, callVars, wire, lost, agentVars>>

CallPc == {"idle", "put", "read", "publish", "flush", "accepted", "failed"}

\* down; subscribed, callbacksEnabled not set; started; reconciled.
Phase == {"down", "deaf", "started", "reconciled"}

Stored(c) == \E r \in DOMAIN log : log[r] = c

Init == /\ log = << >>
        /\ puts = {}
        /\ pc = [c \in Calls |-> "idle"]
        /\ rev = [c \in Calls |-> 0]
        /\ wire = [a \in Agents |-> {}]
        /\ phase = [a \in Agents |-> "down"]
        /\ handling = [a \in Agents |-> NoCall]
        /\ seen = [a \in Agents |-> 0]
        /\ lost = [a \in Agents |-> {}]
        /\ crashes = [a \in Agents |-> 0]

-----------------------------------------------------------------------------
(* SubmitConfigure and StoreDesiredConfig.                                 *)

CallAt(c, to) == pc' = [pc EXCEPT ![c] = to]

\* The record or its key does not validate, or there is no KV handle.
StoreRefuses(c) ==
    /\ pc[c] = "idle"
    /\ CallAt(c, "failed")
    /\ UNCHANGED <<log, puts, rev, wire, lost, agentVars>>

\* SubmitConfigure: the context or the command is not usable.
Refuses(c) ==
    /\ pc[c] = "idle"
    /\ c \notin Silent
    /\ CallAt(c, "failed")
    /\ UNCHANGED <<log, puts, rev, wire, lost, agentVars>>

SendsPut(c) ==
    /\ pc[c] = "idle"
    /\ CallAt(c, "put")
    /\ puts' = puts \union {c}
    /\ UNCHANGED <<log, rev, wire, lost, agentVars>>

\* Mutant: the error of Put is dropped.
PutUnchecked(c) == {r \in DOMAIN log : log[r] = c} \union {0}

PutAnswers(c) == {r \in DOMAIN log : log[r] = c}

PutReturns(c) ==
    /\ pc[c] = "put"
    /\ \E r \in PutAnswers(c) : rev' = [rev EXCEPT ![c] = r]
    /\ CallAt(c, "read")
    /\ UNCHANGED <<log, puts, wire, lost, agentVars>>

\* Put fails, or the time or the context is over, whether the request is
\* stored, lost, or still on its way.
PutFails(c) ==
    /\ pc[c] = "put"
    /\ CallAt(c, "failed")
    /\ UNCHANGED <<log, puts, rev, wire, lost, agentVars>>

\* Mutant: a failed Get leaves no revision.
ReadsBackOrZero(c) ==
    /\ pc[c] = "read"
    /\ \E r \in {0, Len(log)} : rev' = [rev EXCEPT ![c] = r]
    /\ CallAt(c, IF c \in Silent THEN "accepted" ELSE "publish")
    /\ UNCHANGED <<log, puts, wire, lost, agentVars>>

\* Get after Put: the revision becomes that of the slot now.  Its failure is
\* reported, and the revision of Put stands.
ReadsBack(c) ==
    /\ pc[c] = "read"
    /\ rev' \in {rev, [rev EXCEPT ![c] = Len(log)]}
    /\ CallAt(c, IF c \in Silent THEN "accepted" ELSE "publish")
    /\ UNCHANGED <<log, puts, wire, lost, agentVars>>

\* A notification reaches some of the agents that are subscribed.
Notifies(c) == \E R \in SUBSET {a \in Agents : phase[a] # "down"} :
    /\ wire' = [a \in Agents |-> IF a \in R THEN wire[a] \union {c} ELSE wire[a]]
    /\ lost' = [a \in Agents |-> IF a \notin R /\ phase[a] = "reconciled"
                                   THEN lost[a] \union {c} ELSE lost[a]]

Publishes(c) ==
    /\ pc[c] = "publish"
    /\ Notifies(c)
    /\ CallAt(c, "flush")
    /\ UNCHANGED <<log, puts, rev, agentVars>>

\* Mutant: the error of nats.Conn is dropped.
PublishSwallows(c) ==
    /\ pc[c] = "publish"
    /\ CallAt(c, "flush")
    /\ UNCHANGED <<log, puts, rev, wire, lost, agentVars>>

\* No connection, a context that is over, or the error of nats.Conn.
PublishFails(c) ==
    /\ pc[c] = "publish"
    /\ CallAt(c, "failed")
    /\ UNCHANGED <<log, puts, rev, wire, lost, agentVars>>

\* The flush fails although the notification is on its way.
Flushes(c) ==
    /\ pc[c] = "flush"
    /\ \E to \in {"accepted", "failed"} : CallAt(c, to)
    /\ UNCHANGED <<log, puts, rev, wire, lost, agentVars>>

-----------------------------------------------------------------------------
(* JetStream.                                                              *)

Stores(c) ==
    /\ c \in puts
    /\ puts' = puts \ {c}
    /\ log' = Append(log, c)
    /\ UNCHANGED <<pc, rev, wire, lost, agentVars>>

LosesPut(c) ==
    /\ c \in puts
    /\ puts' = puts \ {c}
    /\ UNCHANGED <<log, pc, rev, wire, lost, agentVars>>

-----------------------------------------------------------------------------
(* An agent: Start, StartupReconcile, and its configure handler.           *)

PhaseIs(a, p) == phase' = [phase EXCEPT ![a] = p]

\* Start activates the subscription ...
Subscribes(a) ==
    /\ phase[a] = "down"
    /\ PhaseIs(a, "deaf")
    /\ UNCHANGED <<log, callVars, wire, lost, handling, seen, crashes>>

\* ... and enables the callbacks last.
Enables(a) ==
    /\ phase[a] = "deaf"
    /\ PhaseIs(a, "started")
    /\ UNCHANGED <<log, callVars, wire, lost, handling, seen, crashes>>

\* Mutant: the oldest entry of the bucket's history.
LoadsOldest(a) == seen' = [seen EXCEPT ![a] = IF log = << >> THEN 0 ELSE 1]

\* What LoadDesiredConfig finds, which may be no config.
Loads(a) == seen' = [seen EXCEPT ![a] = Len(log)]

\* StartupReconcile follows a Start that has returned, and if it fails is
\* called again.
Reconciles(a) ==
    /\ phase[a] = "started"
    /\ Loads(a)
    /\ PhaseIs(a, "reconciled")
    /\ UNCHANGED <<log, callVars, wire, lost, handling, crashes>>

\* Mutant: callbacksEnabled is never set.
DispatchStuck(a) == phase[a] = "down"

Dispatches(a) == phase[a] \in {"started", "reconciled"}

\* The configure callback: the notification is dropped before Start returns.
Delivers(a, c) ==
    /\ handling[a] = NoCall
    /\ c \in wire[a]
    /\ wire' = [wire EXCEPT ![a] = @ \ {c}]
    /\ handling' = [handling EXCEPT ![a] = IF Dispatches(a) THEN c ELSE NoCall]
    /\ UNCHANGED <<log, callVars, lost, phase, seen, crashes>>

HandlerLoads(a) ==
    /\ handling[a] # NoCall
    /\ Loads(a)
    /\ handling' = [handling EXCEPT ![a] = NoCall]
    /\ UNCHANGED <<log, callVars, wire, lost, phase, crashes>>

\* The load fails, the handler returns the error, and it is logged.
HandlerFails(a) ==
    /\ handling[a] # NoCall
    /\ handling' = [handling EXCEPT ![a] = NoCall]
    /\ lost' = [lost EXCEPT ![a] = IF phase[a] = "reconciled"
                                     THEN @ \union {handling[a]} ELSE @]
    /\ UNCHANGED <<log, callVars, wire, phase, seen, crashes>>

\* The agent crashes, or closes its client, at any point.
Crashes(a) ==
    /\ phase[a] # "down"
    /\ crashes[a] < MaxCrashes
    /\ crashes' = [crashes EXCEPT ![a] = @ + 1]
    /\ PhaseIs(a, "down")
    /\ wire' = [wire EXCEPT ![a] = {}]
    /\ lost' = [lost EXCEPT ![a] = {}]
    /\ handling' = [handling EXCEPT ![a] = NoCall]
    /\ seen' = [seen EXCEPT ![a] = 0]
    /\ UNCHANGED <<log, callVars>>

-----------------------------------------------------------------------------

CallStep(c) == \/ PutReturns(c)
               \/ PutFails(c)
               \/ ReadsBack(c)
               \/ Publishes(c)
               \/ PublishFails(c)
               \/ Flushes(c)

AgentStep(a) == \/ \E c \in Calls : Delivers(a, c)
                \/ HandlerLoads(a)
                \/ HandlerFails(a)

Next == \/ \E c \in Calls : \/ Refuses(c)
                            \/ StoreRefuses(c)
                            \/ SendsPut(c)
                            \/ CallStep(c)
                            \/ Stores(c)
                            \/ LosesPut(c)
        \/ \E a \in Agents : \/ Subscribes(a)
                             \/ Enables(a)
                             \/ Reconciles(a)
                             \/ AgentStep(a)
                             \/ Crashes(a)

Spec == Init /\ [][Next]_vars

(***************************************************************************)
(* A subscription's goroutine delivers what is on the wire, and handlers   *)
(* return; an agent that is up again starts its client and reconciles.     *)
(* Nothing is assumed of the calls or of JetStream.                        *)
(***************************************************************************)
Fairness == \A a \in Agents : /\ WF_vars(AgentStep(a))
                              /\ WF_vars(Subscribes(a))
                              /\ WF_vars(Enables(a))
                              /\ WF_vars(Reconciles(a))

FairSpec == Spec /\ Fairness

-----------------------------------------------------------------------------
(* Properties.                                                             *)

\* Every variable holds a value of its kind.
DesiredTypeOK ==
    /\ log \in Seq(Calls)
    /\ puts \subseteq Calls
    /\ pc \in [Calls -> CallPc]
    /\ rev \in [Calls -> 0..Len(log)]
    /\ wire \in [Agents -> SUBSET Calls]
    /\ phase \in [Agents -> Phase]
    /\ handling \in [Agents -> Calls \union {NoCall}]
    /\ seen \in [Agents -> 0..Len(log)]
    /\ lost \in [Agents -> SUBSET Calls]
    /\ crashes \in [Agents -> 0..MaxCrashes]

\* Store, then notify: an agent is never told of a config that it could not
\* load, whatever fails on the way.
NotifiedIsStored ==
    \A a \in Agents, c \in Calls : c \in wire[a] \/ handling[a] = c => Stored(c)

\* An accepted config is in the log, and the revision that the call returned
\* is its own or one that came after it.
AcceptedIsDurable ==
    \A c \in Calls :
        pc[c] = "accepted" => \E r \in 1..rev[c] : log[r] = c

\* The entry of the returned revision is the one the call stored.
\* REQUIREMENTS_CHECKLIST.md:55: revision metadata "stays associated with the
\* right desired-config entry".
RevisionNamesEntry ==
    \A c \in Calls : pc[c] = "accepted" => log[rev[c]] = c

\* Agent a has config c, or a later one.
Knows(a, c) == \E r \in 1..seen[a] : log[r] = c

\* What an agent has missed while it was down, or while callbacks were not yet
\* enabled, StartupReconcile has made up for: of the submitted configs that
\* were accepted it misses only those that the network or a failed load has
\* taken from it since.
ReconciledKnows ==
    \A a \in Agents, c \in Calls \ Silent :
        phase[a] = "reconciled" /\ pc[c] = "accepted" =>
            Knows(a, c) \/ c \in wire[a] \/ handling[a] = c \/ c \in lost[a]

\* Whatever an agent misses and however often it is restarted, it comes to
\* know every accepted config, unless the notification is lost.
AcceptedBecomesKnown ==
    \A a \in Agents, c \in Calls \ Silent :
        pc[c] = "accepted" ~> phase[a] = "reconciled" /\ (Knows(a, c) \/ c \in lost[a])

\* What an agent has been told and has not answered yet.
Pending(a) == wire[a] \union ({handling[a]} \ {NoCall})

Promise == INSTANCE Slot WITH
    accepted <- {c \in Calls : pc[c] = "accepted"},
    told     <- [a \in Agents |-> Pending(a)]

\* SubmitConfigure, the store, the configure callback and StartupReconcile
\* together implement Slot: with Puts that are stored after their caller has
\* given up, failures and crashes between any two steps, they make one slot in
\* which a config is written once, then accepted or told, and read as it is.
ImplementsSlot == Promise!Spec
=============================================================================
