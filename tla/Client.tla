-------------------------------- MODULE Client --------------------------------
(***************************************************************************)
(* The life of a client as its handlers see it: Start and Close of         *)
(* agentcore/client.go, the closed hook and the dispatch of messages in    *)
(* agentcore/handlers_runtime.go.  What they share are callbacksEnabled,   *)
(* an atomic flag, and the handler context, under c.mu; they are written   *)
(* one after the other, by any number of goroutines at a time.             *)
(*                                                                         *)
(* A context is a number; 0 is context.Background(), or none.  The session *)
(* is up or down, see Session; the handles are in Subscriptions.           *)
(***************************************************************************)
EXTENDS Naturals, FiniteSets

CONSTANTS
    Starters,       \* goroutines that call Start
    Closers,        \* goroutines that call Close
    Hooks,          \* goroutines of nats.go that run the closed handler
    Handlers,       \* goroutines of subscriptions, each with a handler
    MaxContexts,    \* bound on the contexts made
    MaxDue          \* bound: Starts begin while fewer closed handlers are due

ASSUME BoundsAssumption == MaxContexts \in Nat /\ MaxDue \in Nat
ASSUME RolesAssumption  == /\ Starters \intersect (Closers \union Hooks) = {}
                           /\ Closers \intersect Hooks = {}

VARIABLES
    session,        \* the session is connected
    due,            \* closed handlers that nats.go has yet to run
    enabled,        \* callbacksEnabled
    ctx,            \* handlerCtx
    made,           \* contexts made so far
    cancelled,      \* those canceled
    pc,             \* where a goroutine stands
    took,           \* the context a teardown has taken to cancel
    call,           \* a handler's callback: "none", "decoding" or "running"
    given,          \* the context its handler runs with
    overlapped,     \* history: Starts that a teardown overlaps
    late            \* history: one of them was the last to enable

lifecycle == <<session, due, enabled, ctx, made, cancelled>>
history   == <<overlapped, late>>
vars      == <<lifecycle, pc, took, call, given, history>>

Routines == Starters \union Closers \union Hooks

Starting == {"activating", "ensuring", "enabling"}
Teardown == {"disabling", "taking", "cancelling", "deactivating", "closing"}

TearingDown == {p \in Routines : pc[p] \in Teardown}
InStart     == {p \in Starters : pc[p] \in Starting}
Idle        == \A p \in Routines : pc[p] = "idle"

Go(p, from, to) == pc[p] = from /\ pc' = [pc EXCEPT ![p] = to]

\* A teardown that begins overlaps the Starts in progress.
Begins == overlapped' = overlapped \union InStart /\ late' = late

-----------------------------------------------------------------------------
(* Start                                                                   *)

\* startSession has connected, or was connected already.
StartBegins(p) ==
    /\ made + Cardinality(InStart) < MaxContexts /\ due < MaxDue
    /\ Go(p, "idle", "activating")
    /\ session' = TRUE
    /\ overlapped' = IF TearingDown = {} THEN overlapped \ {p} ELSE overlapped \union {p}
    /\ UNCHANGED <<due, enabled, ctx, made, cancelled, took, call, given, late>>

\* It has failed after connecting, and closed the connection again.
StartFails(p) ==
    /\ pc[p] = "idle"
    /\ ~session /\ due < MaxDue
    /\ due' = due + 1
    /\ UNCHANGED <<session, enabled, ctx, made, cancelled, pc, took, call, given, history>>

\* Mutant: the context is left to the next teardown.
SkipsEnsure(p) ==
    /\ Go(p, "activating", "enabling")
    /\ UNCHANGED <<lifecycle, took, call, given, history>>

\* activateAllSubscriptions
Activates(p) ==
    /\ Go(p, "activating", "ensuring")
    /\ UNCHANGED <<lifecycle, took, call, given, history>>

ActivationFails(p) ==
    /\ Go(p, "activating", "disabling")
    /\ Begins
    /\ UNCHANGED <<lifecycle, took, call, given>>

\* Mutant: every Start makes a context.
EnsuresAnew(p) ==
    /\ Go(p, "ensuring", "enabling")
    /\ made' = made + 1
    /\ ctx' = made'
    /\ UNCHANGED <<session, due, enabled, cancelled, took, call, given, history>>

\* Mutant: and cancels the one there is.
EnsuresByCanceling(p) ==
    /\ Go(p, "ensuring", "enabling")
    /\ made' = made + 1
    /\ ctx' = made'
    /\ cancelled' = cancelled \union ({ctx} \ {0})
    /\ UNCHANGED <<session, due, enabled, took, call, given, history>>

\* ensureHandlerContext: a live context is kept.
Ensures(p) ==
    /\ Go(p, "ensuring", "enabling")
    /\ IF ctx # 0 /\ ctx \notin cancelled
       THEN UNCHANGED <<ctx, made>>
       ELSE made' = made + 1 /\ ctx' = made'
    /\ UNCHANGED <<session, due, enabled, cancelled, took, call, given, history>>

Enables(p) ==
    /\ Go(p, "enabling", "idle")
    /\ enabled' = TRUE
    /\ late' = (p \in overlapped)
    /\ UNCHANGED <<session, due, ctx, made, cancelled, took, call, given, overlapped>>

-----------------------------------------------------------------------------
(* What ends it: Close, the closed hook, a Start that could not activate.  *)

CloseBegins(p) ==
    /\ Go(p, "idle", "disabling")
    /\ Begins
    /\ UNCHANGED <<lifecycle, took, call, given>>

\* Mutant: the session does not tell the client.
HookForgets(p) ==
    /\ due > 0
    /\ pc[p] = "idle"
    /\ due' = due - 1
    /\ UNCHANGED <<session, enabled, ctx, made, cancelled, pc, took, call, given, history>>

\* onSessionClosed
HookBegins(p) ==
    /\ due > 0
    /\ Go(p, "idle", "disabling")
    /\ due' = due - 1
    /\ Begins
    /\ UNCHANGED <<session, enabled, ctx, made, cancelled, took, call, given>>

Disables(p) ==
    /\ Go(p, "disabling", "taking")
    /\ enabled' = FALSE
    /\ UNCHANGED <<session, due, ctx, made, cancelled, took, call, given, history>>

\* Mutant: cancelHandlerContext reads handlerCancel after clearing it.
TakesNothing(p) ==
    /\ Go(p, "taking", "cancelling")
    /\ ctx' = 0
    /\ UNCHANGED <<session, due, enabled, made, cancelled, took, call, given, history>>

\* cancelHandlerContext clears the fields under the lock, ...
Takes(p) ==
    /\ Go(p, "taking", "cancelling")
    /\ took' = [took EXCEPT ![p] = ctx]
    /\ ctx' = 0
    /\ UNCHANGED <<session, due, enabled, made, cancelled, call, given, history>>

\* Mutant: without looking whether there was one.
CancelsAny(p) ==
    /\ Go(p, "cancelling", "deactivating")
    /\ cancelled' = cancelled \union {took[p]}
    /\ took' = [took EXCEPT ![p] = 0]
    /\ UNCHANGED <<session, due, enabled, ctx, made, call, given, history>>

\* ... and cancels after it.
Cancels(p) ==
    /\ Go(p, "cancelling", "deactivating")
    /\ cancelled' = cancelled \union ({took[p]} \ {0})
    /\ took' = [took EXCEPT ![p] = 0]
    /\ UNCHANGED <<session, due, enabled, ctx, made, call, given, history>>

\* deactivateAllSubscriptions; Close stops the watches next.
Deactivates(p) ==
    /\ Go(p, "deactivating", IF p \in Closers THEN "closing" ELSE "idle")
    /\ UNCHANGED <<lifecycle, took, call, given, history>>

\* session.Close: the drained connection runs its closed handler later.  A Close
\* that another one has overtaken in it returns at once, and one that waits for a
\* Start may run out of time just when that has connected.
ClosesSession(p) ==
    /\ Go(p, "closing", "idle")
    /\ \/ /\ session' = FALSE
          /\ due' = IF session THEN due + 1 ELSE due
       \/ /\ \/ \E q \in Closers \ {p} : pc[q] = "closing"
             \/ \E q \in Starters : pc[q] = "activating"
          /\ UNCHANGED <<session, due>>
    /\ UNCHANGED <<enabled, ctx, made, cancelled, took, call, given, history>>

\* nats.go gives the connection up.
LinkLost ==
    /\ session
    /\ session' = FALSE
    /\ due' = due + 1
    /\ UNCHANGED <<enabled, ctx, made, cancelled, pc, took, call, given, history>>

-----------------------------------------------------------------------------
(* Dispatch: bindConfigureCallback and its siblings.                       *)

\* A message arrives and callbacks are enabled; otherwise it is dropped.
Delivers(h) ==
    /\ call[h] = "none"
    /\ enabled
    /\ call' = [call EXCEPT ![h] = "decoding"]
    /\ UNCHANGED <<lifecycle, pc, took, given, history>>

\* It does not decode.
Drops(h) ==
    /\ call[h] = "decoding"
    /\ call' = [call EXCEPT ![h] = "none"]
    /\ UNCHANGED <<lifecycle, pc, took, given, history>>

\* callConfigureHandler: handler(c.handlerContext(), msg)
Calls(h) ==
    /\ call[h] = "decoding"
    /\ call' = [call EXCEPT ![h] = "running"]
    /\ given' = [given EXCEPT ![h] = ctx]
    /\ UNCHANGED <<lifecycle, pc, took, history>>

\* The handler returns or panics.
Returns(h) ==
    /\ call[h] = "running"
    /\ call' = [call EXCEPT ![h] = "none"]
    /\ given' = [given EXCEPT ![h] = 0]
    /\ UNCHANGED <<lifecycle, pc, took, history>>

-----------------------------------------------------------------------------
Init ==
    /\ session = FALSE /\ due = 0
    /\ enabled = FALSE /\ ctx = 0 /\ made = 0 /\ cancelled = {}
    /\ pc = [p \in Routines |-> "idle"]
    /\ took = [p \in Routines |-> 0]
    /\ call = [h \in Handlers |-> "none"]
    /\ given = [h \in Handlers |-> 0]
    /\ overlapped = {} /\ late = FALSE

\* What a goroutine does once it has begun.
Proceeds(p) == \/ Disables(p) \/ Takes(p) \/ Cancels(p) \/ Deactivates(p)
               \/ ClosesSession(p)

StartProceeds(p) == Activates(p) \/ ActivationFails(p) \/ Ensures(p) \/ Enables(p)

Next ==
    \/ \E p \in Starters : StartBegins(p) \/ StartFails(p) \/ StartProceeds(p)
    \/ \E p \in Closers : CloseBegins(p)
    \/ \E p \in Hooks : HookBegins(p)
    \/ \E p \in Routines : Proceeds(p)
    \/ LinkLost
    \/ \E h \in Handlers : Delivers(h) \/ Drops(h) \/ Calls(h) \/ Returns(h)

Spec == Init /\ [][Next]_vars

\* Goroutines that have begun go on; nats.go runs the closed handlers that are
\* due.  Nobody has to call anything, and handlers need not return.
Fairness == /\ \A p \in Starters : WF_vars(StartProceeds(p))
            /\ \A p \in Routines : WF_vars(Proceeds(p))
            /\ \A p \in Hooks : WF_vars(HookBegins(p))

FairSpec == Spec /\ Fairness

-----------------------------------------------------------------------------
(* Properties.                                                             *)

\* The values of the variables; contexts are those made so far.
ClientTypeOK ==
    /\ session \in BOOLEAN /\ enabled \in BOOLEAN /\ late \in BOOLEAN
    /\ due \in Nat /\ made \in Nat
    /\ ctx \in 0 .. made
    /\ cancelled \subseteq 1 .. made
    /\ pc \in [Routines -> {"idle"} \union Starting \union Teardown]
    /\ took \in [Routines -> 0 .. made]
    /\ call \in [Handlers -> {"none", "decoding", "running"}]
    /\ given \in [Handlers -> 0 .. made]
    /\ overlapped \subseteq Starters

\* While callbacks are enabled there is a live context to give them, so that
\* only a message that was decoded across a teardown is handled with
\* context.Background() (client.go:329).  The exception is a Start that a
\* teardown overlaps: it can enable after the other has taken the context.
EnabledHasContext == enabled /\ ~late => ctx # 0 /\ ctx \notin cancelled

\* When every call has returned and no closed handler is due, a client with
\* callbacks enabled is connected, but for the same exception: such a Start leaves
\* callbacksEnabled set on a closed client (client.go:234).
StartedAtRest == Idle /\ due = 0 /\ enabled /\ ~late => session

\* When every call has returned and callbacks are disabled, whoever disabled
\* them, every context there ever was has been canceled: no Start, not even one
\* that races with Close or fails on a client that another has started
\* (client.go:221), leaves one behind.
StoppedAtRest == Idle /\ ~enabled => cancelled = 1 .. made

\* A context is canceled only while callbacks are disabled: a Start on a running
\* client leaves its handlers alone (PROMPTS/05e, "Required behavior").
CanceledWhileDisabled == [][cancelled' # cancelled => ~enabled \/ late]_vars

\* A handler that runs when a teardown takes the context sees its own end,
\* whichever it was given, unless that is context.Background().
HandlersToldToStop ==
    \A h \in Handlers, c \in 1 .. MaxContexts :
        /\ call[h] = "running" /\ given[h] = c
        /\ \E p \in Routines : pc[p] = "taking"
        ~> c \in cancelled
=============================================================================
