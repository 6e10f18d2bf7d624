----------------------------- MODULE ClientProofs -----------------------------
(* Theorems of Client: its safety properties for any number of Starts,     *)
(* Closes, closed handlers and messages at a time.                         *)
EXTENDS Client, TLAPS

Live(c) == c # 0 /\ c \notin cancelled

\* A Start that no teardown overlaps runs while there is none.
Apart == \A p \in InStart \ overlapped : TearingDown = {}

\* It keeps the context it has ensured, and the connection it has found until a
\* closed handler is due.
Kept == \A p \in InStart \ overlapped : /\ pc[p] = "enabling" => Live(ctx)
                                        /\ session \/ due > 0

\* Who enables again what a teardown has disabled is overlapped by it.
Disabled == \A p \in TearingDown : pc[p] # "disabling" /\ enabled => late

\* Callbacks that stay enabled on a lost connection will be disabled.
WillDisable == enabled /\ ~late /\ ~session =>
                   due > 0 \/ \E p \in Routines : pc[p] = "disabling"

\* No context is lost: one that is not canceled is the current one, or a
\* teardown has it in hand.
Accounted == \A c \in 1 .. made : \/ c \in cancelled
                                  \/ c = ctx
                                  \/ \E p \in Routines : pc[p] = "cancelling" /\ took[p] = c

\* A live context without callbacks is about to be used or taken.
Claimed == Live(ctx) /\ ~enabled =>
               \E p \in Routines : pc[p] \in {"enabling", "disabling", "taking"}

\* The inductive invariant.
ClientInv == /\ ClientTypeOK /\ EnabledHasContext
             /\ Apart /\ Kept /\ Disabled /\ WillDisable /\ Accounted /\ Claimed

Places == {"idle"} \union Starting \union Teardown

\* The steps, by what they are about.
Beginning(p) == CloseBegins(p) \/ HookBegins(p) \/ ActivationFails(p)
Messaging == \E h \in Handlers : Delivers(h) \/ Drops(h) \/ Calls(h) \/ Returns(h)

\* There are no others.
LEMMA NextCases ==
    ASSUME Next
    PROVE  \/ \E p \in Starters : StartBegins(p) \/ StartFails(p) \/ Activates(p)
                                  \/ Ensures(p) \/ Enables(p)
           \/ \E p \in Routines : Beginning(p) \/ Proceeds(p)
           \/ LinkLost
           \/ Messaging
BY DEF Next, StartProceeds, Beginning, Messaging, Routines

\* A step moves one goroutine at most.
LEMMA Moves ==
    ASSUME [Next]_vars
    PROVE  UNCHANGED pc \/ \E p \in Routines, from, to \in Places : Go(p, from, to)
<1> DEFINE Move == UNCHANGED pc \/ \E p \in Routines, from, to \in Places : Go(p, from, to)
<1> USE DEF Places, Starting, Teardown
<1>1. ASSUME NEW p \in Starters, StartBegins(p) \/ StartFails(p) \/ Activates(p)
                                 \/ Ensures(p) \/ Enables(p)
      PROVE  Move
  BY <1>1 DEF StartBegins, StartFails, Activates, Ensures, Enables, Routines
<1>2. ASSUME NEW p \in Routines, Beginning(p) \/ Proceeds(p)
      PROVE  Move
  BY <1>2 DEF Beginning, CloseBegins, HookBegins, ActivationFails, Proceeds, Disables,
              Takes, Cancels, Deactivates, ClosesSession
<1>3. CASE LinkLost \/ Messaging \/ UNCHANGED vars
  BY <1>3 DEF LinkLost, Messaging, Delivers, Drops, Calls, Returns, vars
<1> QED BY <1>1, <1>2, <1>3, NextCases

\* Contexts are numbered as they are made, and what refers to one refers to one
\* that was made.
LEMMA TypeStep == ClientTypeOK /\ [Next]_vars => ClientTypeOK'
<1> SUFFICES ASSUME ClientTypeOK, [Next]_vars
             PROVE  ClientTypeOK'
  OBVIOUS
<1> USE DEF ClientTypeOK
<1>0. Starters \subseteq Routines
  BY DEF Routines
<1>1. pc' \in [Routines -> {"idle"} \union Starting \union Teardown]
  BY Moves DEF Places, Go
<1> HIDE DEF ClientTypeOK
<1>2. ASSUME NEW p \in Starters, StartBegins(p)
      PROVE  ClientTypeOK'
  <2>1. overlapped' \subseteq Starters /\ session' \in BOOLEAN
    BY <1>2 DEF StartBegins, ClientTypeOK
  <2>2. UNCHANGED <<due, enabled, ctx, made, cancelled, took, call, given, late>>
    BY <1>2 DEF StartBegins
  <2> QED BY <1>1, <2>1, <2>2 DEF ClientTypeOK
<1>3. ASSUME NEW p \in Starters, StartFails(p) \/ Activates(p)
      PROVE  ClientTypeOK'
  <2>1. due' \in Nat
    BY <1>3 DEF StartFails, Activates, lifecycle, ClientTypeOK
  <2>2. UNCHANGED <<session, enabled, ctx, made, cancelled, took, call, given, overlapped, late>>
    BY <1>3 DEF StartFails, Activates, lifecycle, history
  <2> QED BY <1>1, <2>1, <2>2 DEF ClientTypeOK
<1>4. ASSUME NEW p \in Starters, Enables(p)
      PROVE  ClientTypeOK'
  BY <1>1, <1>4 DEF Enables, ClientTypeOK
<1>5. ASSUME NEW p \in Starters, Ensures(p)
      PROVE  ClientTypeOK'
  <2>1. UNCHANGED <<session, due, enabled, cancelled, took, call, given, history>>
    BY <1>5 DEF Ensures
  <2>2. made' \in Nat /\ made' >= made /\ ctx' \in 0 .. made'
    BY <1>5 DEF Ensures, ClientTypeOK
  <2>3. took \in [Routines -> 0 .. made'] /\ given \in [Handlers -> 0 .. made']
        /\ cancelled \subseteq 1 .. made'
    BY <2>2 DEF ClientTypeOK
  <2> QED BY <1>1, <2>1, <2>2, <2>3 DEF ClientTypeOK, history
<1>6. ASSUME NEW p \in Routines, Beginning(p)
      PROVE  ClientTypeOK'
  <2>1. due' \in Nat
    BY <1>6 DEF Beginning, CloseBegins, HookBegins, ActivationFails, lifecycle, ClientTypeOK
  <2>2. overlapped' \subseteq Starters
    BY <1>6 DEF Beginning, CloseBegins, HookBegins, ActivationFails, Begins, InStart,
                ClientTypeOK
  <2>3. UNCHANGED <<session, enabled, ctx, made, cancelled, took, call, given, late>>
    BY <1>6 DEF Beginning, CloseBegins, HookBegins, ActivationFails, Begins, lifecycle
  <2> QED BY <1>1, <2>1, <2>2, <2>3 DEF ClientTypeOK
<1>7. ASSUME NEW p \in Routines, Disables(p) \/ Deactivates(p)
      PROVE  ClientTypeOK'
  BY <1>1, <1>7 DEF Disables, Deactivates, lifecycle, history, ClientTypeOK
<1>8. ASSUME NEW p \in Routines, ClosesSession(p)
      PROVE  ClientTypeOK'
  <2>1. due' \in Nat /\ session' \in BOOLEAN
    <3>1. due' \in {due, due + 1} /\ session' \in {session, FALSE}
      BY <1>8 DEF ClosesSession
    <3>2. session' \in BOOLEAN
      BY <3>1 DEF ClientTypeOK
    <3>3. due' \in Nat
      BY <3>1 DEF ClientTypeOK
    <3> QED BY <3>2, <3>3
  <2>2. UNCHANGED <<enabled, ctx, made, cancelled, took, call, given, overlapped, late>>
    BY <1>8 DEF ClosesSession, history
  <2> QED BY <1>1, <2>1, <2>2 DEF ClientTypeOK
<1>9. ASSUME NEW p \in Routines, Takes(p) \/ Cancels(p)
      PROVE  ClientTypeOK'
  <2>1. ctx' \in 0 .. made /\ took' \in [Routines -> 0 .. made]
    BY <1>9 DEF Takes, Cancels, ClientTypeOK
  <2>2. cancelled' \subseteq 1 .. made
    <3>1. took[p] \in 0 .. made /\ cancelled \subseteq 1 .. made /\ made \in Nat
      BY DEF ClientTypeOK
    <3>2. cancelled' \subseteq cancelled \union ({took[p]} \ {0})
      BY <1>9 DEF Takes, Cancels
    <3> QED BY <3>1, <3>2
  <2>3. UNCHANGED <<session, due, enabled, made, call, given, history>>
    BY <1>9 DEF Takes, Cancels
  <2> QED BY <1>1, <2>1, <2>2, <2>3 DEF ClientTypeOK, history
<1>10. CASE LinkLost
  <2>1. due' \in Nat /\ session' = FALSE
    BY <1>10 DEF LinkLost, ClientTypeOK
  <2>2. UNCHANGED <<enabled, ctx, made, cancelled, took, call, given, overlapped, late>>
    BY <1>10 DEF LinkLost, history
  <2> QED BY <1>1, <2>1, <2>2 DEF ClientTypeOK
<1>11. CASE Messaging
  <2>1. call' \in [Handlers -> {"none", "decoding", "running"}]
    BY <1>11 DEF Messaging, Delivers, Drops, Calls, Returns, ClientTypeOK
  <2>2. given' \in [Handlers -> 0 .. made]
    BY <1>11 DEF Messaging, Delivers, Drops, Calls, Returns, ClientTypeOK
  <2>3. UNCHANGED <<session, due, enabled, ctx, made, cancelled, took, overlapped, late>>
    BY <1>11 DEF Messaging, Delivers, Drops, Calls, Returns, lifecycle, history
  <2> QED BY <1>1, <2>1, <2>2, <2>3 DEF ClientTypeOK
<1>12. CASE UNCHANGED vars
  BY <1>12 DEF vars, lifecycle, history, ClientTypeOK
<1> QED BY <1>2, <1>3, <1>4, <1>5, <1>6, <1>7, <1>8, <1>9, <1>10, <1>11, <1>12, NextCases
        DEF Proceeds

\* A teardown overlaps the Starts it finds, and a Start the teardowns it finds.
LEMMA ApartStep == ClientInv /\ [Next]_vars => Apart'
<1> SUFFICES ASSUME ClientInv, [Next]_vars
             PROVE  Apart'
  OBVIOUS
<1>0. pc \in [Routines -> Places] /\ Starters \subseteq Routines
  BY DEF ClientInv, ClientTypeOK, Places, Routines
<1> USE DEF ClientInv, Apart, InStart, TearingDown, Go, Starting, Teardown
<1>1. ASSUME NEW p \in Starters, StartBegins(p)
      PROVE  Apart'
  BY <1>0, <1>1 DEF StartBegins
<1>2. ASSUME NEW p \in Starters, StartFails(p) \/ Activates(p) \/ Ensures(p) \/ Enables(p)
      PROVE  Apart'
  BY <1>0, <1>2 DEF StartFails, Activates, Ensures, Enables, history
<1>3. ASSUME NEW p \in Routines, Beginning(p)
      PROVE  Apart'
  <2>1. overlapped' = overlapped \union InStart
    BY <1>3 DEF Beginning, CloseBegins, HookBegins, ActivationFails, Begins
  <2>2. InStart' \subseteq InStart
    BY <1>0, <1>3 DEF Beginning, CloseBegins, HookBegins, ActivationFails
  <2> QED BY <2>1, <2>2
<1>4. ASSUME NEW p \in Routines, Proceeds(p)
      PROVE  Apart'
  <2>1. UNCHANGED overlapped
    BY <1>4 DEF Proceeds, Disables, Takes, Cancels, Deactivates, ClosesSession, history
  <2>2. InStart' \subseteq InStart /\ TearingDown' \subseteq TearingDown
    BY <1>0, <1>4 DEF Proceeds, Disables, Takes, Cancels, Deactivates, ClosesSession
  <2> QED BY <2>1, <2>2
<1>5. CASE LinkLost \/ Messaging \/ UNCHANGED vars
  BY <1>5 DEF LinkLost, Messaging, Delivers, Drops, Calls, Returns, vars, history
<1> QED BY <1>1, <1>2, <1>3, <1>4, <1>5, NextCases

\* A teardown takes the context away only with callbacks disabled, and from Starts
\* it overlaps only.
LEMMA ContextStep == ClientInv /\ [Next]_vars => EnabledHasContext' /\ Kept' /\ Disabled'
<1> SUFFICES ASSUME ClientInv, [Next]_vars
             PROVE  EnabledHasContext' /\ Kept' /\ Disabled'
  OBVIOUS
<1>0. /\ pc \in [Routines -> Places] /\ Starters \subseteq Routines
      /\ made \in Nat /\ cancelled \subseteq 1 .. made /\ due \in Nat
      /\ took \in [Routines -> 0 .. made] /\ enabled \in BOOLEAN
  BY DEF ClientInv, ClientTypeOK, Places, Routines
<1> USE DEF EnabledHasContext, Kept, Disabled, InStart, TearingDown, Go, Starting,
            Teardown, Live
<1>1. ASSUME NEW p \in Starters, StartBegins(p)
      PROVE  EnabledHasContext' /\ Kept' /\ Disabled'
  BY <1>0, <1>1 DEF StartBegins, ClientInv
<1>2. ASSUME NEW p \in Starters, StartFails(p) \/ Activates(p)
      PROVE  EnabledHasContext' /\ Kept' /\ Disabled'
  BY <1>0, <1>2 DEF StartFails, Activates, lifecycle, history, ClientInv
<1>3. ASSUME NEW p \in Starters, Ensures(p)
      PROVE  EnabledHasContext' /\ Kept' /\ Disabled'
  <2>1. Live(ctx)'
    BY <1>0, <1>3 DEF Ensures
  <2> QED BY <1>0, <1>3, <2>1 DEF Ensures, history, ClientInv
<1>4. ASSUME NEW p \in Starters, Enables(p)
      PROVE  EnabledHasContext' /\ Kept' /\ Disabled'
  <2>1. p \in InStart /\ (p \notin overlapped => Live(ctx) /\ TearingDown = {})
    BY <1>0, <1>4 DEF Enables, Apart, ClientInv
  <2>2. TearingDown' = TearingDown /\ InStart' \subseteq InStart
    BY <1>0, <1>4 DEF Enables
  <2> QED BY <1>0, <1>4, <2>1, <2>2 DEF Enables, ClientInv
<1>5. ASSUME NEW p \in Routines, Beginning(p)
      PROVE  EnabledHasContext' /\ Kept' /\ Disabled'
  <2>1. /\ UNCHANGED <<enabled, ctx, cancelled, late>>
        /\ overlapped' = overlapped \union InStart /\ pc' = [pc EXCEPT ![p] = "disabling"]
    BY <1>5 DEF Beginning, CloseBegins, HookBegins, ActivationFails, Begins, lifecycle
  <2>2. InStart' \subseteq InStart
    BY <1>0, <2>1
  <2> QED BY <1>0, <2>1, <2>2 DEF ClientInv
<1>6. ASSUME NEW p \in Routines, Proceeds(p)
      PROVE  EnabledHasContext' /\ Kept' /\ Disabled'
  <2>1. p \in TearingDown /\ InStart' \subseteq InStart /\ UNCHANGED history
    BY <1>0, <1>6 DEF Proceeds, Disables, Takes, Cancels, Deactivates, ClosesSession
  <2>2. InStart' \ overlapped' = {}
    BY <2>1 DEF Apart, ClientInv, history
  <2>3. CASE Disables(p)
    BY <1>0, <2>2, <2>3 DEF Disables, history, ClientInv
  <2>4. CASE Takes(p) \/ Cancels(p) \/ Deactivates(p) \/ ClosesSession(p)
    <3>1. pc[p] # "disabling" /\ UNCHANGED enabled /\ (enabled => late)
      BY <2>1, <2>4 DEF Takes, Cancels, Deactivates, ClosesSession, lifecycle, ClientInv
    <3> QED BY <2>1, <2>2, <3>1 DEF history
  <2> QED BY <1>6, <2>3, <2>4 DEF Proceeds
<1>7. CASE LinkLost
  BY <1>0, <1>7 DEF LinkLost, history, ClientInv
<1>8. CASE Messaging \/ UNCHANGED vars
  BY <1>8 DEF Messaging, Delivers, Drops, Calls, Returns, vars, lifecycle, history, ClientInv
<1> QED BY <1>1, <1>2, <1>3, <1>4, <1>5, <1>6, <1>7, <1>8, NextCases

\* A connection is lost with a closed handler due, or under a disabled client.
LEMMA LinkStep == ClientInv /\ [Next]_vars => WillDisable'
<1> SUFFICES ASSUME ClientInv, [Next]_vars
             PROVE  WillDisable'
  OBVIOUS
<1>0. /\ pc \in [Routines -> Places] /\ Starters \subseteq Routines
      /\ due \in Nat /\ session \in BOOLEAN /\ enabled \in BOOLEAN
  BY DEF ClientInv, ClientTypeOK, Places, Routines
<1> USE DEF WillDisable, Go
<1>1. ASSUME NEW p \in Starters, StartBegins(p)
      PROVE  WillDisable'
  BY <1>1 DEF StartBegins
<1>2. ASSUME NEW p \in Starters, StartFails(p) \/ Activates(p) \/ Ensures(p)
      PROVE  WillDisable'
  <2>1. UNCHANGED <<session, enabled, late>>
    BY <1>2 DEF StartFails, Activates, Ensures, lifecycle, history
  <2>2. \A q \in Routines : pc[q] = "disabling" => pc'[q] = "disabling"
    BY <1>0, <1>2 DEF StartFails, Activates, Ensures
  <2>3. due' = due \/ due' = due + 1
    BY <1>2 DEF StartFails, Activates, Ensures, lifecycle
  <2>4. due > 0 => due' > 0
    BY <1>0, <2>3
  <2> QED BY <2>1, <2>2, <2>4 DEF ClientInv
<1>3. ASSUME NEW p \in Starters, Enables(p)
      PROVE  WillDisable'
  <2>1. p \in InStart
    BY <1>3 DEF Enables, InStart, Starting
  <2>2. ~late' => session \/ due > 0
    BY <1>3, <2>1 DEF Enables, Kept, ClientInv
  <2> QED BY <1>3, <2>2 DEF Enables
<1>4. ASSUME NEW p \in Routines, Beginning(p)
      PROVE  WillDisable'
  BY <1>0, <1>4 DEF Beginning, CloseBegins, HookBegins, ActivationFails
<1>5. ASSUME NEW p \in Routines, Disables(p)
      PROVE  WillDisable'
  BY <1>5 DEF Disables
<1>6. ASSUME NEW p \in Routines, Takes(p) \/ Cancels(p) \/ Deactivates(p) \/ ClosesSession(p)
      PROVE  WillDisable'
  <2>1. p \in TearingDown /\ pc[p] # "disabling" /\ UNCHANGED <<enabled, late>>
    BY <1>6 DEF Takes, Cancels, Deactivates, ClosesSession, TearingDown, Teardown,
                lifecycle, history
  <2> QED BY <2>1 DEF Disabled, ClientInv
<1>7. CASE LinkLost
  <2>1. due' > 0
    BY <1>0, <1>7 DEF LinkLost
  <2> QED BY <2>1
<1>8. CASE Messaging \/ UNCHANGED vars
  BY <1>8 DEF Messaging, Delivers, Drops, Calls, Returns, vars, lifecycle, history, ClientInv
<1> QED BY <1>1, <1>2, <1>3, <1>4, <1>5, <1>6, <1>7, <1>8, NextCases DEF Proceeds

\* A Start replaces only a context that has been canceled, and cancelHandlerContext
\* cancels what it has taken.
LEMMA AccountStep == ClientInv /\ [Next]_vars => Accounted' /\ Claimed'
<1> SUFFICES ASSUME ClientInv, [Next]_vars
             PROVE  Accounted' /\ Claimed'
  OBVIOUS
<1>0. /\ pc \in [Routines -> Places] /\ Starters \subseteq Routines
      /\ made \in Nat /\ ctx \in 0 .. made /\ cancelled \subseteq 1 .. made
      /\ took \in [Routines -> 0 .. made] /\ enabled \in BOOLEAN
  BY DEF ClientInv, ClientTypeOK, Places, Routines
<1> USE DEF Accounted, Claimed, Live, Go
<1>1. ASSUME NEW p \in Starters, StartBegins(p) \/ StartFails(p) \/ Activates(p)
      PROVE  Accounted' /\ Claimed'
  BY <1>0, <1>1 DEF StartBegins, StartFails, Activates, lifecycle, history, ClientInv
<1>2. ASSUME NEW p \in Starters, Ensures(p)
      PROVE  Accounted' /\ Claimed'
  <2>1. p \in Routines /\ pc'[p] = "enabling"
    BY <1>0, <1>2 DEF Ensures
  <2>2. UNCHANGED <<took, cancelled>> /\ \A q \in Routines \ {p} : pc'[q] = pc[q]
    BY <1>0, <1>2 DEF Ensures
  <2>3. CASE ctx # 0 /\ ctx \notin cancelled
    BY <1>0, <1>2, <2>1, <2>2, <2>3 DEF Ensures, ClientInv
  <2>4. CASE ctx = 0 \/ ctx \in cancelled
    <3>1. made' = made + 1 /\ ctx' = made'
      BY <1>2, <2>4 DEF Ensures
    <3>2. \A c \in 1 .. made : \/ c \in cancelled
                               \/ \E q \in Routines : pc'[q] = "cancelling" /\ took[q] = c
      BY <1>2, <2>2, <2>4 DEF Ensures, ClientInv
    <3>3. \A c \in 1 .. made' : c \in 1 .. made \/ c = ctx'
      BY <1>0, <3>1
    <3> QED BY <2>1, <2>2, <3>1, <3>2, <3>3
  <2> QED BY <2>3, <2>4
<1>3. ASSUME NEW p \in Starters, Enables(p)
      PROVE  Accounted' /\ Claimed'
  BY <1>0, <1>3 DEF Enables, ClientInv
<1>4. ASSUME NEW p \in Routines, Beginning(p)
      PROVE  Accounted' /\ Claimed'
  <2>1. UNCHANGED <<enabled, ctx, made, cancelled, took>> /\ pc' = [pc EXCEPT ![p] = "disabling"]
    BY <1>4 DEF Beginning, CloseBegins, HookBegins, ActivationFails, lifecycle
  <2>2. pc[p] \in {"idle", "activating"}
    BY <1>4 DEF Beginning, CloseBegins, HookBegins, ActivationFails
  <2> QED BY <1>0, <2>1, <2>2 DEF ClientInv
<1>5. ASSUME NEW p \in Routines, Disables(p)
      PROVE  Accounted' /\ Claimed'
  BY <1>0, <1>5 DEF Disables, ClientInv
<1>6. ASSUME NEW p \in Routines, Takes(p)
      PROVE  Accounted' /\ Claimed'
  <2>1. /\ ctx' = 0 /\ pc'[p] = "cancelling" /\ took'[p] = ctx
        /\ UNCHANGED <<made, cancelled>> /\ pc[p] = "taking"
    BY <1>0, <1>6 DEF Takes
  <2>2. \A q \in Routines \ {p} : pc'[q] = pc[q] /\ took'[q] = took[q]
    BY <1>0, <1>6 DEF Takes
  <2> QED BY <2>1, <2>2 DEF ClientInv
<1>7. ASSUME NEW p \in Routines, Cancels(p)
      PROVE  Accounted' /\ Claimed'
  <2>1. /\ pc'[p] = "deactivating" /\ cancelled' = cancelled \union ({took[p]} \ {0})
        /\ UNCHANGED <<enabled, made, ctx>> /\ pc[p] = "cancelling"
    BY <1>0, <1>7 DEF Cancels
  <2>2. \A q \in Routines \ {p} : pc'[q] = pc[q] /\ took'[q] = took[q]
    BY <1>0, <1>7 DEF Cancels
  <2>3. Accounted'
    BY <1>0, <2>1, <2>2 DEF ClientInv
  <2>4. Claimed'
    BY <1>0, <2>1, <2>2 DEF ClientInv
  <2> QED BY <2>3, <2>4
<1>8. ASSUME NEW p \in Routines, Deactivates(p) \/ ClosesSession(p)
      PROVE  Accounted' /\ Claimed'
  BY <1>0, <1>8 DEF Deactivates, ClosesSession, lifecycle, ClientInv
<1>9. CASE LinkLost \/ Messaging \/ UNCHANGED vars
  BY <1>9 DEF LinkLost, Messaging, Delivers, Drops, Calls, Returns, vars, lifecycle, ClientInv
<1> QED BY <1>1, <1>2, <1>3, <1>4, <1>5, <1>6, <1>7, <1>8, <1>9, NextCases DEF Proceeds

\* ClientInv holds from the first state on.
LEMMA ClientAlways == Spec => []ClientInv
<1>1. Init => ClientInv
  <2> SUFFICES ASSUME Init PROVE ClientInv
    OBVIOUS
  <2>1. ClientTypeOK
    <3>1. due \in Nat /\ made \in Nat /\ ctx \in 0 .. made /\ cancelled \subseteq 1 .. made
      BY DEF Init
    <3>2. took \in [Routines -> 0 .. made] /\ given \in [Handlers -> 0 .. made]
      BY DEF Init
    <3>3. /\ session \in BOOLEAN /\ enabled \in BOOLEAN /\ late \in BOOLEAN
          /\ overlapped \subseteq Starters
      BY DEF Init
    <3>4. /\ pc \in [Routines -> {"idle"} \union Starting \union Teardown]
          /\ call \in [Handlers -> {"none", "decoding", "running"}]
      BY DEF Init
    <3> QED BY <3>1, <3>2, <3>3, <3>4 DEF ClientTypeOK
  <2>2. InStart = {} /\ TearingDown = {}
    BY DEF Init, InStart, TearingDown, Starting, Teardown, Routines
  <2>3. EnabledHasContext /\ WillDisable /\ Claimed /\ Accounted
    BY DEF Init, EnabledHasContext, WillDisable, Claimed, Accounted, Live
  <2>4. Apart /\ Kept /\ Disabled
    BY <2>2 DEF Apart, Kept, Disabled
  <2> QED BY <2>1, <2>3, <2>4 DEF ClientInv
<1>2. ClientInv /\ [Next]_vars => ClientInv'
  BY TypeStep, ApartStep, ContextStep, LinkStep, AccountStep DEF ClientInv
<1> QED BY <1>1, <1>2, PTL DEF Spec

-----------------------------------------------------------------------------

\* Every variable holds a value of its kind, in every instance.
THEOREM ClientTypeCorrect == Spec => []ClientTypeOK
<1>1. ClientInv => ClientTypeOK
  BY DEF ClientInv
<1> QED BY <1>1, ClientAlways, PTL

\* However many Starts, Closes and closed handlers race, enabled callbacks have a
\* live context, unless a teardown overlapped the Start that enabled them.
THEOREM EnabledAlwaysHasContext == Spec => []EnabledHasContext
<1>1. ClientInv => EnabledHasContext
  BY DEF ClientInv
<1> QED BY <1>1, ClientAlways, PTL

\* A client at rest with its callbacks enabled is connected, with that exception.
THEOREM StartedIsConnected == Spec => []StartedAtRest
<1>1. ClientInv => StartedAtRest
  BY DEF ClientInv, ClientTypeOK, StartedAtRest, WillDisable, Idle
<1> QED BY <1>1, ClientAlways, PTL

\* A client at rest with its callbacks disabled has canceled all its contexts.
THEOREM StoppedIsCanceled == Spec => []StoppedAtRest
<1>1. ClientInv => StoppedAtRest
  <2> SUFFICES ASSUME ClientInv, \A p \in Routines : pc[p] = "idle", ~enabled
               PROVE  cancelled = 1 .. made
    BY DEF StoppedAtRest, Idle
  <2>1. ~Live(ctx)
    BY DEF ClientInv, Claimed
  <2>2. \A c \in 1 .. made : c \in cancelled
    BY <2>1 DEF ClientInv, Accounted, Live
  <2>3. cancelled \subseteq 1 .. made
    BY DEF ClientInv, ClientTypeOK
  <2> QED BY <2>2, <2>3
<1> QED BY <1>1, ClientAlways, PTL

\* No handler that callbacks are enabled for loses its context.
THEOREM CanceledOnlyDisabled == Spec => CanceledWhileDisabled
<1>1. ClientInv /\ [Next]_vars => [cancelled' # cancelled => ~enabled \/ late]_vars
  <2> SUFFICES ASSUME ClientInv, Next, cancelled' # cancelled
               PROVE  ~enabled \/ late
    BY DEF vars, lifecycle
  <2>1. \E p \in Routines : Cancels(p)
    BY NextCases DEF StartBegins, StartFails, Activates, Ensures, Enables, Beginning,
                     CloseBegins, HookBegins, ActivationFails, Proceeds, Disables, Takes,
                     Deactivates, ClosesSession, LinkLost, Messaging, Delivers, Drops,
                     Calls, Returns, lifecycle
  <2> QED BY <2>1 DEF Cancels, Go, TearingDown, Teardown, Disabled, ClientInv
<1> QED BY <1>1, ClientAlways, PTL DEF Spec, CanceledWhileDisabled
=============================================================================
