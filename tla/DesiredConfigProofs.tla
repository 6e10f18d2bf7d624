------------------------- MODULE DesiredConfigProofs -------------------------
(***************************************************************************)
(* The safety properties of DesiredConfig hold for any sets of calls and   *)
(* agents and any number of crashes.  The argument is that of the code:    *)
(* what a call does after Put it does with its config in the log           *)
(* (HasStored), the log only grows, so an announced config stays there,    *)
(* and from Publish on every reconciled agent has, or is about to load, or *)
(* has lost it (Told).                                                     *)
(***************************************************************************)
EXTENDS DesiredConfig, TLAPS

AfterPut == {"read", "publish", "flush", "accepted"}

\* A call past its Put holds a revision at or after that of its config.
HasStored == \A c \in Calls : pc[c] \in AfterPut => \E r \in 1..rev[c] : log[r] = c

\* ReconciledKnows, from the publication on.
Told ==
    \A a \in Agents, c \in Calls \ Silent :
        phase[a] = "reconciled" /\ pc[c] \in {"flush", "accepted"} =>
            Knows(a, c) \/ c \in wire[a] \/ handling[a] = c \/ c \in lost[a]

DInv == DesiredTypeOK /\ HasStored /\ NotifiedIsStored /\ Told

\* What Put appends leaves the earlier revisions as they were.
LEMMA LogGrows ==
    ASSUME NEW c \in Calls, log \in Seq(Calls), log' = Append(log, c)
    PROVE  /\ log' \in Seq(Calls)
           /\ Len(log') = Len(log) + 1
           /\ \A r \in 1..Len(log) : log'[r] = log[r]
OBVIOUS

\* Initially no call has begun and every agent is down.
LEMMA DInitially == Init => DInv
BY SilentAssumption, NoCallAssumption, MaxCrashesAssumption
   DEF Init, DInv, DesiredTypeOK, HasStored, NotifiedIsStored, Told, AfterPut, CallPc, Phase

\* A step that leaves the log, the agents and the wire alone.
LEMMA QuietCallStep ==
    ASSUME DInv, NEW c \in Calls, NEW to \in CallPc, CallAt(c, to),
           rev' \in [Calls -> 0..Len(log)],
           \A d \in Calls \ {c} : rev'[d] = rev[d],
           to \in AfterPut => \E r \in 1..rev'[c] : log[r] = c,
           to \in {"flush", "accepted"} => c \in Silent \/ pc[c] = "flush",
           puts' \subseteq Calls,
           UNCHANGED <<log, wire, lost, agentVars>>
    PROVE  DInv'
<1>1. DesiredTypeOK'
  BY DEF DInv, DesiredTypeOK, CallAt, agentVars
<1>2. HasStored'
  <2> SUFFICES ASSUME NEW d \in Calls, pc'[d] \in AfterPut
               PROVE  \E r \in 1..rev'[d] : log'[r] = d
    BY DEF HasStored
  <2>1. CASE d = c
    <3>1. pc'[c] = to
      BY DEF DInv, DesiredTypeOK, CallAt
    <3> QED  BY <2>1, <3>1 DEF agentVars
  <2>2. CASE d # c
    <3>1. pc'[d] = pc[d] /\ rev'[d] = rev[d]
      BY <2>2 DEF DInv, DesiredTypeOK, CallAt
    <3> QED  BY <3>1 DEF DInv, HasStored, agentVars
  <2> QED  BY <2>1, <2>2
<1>3. NotifiedIsStored'
  BY DEF DInv, NotifiedIsStored, Stored, agentVars
<1>4. Told'
  <2> SUFFICES ASSUME NEW a \in Agents, NEW d \in Calls \ Silent,
                      phase'[a] = "reconciled", pc'[d] \in {"flush", "accepted"}
               PROVE  (Knows(a, d) \/ d \in wire[a] \/ handling[a] = d \/ d \in lost[a])'
    BY DEF Told
  <2>1. pc[d] \in {"flush", "accepted"}
    BY DEF DInv, DesiredTypeOK, CallAt
  <2> QED  BY <2>1 DEF DInv, Told, Knows, agentVars
<1> QED  BY <1>1, <1>2, <1>3, <1>4 DEF DInv

\* A step that leaves the calls and the log alone.
LEMMA AgentTypeStep ==
    ASSUME DInv, UNCHANGED <<log, callVars>>,
           wire' \in [Agents -> SUBSET Calls], phase' \in [Agents -> Phase],
           handling' \in [Agents -> Calls \union {NoCall}],
           seen' \in [Agents -> 0..Len(log)], lost' \in [Agents -> SUBSET Calls],
           crashes' \in [Agents -> 0..MaxCrashes],
           \A a \in Agents, d \in Calls :
               d \in wire'[a] \/ handling'[a] = d => d \in wire[a] \/ handling[a] = d,
           Told'
    PROVE  DInv'
<1>1. DesiredTypeOK'
  BY DEF DInv, DesiredTypeOK, callVars
<1>2. HasStored'
  BY DEF DInv, HasStored, callVars
<1>3. NotifiedIsStored'
  BY DEF DInv, NotifiedIsStored, Stored, callVars
<1> QED  BY <1>1, <1>2, <1>3 DEF DInv

\* Every action, and stuttering, preserve the invariant.
LEMMA DStep == DInv /\ [Next]_vars => DInv'
<1> SUFFICES ASSUME DInv, [Next]_vars PROVE DInv'
  OBVIOUS
<1> USE SilentAssumption, NoCallAssumption, MaxCrashesAssumption
<1>0. DesiredTypeOK
  BY DEF DInv
<1>1. ASSUME NEW c \in Calls, Refuses(c) PROVE DInv'
  BY <1>0, <1>1, QuietCallStep DEF Refuses, CallPc, AfterPut, DesiredTypeOK
<1>20. ASSUME NEW c \in Calls, StoreRefuses(c) PROVE DInv'
  BY <1>0, <1>20, QuietCallStep DEF StoreRefuses, CallPc, AfterPut, DesiredTypeOK
<1>2. ASSUME NEW c \in Calls, SendsPut(c) PROVE DInv'
  BY <1>0, <1>2, QuietCallStep DEF SendsPut, CallPc, AfterPut, DesiredTypeOK
<1>3. ASSUME NEW c \in Calls, PutReturns(c) PROVE DInv'
  <2>1. PICK r \in DOMAIN log : log[r] = c /\ rev' = [rev EXCEPT ![c] = r]
    BY <1>3 DEF PutReturns, PutAnswers
  <2>2. r \in 1..Len(log) /\ rev'[c] = r
    BY <1>0, <2>1 DEF DesiredTypeOK
  <2>3. rev' \in [Calls -> 0..Len(log)] /\ \A d \in Calls \ {c} : rev'[d] = rev[d]
    BY <1>0, <2>1, <2>2 DEF DesiredTypeOK
  <2>4. \E q \in 1..rev'[c] : log[q] = c
    BY <2>1, <2>2
  <2> QED  BY <1>0, <1>3, <2>3, <2>4, QuietCallStep
           DEF PutReturns, CallPc, AfterPut, DesiredTypeOK
<1>4. ASSUME NEW c \in Calls, PutFails(c) PROVE DInv'
  BY <1>0, <1>4, QuietCallStep DEF PutFails, CallPc, AfterPut, DesiredTypeOK
<1>5. ASSUME NEW c \in Calls, ReadsBack(c) PROVE DInv'
  <2>1. PICK q \in 1..rev[c] : log[q] = c
    BY <1>5 DEF ReadsBack, DInv, HasStored, AfterPut
  <2>2. rev' \in [Calls -> 0..Len(log)] /\ \A d \in Calls \ {c} : rev'[d] = rev[d]
    <3>1. Len(log) \in 0..Len(log) /\ rev \in [Calls -> 0..Len(log)]
      BY <1>0 DEF DesiredTypeOK
    <3>2. rev' = rev \/ rev' = [rev EXCEPT ![c] = Len(log)]
      BY <1>5 DEF ReadsBack
    <3> QED  BY <3>1, <3>2
  <2>3. q \in 1..rev'[c]
    BY <1>0, <1>5, <2>1 DEF ReadsBack, DesiredTypeOK
  <2>4. puts' \subseteq Calls /\ UNCHANGED <<log, wire, lost, agentVars>>
    BY <1>0, <1>5 DEF ReadsBack, DesiredTypeOK
  <2>5. CASE c \in Silent
    BY <1>5, <2>1, <2>2, <2>3, <2>4, <2>5, QuietCallStep DEF ReadsBack, CallPc
  <2>6. CASE c \notin Silent
    BY <1>5, <2>1, <2>2, <2>3, <2>4, <2>6, QuietCallStep DEF ReadsBack, CallPc
  <2> QED  BY <2>5, <2>6
<1>6. ASSUME NEW c \in Calls, Publishes(c) PROVE DInv'
  <2>1. PICK R \in SUBSET {a \in Agents : phase[a] # "down"} :
          /\ wire' = [a \in Agents |-> IF a \in R THEN wire[a] \union {c} ELSE wire[a]]
          /\ lost' = [a \in Agents |-> IF a \notin R /\ phase[a] = "reconciled"
                                         THEN lost[a] \union {c} ELSE lost[a]]
    BY <1>6 DEF Publishes, Notifies
  <2>2. pc[c] = "publish" /\ pc' = [pc EXCEPT ![c] = "flush"]
    BY <1>6 DEF Publishes, CallAt
  <2>3. UNCHANGED <<log, puts, rev, phase, handling, seen, crashes>>
    BY <1>6 DEF Publishes, agentVars
  <2>4. DesiredTypeOK'
    BY <1>0, <2>1, <2>2, <2>3 DEF DesiredTypeOK, CallPc
  <2>5. HasStored'
    BY <1>0, <2>2, <2>3 DEF DInv, DesiredTypeOK, HasStored, AfterPut
  <2>6. Stored(c)
    <3>1. PICK r \in 1..rev[c] : log[r] = c
      BY <2>2 DEF DInv, HasStored, AfterPut
    <3> QED  BY <1>0, <3>1 DEF Stored, DesiredTypeOK
  <2>7. NotifiedIsStored'
    BY <2>1, <2>3, <2>6 DEF DInv, NotifiedIsStored, Stored
  <2>8. Told'
    BY <1>0, <2>1, <2>2, <2>3 DEF DInv, DesiredTypeOK, Told, Knows
  <2> QED  BY <2>4, <2>5, <2>7, <2>8 DEF DInv
<1>7. ASSUME NEW c \in Calls, PublishFails(c) PROVE DInv'
  BY <1>0, <1>7, QuietCallStep DEF PublishFails, CallPc, AfterPut, DesiredTypeOK
<1>8. ASSUME NEW c \in Calls, Flushes(c) PROVE DInv'
  <2>1. PICK to \in {"accepted", "failed"} : CallAt(c, to)
    BY <1>8 DEF Flushes
  <2>2. \E r \in 1..rev[c] : log[r] = c
    BY <1>8 DEF Flushes, DInv, HasStored, AfterPut
  <2>3. /\ rev' \in [Calls -> 0..Len(log)] /\ puts' \subseteq Calls
        /\ rev' = rev /\ UNCHANGED <<log, wire, lost, agentVars>> /\ pc[c] = "flush"
    BY <1>0, <1>8 DEF Flushes, DesiredTypeOK
  <2>4. to \in CallPc
    BY DEF CallPc
  <2> QED  BY <2>1, <2>2, <2>3, <2>4, QuietCallStep
<1>9. ASSUME NEW c \in Calls, Stores(c) PROVE DInv'
  <2>1. /\ log' \in Seq(Calls)
        /\ Len(log') = Len(log) + 1
        /\ \A r \in 1..Len(log) : log'[r] = log[r]
    BY <1>0, <1>9, LogGrows DEF Stores, DesiredTypeOK
  <2>2. /\ UNCHANGED <<pc, rev, wire, lost, phase, handling, seen, crashes>>
        /\ puts' \subseteq Calls
    BY <1>0, <1>9 DEF Stores, agentVars, DesiredTypeOK
  <2>3. DesiredTypeOK'
    BY <1>0, <2>1, <2>2 DEF DesiredTypeOK
  <2>4. HasStored'
    <3> SUFFICES ASSUME NEW d \in Calls, pc[d] \in AfterPut
                 PROVE  \E r \in 1..rev[d] : log'[r] = d
      BY <2>2 DEF HasStored
    <3>1. PICK r \in 1..rev[d] : log[r] = d
      BY DEF DInv, HasStored
    <3>2. r \in 1..Len(log)
      BY <1>0, <3>1 DEF DesiredTypeOK
    <3> QED  BY <2>1, <3>1, <3>2
  <2>5. NotifiedIsStored'
    <3> SUFFICES ASSUME NEW a \in Agents, NEW d \in Calls, d \in wire[a] \/ handling[a] = d
                 PROVE  Stored(d)'
      BY <2>2 DEF NotifiedIsStored
    <3>1. PICK r \in DOMAIN log : log[r] = d
      BY DEF DInv, NotifiedIsStored, Stored
    <3>2. r \in 1..Len(log) /\ r \in DOMAIN log'
      BY <1>0, <2>1, <3>1 DEF DesiredTypeOK
    <3> QED  BY <2>1, <3>1, <3>2 DEF Stored
  <2>6. Told'
    <3>1. ASSUME NEW a \in Agents, NEW d \in Calls, Knows(a, d) PROVE Knows(a, d)'
      <4>1. PICK r \in 1..seen[a] : log[r] = d
        BY <3>1 DEF Knows
      <4>2. r \in 1..Len(log)
        BY <1>0, <4>1 DEF DesiredTypeOK
      <4> QED  BY <2>1, <2>2, <4>1, <4>2 DEF Knows
    <3> QED  BY <2>2, <3>1 DEF DInv, Told
  <2> QED  BY <2>3, <2>4, <2>5, <2>6 DEF DInv
<1>10. ASSUME NEW c \in Calls, LosesPut(c) PROVE DInv'
  BY <1>10 DEF LosesPut, DInv, DesiredTypeOK, HasStored, NotifiedIsStored, Told,
               Stored, Knows, agentVars
\* A reconciled agent that has loaded the slot knows every stored config.
<1>11. ASSUME NEW a \in Agents, NEW d \in Calls, pc[d] \in AfterPut, seen' = [seen EXCEPT ![a] = Len(log)], log' = log
       PROVE  Knows(a, d)'
  <2>1. PICK r \in 1..rev[d] : log[r] = d
    BY <1>11 DEF DInv, HasStored
  <2> QED  BY <1>0, <1>11, <2>1 DEF DesiredTypeOK, Knows
<1>12. ASSUME NEW a \in Agents, Subscribes(a) PROVE DInv'
  <2>1. Told'
    BY <1>0, <1>12 DEF Subscribes, PhaseIs, DInv, DesiredTypeOK, Told, Knows, callVars
  <2> QED  BY <1>0, <1>12, <2>1, AgentTypeStep DEF Subscribes, PhaseIs, DesiredTypeOK, Phase
<1>13. ASSUME NEW a \in Agents, Enables(a) PROVE DInv'
  <2>1. Told'
    BY <1>0, <1>13 DEF Enables, PhaseIs, DInv, DesiredTypeOK, Told, Knows, callVars
  <2> QED  BY <1>0, <1>13, <2>1, AgentTypeStep DEF Enables, PhaseIs, DesiredTypeOK, Phase
<1>14. ASSUME NEW a \in Agents, Reconciles(a) PROVE DInv'
  <2>1. Told'
    <3> SUFFICES ASSUME NEW b \in Agents, NEW d \in Calls \ Silent,
                        phase'[b] = "reconciled", pc'[d] \in {"flush", "accepted"}
                 PROVE  (Knows(b, d) \/ d \in wire[b] \/ handling[b] = d \/ d \in lost[b])'
      BY DEF Told
    <3>1. CASE b = a
      BY <1>14, <1>11, <3>1 DEF Reconciles, Loads, callVars, AfterPut
    <3>2. CASE b # a
      BY <1>0, <1>14, <3>2 DEF Reconciles, Loads, PhaseIs, callVars, DInv, DesiredTypeOK, Told, Knows
    <3> QED  BY <3>1, <3>2
  <2>2. seen' \in [Agents -> 0..Len(log)]
    BY <1>0, <1>14 DEF Reconciles, Loads, DesiredTypeOK
  <2> QED  BY <1>0, <1>14, <2>1, <2>2, AgentTypeStep DEF Reconciles, PhaseIs, DesiredTypeOK, Phase
<1>15. ASSUME NEW a \in Agents, NEW c \in Calls, Delivers(a, c) PROVE DInv'
  <2>1. Told'
    BY <1>0, <1>15 DEF Delivers, Dispatches, DInv, DesiredTypeOK, Told, Knows, callVars
  <2> QED  BY <1>0, <1>15, <2>1, AgentTypeStep DEF Delivers, DesiredTypeOK
<1>16. ASSUME NEW a \in Agents, HandlerLoads(a) PROVE DInv'
  <2>1. Told'
    <3> SUFFICES ASSUME NEW b \in Agents, NEW d \in Calls \ Silent,
                        phase'[b] = "reconciled", pc'[d] \in {"flush", "accepted"}
                 PROVE  (Knows(b, d) \/ d \in wire[b] \/ handling[b] = d \/ d \in lost[b])'
      BY DEF Told
    <3>1. CASE b = a
      BY <1>16, <1>11, <3>1 DEF HandlerLoads, Loads, callVars, AfterPut
    <3>2. CASE b # a
      BY <1>0, <1>16, <3>2 DEF HandlerLoads, Loads, callVars, DInv, DesiredTypeOK, Told, Knows
    <3> QED  BY <3>1, <3>2
  <2>2. seen' \in [Agents -> 0..Len(log)]
    BY <1>0, <1>16 DEF HandlerLoads, Loads, DesiredTypeOK
  <2> QED  BY <1>0, <1>16, <2>1, <2>2, AgentTypeStep DEF HandlerLoads, DesiredTypeOK
<1>17. ASSUME NEW a \in Agents, HandlerFails(a) PROVE DInv'
  <2>1. Told'
    BY <1>0, <1>17 DEF HandlerFails, DInv, DesiredTypeOK, Told, Knows, callVars
  <2> QED  BY <1>0, <1>17, <2>1, AgentTypeStep DEF HandlerFails, DesiredTypeOK
<1>18. ASSUME NEW a \in Agents, Crashes(a) PROVE DInv'
  <2>1. Told'
    BY <1>0, <1>18 DEF Crashes, PhaseIs, DInv, DesiredTypeOK, Told, Knows, callVars
  <2> QED  BY <1>0, <1>18, <2>1, AgentTypeStep DEF Crashes, PhaseIs, DesiredTypeOK, Phase
<1>19. CASE UNCHANGED vars
  BY <1>19 DEF vars, callVars, agentVars, DInv, DesiredTypeOK, HasStored, NotifiedIsStored,
               Told, Stored, Knows
<1> QED  BY <1>1, <1>2, <1>3, <1>4, <1>5, <1>6, <1>7, <1>8, <1>9, <1>10, <1>12, <1>13,
            <1>14, <1>15, <1>16, <1>17, <1>18, <1>19, <1>20 DEF Next, CallStep, AgentStep

-----------------------------------------------------------------------------

\* The invariant holds for any sets of calls and agents.
THEOREM DesiredInductive == Spec => []DInv
BY DInitially, DStep, PTL DEF Spec

\* Every variable keeps its type.
THEOREM DesiredTypeCorrect == Spec => []DesiredTypeOK
<1>1. DInv => DesiredTypeOK
  BY DEF DInv
<1> QED  BY <1>1, DesiredInductive, PTL

\* Store, then notify: no agent is told of a config that is not in the slot's
\* history (SubmitConfigure).
THEOREM StoreThenNotify == Spec => []NotifiedIsStored
<1>1. DInv => NotifiedIsStored
  BY DEF DInv
<1> QED  BY <1>1, DesiredInductive, PTL

\* A call that is accepted has its config in the log, at or before the revision
\* it returns (StoreDesiredConfig).
THEOREM AcceptedDurable == Spec => []AcceptedIsDurable
<1>1. DInv => AcceptedIsDurable
  BY DEF DInv, HasStored, AfterPut, AcceptedIsDurable
<1> QED  BY <1>1, DesiredInductive, PTL

\* After Start and StartupReconcile an agent misses no accepted config but
\* those it has lost since.
THEOREM ReconcileSuffices == Spec => []ReconciledKnows
<1>1. DInv => ReconciledKnows
  BY DEF DInv, Told, ReconciledKnows
<1> QED  BY <1>1, DesiredInductive, PTL

-----------------------------------------------------------------------------
(* The refinement of Slot.                                                 *)

\* A call writes once: its Put is under way or done, never both.
WritesOnce == \A c \in Calls : /\ pc[c] = "idle" => c \notin puts /\ ~Stored(c)
                               /\ c \in puts => ~Stored(c)

\* Nothing that SubmitConfigure or StoreDesiredConfig does repeats a Put.
LEMMA WritesOnceStep == DInv /\ WritesOnce /\ [Next]_vars => WritesOnce'
<1> SUFFICES ASSUME DInv, WritesOnce, [Next]_vars PROVE WritesOnce'
  OBVIOUS
<1>0. DesiredTypeOK
  BY DEF DInv
<1>1. ASSUME NEW c \in Calls, Stores(c) PROVE WritesOnce'
  <2>1. \A d \in Calls \ {c} : Stored(d)' => Stored(d)
    BY <1>0, <1>1, LogGrows DEF Stores, Stored, DesiredTypeOK
  <2>2. pc[c] # "idle" /\ c \notin puts'
    BY <1>1 DEF Stores, WritesOnce
  <2> QED BY <1>1, <2>1, <2>2 DEF Stores, WritesOnce
<1>2. ASSUME NEW c \in Calls, SendsPut(c) PROVE WritesOnce'
  BY <1>0, <1>2 DEF SendsPut, CallAt, WritesOnce, Stored, DesiredTypeOK
<1>3. ASSUME UNCHANGED log, puts' \subseteq puts,
             \A c \in Calls : pc'[c] = "idle" => pc[c] = "idle"
      PROVE  WritesOnce'
  BY <1>3 DEF WritesOnce, Stored
<1>4. ASSUME NEW c \in Calls, Refuses(c) \/ StoreRefuses(c) \/ LosesPut(c) \/ CallStep(c)
      PROVE  WritesOnce'
  BY <1>0, <1>3, <1>4 DEF Refuses, StoreRefuses, LosesPut, CallStep, PutReturns, PutFails,
         ReadsBack, Publishes, PublishFails, Flushes, CallAt, DesiredTypeOK
<1>5. CASE UNCHANGED <<log, callVars>>
  BY <1>3, <1>5 DEF callVars
<1>6. ASSUME NEW a \in Agents, \/ Subscribes(a) \/ Enables(a) \/ Reconciles(a)
                               \/ AgentStep(a) \/ Crashes(a)
      PROVE  UNCHANGED <<log, callVars>>
  BY <1>6 DEF Subscribes, Enables, Reconciles, AgentStep, Delivers, HandlerLoads, HandlerFails,
         Crashes
<1> QED BY <1>1, <1>2, <1>4, <1>5, <1>6 DEF Next, vars

Accepted == {c \in Calls : pc[c] = "accepted"}
AllPending == [a \in Agents |-> Pending(a)]

\* Slot's Written
LEMMA WrittenIsStored == \A c \in Calls : c \in Promise!Written <=> Stored(c)
BY DEF Promise!Written, Stored

\* A call that is not accepted by its step changes nothing that Slot sees.
LEMMA CallUnseen ==
    ASSUME DesiredTypeOK, NEW c \in Calls, NEW to \in CallPc, CallAt(c, to),
           pc[c] # "accepted", to # "accepted",
           UNCHANGED <<log, wire, handling, seen>>
    PROVE  UNCHANGED Promise!vars
<1>1. Accepted' = Accepted
  BY DEF CallAt, Accepted, DesiredTypeOK
<1>2. AllPending' = AllPending
  BY DEF AllPending, Pending
<1> QED BY <1>1, <1>2 DEF Promise!vars, Accepted, AllPending

\* A call that returns without an error is a step of Slot.
LEMMA CallAccepted ==
    ASSUME DesiredTypeOK, NEW c \in Calls, CallAt(c, "accepted"), Stored(c),
           UNCHANGED <<log, wire, handling, seen>>
    PROVE  Promise!Accepts(c)
<1>1. Accepted' = Accepted \union {c}
  BY DEF CallAt, Accepted, DesiredTypeOK
<1>2. AllPending' = AllPending
  BY DEF AllPending, Pending
<1> QED BY <1>1, <1>2, WrittenIsStored DEF Promise!Accepts, Accepted, AllPending

\* What an agent does with what it was told: it loads, ignores it, or restarts.
LEMMA AgentMoves ==
    ASSUME DesiredTypeOK, NEW a \in Agents, UNCHANGED <<log, callVars>>,
           \/ seen' = [seen EXCEPT ![a] = Len(log)]
           \/ seen' = [seen EXCEPT ![a] = 0]
           \/ UNCHANGED seen,
           Pending(a)' \subseteq Pending(a),
           \A b \in Agents \ {a} : Pending(b)' = Pending(b)
    PROVE  Promise!Moves(a)
<1>1. Accepted' = Accepted
  BY DEF Accepted, callVars
<1>2. AllPending' = [AllPending EXCEPT ![a] = Pending(a)']
  BY DEF AllPending
<1>3. Pending(a)' \in SUBSET AllPending[a]
  BY DEF AllPending
<1> QED BY <1>1, <1>2, <1>3
        DEF Promise!Moves, Promise!Loads, Promise!Restarts, Accepted, AllPending

\* Every step is one of Slot, or one that Slot does not see.
LEMMA SlotStep ==
    DInv /\ WritesOnce /\ [Next]_vars => [Promise!Next]_(Promise!vars)
<1> SUFFICES ASSUME DInv, WritesOnce, [Next]_vars PROVE [Promise!Next]_(Promise!vars)
  OBVIOUS
<1> USE NoCallAssumption
<1>0. DesiredTypeOK /\ HasStored
  BY DEF DInv
<1>1. \A c \in Calls : pc[c] \in AfterPut => Stored(c)
  <2> SUFFICES ASSUME NEW c \in Calls, pc[c] \in AfterPut PROVE Stored(c)
    OBVIOUS
  <2>1. PICK r \in 1..rev[c] : log[r] = c
    BY <1>0 DEF HasStored
  <2>2. r \in DOMAIN log
    BY <1>0 DEF DesiredTypeOK
  <2> QED BY <2>1, <2>2 DEF Stored
<1>2. ASSUME NEW c \in Calls,
             \/ Refuses(c) \/ StoreRefuses(c) \/ SendsPut(c) \/ PutReturns(c)
             \/ PutFails(c) \/ PublishFails(c)
      PROVE  UNCHANGED Promise!vars
  BY <1>0, <1>2, CallUnseen DEF Refuses, StoreRefuses, SendsPut, PutReturns, PutFails,
         PublishFails, CallPc, agentVars
<1>3. ASSUME NEW c \in Calls, ReadsBack(c) \/ Flushes(c)
      PROVE  Promise!Accepts(c) \/ UNCHANGED Promise!vars
  <2>1. Stored(c) /\ pc[c] # "accepted"
    BY <1>1, <1>3 DEF ReadsBack, Flushes, AfterPut
  <2>2. UNCHANGED <<log, wire, handling, seen>>
    BY <1>3 DEF ReadsBack, Flushes, agentVars
  <2>3. \E to \in CallPc : CallAt(c, to)
    BY <1>3 DEF ReadsBack, Flushes, CallPc
  <2> QED BY <1>0, <2>1, <2>2, <2>3, CallAccepted, CallUnseen
<1>4. ASSUME NEW c \in Calls, Publishes(c) PROVE Promise!Tells(c)
  <2>1. PICK R \in SUBSET Agents :
           wire' = [a \in Agents |-> IF a \in R THEN wire[a] \union {c} ELSE wire[a]]
    BY <1>4 DEF Publishes, Notifies
  <2>2. AllPending' = [a \in Agents |-> AllPending[a] \union (IF a \in R THEN {c} ELSE {})]
    <3>1. \A a \in Agents : Pending(a)' = Pending(a) \union (IF a \in R THEN {c} ELSE {})
      BY <1>4, <2>1 DEF Publishes, Pending, agentVars
    <3> QED BY <3>1 DEF AllPending
  <2>3. Accepted' = Accepted
    BY <1>0, <1>4 DEF Publishes, CallAt, Accepted, DesiredTypeOK
  <2>4. Stored(c) /\ UNCHANGED <<log, seen>>
    BY <1>1, <1>4 DEF Publishes, AfterPut, agentVars
  <2> QED BY <2>2, <2>3, <2>4, WrittenIsStored DEF Promise!Tells, Accepted, AllPending
<1>5. ASSUME NEW c \in Calls, Stores(c) PROVE Promise!Writes(c)
  <2>1. ~Stored(c) /\ c \notin Accepted
    BY <1>1, <1>5 DEF Stores, WritesOnce, Accepted, AfterPut
  <2>2. log' = Append(log, c) /\ Accepted' = Accepted /\ AllPending' = AllPending
        /\ UNCHANGED seen
    BY <1>5 DEF Stores, Accepted, AllPending, Pending, agentVars
  <2> QED BY <2>1, <2>2, WrittenIsStored DEF Promise!Writes, Accepted, AllPending
<1>6. ASSUME NEW c \in Calls, LosesPut(c) PROVE UNCHANGED Promise!vars
  BY <1>6 DEF LosesPut, Promise!vars, Pending, agentVars
<1>7. ASSUME NEW a \in Agents, \/ Subscribes(a) \/ Enables(a) \/ Reconciles(a)
                               \/ AgentStep(a) \/ Crashes(a)
      PROVE  Promise!Moves(a)
  <2>1. UNCHANGED <<log, callVars>>
    BY <1>7 DEF Subscribes, Enables, Reconciles, AgentStep, Delivers, HandlerLoads,
           HandlerFails, Crashes
  <2>2. \/ seen' = [seen EXCEPT ![a] = Len(log)]
        \/ seen' = [seen EXCEPT ![a] = 0]
        \/ UNCHANGED seen
    BY <1>7 DEF Subscribes, Enables, Reconciles, AgentStep, Delivers, HandlerLoads,
           HandlerFails, Crashes, Loads
  <2>3. Pending(a)' \subseteq Pending(a)
    BY <1>0, <1>7 DEF Subscribes, Enables, Reconciles, AgentStep, Delivers, HandlerLoads,
           HandlerFails, Crashes, Pending, DesiredTypeOK
  <2>4. \A b \in Agents \ {a} : Pending(b)' = Pending(b)
    BY <1>0, <1>7 DEF Subscribes, Enables, Reconciles, AgentStep, Delivers, HandlerLoads,
           HandlerFails, Crashes, Pending, DesiredTypeOK
  <2> QED BY <1>0, <2>1, <2>2, <2>3, <2>4, AgentMoves
<1>8. CASE UNCHANGED vars
  BY <1>8 DEF vars, callVars, agentVars, Promise!vars, Pending
<1> QED BY <1>2, <1>3, <1>4, <1>5, <1>6, <1>7, <1>8 DEF Next, CallStep, Promise!Next

\* SubmitConfigure, StoreDesiredConfig, the configure callback and
\* StartupReconcile implement the slot that Slot describes.
THEOREM SlotImplemented == Spec => ImplementsSlot
<1>1. Init => Promise!Init
  BY DEF Init, Promise!Init, Pending
<1>2. Init => WritesOnce
  BY DEF Init, WritesOnce, Stored
<1> QED BY <1>1, <1>2, DInitially, DStep, WritesOnceStep, SlotStep, PTL
        DEF Spec, ImplementsSlot, Promise!Spec
=============================================================================
