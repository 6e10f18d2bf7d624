--------------------------------- MODULE Slot ---------------------------------
(***************************************************************************)
(* What the store, the notifications and StartupReconcile promise of one   *)
(* target's desired config, whatever fails and whoever crashes: one slot   *)
(* that every call writes once at most, before it is accepted and before   *)
(* any agent is told of it, and that agents read as it is at that moment.  *)
(***************************************************************************)
EXTENDS Naturals, Sequences

CONSTANTS Calls, Agents

VARIABLES
    log,        \* the configs the slot has held
    accepted,   \* calls that have reported success
    told,       \* told[a]: calls agent a has been told of and not yet answered
    seen        \* seen[a]: how much of the log the agent knows of

vars == <<log, accepted, told, seen>>

Written == {log[r] : r \in DOMAIN log}

Init == /\ log = << >>
        /\ accepted = {}
        /\ told = [a \in Agents |-> {}]
        /\ seen = [a \in Agents |-> 0]

Writes(c) == /\ c \notin Written \union accepted
             /\ log' = Append(log, c)
             /\ UNCHANGED <<accepted, told, seen>>

Accepts(c) == /\ c \in Written
              /\ accepted' = accepted \union {c}
              /\ UNCHANGED <<log, told, seen>>

\* Some agents are told.
Tells(c) == /\ c \in Written
            /\ \E some \in SUBSET Agents :
                  told' = [a \in Agents |-> told[a] \union (IF a \in some THEN {c} ELSE {})]
            /\ UNCHANGED <<log, accepted, seen>>

\* An agent answers or ignores what it was told.
Loads(a)   == seen' = [seen EXCEPT ![a] = Len(log)]
Restarts(a) == seen' = [seen EXCEPT ![a] = 0]

Moves(a) == /\ Loads(a) \/ Restarts(a) \/ UNCHANGED seen
            /\ \E rest \in SUBSET told[a] : told' = [told EXCEPT ![a] = rest]
            /\ UNCHANGED <<log, accepted>>

Next == \/ \E c \in Calls : Writes(c) \/ Accepts(c) \/ Tells(c)
        \/ \E a \in Agents : Moves(a)

Spec == Init /\ [][Next]_vars
===============================================================================
