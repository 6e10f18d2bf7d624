------------------------------ MODULE Registry ------------------------------
(***************************************************************************)
(* internal/registry: the subscription intents of a client.  Every method  *)
(* is one critical section of r.mu, except that Add draws its id from an   *)
(* atomic counter before it takes the lock: taken holds the ids drawn by   *)
(* calls that have not come to the lock yet.                               *)
(*                                                                         *)
(* A key stands for kind|subject|queue, trimmed (registrationKey).  Active *)
(* is written in the same places as ActiveSub and says whether it is nil,  *)
(* so an entry keeps the handle only; err says LastActivationErr is set.   *)
(***************************************************************************)
EXTENDS Integers, FiniteSets

CONSTANTS Keys,    \* registration keys
          Subs,    \* identities of *nats.Subscription values
          NoSub,   \* a nil *nats.Subscription
          MaxID    \* bound: how many ids are ever drawn

ASSUME NoSubAssumption == NoSub \notin Subs
ASSUME MaxIDAssumption == MaxID \in Nat

VARIABLES nextID,   \* r.nextID
          taken,    \* ids drawn by Add calls that wait for r.mu
          entries,  \* r.entries: a map from ids to entries
          byKey     \* r.byKey: a map from keys to ids

regVars == <<nextID, taken, entries, byKey>>

IDs   == 1..MaxID
Entry == [key : Keys, sub : Subs \union {NoSub}, err : BOOLEAN]

Registered == DOMAIN entries

RegInit == /\ nextID = 0
           /\ taken = {}
           /\ entries = [id \in {} |-> 0]
           /\ byKey = [key \in {} |-> 0]

-----------------------------------------------------------------------------
(* Add, in two steps.                                                      *)

\* Mutant: the id is read and the counter not advanced under the same lock.
PeekID == /\ nextID < MaxID
          /\ taken' = taken \union {nextID + 1}
          /\ UNCHANGED <<nextID, entries, byKey>>

TakeID == /\ nextID < MaxID
          /\ nextID' = nextID + 1
          /\ taken' = taken \union {nextID + 1}
          /\ UNCHANGED <<entries, byKey>>

KeyTaken(key) == key \in DOMAIN byKey

Add(id, key) ==
    /\ id \in taken
    /\ ~KeyTaken(key)
    /\ taken' = taken \ {id}
    /\ entries' = [i \in Registered \union {id} |->
                     IF i = id THEN [key |-> key, sub |-> NoSub, err |-> FALSE]
                     ELSE entries[i]]
    /\ byKey' = [k \in DOMAIN byKey \union {key} |->
                   IF k = key THEN id ELSE byKey[k]]
    /\ UNCHANGED nextID

\* The id is spent all the same.
AddConflict(id, key) ==
    /\ id \in taken
    /\ KeyTaken(key)
    /\ taken' = taken \ {id}
    /\ UNCHANGED <<nextID, entries, byKey>>

-----------------------------------------------------------------------------
(* The other methods.  An unknown id is ignored.                           *)

MarkActive(id, sub) ==
    /\ entries' = IF id \in Registered
                  THEN [entries EXCEPT ![id].sub = sub, ![id].err = FALSE]
                  ELSE entries
    /\ UNCHANGED <<nextID, taken, byKey>>

MarkInactive(id) ==
    /\ entries' = IF id \in Registered
                  THEN [entries EXCEPT ![id].sub = NoSub, ![id].err = TRUE]
                  ELSE entries
    /\ UNCHANGED <<nextID, taken, byKey>>

\* Mutant: an entry without a handle is returned too.
ActiveHandlesOrNil == {entries[id].sub : id \in Registered}

\* What ClearActiveHandles returns, and what it leaves.
ActiveHandles == {entries[id].sub : id \in Registered} \ {NoSub}

\* Mutant: the handles are returned and the entries keep them.
ListsActiveHandles == UNCHANGED regVars

ClearActiveHandles ==
    /\ entries' = [id \in Registered |-> [entries[id] EXCEPT !.sub = NoSub]]
    /\ UNCHANGED <<nextID, taken, byKey>>

Remove(id) ==
    /\ entries' = [i \in Registered \ {id} |-> entries[i]]
    /\ byKey' = IF id \in Registered
                THEN [k \in DOMAIN byKey \ {entries[id].key} |-> byKey[k]]
                ELSE byKey
    /\ UNCHANGED <<nextID, taken>>

\* Counts: registered and active entries.
Counts == <<Cardinality(Registered),
            Cardinality({id \in Registered : entries[id].sub # NoSub})>>

-----------------------------------------------------------------------------
(* The registry by itself: any call, any time, from any goroutine.         *)

RegNext == \/ TakeID
           \/ \E id \in IDs, key \in Keys : Add(id, key) \/ AddConflict(id, key)
           \/ \E id \in IDs, sub \in Subs : MarkActive(id, sub)
           \/ \E id \in IDs : MarkInactive(id) \/ Remove(id)
           \/ ClearActiveHandles

RegSpec == RegInit /\ [][RegNext]_regVars

\* Every variable holds a value of its kind.
RegTypeOK == /\ nextID \in 0..MaxID
             /\ taken \subseteq IDs
             /\ Registered \subseteq IDs
             /\ entries \in [Registered -> Entry]
             /\ DOMAIN byKey \subseteq Keys
             /\ byKey \in [DOMAIN byKey -> IDs]

\* The key index and the entries agree at every moment: each entry is the one
\* its key leads to, and each key leads to an entry of that key.  So one key
\* never has two registrations, and removing one never hides another.
IndexExact ==
    /\ \A id \in Registered : /\ entries[id].key \in DOMAIN byKey
                              /\ byKey[entries[id].key] = id
    /\ \A key \in DOMAIN byKey : /\ byKey[key] \in Registered
                                 /\ entries[byKey[key]].key = key

\* Ids are unique for the life of the client: one that is drawn is not yet in
\* use, and none above the counter is, although drawing and adding are two
\* steps that calls may take in different orders.
IdsFresh == /\ \A id \in taken \union Registered : id <= nextID
            /\ taken \intersect Registered = {}
=============================================================================
