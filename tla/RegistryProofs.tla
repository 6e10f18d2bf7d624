--------------------------- MODULE RegistryProofs ---------------------------
(***************************************************************************)
(* The registry's index is exact and its ids are unique, for any keys and  *)
(* subscriptions and any number of ids.  Subscriptions performs only these *)
(* steps on the registry (SubscriptionsProofs!UsesRegistry).               *)
(***************************************************************************)
EXTENDS Registry, TLAPS

RegInv == RegTypeOK /\ IndexExact /\ IdsFresh

\* The empty registry is consistent.
LEMMA RegInitOK == RegInit => RegInv
BY MaxIDAssumption
   DEF RegInit, RegInv, RegTypeOK, IndexExact, IdsFresh, Registered, IDs

\* The types are kept by every call.
LEMMA RegTypeStep ==
    ASSUME RegInv, [RegNext]_regVars PROVE RegTypeOK'
<1> USE MaxIDAssumption, NoSubAssumption
    DEF RegInv, RegTypeOK, Registered, IDs, Entry
<1>1. ASSUME TakeID PROVE RegTypeOK'
  BY <1>1 DEF TakeID
<1>2. ASSUME NEW id \in IDs, NEW key \in Keys, Add(id, key) PROVE RegTypeOK'
  BY <1>2 DEF Add
<1>3. ASSUME NEW id \in IDs, NEW key \in Keys, AddConflict(id, key)
      PROVE  RegTypeOK'
  BY <1>3 DEF AddConflict
<1>4. ASSUME NEW id \in IDs, NEW sub \in Subs, MarkActive(id, sub)
      PROVE  RegTypeOK'
  BY <1>4 DEF MarkActive
<1>5. ASSUME NEW id \in IDs, MarkInactive(id) PROVE RegTypeOK'
  BY <1>5 DEF MarkInactive
<1>6. ASSUME NEW id \in IDs, Remove(id) PROVE RegTypeOK'
  BY <1>6 DEF Remove
<1>7. ASSUME ClearActiveHandles PROVE RegTypeOK'
  BY <1>7 DEF ClearActiveHandles
<1>8. CASE UNCHANGED regVars
  BY <1>8 DEF regVars
<1> QED BY <1>1, <1>2, <1>3, <1>4, <1>5, <1>6, <1>7, <1>8 DEF RegNext

\* No call, in whatever order the steps come, breaks the index.
LEMMA IndexStep ==
    ASSUME RegInv, [RegNext]_regVars PROVE IndexExact'
<1> USE DEF RegInv, RegTypeOK, IndexExact, Registered, Entry
<1>1. ASSUME TakeID PROVE IndexExact'
  BY <1>1 DEF TakeID
<1>2. ASSUME NEW id \in IDs, NEW key \in Keys, Add(id, key) PROVE IndexExact'
  <2>1. id \notin Registered /\ key \notin DOMAIN byKey
    BY <1>2 DEF Add, IdsFresh, KeyTaken
  <2>2. \A i \in Registered : /\ i # id
                              /\ entries'[i] = entries[i]
                              /\ entries[i].key # key
    BY <1>2, <2>1 DEF Add
  <2>3. /\ Registered' = Registered \union {id}
        /\ entries'[id].key = key
        /\ DOMAIN byKey' = DOMAIN byKey \union {key}
        /\ byKey'[key] = id
        /\ \A k \in DOMAIN byKey : byKey'[k] = byKey[k]
    BY <1>2, <2>1 DEF Add
  <2> QED BY <2>1, <2>2, <2>3
<1>3. ASSUME NEW id \in IDs, NEW key \in Keys, AddConflict(id, key)
      PROVE  IndexExact'
  BY <1>3 DEF AddConflict
<1>4. ASSUME NEW id \in IDs, NEW sub \in Subs, MarkActive(id, sub)
      PROVE  IndexExact'
  BY <1>4 DEF MarkActive
<1>5. ASSUME NEW id \in IDs, MarkInactive(id) PROVE IndexExact'
  BY <1>5 DEF MarkInactive
<1>6. ASSUME NEW id \in IDs, Remove(id) PROVE IndexExact'
  <2>1. CASE id \notin Registered
    BY <1>6, <2>1 DEF Remove
  <2>2. CASE id \in Registered
    <3>1. /\ Registered' = Registered \ {id}
          /\ \A i \in Registered' : entries'[i] = entries[i]
          /\ DOMAIN byKey' = DOMAIN byKey \ {entries[id].key}
          /\ \A k \in DOMAIN byKey' : byKey'[k] = byKey[k]
      BY <1>6, <2>2 DEF Remove
    <3> QED BY <2>2, <3>1
  <2> QED BY <2>1, <2>2
<1>7. ASSUME ClearActiveHandles PROVE IndexExact'
  BY <1>7 DEF ClearActiveHandles
<1>8. CASE UNCHANGED regVars
  BY <1>8 DEF regVars
<1> QED BY <1>1, <1>2, <1>3, <1>4, <1>5, <1>6, <1>7, <1>8 DEF RegNext

\* No call reuses an id.
LEMMA IdsStep ==
    ASSUME RegInv, [RegNext]_regVars PROVE IdsFresh'
<1> USE DEF RegInv, RegTypeOK, IdsFresh, Registered, IDs
<1>1. ASSUME TakeID PROVE IdsFresh'
  BY <1>1, MaxIDAssumption DEF TakeID
<1>2. ASSUME NEW id \in IDs, NEW key \in Keys,
             Add(id, key) \/ AddConflict(id, key)
      PROVE  IdsFresh'
  BY <1>2 DEF Add, AddConflict
<1>3. ASSUME NEW id \in IDs, NEW sub \in Subs, MarkActive(id, sub)
      PROVE  IdsFresh'
  BY <1>3 DEF MarkActive
<1>4. ASSUME NEW id \in IDs, MarkInactive(id) \/ Remove(id) PROVE IdsFresh'
  BY <1>4 DEF MarkInactive, Remove
<1>5. ASSUME ClearActiveHandles PROVE IdsFresh'
  BY <1>5 DEF ClearActiveHandles
<1>6. CASE UNCHANGED regVars
  BY <1>6 DEF regVars
<1> QED BY <1>1, <1>2, <1>3, <1>4, <1>5, <1>6 DEF RegNext

\* The key index is exact and ids are unique in every reachable registry.
THEOREM RegistryConsistent == RegSpec => [](RegTypeOK /\ IndexExact /\ IdsFresh)
<1>1. RegInv /\ [RegNext]_regVars => RegInv'
  BY RegTypeStep, IndexStep, IdsStep DEF RegInv
<1> QED BY RegInitOK, <1>1, PTL DEF RegSpec, RegInv
=============================================================================
