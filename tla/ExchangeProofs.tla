---------------------------- MODULE ExchangeProofs ----------------------------
(* Theorems of Contract, Subjects and Exchange, for all configurations and *)
(* names.                                                                  *)
EXTENDS Exchange, SequenceTheorems, FiniteSetTheorems, TLAPS

Types == Kinds \union {"record"}

\* Writing and reading again changes no message the rules accept: the only value
\* that would change, a payload without bytes, is omitted or refused.
LEMMA RoundTrip ==
    ASSUME NEW type \in Types, NEW m \in Messages(type), Sends(type, m)
    PROVE  Unmarshal(type, Marshal(type, m)) = m
<1> DEFINE data == Marshal(type, m)
<1>1. DOMAIN m = Fields[type] /\ m = [f \in Fields[type] |-> m[f]]
  BY DEF Messages
<1>2. Payload \in Fields[type] /\ m[Payload] = "empty" => Payload \in OmitEmpty[type]
  BY DEF Types, Kinds, Payload, Fields, Common, OmitEmpty, Sends, Encode, Satisfies, Runtime,
         Rules, validateConfigureNotification, validateActionCommand, validateResultEnvelope,
         validateStatusEnvelope, validateDesiredConfigRecord, Present, Times
<1>3. \A f \in Fields[type] : Unmarshal(type, data)[f] = m[f]
  BY <1>1, <1>2 DEF Unmarshal, Marshal
<1>4. Unmarshal(type, data) = [f \in Fields[type] |-> m[f]]
  BY <1>3 DEF Unmarshal
<1> QED BY <1>1, <1>4

\* The rules that run imply those of internal/contract, and the common ones.
LEMMA CopiesAgree ==
    ASSUME NEW type \in Kinds, NEW m, Satisfies(m, Runtime[type])
    PROVE  Satisfies(m, Codec(type)) /\ Satisfies(m, ValidateBaseEnvelope)
<1> USE DEF Satisfies, Runtime, Codec, RequestCodec, OutcomeCodec, Rules, Present,
            WellFormed, ValidateBaseEnvelope, Common, Times
<1>1. CASE type = "configure"
  BY <1>1 DEF validateConfigureNotification, ValidateConfigureNotification
<1>2. CASE type = "action"
  BY <1>2 DEF validateActionCommand, ValidateActionCommand
<1>3. CASE type = "result"
  BY <1>3 DEF validateResultEnvelope, ValidateResultEnvelope
<1>4. CASE type = "status"
  BY <1>4 DEF validateStatusEnvelope, ValidateStatusEnvelope
<1> QED BY <1>1, <1>2, <1>3, <1>4 DEF Kinds

-----------------------------------------------------------------------------
(* Pieces of text.                                                         *)

\* What names and patterns are made of.  (A string literal is a member of STRING,
\* which no prover here knows.)
Pieces == STRING \union {"cmd", "configure", "action", "result", "status", "health",
                         "desired", ".", "%s"}

\* All text there is, that of the defaults included, is sequences of pieces.
LEMMA TextsArePieces ==
    /\ Names \subseteq Seq(Pieces)
    /\ \A c \in Configs : /\ c.overrides \in [Routes -> Seq(Pieces)]
                          /\ c.options.key_pattern \in Seq(Pieces)
    /\ \A kind \in Routes : DefaultPatterns[kind] \in Seq(Pieces)
    /\ <<"desired", ".", "%s">> \in Seq(Pieces)
    /\ <<>> \in Seq(Pieces)
<1>1. Seq(STRING) \subseteq Seq(Pieces)
  BY SeqMonotonic DEF Pieces
<1>2. Names \subseteq Seq(Pieces)
  BY <1>1, NamesAssumption
<1>3. ASSUME NEW c \in Configs
      PROVE  c.overrides \in [Routes -> Seq(Pieces)] /\ c.options.key_pattern \in Seq(Pieces)
  BY <1>1, ConfigsAssumption
<1>4. /\ <<"cmd", ".", "configure", ".", "%s">> \in Seq(Pieces)
      /\ <<"cmd", ".", "action", ".", "%s", ".", "%s">> \in Seq(Pieces)
      /\ <<"result", ".", "%s">> \in Seq(Pieces)
      /\ <<"status", ".", "%s">> \in Seq(Pieces)
      /\ <<"health", ".", "%s">> \in Seq(Pieces)
      /\ <<"desired", ".", "%s">> \in Seq(Pieces)
      /\ <<>> \in Seq(Pieces)
  BY DEF Pieces
<1>5. /\ DefaultPatterns["configure"] = <<"cmd", ".", "configure", ".", "%s">>
      /\ DefaultPatterns["action"] = <<"cmd", ".", "action", ".", "%s", ".", "%s">>
      /\ DefaultPatterns["result"] = <<"result", ".", "%s">>
      /\ DefaultPatterns["status"] = <<"status", ".", "%s">>
      /\ DefaultPatterns["health"] = <<"health", ".", "%s">>
  BY DEF DefaultPatterns
<1>6. \A kind \in Routes : DefaultPatterns[kind] \in Seq(Pieces)
  BY <1>4, <1>5 DEF Routes
<1> QED BY <1>2, <1>3, <1>4, <1>6

-----------------------------------------------------------------------------
(* Sets of places, and what is trimmed.                                    *)

\* A nonempty set of naturals has a least element, ...
LEMMA LeastExists ==
    ASSUME NEW S \in SUBSET Nat, S # {}
    PROVE  Min(S) \in S /\ \A y \in S : Min(S) <= y
<1> DEFINE T == {1 .. k : k \in S}
           R == StrictSubsetOrdering(Nat)
<1>1. IsWellFoundedOn(R, FiniteSubsetsOf(Nat))
  BY FS_StrictSubsetOrderingWellFounded
<1>2. T \subseteq FiniteSubsetsOf(Nat) /\ T # {}
  <2>1. \A k \in S : IsFiniteSet(1 .. k) /\ 1 .. k \in SUBSET Nat
    BY FS_Interval
  <2> QED BY <2>1 DEF FiniteSubsetsOf
<1>3. PICK low \in T : \A other \in T : <<other, low>> \notin R
  <2> HIDE DEF R, T
  <2> QED BY <1>1, <1>2, WFMin
<1>4. PICK x \in S : low = 1 .. x
  BY <1>3
<1>5. ASSUME NEW y \in S, y < x
      PROVE  FALSE
  <2>1. 1 .. y \subseteq 1 .. x /\ 1 .. y # 1 .. x
    BY <1>5
  <2>2. 1 .. y \in T /\ 1 .. y \in SUBSET Nat /\ 1 .. x \in SUBSET Nat
    OBVIOUS
  <2>3. <<1 .. y, low>> \in R
    BY <1>4, <2>1, <2>2 DEF StrictSubsetOrdering
  <2> QED BY <1>3, <2>2, <2>3
<1>6. \A y \in S : x <= y
  BY <1>5
<1> QED BY <1>6 DEF Min

\* ... and one with a bound has a greatest.
LEMMA GreatestExists ==
    ASSUME NEW n \in Nat, NEW S \in SUBSET (0 .. n), S # {}
    PROVE  Max(S) \in S /\ \A y \in S : y <= Max(S)
<1> DEFINE T == {k \in 0 .. n : n - k \in S}
<1>1. \A y \in S : n - y \in T
  <2>1. \A y \in S : n - y \in 0 .. n /\ n - (n - y) = y
    OBVIOUS
  <2> QED BY <2>1
<1>2. T # {} /\ T \in SUBSET Nat
  <2>1. PICK y \in S : TRUE
    OBVIOUS
  <2>2. n - y \in T
    BY <1>1, <2>1
  <2>3. T \in SUBSET Nat
    OBVIOUS
  <2> HIDE DEF T
  <2> QED BY <2>2, <2>3
<1>3. PICK low \in T : \A k \in T : low <= k
  <2> HIDE DEF T
  <2> QED BY <1>2, LeastExists
<1>4. n - low \in S /\ \A y \in S : y <= n - low
  <2>1. \A y \in S : low <= n - y /\ y \in 0 .. n
    BY <1>1, <1>3
  <2> QED BY <2>1
<1> QED BY <1>4 DEF Max

\* A trimmed string is a string.
LEMMA TrimmedIsText ==
    ASSUME NEW s \in Seq(Pieces)
    PROVE  TrimSpace(s) \in Seq(Pieces)
<1> DEFINE solid == {i \in DOMAIN s : s[i] # " "}
<1>1. TrimSpace(s) = IF solid = {} THEN <<>> ELSE SubSeq(s, Min(solid), Max(solid))
  BY DEF TrimSpace
<1>2. /\ DOMAIN s = 1 .. Len(s) /\ Len(s) \in Nat
      /\ \A i \in 1 .. Len(s) : s[i] \in Pieces
  BY LenProperties, ElementOfSeq
<1>3. solid \in SUBSET (1 .. Len(s))
  BY <1>2
<1> HIDE DEF solid
<1>4. CASE solid = {}
  BY <1>1, <1>4, EmptySeq
<1>5. CASE solid # {}
  <2>1. solid \in SUBSET Nat /\ solid \in SUBSET (0 .. Len(s))
    BY <1>2, <1>3
  <2>2. Min(solid) \in 1 .. Len(s) /\ Max(solid) \in 1 .. Len(s)
    BY <1>2, <1>3, <1>5, <2>1, LeastExists, GreatestExists
  <2>3. \A i \in Min(solid) .. Max(solid) : s[i] \in Pieces
    BY <1>2, <2>2
  <2>4. SubSeq(s, Min(solid), Max(solid)) \in Seq(Pieces)
    BY <2>2, <2>3, SubSeqProperties
  <2> QED BY <1>1, <1>5, <2>4
<1> QED BY <1>4, <1>5

\* A pattern with one placeholder has it at one place, which is its first.
LEMMA OnePlace ==
    ASSUME NEW pattern \in Seq(Pieces), Count("%s", pattern) = 1
    PROVE  \E p \in 1 .. Len(pattern) : /\ pattern[p] = "%s"
                                        /\ Min(Places("%s", pattern)) = p
<1> DEFINE places == Places("%s", pattern)
<1>1. places \subseteq 1 .. Len(pattern)
  BY DEF Places
<1>2. IsFiniteSet(places)
  BY <1>1, FS_Interval, FS_Subset
<1>3. PICK p : places = {p}
  BY <1>2, FS_Singleton DEF Count
<1>4. p \in 1 .. Len(pattern) /\ pattern[p] = "%s"
  BY <1>3 DEF Places
<1>5. Min({p}) = p
  BY <1>4 DEF Min
<1> QED BY <1>3, <1>4, <1>5

\* One with two has them at two, its first and its last.
LEMMA TwoPlaces ==
    ASSUME NEW pattern \in Seq(Pieces), Count("%s", pattern) = 2
    PROVE  \E p, q \in 1 .. Len(pattern) :
              /\ p < q /\ pattern[p] = "%s" /\ pattern[q] = "%s"
              /\ Min(Places("%s", pattern)) = p
              /\ Max(Places("%s", pattern)) = q
<1> DEFINE places == Places("%s", pattern)
<1>1. places \subseteq 1 .. Len(pattern)
  BY DEF Places
<1>2. Cardinality(places) = 2
  BY DEF Count
<1> HIDE DEF places
<1>3. IsFiniteSet(places)
  <2>1. IsFiniteSet(1 .. Len(pattern))
    BY FS_Interval
  <2> QED BY <1>1, <2>1, FS_Subset
<1>4. places # {}
  BY <1>2, <1>3, FS_EmptySet
<1>5. PICK x \in places : TRUE
  BY <1>4
<1>6. PICK y : places \ {x} = {y}
  <2>1. /\ IsFiniteSet(places \ {x})
        /\ Cardinality(places \ {x}) = Cardinality(places) - 1
    BY <1>3, <1>5, FS_RemoveElement
  <2>2. Cardinality(places \ {x}) = 1
    BY <1>2, <2>1
  <2> QED BY <2>1, <2>2, FS_Singleton
<1>7. places = {x, y} /\ x # y
  BY <1>5, <1>6
<1>8. \A i \in places : i \in 1 .. Len(pattern) /\ pattern[i] = "%s"
  BY DEF places, Places
<1>9. x \in 1 .. Len(pattern) /\ y \in 1 .. Len(pattern)
  BY <1>7, <1>8
<1>10. CASE x < y
  <2>1. Min({x, y}) = x /\ Max({x, y}) = y
    BY <1>9, <1>10 DEF Min, Max
  <2> QED BY <1>7, <1>8, <1>9, <1>10, <2>1 DEF places
<1>11. CASE y < x
  <2>1. Min({x, y}) = y /\ Max({x, y}) = x
    BY <1>9, <1>11 DEF Min, Max
  <2>2. /\ pattern[x] = "%s" /\ pattern[y] = "%s"
        /\ Min(places) = y /\ Max(places) = x
    BY <1>7, <1>8, <2>1
  <2> QED BY <1>9, <1>11, <2>2 DEF places
<1> QED BY <1>7, <1>9, <1>10, <1>11

-----------------------------------------------------------------------------
(* What Sprintf makes of a pattern.                                        *)

\* A name begins at i.
Holds(whole, i, name) == \A k \in 1 .. Len(name) : whole[i - 1 + k] = name[k]

\* A pattern with a name in the place of its i-th piece.
IsFilled(whole, s, i, name) ==
    /\ whole \in Seq(Pieces)
    /\ Len(whole) = Len(s) - 1 + Len(name)
    /\ \A k \in 1 .. i - 1 : whole[k] = s[k]
    /\ Holds(whole, i, name)
    /\ \A k \in i + 1 .. Len(s) : whole[Len(name) + k - 1] = s[k]

\* A pattern with a name in the place of its p-th piece and another in that of its
\* q-th.
AreFilled(whole, s, p, q, target, action) ==
    /\ Len(whole) = Len(s) - 2 + Len(target) + Len(action)
    /\ Holds(whole, p, target)
    /\ whole[p + Len(target)] = s[p + 1]
    /\ Holds(whole, Len(target) + q - 1, action)

\* Sprintf with one name leaves the rest of the pattern around it.
LEMMA Filled ==
    ASSUME NEW s \in Seq(Pieces), NEW i \in 1 .. Len(s), NEW name \in Seq(Pieces)
    PROVE  IsFilled(Fill(s, i, name), s, i, name)
<1> DEFINE before == SubSeq(s, 1, i - 1)
           after  == SubSeq(s, i + 1, Len(s))
<1>1. Len(s) \in Nat /\ Len(name) \in Nat /\ \A k \in 1 .. Len(s) : s[k] \in Pieces
  BY LenProperties, ElementOfSeq
<1>2. /\ before \in Seq(Pieces) /\ Len(before) = i - 1
      /\ \A k \in 1 .. i - 1 : before[k] = s[k]
  <2>1. 1 \in Int /\ i - 1 \in Int /\ \A k \in 1 .. i - 1 : s[k] \in Pieces
    BY <1>1
  <2>2. /\ before \in Seq(Pieces)
        /\ Len(before) = IF 1 <= i - 1 THEN (i - 1) - 1 + 1 ELSE 0
        /\ \A k \in 1 .. (i - 1) - 1 + 1 : before[k] = s[1 + k - 1]
    BY <2>1, SubSeqProperties
  <2> HIDE DEF before
  <2> QED BY <1>1, <2>2
<1>3. /\ after \in Seq(Pieces) /\ Len(after) = Len(s) - i
      /\ \A k \in 1 .. Len(s) - i : after[k] = s[i + k]
  <2>1. i + 1 \in Int /\ Len(s) \in Int /\ \A k \in i + 1 .. Len(s) : s[k] \in Pieces
    BY <1>1
  <2>2. /\ after \in Seq(Pieces)
        /\ Len(after) = IF i + 1 <= Len(s) THEN Len(s) - (i + 1) + 1 ELSE 0
        /\ \A k \in 1 .. Len(s) - (i + 1) + 1 : after[k] = s[(i + 1) + k - 1]
    BY <2>1, SubSeqProperties
  <2> HIDE DEF after
  <2> QED BY <1>1, <2>2
<1>4. Fill(s, i, name) = (before \o name) \o after
  BY DEF Fill
<1> HIDE DEF before, after
<1> DEFINE front == before \o name
<1>5. /\ front \in Seq(Pieces) /\ Len(front) = i - 1 + Len(name)
      /\ \A k \in 1 .. Len(front) :
            front[k] = IF k <= i - 1 THEN before[k] ELSE name[k - (i - 1)]
  <2>1. /\ front \in Seq(Pieces)
        /\ Len(front) = Len(before) + Len(name)
        /\ \A k \in 1 .. Len(before) + Len(name) :
              front[k] = IF k <= Len(before) THEN before[k] ELSE name[k - Len(before)]
    BY <1>2, ConcatProperties
  <2> QED BY <1>1, <1>2, <2>1
<1> HIDE DEF front
<1>6. /\ front \o after \in Seq(Pieces)
      /\ Len(front \o after) = Len(front) + Len(after)
      /\ \A k \in 1 .. Len(front) + Len(after) :
            (front \o after)[k] = IF k <= Len(front) THEN front[k] ELSE after[k - Len(front)]
  BY <1>3, <1>5, ConcatProperties
<1> DEFINE all == front \o after
<1>7. Fill(s, i, name) = all
  BY <1>4 DEF front
<1>8. /\ all \in Seq(Pieces) /\ Len(all) = Len(s) - 1 + Len(name)
      /\ \A k \in 1 .. Len(all) :
            all[k] = IF k <= Len(front) THEN front[k] ELSE after[k - Len(front)]
  BY <1>1, <1>3, <1>5, <1>6
<1> HIDE DEF all
<1>9. ASSUME NEW k \in 1 .. i - 1
      PROVE  all[k] = s[k]
  <2>1. k \in 1 .. Len(all) /\ k <= i - 1 /\ k \in 1 .. Len(front) /\ k <= Len(front)
    BY <1>1, <1>5, <1>8
  <2>2. all[k] = front[k] /\ front[k] = before[k]
    BY <1>5, <1>8, <2>1
  <2> QED BY <1>2, <2>2
<1>10. ASSUME NEW k \in 1 .. Len(name)
       PROVE  all[i - 1 + k] = name[k]
  <2>1. i - 1 + k \in 1 .. Len(all) /\ i - 1 + k <= Len(front) /\ (i - 1 + k) - (i - 1) = k
    BY <1>1, <1>5, <1>8
  <2>2. all[i - 1 + k] = front[i - 1 + k]
    BY <1>8, <2>1
  <2> QED BY <1>1, <1>5, <2>1, <2>2
<1>11. ASSUME NEW k \in i + 1 .. Len(s)
       PROVE  all[Len(name) + k - 1] = s[k]
  <2>1. /\ Len(name) + k - 1 \in 1 .. Len(all) /\ ~(Len(name) + k - 1 <= Len(front))
        /\ (Len(name) + k - 1) - Len(front) = k - i
        /\ k - i \in 1 .. Len(s) - i /\ i + (k - i) = k
    BY <1>1, <1>5, <1>8
  <2>2. all[Len(name) + k - 1] = after[k - i]
    BY <1>8, <2>1
  <2> QED BY <1>3, <2>1, <2>2
<1> QED BY <1>7, <1>8, <1>9, <1>10, <1>11 DEF IsFilled, Holds

\* With one placeholder two names give two strings.
LEMMA OneNameApart ==
    ASSUME NEW s \in Seq(Pieces), NEW i \in 1 .. Len(s),
           NEW name \in Seq(Pieces), NEW other \in Seq(Pieces),
           Fill(s, i, name) = Fill(s, i, other)
    PROVE  name = other
<1>1. PICK whole : IsFilled(whole, s, i, name) /\ IsFilled(whole, s, i, other)
  BY Filled
<1>3. Len(name) = Len(other)
  <2>1. Len(s) \in Nat /\ Len(name) \in Nat /\ Len(other) \in Nat
    BY LenProperties
  <2> QED BY <1>1, <2>1 DEF IsFilled
<1>4. \A k \in 1 .. Len(name) : name[k] = other[k]
  BY <1>1, <1>3 DEF IsFilled, Holds
<1> QED BY <1>3, <1>4, SeqEqual

\* Sprintf with two names, their placeholders apart.
LEMMA BothFilled ==
    ASSUME NEW s \in Seq(Pieces), NEW p \in 1 .. Len(s), NEW q \in 1 .. Len(s), p + 1 < q,
           NEW target \in Seq(Pieces), NEW action \in Seq(Pieces)
    PROVE  AreFilled(Fill(Fill(s, q, action), p, target), s, p, q, target, action)
<1>1. PICK half : half = Fill(s, q, action) /\ IsFilled(half, s, q, action)
  BY Filled
<1>2. Len(s) \in Nat /\ Len(target) \in Nat /\ Len(action) \in Nat
  BY LenProperties
<1>3. half \in Seq(Pieces) /\ p \in 1 .. Len(half)
  BY <1>1, <1>2 DEF IsFilled
<1>4. PICK whole : whole = Fill(half, p, target) /\ IsFilled(whole, half, p, target)
  BY <1>3, Filled
<1>5. Len(whole) = Len(s) - 2 + Len(target) + Len(action)
  BY <1>1, <1>2, <1>4 DEF IsFilled
<1>6. whole[p + Len(target)] = s[p + 1]
  <2>1. /\ p + 1 \in p + 1 .. Len(half) /\ Len(target) + (p + 1) - 1 = p + Len(target)
        /\ p + 1 \in 1 .. q - 1
    BY <1>1, <1>2 DEF IsFilled
  <2>2. whole[Len(target) + (p + 1) - 1] = half[p + 1] /\ half[p + 1] = s[p + 1]
    BY <1>1, <1>4, <2>1 DEF IsFilled
  <2> QED BY <2>1, <2>2
<1>7. ASSUME NEW k \in 1 .. Len(action)
      PROVE  whole[(Len(target) + q - 1) - 1 + k] = action[k]
  <2>1. /\ q - 1 + k \in p + 1 .. Len(half)
        /\ Len(target) + (q - 1 + k) - 1 = (Len(target) + q - 1) - 1 + k
    BY <1>1, <1>2 DEF IsFilled
  <2>2. whole[Len(target) + (q - 1 + k) - 1] = half[q - 1 + k]
    BY <1>4, <2>1 DEF IsFilled
  <2>3. half[q - 1 + k] = action[k]
    BY <1>1 DEF IsFilled, Holds
  <2> QED BY <2>1, <2>2, <2>3
<1>8. Holds(whole, p, target) /\ Holds(whole, Len(target) + q - 1, action)
  BY <1>4, <1>7 DEF IsFilled, Holds
<1>9. AreFilled(whole, s, p, q, target, action)
  BY <1>5, <1>6, <1>8 DEF AreFilled
<1> QED BY <1>1, <1>4, <1>9

\* A name ValidateTarget or ValidateAction accepts has no separator in it.
LEMMA OneToken == ASSUME NEW name \in Seq(Pieces), ValidName(name)
                  PROVE  \A k \in 1 .. Len(name) : name[k] # "." /\ name[k] # " "
<1>1. \A k \in 1 .. Len(name) : name[k] \in Range(name)
  BY LenProperties DEF Range
<1> QED BY <1>1 DEF ValidName

\* A name ends where the separator after it stands.
LEMMA NotLonger ==
    ASSUME NEW whole, NEW p \in Nat, NEW name \in Seq(Pieces), NEW other \in Seq(Pieces),
           ValidName(other), whole[p + Len(name)] = ".", Holds(whole, p, other)
    PROVE  Len(other) <= Len(name)
<1>1. Len(name) \in Nat /\ Len(other) \in Nat
  BY LenProperties
<1>2. CASE Len(name) < Len(other)
  <2>1. Len(name) + 1 \in 1 .. Len(other) /\ p - 1 + (Len(name) + 1) = p + Len(name)
    BY <1>1, <1>2
  <2>2. whole[p - 1 + (Len(name) + 1)] = other[Len(name) + 1]
    BY <2>1 DEF Holds
  <2> QED BY <2>1, <2>2, OneToken
<1> QED BY <1>1, <1>2

\* With two placeholders and a separator between them, two pairs of names give
\* two strings.
LEMMA TwoNamesApart ==
    ASSUME NEW s \in Seq(Pieces), NEW p \in 1 .. Len(s), NEW q \in 1 .. Len(s), p + 1 < q,
           s[p + 1] = ".",
           NEW target \in Seq(Pieces), NEW action \in Seq(Pieces),
           NEW target2 \in Seq(Pieces), NEW action2 \in Seq(Pieces),
           ValidName(target), ValidName(target2), NEW whole,
           AreFilled(whole, s, p, q, target, action),
           AreFilled(whole, s, p, q, target2, action2)
    PROVE  target = target2 /\ action = action2
<1>1. /\ Len(s) \in Nat /\ Len(target) \in Nat /\ Len(action) \in Nat
      /\ Len(target2) \in Nat /\ Len(action2) \in Nat /\ p \in Nat
  BY LenProperties
<1>2. whole[p + Len(target)] = "." /\ whole[p + Len(target2)] = "."
  BY DEF AreFilled
<1>3. Holds(whole, p, target) /\ Holds(whole, p, target2)
  BY DEF AreFilled
<1>4. Len(target) <= Len(target2) /\ Len(target2) <= Len(target)
  BY <1>1, <1>2, <1>3, NotLonger
<1>5. Len(target) = Len(target2) /\ Len(action) = Len(action2)
  BY <1>1, <1>4 DEF AreFilled
<1>6. target = target2
  <2>1. \A k \in 1 .. Len(target) : target[k] = target2[k]
    BY <1>3, <1>5 DEF Holds
  <2> QED BY <1>5, <2>1, SeqEqual
<1>7. action = action2
  <2>1. \A k \in 1 .. Len(action) : action[k] = action2[k]
    BY <1>5 DEF AreFilled, Holds
  <2> QED BY <1>5, <2>1, SeqEqual
<1> QED BY <1>6, <1>7


\* Sprintf with one name, the pattern having one placeholder.
LEMMA SprintfOne ==
    ASSUME NEW pattern \in Seq(Pieces), Count("%s", pattern) = 1
    PROVE  \E p \in 1 .. Len(pattern) :
              /\ pattern[p] = "%s"
              /\ \A name : Sprintf(pattern, <<name>>) = Fill(pattern, p, name)
<1>1. PICK p \in 1 .. Len(pattern) : pattern[p] = "%s" /\ Min(Places("%s", pattern)) = p
  BY OnePlace
<1>2. \A name : Len(<<name>>) = 1 /\ <<name>>[1] = name
  OBVIOUS
<1>3. \A name : Sprintf(pattern, <<name>>) = Fill(pattern, p, name)
  BY <1>1, <1>2 DEF Sprintf
<1> QED BY <1>1, <1>3

\* Sprintf with two, the pattern having two.
LEMMA SprintfTwo ==
    ASSUME NEW pattern \in Seq(Pieces), Count("%s", pattern) = 2
    PROVE  \E p, q \in 1 .. Len(pattern) :
              /\ p < q /\ pattern[p] = "%s" /\ pattern[q] = "%s"
              /\ \A target, action :
                    Sprintf(pattern, <<target, action>>)
                        = Fill(Fill(pattern, q, action), p, target)
<1>1. PICK p \in 1 .. Len(pattern), q \in 1 .. Len(pattern) :
        /\ p < q /\ pattern[p] = "%s" /\ pattern[q] = "%s"
        /\ Min(Places("%s", pattern)) = p
        /\ Max(Places("%s", pattern)) = q
  BY TwoPlaces
<1>2. \A target, action : /\ Len(<<target, action>>) = 2
                          /\ <<target, action>>[1] = target
                          /\ <<target, action>>[2] = action
  OBVIOUS
<1>3. \A target, action : Sprintf(pattern, <<target, action>>)
                              = Fill(Fill(pattern, q, action), p, target)
  BY <1>1, <1>2 DEF Sprintf
<1> QED BY <1>1, <1>3

\* What precedes the placeholder stays where it is.
LEMMA FirstPieceStays ==
    ASSUME NEW pattern \in Seq(Pieces), NEW p \in 1 .. Len(pattern), p > 1,
           NEW name \in Seq(Pieces)
    PROVE  /\ Fill(pattern, p, name) \in Seq(Pieces)
           /\ Fill(pattern, p, name)[1] = pattern[1]
BY Filled DEF IsFilled

\* The first piece of a default pattern is that of every subject it gives.
LEMMA SubjectBegins ==
    ASSUME NEW patterns, NEW kind, patterns[kind] \in Seq(Pieces),
           ValidPattern(patterns[kind], Placeholders(kind)),
           patterns[kind][1] # "%s",
           NEW target \in Seq(Pieces), NEW action \in Seq(Pieces)
    PROVE  Subject(patterns, kind, target, action)[1] = patterns[kind][1]
<1> DEFINE pattern == patterns[kind]
<1> HIDE DEF pattern
<1>1. pattern \in Seq(Pieces) /\ pattern[1] # "%s" /\ Len(pattern) \in Nat
  BY LenProperties DEF pattern
<1>2. CASE kind = "action"
  <2>1. Count("%s", pattern) = 2
    BY <1>2 DEF ValidPattern, Placeholders, pattern
  <2>2. PICK p \in 1 .. Len(pattern), q \in 1 .. Len(pattern) :
          /\ p < q /\ pattern[p] = "%s" /\ pattern[q] = "%s"
          /\ Sprintf(pattern, <<target, action>>) = Fill(Fill(pattern, q, action), p, target)
    BY <1>1, <2>1, SprintfTwo
  <2>3. p > 1 /\ q > 1
    BY <1>1, <2>2
  <2>4. PICK half : half = Fill(pattern, q, action) /\ IsFilled(half, pattern, q, action)
    BY <1>1, Filled
  <2>5. half \in Seq(Pieces) /\ p \in 1 .. Len(half) /\ half[1] = pattern[1]
    BY <1>1, <2>2, <2>3, <2>4, LenProperties DEF IsFilled
  <2>6. Fill(half, p, target)[1] = pattern[1]
    BY <2>3, <2>5, FirstPieceStays
  <2> QED BY <1>2, <2>2, <2>4, <2>6 DEF Subject, Args, pattern
<1>3. CASE kind # "action"
  <2>1. Count("%s", pattern) = 1
    BY <1>3 DEF ValidPattern, Placeholders, pattern
  <2>2. PICK p \in 1 .. Len(pattern) :
          pattern[p] = "%s" /\ Sprintf(pattern, <<target>>) = Fill(pattern, p, target)
    BY <1>1, <2>1, SprintfOne
  <2>3. p > 1
    BY <1>1, <2>2
  <2>4. Fill(pattern, p, target)[1] = pattern[1]
    BY <1>1, <2>3, FirstPieceStays
  <2> QED BY <1>3, <2>2, <2>4 DEF Subject, Args, pattern
<1> QED BY <1>2, <1>3

\* Two addressees have two subjects, if the placeholders fill whole tokens.
LEMMA SubjectsApart ==
    ASSUME NEW patterns, NEW kind, patterns[kind] \in Seq(Pieces),
           ValidPattern(patterns[kind], Placeholders(kind)), WholeTokens(patterns[kind]),
           NEW target \in Seq(Pieces), NEW action \in Seq(Pieces),
           NEW target2 \in Seq(Pieces), NEW action2 \in Seq(Pieces),
           CanAddress(kind, target, action), CanAddress(kind, target2, action2),
           Subject(patterns, kind, target, action) = Subject(patterns, kind, target2, action2)
    PROVE  target = target2 /\ (kind = "action" => action = action2)
<1> DEFINE pattern == patterns[kind]
<1>1. /\ pattern \in Seq(Pieces) /\ WholeTokens(pattern) /\ Len(pattern) \in Nat
      /\ DOMAIN pattern = 1 .. Len(pattern)
  BY LenProperties
<1>2. CASE kind = "action"
  <2>1. Count("%s", pattern) = 2
    BY <1>2 DEF ValidPattern, Placeholders
  <2>2. ValidName(target) /\ ValidName(target2)
    <3>1. 1 \in DOMAIN <<target, action>> /\ 1 \in DOMAIN <<target2, action2>>
      OBVIOUS
    <3> QED BY <1>2, <3>1 DEF CanAddress, Args
  <2>3. Sprintf(pattern, <<target, action>>) = Sprintf(pattern, <<target2, action2>>)
    BY <1>2 DEF Subject, Args
  <2> HIDE DEF pattern
  <2>4. PICK p \in 1 .. Len(pattern), q \in 1 .. Len(pattern) :
          /\ p < q /\ pattern[p] = "%s" /\ pattern[q] = "%s"
          /\ \A t, a : Sprintf(pattern, <<t, a>>) = Fill(Fill(pattern, q, a), p, t)
    BY <1>1, <2>1, SprintfTwo
  <2>5. pattern[p + 1] = "."
    <3>1. p \in DOMAIN pattern /\ p < Len(pattern)
      BY <1>1, <2>4
    <3> QED BY <1>1, <2>4, <3>1 DEF WholeTokens
  <2>6. p + 1 < q
    BY <2>4, <2>5
  <2>7. Fill(Fill(pattern, q, action), p, target) = Fill(Fill(pattern, q, action2), p, target2)
    BY <2>3, <2>4
  <2>8. PICK whole : /\ AreFilled(whole, pattern, p, q, target, action)
                     /\ AreFilled(whole, pattern, p, q, target2, action2)
    BY <1>1, <2>6, <2>7, BothFilled
  <2>9. target = target2 /\ action = action2
    BY <1>1, <2>2, <2>5, <2>6, <2>8, TwoNamesApart
  <2> QED BY <2>9
<1>3. CASE kind # "action"
  <2>1. Count("%s", pattern) = 1
    BY <1>3 DEF ValidPattern, Placeholders
  <2>2. Sprintf(pattern, <<target>>) = Sprintf(pattern, <<target2>>)
    BY <1>3 DEF Subject, Args
  <2> HIDE DEF pattern
  <2>3. PICK p \in 1 .. Len(pattern) :
          \A name : Sprintf(pattern, <<name>>) = Fill(pattern, p, name)
    BY <1>1, <2>1, SprintfOne
  <2>4. Fill(pattern, p, target) = Fill(pattern, p, target2)
    BY <2>2, <2>3
  <2> QED BY <1>1, <1>3, <2>4, OneNameApart
<1> QED BY <1>2, <1>3

\* Two targets have two keys, and a key is more than white space.
LEMMA KeysApart ==
    ASSUME NEW pattern \in Seq(Pieces), NEW target \in Seq(Pieces), HasKey(pattern, target)
    PROVE  /\ Text(Key(pattern, target)) = "good"
           /\ \A other \in Seq(Pieces) :
                 Key(pattern, other) = Key(pattern, target) => other = target
<1> DEFINE trimmed == TrimSpace(pattern)
<1>1. trimmed \in Seq(Pieces) /\ Count("%s", trimmed) = 1
  BY TrimmedIsText DEF HasKey, ValidKeyPattern
<1>2. \A name : Key(pattern, name) = Sprintf(trimmed, <<name>>)
  BY DEF Key
<1> HIDE DEF trimmed
<1>3. PICK p \in 1 .. Len(trimmed) :
        \A name : Sprintf(trimmed, <<name>>) = Fill(trimmed, p, name)
  BY <1>1, SprintfOne
<1>4. ASSUME NEW other \in Seq(Pieces), Key(pattern, other) = Key(pattern, target)
      PROVE  other = target
  <2>1. Fill(trimmed, p, other) = Fill(trimmed, p, target)
    BY <1>2, <1>3, <1>4
  <2> QED BY <1>1, <2>1, OneNameApart
<1>5. PICK key : key = Key(pattern, target) /\ IsFilled(key, trimmed, p, target)
  BY <1>1, <1>2, <1>3, Filled
<1>6. \E k \in DOMAIN key : key[k] # " "
  <2>1. Len(trimmed) \in Nat /\ Len(target) \in Nat /\ DOMAIN target = 1 .. Len(target)
    BY <1>1, LenProperties
  <2>2. PICK k \in 1 .. Len(target) : target[k] # " "
    BY <2>1 DEF HasKey, ValidKeyName, Blank
  <2>3. key[p - 1 + k] = target[k]
    BY <1>5 DEF IsFilled, Holds
  <2>4. DOMAIN key = 1 .. Len(key) /\ p - 1 + k \in 1 .. Len(key)
    BY <1>5, <2>1, LenProperties DEF IsFilled
  <2> QED BY <2>2, <2>3, <2>4
<1>7. ~Blank(key)
  BY <1>6 DEF Blank
<1>8. key # <<>>
  <2>1. DOMAIN <<>> = {}
    OBVIOUS
  <2> QED BY <1>6, <2>1
<1>9. Text(key) = "good"
  BY <1>7, <1>8 DEF Text
<1> QED BY <1>4, <1>5, <1>9


-----------------------------------------------------------------------------
(* The inductive invariant.                                                *)

\* What is on the wire passed the rules of its type.
Checked ==
    wire # None => /\ wire.kind \in Kinds
                   /\ wire.message \in Messages(wire.kind)
                   /\ Sends(wire.kind, wire.message)
                   /\ wire.data = Marshal(wire.kind, wire.message)

\* It goes to the addressee it was checked for.
Addressed ==
    wire # None =>
        /\ Ready
        /\ wire.target \in Names /\ wire.action \in Names \union {<<>>}
        /\ wire.kind # "action" => wire.action = <<>>
        /\ CanAddress(wire.kind, wire.target, wire.action)
        /\ wire.subject = Subject(client.patterns, wire.kind, wire.target, wire.action)

\* What is stored passed the rules of a record, under the key of its target.
Stored ==
    stored # None =>
        /\ Ready
        /\ stored.target \in Names
        /\ stored.record \in Messages("record") /\ Sends("record", stored.record)
        /\ HasKey(client.options.key_pattern, stored.target)
        /\ stored.key = Key(client.options.key_pattern, stored.target)
        /\ stored.bucket = client.options.bucket

\* A handler is called with what has come on its subject and what it can read.
Reached ==
    \A r \in called :
        /\ wire # None /\ r \in Registered
        /\ Subject(client.patterns, r.kind, r.target, r.action) = wire.subject
        /\ Receives(r.kind, wire.data)

\* The patterns in effect are those New has checked.
Patterned == Ready => /\ client.patterns \in [Routes -> Seq(Pieces)]
                      /\ ValidPatterns(client.patterns)

\* The options in effect are those New has completed.
Completed == Ready => \E c \in Configs : /\ Acceptable(c.options)
                                         /\ client.options = Normalized(c.options)

\* A call is sent by a client with a publish timeout.
Timely == wire # None => wire.bounded

ExchangeInv == /\ Checked /\ Addressed /\ Stored /\ Reached
               /\ Patterned /\ Completed /\ Timely

\* Every zero that has a meaning of its own has been replaced.
LEMMA NormalizedOptions ==
    ASSUME NEW c \in Configs, Acceptable(c.options)
    PROVE  /\ \A f \in Timeouts : Normalized(c.options)[f] > 0
           /\ Normalized(c.options)["max_reconnects"] # 0
           /\ Normalized(c.options)["history"] \in 1 .. 64
<1> DEFINE options == c.options
<1>1. /\ Numbers \subseteq DOMAIN options /\ \A f \in Numbers : options[f] \in Int
      /\ options.history >= 0
  BY ConfigsAssumption
<1>2. \A f \in Numbers : f \notin {"servers", "bucket", "key_pattern", "storage"}
  BY DEF Numbers, Timeouts, Sizes
<1>3. \A f \in Numbers : Normalized(options)[f] =
          IF f \in DOMAIN Defaults /\ options[f] = 0 THEN Defaults[f] ELSE options[f]
  BY <1>1, <1>2 DEF Normalized
<1>4. \A f \in Timeouts : f \in Numbers /\ f \in DOMAIN Defaults /\ Defaults[f] > 0
                          /\ options[f] >= 0
  BY DEF Numbers, Timeouts, Defaults, Acceptable
<1>5. \A f \in Timeouts : Normalized(options)[f] > 0
  BY <1>1, <1>3, <1>4
<1>6. Normalized(options)["max_reconnects"] # 0
  BY <1>3 DEF Numbers, Defaults
<1>7. Normalized(options)["history"] \in 1 .. 64
  BY <1>1, <1>3 DEF Numbers, Defaults, Acceptable
<1> QED BY <1>5, <1>6, <1>7

\* Neither the patterns nor the bucket or the pattern of the keys are left open.
LEMMA NormalizedText ==
    ASSUME NEW c \in Configs
    PROVE  /\ PatternsFromConfig(c.overrides) \in [Routes -> Seq(Pieces)]
           /\ Normalized(c.options)["key_pattern"] \in Seq(Pieces)
           /\ ~IsBlank(Normalized(c.options)["bucket"])
<1>1. /\ c.overrides \in [Routes -> Seq(Pieces)]
      /\ {"bucket", "key_pattern"} \subseteq DOMAIN c.options
      /\ c.options.key_pattern \in Seq(Pieces)
  BY ConfigsAssumption, TextsArePieces
<1>2. PatternsFromConfig(c.overrides) \in [Routes -> Seq(Pieces)]
  BY <1>1, TextsArePieces DEF PatternsFromConfig
<1>3. Normalized(c.options)["key_pattern"] = KeyPattern(c.options.key_pattern)
  BY <1>1 DEF Normalized, Defaults
<1>4. KeyPattern(c.options.key_pattern) \in Seq(Pieces)
  BY <1>1, TextsArePieces, TrimmedIsText DEF KeyPattern
<1>5. Normalized(c.options)["bucket"] = IF IsBlank(c.options["bucket"]) THEN "cfg_desired"
                                        ELSE c.options["bucket"]
  BY <1>1 DEF Normalized, Defaults
<1>6. ~IsBlank(Normalized(c.options)["bucket"])
  BY <1>5 DEF IsBlank
<1> QED BY <1>2, <1>3, <1>4, <1>6

\* What is published carries what was checked, to whom it was checked for.
LEMMA PublishStep ==
    ASSUME Ready, Completed, UNCHANGED client,
           NEW kind \in Kinds, NEW m \in Messages(kind), Sends(kind, m),
           NEW target \in Names, NEW action \in Names \union {<<>>},
           kind # "action" => action = <<>>,
           CanAddress(kind, target, action), NEW hasDeadline,
           Published(kind, target, action, m, hasDeadline)
    PROVE  Checked' /\ Addressed' /\ Timely'
<1>1. PICK c \in Configs : Acceptable(c.options) /\ client.options = Normalized(c.options)
  BY DEF Completed
<1>2. client.options["publish_timeout"] > 0
  BY <1>1, NormalizedOptions DEF Timeouts
<1>3. Bounded(hasDeadline, client.options.publish_timeout)
  BY <1>2 DEF Bounded
<1>4. /\ wire'.kind = kind /\ wire'.target = target /\ wire'.action = action
      /\ wire'.message = m /\ wire'.data = Marshal(kind, m) /\ wire'.bounded
      /\ wire'.subject = Subject(client.patterns, kind, target, action)
  BY <1>3 DEF Published
<1> QED BY <1>4 DEF Checked, Addressed, Timely, Ready

\* SubmitConfigure, SubmitAction, PublishResult and PublishStatus check before they
\* send.
LEMMA SendingStep == ExchangeInv /\ (Sending \/ AnnouncesConfig) => ExchangeInv'
<1> SUFFICES ASSUME ExchangeInv, Sending \/ AnnouncesConfig
             PROVE  ExchangeInv'
  OBVIOUS
<1> USE DEF ExchangeInv
<1>1. UNCHANGED client /\ UNCHANGED called /\ wire = None
  BY DEF Sending, AnnouncesConfig, SubmitAction, PublishOutcome, StoresConfig
<1>2. Completed' /\ Patterned'
  BY <1>1 DEF Completed, Patterned, Ready
<1>3. Reached'
  BY <1>1 DEF Reached
<1>4. UNCHANGED stored => Stored'
  BY <1>1 DEF Stored, Ready
<1>5. ASSUME NEW target \in Names, NEW hasDeadline \in BOOLEAN, NEW action \in Names, Ready,
             SubmitAction(target, action, hasDeadline)
      PROVE  ExchangeInv'
  <2>1. PICK m \in Messages("action") : /\ Sends("action", m)
                                        /\ CanAddress("action", target, action)
                                        /\ Published("action", target, action, m, hasDeadline)
    BY <1>5 DEF SubmitAction, Accepted, Kinds
  <2>2. UNCHANGED stored
    BY <1>5 DEF SubmitAction
  <2>3. Checked' /\ Addressed' /\ Timely'
    BY <1>1, <1>5, <2>1, PublishStep DEF Kinds
  <2> QED BY <1>2, <1>3, <1>4, <2>2, <2>3
<1>6. ASSUME NEW target \in Names, NEW hasDeadline \in BOOLEAN,
             NEW kind \in {"result", "status"}, Ready, PublishOutcome(kind, target, hasDeadline)
      PROVE  ExchangeInv'
  <2>1. PICK m \in Messages(kind) : /\ Sends(kind, m)
                                    /\ CanAddress(kind, target, <<>>)
                                    /\ Published(kind, target, <<>>, m, hasDeadline)
    BY <1>6 DEF PublishOutcome, Accepted, Kinds
  <2>2. UNCHANGED stored
    BY <1>6 DEF PublishOutcome
  <2>3. Checked' /\ Addressed' /\ Timely'
    BY <1>1, <1>6, <2>1, PublishStep DEF Kinds
  <2> QED BY <1>2, <1>3, <1>4, <2>2, <2>3
<1>7. ASSUME NEW target \in Names, NEW hasDeadline \in BOOLEAN, Ready,
             StoresConfig(target, hasDeadline)
      PROVE  ExchangeInv'
  <2>1. UNCHANGED wire
    BY <1>7 DEF StoresConfig
  <2>2. PICK m \in Commands :
          LET record == [f \in Fields["record"] |-> m[f]]
          IN  /\ Sends("record", record)
              /\ HasKey(client.options.key_pattern, target)
              /\ stored' = [target |-> target, record |-> record, deadline |-> hasDeadline,
                            bucket |-> client.options.bucket,
                            key |-> Key(client.options.key_pattern, target)]
    BY <1>7 DEF StoresConfig
  <2>3. m \in [Fields["command"] -> Value] /\ Fields["record"] = Fields["command"]
    BY <2>2 DEF Commands, Messages, Fields
  <2>4. stored'.record \in Messages("record")
    BY <2>2, <2>3 DEF Messages
  <2>5. Stored'
    BY <1>1, <1>7, <2>2, <2>4 DEF Stored, Ready
  <2> QED BY <1>1, <1>2, <1>3, <2>1, <2>5 DEF Checked, Addressed, Timely
<1>8. CASE AnnouncesConfig
  <2>1. stored # None /\ Ready /\ stored.target \in Names /\ UNCHANGED stored
    BY <1>8 DEF AnnouncesConfig, Stored
  <2>2. Notification \in Messages("configure")
    <3>1. stored.record \in [Fields["record"] -> Value]
      BY <2>1 DEF Stored, Messages
    <3>2. \A f \in Fields["configure"] : Notification[f] \in Value
      BY <3>1 DEF Notification, Fields, Common, Value, Text
    <3> QED BY <3>2 DEF Notification, Messages
  <2>3. /\ Sends("configure", Notification) /\ CanAddress("configure", stored.target, <<>>)
        /\ Published("configure", stored.target, <<>>, Notification, stored.deadline)
    BY <1>8 DEF AnnouncesConfig, CanAnnounce
  <2>4. Checked' /\ Addressed' /\ Timely'
    BY <1>1, <2>1, <2>2, <2>3, PublishStep DEF Kinds
  <2> QED BY <1>2, <1>3, <1>4, <2>1, <2>4
<1> QED BY <1>5, <1>6, <1>7, <1>8 DEF Sending

\* What New accepts is what the client works with.
LEMMA NewStep == ExchangeInv /\ New => ExchangeInv'
<1> SUFFICES ASSUME ExchangeInv, New
             PROVE  ExchangeInv'
  OBVIOUS
<1> USE DEF ExchangeInv
<1>1. /\ stored = None /\ wire = None /\ called = {}
      /\ UNCHANGED <<stored, wire, called>>
  BY DEF New, Stored, Addressed, Reached, Ready
<1>2. PICK c \in Configs :
        client' = IF ValidPatterns(PatternsFromConfig(c.overrides)) /\ Acceptable(c.options)
                  THEN [patterns |-> PatternsFromConfig(c.overrides),
                        options |-> Normalized(c.options)]
                  ELSE Refused
  BY DEF New
<1>3. Completed' /\ Patterned'
  BY <1>2, NormalizedText DEF Completed, Patterned, Ready
<1> QED BY <1>1, <1>3 DEF Checked, Addressed, Stored, Reached, Timely

\* bindConfigureCallback and its siblings call who is subscribed and can read.
LEMMA DispatchStep == ExchangeInv /\ Dispatch => ExchangeInv'
<1> SUFFICES ASSUME ExchangeInv, Dispatch
             PROVE  ExchangeInv'
  OBVIOUS
<1> USE DEF ExchangeInv
<1>1. UNCHANGED <<client, stored, wire>> /\ wire # None
  BY DEF Dispatch
<1>2. PICK r \in Registered :
        /\ Subject(client.patterns, r.kind, r.target, r.action) = wire.subject
        /\ Receives(r.kind, wire.data)
        /\ called' = called \union {r}
  BY DEF Dispatch
<1>3. Reached'
  BY <1>1, <1>2 DEF Reached
<1> QED BY <1>1, <1>3 DEF Checked, Addressed, Stored, Patterned, Completed, Timely, Ready

\* ExchangeInv holds from New on.
LEMMA ExchangeAlways == Spec => []ExchangeInv
<1>1. Init => ExchangeInv
  BY DEF Init, ExchangeInv, Checked, Addressed, Stored, Reached, Patterned, Completed,
         Timely, Ready
<1>2. ExchangeInv /\ [Next]_vars => ExchangeInv'
  <2> SUFFICES ASSUME ExchangeInv, [Next]_vars
               PROVE  ExchangeInv'
    OBVIOUS
  <2>1. CASE UNCHANGED vars
    BY <2>1 DEF vars, ExchangeInv, Checked, Addressed, Stored, Reached, Patterned, Completed,
                Timely, Ready
  <2> QED BY <2>1, NewStep, SendingStep, DispatchStep DEF Next
<1> QED BY <1>1, <1>2, PTL DEF Spec

-----------------------------------------------------------------------------

\* Whatever names and configurations there are, what is accepted for sending is
\* read as it was sent, by the callbacks and by the codec.
THEOREM SentIsAlwaysRead == Spec => []SentIsRead
<1>1. ExchangeInv => SentIsRead
  <2> SUFFICES ASSUME ExchangeInv, wire # None
               PROVE  /\ Unmarshal(wire.kind, wire.data) = wire.message
                      /\ Receives(wire.kind, wire.data)
                      /\ Decodes(wire.kind, wire.data, Codec(wire.kind))
                      /\ Satisfies(wire.message, ValidateBaseEnvelope)
    BY DEF SentIsRead
  <2>1. /\ wire.kind \in Kinds /\ wire.message \in Messages(wire.kind)
        /\ Sends(wire.kind, wire.message) /\ wire.data = Marshal(wire.kind, wire.message)
    BY DEF ExchangeInv, Checked
  <2>2. Unmarshal(wire.kind, wire.data) = wire.message
    BY <2>1, RoundTrip DEF Types
  <2>3. Satisfies(wire.message, Runtime[wire.kind])
    BY <2>1 DEF Sends, Encode
  <2> QED BY <2>1, <2>2, <2>3, CopiesAgree DEF Receives, Decodes
<1> QED BY <1>1, ExchangeAlways, PTL

\* No configuration New accepts leaves a call without an end.
THEOREM CallsAlwaysBounded == Spec => []CallsBounded
<1>1. ExchangeInv => CallsBounded
  BY NormalizedOptions DEF ExchangeInv, Timely, Completed, CallsBounded
<1> QED BY <1>1, ExchangeAlways, PTL

\* SubmitConfigure never has to stop between its Put and its notification because of
\* what it has stored, and LoadDesiredConfig reads it: the store's copy of the rule
\* for names (validateToken) implies that of the subjects, and its rules of a record
\* imply those of a notification.
THEOREM StoredIsAlwaysUsable == Spec => []StoredIsUsable
<1>1. ExchangeInv => StoredIsUsable
  <2> SUFFICES ASSUME ExchangeInv, stored # None
               PROVE  /\ CanAnnounce
                      /\ Receives("record", Marshal("record", stored.record))
                      /\ Satisfies([f \in Fields["stored"] |->
                                      CASE f = "bucket"     -> Notification["kv_bucket"]
                                        [] f = "key"        -> Notification["kv_key"]
                                        [] f = "created_at" -> stored.record["timestamp"]
                                        [] OTHER            -> stored.record[f]],
                                   ValidateStoredDesiredConfig)
    BY DEF StoredIsUsable
  <2>1. /\ Ready
        /\ stored.target \in Seq(Pieces)
        /\ stored.record \in Messages("record") /\ Sends("record", stored.record)
        /\ HasKey(client.options.key_pattern, stored.target)
        /\ stored.key = Key(client.options.key_pattern, stored.target)
        /\ stored.bucket = client.options.bucket
    BY TextsArePieces DEF ExchangeInv, Stored
  <2>2. PICK c \in Configs : client.options = Normalized(c.options)
    BY <2>1 DEF ExchangeInv, Completed
  <2>3. Text(stored.key) = "good"
    BY <2>1, <2>2, NormalizedText, KeysApart
  <2>4. ~IsBlank(stored.bucket)
    BY <2>1, <2>2, NormalizedText
  <2>5. \A f \in {"version", "rpc_id", "target", "uuid", "payload"} : stored.record[f] = "good"
    BY <2>1 DEF Sends, Encode, Satisfies, Runtime, validateDesiredConfigRecord, Rules, Present,
                Common, Times
  <2>6. stored.record["timestamp"] # "empty"
    BY <2>1 DEF Sends, Encode, Satisfies, Runtime, validateDesiredConfigRecord, Rules, Present,
                Common, Times
  <2>7. /\ \A f \in {"version", "rpc_id", "target", "uuid", "command_type", "kv_bucket",
                     "kv_key", "timestamp"} : f \in Fields["configure"]
        /\ Fields["configure"] = {"version", "rpc_id", "target", "uuid", "command_type",
                                  "kv_bucket", "kv_key", "timestamp"}
    BY DEF Fields, Common
  <2>8. \A f \in Fields["configure"] : Notification[f] = "good"
    BY <2>3, <2>4, <2>5, <2>7 DEF Notification
  <2>9. Sends("configure", Notification)
    BY <2>7, <2>8 DEF Sends, Encode, Encodable, Satisfies, Runtime,
                      validateConfigureNotification, Rules, Present, Common, Notification
  <2>10. CanAddress("configure", stored.target, <<>>)
    <3>1. ValidName(stored.target)
      BY <2>1 DEF HasKey, ValidKeyName, ValidName
    <3>2. DOMAIN <<stored.target>> = {1} /\ <<stored.target>>[1] = stored.target
      OBVIOUS
    <3> QED BY <3>1, <3>2 DEF CanAddress, Args
  <2>11. Receives("record", Marshal("record", stored.record))
    BY <2>1, RoundTrip DEF Types, Receives, Decodes, Sends, Encode
  <2>12. Satisfies([f \in Fields["stored"] |->
                      CASE f = "bucket"     -> Notification["kv_bucket"]
                        [] f = "key"        -> Notification["kv_key"]
                        [] f = "created_at" -> stored.record["timestamp"]
                        [] OTHER            -> stored.record[f]],
                   ValidateStoredDesiredConfig)
    <3>1. Notification["kv_bucket"] = "good" /\ Notification["kv_key"] = "good"
      BY <2>7, <2>8
    <3> QED BY <2>5, <2>6, <3>1 DEF Satisfies, ValidateStoredDesiredConfig, Also,
                 ValidateDesiredConfigRecord, Rules, Present, Fields, Common, Times
  <2> QED BY <2>9, <2>10, <2>11, <2>12 DEF CanAnnounce
<1> QED BY <1>1, ExchangeAlways, PTL

\* Who can read a message of another kind: its own required field is in no other
\* kind, but that of an action command in a result.
LEMMA ReadAcrossKinds ==
    ASSUME NEW kind \in Kinds, NEW other \in Kinds, other # kind, NEW m \in Messages(kind),
           Receives(other, Marshal(kind, m))
    PROVE  kind = "result" /\ other = "action"
<1> DEFINE data == Marshal(kind, m)
<1>1. \A f \in Runtime[other].required : Present(f, Unmarshal(other, data)[f])
  BY DEF Receives, Decodes, Satisfies
<1>2. DOMAIN data \subseteq Fields[kind]
  BY DEF Marshal, Messages
<1>3. \A f \in Runtime[other].required \intersect Fields[other] : f \in Fields[kind]
  BY <1>1, <1>2 DEF Unmarshal, Present
<1>4. CASE other = "configure"
  BY <1>3, <1>4 DEF Runtime, validateConfigureNotification, Rules, Fields, Common, Kinds
<1>5. CASE other = "action"
  BY <1>3, <1>5 DEF Runtime, validateActionCommand, Rules, Fields, Common, Kinds
<1>6. CASE other = "result"
  BY <1>3, <1>6 DEF Runtime, validateResultEnvelope, Rules, Fields, Common, Kinds
<1>7. CASE other = "status"
  BY <1>3, <1>7 DEF Runtime, validateStatusEnvelope, Rules, Fields, Common, Kinds
<1> QED BY <1>4, <1>5, <1>6, <1>7 DEF Kinds

\* A handler that is called, with what makes two subjects comparable.
LEMMA CalledIsAddressed ==
    ASSUME ExchangeInv, NEW r \in called
    PROVE  /\ wire.kind \in Kinds /\ r.kind \in Kinds
           /\ \A kind \in Kinds : /\ client.patterns[kind] \in Seq(Pieces)
                                  /\ ValidPattern(client.patterns[kind], Placeholders(kind))
           /\ wire.target \in Seq(Pieces) /\ wire.action \in Seq(Pieces)
           /\ r.target \in Seq(Pieces) /\ r.action \in Seq(Pieces)
           /\ CanAddress(wire.kind, wire.target, wire.action)
           /\ CanAddress(r.kind, r.target, r.action)
           /\ wire.kind # "action" => wire.action = <<>>
           /\ r.kind # "action" => r.action = <<>>
           /\ Subject(client.patterns, r.kind, r.target, r.action)
                = Subject(client.patterns, wire.kind, wire.target, wire.action)
<1>1. wire # None /\ Ready
  BY DEF ExchangeInv, Reached, Addressed
<1>2. <<>> \in Seq(Pieces)
  BY TextsArePieces
<1>3. /\ r.kind \in Kinds /\ r.target \in Names /\ r.action \in Names \union {<<>>}
      /\ CanAddress(r.kind, r.target, r.action) /\ (r.kind # "action" => r.action = <<>>)
  BY DEF ExchangeInv, Reached, Registered, Registrations
<1>4. \A kind \in Kinds : /\ client.patterns[kind] \in Seq(Pieces)
                          /\ ValidPattern(client.patterns[kind], Placeholders(kind))
  BY <1>1 DEF ExchangeInv, Patterned, ValidPatterns, Kinds, Routes
<1>5. r.target \in Seq(Pieces) /\ r.action \in Seq(Pieces)
  BY <1>2, <1>3, TextsArePieces
<1>6. wire.target \in Seq(Pieces) /\ wire.action \in Seq(Pieces)
  BY <1>1, <1>2, TextsArePieces DEF ExchangeInv, Addressed
<1> QED BY <1>1, <1>3, <1>4, <1>5, <1>6 DEF ExchangeInv, Checked, Addressed, Reached

\* For any patterns New accepts, and any names: of the handlers of a kind whose
\* placeholders fill whole tokens only the addressee is called, and no two targets
\* share a slot of the bucket.
THEOREM AddresseesAlwaysApart == Spec => []AddresseesApart
<1>1. ExchangeInv => AddresseesApart
  <2> SUFFICES ASSUME ExchangeInv
               PROVE  AddresseesApart
    OBVIOUS
  <2>1. ASSUME NEW r \in called, r.kind = wire.kind, WholeTokens(client.patterns[r.kind])
        PROVE  r.target = wire.target /\ r.action = wire.action
    <3> DEFINE kind == wire.kind
    <3>1. /\ client.patterns[kind] \in Seq(Pieces) /\ WholeTokens(client.patterns[kind])
          /\ ValidPattern(client.patterns[kind], Placeholders(kind))
          /\ wire.target \in Seq(Pieces) /\ wire.action \in Seq(Pieces)
          /\ r.target \in Seq(Pieces) /\ r.action \in Seq(Pieces)
          /\ CanAddress(kind, wire.target, wire.action)
          /\ CanAddress(kind, r.target, r.action)
          /\ Subject(client.patterns, kind, r.target, r.action)
               = Subject(client.patterns, kind, wire.target, wire.action)
          /\ kind # "action" => r.action = wire.action
      BY <2>1, CalledIsAddressed
    <3> HIDE DEF kind
    <3> QED BY <3>1, SubjectsApart
  <2>2. ASSUME stored # None, NEW target \in Names,
               HasKey(client.options.key_pattern, target),
               Key(client.options.key_pattern, target) = stored.key
        PROVE  target = stored.target
    <3>1. /\ Ready /\ stored.target \in Seq(Pieces) /\ target \in Seq(Pieces)
          /\ HasKey(client.options.key_pattern, stored.target)
          /\ stored.key = Key(client.options.key_pattern, stored.target)
      BY <2>2, TextsArePieces DEF ExchangeInv, Stored
    <3>2. client.options.key_pattern \in Seq(Pieces)
      BY <3>1, NormalizedText DEF ExchangeInv, Completed
    <3> QED BY <2>2, <3>1, <3>2, KeysApart
  <2> QED BY <2>1, <2>2 DEF AddresseesApart
<1> QED BY <1>1, ExchangeAlways, PTL

\* A handler of another kind is called only with custom patterns, and only an action
\* handler with a result.
THEOREM KindsAlwaysApart == Spec => []KindsApart
<1>1. ExchangeInv => KindsApart
  <2> SUFFICES ASSUME ExchangeInv, NEW r \in called, r.kind # wire.kind
               PROVE  /\ client.patterns # DefaultPatterns
                      /\ wire.kind = "result" /\ r.kind = "action"
    BY DEF KindsApart
  <2>1. /\ wire.kind \in Kinds /\ r.kind \in Kinds /\ wire.message \in Messages(wire.kind)
        /\ Receives(r.kind, Marshal(wire.kind, wire.message))
    BY CalledIsAddressed DEF ExchangeInv, Checked, Reached
  <2>2. wire.kind = "result" /\ r.kind = "action"
    BY <2>1, ReadAcrossKinds
  <2>3. CASE client.patterns = DefaultPatterns
    <3>1. /\ DefaultPatterns[r.kind][1] = "cmd" /\ DefaultPatterns[r.kind][1] # "%s"
          /\ DefaultPatterns[wire.kind][1] = "result" /\ DefaultPatterns[wire.kind][1] # "%s"
      BY <2>2 DEF DefaultPatterns
    <3>2. /\ r.target \in Seq(Pieces) /\ r.action \in Seq(Pieces)
          /\ wire.target \in Seq(Pieces) /\ wire.action \in Seq(Pieces)
          /\ Subject(DefaultPatterns, r.kind, r.target, r.action)
               = Subject(DefaultPatterns, wire.kind, wire.target, wire.action)
          /\ DefaultPatterns[r.kind] \in Seq(Pieces)
          /\ ValidPattern(DefaultPatterns[r.kind], Placeholders(r.kind))
          /\ DefaultPatterns[wire.kind] \in Seq(Pieces)
          /\ ValidPattern(DefaultPatterns[wire.kind], Placeholders(wire.kind))
      BY <2>1, <2>3, CalledIsAddressed
    <3>3. ASSUME NEW kind, DefaultPatterns[kind] \in Seq(Pieces),
                 ValidPattern(DefaultPatterns[kind], Placeholders(kind)),
                 DefaultPatterns[kind][1] # "%s",
                 NEW target \in Seq(Pieces), NEW action \in Seq(Pieces)
          PROVE  Subject(DefaultPatterns, kind, target, action)[1] = DefaultPatterns[kind][1]
      BY <3>3, SubjectBegins
    <3>4. /\ Subject(DefaultPatterns, r.kind, r.target, r.action)[1] = "cmd"
          /\ Subject(DefaultPatterns, wire.kind, wire.target, wire.action)[1] = "result"
      BY <3>1, <3>2, <3>3
    <3> QED BY <3>2, <3>4
  <2> QED BY <2>2, <2>3
<1> QED BY <1>1, ExchangeAlways, PTL
=============================================================================
