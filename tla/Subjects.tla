------------------------------ MODULE Subjects ------------------------------
(***************************************************************************)
(* The subjects messages travel on and the keys configs are stored under:  *)
(* internal/subjects and internal/kv/helpers.go.                           *)
(*                                                                         *)
(* A name, a pattern or a subject is a sequence of pieces.  The pieces the *)
(* code looks at are " " (white space), ".", "*" (a wildcard), "%s", "%"   *)
(* (the beginning of any other directive) and "!" (what no name may have); *)
(* "a", "b" and "-" are what names are made of, other pieces words.        *)
(***************************************************************************)
EXTENDS SequencesExt

Routes == {"configure", "action", "result", "status", "health"}

DefaultPatterns == [configure |-> <<"cmd", ".", "configure", ".", "%s">>,
                    action    |-> <<"cmd", ".", "action", ".", "%s", ".", "%s">>,
                    result    |-> <<"result", ".", "%s">>,
                    status    |-> <<"status", ".", "%s">>,
                    health    |-> <<"health", ".", "%s">>]

\* strings.TrimSpace leaves nothing
Blank(name) == \A i \in DOMAIN name : name[i] = " "

Places(piece, s) == {i \in DOMAIN s : s[i] = piece}

Count(piece, s) == Cardinality(Places(piece, s))

\* validatePattern
ValidPattern(pattern, placeholders) ==
    /\ ~Blank(pattern)
    /\ Range(pattern) \intersect {" ", "*", "%"} = {}
    /\ Count("%s", pattern) = placeholders

Placeholders(kind) == IF kind = "action" THEN 2 ELSE 1

\* PatternsFromConfig; NewBuilder checks once more.
PatternsFromConfig(overrides) ==
    [kind \in Routes |-> IF overrides[kind] = <<>> THEN DefaultPatterns[kind]
                         ELSE overrides[kind]]

ValidPatterns(patterns) ==
    \A kind \in Routes : ValidPattern(patterns[kind], Placeholders(kind))

\* Mutant: a name may have several tokens.
SeveralTokens(name) == ~Blank(name) /\ Range(name) \intersect {" ", "*", "!"} = {}

\* ValidateTarget, ValidateAction: letters, digits, "_" and "-"
ValidName(name) == ~Blank(name) /\ Range(name) \subseteq {"a", "b", "-"}

\* fmt.Sprintf of a pattern with as many placeholders as names.
Fill(pattern, i, name) ==
    SubSeq(pattern, 1, i - 1) \o name \o SubSeq(pattern, i + 1, Len(pattern))

Sprintf(pattern, args) ==
    LET first == Min(Places("%s", pattern))
        last  == Max(Places("%s", pattern))
    IN  IF Len(args) = 1 THEN Fill(pattern, first, args[1])
        ELSE Fill(Fill(pattern, last, args[2]), first, args[1])

\* The names a subject is built from: an action has one of its own.
Args(kind, target, action) == IF kind = "action" THEN <<target, action>> ELSE <<target>>

\* ConfigureSubject, ActionSubject, ResultSubject, StatusSubject
Subject(patterns, kind, target, action) ==
    Sprintf(patterns[kind], Args(kind, target, action))

CanAddress(kind, target, action) ==
    \A i \in DOMAIN Args(kind, target, action) :
        ValidName(Args(kind, target, action)[i])

-----------------------------------------------------------------------------
(* internal/kv/helpers.go: names and patterns once more, for keys.         *)

TrimSpace(s) == LET solid == {i \in DOMAIN s : s[i] # " "}
                IN  IF solid = {} THEN <<>> ELSE SubSeq(s, Min(solid), Max(solid))

\* Mutant: the copy of the rule for names has not kept up.
AnyWord(name) == ~Blank(name) /\ Range(name) \intersect {" ", "*", "!"} = {}

\* validateToken
ValidKeyName(name) == ~Blank(name) /\ Range(name) \subseteq {"a", "b", "-"}

\* A key pattern may hold wildcards; nats.go refuses such a key.
ValidKeyPattern(pattern) ==
    /\ ~Blank(pattern)
    /\ Range(pattern) \intersect {" ", "%"} = {}
    /\ Count("%s", pattern) = 1

\* buildDesiredConfigKey
HasKey(pattern, target) == ValidKeyPattern(TrimSpace(pattern)) /\ ValidKeyName(target)
Key(pattern, target)    == Sprintf(TrimSpace(pattern), <<target>>)
=============================================================================
