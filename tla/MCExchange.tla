------------------------------ MODULE MCExchange ------------------------------
(* Instances of Exchange for TLC.                                          *)
EXTENDS Exchange

\* A good name, one more, one with the piece patterns may join names with, and
\* one for each reason to refuse a name.
SomeNames == {<<"a">>, <<"b">>, <<"a", "-", "a">>, <<>>, <<" ">>, <<"a", ".", "a">>,
              <<"*">>, <<"a", " ">>, <<"!">>}

Standard == [kind \in Routes |-> <<>>]

\* The patterns: the default ones; one subject for three kinds; an action's
\* subject that can be that of a result; joined placeholders; and bad ones.
SomeOverrides ==
    {Standard,
     [Standard EXCEPT !.configure = <<"x", ".", "%s">>, !.result = <<"x", ".", "%s">>,
                      !.status = <<"x", ".", "%s">>],
     [Standard EXCEPT !.action = <<"%s", ".", "%s">>, !.result = <<"a", ".", "%s">>,
                      !.status = <<"%s">>],
     [Standard EXCEPT !.action = <<"x", ".", "%s", "-", "%s">>],
     [Standard EXCEPT !.status = <<"x", ".", "*">>],
     [Standard EXCEPT !.health = <<"x">>],
     [Standard EXCEPT !.action = <<"x", ".", "%s", ".", "%">>],
     [Standard EXCEPT !.configure = <<" ">>]}

\* One option at a time is not the default.
SomeOptions ==
    {Zero}
    \union {[Zero EXCEPT ![f] = n] : f \in Numbers \ {"history"}, n \in {-2, -1, 1}}
    \union {[Zero EXCEPT !.history = n] : n \in {1, 64, 65, 255}}
    \union {[Zero EXCEPT !.key_pattern = p] :
              p \in {<<" ", "%s">>, <<"%s", " ", "x">>, <<"x">>, <<"%s", "%s">>, <<"%">>}}
    \union {[Zero EXCEPT !.storage = s] : s \in {"blank", " FILE ", "memory", "disk"}}
    \union {[Zero EXCEPT !.bucket = "blank", !.servers = <<"empty", "blank">>]}

SomeConfigs == {[overrides |-> o, options |-> Zero] : o \in SomeOverrides}
    \union {[overrides |-> Standard, options |-> o] : o \in SomeOptions}

\* Nothing is configured.
PlainConfigs == {[overrides |-> Standard, options |-> Zero]}
=============================================================================
