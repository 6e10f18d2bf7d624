------------------------------- MODULE Options -------------------------------
(***************************************************************************)
(* normalizeConfig of internal/session/options.go: what New refuses, and   *)
(* what it puts in the place of a zero value.  Durations are in            *)
(* milliseconds.  Text is "empty", "blank" or something else.              *)
(***************************************************************************)
EXTENDS Subjects, Integers, TLC

Timeouts == {"connect_timeout", "reconnect_wait", "default_timeout", "publish_timeout",
             "subscribe_timeout", "kv_timeout", "shutdown_timeout",
             "handler_warn_after", "publish_backoff"}

Sizes == {"reconnect_buf_size", "publish_attempts", "ttl", "max_value_size", "replicas"}

Numbers == Timeouts \union Sizes \union {"max_reconnects", "history"}

\* The fields whose zero value stands for a default.
Defaults == [connect_timeout    |-> 5000,    reconnect_wait     |-> 2000,
             default_timeout    |-> 5000,    publish_timeout    |-> 5000,
             subscribe_timeout  |-> 5000,    kv_timeout         |-> 5000,
             shutdown_timeout   |-> 10000,   handler_warn_after |-> 5000,
             publish_backoff    |-> 200,     publish_attempts   |-> 3,
             reconnect_buf_size |-> 8388608, max_reconnects     |-> -1,
             history            |-> 1,       replicas           |-> 1]

\* The zero Config.
Zero == [f \in Numbers |-> 0]
        @@ [servers |-> <<>>, bucket |-> "empty", key_pattern |-> <<>>, storage |-> "empty"]

IsBlank(text) == text \in {"empty", "blank"}

\* Servers that are blank are left out.
Servers(servers) ==
    LET named == SelectSeq(servers, LAMBDA server : ~IsBlank(server))
    IN  IF named = <<>> THEN <<"nats://127.0.0.1:4222">> ELSE named

KeyPattern(pattern) == IF Blank(pattern) THEN <<"desired", ".", "%s">>
                       ELSE TrimSpace(pattern)

Storage(storage) == CASE IsBlank(storage)   -> "file"
                      [] storage = " FILE " -> "file"
                      [] OTHER              -> storage

\* What normalizeConfig refuses.
Acceptable(options) ==
    /\ \A f \in Timeouts \union Sizes : options[f] >= 0
    /\ options.max_reconnects >= -1
    /\ options.history <= 64
    /\ ValidKeyPattern(KeyPattern(options.key_pattern))
    /\ Storage(options.storage) \in {"file", "memory"}

\* Mutant: only what has no sensible zero gets its default.
DefaultsForSizes(options) ==
    [f \in DOMAIN options |->
        CASE f = "servers"                       -> Servers(options.servers)
          [] f = "bucket" /\ IsBlank(options[f]) -> "cfg_desired"
          [] f = "key_pattern"                   -> KeyPattern(options.key_pattern)
          [] f = "storage"                       -> Storage(options.storage)
          [] f \in DOMAIN Defaults \ Timeouts /\ options[f] = 0 -> Defaults[f]
          [] OTHER                               -> options[f]]

\* What it makes of the rest.
Normalized(options) ==
    [f \in DOMAIN options |->
        CASE f = "servers"                       -> Servers(options.servers)
          [] f = "bucket" /\ IsBlank(options[f]) -> "cfg_desired"
          [] f = "key_pattern"                   -> KeyPattern(options.key_pattern)
          [] f = "storage"                       -> Storage(options.storage)
          [] f \in DOMAIN Defaults /\ options[f] = 0 -> Defaults[f]
          [] OTHER                               -> options[f]]

\* publishContext, and withTimeout of internal/kv: does the context of a call end
\* by itself?
Bounded(hasDeadline, timeout) == hasDeadline \/ timeout > 0
=============================================================================
