------------------------------- MODULE Exchange -------------------------------
(***************************************************************************)
(* One message on its way through the library: from the configuration the  *)
(* client was made with (client.go, New), over the calls that send it      *)
(* (SubmitConfigure, SubmitAction, PublishResult, PublishStatus), to the   *)
(* callbacks that read it (handlers_runtime.go).  Where connections,       *)
(* losses and races are the matter, see the other modules.                 *)
(***************************************************************************)
EXTENDS Contract, Options

CONSTANTS
    Configs,    \* what New may be called with: [overrides, options]
    Names,      \* targets and actions callers may use, good and bad ones
    None,       \* no client, no message, no record
    Refused     \* no client: New has returned an error

\* The types of the fields; history is unsigned.
ASSUME ConfigsAssumption ==
    \A c \in Configs : /\ c.overrides \in [Routes -> Seq(STRING)]
                       /\ Numbers \union {"bucket", "key_pattern"} \subseteq DOMAIN c.options
                       /\ \A f \in Numbers : c.options[f] \in Int
                       /\ c.options.history >= 0
                       /\ c.options.key_pattern \in Seq(STRING)

\* Names, patterns and keys are text.
ASSUME NamesAssumption == Names \subseteq Seq(STRING)

VARIABLES
    client,     \* None, Refused, or the patterns and options in effect
    stored,     \* what SubmitConfigure has put into the bucket and not announced
    wire,       \* the message that was published
    called      \* the registrations whose handler was called with it

vars == <<client, stored, wire, called>>

Ready == client \notin {None, Refused}

\* What a name is to the rules of a message.
Text(name) == CASE name = <<>>    -> "empty"
                [] Blank(name)    -> "bad"
                [] OTHER          -> "good"

\* What callers may try to send: all that the rules let pass.
Accepted == [type \in Kinds |-> {m \in Messages(type) : Sends(type, m)}]
Commands == {m \in Messages("command") : Encode(m, validateConfigureCommand)}

\* The registrations there may be: Register... refuses the names Submit...
\* refuses.
Registrations ==
    {[kind |-> kind, target |-> target, action |-> action] :
        kind \in Kinds, target \in Names, action \in Names \union {<<>>}}

Registered == {r \in Registrations : /\ CanAddress(r.kind, r.target, r.action)
                                     /\ r.kind # "action" => r.action = <<>>}

-----------------------------------------------------------------------------
\* New
New ==
    /\ client = None
    /\ \E c \in Configs :
         LET patterns == PatternsFromConfig(c.overrides)
         IN  client' = IF ValidPatterns(patterns) /\ Acceptable(c.options)
                       THEN [patterns |-> patterns, options |-> Normalized(c.options)]
                       ELSE Refused
    /\ UNCHANGED <<stored, wire, called>>

\* Publish: the payload goes out, and is flushed within the caller's deadline or
\* the publish timeout.
Published(kind, target, action, m, hasDeadline) ==
    wire' = [kind |-> kind, target |-> target, action |-> action, message |-> m,
             subject |-> Subject(client.patterns, kind, target, action),
             data |-> Marshal(kind, m),
             bounded |-> Bounded(hasDeadline, client.options.publish_timeout)]

\* SubmitAction
SubmitAction(target, action, hasDeadline) ==
    \E m \in Accepted["action"] :
        /\ m.target = Text(target) /\ m.action = Text(action)
        /\ CanAddress("action", target, action)
        /\ Published("action", target, action, m, hasDeadline)
        /\ UNCHANGED <<client, stored, called>>

\* PublishResult, PublishStatus
PublishOutcome(kind, target, hasDeadline) ==
    \E m \in Accepted[kind] :
        /\ m.target = Text(target)
        /\ CanAddress(kind, target, <<>>)
        /\ Published(kind, target, <<>>, m, hasDeadline)
        /\ UNCHANGED <<client, stored, called>>

\* SubmitConfigure up to its Put: validateConfigureCommand, then
\* StoreDesiredConfig
StoresConfig(target, hasDeadline) ==
    \E m \in Commands :
        LET record == [f \in Fields["record"] |-> m[f]]
        IN  /\ m.target = Text(target)
            /\ Sends("record", record)
            /\ HasKey(client.options.key_pattern, target)
            /\ stored' = [target |-> target, record |-> record, deadline |-> hasDeadline,
                          bucket |-> client.options.bucket,
                          key |-> Key(client.options.key_pattern, target)]
            /\ UNCHANGED <<client, wire, called>>

\* The notification of a stored config; the clock gives it a good time.
Notification ==
    [f \in Fields["configure"] |->
        CASE f = "command_type" -> "good"
          [] f = "kv_bucket"    -> IF IsBlank(stored.bucket) THEN "bad" ELSE "good"
          [] f = "kv_key"       -> Text(stored.key)
          [] f = "timestamp"    -> "good"
          [] OTHER              -> stored.record[f]]

\* Nothing between the Put and the publication refuses what was stored.
CanAnnounce == /\ CanAddress("configure", stored.target, <<>>)
               /\ Sends("configure", Notification)

\* SubmitConfigure after its Put
AnnouncesConfig ==
    /\ stored # None /\ wire = None
    /\ CanAnnounce
    /\ Published("configure", stored.target, <<>>, Notification, stored.deadline)
    /\ UNCHANGED <<client, stored, called>>

Sending ==
    /\ Ready /\ wire = None /\ stored = None
    /\ \E target \in Names, hasDeadline \in BOOLEAN :
          \/ \E action \in Names : SubmitAction(target, action, hasDeadline)
          \/ \E kind \in {"result", "status"} : PublishOutcome(kind, target, hasDeadline)
          \/ StoresConfig(target, hasDeadline)

\* bindConfigureCallback and its siblings: what does not decode is dropped.
Dispatch ==
    /\ wire # None
    /\ \E r \in Registered \ called :
          /\ Subject(client.patterns, r.kind, r.target, r.action) = wire.subject
          /\ Receives(r.kind, wire.data)
          /\ called' = called \union {r}
    /\ UNCHANGED <<client, stored, wire>>

Init == client = None /\ stored = None /\ wire = None /\ called = {}

Next == New \/ Sending \/ AnnouncesConfig \/ Dispatch

Spec == Init /\ [][Next]_vars

-----------------------------------------------------------------------------
(* Properties.                                                             *)

\* Whatever the calls of client.go let out, the callbacks of
\* handlers_runtime.go and the codec of internal/contract read, and read as what
\* was sent: no message is accepted and then dropped by whom it is for, or
\* changed by a field that is written and read by different rules.
SentIsRead ==
    wire # None =>
        /\ Unmarshal(wire.kind, wire.data) = wire.message
        /\ Receives(wire.kind, wire.data)
        /\ Decodes(wire.kind, wire.data, Codec(wire.kind))
        /\ Satisfies(wire.message, ValidateBaseEnvelope)

\* SubmitConfigure has no step back once the Put is done: what it has stored can
\* be announced (client.go checks the target and the notification only then),
\* LoadDesiredConfig reads it, and what the store returns is complete.
StoredIsUsable ==
    stored # None =>
        /\ CanAnnounce
        /\ Receives("record", Marshal("record", stored.record))
        /\ Satisfies([f \in Fields["stored"] |->
                        CASE f = "bucket"     -> Notification["kv_bucket"]
                          [] f = "key"        -> Notification["kv_key"]
                          [] f = "created_at" -> stored.record["timestamp"]
                          [] OTHER            -> stored.record[f]],
                     ValidateStoredDesiredConfig)

\* A placeholder that fills a token of its own.
WholeTokens(pattern) ==
    \A i \in DOMAIN pattern : pattern[i] = "%s" =>
        /\ i > 1 => pattern[i - 1] = "."
        /\ i < Len(pattern) => pattern[i + 1] = "."

\* Of the handlers of its kind, only the one for its target and action is called
\* with a message, and no two targets share a slot of the bucket: the reason
\* validateToken refuses ".".  Patterns that New accepts and whose placeholders
\* share a token ("%s-%s") do not promise it.
AddresseesApart ==
    /\ \A r \in called : /\ r.kind = wire.kind
                         /\ WholeTokens(client.patterns[r.kind])
                         => r.target = wire.target /\ r.action = wire.action
    /\ stored # None =>
          \A target \in Names : /\ HasKey(client.options.key_pattern, target)
                                /\ Key(client.options.key_pattern, target) = stored.key
                                => target = stored.target

\* With the default patterns no handler is called with a message of another kind.
\* With patterns that let two kinds share a subject their required fields still
\* tell them apart, but for a result: it can have every field of an action
\* command.
KindsApart ==
    \A r \in called : r.kind # wire.kind =>
        /\ client.patterns # DefaultPatterns
        /\ wire.kind = "result" /\ r.kind = "action"

\* Whatever options New accepts, and whether or not the caller's context has a
\* deadline, no call on the network is made without one (nats.go's
\* FlushWithContext and FlushTimeout refuse that) or with one that has passed,
\* and the client reconnects.
CallsBounded ==
    /\ wire # None => wire.bounded
    /\ Ready => /\ \A f \in Timeouts : client.options[f] > 0
                /\ client.options.max_reconnects # 0
                /\ client.options.history \in 1 .. 64

\* SPEC.md:354: "Configure outcomes must include the config UUID that was
\* attempted or applied."  A result that names a command type and no action
\* answers a configure command.
OutcomeNamesConfig ==
    wire # None /\ wire.kind = "result" =>
        (wire.message.command_type = "good" /\ wire.message.action = "empty"
            => wire.message.uuid = "good")
=============================================================================
