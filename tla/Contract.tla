------------------------------- MODULE Contract -------------------------------
(***************************************************************************)
(* The messages of the library and the rules they must satisfy.  The rules *)
(* are written down three times in the code: in internal/contract (with a  *)
(* codec), in agentcore/handlers_runtime.go (what the Send calls and the   *)
(* receiving callbacks use) and in internal/kv/store.go (records).         *)
(*                                                                         *)
(* A message is a function from the names of its fields to what the rules  *)
(* tell apart:                                                             *)
(*   "empty"   the empty string, no JSON, the zero time                    *)
(*   "bad"     white space only, invalid JSON, a time RFC 3339 cannot write *)
(*   "good"    anything else                                               *)
(***************************************************************************)

Value == {"empty", "bad", "good"}

Common  == {"version", "rpc_id", "target", "timestamp"}
Times   == {"timestamp", "created_at"}
Payload == "payload"

\* The fields of each type of message.
Fields == [base           |-> Common,
           command        |-> Common \union {"uuid", "payload"},
           record         |-> Common \union {"uuid", "payload"},
           configure      |-> Common \union {"command_type", "uuid", "kv_bucket", "kv_key"},
           action         |-> Common \union {"command_type", "action", "payload"},
           result         |-> Common \union {"command_type", "uuid", "action", "result",
                                             "message", "error_code", "payload"},
           status         |-> Common \union {"uuid", "status", "stage", "message", "payload"},
           stored         |-> Common \union {"uuid", "payload", "bucket", "key", "created_at"}]

\* Mutant: the payload of a result has no omitempty.
ResultWritesPayload ==
    [action |-> {}, configure |-> {}, record |-> {},
     result |-> {"command_type", "uuid", "action", "message", "error_code"},
     status |-> {"rpc_id", "uuid", "stage", "message", "payload"}]

\* The fields whose tag says omitempty.
OmitEmpty ==
    [action |-> {}, configure |-> {}, record |-> {},
     result |-> {"command_type", "uuid", "action", "message", "error_code", "payload"},
     status |-> {"rpc_id", "uuid", "stage", "message", "payload"}]

\* The kinds of message that travel between clients.
Kinds == {"configure", "action", "result", "status"}

Messages(type) == [Fields[type] -> Value]

-----------------------------------------------------------------------------
(* Validators: the fields that must be set, and those that must be well    *)
(* formed if they are.                                                     *)

Rules(required, optional) == [required |-> required, optional |-> optional]

\* requiredString, requiredJSON, requiredTimestamp
Present(field, value) == IF field \in Times THEN value # "empty" ELSE value = "good"

\* optionalString, optionalJSON
WellFormed(value) == value # "bad"

Satisfies(m, rules) ==
    /\ \A f \in rules.required : Present(f, m[f])
    /\ \A f \in rules.optional : WellFormed(m[f])

-----------------------------------------------------------------------------
(* internal/contract/validate.go                                           *)

ValidateBaseEnvelope == Rules({"version", "target", "timestamp"}, {"rpc_id"})

ValidateConfigureCommand == Rules(Common \union {"uuid", "payload"}, {})

ValidateDesiredConfigRecord == Rules(Common \union {"uuid", "payload"}, {})

ValidateConfigureNotification ==
    Rules(Common \union {"command_type", "uuid", "kv_bucket", "kv_key"}, {})

ValidateActionCommand == Rules(Common \union {"command_type", "action", "payload"}, {})

ValidateResultEnvelope ==
    Rules(Common \union {"result"},
          {"command_type", "uuid", "action", "error_code", "payload"})

ValidateStatusEnvelope ==
    Rules({"version", "target", "status", "timestamp"},
          {"rpc_id", "uuid", "stage", "payload"})

Also(rules, fields) == [rules EXCEPT !.required = @ \union fields]

ValidateConfigureResultEnvelope == Also(ValidateResultEnvelope, {"uuid"})

ValidateConfigureStatusEnvelope == Also(ValidateStatusEnvelope, {"rpc_id", "uuid"})

ValidateStoredDesiredConfig ==
    Also(ValidateDesiredConfigRecord, {"bucket", "key", "created_at"})

-----------------------------------------------------------------------------
(* agentcore: the copies that run.                                         *)

validateConfigureCommand == Rules(Common \union {"uuid", "payload"}, {})

validateConfigureNotification ==
    Rules(Common \union {"command_type", "uuid", "kv_bucket", "kv_key"}, {})

validateActionCommand == Rules(Common \union {"command_type", "action", "payload"}, {})

validateResultEnvelope ==
    Rules(Common \union {"result"},
          {"command_type", "uuid", "action", "error_code", "payload"})

\* Mutant: a status may say nothing.
StatusOptional ==
    Rules({"version", "target", "timestamp"},
          {"rpc_id", "uuid", "status", "stage", "payload"})

validateStatusEnvelope ==
    Rules({"version", "target", "status", "timestamp"},
          {"rpc_id", "uuid", "stage", "payload"})

\* internal/kv: the rules of a record; that its target is one token is in
\* Subjects.
validateDesiredConfigRecord == Rules(Common \union {"uuid", "payload"}, {})

-----------------------------------------------------------------------------
(* encoding/json.  A message is a JSON object, a function on the fields it *)
(* has; an object can also be read as a message of another type.           *)

\* Invalid raw JSON and times outside RFC 3339 cannot be written.
Encodable(m) == \A f \in DOMAIN m : f \in Times \union {Payload} => m[f] # "bad"

\* A raw payload without bytes is written as null, unless it is omitted; null
\* is read back as the four bytes it is.
Marshal(type, m) ==
    LET written == {f \in DOMAIN m : m[f] = "empty" => f \notin OmitEmpty[type]}
    IN  [f \in written |-> IF f = Payload /\ m[f] = "empty" THEN "good" ELSE m[f]]

\* Unknown fields are ignored, missing ones stay empty.
Unmarshal(type, data) ==
    [f \in Fields[type] |-> IF f \in DOMAIN data THEN data[f] ELSE "empty"]

Decodes(type, data, rules) == Satisfies(Unmarshal(type, data), rules)

\* codec.go: a message is validated before it is written and after it is read.
Encode(m, rules) == Satisfies(m, rules) /\ Encodable(m)

\* The rules of the types internal/contract has a codec for: what an agent is
\* asked, ...
RequestCodec == [command   |-> ValidateConfigureCommand,
                 record    |-> ValidateDesiredConfigRecord,
                 configure |-> ValidateConfigureNotification,
                 action    |-> ValidateActionCommand]

\* ... and what it answers, with stricter rules for answers to a configure
\* command.
OutcomeCodec == [result           |-> ValidateResultEnvelope,
                 status           |-> ValidateStatusEnvelope,
                 configure_result |-> ValidateConfigureResultEnvelope,
                 configure_status |-> ValidateConfigureStatusEnvelope]

Codec(type) == IF type \in DOMAIN RequestCodec THEN RequestCodec[type]
               ELSE OutcomeCodec[type]

-----------------------------------------------------------------------------
(* What the library accepts for sending or storing, and what it passes on  *)
(* to a handler or returns from the store.                                 *)

Runtime == [configure |-> validateConfigureNotification,
            action    |-> validateActionCommand,
            result    |-> validateResultEnvelope,
            status    |-> validateStatusEnvelope,
            record    |-> validateDesiredConfigRecord]

\* SubmitConfigure, SubmitAction, PublishResult, PublishStatus and
\* StoreDesiredConfig
Sends(type, m) == Encode(m, Runtime[type])

\* The callbacks of the subscriptions, and LoadDesiredConfig
Receives(type, data) == Decodes(type, data, Runtime[type])
=============================================================================
