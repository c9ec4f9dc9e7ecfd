---------------------------- MODULE WireProtocol ----------------------------
(***************************************************************************)
(* The three generations of the Broker's newline-delimited JSON protocol   *)
(* (crates/agent-broker-protocol): request and response envelopes, their   *)
(* payload schemas, their byte bounds, and the strict decoders on the two  *)
(* ends.  Pure operators; BrokerExchange runs them against each other.     *)
(*                                                                         *)
(* A JSON object is a function from its keys to values, and a typed        *)
(* request or result one from its fields.  A value is a pair               *)
(* <<field, level>>: the field of the caller's request, or of the Broker's *)
(* result, that it is the value of, and where it lies in that field's      *)
(* contract.  It keeps the field's name wherever it is copied to.          *)
(*                                                                         *)
(* Every list of fields that the code spells out by hand is a table of its *)
(* own here, read from its own lines: what is written |-> what is read.    *)
(* No two of them share a definition, so that they may disagree.           *)
(***************************************************************************)
EXTENDS Integers, Sequences, FiniteSets, FiniteSetsExt, TLC

\* Levels of a value.  Null is JSON null, Zero a zero, an empty string or an
\* empty list, Ordinary a short legal value, Largest the longest one the
\* contract admits, Beyond one past it.  Reordered is a capability list that
\* repeats and permutes the Ordinary one.
Null == -1
Zero == 0
Ordinary == 1
Largest == 2
Beyond == 3
Reordered == 4

\* Fields that a list copies under their own name.
Same(fields) == [field \in fields |-> field]

\* A record through such a list.
Through(list, record) == [field \in DOMAIN list |-> record[list[field]]]

DefaultMaxFrameBytes == 131072
MinimumFrameBytes == 4096

---------------------------------------------------------------------------
(* Payloads of requests: encoder, schema, decoder                          *)

Operations ==
    {"health", "namespace_ensure", "task_publish", "group_ensure", "group_join", "group_heartbeat", "group_leave",
     "task_claim", "task_renew", "task_complete"}

\* The protocol-v3 operation that carries no Broker payload.
AcquireOwner == "acquire_command_session_owner"

\* Mutant: an encoder that writes the group under the key of the member.
MembershipMixed == ("member_id" :> "group_id") @@ Same({"group_id", "expected_generation"})

\* membership_payload, for a heartbeat and for leaving.
MembershipPayload == Same({"group_id", "member_id", "expected_generation"})

\* request_payload: the keys written, each with the request's field.
RequestKeys ==
    [health           |-> Same({}),
     namespace_ensure |-> Same({"namespace_id"}),
     task_publish     |-> Same({"namespace_id", "task_id", "objective"}),
     group_ensure     |-> Same({"namespace_id", "group_id"}),
     group_join       |-> Same({"group_id", "member_id", "capabilities"}),
     group_heartbeat  |-> MembershipPayload,
     group_leave      |-> MembershipPayload,
     task_claim       |-> ("lease_duration_ms" :> "lease_duration")
                            @@ Same({"group_id", "member_id", "expected_term", "expected_generation", "lease_id"}),
     task_renew       |-> ("lease_duration_ms" :> "lease_duration")
                            @@ Same({"task_id", "group_id", "member_id", "expected_term", "expected_generation",
                                     "expected_lease_epoch", "lease_id"}),
     task_complete    |-> Same({"task_id", "group_id", "member_id", "expected_term", "expected_generation",
                                "expected_lease_epoch", "lease_id", "result"})]

\* The payload structures, which deny unknown fields.
PayloadKeys ==
    LET membership == {"group_id", "member_id", "expected_generation"}
    IN  [health           |-> {},
         namespace_ensure |-> {"namespace_id"},
         task_publish     |-> {"namespace_id", "task_id", "objective"},
         group_ensure     |-> {"namespace_id", "group_id"},
         group_join       |-> {"group_id", "member_id", "capabilities"},
         group_heartbeat  |-> membership,
         group_leave      |-> membership,
         task_claim       |-> {"group_id", "member_id", "expected_term", "expected_generation", "lease_id",
                               "lease_duration_ms"},
         task_renew       |-> {"task_id", "group_id", "member_id", "expected_term", "expected_generation",
                               "expected_lease_epoch", "lease_id", "lease_duration_ms"},
         task_complete    |-> {"task_id", "group_id", "member_id", "expected_term", "expected_generation",
                               "expected_lease_epoch", "lease_id", "result"}]

\* decode_health .. decode_complete: the request's fields, each with its key.
DecodedFields ==
    [health           |-> Same({}),
     namespace_ensure |-> Same({"namespace_id"}),
     task_publish     |-> Same({"namespace_id", "task_id", "objective"}),
     group_ensure     |-> Same({"namespace_id", "group_id"}),
     group_join       |-> Same({"group_id", "member_id", "capabilities"}),
     group_heartbeat  |-> Same({"group_id", "member_id", "expected_generation"}),
     group_leave      |-> Same({"group_id", "member_id", "expected_generation"}),
     task_claim       |-> ("lease_duration" :> "lease_duration_ms")
                            @@ Same({"group_id", "member_id", "expected_term", "expected_generation", "lease_id"}),
     task_renew       |-> ("lease_duration" :> "lease_duration_ms")
                            @@ Same({"task_id", "group_id", "member_id", "expected_term", "expected_generation",
                                     "expected_lease_epoch", "lease_id"}),
     task_complete    |-> Same({"task_id", "group_id", "member_id", "expected_term", "expected_generation",
                                "expected_lease_epoch", "lease_id", "result"})]

---------------------------------------------------------------------------
(* Results: encoder, schema, decoder                                       *)

\* The fields a lease adds to a claim result: all present or all null.
LeaseFields == {"task_id", "objective", "task_revision", "lease_id", "lease_epoch", "lease_expires_at_ms"}

\* Mutant: an encoder that writes the Broker's revision under the task's key.
TaskStatusSwapped == ("task_revision" :> "revision") @@ Same({"revision", "status", "task_id", "term"})

\* task_status_payload, for a published and for a completed task.
TaskStatusPayload == Same({"revision", "status", "task_id", "task_revision", "term"})

\* success_payload: the keys written, each with the success payload's field.
SuccessKeys ==
    [Health           |-> Same({"protocol_version", "revision", "term"}),
     Namespace        |-> Same({"namespace_id", "namespace_revision", "revision", "term"}),
     TaskPublished    |-> TaskStatusPayload,
     TaskCompleted    |-> TaskStatusPayload,
     ConsumerGroup    |-> Same({"generation", "group_id", "group_revision", "member_count", "revision", "term"}),
     Heartbeat        |-> Same({"generation", "group_id", "member_id", "member_revision", "revision", "term"}),
     TaskClaimed      |-> Same({"generation", "lease_epoch", "lease_expires_at_ms", "lease_id", "objective",
                                "revision", "task_id", "task_revision", "term"}),
     TaskLeaseRenewed |-> Same({"generation", "lease_epoch", "lease_expires_at_ms", "lease_id", "revision",
                                "task_id", "task_revision", "term"}),
     SessionOwnerAcquired |-> Same({"owner_epoch"})]

\* The result structures and the key lists that the decoders demand.
ResultKeys ==
    [Health           |-> {"protocol_version", "revision", "term"},
     Namespace        |-> {"namespace_id", "namespace_revision", "revision", "term"},
     TaskPublished    |-> {"revision", "status", "task_id", "task_revision", "term"},
     TaskCompleted    |-> {"revision", "status", "task_id", "task_revision", "term"},
     ConsumerGroup    |-> {"generation", "group_id", "group_revision", "member_count", "revision", "term"},
     Heartbeat        |-> {"generation", "group_id", "member_id", "member_revision", "revision", "term"},
     TaskClaimed      |-> {"generation", "lease_epoch", "lease_expires_at_ms", "lease_id", "objective", "revision",
                           "task_id", "task_revision", "term"},
     TaskLeaseRenewed |-> {"generation", "lease_epoch", "lease_expires_at_ms", "lease_id", "revision", "task_id",
                           "task_revision", "term"},
     SessionOwnerAcquired |-> {"owner_epoch"}]

\* decode_health_result .. decode_task_completed_result: the fields of the
\* success payload, each with its key.
DecodedResult ==
    [Health           |-> Same({"protocol_version", "term", "revision"}),
     Namespace        |-> Same({"term", "revision", "namespace_id", "namespace_revision"}),
     TaskPublished    |-> Same({"term", "revision", "task_id", "task_revision", "status"}),
     TaskCompleted    |-> Same({"term", "revision", "task_id", "task_revision", "status"}),
     ConsumerGroup    |-> Same({"term", "revision", "group_id", "generation", "group_revision", "member_count"}),
     Heartbeat        |-> Same({"term", "revision", "group_id", "member_id", "generation", "member_revision"}),
     TaskClaimed      |-> Same({"term", "revision", "task_id", "objective", "task_revision", "lease_id",
                                "lease_epoch", "lease_expires_at_ms", "generation"}),
     TaskLeaseRenewed |-> Same({"term", "revision", "task_id", "task_revision", "lease_id", "lease_epoch",
                                "lease_expires_at_ms", "generation"}),
     SessionOwnerAcquired |-> Same({"owner_epoch"})]

\* The variant a response to an operation is decoded as.
VariantOf(operation) ==
    CASE operation = "health" -> "Health"
      [] operation = "namespace_ensure" -> "Namespace"
      [] operation = "task_publish" -> "TaskPublished"
      [] operation \in {"group_ensure", "group_join", "group_leave"} -> "ConsumerGroup"
      [] operation = "group_heartbeat" -> "Heartbeat"
      [] operation = "task_claim" -> "TaskClaimed"
      [] operation = "task_renew" -> "TaskLeaseRenewed"
      [] operation = "task_complete" -> "TaskCompleted"
      [] operation = AcquireOwner -> "SessionOwnerAcquired"

---------------------------------------------------------------------------
(* The contracts of the values                                             *)

Identifiers ==
    {"namespace_id", "task_id", "group_id", "member_id", "lease_id", "request_id", "command_session_id",
     "owner_instance_id"}

\* Unsigned 64-bit counters that may be zero.
Counters ==
    {"expected_generation", "expected_lease_epoch", "revision", "generation", "lease_epoch",
     "lease_expires_at_ms", "member_count"}

\* The levels a validated constructor accepts.  A claim's task_revision is the
\* one revision of an entity that the response decoder lets be zero.
Accepts(field) ==
    CASE field = "capabilities" -> {Zero, Ordinary, Largest, Reordered}
      [] field = "protocol_version" -> {Ordinary}
      [] field = "status" -> {Zero, Ordinary, Largest}
      [] field \in Counters -> {Zero, Ordinary, Largest}
      [] OTHER -> {Ordinary, Largest}

\* The order and the repetitions of declared capabilities are dropped when
\* they become the domain's set.
Normalized(value) ==
    IF value = <<"capabilities", Reordered>> THEN <<"capabilities", Ordinary>> ELSE value

\* The bytes in JSON of the longest texts and of the longest capability list.
\* A text may consist of control characters, which JSON writes in six bytes.
LongBytes == [objective |-> 6 * 16384, result |-> 6 * 65536, capabilities |-> 64 * 67]

\* A frame is as long as its longest value: all the others together stay
\* below the smallest bound that can be configured.
FrameBytes(objects) ==
    LET values == UNION {{object[key] : key \in DOMAIN object} : object \in objects}
    IN  Max({0} \cup {LongBytes[value[1]] :
                        value \in {v \in values : v[1] \in DOMAIN LongBytes /\ v[2] \in {Largest, Beyond}}})

RequestBytes(frame) == FrameBytes({frame.head, frame.payload})
ResponseBytes(reply) == FrameBytes({reply.result})

---------------------------------------------------------------------------
(* Requests                                                                *)

Absent == [key \in {} |-> Null]
Undecodable == [ok |-> FALSE, version |-> 0, operation |-> "health", head |-> Absent, fields |-> Absent]

\* CommandIdentity::new: the first owner epoch, and no owner instance.
Unowned == [owner_epoch |-> <<"owner_epoch", Ordinary>>, owner_instance_id |-> <<"owner_instance_id", Null>>]

\* The envelope fields besides version, operation and payload.
RequiredHead(version, operation) ==
    CASE version = 1 -> {"request_id"}
      [] version = 2 -> {"request_id", "command_session_id", "command_sequence"}
      [] version = 3 /\ operation = AcquireOwner ->
            {"request_id", "command_session_id", "owner_instance_id", "expected_owner_epoch"}
      [] OTHER -> {"request_id", "command_session_id", "owner_instance_id", "owner_epoch", "command_sequence"}

\* A frame past the bound is not sent.
BoundedRequest(frame, limit) == [fits |-> RequestBytes(frame) <= limit, frame |-> frame]

\* encode_request_with_limit.
EncodeRequest(request, limit) ==
    BoundedRequest([version   |-> 1,
                    operation |-> request.operation,
                    head      |-> Through(Same({"request_id"}), request.head),
                    payload   |-> Through(RequestKeys[request.operation], request.fields)], limit)

\* encode_identified_request_with_limit: the protocol-v1 frame under another
\* version, with the identity in its head.
EncodeIdentifiedRequest(request, limit) ==
    LET keys == [request_id |-> "request_id", command_session_id |-> "session_id", command_sequence |-> "sequence"]
    IN  BoundedRequest([EncodeRequest(request, limit).frame EXCEPT !.version = 2,
                                                                   !.head = Through(keys, request.head)], limit)

\* encode_owner_mutation_request_with_limit.
EncodeOwnerMutation(request, limit) ==
    LET keys == [request_id |-> "request_id", command_session_id |-> "session_id", owner_epoch |-> "owner_epoch",
                 owner_instance_id |-> "owner_instance_id", command_sequence |-> "sequence"]
    IN  BoundedRequest([EncodeRequest(request, limit).frame EXCEPT !.version = 3,
                                                                   !.head = Through(keys, request.head)], limit)

\* encode_owner_acquisition_request_with_limit: the payload is empty.
EncodeOwnerAcquisition(request, limit) ==
    LET keys == [request_id |-> "request_id", command_session_id |-> "session_id",
                 expected_owner_epoch |-> "expected_owner_epoch", owner_instance_id |-> "owner_instance_id"]
    IN  BoundedRequest([version |-> 3, operation |-> AcquireOwner, head |-> Through(keys, request.head),
                        payload |-> Absent], limit)

\* Every key of the schema, no other, and every value within its contract.
Conforms(object, keys) ==
    /\ DOMAIN object = keys
    /\ \A key \in keys : object[key][2] \in Accepts(key)

\* decode_request_with_limit: one legacy protocol-v1 request.
DecodeRequest(frame, limit) ==
    IF /\ RequestBytes(frame) <= limit
       /\ Conforms(frame.head, {"request_id"})
       /\ frame.operation \in Operations
       /\ Conforms(frame.payload, PayloadKeys[frame.operation])
    THEN [ok |-> TRUE, version |-> 1, operation |-> frame.operation, head |-> frame.head,
          fields |-> Through(DecodedFields[frame.operation], frame.payload)]
    ELSE Undecodable

\* The protocol-v1 request inside a v2 or v3 one.
Inner(frame) == [frame EXCEPT !.version = 1, !.head = Through(Same({"request_id"}), frame.head)]

\* decode_identified_request_with_limit: the identity must be valid, the rest
\* is decoded as protocol-v1, and a health read is refused.  Nobody owns the
\* session but the first owner.
DecodeIdentifiedRequest(frame, limit) ==
    LET inner == DecodeRequest(Inner(frame), limit)
        list  == [request_id |-> "request_id", session_id |-> "command_session_id", sequence |-> "command_sequence"]
    IN  IF /\ Conforms(frame.head, RequiredHead(2, frame.operation))
           /\ inner.ok
           /\ inner.operation # "health"
        THEN [inner EXCEPT !.version = 2, !.head = Unowned @@ Through(list, frame.head)]
        ELSE Undecodable

\* The optional envelope fields of protocol-v3: null is the same as missing.
WithoutNulls(head) ==
    [key \in {k \in DOMAIN head : k \in {"owner_epoch", "expected_owner_epoch", "command_sequence"}
                                    => head[k][2] # Null} |-> head[key]]

\* decode_owner_acquisition.
DecodeOwnerAcquisition(frame) ==
    LET head == WithoutNulls(frame.head)
        list == [request_id |-> "request_id", session_id |-> "command_session_id",
                 expected_owner_epoch |-> "expected_owner_epoch", owner_instance_id |-> "owner_instance_id"]
    IN  IF Conforms(head, RequiredHead(3, AcquireOwner)) /\ frame.payload = Absent
        THEN [ok |-> TRUE, version |-> 3, operation |-> AcquireOwner, head |-> Through(list, head), fields |-> Absent]
        ELSE Undecodable

\* decode_owner_mutation.
DecodeOwnerMutation(frame, limit) ==
    LET head  == WithoutNulls(frame.head)
        inner == DecodeRequest(Inner(frame), limit)
        list  == [request_id |-> "request_id", session_id |-> "command_session_id", owner_epoch |-> "owner_epoch",
                  owner_instance_id |-> "owner_instance_id", sequence |-> "command_sequence"]
    IN  IF /\ Conforms(head, RequiredHead(3, frame.operation))
           /\ inner.ok
           /\ inner.operation # "health"
        THEN [inner EXCEPT !.version = 3, !.head = Through(list, head)]
        ELSE Undecodable

\* decode_wire_request_with_limit: the version probe selects the decoder.
DecodeWireRequest(frame, limit) ==
    CASE RequestBytes(frame) > limit \/ "request_id" \notin DOMAIN frame.head -> Undecodable
      [] frame.version = 1 -> DecodeRequest(frame, limit)
      [] frame.version = 2 -> DecodeIdentifiedRequest(frame, limit)
      [] frame.version = 3 /\ frame.operation = AcquireOwner -> DecodeOwnerAcquisition(frame)
      [] frame.version = 3 -> DecodeOwnerMutation(frame, limit)
      [] OTHER -> Undecodable

---------------------------------------------------------------------------
(* Responses                                                               *)

\* encode_response_with_limit.  The error message has a bound of its own, and
\* the acquisition of a session is nothing protocol-v1 can express.
EncodeResponse(request_id, outcome, limit) ==
    LET reply == [version    |-> 1,
                  request_id |-> request_id,
                  ok         |-> outcome.ok,
                  result     |-> IF outcome.ok THEN Through(SuccessKeys[outcome.variant], outcome.fields) ELSE Absent,
                  error      |-> IF outcome.ok THEN Absent
                                 ELSE [code    |-> <<outcome.error.code, Ordinary>>,
                                       message |-> <<"message", outcome.error.message>>]]
    IN  [fits  |-> /\ ResponseBytes(reply) <= limit
                   /\ IF outcome.ok THEN outcome.variant # "SessionOwnerAcquired"
                      ELSE outcome.error.message # Beyond,
         reply |-> reply]

\* encode_response_v2_with_limit: the same frame under another version.
EncodeResponseV2(request_id, outcome, limit) ==
    [EncodeResponse(request_id, outcome, limit) EXCEPT !.reply.version = 2]

\* encode_response_v3_with_limit: only here an error says whether the command
\* was committed, and only here an acquired epoch has a place.
EncodeResponseV3(request_id, outcome, limit) ==
    LET v1    == EncodeResponse(request_id, outcome, limit)
        reply == [v1.reply EXCEPT !.version = 3,
                                  !.error = IF outcome.ok THEN Absent
                                            ELSE [code        |-> v1.reply.error.code,
                                                  message     |-> v1.reply.error.message,
                                                  disposition |-> <<outcome.error.disposition, Ordinary>>]]
    IN  [fits  |-> /\ ResponseBytes(reply) <= limit
                   /\ v1.fits \/ (outcome.ok /\ outcome.variant = "SessionOwnerAcquired"),
         reply |-> reply]

NoError == [code |-> "none", message |-> Ordinary, disposition |-> "UNKNOWN"]
Success(variant, fields) == [ok |-> TRUE, variant |-> variant, fields |-> fields, error |-> NoError]
Failure(error) == [ok |-> FALSE, variant |-> "none", fields |-> Absent, error |-> error]
Error(code, disposition) == [code |-> code, message |-> Ordinary, disposition |-> disposition]

\* What a response that breaks the protocol is to the client.
ProtocolError == Failure(Error("PROTOCOL", "UNKNOWN"))

\* A claim result is a whole lease or none.
ClaimComplete(result) ==
    \/ \A key \in LeaseFields : result[key][2] = Null
    \/ \A key \in LeaseFields : result[key][2] # Null

\* decode_success_payload and the decoders it selects.
DecodeSuccessPayload(operation, result) ==
    LET variant == VariantOf(operation)
        lenient == IF variant = "TaskClaimed" THEN LeaseFields ELSE {}
        legal(key) ==
            \/ result[key][2] \in Accepts(key)
            \/ key \in lenient /\ result[key][2] = Null
            \/ key \in lenient /\ key = "task_revision" /\ result[key][2] = Zero
    IN  IF /\ DOMAIN result = ResultKeys[variant]
           /\ \A key \in DOMAIN result : legal(key)
           /\ variant = "TaskClaimed" => ClaimComplete(result)
        THEN Success(variant, Through(DecodedResult[variant], result))
        ELSE ProtocolError

\* The codes and dispositions a client knows.
ErrorCodes ==
    {"INVALID_REQUEST", "NOT_FOUND", "CONFLICT", "CAPACITY_EXCEEDED", "STALE_FENCE", "PERSISTENCE_ERROR",
     "TRANSPORT_ERROR", "COMMIT_OUTCOME_UNKNOWN", "INTERNAL_ERROR"}

Dispositions == {"COMMITTED", "REJECTED", "UNKNOWN"}

\* decode_response_for_operation_with_limit.  A protocol-v1 error does not say
\* what became of the command.
DecodeResponseForOperation(reply, request_id, operation, limit) ==
    CASE \/ ResponseBytes(reply) > limit
         \/ reply.version # 1
         \/ reply.request_id # request_id
         \/ reply.ok /\ (reply.error # Absent \/ reply.result = Absent)
         \/ ~reply.ok /\ (reply.result # Absent \/ DOMAIN reply.error # {"code", "message"}) -> ProtocolError
      [] reply.ok -> DecodeSuccessPayload(operation, reply.result)
      [] OTHER -> IF /\ reply.error["code"][1] \in ErrorCodes
                     /\ reply.error["message"][2] \in {Zero, Ordinary, Largest}
                  THEN Failure([code        |-> reply.error["code"][1],
                                message     |-> reply.error["message"][2],
                                disposition |-> "UNKNOWN"])
                  ELSE ProtocolError

\* decode_response_v2_for_operation_with_limit.
DecodeResponseV2(reply, request_id, operation, limit) ==
    IF ResponseBytes(reply) > limit \/ reply.version # 2 THEN ProtocolError
    ELSE DecodeResponseForOperation([reply EXCEPT !.version = 1], request_id, operation, limit)

\* response_error_disposition: an error object has exactly one known one.
ErrorDispositionOk(reply) ==
    reply.error # Absent => /\ DOMAIN reply.error = {"code", "message", "disposition"}
                            /\ reply.error["disposition"][1] \in Dispositions

\* v3_response_to_v1.
V3ResponseToV1(reply) ==
    [reply EXCEPT !.version = 1,
                  !.error = [key \in DOMAIN reply.error \ {"disposition"} |-> reply.error[key]]]

\* The error a protocol-v1 decoder saw, with its protocol-v3 disposition.
WithDisposition(decoded, reply) ==
    IF decoded.ok \/ decoded = ProtocolError THEN decoded
    ELSE [decoded EXCEPT !.error.disposition = reply.error["disposition"][1]]

\* decode_owner_mutation_response_with_limit.
DecodeOwnerMutationResponse(reply, request_id, operation, limit) ==
    IF ResponseBytes(reply) > limit \/ ~ErrorDispositionOk(reply) \/ reply.version # 3 THEN ProtocolError
    ELSE WithDisposition(DecodeResponseForOperation(V3ResponseToV1(reply), request_id, operation, limit), reply)

\* decode_owner_acquisition_response_with_limit: an epoch and nothing else, or
\* an error decoded as that of some protocol-v1 operation.
DecodeOwnerAcquisitionResponse(reply, request_id, limit) ==
    CASE \/ ResponseBytes(reply) > limit
         \/ reply.version # 3
         \/ reply.request_id # request_id
         \/ ~ErrorDispositionOk(reply) -> ProtocolError
      [] ~reply.ok -> WithDisposition(DecodeResponseForOperation(V3ResponseToV1(reply), request_id, "namespace_ensure",
                                                                 limit), reply)
      [] OTHER -> IF reply.error = Absent THEN DecodeSuccessPayload(AcquireOwner, reply.result) ELSE ProtocolError

=============================================================================
