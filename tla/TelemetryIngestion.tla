------------------------- MODULE TelemetryIngestion -------------------------
(***************************************************************************)
(* ingestion::TelemetryIngestionEngine.  A text is what nlohmann::json     *)
(* makes of it, [syntax, object, member]: it may not be JSON, it may hold  *)
(* a number that does not fit a double, or it is a value whose members are *)
(* strings, numbers (<<"number", x>>) or something else.  items() goes     *)
(* through the elements of an array, or a lone value, as through members;  *)
(* contains() finds a key in an object only.  An exception that is not a   *)
(* parse_error leaves the functions.  Converting a number may be           *)
(* undefined, so that a function's outcome is a set.                       *)
(***************************************************************************)
EXTENDS TelemetryRecord, ContainersQueue

contains(text, key) == text.object /\ key \in DOMAIN text.member
Kind(text, key) == text.member[key][1]

\* The member that names the robot, client_id first.
IdKey(text) == IF contains(text, "client_id") THEN "client_id"
               ELSE IF contains(text, "robot_id") THEN "robot_id" ELSE "unknown_robot"

\* get<std::string>() and get<uint64_t>() throw type_error on another kind.
TypeError(text) ==
    \/ IdKey(text) # "unknown_robot" /\ Kind(text, IdKey(text)) # "string"
    \/ \E key \in {"sequence_id", "timestamp_ns"} :
          contains(text, key) /\ Kind(text, key) # "number"

\* What an identifier can become: 0 or the time stands in for an absent one.
Identifier(text, key, absent) ==
    IF contains(text, key) THEN get_uint64(text.member[key][2]) ELSE {absent}

\* The sensor category is decided by presence, whatever the member's kind.
SensorType(text) == IF contains(text, "battery") THEN "battery"
                    ELSE IF contains(text, "temperature") THEN "temperature"
                    ELSE IF contains(text, "velocity_x") THEN "velocity" ELSE "generic"

\* Every member or element that is a number, the identifiers included, as a double.
PayloadValues(text) ==
    [key \in {k \in DOMAIN text.member : Kind(text, k) = "number"} |->
        double(text.member[key][2])]

TelemetryDataOf(text) ==
    {[robot_id |-> IdKey(text),
      sensor_type |-> SensorType(text),
      sequence_id |-> sequence_id,
      timestamp_ns |-> timestamp_ns,
      payload_values |-> PayloadValues(text)] :
         sequence_id \in Identifier(text, "sequence_id", 0),
         timestamp_ns \in Identifier(text, "timestamp_ns", Now)}

\* The status, or "exception" when one escapes, and the record on SUCCESS.
parse_and_validate(text) ==
    IF text.syntax = "not_json" THEN {[status |-> "INVALID_JSON_SYNTAX"]}
    ELSE IF text.syntax = "number_overflow" \/ TypeError(text)
    THEN {[status |-> "exception"]}
    ELSE {[status |-> "SUCCESS", out_data |-> data] : data \in TelemetryDataOf(text)}

\* The status and the queue it leaves; a full queue turns SUCCESS into QUEUE_FULL.
process_payload(text, queue) ==
    {IF r.status # "SUCCESS" THEN [status |-> r.status, queue |-> queue]
     ELSE [status |-> IF PushFits(queue) THEN "SUCCESS" ELSE "QUEUE_FULL",
           queue |-> push(queue, r.out_data)] : r \in parse_and_validate(text)}
=============================================================================
