--------------------------- MODULE MockPublisher ---------------------------
(***************************************************************************)
(* The sample that publish_telemetry_sample of the mock publisher makes at *)
(* each tick of its timer, as an operator of counter_.  The publisher logs *)
(* the sealed sample and sends it nowhere; Sample puts it into the         *)
(* envelope that the node expects.                                         *)
(***************************************************************************)
EXTENDS SecurityEngine, TelemetryIngestion

Number(x) == <<"number", x>>

\* The sensor readings take turns.
Readings(counter) ==
    CASE counter % 3 = 0 -> [battery |-> Number(((985 - counter) * One) \div 10)]
      [] counter % 3 = 1 -> [temperature |-> Number(((4230 + 5 * counter) * One) \div 100)]
      [] OTHER -> [velocity_x |-> Number((75 * One) \div 100), velocity_y |-> Number(0)]

Payload(counter) ==
    LET header == [client_id |-> <<"string">>, sequence_id |-> Number(counter * One),
                   timestamp_ns |-> Number(Now * One)]
        readings == Readings(counter)
    IN [syntax |-> "json", object |-> TRUE,
        member |-> [key \in DOMAIN header \cup DOMAIN readings |->
                       IF key \in DOMAIN header THEN header[key] ELSE readings[key]]]

PublisherKey == Bytes(32, "psk")

\* The envelope of a text sealed under key with a fresh IV.
Envelope(text, key, random) ==
    LET iv == generate_secure_random_bytes(12, random)
        sealed == encrypt_aes_gcm(Bytes(80, text), key, iv)
    IN [envelope |-> TRUE, client_id |-> "robot", ciphertext |-> sealed.ciphertext,
        iv |-> iv, tag |-> sealed.tag]

Sample(counter, random) == Envelope(Payload(counter), PublisherKey, random)
=============================================================================
