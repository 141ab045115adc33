--------------------------- MODULE MCGatewayNode ---------------------------
(* Instances of GatewayNode for TLC. *)
EXTENDS GatewayNode, MockPublisher, TLC

CONSTANTS e, w

\* The executor's thread constructs and destroys, the worker inserts.
NodeCalls == (Executor :> {"init", "close"}) @@ (Worker :> {"insert"})

Text(syntax, member) == [syntax |-> syntax, object |-> TRUE, member |-> member]
Ids(sequence_id, timestamp_ns) ==
    Text("json", [sequence_id |-> Number(sequence_id), timestamp_ns |-> Number(timestamp_ns)])

ASSUME MCSpacing == \A x \in -200 .. 200 : SpacingFacts(x)

\* A reading that is not a number, a name that is not a string, an array.
Velocity == Text("json", [robot_id |-> <<"string">>, velocity_x |-> <<"string">>])
Mistyped == Text("json", [client_id |-> Number(One), battery |-> Number(One)])
Array == [syntax |-> "json", object |-> FALSE, member |-> "0" :> Number(2 * One)]
NotJson == Text("not_json", <<>>)
TooLarge == Text("number_overflow", <<>>)

\* Identifiers at the edges: the ends of the signed range, just outside it, not
\* exact as a double, a fraction, and outside of what uint64_t can hold.
Edges == {Ids((Half - 1) * One, -Half * One), Ids(Half * One, (2 ^ Mantissa + 1) * One),
          Ids(One + One \div 2, (Max64 + 9) * One)}

Packet(text) == Envelope(text, PRE_SHARED_KEY, "iv1")
Valid == Sample(3, "iv1")

AllPackets ==
    {Sample(1, "iv1"), Sample(2, "iv2"), Valid}
    \cup {Packet(text) : text \in Edges \cup {Velocity, Mistyped, Array, NotJson, TooLarge}}
    \cup {Envelope(Payload(3), Bytes(32, "other_key"), "iv1"),
          [Valid EXCEPT !.iv = Bytes(12, "iv2")],
          [Valid EXCEPT !.tag = Bytes(12, Valid.tag.val)],
          [Valid EXCEPT !.ciphertext = Sample(1, "iv1").ciphertext],
          [Valid EXCEPT !.envelope = FALSE]}

\* What matters to the queue and the worker: a record with a topic,
\* one without, a refusal and an exception.
SomePackets == {Packet(Text("json", [battery |-> Number(One)])), Packet(Text("json", <<>>)),
                Packet(NotJson), Packet(TooLarge)}
=============================================================================
