-------------------------- MODULE TelemetryRecord --------------------------
(***************************************************************************)
(* models::TelemetryData and what becomes of its numbers: from the text of *)
(* a packet into uint64_t and double members, and from there into the      *)
(* columns of a row.  The widths are parameters: uint64_t has Word bits, a *)
(* double Mantissa significant bits, a float SingleMantissa.  A number is  *)
(* written as a multiple of a unit, 1 being One units, and to_string keeps *)
(* multiples of Micro units.  An integral number of a text is written as   *)
(* an integer.                                                             *)
(***************************************************************************)
EXTENDS Integers

CONSTANTS Word, Mantissa, SingleMantissa, One, Micro,
          Now   \* system_clock::now(), in nanoseconds

Half == 2 ^ (Word - 1)
Max64 == 2 * Half - 1

ASSUME RecordAssumption == /\ {Word, Mantissa, SingleMantissa, One, Micro} \subseteq Nat \ {0}
                           /\ Now \in 0 .. Max64

Abs(x) == IF x < 0 THEN -x ELSE x

\* x rounded to a multiple of g, halfway cases to the even one.
Rounded(x, g) ==
    LET q == x \div g
        up == 2 * (x % g) > g \/ (2 * (x % g) = g /\ q % 2 = 1)
    IN (IF up THEN q + 1 ELSE q) * g

\* The distance of the floating point numbers with that many bits around x.
Spacing(x, bits) ==
    2 ^ (CHOOSE k \in 0 .. Abs(x) : /\ Abs(x) < 2 ^ (k + bits)
                                    /\ \A j \in 0 .. k - 1 : Abs(x) >= 2 ^ (j + bits))

double(x) == Rounded(x, Spacing(x, Mantissa))
single(x) == Rounded(x, Spacing(x, SingleMantissa))

\* What the powers of two come to around x: rounding to a float does not step into
\* a denser range of floats.
SpacingFacts(x) ==
    /\ {Spacing(x, Mantissa), Spacing(x, SingleMantissa)} \subseteq Nat \ {0}
    /\ Spacing(x, SingleMantissa) <= Spacing(single(x), SingleMantissa)

\* Doubles hold the integers of up to Mantissa bits exactly; Half is said to be
\* positive because the provers know no powers.
ASSUME FormatAssumption ==
    /\ Half \in Nat \ {0}
    /\ \A n \in -2 ^ Mantissa .. 2 ^ Mantissa : double(n * One) = n * One

Truncated(x) == IF x < 0 THEN -((-x) \div One) ELSE x \div One

\* json::get<uint64_t>(): an integer that fits 64 bits, signed or not, is taken
\* modulo 2^64; everything else was read as a double, whose conversion is
\* undefined when it does not fit.  Processors wrap, saturate or yield Half.
get_uint64(x) ==
    IF x % One = 0 /\ x \div One \in -Half .. Max64 THEN {(x \div One) % (2 * Half)}
    ELSE IF Truncated(double(x)) \in 0 .. Max64 THEN {Truncated(double(x))}
    ELSE {0, Half, Max64, Truncated(double(x)) % (2 * Half)}

\* Mutant: 2^63 - 1 is taken to be out of range.
ShiftedInt64(u) == IF u < Half - 1 THEN u ELSE u - 2 * Half

\* static_cast<sqlite3_int64>
Int64(u) == IF u < Half THEN u ELSE u - 2 * Half

\* std::to_string(double): six decimals.
to_string(x) == Rounded(x, Micro)

\* What is bound to the insert statement.
RowOf(data) ==
    [robot_id |-> data.robot_id,
     sensor_type |-> data.sensor_type,
     timestamp_ns |-> Int64(data.timestamp_ns),
     sequence_id |-> Int64(data.sequence_id),
     payload_json |-> [key \in DOMAIN data.payload_values |->
                          to_string(data.payload_values[key])]]
=============================================================================
