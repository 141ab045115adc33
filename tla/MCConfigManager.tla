-------------------------- MODULE MCConfigManager --------------------------
(* Instances of ConfigManager, and of Logger under it, for TLC. *)
EXTENDS ConfigManager

CONSTANTS a, b

Map == [kind |-> "map"]
Scalar(value, types) == [kind |-> "scalar", value |-> value, types |-> types]

\* gateway.port as a number, gateway as a scalar, and a file with nothing in it.
Nested == (<<>> :> Map) @@ (<<"gateway">> :> Map)
          @@ (<<"gateway", "port">> :> Scalar("8080", {"int", "string"}))
Flat == (<<>> :> Map) @@ (<<"gateway">> :> Scalar("edge", {"string"}))

AllDocuments == {Nested, Flat, Empty}
AllPaths == {<<"gateway">>, <<"gateway", "port">>, <<"gateway", "host">>}
=============================================================================
