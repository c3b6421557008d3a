----------------------------- MODULE MCControl -----------------------------
(* Two backends. A tick finds them idle, or both beyond the cap, one slow   *)
(* and the other failing; what the loop reads while a tick is written may   *)
(* be any mixture of these. The network returns a vector with a negative    *)
(* part, which leaves nothing when the other backend is down.               *)
EXTENDS Control, TLC

Measured(load, lat, err) == [load |-> load, lat |-> lat, err |-> err]
Idling == Measured(0, 0, 0)
Slow == Measured(100, 1000, 0)
Failing == Measured(90, 0, 10)

MCColumns == {(0 :> Idling @@ 1 :> Idling), (0 :> Slow @@ 1 :> Failing)}

MCParts == (0 :> 4 @@ 1 :> 2 @@ 2 :> 1)

MCOutputs == {(0 :> 8 @@ 1 :> -2)}
=============================================================================
