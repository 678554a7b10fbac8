----------------------------- MODULE MCForecast -----------------------------
(* Instances of Forecast for TLC. *)
EXTENDS Forecast, TLC

TwoSegments == (0 :> 0) @@ (1 :> 4) @@ (2 :> 6)
OneSegment == (0 :> 0) @@ (1 :> 6)
GdasSegment == (0 :> 0) @@ (1 :> 3)

Warm == {Comps}
\* Nothing, or all but one restart, of the previous cycle; or no atmosphere.
SomeStaging ==
    {{}, Comps, (Comps \ {"fv3"}) \cup {"ic"}} \cup {Comps \ {c} : c \in Comps}
=============================================================================
