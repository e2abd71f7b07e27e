--------------------------- MODULE EncoderSetting ---------------------------
(* What a channel promises about its video parameters: settings are asked    *)
(* for one after the other, the codec is only ever given the newest one, and *)
(* whatever the encoder runs with moves forward through those it was given.  *)
(* A setting may be skipped; none is made up, and none comes back.           *)
EXTENDS Naturals

VARIABLES
  asked,   \* settings asked for so far
  given,   \* the last one the codec was given
  inForce  \* for each parameter, the setting the encoder has it from

vars == <<asked, given, inForce>>
Params == {"height", "width", "rate"}

Init == asked = 0 /\ given = 0 /\ inForce = [p \in Params |-> 0]

Ask == asked' = asked + 1 /\ UNCHANGED <<given, inForce>>

Give == given' = asked /\ UNCHANGED <<asked, inForce>>

Enforce ==
  /\ inForce' \in [Params -> 0 .. given]
  /\ \A p \in Params : inForce'[p] >= inForce[p]
  /\ UNCHANGED <<asked, given>>

Next == Ask \/ Give \/ Enforce
Spec == Init /\ [][Next]_vars
=============================================================================
