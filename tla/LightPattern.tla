---------------------------- MODULE LightPattern ----------------------------
(***************************************************************************)
(* What the lights of contracts/LightsController.sol promise to somebody   *)
(* who watches the DeviceConfigChange events: all lights on, then each of  *)
(* them alone in the order of the list, and again from the start.          *)
(***************************************************************************)
EXTENDS Naturals, Sequences

CONSTANT Light      \* ids of lights

VARIABLES
    lights,     \* the list the controller was given, an id may come twice
    step,       \* 0: all on is next; k: the k-th light alone is next
    shown       \* the lights that are on

patternVars == <<lights, step, shown>>

Ids == {lights[k] : k \in DOMAIN lights}

PatternInit ==
    /\ lights \in Seq(Light)
    /\ step = 0
    /\ shown = {}

\* A list without lights has no second step.
Show ==
    /\ step <= Len(lights)
    /\ shown' = IF step = 0 THEN Ids ELSE {lights[step]}
    /\ step' = IF step = Len(lights) /\ step # 0 THEN 0 ELSE step + 1
    /\ UNCHANGED lights

PatternSpec == PatternInit /\ [][Show]_patternVars

=============================================================================
