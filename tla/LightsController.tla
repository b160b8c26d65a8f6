-------------------------- MODULE LightsController --------------------------
(***************************************************************************)
(* contracts/LightsController.sol: the abstract LightsController with the  *)
(* hooks of MyLightsController, and the Ownable contract it inherits from. *)
(*                                                                         *)
(* doIteration is one transaction: the events of its loop are emitted all  *)
(* or, if any part of it reverts, none.  `shown' is what a device that     *)
(* follows the DeviceConfigChange events in order makes of them.  Checked  *)
(* arithmetic makes iterationCount++ revert at the largest uint256.        *)
(* duration and lastState are left out, nothing reads them.                *)
(***************************************************************************)
EXTENDS Naturals, Sequences

CONSTANTS
    Light,          \* bytes4 ids of lights
    LightList,      \* lists the constructor may be given
    Addr,           \* accounts
    NoOwner,        \* address(0), after renounceOwnership
    MaxUint         \* the largest uint256

ASSUME LightsAssumption ==
    /\ LightList \subseteq Seq(Light)
    /\ NoOwner \notin Addr
    /\ MaxUint \in Nat

VARIABLES
    lights,
    iterationCount,
    i,
    n,
    first,
    owner,
    shown       \* the lights that are on

patternState == <<lights, iterationCount, i, n, first, shown>>
lightsVars == <<patternState, owner>>

\* lights[k] of the contract
LightAt(k) == lights[k + 1]

-----------------------------------------------------------------------------

LightsInit ==
    /\ lights \in LightList
    /\ iterationCount = 0
    /\ i = 0
    /\ n = Len(lights)
    /\ first = TRUE
    /\ owner \in Addr
    /\ shown = {}

\* _shouldChangeConfig: every light gets an event; the configuration in it.
\* lights[i] is read only when first is false.  The first form, a mutant,
\* forgets the all-on iteration.
OnAlone(light_id) == light_id = LightAt(i)

On(light_id) == first \/ light_id = LightAt(i)

\* The loop of doIteration: for each light of the list, in order, the event
\* of its configuration
Configured ==
    {l \in shown : \A k \in DOMAIN lights : lights[k] # l}
        \cup {l \in {lights[k] : k \in DOMAIN lights} : On(l)}

\* _endIteration; i % n reverts when n is 0.  The first two forms are mutants:
\* one has no all-on iteration but the first, one does not wrap i around.
EndIterationForever ==
    IF first
    THEN first' = FALSE /\ i' = i
    ELSE n # 0 /\ i' = (i + 1) % n /\ first' = FALSE

EndIterationUnwrapped ==
    IF first
    THEN first' = FALSE /\ i' = i
    ELSE i' = i + 1 /\ first' = (i' = 0)

EndIteration ==
    IF first
    THEN first' = FALSE /\ i' = i
    ELSE n # 0 /\ i' = (i + 1) % n /\ first' = (i' = 0)

\* doIteration, onlyOwner.  The first form, a mutant, does not check the
\* counter for overflow.
doIterationUnchecked(sender) ==
    /\ sender = owner
    /\ shown' = Configured
    /\ EndIteration
    /\ iterationCount' = iterationCount + 1
    /\ UNCHANGED <<lights, n, owner>>

doIteration(sender) ==
    /\ sender = owner
    /\ iterationCount < MaxUint
    /\ shown' = Configured
    /\ EndIteration
    /\ iterationCount' = iterationCount + 1
    /\ UNCHANGED <<lights, n, owner>>

\* Ownable; the new owner may not be address(0)
transferOwnership(sender, newOwner) ==
    /\ sender = owner
    /\ owner' = newOwner
    /\ UNCHANGED patternState

renounceOwnership(sender) ==
    /\ sender = owner
    /\ owner' = NoOwner
    /\ UNCHANGED patternState

LightsNext ==
    \E sender \in Addr :
        \/ doIteration(sender)
        \/ \E newOwner \in Addr : transferOwnership(sender, newOwner)
        \/ renounceOwnership(sender)

LightsSpec == LightsInit /\ [][LightsNext]_lightsVars

-----------------------------------------------------------------------------

\* Type invariant of the controller.
LightsTypeOK ==
    /\ lights \in LightList
    /\ iterationCount \in 0..MaxUint
    /\ i \in Nat
    /\ n \in Nat
    /\ first \in BOOLEAN
    /\ owner \in Addr \cup {NoOwner}
    /\ shown \subseteq Light

\* With a list that is not empty no iteration reverts: lights[i] of
\* LightsController.sol:137 is within bounds and the divisor of :127 not 0.
\* In the all-on iteration i is back at the start of the list.
NoRevert == lights # <<>> => n = Len(lights) /\ i < n /\ (first => i = 0)

\* Where the pattern is depends on the number of iterations alone: it has a
\* period of one more than the number of lights, whoever owned the contract
\* in between.
Periodic ==
    lights # <<>> =>
        /\ first <=> iterationCount % (n + 1) = 0
        /\ ~first => i = (iterationCount % (n + 1)) - 1

Step == IF first THEN 0 ELSE i + 1

Pattern == INSTANCE LightPattern WITH step <- Step

\* A watcher of the events sees all lights on, then each of them alone in
\* the order of the list, and again from the start.
ShowsPattern == Pattern!PatternSpec

=============================================================================
