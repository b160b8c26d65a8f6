---------------------------- MODULE DeviceProofs ----------------------------
(***************************************************************************)
(* Proofs about the devices, the door and the lights.                      *)
(*                                                                         *)
(* The door.  With restarts, however many: types, and one unlocking per    *)
(* command.  Until the first restart: the two boards implement the cycle,  *)
(* so the door is locked whenever Door::open is not running.               *)
(*                                                                         *)
(* The lights.  For every list and every number of iterations no iteration *)
(* of a list that is not empty reverts, and the events show the pattern.   *)
(***************************************************************************)
EXTENDS DoorVerifier, LightsController, TLAPS

-----------------------------------------------------------------------------
(* The boards of the door, with restarts *)

\* UnlocksOwed alone is not inductive: an unlocking uses up one command of
\* the latch's buffer, so each command there must be owed one.
PendingOwed == Len(lrx) <= owed

ResetInv == DoorTypeOK /\ PendingOwed

\* Both boards just powered up: nothing is pending and nothing is owed.
LEMMA ResetInitInv == DoorInit => ResetInv
<1> SUFFICES ASSUME DoorInit PROVE ResetInv
  OBVIOUS
<1>1. vrx \in Seq({CLOSED_RSP}) /\ lrx \in Seq({OPEN_CMD}) /\ Len(lrx) = 0
  BY DEF DoorInit
<1>2. resets \in 0..MaxResets /\ owed = 0
  BY LatchAssumption DEF DoorInit
<1>3. vpc \in {"booting", "idle", "waiting"} /\ relay \in BOOLEAN
  BY DEF DoorInit
<1>4. lpc \in {"listening", "unlocked", "relocked", "settling"}
  BY DEF DoorInit
<1> QED
  BY <1>1, <1>2, <1>3, <1>4 DEF ResetInv, DoorTypeOK, PendingOwed

\* Every step of the boards, restarts included, keeps a command's unlocking
\* owed until the latch has taken the command.
LEMMA ResetStep ==
    ASSUME ResetInv, [DoorNext \/ ResetNext]_doorVars
    PROVE  ResetInv'
<1> USE LatchAssumption DEF ResetInv, DoorTypeOK, PendingOwed
<1>1. CASE Boot
  BY <1>1 DEF Boot
<1>2. CASE Open
  BY <1>2 DEF Open
<1>3. CASE ReadLine
  BY <1>3 DEF ReadLine
<1>4. CASE Unlock
  BY <1>4 DEF Unlock
<1>5. CASE Ignore
  BY <1>5 DEF Ignore
<1>6. CASE Relock
  BY <1>6 DEF Relock
<1>7. CASE Respond
  BY <1>7 DEF Respond, ToController
<1>8. CASE Settle
  BY <1>8 DEF Settle
<1>9. CASE ControllerReset
  BY <1>9 DEF ControllerReset
<1>10. CASE LatchReset
  <2>1. lrx' \in Seq({OPEN_CMD}) /\ Len(lrx') = 0
    BY <1>10 DEF LatchReset
  <2>2. Len(lrx') <= owed'
    BY <1>10, <2>1 DEF LatchReset
  <2>3. lpc' \in {"listening", "unlocked", "relocked", "settling"} /\ relay' \in BOOLEAN
    BY <1>10 DEF LatchReset
  <2>4. resets' \in 0..MaxResets /\ UNCHANGED <<vpc, vrx, owed>>
    BY <1>10 DEF LatchReset
  <2> QED
    BY <2>1, <2>2, <2>3, <2>4
<1>11. CASE UNCHANGED doorVars
  BY <1>11 DEF doorVars
<1> QED
  BY <1>1, <1>2, <1>3, <1>4, <1>5, <1>6, <1>7, <1>8, <1>9, <1>10, <1>11
     DEF DoorNext, LatchNext, ResetNext

\* The state of the two boards and the line is type correct, whatever restarts.
THEOREM DoorTypeCorrect == DoorSafety => []DoorTypeOK
<1>1. ResetInv => DoorTypeOK
  BY DEF ResetInv
<1> QED
  BY <1>1, ResetInitInv, ResetStep, PTL DEF DoorSafety

\* The latch unlocks at most once per command, for any number of restarts and
\* however the commands pile up: Door::open is never repaid twice.
THEOREM DoorUnlocksOwed == DoorSafety => []UnlocksOwed
<1>1. ResetInv => UnlocksOwed
  BY DEF ResetInv, DoorTypeOK, PendingOwed, UnlocksOwed
<1> QED
  BY <1>1, ResetInitInv, ResetStep, PTL DEF DoorSafety

-----------------------------------------------------------------------------
(* The boards of the door, until the first restart *)

\* The command is in the latch's buffer, the cycle is running, or the answer
\* is in the controller's buffer: one of the three while Door::open waits,
\* none of them otherwise.
Commanded == lrx = <<OPEN_CMD>> /\ vrx = <<>> /\ lpc \in {"listening", "settling"}
Cycling == lrx = <<>> /\ vrx = <<>> /\ lpc \in {"unlocked", "relocked"}
Answered == lrx = <<>> /\ vrx = <<CLOSED_RSP>> /\ lpc \in {"listening", "settling"}
Quiet == lrx = <<>> /\ vrx = <<>> /\ lpc \in {"listening", "settling"}

Handshake ==
    /\ vpc \in {"booting", "idle", "waiting"}
    /\ relay = (lpc = "unlocked")
    /\ IF vpc = "waiting" THEN Commanded \/ Cycling \/ Answered ELSE Quiet

HandshakeInv == ResetInv /\ (resets = 0 => Handshake)

\* Both boards just powered up: the line is quiet and the relay off.
LEMMA HandshakeInit == DoorInit => HandshakeInv
BY ResetInitInv DEF DoorInit, HandshakeInv, Handshake, Quiet

\* Every step of the boards that is no restart keeps the handshake and is a
\* step of the cycle.
LEMMA HandshakeKept ==
    ASSUME Handshake, resets = 0, DoorNext
    PROVE  Handshake' /\ [Cycle!CycleNext]_Phase
<1>a. resets' = 0
  BY DEF DoorNext, LatchNext, Boot, Open, ReadLine, Unlock, Ignore, Relock, Respond, Settle
<1>b. ~(resets > 0) /\ ~(resets' > 0)
  BY <1>a
<1> USE <1>b DEF Handshake, Commanded, Cycling, Answered, Quiet, Phase, Cycle!CycleNext,
            Cycle!Request, Cycle!Unlock, Cycle!Relock, Cycle!Report, OPEN_CMD, CLOSED_RSP
<1>1. CASE Boot
  BY <1>1 DEF Boot
<1>2. CASE Open
  <2>1. lrx = <<>> /\ vrx = <<>> /\ lpc \in {"listening", "settling"} /\ ~relay
    BY <1>2 DEF Open
  <2>2. lrx' = <<OPEN_CMD>>
    BY <1>2, <2>1 DEF Open
  <2>3. UNCHANGED <<vrx, lpc, relay>> /\ vpc = "idle" /\ vpc' = "waiting"
    BY <1>2 DEF Open
  <2>4. Phase = "idle" /\ Phase' = "requested"
    BY <2>1, <2>2, <2>3
  <2> QED
    BY <2>1, <2>2, <2>3, <2>4
<1>3. CASE ReadLine
  BY <1>3 DEF ReadLine
<1>4. CASE Unlock
  BY <1>4 DEF Unlock
<1>5. CASE Ignore
  BY <1>5 DEF Ignore
<1>6. CASE Relock
  BY <1>6 DEF Relock
<1>7. CASE Respond
  <2>1. vpc = "waiting" /\ lrx = <<>> /\ vrx = <<>> /\ ~relay
    BY <1>7 DEF Respond
  <2>2. vrx' = <<CLOSED_RSP>>
    BY <1>7, <2>1 DEF Respond, ToController
  <2>3. lpc' = "settling" /\ UNCHANGED <<vpc, lrx, relay>>
    BY <1>7 DEF Respond
  <2> QED
    BY <2>1, <2>2, <2>3
<1>8. CASE Settle
  BY <1>8 DEF Settle
<1> QED
  BY <1>1, <1>2, <1>3, <1>4, <1>5, <1>6, <1>7, <1>8 DEF DoorNext, LatchNext

\* Every step, a restart included, keeps the invariant and is a step of the
\* cycle: the first restart is the cycle's, after it nothing is promised.
LEMMA HandshakeStep ==
    ASSUME HandshakeInv, [DoorNext \/ ResetNext]_doorVars
    PROVE  HandshakeInv' /\ [Cycle!CycleNext]_Phase
<1>1. ResetInv' /\ resets \in Nat
  BY ResetStep, LatchAssumption DEF HandshakeInv, ResetInv, DoorTypeOK
<1>2. CASE resets = 0 /\ DoorNext
  <2>1. Handshake' /\ [Cycle!CycleNext]_Phase
    BY <1>2, HandshakeKept DEF HandshakeInv
  <2> QED
    BY <1>1, <2>1 DEF HandshakeInv
<1>3. CASE resets = 0 /\ ResetNext
  <2>1. resets' = 1
    BY <1>3 DEF ResetNext, ControllerReset, LatchReset
  <2>2. Phase # "restarted" /\ Phase' = "restarted"
    BY <1>3, <2>1 DEF Phase
  <2> QED
    BY <1>1, <2>1, <2>2 DEF HandshakeInv, Cycle!CycleNext, Cycle!Restart
<1>4. CASE resets # 0 /\ (DoorNext \/ ResetNext)
  <2>1. resets' = resets \/ resets' = resets + 1
    BY <1>4 DEF DoorNext, LatchNext, ResetNext, Boot, Open, ReadLine, Unlock, Ignore,
                Relock, Respond, Settle, ControllerReset, LatchReset
  <2>2. resets > 0 /\ resets' > 0
    BY <1>1, <1>4, <2>1
  <2>3. Phase = "restarted" /\ Phase' = "restarted"
    BY <2>2 DEF Phase
  <2> QED
    BY <1>1, <2>2, <2>3 DEF HandshakeInv
<1>5. CASE UNCHANGED doorVars
  BY <1>1, <1>5 DEF HandshakeInv, Handshake, Commanded, Cycling, Answered, Quiet,
                    Phase, doorVars
<1> QED
  BY <1>2, <1>3, <1>4, <1>5

\* Until a board restarts, the door is locked and the line is empty whenever
\* the controller is outside Door::open.
THEOREM DoorClosedWhenIdle == DoorSafety => []ClosedWhenIdle
<1>1. HandshakeInv => ClosedWhenIdle
  BY DEF HandshakeInv, Handshake, Quiet, ClosedWhenIdle
<1> QED
  BY <1>1, HandshakeInit, HandshakeStep, PTL DEF DoorSafety

\* Until one of them restarts, the two boards implement the cycle promised to
\* the loop, its safety part.
THEOREM DoorImplementsCycle == DoorSafety => Cycle!CycleSafety
<1>1. DoorInit => Cycle!CycleInit
  BY DEF DoorInit, Cycle!CycleInit, Phase
<1> QED
  BY <1>1, HandshakeInit, HandshakeStep, PTL DEF DoorSafety, Cycle!CycleSafety

-----------------------------------------------------------------------------
(* The loop of the door controller: types, and for whom the door is        *)
(* unlocked, for any employees, secrets and number of restarts.            *)

\* The part of the type invariant that is the loop's own
LoopTypeOK ==
    /\ pc \in {"setup", "try_get", "get", "compare", "opening", "end"}
    /\ presented \in Presentation \cup {NoResult}
    /\ value \in Secret \cup ErrorText \cup {Empty}
    /\ secrets \in [EmployeeId -> Secret \cup {Empty}]
    /\ connected \in BOOLEAN
    /\ clock \in 0..MaxSteps
    /\ used \in [code : Code(MaxSteps) \cup {Junk}, at : 0..MaxSteps]

\* What the loop knows at each point: Redis holds secrets of their holders
\* only, a presentation is being served from `get' to `opening', the value it
\* got is not empty and is a secret of the presented employee if it is one, the
\* controller is in `opening' exactly while Door::open waits, and then the codes
\* are equal.
LoopInv ==
    /\ \A id \in EmployeeId : secrets[id] \in Secret => id \in Holders[secrets[id]]
    /\ pc \in {"get", "compare", "opening"} => presented \in Presentation
    /\ pc \in {"compare", "opening"} =>
          value # Empty /\ (value \in Secret => presented.uid \in Holders[value])
    /\ pc = "opening" <=> vpc = "waiting"
    /\ pc = "opening" => getCode = presented.code

VerifierInv == HandshakeInv /\ LoopTypeOK /\ LoopInv

-----------------------------------------------------------------------------

\* Every step of the loop is a step of the two boards or leaves them alone.
LEMMA VerifierDoorStep ==
    ASSUME [VerifierNext]_verifierVars
    PROVE  [DoorNext \/ ResetNext]_doorVars
<1>1. CASE UNCHANGED verifierVars
  BY <1>1 DEF verifierVars
<1>2. CASE VerifierNext
  BY <1>2 DEF VerifierNext, ControllerNext, Setup, Present, PresentNothing, RedisGet, Accept,
              Mismatch, AwaitClosed, LoopAgain, LatchStep, StoreChanges, ConnectionLost,
              TimeStep, Restart, LatchRestart, DoorNext, ResetNext
<1> QED
  BY <1>1, <1>2

\* What was presented stays a presentation as time passes.
LEMMA PresentationStays ==
    ASSUME NEW p \in Presentation, clock \in Nat, clock' = clock \/ clock' = clock + 1
    PROVE  p \in Presentation'
<1>1. 0..clock \subseteq 0..clock'
  OBVIOUS
<1>2. Code(clock) \subseteq Code(clock')
  BY <1>1 DEF Code
<1>3. p \in [good : {TRUE}, uid : EmployeeId \cup {Junk}, code : Code(clock') \cup {Junk}]
  BY <1>2 DEF Presentation
<1> QED
  BY <1>3 DEF Presentation

\* The code that opens the door is the one of a text.
LEMMA CodeOfText ==
    ASSUME value \in Secret \cup ErrorText
    PROVE  getCode \in Code(MaxSteps)
<1>1. 0 \in 0..MaxSteps
  BY VerifierAssumption
<1> QED
  BY <1>1 DEF getCode, Otp, Code

-----------------------------------------------------------------------------

\* The controller starts in setup with nothing presented.
LEMMA LoopInit == VerifierInit => VerifierInv
<1> SUFFICES ASSUME VerifierInit PROVE VerifierInv
  OBVIOUS
<1>1. HandshakeInv
  BY HandshakeInit DEF VerifierInit
<1>2. LoopTypeOK
  <2>1. clock \in 0..MaxSteps
    BY VerifierAssumption DEF VerifierInit
  <2>2. connected \in BOOLEAN /\ used \in [code : Code(MaxSteps) \cup {Junk}, at : 0..MaxSteps]
    <3>1. 0 \in 0..MaxSteps
      BY VerifierAssumption
    <3>2. used = [code |-> Junk, at |-> 0]
      BY DEF VerifierInit
    <3> HIDE DEF Code
    <3>3. used \in [code : Code(MaxSteps) \cup {Junk}, at : 0..MaxSteps]
      BY <3>1, <3>2
    <3> QED
      BY <3>3 DEF VerifierInit
  <2>3. /\ pc \in {"setup", "try_get", "get", "compare", "opening", "end"}
        /\ presented \in Presentation \cup {NoResult}
        /\ value \in Secret \cup ErrorText \cup {Empty}
        /\ secrets \in [EmployeeId -> Secret \cup {Empty}]
    BY DEF VerifierInit
  <2> QED
    BY <2>1, <2>2, <2>3 DEF LoopTypeOK
<1>3. LoopInv
  BY VerifierAssumption DEF VerifierInit, LoopInv, DoorInit
<1> QED
  BY <1>1, <1>2, <1>3 DEF VerifierInv

\* Each step of the loop, of its surroundings and of the boards keeps it.
LEMMA LoopStep ==
    ASSUME VerifierInv, [VerifierNext]_verifierVars
    PROVE  VerifierInv'
<1>1. HandshakeInv'
  BY VerifierDoorStep, HandshakeStep DEF VerifierInv
<1>c. clock \in Nat /\ MaxSteps \in Nat
  BY VerifierAssumption DEF VerifierInv, LoopTypeOK
<1>d. clock' = clock => Presentation' = Presentation
  BY DEF Presentation
<1> SUFFICES LoopTypeOK' /\ LoopInv'
  BY <1>1 DEF VerifierInv
<1>t. LoopTypeOK /\ LoopInv
  BY DEF VerifierInv
<1> USE <1>t
<1>2. CASE Setup
  BY <1>2, <1>d DEF Setup, Boot, RedisSetup, LoopTypeOK, LoopInv, historyVars, getCode
<1>3. ASSUME NEW p \in Presentation, Present(p) PROVE LoopTypeOK' /\ LoopInv'
  BY <1>3, <1>d DEF Present, LoopTypeOK, LoopInv, historyVars, redisVars, doorVars, getCode
<1>4. CASE PresentNothing
  BY <1>4, <1>d DEF PresentNothing, LoopTypeOK, LoopInv, historyVars, redisVars, doorVars
<1>5. CASE RedisGet
  <2>1. presented \in Presentation /\ pc = "get"
    BY <1>5 DEF RedisGet, LoopInv
  <2>2. PICK v \in Replies(presented.uid) :
            value' = v /\ pc' = IF v = Empty THEN "end" ELSE "compare"
    BY <1>5 DEF RedisGet
  <2>3. v \in Secret => presented.uid \in EmployeeId /\ v = secrets[presented.uid]
    BY VerifierAssumption DEF Replies, Stored
  <2>4. v \in Secret \cup ErrorText \cup {Empty}
    BY DEF Replies, Stored, LoopTypeOK
  <2>5. UNCHANGED <<vpc, presented, secrets, connected, clock, used>>
    BY <1>5 DEF RedisGet, doorVars, redisVars, historyVars
  <2>6. LoopTypeOK'
    BY <1>d, <2>2, <2>4, <2>5 DEF LoopTypeOK
  <2>7. vpc # "waiting" /\ pc' # "opening"
    BY <2>1, <2>2 DEF LoopInv
  <2> QED
    BY <1>d, <2>1, <2>2, <2>3, <2>5, <2>6, <2>7 DEF LoopInv
<1>6. CASE Accept
  <2>1. presented \in Presentation /\ presented.code \in Code(MaxSteps)
    <3>1. value \in Secret \cup ErrorText
      BY <1>6 DEF Accept, LoopTypeOK, LoopInv
    <3> QED
      BY <1>6, <3>1, CodeOfText DEF Accept, Matches, LoopInv
  <2>2. UNCHANGED <<presented, value, secrets, connected, clock>> /\ pc = "compare"
        /\ pc' = "opening" /\ vpc' = "waiting" /\ getCode = presented.code
    BY <1>6 DEF Accept, Open, Matches, redisVars
  <2>3. used' \in [code : Code(MaxSteps) \cup {Junk}, at : 0..MaxSteps]
    BY <1>6, <2>1 DEF Accept, LoopTypeOK
  <2>4. getCode' = getCode
    BY <2>2 DEF getCode
  <2> QED
    BY <1>d, <2>1, <2>2, <2>3, <2>4 DEF LoopTypeOK, LoopInv
<1>7. CASE Mismatch
  BY <1>7, <1>d DEF Mismatch, LoopTypeOK, LoopInv, historyVars, redisVars, doorVars
<1>8. CASE AwaitClosed
  <2>1. UNCHANGED <<presented, value, secrets, connected, clock, used>>
    BY <1>8 DEF AwaitClosed, redisVars, historyVars
  <2>2. vpc = "waiting" /\ pc = "opening" /\ vpc' \in {"idle", "waiting"}
        /\ pc' = IF vpc' = "idle" THEN "end" ELSE pc
    BY <1>8 DEF AwaitClosed, ReadLine, LoopInv
  <2>3. getCode' = getCode
    BY <2>1 DEF getCode
  <2> QED
    BY <1>d, <2>1, <2>2, <2>3 DEF LoopTypeOK, LoopInv
<1>9. CASE LoopAgain
  BY <1>9, <1>d DEF LoopAgain, LoopTypeOK, LoopInv, historyVars, redisVars, doorVars
<1>10. CASE LatchStep
  <2>1. UNCHANGED <<vpc, pc, presented, value, secrets, connected, clock, used>>
    BY <1>10 DEF LatchStep, LatchNext, Unlock, Ignore, Relock, Respond, Settle,
                 loopVars, redisVars, historyVars
  <2> QED
    BY <1>d, <2>1 DEF LoopTypeOK, LoopInv, getCode
<1>11. CASE StoreChanges
  <2>1. PICK id \in EmployeeId, s \in Secret \cup {Empty} :
            (s \in Secret => id \in Holders[s]) /\ secrets' = [secrets EXCEPT ![id] = s]
    BY <1>11 DEF StoreChanges
  <2>2. UNCHANGED <<vpc, pc, presented, value, connected, clock, used>>
    BY <1>11 DEF StoreChanges, doorVars, loopVars, historyVars
  <2>3. \A e \in EmployeeId : secrets'[e] = IF e = id THEN s ELSE secrets[e]
    BY <2>1 DEF LoopTypeOK
  <2>4. secrets' \in [EmployeeId -> Secret \cup {Empty}]
    BY <2>1 DEF LoopTypeOK
  <2> QED
    BY <1>d, <2>1, <2>2, <2>3, <2>4 DEF LoopTypeOK, LoopInv, getCode
<1>12. CASE ConnectionLost
  BY <1>12, <1>d DEF ConnectionLost, LoopTypeOK, LoopInv, historyVars, loopVars, doorVars, getCode
<1>13. CASE TimeStep
  <2>1. clock' = clock + 1 /\ clock' \in 0..MaxSteps
    BY <1>13, <1>c DEF TimeStep
  <2>2. UNCHANGED <<vpc, pc, presented, value, secrets, connected, used>>
    BY <1>13 DEF TimeStep, doorVars, loopVars, redisVars
  <2>3. presented \in Presentation => presented \in Presentation'
    BY <1>c, <2>1, PresentationStays
  <2> QED
    BY <2>1, <2>2, <2>3 DEF LoopTypeOK, LoopInv, getCode
<1>14. CASE Restart
  BY <1>14, <1>d DEF Restart, ControllerReset, LoopTypeOK, LoopInv, historyVars
<1>15. CASE LatchRestart
  BY <1>15, <1>d DEF LatchRestart, LatchReset, LoopTypeOK, LoopInv, historyVars, loopVars,
                     redisVars, getCode
<1>16. CASE UNCHANGED verifierVars
  BY <1>16, <1>d DEF verifierVars, doorVars, LoopTypeOK, LoopInv, historyVars, loopVars,
                     redisVars, getCode
<1> QED
  BY <1>2, <1>3, <1>4, <1>5, <1>6, <1>7, <1>8, <1>9, <1>10, <1>11, <1>12, <1>13, <1>14,
     <1>15, <1>16 DEF VerifierNext, ControllerNext

-----------------------------------------------------------------------------

\* The loop, the boards and what they see of Redis are type correct.
THEOREM VerifierTypeCorrect == VerifierSpec => []VerifierTypeOK
<1>1. VerifierInv => VerifierTypeOK
  BY DEF VerifierInv, HandshakeInv, ResetInv, LoopTypeOK, VerifierTypeOK
<1> QED
  BY <1>1, LoopInit, LoopStep, PTL DEF VerifierSpec

\* Until a board restarts the door is unlocked only for the presentation being
\* served, whose code is made from a secret of the presented employee's ticket,
\* unless Redis answered the get with an error: then from the error's text.
THEOREM VerifierUnlockedForHolder == VerifierSpec => []UnlockedForHolder
<1>1. VerifierInv => UnlockedForHolder
  <2> SUFFICES ASSUME VerifierInv, relay, resets = 0 PROVE UnlockedForHolder
    BY DEF UnlockedForHolder
  <2>1. vpc = "waiting"
    BY DEF VerifierInv, HandshakeInv, Handshake, Quiet
  <2>2. pc = "opening" /\ getCode = presented.code
    BY <2>1 DEF VerifierInv, LoopInv
  <2>3. value \in Secret \cup ErrorText
    BY <2>2 DEF VerifierInv, LoopInv, LoopTypeOK
  <2> QED
    BY <2>2, <2>3 DEF VerifierInv, LoopInv, UnlockedForHolder
<1> QED
  BY <1>1, LoopInit, LoopStep, PTL DEF VerifierSpec

\* The loop uses the door by Door::setup, Door::open and restarts alone: with it
\* and all that surrounds it the boards still behave as DoorLatch says.
THEOREM VerifierImplementsDoor == VerifierSpec => DoorSafety
<1>1. VerifierInit => DoorInit
  BY DEF VerifierInit
<1> QED
  BY <1>1, VerifierDoorStep, PTL DEF VerifierSpec, DoorSafety

\* So in the whole controller, too, the latch unlocks at most once per command,
\* the door is locked whenever Door::open is not running (until a board
\* restarts), and the boards implement the safety part of the cycle.
THEOREM VerifierKeepsDoor ==
    VerifierSpec => [](UnlocksOwed /\ ClosedWhenIdle) /\ Cycle!CycleSafety
BY VerifierImplementsDoor, DoorUnlocksOwed, DoorClosedWhenIdle, DoorImplementsCycle, PTL

-----------------------------------------------------------------------------
(* The lights *)

\* NoRevert is inductive once an empty list is accounted for: i then stays 0.
LightsInv ==
    /\ LightsTypeOK
    /\ n = Len(lights)
    /\ n # 0 => i < n
    /\ n = 0 => i = 0
    /\ first => i = 0
    /\ \A l \in shown : \E k \in DOMAIN lights : lights[k] = l

\* Both steps of _endIteration, i++ and i % n, taken together.
LEMMA WrapAround ==
    ASSUME NEW m \in Nat, m # 0, NEW j \in Nat, j < m
    PROVE  (j + 1) % m = IF j + 1 = m THEN 0 ELSE j + 1
<1>1. CASE j + 1 = m
  BY <1>1
<1>2. CASE j + 1 # m
  <2>1. j + 1 \in 0..(m - 1)
    BY <1>2
  <2> QED
    BY <1>2, <2>1
<1> QED
  BY <1>1, <1>2

\* The constructor establishes the invariant.
LEMMA LightsInitInv == LightsInit => LightsInv
<1> SUFFICES ASSUME LightsInit PROVE LightsInv
  OBVIOUS
<1>1. lights \in Seq(Light)
  BY LightsAssumption DEF LightsInit
<1>2. n \in Nat /\ n = Len(lights)
  BY <1>1 DEF LightsInit
<1>3. shown \subseteq Light /\ \A l \in shown : \E k \in DOMAIN lights : lights[k] = l
  BY DEF LightsInit
<1>4. first \in BOOLEAN /\ owner \in Addr \cup {NoOwner} /\ lights \in LightList
  BY DEF LightsInit
<1>5. i = 0 /\ iterationCount \in 0..MaxUint
  BY LightsAssumption DEF LightsInit
<1> QED
  BY <1>2, <1>3, <1>4, <1>5 DEF LightsInv, LightsTypeOK

\* What _endIteration does to i and first.
LEMMA EndIterationEffect ==
    ASSUME LightsInv, EndIteration
    PROVE  /\ i' \in Nat
           /\ first' \in BOOLEAN
           /\ first => ~first' /\ i' = i
           /\ ~first => /\ n # 0
                        /\ i' = IF i + 1 = n THEN 0 ELSE i + 1
                        /\ first' = (i' = 0)
<1>1. i \in Nat /\ n \in Nat /\ first \in BOOLEAN /\ (n # 0 => i < n)
  BY DEF LightsInv, LightsTypeOK
<1>2. CASE first
  BY <1>1, <1>2 DEF EndIteration
<1>3. CASE ~first
  <2>1. n # 0 /\ i' = (i + 1) % n /\ first' = (i' = 0)
    BY <1>3 DEF EndIteration
  <2>2. i' = IF i + 1 = n THEN 0 ELSE i + 1
    BY <1>1, <2>1, WrapAround
  <2> QED
    BY <1>1, <1>3, <2>1, <2>2
<1> QED
  BY <1>1, <1>2, <1>3

\* The events of one iteration: a light is on afterwards if it is in the list
\* and its event said so, whatever was on before.
LEMMA ConfiguredIs ==
    ASSUME LightsInv
    PROVE  Configured = {l \in {lights[k] : k \in DOMAIN lights} : On(l)}
BY DEF LightsInv, Configured

\* Every transaction keeps the invariant and is a step of the pattern.
LEMMA LightsStep ==
    ASSUME LightsInv, [LightsNext]_lightsVars
    PROVE  LightsInv' /\ [Pattern!Show]_(Pattern!patternVars)
<1>1. CASE UNCHANGED patternState
           /\ owner' \in Addr \cup {NoOwner}
  BY <1>1 DEF patternState, LightsInv, LightsTypeOK, Pattern!patternVars, Step
<1>2. ASSUME NEW sender \in Addr, doIteration(sender)
      PROVE  LightsInv' /\ Pattern!Show
  <2>0. lights \in Seq(Light) /\ n = Len(lights) /\ n \in Nat /\ i \in Nat
    BY LightsAssumption DEF LightsInv, LightsTypeOK
  <2>1. UNCHANGED <<lights, n, owner>> /\ EndIteration /\ shown' = Configured
    BY <1>2 DEF doIteration
  <2>2. iterationCount' \in 0..MaxUint
    BY <1>2, LightsAssumption DEF doIteration, LightsInv, LightsTypeOK
  <2>3. shown' = {l \in {lights[k] : k \in DOMAIN lights} : On(l)}
    BY <2>1, ConfiguredIs
  <2>4. shown' \subseteq Light /\ \A l \in shown' : \E k \in DOMAIN lights : lights[k] = l
    BY <2>0, <2>3
  <2>5. /\ i' \in Nat /\ first' \in BOOLEAN
        /\ first => ~first' /\ i' = i
        /\ ~first => n # 0 /\ i' = (IF i + 1 = n THEN 0 ELSE i + 1) /\ first' = (i' = 0)
    BY <2>1, EndIterationEffect
  <2>6. (n # 0 => i' < n) /\ (n = 0 => i' = 0) /\ (first' => i' = 0)
    BY <2>0, <2>5 DEF LightsInv
  <2>7. LightsInv'
    <3>1. lights' \in LightList /\ owner' \in Addr \cup {NoOwner}
      BY <2>1 DEF LightsInv, LightsTypeOK
    <3> QED
      BY <2>0, <2>1, <2>2, <2>4, <2>5, <2>6, <3>1 DEF LightsInv, LightsTypeOK
  <2>8. Pattern!Show
    <3>1. CASE first
      <4>1. shown' = Pattern!Ids
        BY <2>3, <3>1 DEF On, Pattern!Ids
      <4>2. Step = 0 /\ Step' = 1
        <5>1. ~first' /\ i' = i /\ i = 0
          BY <2>5, <3>1 DEF LightsInv
        <5> QED
          BY <3>1, <5>1 DEF Step
      <4> QED
        BY <2>0, <2>1, <4>1, <4>2 DEF Pattern!Show
    <3>2. CASE ~first
      <4>1. Step = i + 1 /\ i < n
        BY <2>5, <3>2 DEF Step, LightsInv
      <4>2. shown' = {lights[Step]}
        BY <2>0, <2>3, <3>2, <4>1 DEF On, LightAt
      <4>3. Step' = IF Step = n THEN 0 ELSE Step + 1
        <5>1. CASE i + 1 = n
          <6>1. i' = 0 /\ first'
            BY <2>5, <3>2, <5>1, Zenon
          <6> QED
            BY <4>1, <5>1, <6>1 DEF Step
        <5>2. CASE i + 1 # n
          <6>1. i' = i + 1
            BY <2>5, <3>2, <5>2
          <6>2. i' # 0
            BY <2>0, <6>1
          <6>3. ~first'
            BY <2>5, <3>2, <6>2, Zenon
          <6> QED
            BY <4>1, <5>2, <6>1, <6>3 DEF Step
        <5> QED
          BY <5>1, <5>2
      <4> QED
        BY <2>0, <2>1, <4>1, <4>2, <4>3 DEF Pattern!Show
    <3> QED
      BY <3>1, <3>2 DEF LightsInv, LightsTypeOK
  <2> QED
    BY <2>7, <2>8
<1>3. ASSUME NEW sender \in Addr, NEW newOwner \in Addr, transferOwnership(sender, newOwner)
      PROVE  UNCHANGED patternState /\ owner' \in Addr \cup {NoOwner}
  BY <1>3 DEF transferOwnership
<1>4. ASSUME NEW sender \in Addr, renounceOwnership(sender)
      PROVE  UNCHANGED patternState /\ owner' \in Addr \cup {NoOwner}
  BY <1>4 DEF renounceOwnership
<1>5. CASE UNCHANGED lightsVars
  BY <1>1, <1>5 DEF lightsVars, LightsInv, LightsTypeOK
<1> QED
  BY <1>1, <1>2, <1>3, <1>4, <1>5 DEF LightsNext

\* The inductive invariant holds in every reachable state.
THEOREM LightsInvariant == LightsSpec => []LightsInv
BY LightsInitInv, LightsStep, PTL DEF LightsSpec

\* The controller's storage is type correct.
THEOREM LightsTypeCorrect == LightsSpec => []LightsTypeOK
<1>1. LightsInv => LightsTypeOK
  BY DEF LightsInv
<1> QED
  BY <1>1, LightsInvariant, PTL

\* With any list that is not empty no iteration of LightsController.sol
\* divides by zero or reads lights[i] out of bounds.
THEOREM LightsNoRevert == LightsSpec => []NoRevert
<1>1. LightsInv => NoRevert
  <2> SUFFICES ASSUME LightsInv, lights # <<>> PROVE n = Len(lights) /\ i < n /\ (first => i = 0)
    BY DEF NoRevert
  <2>1. lights \in Seq(Light)
    BY LightsAssumption DEF LightsInv, LightsTypeOK
  <2>2. Len(lights) # 0
    BY <2>1
  <2> QED
    BY <2>2 DEF LightsInv
<1> QED
  BY <1>1, LightsInvariant, PTL

\* The DeviceConfigChange events show the pattern, for every list.
THEOREM LightsShowPattern == LightsSpec => ShowsPattern
<1>1. LightsInit => Pattern!PatternInit
  BY LightsAssumption DEF LightsInit, Pattern!PatternInit, Step
<1> QED
  BY <1>1, LightsInitInv, LightsStep, PTL DEF LightsSpec, ShowsPattern, Pattern!PatternSpec

-----------------------------------------------------------------------------
(* The period of the lights *)

\* The remainder of the next number.
LEMMA ModSucc ==
    ASSUME NEW m \in Nat, m # 0, NEW c \in Nat
    PROVE  (c + 1) % m = IF (c % m) + 1 = m THEN 0 ELSE (c % m) + 1
<1> DEFINE q == c \div m
           r == c % m
<1>1. q \in Int /\ r \in 0..(m - 1) /\ c = m * q + r
  OBVIOUS
<1> HIDE DEF q, r
<1>2. CASE r + 1 = m
  <2>1. c + 1 = m * (q + 1)
    BY <1>1, <1>2
  <2>2. (c + 1) % m = 0
    BY <1>1, <2>1
  <2> QED
    BY <1>2, <2>2 DEF r
<1>3. CASE r + 1 # m
  <2>1. c + 1 = m * q + (r + 1) /\ r + 1 \in 0..(m - 1)
    BY <1>1, <1>3
  <2>2. (c + 1) % m = r + 1
    BY <1>1, <2>1
  <2> QED
    BY <1>3, <2>2 DEF r
<1> QED
  BY <1>2, <1>3

\* Periodic in terms of the pattern's step: one equation for i and first.
PeriodInv == n # 0 => iterationCount % (n + 1) = Step

\* An iteration advances the counter and the pattern together.
LEMMA PeriodStep ==
    ASSUME LightsInv, PeriodInv, [LightsNext]_lightsVars
    PROVE  PeriodInv'
<1>1. CASE UNCHANGED patternState
  BY <1>1 DEF patternState, PeriodInv, Step
<1>2. ASSUME NEW sender \in Addr, doIteration(sender)
      PROVE  PeriodInv'
  <2> SUFFICES ASSUME n # 0 PROVE iterationCount' % (n + 1) = Step'
    BY <1>2 DEF doIteration, PeriodInv
  <2>1. n \in Nat /\ iterationCount \in Nat /\ iterationCount' = iterationCount + 1
    BY <1>2, LightsAssumption DEF LightsInv, LightsTypeOK, doIteration
  <2>2. /\ i' \in Nat /\ first' \in BOOLEAN
        /\ first => ~first' /\ i' = i
        /\ ~first => i' = (IF i + 1 = n THEN 0 ELSE i + 1) /\ first' = (i' = 0)
    BY <1>2, EndIterationEffect DEF doIteration
  <2>3. i \in Nat /\ i < n /\ (first => i = 0)
    BY DEF LightsInv, LightsTypeOK
  <2>4. Step' = IF Step = n THEN 0 ELSE Step + 1
    <3>1. CASE first
      BY <2>1, <2>2, <2>3, <3>1 DEF Step
    <3>2. CASE ~first /\ i + 1 = n
      <4>1. i' = 0 /\ first'
        BY <2>2, <3>2, Zenon
      <4> QED
        BY <3>2, <4>1 DEF Step
    <3>3. CASE ~first /\ i + 1 # n
      <4>1. i' = i + 1
        BY <2>2, <3>3
      <4>2. i' # 0
        BY <2>3, <4>1
      <4>3. ~first'
        BY <2>2, <3>3, <4>2, Zenon
      <4> QED
        BY <3>3, <4>1, <4>3 DEF Step
    <3> QED
      BY <3>1, <3>2, <3>3
  <2>5. Step = iterationCount % (n + 1)
    BY DEF PeriodInv
  <2>6. n + 1 \in Nat /\ n + 1 # 0 /\ iterationCount % (n + 1) \in Nat
    BY <2>1
  <2>7. (iterationCount + 1) % (n + 1) =
            IF (iterationCount % (n + 1)) + 1 = n + 1 THEN 0 ELSE (iterationCount % (n + 1)) + 1
    BY <2>1, <2>6, ModSucc
  <2> QED
    BY <2>1, <2>4, <2>5, <2>6, <2>7
<1>3. ASSUME NEW sender \in Addr, NEW newOwner \in Addr, transferOwnership(sender, newOwner)
      PROVE  UNCHANGED patternState
  BY <1>3 DEF transferOwnership
<1>4. ASSUME NEW sender \in Addr, renounceOwnership(sender)
      PROVE  UNCHANGED patternState
  BY <1>4 DEF renounceOwnership
<1>5. CASE UNCHANGED lightsVars
  BY <1>1, <1>5 DEF lightsVars
<1> QED
  BY <1>1, <1>2, <1>3, <1>4, <1>5 DEF LightsNext

\* Where the pattern is depends on iterationCount alone, for every list and
\* through every change of owner.
THEOREM LightsPeriodic == LightsSpec => []Periodic
<1>1. LightsInit => PeriodInv
  <2> SUFFICES ASSUME LightsInit PROVE iterationCount % (n + 1) = Step
    BY DEF PeriodInv
  <2>1. Len(lights) \in Nat
    BY LightsAssumption DEF LightsInit
  <2>2. n \in Nat /\ iterationCount = 0 /\ Step = 0
    BY <2>1 DEF LightsInit, Step
  <2> QED
    BY <2>2
<1>2. LightsInv /\ PeriodInv => Periodic
  <2> SUFFICES ASSUME LightsInv, PeriodInv, lights # <<>>
               PROVE  /\ first <=> iterationCount % (n + 1) = 0
                      /\ ~first => i = (iterationCount % (n + 1)) - 1
    BY DEF Periodic
  <2>1. lights \in Seq(Light)
    BY LightsAssumption DEF LightsInv, LightsTypeOK
  <2>2. n # 0 /\ i \in Nat
    BY <2>1 DEF LightsInv, LightsTypeOK
  <2>3. iterationCount % (n + 1) = Step
    BY <2>2 DEF PeriodInv
  <2>4. CASE first
    BY <2>3, <2>4 DEF Step
  <2>5. CASE ~first
    BY <2>2, <2>3, <2>5 DEF Step
  <2> QED
    BY <2>4, <2>5
<1> QED
  BY <1>1, <1>2, LightsInvariant, PeriodStep, PTL DEF LightsSpec

=============================================================================
