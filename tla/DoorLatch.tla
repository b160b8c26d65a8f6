------------------------------ MODULE DoorLatch ------------------------------
(***************************************************************************)
(* The door controller's Door::open (door-verifier/door.cpp) and the latch *)
(* (door-module/door_module.ino), two microcontrollers on a serial line.   *)
(*                                                                         *)
(* A receive buffer is a sequence of lines.  Serial.readString collects    *)
(* characters until none has come for a second, so one call takes all the  *)
(* lines in the buffer, run together: its result equals a command only if  *)
(* that command was the one line there.  The delays of the latch are steps *)
(* it takes sooner or later; while it is in one, lines pile up.            *)
(*                                                                         *)
(* Either board can lose power and start again by itself.  `owed' is a     *)
(* history variable: OPEN commands sent for which the latch has not (yet)  *)
(* been unlocked.                                                          *)
(***************************************************************************)
EXTENDS Integers, Sequences

CONSTANT MaxResets      \* bound on the resets of the two boards

ASSUME LatchAssumption == MaxResets \in Nat

OPEN_CMD == "0x21"
CLOSED_RSP == "0x22"

VARIABLES
    vpc,        \* the controller: "booting", "idle" (outside Door::open),
                \* "waiting" (inside, for CLOSED_RSP)
    vrx,        \* its receive buffer
    lpc,        \* the latch: "listening", "unlocked", "relocked", "settling"
    lrx,        \* its receive buffer
    relay,      \* is the relay on, and the door unlocked?
    owed,
    resets

doorVars == <<vpc, vrx, lpc, lrx, relay, owed, resets>>

\* Both boards powered up; the latch's setup switches the relay off at once,
\* the controller brings up display, NFC, network and Redis before the line.
DoorInit ==
    /\ vpc = "booting"
    /\ vrx = <<>>
    /\ lpc = "listening"
    /\ lrx = <<>>
    /\ relay = FALSE
    /\ owed = 0
    /\ resets = 0

-----------------------------------------------------------------------------

\* Door::setup, the last step of the controller's setup
Boot ==
    /\ vpc = "booting"
    /\ vpc' = "idle"
    /\ UNCHANGED <<vrx, lpc, lrx, relay, owed, resets>>

\* Door::open sends the command and begins to wait.  It does not look at what
\* its own buffer holds already.
Open ==
    /\ vpc = "idle"
    /\ vpc' = "waiting"
    /\ lrx' = Append(lrx, OPEN_CMD)
    /\ owed' = owed + 1
    /\ UNCHANGED <<vrx, lpc, relay, resets>>

\* Door::open reads a line: anything but CLOSED_RSP is dropped.
ReadLine ==
    /\ vpc = "waiting"
    /\ vrx # <<>>
    /\ vrx' = <<>>
    /\ vpc' = IF vrx = <<CLOSED_RSP>> THEN "idle" ELSE "waiting"
    /\ UNCHANGED <<lpc, lrx, relay, owed, resets>>

-----------------------------------------------------------------------------

\* The latch reads OPEN_CMD: the relay is switched on, and delay(7000) begins.
\* The first form, a mutant, leaves the command in the buffer.
UnlockPeek ==
    /\ lpc = "listening"
    /\ lrx = <<OPEN_CMD>>
    /\ lpc' = "unlocked"
    /\ relay' = TRUE
    /\ owed' = owed - 1
    /\ UNCHANGED <<vpc, vrx, lrx, resets>>

Unlock ==
    /\ lpc = "listening"
    /\ lrx = <<OPEN_CMD>>
    /\ lrx' = <<>>
    /\ lpc' = "unlocked"
    /\ relay' = TRUE
    /\ owed' = owed - 1
    /\ UNCHANGED <<vpc, vrx, resets>>

\* The line is something else: the loop returns.  The first form, a mutant,
\* may find OPEN_CMD different from itself (the line is not trimmed).
IgnoreUntrimmed ==
    /\ lpc = "listening"
    /\ lrx # <<>>
    /\ lrx' = <<>>
    /\ UNCHANGED <<vpc, vrx, lpc, relay, owed, resets>>

Ignore ==
    /\ lpc = "listening"
    /\ lrx # <<>>
    /\ lrx # <<OPEN_CMD>>
    /\ lrx' = <<>>
    /\ UNCHANGED <<vpc, vrx, lpc, relay, owed, resets>>

\* delay(7000) is over: the relay is switched off, and delay(10) begins.  The
\* first form, a mutant, answers with the relay still on.
RelockLate ==
    /\ lpc = "unlocked"
    /\ lpc' = "relocked"
    /\ UNCHANGED <<vpc, vrx, lrx, relay, owed, resets>>

Relock ==
    /\ lpc = "unlocked"
    /\ lpc' = "relocked"
    /\ relay' = FALSE
    /\ UNCHANGED <<vpc, vrx, lrx, owed, resets>>

\* A line sent to a controller that has not opened its side is lost.
ToController(line) == IF vpc = "booting" THEN vrx ELSE Append(vrx, line)

\* delay(10) is over: CLOSED_RSP is sent, and delay(1000) begins.  The first
\* form, a mutant, echoes the command.
RespondEcho ==
    /\ lpc = "relocked"
    /\ lpc' = "settling"
    /\ vrx' = ToController(OPEN_CMD)
    /\ UNCHANGED <<vpc, lrx, relay, owed, resets>>

Respond ==
    /\ lpc = "relocked"
    /\ lpc' = "settling"
    /\ vrx' = ToController(CLOSED_RSP)
    /\ UNCHANGED <<vpc, lrx, relay, owed, resets>>

\* delay(1000) is over: the loop starts again
Settle ==
    /\ lpc = "settling"
    /\ lpc' = "listening"
    /\ UNCHANGED <<vpc, vrx, lrx, relay, owed, resets>>

-----------------------------------------------------------------------------

\* The controller restarts: whatever it was doing and had received is gone.
ControllerReset ==
    /\ resets < MaxResets
    /\ vpc' = "booting"
    /\ vrx' = <<>>
    /\ resets' = resets + 1
    /\ UNCHANGED <<lpc, lrx, relay, owed>>

\* The latch restarts: setup switches the relay off.
LatchReset ==
    /\ resets < MaxResets
    /\ lpc' = "listening"
    /\ lrx' = <<>>
    /\ relay' = FALSE
    /\ resets' = resets + 1
    /\ UNCHANGED <<vpc, vrx, owed>>

-----------------------------------------------------------------------------

\* The steps of the latch
LatchNext == Unlock \/ Ignore \/ Relock \/ Respond \/ Settle

DoorNext == Boot \/ Open \/ ReadLine \/ LatchNext

ResetNext == ControllerReset \/ LatchReset

\* The loops of both boards run, and a delay ends.  Nobody has to open the
\* door, and setup may wait for the network forever.
DoorFairness == WF_doorVars(ReadLine) /\ WF_doorVars(LatchNext)

DoorSafety == DoorInit /\ [][DoorNext \/ ResetNext]_doorVars

DoorSpec == DoorSafety /\ DoorFairness

-----------------------------------------------------------------------------

\* Type invariant of the door.
DoorTypeOK ==
    /\ vpc \in {"booting", "idle", "waiting"}
    /\ vrx \in Seq({CLOSED_RSP})
    /\ lpc \in {"listening", "unlocked", "relocked", "settling"}
    /\ lrx \in Seq({OPEN_CMD})
    /\ relay \in BOOLEAN
    /\ owed \in Int
    /\ resets \in 0..MaxResets

\* The door is unlocked at most once per OPEN command, whatever restarts in
\* between, although commands pile up and are read run together.
UnlocksOwed == owed >= 0

\* Until a board restarts: when the controller is not inside Door::open the
\* door is locked, no command is on its way to the latch and no answer to the
\* controller, so the line printed after Door::open, `Door closed'
\* (door_sketch.ino:43), is true.
ClosedWhenIdle ==
    resets = 0 /\ vpc # "waiting" => ~relay /\ lrx = <<>> /\ vrx = <<>>

\* When Door::open returns the door is locked and has no command left to act
\* upon.  README.md:284 says that the latch `opens the door and returns a
\* response when the door is closed', and the controller prints `Door closed'.
ClosedWhenReported ==
    [][vpc = "waiting" /\ vpc' = "idle" => ~relay /\ lrx = <<>>]_doorVars

\* The relay never stays on: the latch switches it off by itself, whatever
\* the controller does or restarts.
RelocksEventually == relay ~> ~relay

\* The phase of the abstract cycle that the two boards are in
Phase ==
    IF resets > 0 THEN "restarted"
    ELSE IF vpc # "waiting" THEN "idle"
    ELSE IF relay THEN "unlocked"
    ELSE IF lrx # <<>> THEN "requested"
    ELSE "relocked"

Cycle == INSTANCE DoorCycle WITH phase <- Phase

\* Until one of them restarts the two boards implement the cycle the README
\* promises.
ImplementsCycle == Cycle!CycleSpec

=============================================================================
