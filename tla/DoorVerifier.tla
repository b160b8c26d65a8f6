---------------------------- MODULE DoorVerifier ----------------------------
(***************************************************************************)
(* The loop of the door controller (door-verifier/door_sketch.ino) on top  *)
(* of the door itself: read a presentation from the NFC tag, ask Redis for *)
(* the employee's secret, compare the one-time password, open the door.    *)
(*                                                                         *)
(* The tag and the Redis server appear by what the loop gets from them.    *)
(* A presentation is what NFC::try_get returns: `good' with an employee id *)
(* and a code, or not good.  A one-time password is the pair of secret and *)
(* time step it is computed from: HMAC-SHA1 and the truncation to 6 digits *)
(* are taken to have no collisions.  Redis::get returns the secret, the    *)
(* empty string (no such key, or no connection any more), or the text of   *)
(* an error reply or a part of it (GetAnswers of RedisClient).             *)
(***************************************************************************)
EXTENDS DoorLatch

CONSTANTS
    EmployeeId,     \* employee ids
    Secret,         \* shared secrets of tickets
    Holders,        \* the employees whose tickets carry a secret
    Empty,          \* the empty string
    ErrorText,      \* what get returns of Redis error replies
    Junk,           \* bytes in memory that are no employee's id and no code
    MaxSteps        \* bound on the 30 second time steps

ASSUME VerifierAssumption ==
    /\ Holders \in [Secret -> SUBSET EmployeeId]
    /\ Empty \notin Secret
    /\ ErrorText \cap (Secret \cup {Empty}) = {}
    /\ Junk \notin EmployeeId
    /\ MaxSteps \in Nat

VARIABLES
    pc,         \* "setup", then where the loop is: "try_get", "get", "compare",
                \* "opening" or "end"
    presented,  \* `result' of the loop
    value,      \* `value' of the loop
    secrets,    \* the keys .../employee_<id>/secret of this endpoint in Redis
    connected,  \* the connection made by REDISCONN::setup
    clock,      \* the current time step
    used        \* history: the last code that opened the door, and the step

loopVars == <<pc, presented, value>>
redisVars == <<secrets, connected>>
historyVars == <<clock, used>>
verifierVars == <<doorVars, loopVars, redisVars, historyVars>>

Otp(secret, step) == [secret |-> secret, step |-> step]

\* The codes up to a step.  Whatever text get returns, the loop takes it for the
\* key of a code.
Code(last) == [secret : Secret \cup ErrorText, step : 0..last]

NoResult == [good |-> FALSE]

\* A phone presents any employee's id and a code made from any text, its
\* ticket's secret or not, for the present or an earlier step.  A good result
\* may also lack one of the two (GoodIsWhole of EmulateTag): then memory
\* supplies it, the id or the code of an earlier phone or junk.
Presentation ==
    [good : {TRUE}, uid : EmployeeId \cup {Junk}, code : Code(clock) \cup {Junk}]

VerifierInit ==
    /\ DoorInit
    /\ pc = "setup"
    /\ presented = NoResult
    /\ value = Empty
    /\ secrets = [id \in EmployeeId |-> Empty]
    /\ connected = FALSE
    /\ clock = 0
    /\ used = [code |-> Junk, at |-> 0]

-----------------------------------------------------------------------------

\* REDISCONN::setup: connects and authenticates, or waits for ever
RedisSetup == connected' = TRUE

\* setup; Door::setup comes last
Setup ==
    /\ Boot
    /\ pc' = "try_get"
    /\ RedisSetup
    /\ UNCHANGED <<presented, value, secrets, historyVars>>

\* NFC::try_get returns a presentation ...
Present(p) ==
    /\ vpc = "idle"
    /\ pc = "try_get"
    /\ presented' = p
    /\ pc' = "get"
    /\ UNCHANGED <<doorVars, value, redisVars, historyVars>>

\* ... or nothing good: reject
PresentNothing ==
    /\ vpc = "idle"
    /\ pc = "try_get"
    /\ pc' = "end"
    /\ UNCHANGED <<doorVars, presented, value, redisVars, historyVars>>

\* Redis::get of the presented employee's key; an empty value is a rejection.
\* A connection once lost is never made again: get then returns "" at once.
\* The first form, a mutant, gets the reply to some other command.
RepliesAny(uid) == {secrets[id] : id \in EmployeeId}

Stored(uid) == IF uid \in EmployeeId THEN secrets[uid] ELSE Empty

Replies(uid) == IF connected THEN {Stored(uid)} \cup ErrorText ELSE {Empty}

RedisGet ==
    /\ pc = "get"
    /\ \E v \in Replies(presented.uid) :
          /\ value' = v
          /\ pc' = IF v = Empty THEN "end" ELSE "compare"
    /\ UNCHANGED <<doorVars, presented, redisVars, historyVars>>

\* totp.getCode(0): the code of time step 0, whatever the time
getCode == Otp(value, 0)

\* strcmp(code, result.code) == 0
Matches == getCode = presented.code

\* The codes are equal: OK is shown and Door::open is called
Accept ==
    /\ pc = "compare"
    /\ Matches
    /\ Open
    /\ pc' = "opening"
    /\ used' = [code |-> presented.code, at |-> clock]
    /\ UNCHANGED <<presented, value, redisVars, clock>>

\* They differ: reject
Mismatch ==
    /\ pc = "compare"
    /\ ~Matches
    /\ pc' = "end"
    /\ UNCHANGED <<doorVars, presented, value, redisVars, historyVars>>

\* Door::open reads a line and, if it is the answer, returns
AwaitClosed ==
    /\ ReadLine
    /\ pc' = IF vpc' = "idle" THEN "end" ELSE pc
    /\ UNCHANGED <<presented, value, redisVars, historyVars>>

\* Both ways out end with delays; the locals of the loop go out of scope.
LoopAgain ==
    /\ pc = "end"
    /\ pc' = "try_get"
    /\ presented' = NoResult
    /\ value' = Empty
    /\ UNCHANGED <<doorVars, redisVars, historyVars>>

LatchStep == LatchNext /\ UNCHANGED <<loopVars, redisVars, historyVars>>

-----------------------------------------------------------------------------

\* The logger stores the secret of a ticket under the id of its holder (see
\* StoreAuthentic of TicketStore), or one expires.
StoreChanges ==
    /\ \E id \in EmployeeId, s \in Secret \cup {Empty} :
          /\ s \in Secret => id \in Holders[s]
          /\ secrets' = [secrets EXCEPT ![id] = s]
    /\ UNCHANGED <<doorVars, loopVars, connected, historyVars>>

\* The TCP connection to Redis breaks.
ConnectionLost ==
    /\ connected
    /\ connected' = FALSE
    /\ UNCHANGED <<doorVars, loopVars, secrets, historyVars>>

\* The next 30 seconds
TimeStep ==
    /\ clock < MaxSteps
    /\ clock' = clock + 1
    /\ UNCHANGED <<doorVars, loopVars, redisVars, used>>

\* A restart of the controller begins with setup again.  It is also how a
\* reply cut short ends: exit(-1) of RedisInternal.cpp:40.
Restart ==
    /\ ControllerReset
    /\ pc' = "setup"
    /\ presented' = NoResult
    /\ value' = Empty
    /\ connected' = FALSE
    /\ UNCHANGED <<secrets, historyVars>>

LatchRestart == LatchReset /\ UNCHANGED <<loopVars, redisVars, historyVars>>

-----------------------------------------------------------------------------

\* The controller's own steps
ControllerNext == RedisGet \/ Accept \/ Mismatch \/ AwaitClosed \/ LoopAgain

VerifierNext ==
    \/ Setup
    \/ \E p \in Presentation : Present(p)
    \/ PresentNothing
    \/ ControllerNext
    \/ LatchStep
    \/ StoreChanges
    \/ ConnectionLost
    \/ TimeStep
    \/ Restart
    \/ LatchRestart

\* The two loops run, Redis answers or the connection breaks, delays end.
VerifierFairness == WF_verifierVars(ControllerNext) /\ WF_verifierVars(LatchStep)

VerifierSpec == VerifierInit /\ [][VerifierNext]_verifierVars /\ VerifierFairness

-----------------------------------------------------------------------------

\* Type invariant of the controller's loop.
VerifierTypeOK ==
    /\ DoorTypeOK
    /\ pc \in {"setup", "try_get", "get", "compare", "opening", "end"}
    /\ presented \in Presentation \cup {NoResult}
    /\ value \in Secret \cup ErrorText \cup {Empty}
    /\ secrets \in [EmployeeId -> Secret \cup {Empty}]
    /\ connected \in BOOLEAN
    /\ clock \in 0..MaxSteps
    /\ used \in [code : Code(MaxSteps) \cup {Junk}, at : 0..MaxSteps]

\* Until a board restarts, while the door is unlocked the controller is still
\* serving the presentation that opened it, and the value it got from Redis
\* makes the presented code.  That value is the secret of a ticket of the
\* presented employee, or else Redis answered this very get with an error: get
\* returns its text like a value, and the loop makes a code from it.
UnlockedForHolder ==
    relay /\ resets = 0 =>
        /\ pc = "opening"
        /\ presented.code = getCode
        /\ \/ value \in Secret /\ presented.uid \in Holders[value]
           \/ value \in ErrorText

\* Unless a board restarts, every presentation is answered: the loop is back at
\* the tag, ready for the next one, after a rejection as after a full cycle of
\* the door.
PresentationAnswered == presented # NoResult ~> pc = "try_get" \/ resets > 0

\* Unless a board restarts, a presentation whose code matches the secret Redis
\* gave opens the door.
MatchOpens == (pc = "compare" /\ Matches) ~> relay \/ resets > 0

\* A one-time password that opened the door in one time step does not open it,
\* the next time it opens, in another.  README.md:253 says TOTP is used because
\* it is `preventing replay attacks that make use of previously used OTPs'.
OtpSingleUse ==
    [][used' # used => used'.code # used.code]_verifierVars

=============================================================================
