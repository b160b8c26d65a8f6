---------------------------- MODULE RedisClient ----------------------------
(***************************************************************************)
(* Redis::get as the door controller calls it: the command is written, the *)
(* reply is parsed from the connection's bytes as they arrive              *)
(* (Redis_for_Arduino/RedisInternal.cpp).                                  *)
(*                                                                         *)
(* The server sends each reply at once, TCP may cut it anywhere, and the   *)
(* connection may break; within a reply no pause exceeds the second the    *)
(* stream functions wait for a byte.  The one place where the parser does  *)
(* not wait is RedisObject::init, which discards the LF of a header if it  *)
(* is there.  HeaderCut says whether a reply may be cut just before it.    *)
(*                                                                         *)
(* Characters are strings; a length is written with binary digits.  Values *)
(* and errors are told apart by their length, which on the wire their type *)
(* character does.                                                         *)
(***************************************************************************)
EXTENDS Integers, Sequences

CONSTANTS
    Value,          \* values of keys, sequences of two or three characters
    Error,          \* texts of error replies, of more than three
    HeaderCut,      \* may a reply be cut between CR and LF of a header
                    \* that has a body?
    MaxGets         \* bound on the commands

CR == "CR"
LF == "LF"
NUL == "NUL"

ASSUME RedisAssumption ==
    /\ Value \subseteq Seq(STRING)
    /\ \A v \in Value : Len(v) \in {2, 3}
    /\ Error \subseteq Seq(STRING \ {CR})
    /\ \A e \in Error : Len(e) > 3
    /\ HeaderCut \in BOOLEAN
    /\ MaxGets \in Nat

VARIABLES
    stage,      \* where get is: "type" (parseType), "header", "lf", "body";
                \* "idle" outside, "exited" after exit(-1)
    kind,       \* the type character
    data,       \* `data' of the object being read
    result,     \* what the last get returned
    rx,         \* bytes arrived and not read
    line,       \* bytes the server sent that have not arrived
    connected,
    reply,      \* the server's reply to the last command, NoReply before it
    gets        \* commands issued so far

parserVars == <<stage, kind, data, result>>
redisVars == <<parserVars, rx, line, connected, reply, gets>>

\* What the server may reply: a value, the null of a missing key, an error.
Null == <<>>
NoReply == <<"none">>
Text == Value \cup Error \cup {Null}

-----------------------------------------------------------------------------

\* The reply on the wire (RESP)
Digits(n) == IF n = 2 THEN <<"1", "0">> ELSE <<"1", "1">>

Encode(text) ==
    CASE text = Null -> <<"$", "-", "1", CR, LF>>
      [] text \in Error -> <<"-">> \o text \o <<CR, LF>>
      [] OTHER -> <<"$">> \o Digits(Len(text)) \o <<CR, LF>> \o text \o <<CR, LF>>

\* String::toInt: the number a text begins with, 0 if it begins with none
toInt(text) ==
    CASE text = <<"-", "1">> -> -1
      [] text = <<"1">> -> 1
      [] text = <<"1", "0">> -> 2
      [] text = <<"1", "1">> -> 3
      [] OTHER -> 0

\* String(charBuf): the characters before the first NUL
CString(text) ==
    LET nuls == {k \in DOMAIN text : text[k] = NUL}
    IN  IF nuls = {} THEN text
        ELSE SubSeq(text, 1, (CHOOSE k \in nuls : \A n \in nuls : k <= n) - 1)

\* String(typeChar): the number of a character, in decimal digits
Number(char) == <<"number of", char>>

RedisInit ==
    /\ stage = "idle"
    /\ kind = "$"
    /\ data = <<>>
    /\ result = Null
    /\ rx = <<>>
    /\ line = <<>>
    /\ connected = TRUE
    /\ reply = NoReply
    /\ gets = 0

\* WiFiClient::connected: also while there are bytes to read
Connected == connected \/ rx # <<>>

\* get returns
Return(text) ==
    /\ stage' = "idle"
    /\ result' = text
    /\ UNCHANGED <<kind, data>>

-----------------------------------------------------------------------------

\* RedisCommand::issue
Issue ==
    /\ stage = "idle"
    /\ gets < MaxGets
    /\ gets' = gets + 1
    /\ reply' = NoReply
    /\ IF Connected
       THEN stage' = "type" /\ UNCHANGED <<kind, data, result>>
       ELSE Return(Null)
    /\ UNCHANGED <<rx, line, connected>>

\* parseType: skips what is left of the previous reply.  The first form, a
\* mutant, takes the first character.
SkippedNone == {}

Skipped == {CR, LF}

Skip ==
    /\ stage = "type"
    /\ rx # <<>>
    /\ Head(rx) \in Skipped
    /\ rx' = Tail(rx)
    /\ UNCHANGED <<parserVars, line, connected, reply, gets>>

\* parseType: the type character; of an unknown one the number is returned
ParseType ==
    /\ stage = "type"
    /\ rx # <<>>
    /\ Head(rx) \notin Skipped
    /\ rx' = Tail(rx)
    /\ IF Head(rx) \in {"$", "-"}
       THEN /\ stage' = "header"
            /\ kind' = Head(rx)
            /\ data' = <<>>
            /\ UNCHANGED result
       ELSE Return(Number(Head(rx)))
    /\ UNCHANGED <<line, connected, reply, gets>>

\* parseType: nothing to read and no connection: RedisInternalError.  The first
\* form, a mutant, waits for a byte all the same.
LostWaiting == FALSE

Lost == ~Connected

Disconnected ==
    /\ stage = "type"
    /\ Lost
    /\ Return(Null)
    /\ UNCHANGED <<rx, line, connected, reply, gets>>

\* RedisObject::init, readStringUntil('\r'): one character
ReadHeader ==
    /\ stage = "header"
    /\ rx # <<>>
    /\ rx' = Tail(rx)
    /\ IF Head(rx) = CR
       THEN stage' = "lf" /\ UNCHANGED data
       ELSE data' = Append(data, Head(rx)) /\ UNCHANGED stage
    /\ UNCHANGED <<kind, result, line, connected, reply, gets>>

\* ... which gives up after a second without one
HeaderTimeout ==
    /\ stage = "header"
    /\ ~Connected
    /\ stage' = "lf"
    /\ UNCHANGED <<kind, data, result, rx, line, connected, reply, gets>>

\* What follows the header: an error is its text, a bulk string of length -1
\* is null, any other has a body.  The first form, a mutant, knows no null.
AfterHeaderNoNull ==
    IF kind = "-" THEN Return(data)
    ELSE stage' = "body" /\ UNCHANGED <<kind, data, result>>

AfterHeader ==
    IF kind = "-" THEN Return(data)
    ELSE IF toInt(data) = -1 THEN Return(Null)
    ELSE stage' = "body" /\ UNCHANGED <<kind, data, result>>

\* RedisObject::init, read(): the LF is discarded, if it has arrived
DiscardLF ==
    /\ stage = "lf"
    /\ rx' = IF rx # <<>> THEN Tail(rx) ELSE rx
    /\ AfterHeader
    /\ UNCHANGED <<line, connected, reply, gets>>

\* RedisBulkString::init: readBytes, all there.  CR and LF stay.
Body == toInt(data)

ReadBody ==
    /\ stage = "body"
    /\ Len(rx) >= Body
    /\ rx' = SubSeq(rx, Body + 1, Len(rx))
    /\ Return(CString(SubSeq(rx, 1, Body)))
    /\ UNCHANGED <<line, connected, reply, gets>>

\* ... or not: exit(-1)
BodyTimeout ==
    /\ stage = "body"
    /\ ~connected
    /\ Len(rx) < Body
    /\ stage' = "exited"
    /\ rx' = <<>>
    /\ UNCHANGED <<kind, data, result, line, connected, reply, gets>>

-----------------------------------------------------------------------------

\* The server executes the command ...
Reply(text) ==
    /\ connected
    /\ gets > 0
    /\ reply = NoReply
    /\ reply' = text
    /\ line' = line \o Encode(text)
    /\ UNCHANGED <<parserVars, rx, connected, gets>>

\* Is the n-th byte on the way the CR of a header that has a body?  Then LF, the
\* body, CR and LF come after it.
HeaderCR(n) == reply \in Value /\ Len(line) - n = Len(reply) + 3

\* ... and a piece of what it sent arrives.
Arrive(n) ==
    /\ connected
    /\ n \in 1..Len(line)
    /\ HeaderCut \/ ~HeaderCR(n)
    /\ rx' = rx \o SubSeq(line, 1, n)
    /\ line' = SubSeq(line, n + 1, Len(line))
    /\ UNCHANGED <<parserVars, connected, reply, gets>>

\* The connection breaks; what has not arrived never will.
Break ==
    /\ connected
    /\ connected' = FALSE
    /\ line' = <<>>
    /\ UNCHANGED <<parserVars, rx, reply, gets>>

ParserNext ==
    \/ Skip
    \/ ParseType
    \/ Disconnected
    \/ ReadHeader
    \/ HeaderTimeout
    \/ DiscardLF
    \/ ReadBody
    \/ BodyTimeout

ServerNext ==
    \/ \E text \in Text : Reply(text)
    \/ \E n \in 1..Len(line) : Arrive(n)

RedisNext == Issue \/ ParserNext \/ ServerNext \/ Break

\* The parser runs, the server answers and its bytes arrive.
RedisSpec ==
    /\ RedisInit
    /\ [][RedisNext]_redisVars
    /\ WF_redisVars(ParserNext)
    /\ WF_redisVars(ServerNext)

-----------------------------------------------------------------------------

\* Type invariant of the client.
RedisTypeOK ==
    /\ stage \in {"idle", "type", "header", "lf", "body", "exited"}
    /\ kind \in {"$", "-"}
    /\ reply \in Text \cup {NoReply}
    /\ connected \in BOOLEAN
    /\ gets \in 0..MaxGets
    /\ stage = "body" => toInt(data) \in 0..3

\* What get makes of a reply that it reads to its end.  A value is cut at its
\* first NUL; an error is returned by its text, as if it were a value.
Answer(text) == IF text \in Value THEN CString(text) ELSE text

\* Each get returns what the server replied to its own command, whatever the
\* replies before it were and wherever they were cut.  Only after a lost
\* connection it may return the null instead, or a part of an error's text.
GetAnswers ==
    stage = "idle" /\ gets > 0 =>
        \/ result = Answer(reply)
        \/ /\ ~connected
           /\ \/ result = Null
              \/ reply \in Error /\ \E n \in 1..Len(reply) : result = SubSeq(reply, 1, n)

\* While the connection lasts, a get returns the key's value, or null if the
\* server has none for it.  Redis.h:114 says that get returns `The key`s value
\* as a string, null if the key does not exist.'
GetIsValue ==
    stage = "idle" /\ gets > 0 /\ connected =>
        result = IF reply \in Value THEN reply ELSE Null

\* A get returns, or the controller exits: a reply cut short by a broken
\* connection does not leave it waiting.
GetReturns == stage = "type" ~> stage \in {"idle", "exited"}

=============================================================================
