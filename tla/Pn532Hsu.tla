------------------------------ MODULE Pn532Hsu ------------------------------
(***************************************************************************)
(* The serial line between the door controller and the PN532, as           *)
(* door-verifier/MY_PN532_HSU.cpp drives it: a command frame is written,   *)
(* an ACK frame and a response frame are read, each in several calls of    *)
(* receive, which has a time limit per byte.                               *)
(*                                                                         *)
(* A call of receive waits until its bytes are there or a pause is longer  *)
(* than the limit; then it returns the bytes it has, and all but one of    *)
(* its callers take any number above zero for all of them.  What such a    *)
(* buffer holds besides is what it held before: the earlier bytes of tmp,  *)
(* or, at first, anything.                                                 *)
(***************************************************************************)
EXTENDS Integers, Sequences

CONSTANTS
    Command,        \* command codes sent to the chip
    Unlimited,      \* those whose response is awaited without a limit (timeout 0)
    Payload,        \* payloads of its responses
    BufferSize,     \* size of the caller's buffer
    CharMax,        \* the largest int8_t, the result of receive: 127 in the code
    MaxCommands     \* bound on the commands written

ASSUME HsuAssumption ==
    /\ Command \subseteq 1..148
    /\ Unlimited \subseteq Command
    /\ Payload \subseteq Seq(0..255)
    /\ \A p \in Payload : Len(p) <= 253
    /\ BufferSize \in 1..253
    /\ CharMax \in 1..127
    /\ MaxCommands \in Nat

VARIABLES
    stage,      \* what is being received: "ack", "preamble", "length",
                \* "command", "payload", "checksum"; "idle" between calls
    command,    \* the last command code written, 0 at first
    size,       \* length[0] - 2 of the response
    buf,        \* the caller's buffer
    ret,        \* what the last call returned: "OK" or an error
    rx,         \* bytes arrived at the controller
    line,       \* bytes the chip has sent that have not arrived
    busy,       \* is the chip working on the last command?
    sent,       \* history: the responses it sent
    written     \* commands written so far

callVars == <<stage, command, size, buf, ret, written>>
chipVars == <<busy, sent>>
hsuVars == <<callVars, chipVars, rx, line>>

ACK == <<0, 0, 255, 0, 255, 0>>
Preamble == <<0, 0, 255>>
PN532TOHOST == 213

Complement(n) == (256 - (n % 256)) % 256

Sum(bytes) ==
    LET sum[i \in 0..Len(bytes)] == IF i = 0 THEN 0 ELSE sum[i - 1] + bytes[i]
    IN  sum[Len(bytes)]

\* A response frame of the chip
Frame(c, payload) ==
    Preamble \o <<Len(payload) + 2, Complement(Len(payload) + 2), PN532TOHOST, c + 1>>
        \o payload \o <<Complement(PN532TOHOST + c + 1 + Sum(payload)), 0>>

-----------------------------------------------------------------------------

HsuInit ==
    /\ stage = "idle"
    /\ command = 0
    /\ size = 0
    /\ buf = <<>>
    /\ ret = "OK"
    /\ rx = <<>>
    /\ line = <<>>
    /\ busy = FALSE
    /\ sent = {}
    /\ written = 0

\* writeCommand: what has arrived is dumped, the frame is written, the chip
\* gives up what it was doing.
writeCommand(c) ==
    /\ stage = "idle"
    /\ written < MaxCommands
    /\ written' = written + 1
    /\ rx' = <<>>
    /\ command' = c
    /\ stage' = "ack"
    /\ busy' = TRUE
    /\ UNCHANGED <<size, buf, ret, line, sent>>

\* Bytes the present call of receive asks for
Wanted ==
    [ack |-> 6, preamble |-> 3, length |-> 2, command |-> 2, payload |-> size,
     checksum |-> 2][stage]

Following ==
    [ack |-> "preamble", preamble |-> "length", length |-> "command",
     command |-> "payload", payload |-> "checksum", checksum |-> "idle"][stage]

\* The payload's length, from the byte LEN, which counts two bytes more.  The
\* first form, a mutant, takes off one.
PayloadLengthOff(n) == (n - 1) % 256

PayloadLength(n) == (n - 2) % 256

\* Is there room for the payload?  The first form, a mutant, does not look.
FitsAlways(n) == TRUE

Fits(n) == n <= BufferSize

\* The check of readAckFrame or readResponse on the bytes received: "OK" or
\* the error to return.
Check(b) ==
    CASE stage = "ack" -> IF b = ACK THEN "OK" ELSE "INVALID_ACK"
      [] stage = "preamble" -> IF b = Preamble THEN "OK" ELSE "INVALID_FRAME"
      [] stage = "length" ->
            IF (b[1] + b[2]) % 256 # 0 THEN "INVALID_FRAME"
            ELSE IF Fits(PayloadLength(b[1])) THEN "OK" ELSE "NO_SPACE"
      [] stage = "command" ->
            IF b = <<PN532TOHOST, command + 1>> THEN "OK" ELSE "INVALID_FRAME"
      [] stage = "payload" -> IF size > CharMax THEN "TIMEOUT" ELSE "OK"
      [] stage = "checksum" ->
            IF (PN532TOHOST + command + 1 + Sum(buf) + b[1]) % 256 = 0 /\ b[2] = 0
            THEN "OK" ELSE "INVALID_FRAME"

\* What the bytes of a stage lead to: the next stage, or the end of the call
Proceed(b) ==
    /\ stage' = IF Check(b) = "OK" THEN Following ELSE "idle"
    /\ ret' = Check(b)
    /\ size' = IF stage = "length" THEN PayloadLength(b[1]) ELSE size
    /\ buf' = IF stage = "payload" THEN b ELSE buf
    /\ UNCHANGED <<command, written, line, chipVars>>

\* receive, all bytes there
Receive ==
    /\ stage # "idle"
    /\ Len(rx) >= Wanted
    /\ rx' = SubSeq(rx, Wanted + 1, Len(rx))
    /\ Proceed(SubSeq(rx, 1, Wanted))

\* The buffers a short read of the bytes b can leave.  ackBuf, tmp and length
\* are not initialised; later tmp still holds what it held: the preamble, then
\* the command.
Filled(b) ==
    CASE stage = "ack" -> {b} \cup {a \in {ACK} : b = SubSeq(a, 1, Len(b))}
      [] stage = "preamble" -> {b} \cup {a \in {Preamble} : b = SubSeq(a, 1, Len(b))}
      [] stage = "length" -> {<<b[1], n>> : n \in {Complement(b[1]), 1}}
      [] stage = "command" -> {<<b[1], 0>>}
      [] stage = "checksum" -> {<<b[1], command + 1>>}

\* Does the present call of receive have a time limit?  The first form, a
\* mutant, waits for the ACK without one.
LimitedNotAck == stage # "ack" /\ command \notin Unlimited

Limited == stage = "ack" \/ command \notin Unlimited

\* receive, and a pause longer than the limit
ReceiveShort ==
    /\ stage # "idle"
    /\ Len(rx) < Wanted
    /\ Limited
    /\ rx' = <<>>
    /\ IF rx = <<>> \/ stage = "payload"
       THEN /\ stage' = "idle"
            /\ ret' = "TIMEOUT"
            /\ buf' = IF stage = "payload" THEN rx ELSE buf
            /\ UNCHANGED <<command, size, written, line, chipVars>>
       ELSE \E b \in Filled(rx) : Proceed(b)

-----------------------------------------------------------------------------

\* The chip acknowledges the command and answers it (it may also stay silent);
\* its bytes arrive one by one.
Answer(payload) ==
    /\ busy
    /\ busy' = FALSE
    /\ line' = line \o ACK \o Frame(command, payload)
    /\ sent' = sent \cup {[command |-> command, payload |-> payload]}
    /\ UNCHANGED <<callVars, rx>>

Arrive ==
    /\ line # <<>>
    /\ rx' = Append(rx, Head(line))
    /\ line' = Tail(line)
    /\ UNCHANGED <<callVars, chipVars>>

HsuNext ==
    \/ \E c \in Command : writeCommand(c)
    \/ Receive
    \/ ReceiveShort
    \/ \E p \in Payload : Answer(p)
    \/ Arrive

\* The controller runs, and bytes sent arrive.  The chip need not answer.
HsuSpec ==
    /\ HsuInit
    /\ [][HsuNext]_hsuVars
    /\ WF_hsuVars(Receive \/ ReceiveShort)
    /\ WF_hsuVars(Arrive)

-----------------------------------------------------------------------------

\* Type invariant of the line.
HsuTypeOK ==
    /\ stage \in {"idle", "ack", "preamble", "length", "command", "payload", "checksum"}
    /\ command \in Command \cup {0}
    /\ size \in 0..255
    /\ Len(buf) <= BufferSize
    /\ ret \in {"OK", "INVALID_ACK", "TIMEOUT", "INVALID_FRAME", "NO_SPACE"}
    /\ busy \in BOOLEAN
    /\ written \in 0..MaxCommands

\* Do the bytes from k - 2 on pass for a length and a command?  The length passes
\* with its complement, or if it was read without it: then the byte before it
\* was taken for the end of a preamble.
LooksLikeHeader(f, k) ==
    /\ (f[k - 2] + f[k - 1]) % 256 = 0 \/ f[k - 2] \in {0, 255}
    /\ f[k] = PN532TOHOST
    /\ f[k + 1] - 1 \in Command

\* No reply of the chip has the like of a header but where its header is.
Unambiguous ==
    \A c \in Command, p \in Payload :
        LET f == ACK \o Frame(c, p)
        IN  \A k \in 3..(Len(f) - 1) : LooksLikeHeader(f, k) => k = 12

\* When a call returns a response, what is in the caller's buffer is the whole
\* payload of a response the chip sent to that command code.  Short reads pass
\* for whole ones, and late bytes of earlier frames arrive between the dump and
\* the ACK, but no response is ever put together from pieces, if no payload has
\* the like of a header in it.  It may be the response to an earlier command
\* with the same code: nothing in a frame tells these apart.
ResponseIntact ==
    Unambiguous /\ stage = "idle" /\ ret = "OK" /\ written > 0 =>
        [command |-> command, payload |-> buf] \in sent

\* A call whose response has a time limit returns, also if the chip is silent
\* and wherever a frame breaks off.
CallReturns == stage # "idle" /\ command \notin Unlimited ~> stage = "idle"

=============================================================================
