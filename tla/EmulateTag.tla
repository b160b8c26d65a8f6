----------------------------- MODULE EmulateTag -----------------------------
(***************************************************************************)
(* The NFC side of the door controller: NFC::try_get (door-verifier/       *)
(* nfc.cpp) and the tag it emulates (PN532/emulatetag.cpp), a file that a  *)
(* phone writes with ISO 7816 commands and that keeps its bytes from one   *)
(* call of try_get to the next.                                            *)
(*                                                                         *)
(* A phone writes the way a Type 4 tag prescribes: length 0, the message   *)
(* in pieces, its length.  It may leave at any moment, which the tag sees  *)
(* as an error of tgGetData, and it repeats a command whose answer is lost *)
(* (a failure of tgSetData, which emulate does not notice: it compares a   *)
(* bool with 0).  The tag is writeable from its constructor on.            *)
(*                                                                         *)
(* `whole' and `landed' are history variables: the last message that was   *)
(* written to its end, and whether that happened in the present call.      *)
(***************************************************************************)
EXTENDS NdefMessage

CONSTANTS
    Message,            \* the messages phones write
    Piece,              \* sizes of the pieces they are written in
    NoMessage,          \* no message yet
    Junk,               \* what was never written: other bytes of the stack
    NDEF_MAX_LENGTH,    \* size of the file: 128 in the code
    UidLength,          \* length of an employee id: 64 in the code
    CodeLength,         \* length of a code: 6 in the code
    MaxCalls            \* bound on the calls of try_get

ASSUME TagAssumption ==
    /\ NDEF_MAX_LENGTH \in 8..255
    /\ Message \subseteq Seq([tnf : 0..7, type : Seq(0..255), id : Seq(0..255), payload : Seq(0..255)])
    /\ <<>> \notin Message
    /\ NoMessage \notin Message
    /\ Piece \subseteq Nat \ {0}
    /\ MaxCalls \in Nat

VARIABLES
    file,                   \* ndef_file: two bytes of length, then the message
    tagWrittenByInitiator,  \* has it been written?
    currentFile,            \* the file selected
    todo,                   \* the commands the phone has yet to send
    message,                \* the message of the phone
    result,                 \* what try_get returned last
    pc,                     \* "idle" (outside emulate), "emulating"
    served,                 \* did the last emulate return true?
    calls,
    whole,
    landed

tagVars == <<file, tagWrittenByInitiator, currentFile>>
phoneVars == <<todo, message>>
nfcVars == <<tagVars, phoneVars, result, pc, served, calls, whole, landed>>

\* The words `key', `uid' and `otp' of a record's type and id, each by its first
\* letter
KEY == 107
SLASH == 47
UID == 117
OTP == 111

-----------------------------------------------------------------------------

\* getContent
content == SubSeq(file, 3, Len(file))
length == file[1] * 256 + file[2]

\* Is it a record with this key and this length?
Matches(r, word, n) ==
    /\ r.type \o <<SLASH>> \o r.id = <<KEY, SLASH, word, SLASH>>
    /\ Len(r.payload) = n

\* The payloads, in order, of the records with this key and this length
Fields(records, word, n) ==
    LET upTo[k \in 0..Len(records)] ==
            IF k = 0 THEN <<>>
            ELSE IF Matches(records[k], word, n)
                 THEN Append(upTo[k - 1], records[k].payload) ELSE upTo[k - 1]
    IN  upTo[Len(records)]

\* A field of the result: the last one found.  If there is none it is not written
\* at all, and has what the previous call left in its place or other bytes.
Field(fields, old) == IF fields = <<>> THEN {old, Junk} ELSE {fields[Len(fields)]}

\* What try_get may make of these records: it counts fields, whichever they are.
Read(records) ==
    LET uids == Fields(records, UID, UidLength)
        codes == Fields(records, OTP, CodeLength)
    IN  [good : {Len(uids) + Len(codes) = 2},
         uid : Field(uids, result.uid), code : Field(codes, result.code)]

\* try_get after emulate, whose return value it ignores
TryGet == Read(IF tagWrittenByInitiator THEN Decode(content, length) ELSE <<>>)

-----------------------------------------------------------------------------

\* The file size the compatibility container announces.  The first form, a
\* mutant, announces what one command can carry.
MaxFileSizeCommand == 255

MaxFileSize == NDEF_MAX_LENGTH

\* The commands of a phone: it selects the application, reads the container,
\* selects the file, reads its length ...
Opening(p2) ==
    <<[ins |-> "select_name"],
      [ins |-> "select_id", p2 |-> p2, id |-> "CC"], [ins |-> "read", offset |-> 0],
      [ins |-> "select_id", p2 |-> p2, id |-> "NDEF"], [ins |-> "read", offset |-> 0]>>

\* ... and updates it.
Update(offset, data) == [ins |-> "update", offset |-> offset, data |-> data]

Writing(bytes, size) ==
    <<Update(0, <<0, 0>>)>>
        \o [k \in 1..((Len(bytes) + size - 1) \div size) |->
               Update(2 + (k - 1) * size,
                      SubSeq(bytes, (k - 1) * size + 1,
                             IF k * size < Len(bytes) THEN k * size ELSE Len(bytes)))]
        \o <<Update(0, <<0, Len(bytes)>>)>>

\* The answer of emulate's switch to a command
Response(c) ==
    CASE c.ins = "select_name" -> "COMMAND_COMPLETE"
      [] c.ins = "select_id" ->
            IF c.p2 # 12 \/ c.id \in {"CC", "NDEF"} THEN "COMMAND_COMPLETE" ELSE "TAG_NOT_FOUND"
      [] c.ins = "read" ->
            IF currentFile = "NONE" THEN "TAG_NOT_FOUND"
            ELSE IF c.offset > NDEF_MAX_LENGTH THEN "END_OF_FILE" ELSE "COMMAND_COMPLETE"
      [] c.ins = "update" ->
            IF c.offset > NDEF_MAX_LENGTH THEN "MEMORY_FAILURE" ELSE "COMMAND_COMPLETE"
      [] OTHER -> "FUNCTION_NOT_SUPPORTED"

\* The file it selects, if any
Selected(c) == IF c.ins = "select_id" /\ c.p2 = 12 THEN c.id ELSE currentFile

\* memcpy into the file; past its end it would make it longer
Copied(c) ==
    [k \in 1..(IF c.offset + Len(c.data) > Len(file) THEN c.offset + Len(c.data) ELSE Len(file)) |->
        IF k \in (c.offset + 1)..(c.offset + Len(c.data)) THEN c.data[k - c.offset] ELSE file[k]]

-----------------------------------------------------------------------------

\* A global object: its file is zero.
NfcInit ==
    /\ file = [k \in 1..NDEF_MAX_LENGTH |-> 0]
    /\ tagWrittenByInitiator = FALSE
    /\ currentFile = "NONE"
    /\ todo = <<>>
    /\ message = NoMessage
    /\ result = [good |-> FALSE, uid |-> Junk, code |-> Junk]
    /\ pc = "idle"
    /\ served = TRUE
    /\ calls = 0
    /\ whole = NoMessage
    /\ landed = FALSE

\* try_get, and tgInitAsTarget fails: emulate returns false before it resets
\* the flag, so what the previous call found is found again.
EmulateFails ==
    /\ pc = "idle"
    /\ calls < MaxCalls
    /\ calls' = calls + 1
    /\ result' \in TryGet
    /\ served' = FALSE
    /\ landed' = FALSE
    /\ UNCHANGED <<tagVars, phoneVars, pc, whole>>

\* try_get, and a phone comes into the field: emulate enters its loop.  The
\* first form, a mutant, does not reset the flag.
EmulateKeepingFlag(m, size, p2) ==
    /\ pc = "idle"
    /\ calls < MaxCalls
    /\ Len(Encode(m)) + 2 <= MaxFileSize
    /\ calls' = calls + 1
    /\ pc' = "emulating"
    /\ currentFile' = "NONE"
    /\ message' = m
    /\ todo' = Opening(p2) \o Writing(Encode(m), size)
    /\ landed' = FALSE
    /\ UNCHANGED <<file, tagWrittenByInitiator, result, served, whole>>

Emulate(m, size, p2) ==
    /\ pc = "idle"
    /\ calls < MaxCalls
    /\ Len(Encode(m)) + 2 <= MaxFileSize
    /\ calls' = calls + 1
    /\ pc' = "emulating"
    /\ tagWrittenByInitiator' = FALSE
    /\ currentFile' = "NONE"
    /\ message' = m
    /\ todo' = Opening(p2) \o Writing(Encode(m), size)
    /\ landed' = FALSE
    /\ UNCHANGED <<file, result, served, whole>>

\* One round of the loop.  The phone goes on after a good answer, repeats the
\* command if none came, and gives up after any other.
Serve(lost) ==
    /\ pc = "emulating"
    /\ todo # <<>>
    /\ LET c == Head(todo)
           updates == c.ins = "update" /\ Response(c) = "COMMAND_COMPLETE"
           lands == updates /\ Len(todo) = 1
       IN  /\ currentFile' = Selected(c)
           /\ file' = IF updates THEN Copied(c) ELSE file
           /\ tagWrittenByInitiator' = (tagWrittenByInitiator \/ updates)
           /\ todo' = IF lost THEN todo
                      ELSE IF Response(c) = "COMMAND_COMPLETE" THEN Tail(todo) ELSE <<>>
           /\ whole' = IF lands THEN message ELSE whole
           /\ landed' = (landed \/ lands)
    /\ UNCHANGED <<message, result, pc, served, calls>>

\* tgGetData fails, the phone is gone: emulate returns, and try_get looks at
\* the file.
Leave ==
    /\ pc = "emulating"
    /\ pc' = "idle"
    /\ todo' = <<>>
    /\ result' \in TryGet
    /\ served' = TRUE
    /\ UNCHANGED <<tagVars, message, calls, whole, landed>>

NfcNext ==
    \/ EmulateFails
    \/ \E m \in Message, size \in Piece, p2 \in {0, 12} : Emulate(m, size, p2)
    \/ \E lost \in BOOLEAN : Serve(lost)
    \/ Leave

NfcSpec == NfcInit /\ [][NfcNext]_nfcVars

-----------------------------------------------------------------------------

\* Type invariant of the tag.  The file keeps its size: no update of a phone that
\* relies on the size the container announces goes past the array.  The code
\* itself checks only where an update begins, not where it ends.
NfcTypeOK ==
    /\ file \in [1..NDEF_MAX_LENGTH -> 0..255]
    /\ tagWrittenByInitiator \in BOOLEAN
    /\ currentFile \in {"NONE", "CC", "NDEF"}
    /\ message \in Message \cup {NoMessage}
    /\ result.good \in BOOLEAN
    /\ pc \in {"idle", "emulating"}
    /\ calls \in 0..MaxCalls
    /\ whole \in Message \cup {NoMessage}

\* Whatever part of its message a phone leaves behind, over the remains of those
\* before it, the decoder that try_get starts then stays inside the file, if
\* phones write in pieces of at least four bytes.  (In smaller ones the flags of
\* one message can come to stand before the lengths of another, and lead the
\* decoder out of the file: it never compares an index with the file's size.)
DecodesInFile ==
    tagWrittenByInitiator /\ (\A size \in Piece : size >= 4) =>
        LET rounds == Rounds(content, length)
        IN  \A k \in DOMAIN rounds : rounds[k].next <= NDEF_MAX_LENGTH - 2

\* A message written to its end decodes to its records (the first four), over
\* whatever the file held before.
RoundTrip == landed => Decode(content, length) = addRecord(message)

\* What is read into a good result is from one message that a phone wrote to its
\* end, also when phones leave while they write and when the emulation fails.
\* With one id and one code in that message the result is these two, never the
\* id of one phone with the code of another.  A message that has one of the two
\* twice and not the other also passes for good: the other is not written, and
\* may be that of an earlier phone.
GoodIsWhole ==
    pc = "idle" /\ result.good =>
        /\ whole # NoMessage
        /\ LET uids == Fields(addRecord(whole), UID, UidLength)
               codes == Fields(addRecord(whole), OTP, CodeLength)
           IN  /\ <<Len(uids), Len(codes)>> \in {<<1, 1>>, <<2, 0>>, <<0, 2>>}
               /\ uids # <<>> => result.uid = uids[Len(uids)]
               /\ codes # <<>> => result.code = codes[Len(codes)]

\* If the emulation did not fail, a good result is of the phone that was there
\* in this very call, and it had written its message to the end: a presentation
\* is not served again.
GoodIsFresh == pc = "idle" /\ served /\ result.good => landed

=============================================================================
