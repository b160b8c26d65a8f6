---------------------------- MODULE NdefMessage ----------------------------
(***************************************************************************)
(* NDEF messages and their bytes: the decoder the door controller runs on  *)
(* what a phone wrote to the tag (NdefMessage.cpp), and the encoder of the *)
(* same library (NdefRecord.cpp) as the meaning of the bytes.              *)
(*                                                                         *)
(* A message is a sequence of records; type, id and payload are sequences  *)
(* of bytes.  Words of a type (`key', `uid', ...) are one byte each.       *)
(***************************************************************************)
EXTENDS Integers, Sequences

MAX_NDEF_RECORDS == 4

Bit(byte, n) == (byte \div n) % 2 = 1

Flag(condition, n) == IF condition THEN n ELSE 0

\* NdefRecord::getTnfByte
getTnfByte(r, first, last) ==
    r.tnf + Flag(first, 128) + Flag(last, 64) + Flag(Len(r.payload) <= 255, 16)
          + Flag(r.id # <<>>, 8)

\* The payload's length, in one byte or in four
LengthField(n) == IF n <= 255 THEN <<n>> ELSE <<0, 0, (n \div 256) % 256, n % 256>>

\* NdefRecord::encode
EncodeRecord(r, first, last) ==
    <<getTnfByte(r, first, last), Len(r.type)>> \o LengthField(Len(r.payload))
        \o (IF r.id = <<>> THEN <<>> ELSE <<Len(r.id)>>) \o r.type \o r.id \o r.payload

\* NdefMessage::encode
Encode(message) ==
    LET upTo[k \in 0..Len(message)] ==
            IF k = 0 THEN <<>>
            ELSE upTo[k - 1] \o EncodeRecord(message[k], k = 1, k = Len(message))
    IN  upTo[Len(message)]

-----------------------------------------------------------------------------

\* data[index] of the decoder.  It never looks where its bytes end; that it
\* does not get there is DecodesInFile of EmulateTag.
ByteAt(data, index) == IF index < Len(data) THEN data[index + 1] ELSE 0

\* n bytes from index.  The first form, a mutant, starts one byte late.
BytesLate(data, index, n) == [k \in 1..n |-> ByteAt(data, index + k)]

Bytes(data, index, n) == [k \in 1..n |-> ByteAt(data, index + k - 1)]

\* One round of the loop of the constructor, from index: the record, whether it
\* is the last one, and the index after it.  The four length bytes of a long
\* record are taken from where the type's length is, one byte early.
RecordAt(data, index) ==
    LET flags         == ByteAt(data, index)
        short         == Bit(flags, 16)
        typeLength    == ByteAt(data, index + 1)
        payloadLength == IF short THEN ByteAt(data, index + 2)
                         ELSE ByteAt(data, index + 1) * 16777216 + ByteAt(data, index + 2) * 65536
                              + ByteAt(data, index + 3) * 256 + ByteAt(data, index + 4)
        lengthEnd     == index + (IF short THEN 2 ELSE 5)
        idLength      == IF Bit(flags, 8) THEN ByteAt(data, lengthEnd + 1) ELSE 0
        type          == lengthEnd + Flag(Bit(flags, 8), 1) + 1
        id            == type + typeLength
        payload       == id + idLength
    IN  [record |-> [tnf     |-> flags % 8,
                     type    |-> Bytes(data, type, typeLength),
                     id      |-> Bytes(data, id, idLength),
                     payload |-> Bytes(data, payload, payloadLength)],
         me     |-> Bit(flags, 64),
         next   |-> payload + payloadLength]

\* The whole loop: the rounds it makes.  The first form, a mutant, forgets
\* where the message ends and relies on the flag alone.
RoundsToFlag(data, numBytes) ==
    LET from[index \in 0..Len(data)] ==
            LET r == RecordAt(data, index)
            IN  IF r.me \/ r.next > Len(data) THEN <<r>> ELSE <<r>> \o from[r.next]
    IN  from[0]

Rounds(data, numBytes) ==
    LET from[index \in 0..Len(data)] ==
            LET r == RecordAt(data, index)
            IN  IF r.me \/ r.next > numBytes \/ r.next > Len(data)
                THEN <<r>> ELSE <<r>> \o from[r.next]
    IN  from[0]

\* addRecord keeps the first MAX_NDEF_RECORDS and drops the rest.
addRecord(records) == SubSeq(records, 1, IF Len(records) < MAX_NDEF_RECORDS
                                         THEN Len(records) ELSE MAX_NDEF_RECORDS)

\* NdefMessage(data, numBytes)
Decode(data, numBytes) ==
    LET rounds == Rounds(data, numBytes)
    IN  addRecord([k \in DOMAIN rounds |-> rounds[k].record])

=============================================================================
