-------------------------- MODULE EmulateTagProofs --------------------------
(***************************************************************************)
(* Proofs about the emulated tag, for any messages, any sizes of the       *)
(* pieces they are written in and any number of calls.  The argument: the  *)
(* file either says that it is empty or holds one whole message, because   *)
(* the phone clears the length before it writes and sets it last; and a    *)
(* whole message decodes to its records.                                   *)
(***************************************************************************)
EXTENDS EmulateTag, NdefMessageProofs

-----------------------------------------------------------------------------
(* The inductive invariant *)

\* Messages that fit in the file after its length: the others are never emulated.
Fits(m) == m \in Message /\ Len(Encode(m)) + 2 <= NDEF_MAX_LENGTH

\* The commands of a phone that writes these bytes
Plan(bytes, p2, size) == Opening(p2) \o Writing(bytes, size)

\* The file says that it is empty;
Cleared == file[1] = 0 /\ file[2] = 0

\* it has this message and its length.
Holds(m) ==
    /\ Fits(m)
    /\ file[1] = 0 /\ file[2] = Len(Encode(m))
    /\ \A x \in 1..Len(Encode(m)) : file[2 + x] = Encode(m)[x]

\* What is left of a plan after j commands
Rest(plan, j) == [i \in 1..(Len(plan) - j) |-> plan[j + i]]

\* The phone, which writes these bytes, has the answers to j commands: what it
\* has yet to send, what these j have done, and what the next one may have done.
Progress(bytes, p2, size, j) ==
    LET plan == Plan(bytes, p2, size)
    IN  /\ j <= Len(plan)
        /\ todo = Rest(plan, j)
        /\ j < 5 => ~tagWrittenByInitiator
        /\ j > 5 => tagWrittenByInitiator
        /\ \A x \in 1..Len(bytes) : x <= (j - 6) * size => file[2 + x] = bytes[x]
        /\ landed => j + 1 >= Len(plan)

\* A phone is there: it gave up before it wrote, or it is somewhere in its plan.
PhoneInv ==
    pc = "emulating" =>
        /\ Fits(message)
        /\ \/ todo = <<>> /\ ~tagWrittenByInitiator
           \/ \E p2 \in {0, 12}, size \in Piece, j \in Nat :
                  Progress(Encode(message), p2, size, j)
        /\ tagWrittenByInitiator /\ ~landed => Cleared
        /\ landed => whole = message

\* The file, once it was written in the present call
FileInv ==
    /\ tagWrittenByInitiator => Cleared \/ Holds(whole)
    /\ landed => tagWrittenByInitiator /\ Holds(message)

\* The inductive invariant
NfcInv ==
    /\ NfcTypeOK
    /\ landed \in BOOLEAN
    /\ served \in BOOLEAN
    /\ PhoneInv
    /\ FileInv

\* The first bytes of the message, up to the lengths in its first record
Header(m) ==
    /\ file[3] = Encode(m)[1] /\ file[4] = Encode(m)[2] /\ file[5] = Encode(m)[3]
    /\ m[1].id # <<>> => file[6] = Encode(m)[4]

\* After the length the file has never been written, or has the header of a
\* message: with NfcInv this is inductive if a piece holds a header.
HeaderInv ==
    \/ \A i \in 3..7 : file[i] = 0
    \/ \E m \in Message : Fits(m) /\ Header(m)

\* A message that fits the file is short.
LEMMA FitFacts ==
    ASSUME NEW m, Fits(m)
    PROVE  /\ IsMessage(m)
           /\ m \in Message
           /\ Encode(m) \in Seq(0..255)
           /\ Encode(m) \in Seq(Nat)
           /\ Len(Encode(m)) \in Nat
           /\ Len(Encode(m)) >= 3
           /\ Len(Encode(m)) + 2 <= NDEF_MAX_LENGTH
           /\ Len(Encode(m)) <= 253
<1>1. m \in Message /\ Len(Encode(m)) + 2 <= NDEF_MAX_LENGTH
  BY DEF Fits
<1>2. m \in Seq(Record) /\ m # <<>>
  BY <1>1, TagAssumption DEF Record
<1>3. Encode(m) \in Seq(Nat)
  BY <1>2, EncodeEnds
<1>4. Len(Encode(m)) \in Nat
  BY <1>3
<1>5. Len(Encode(m)) <= 253
  <2> DEFINE n == Len(Encode(m))
  <2>1. n \in Nat /\ n + 2 <= NDEF_MAX_LENGTH
    BY <1>1, <1>4
  <2> HIDE DEF n
  <2>2. n <= 253
    BY <2>1, TagAssumption
  <2> QED
    BY <2>2 DEF n
<1>6. IsMessage(m)
  <2> DEFINE n == Len(Encode(m))
  <2>1. n \in Nat /\ n <= 253
    BY <1>4, <1>5
  <2> HIDE DEF n
  <2>2. n <= 255
    BY <2>1
  <2> QED
    BY <1>2, <2>2 DEF IsMessage, n
<1> QED
  BY <1>1, <1>3, <1>4, <1>5, <1>6, MessageBytes

-----------------------------------------------------------------------------
(* The phone *)

\* A sequence over S, of this length
IsSeqOf(S, s, m) == s \in Seq(S) /\ Len(s) = m

JoinsOf(S, u, s, m, t, n) ==
    /\ IsSeqOf(S, u, m + n)
    /\ \A i \in 1..m : u[i] = s[i]
    /\ \A i \in 1..n : u[m + i] = t[i]

\* Two sequences, joined, are one after the other.
LEMMA JoinedOf ==
    ASSUME NEW S, NEW s, NEW m \in Nat, IsSeqOf(S, s, m), NEW t, NEW n \in Nat, IsSeqOf(S, t, n)
    PROVE  JoinsOf(S, s \o t, s, m, t, n)
<1>1. s \in Seq(S) /\ t \in Seq(S) /\ Len(s) = m /\ Len(t) = n
  BY DEF IsSeqOf
<1>2. s \o t \in Seq(S) /\ Len(s \o t) = m + n
  BY <1>1, ConcatProperties
<1>3. \A i \in 1..(m + n) : (s \o t)[i] = IF i <= m THEN s[i] ELSE t[i - m]
  <2>1. \A i \in 1..(Len(s) + Len(t)) :
            (s \o t)[i] = IF i <= Len(s) THEN s[i] ELSE t[i - Len(s)]
    BY <1>1, ConcatProperties
  <2> QED
    BY <1>1, <2>1
<1>4. ASSUME NEW i \in 1..m PROVE (s \o t)[i] = s[i]
  <2>1. i \in 1..(m + n) /\ i <= m
    OBVIOUS
  <2> QED
    BY <1>3, <2>1
<1>5. ASSUME NEW i \in 1..n PROVE (s \o t)[m + i] = t[i]
  <2>1. m + i \in 1..(m + n) /\ ~(m + i <= m) /\ (m + i) - m = i
    OBVIOUS
  <2> QED
    BY <1>3, <2>1
<1> QED
  BY <1>2, <1>4, <1>5 DEF JoinsOf, IsSeqOf

\* The number of the pieces of n bytes
Pieces(n, size) == (n + size - 1) \div size

\* The k-th piece: the bytes after `low', up to `high'
low(size, k) == (k - 1) * size
high(n, size, k) == IF k * size < n THEN k * size ELSE n

Part(bytes, size, k) ==
    Update(2 + low(size, k), SubSeq(bytes, low(size, k) + 1, high(Len(bytes), size, k)))

\* Every piece has a byte, and together they are all.
LEMMA PieceFacts ==
    ASSUME NEW n \in Nat, n # 0, NEW size \in Nat \ {0}
    PROVE  /\ Pieces(n, size) \in Nat
           /\ n <= Pieces(n, size) * size
           /\ \A k \in 1..Pieces(n, size) :
                 /\ low(size, k) \in Nat /\ high(n, size, k) \in Nat
                 /\ low(size, k) < high(n, size, k) /\ high(n, size, k) <= n
                 /\ high(n, size, k) <= k * size /\ (k * size <= n => high(n, size, k) = k * size)
<1> DEFINE a == n + size - 1
           q == Pieces(n, size)
<1>1. a \in Nat /\ q = a \div size
  BY DEF Pieces
<1> HIDE DEF a, q
<1>2. q \in Nat /\ q * size <= a /\ a < q * size + size
  BY <1>1
<1>3. n <= q * size
  BY <1>2 DEF a
<1>4. ASSUME NEW k \in 1..q
      PROVE  /\ low(size, k) \in Nat /\ low(size, k) < n /\ k * size \in Nat
             /\ low(size, k) < k * size
  <2>1. k * size <= q * size /\ k * size \in Nat
    BY <1>2
  <2>2. (k - 1) * size = k * size - size /\ (k - 1) * size \in Nat
    BY <1>2
  <2>3. (k - 1) * size < n
    <3>1. q * size \in Nat
      BY <1>2
    <3> QED
      BY <1>2, <2>1, <2>2, <3>1 DEF a
  <2> QED
    BY <2>1, <2>2, <2>3 DEF low
<1>5. ASSUME NEW k \in 1..q
      PROVE  /\ low(size, k) \in Nat /\ high(n, size, k) \in Nat
             /\ low(size, k) < high(n, size, k) /\ high(n, size, k) <= n
             /\ high(n, size, k) <= k * size /\ (k * size <= n => high(n, size, k) = k * size)
  <2>1. /\ low(size, k) \in Nat /\ low(size, k) < n /\ k * size \in Nat
        /\ low(size, k) < k * size
    BY <1>4
  <2> DEFINE l == low(size, k)
             u == k * size
  <2>2. high(n, size, k) = IF u < n THEN u ELSE n
    BY DEF high
  <2> HIDE DEF l, u
  <2>3. /\ high(n, size, k) \in Nat /\ l < high(n, size, k) /\ high(n, size, k) <= n
        /\ high(n, size, k) <= u /\ (u <= n => high(n, size, k) = u)
    BY <2>1, <2>2 DEF l, u
  <2> QED
    BY <2>1, <2>3 DEF l, u
<1> QED
  BY <1>2, <1>3, <1>5 DEF q

\* The commands of a phone: five that do not write, the length 0, the pieces, the length.
IsPlan(plan, bytes, p2, size) ==
    /\ Len(plan) = Pieces(Len(bytes), size) + 7
    /\ plan = [i \in 1..Len(plan) |-> plan[i]]
    /\ \A i \in 1..5 : plan[i] = Opening(p2)[i]
    /\ plan[6] = Update(0, <<0, 0>>)
    /\ \A k \in 1..Pieces(Len(bytes), size) : plan[6 + k] = Part(bytes, size, k)
    /\ plan[Pieces(Len(bytes), size) + 7] = Update(0, <<0, Len(bytes)>>)

\* The plan of a phone: five commands that write nothing, the length cleared,
\* the pieces in their order, the length.
LEMMA PlanShape ==
    ASSUME NEW bytes \in Seq(Nat), bytes # <<>>, NEW p2, NEW size \in Nat \ {0}
    PROVE  IsPlan(Plan(bytes, p2, size), bytes, p2, size)
<1> DEFINE n == Len(bytes)
           K == Pieces(n, size)
           o == Opening(p2)
           c == <<Update(0, <<0, 0>>)>>
           w == [k \in 1..K |-> Part(bytes, size, k)]
           z == <<Update(0, <<0, n>>)>>
           S == {o[i] : i \in 1..5} \cup {c[1]} \cup {w[k] : k \in 1..K} \cup {z[1]}
           u == c \o w
           v == u \o z
           y == o \o v
<1>1. n \in Nat /\ n # 0 /\ K \in Nat
  <2>1. n \in Nat /\ n # 0
    OBVIOUS
  <2> HIDE DEF n
  <2> QED
    BY <2>1, PieceFacts
<1>2. Plan(bytes, p2, size) = y
  BY DEF Plan, Writing, Part, Pieces, low, high
<1>3. o = [i \in 1..5 |-> o[i]]
  BY DEF Opening
<1> HIDE DEF n, K, o
<1>4. c[1] = Update(0, <<0, 0>>) /\ z[1] = Update(0, <<0, n>>)
  OBVIOUS
<1>5. IsSeqOf(S, o, 5) /\ IsSeqOf(S, w, K) /\ IsSeqOf(S, c, 1) /\ IsSeqOf(S, z, 1)
  <2>1. (\A i \in 1..5 : o[i] \in S) /\ c[1] \in S /\ (\A k \in 1..K : w[k] \in S) /\ z[1] \in S
    OBVIOUS
  <2>2. c = [i \in 1..1 |-> c[i]] /\ z = [i \in 1..1 |-> z[i]] /\ w = [k \in 1..K |-> w[k]]
    OBVIOUS
  <2> HIDE DEF S, c, w, z
  <2>3. IsSeqOf(S, o, 5)
    BY <1>3, <2>1 DEF IsSeqOf
  <2>4. IsSeqOf(S, w, K)
    <3> DEFINE g == [k \in 1..K |-> w[k]]
    <3>1. g \in Seq(S) /\ Len(g) = K
      BY <1>1, <2>1
    <3>2. w = g
      BY <2>2
    <3> HIDE DEF g
    <3> QED
      BY <3>1, <3>2 DEF IsSeqOf
  <2>5. IsSeqOf(S, c, 1) /\ IsSeqOf(S, z, 1)
    BY <2>1, <2>2 DEF IsSeqOf
  <2> QED
    BY <2>3, <2>4, <2>5
<1>6. \A k \in 1..K : w[k] = Part(bytes, size, k)
  OBVIOUS
<1> HIDE DEF S, c, w, z
<1>7. JoinsOf(S, u, c, 1, w, K) /\ IsSeqOf(S, u, 1 + K) /\ 1 + K \in Nat
  <2>1. JoinsOf(S, u, c, 1, w, K)
    BY <1>1, <1>5, JoinedOf
  <2> HIDE DEF u
  <2> QED
    BY <1>1, <2>1 DEF JoinsOf
<1> HIDE DEF u
<1>8. JoinsOf(S, v, u, 1 + K, z, 1) /\ IsSeqOf(S, v, 1 + K + 1) /\ 1 + K + 1 \in Nat
  <2>1. JoinsOf(S, v, u, 1 + K, z, 1)
    BY <1>5, <1>7, JoinedOf
  <2> HIDE DEF v
  <2> QED
    BY <1>1, <2>1 DEF JoinsOf
<1> HIDE DEF v
<1>9. JoinsOf(S, y, o, 5, v, 1 + K + 1)
  BY <1>5, <1>8, JoinedOf
<1> HIDE DEF y
<1>10. Len(y) = K + 7 /\ \A i \in 1..5 : y[i] = o[i]
  BY <1>1, <1>9 DEF JoinsOf, IsSeqOf
<1>11. \A i \in 1..(1 + K + 1) : y[5 + i] = v[i]
  BY <1>9 DEF JoinsOf
<1>12. v[1] = c[1] /\ (\A k \in 1..K : v[1 + k] = w[k]) /\ v[1 + K + 1] = z[1]
  <2>1. u[1] = c[1] /\ \A k \in 1..K : u[1 + k] = w[k]
    BY <1>7 DEF JoinsOf
  <2>2. (\A i \in 1..(1 + K) : v[i] = u[i]) /\ v[1 + K + 1] = z[1]
    BY <1>8 DEF JoinsOf
  <2>3. 1 \in 1..(1 + K) /\ \A k \in 1..K : 1 + k \in 1..(1 + K)
    BY <1>1
  <2> QED
    BY <2>1, <2>2, <2>3
<1>13. y[6] = c[1]
  <2>1. 1 \in 1..(1 + K + 1) /\ 5 + 1 = 6
    BY <1>1
  <2> QED
    BY <1>11, <1>12, <2>1
<1>14. ASSUME NEW k \in 1..K PROVE y[6 + k] = w[k]
  <2>1. 1 + k \in 1..(1 + K + 1) /\ 5 + (1 + k) = 6 + k
    BY <1>1
  <2> QED
    BY <1>11, <1>12, <2>1
<1>15. y[K + 7] = z[1]
  <2>1. 1 + K + 1 \in 1..(1 + K + 1) /\ 5 + (1 + K + 1) = K + 7
    BY <1>1
  <2> QED
    BY <1>11, <1>12, <2>1
<1>a. y = [i \in 1..Len(y) |-> y[i]]
  <2>1. y \in Seq(S)
    BY <1>9 DEF JoinsOf, IsSeqOf
  <2> QED
    BY <2>1
<1>16. IsPlan(y, bytes, p2, size)
  BY <1>4, <1>a, <1>6, <1>10, <1>13, <1>14, <1>15 DEF IsPlan, n, K, o
<1> QED
  BY <1>2, <1>16

-----------------------------------------------------------------------------
(* Updates *)

\* The file g is the present one with d written at this offset.
Writes(g, offset, d) ==
    /\ g \in [1..NDEF_MAX_LENGTH -> 0..255]
    /\ \A x \in 1..Len(d) : g[offset + x] = d[x]
    /\ \A k \in 1..NDEF_MAX_LENGTH : k <= offset \/ k > offset + Len(d) => g[k] = file[k]

\* The file an update leaves
LEMMA CopiedFile ==
    ASSUME file \in [1..NDEF_MAX_LENGTH -> 0..255], NEW offset \in Nat, NEW d \in Seq(0..255),
           offset + Len(d) <= NDEF_MAX_LENGTH
    PROVE  Writes(Copied(Update(offset, d)), offset, d)
<1> DEFINE N == NDEF_MAX_LENGTH
           l == Len(d)
           g == [k \in 1..N |-> IF k \in (offset + 1)..(offset + l) THEN d[k - offset] ELSE file[k]]
<1>1. N \in Nat /\ l \in Nat /\ offset + l <= N
  BY TagAssumption
<1>2. Len(file) = N
  BY <1>1
<1>3. Update(offset, d).offset = offset /\ Update(offset, d).data = d
  BY DEF Update
<1>4. Copied(Update(offset, d)) = g
  <2>1. ~(offset + l > N)
    <3> HIDE DEF N, l
    <3> QED
      BY <1>1
  <2> QED
    BY <1>2, <1>3, <2>1 DEF Copied
<1>5. \A x \in 1..l : d[x] \in 0..255
  BY ElementOfSeq
<1> HIDE DEF l, N
<1>6. g \in [1..N -> 0..255]
  <2> SUFFICES ASSUME NEW k \in 1..N
               PROVE  (IF k \in (offset + 1)..(offset + l) THEN d[k - offset] ELSE file[k]) \in 0..255
    OBVIOUS
  <2>1. CASE k \in (offset + 1)..(offset + l)
    <3>1. k - offset \in 1..l
      BY <1>1, <2>1
    <3> QED
      BY <1>5, <2>1, <3>1
  <2>2. CASE k \notin (offset + 1)..(offset + l)
    BY <2>2 DEF N
  <2> QED
    BY <2>1, <2>2
<1>7. ASSUME NEW x \in 1..l PROVE g[offset + x] = d[x]
  <2>1. offset + x \in 1..N /\ offset + x \in (offset + 1)..(offset + l) /\ (offset + x) - offset = x
    BY <1>1
  <2> QED
    BY <2>1
<1>8. ASSUME NEW k \in 1..N, k <= offset \/ k > offset + l PROVE g[k] = file[k]
  <2>1. k \notin (offset + 1)..(offset + l)
    BY <1>1, <1>8
  <2> QED
    BY <2>1
<1> HIDE DEF g
<1>9. Writes(g, offset, d)
  BY <1>6, <1>7, <1>8 DEF Writes, l, N
<1> QED
  BY <1>4, <1>9

\* What one round of emulate does with an update that stays in the file
Updates(lost, offset, d) ==
    /\ Writes(file', offset, d)
    /\ tagWrittenByInitiator' = TRUE
    /\ currentFile' = currentFile
    /\ todo' = IF lost THEN todo ELSE Tail(todo)
    /\ Len(todo) = 1 => whole' = message /\ landed' = TRUE
    /\ Len(todo) # 1 => whole' = whole /\ landed' = landed

\* A round that serves an update writes its bytes and nothing else.
LEMMA ServeUpdate ==
    ASSUME NEW lost \in BOOLEAN, Serve(lost), NfcTypeOK, landed \in BOOLEAN,
           NEW offset \in Nat, NEW d \in Seq(0..255), offset + Len(d) <= NDEF_MAX_LENGTH,
           Head(todo) = Update(offset, d)
    PROVE  Updates(lost, offset, d)
<1> DEFINE c == Head(todo)
           N == NDEF_MAX_LENGTH
<1>1. c = Update(offset, d) /\ c.ins = "update" /\ c.offset = offset
  BY DEF Update
<1>2. ~(offset > N)
  <2> DEFINE l == Len(d)
  <2>1. l \in Nat /\ N \in Nat /\ offset + l <= N
    BY TagAssumption
  <2> HIDE DEF l, N
  <2> QED
    BY <2>1
<1> HIDE DEF c, N
<1>3. Response(c) = "COMMAND_COMPLETE" /\ Selected(c) = currentFile
  BY <1>1, <1>2 DEF Response, Selected, N
<1>4. Writes(Copied(c), offset, d)
  BY <1>1, CopiedFile DEF NfcTypeOK
<1>5. /\ currentFile' = Selected(c)
      /\ file' = IF c.ins = "update" /\ Response(c) = "COMMAND_COMPLETE" THEN Copied(c) ELSE file
      /\ tagWrittenByInitiator' =
            (tagWrittenByInitiator \/ (c.ins = "update" /\ Response(c) = "COMMAND_COMPLETE"))
      /\ todo' = IF lost THEN todo
                 ELSE IF Response(c) = "COMMAND_COMPLETE" THEN Tail(todo) ELSE <<>>
      /\ whole' = IF (c.ins = "update" /\ Response(c) = "COMMAND_COMPLETE") /\ Len(todo) = 1
                  THEN message ELSE whole
      /\ landed' = (landed \/ ((c.ins = "update" /\ Response(c) = "COMMAND_COMPLETE")
                               /\ Len(todo) = 1))
  BY DEF Serve, c
<1>6. file' = Copied(c) /\ tagWrittenByInitiator' = TRUE /\ currentFile' = currentFile
  BY <1>1, <1>3, <1>5
<1>7. todo' = IF lost THEN todo ELSE Tail(todo)
  BY <1>3, <1>5
<1>8. /\ Len(todo) = 1 => whole' = message /\ landed' = TRUE
      /\ Len(todo) # 1 => whole' = whole /\ landed' = landed
  BY <1>1, <1>3, <1>5
<1> QED
  BY <1>4, <1>6, <1>7, <1>8 DEF Updates

\* What one round does with a command before the first update
Opens(lost) ==
    /\ UNCHANGED <<file, tagWrittenByInitiator, whole, landed>>
    /\ currentFile' \in {"NONE", "CC", "NDEF"}
    /\ todo' \in {IF lost THEN todo ELSE Tail(todo), <<>>}

\* A round that serves one of the commands before the writes leaves the file.
LEMMA ServeOpening ==
    ASSUME NEW lost \in BOOLEAN, Serve(lost), NfcTypeOK, landed \in BOOLEAN,
           NEW p2, NEW i \in 1..5, Head(todo) = Opening(p2)[i]
    PROVE  Opens(lost)
<1> DEFINE c == Head(todo)
<1>1. c.ins # "update" /\ (c.ins = "select_id" => c.id \in {"CC", "NDEF"})
  <2>1. CASE i = 1
    BY <2>1 DEF Opening
  <2>2. CASE i = 2
    BY <2>2 DEF Opening
  <2>3. CASE i = 3
    BY <2>3 DEF Opening
  <2>4. CASE i = 4
    BY <2>4 DEF Opening
  <2>5. CASE i = 5
    BY <2>5 DEF Opening
  <2> QED
    BY <2>1, <2>2, <2>3, <2>4, <2>5
<1> HIDE DEF c
<1>2. Selected(c) \in {"NONE", "CC", "NDEF"}
  BY <1>1 DEF Selected, NfcTypeOK
<1>3. /\ currentFile' = Selected(c)
      /\ file' = IF c.ins = "update" /\ Response(c) = "COMMAND_COMPLETE" THEN Copied(c) ELSE file
      /\ tagWrittenByInitiator' =
            (tagWrittenByInitiator \/ (c.ins = "update" /\ Response(c) = "COMMAND_COMPLETE"))
      /\ todo' = IF lost THEN todo
                 ELSE IF Response(c) = "COMMAND_COMPLETE" THEN Tail(todo) ELSE <<>>
      /\ whole' = IF (c.ins = "update" /\ Response(c) = "COMMAND_COMPLETE") /\ Len(todo) = 1
                  THEN message ELSE whole
      /\ landed' = (landed \/ ((c.ins = "update" /\ Response(c) = "COMMAND_COMPLETE")
                               /\ Len(todo) = 1))
  BY DEF Serve, c
<1>4. tagWrittenByInitiator \in BOOLEAN
  BY DEF NfcTypeOK
<1>5. /\ file' = file /\ whole' = whole
      /\ todo' \in {IF lost THEN todo ELSE Tail(todo), <<>>}
  BY <1>1, <1>3
<1>6. tagWrittenByInitiator' = tagWrittenByInitiator /\ landed' = landed
  BY <1>1, <1>3, <1>4
<1> QED
  BY <1>2, <1>3, <1>5, <1>6 DEF Opens

-----------------------------------------------------------------------------
(* A round of the emulation *)

\* What is left of a plan: its next command and the rest after that
LEMMA RestFacts ==
    ASSUME NEW plan, NEW l \in Nat, Len(plan) = l, NEW j \in Nat, j <= l
    PROVE  /\ Len(Rest(plan, j)) = l - j
           /\ j < l => /\ Rest(plan, j) # <<>>
                       /\ Head(Rest(plan, j)) = plan[j + 1]
                       /\ Tail(Rest(plan, j)) = Rest(plan, j + 1)
           /\ j = l => Rest(plan, j) = <<>>
<1> DEFINE r == Rest(plan, j)
           S == {plan[j + i] : i \in 1..(l - j)}
<1>1. r = [i \in 1..(l - j) |-> plan[j + i]] /\ l - j \in Nat
  BY DEF Rest
<1>2. r \in Seq(S) /\ Len(r) = l - j
  <2>1. \A i \in 1..(l - j) : plan[j + i] \in S
    OBVIOUS
  <2> DEFINE q == l - j
  <2> HIDE DEF S, r
  <2>2. q \in Nat /\ r = [i \in 1..q |-> plan[j + i]] /\ \A i \in 1..q : plan[j + i] \in S
    BY <1>1, <2>1
  <2> HIDE DEF q
  <2>3. r \in Seq(S) /\ Len(r) = q
    BY <2>2
  <2> QED
    BY <2>3 DEF q
<1> HIDE DEF S, r
<1>3. ASSUME j < l
      PROVE  r # <<>> /\ Head(r) = plan[j + 1] /\ Tail(r) = Rest(plan, j + 1)
  <2>1. 1 \in 1..(l - j) /\ l - j # 0 /\ l - (j + 1) = (l - j) - 1 /\ (l - j) - 1 \in Nat
    BY <1>3
  <2>2. r # <<>>
    BY <1>2, <2>1
  <2>3. Head(r) = plan[j + 1]
    BY <1>1, <1>2, <2>1, <2>2
  <2>4. Tail(r) = [i \in 1..((l - j) - 1) |-> r[i + 1]]
    <3> DEFINE t == Tail(r)
               q == (l - j) - 1
    <3>1. t \in Seq(S) /\ Len(t) = q /\ \A i \in 1..Len(t) : t[i] = r[i + 1]
      BY <1>2, <2>1, <2>2, HeadTailProperties
    <3> HIDE DEF t, q
    <3>2. t = [i \in 1..q |-> t[i]]
      BY <3>1
    <3>3. t = [i \in 1..q |-> r[i + 1]]
      BY <3>1, <3>2
    <3> QED
      BY <3>3 DEF t, q
  <2>5. \A i \in 1..((l - j) - 1) : i + 1 \in 1..(l - j) /\ j + (i + 1) = (j + 1) + i
    BY <1>1
  <2>6. \A i \in 1..((l - j) - 1) : r[i + 1] = plan[(j + 1) + i]
    BY <1>1, <2>5
  <2>7. Rest(plan, j + 1) = [i \in 1..((l - j) - 1) |-> plan[(j + 1) + i]]
    BY <2>1 DEF Rest
  <2> QED
    BY <2>2, <2>3, <2>4, <2>6, <2>7
<1>4. ASSUME j = l PROVE r = <<>>
  BY <1>2, <1>4
<1> QED
  BY <1>2, <1>3, <1>4 DEF r

\* Where a phone is in its plan
IsAt(b, p2, size, j, n, k) ==
    /\ b = Encode(message) /\ n = Len(b) /\ k = Pieces(n, size)
    /\ Fits(message)
    /\ p2 \in {0, 12} /\ size \in Piece /\ size \in Nat \ {0}
    /\ j \in 0..(k + 6)
    /\ Progress(b, p2, size, j)
    /\ IsPlan(Plan(b, p2, size), b, p2, size)
    /\ Head(todo) = Plan(b, p2, size)[j + 1]
    /\ Len(todo) = k + 7 - j
    /\ \A i \in {j, j + 1} : i <= k + 7 /\ i \in Nat
    /\ Tail(todo) = Rest(Plan(b, p2, size), j + 1)

\* A phone with a command to send is somewhere in its plan.
LEMMA PhoneAt ==
    ASSUME NfcInv, pc = "emulating", todo # <<>>
    PROVE  \E b, p2, size, j, n, k : IsAt(b, p2, size, j, n, k) /\ n \in Nat /\ k \in Nat
<1>1. Fits(message)
  BY DEF NfcInv, PhoneInv
<1>2. PICK p2 \in {0, 12}, size \in Piece, j \in Nat : Progress(Encode(message), p2, size, j)
  BY DEF NfcInv, PhoneInv
<1> DEFINE b == Encode(message)
           n == Len(b)
           k == Pieces(n, size)
           plan == Plan(b, p2, size)
<1>3. b \in Seq(Nat) /\ n \in Nat /\ n >= 3
  BY <1>1, FitFacts
<1>4. size \in Nat \ {0}
  BY TagAssumption
<1>5. n # 0 /\ b # <<>> /\ k \in Nat
  <2>1. n # 0
    <3> HIDE DEF n
    <3> QED
      BY <1>3
  <2>2. b # <<>>
    BY <2>1
  <2> HIDE DEF n
  <2>3. k \in Nat
    BY <1>3, <1>4, <2>1, PieceFacts
  <2> QED
    BY <2>1, <2>2, <2>3
<1>6. IsPlan(plan, b, p2, size)
  BY <1>3, <1>4, <1>5, PlanShape
<1>7. Len(plan) = k + 7
  BY <1>6 DEF IsPlan
<1>8. j <= Len(plan) /\ todo = Rest(plan, j)
  BY <1>2 DEF Progress
<1> HIDE DEF b, n, k, plan
<1>9. k + 7 \in Nat /\ j <= k + 7
  BY <1>5, <1>7, <1>8
<1>10. j < k + 7
  <2> SUFFICES ASSUME j = k + 7 PROVE FALSE
    BY <1>5, <1>9
  <2> QED
    BY <1>7, <1>8, <1>9, RestFacts
<1>11. /\ Len(todo) = k + 7 - j
       /\ Head(todo) = plan[j + 1]
       /\ Tail(todo) = Rest(plan, j + 1)
  <2> DEFINE l == k + 7
  <2>1. l \in Nat /\ Len(plan) = l /\ j <= l /\ j < l
    BY <1>7, <1>9, <1>10
  <2> HIDE DEF l
  <2>2. /\ Len(Rest(plan, j)) = l - j
        /\ Head(Rest(plan, j)) = plan[j + 1]
        /\ Tail(Rest(plan, j)) = Rest(plan, j + 1)
    BY <2>1, RestFacts
  <2>3. /\ Len(todo) = Len(Rest(plan, j))
        /\ Head(todo) = Head(Rest(plan, j))
        /\ Tail(todo) = Tail(Rest(plan, j))
    BY <1>8, Zenon
  <2>4. Len(todo) = l - j /\ Head(todo) = plan[j + 1] /\ Tail(todo) = Rest(plan, j + 1)
    BY <2>2, <2>3, Zenon
  <2>5. l - j = k + 7 - j
    BY <1>5 DEF l
  <2> QED
    BY <2>4, <2>5, Zenon
<1>12. j \in 0..(k + 6) /\ \A i \in {j, j + 1} : i <= k + 7 /\ i \in Nat
  BY <1>5, <1>10
<1>13. IsAt(b, p2, size, j, n, k)
  BY <1>1, <1>2, <1>4, <1>6, <1>11, <1>12 DEF IsAt, b, n, k, plan
<1> QED
  BY <1>3, <1>5, <1>13

\* What a round leaves true, with the phone after j commands
ServeKeeps(b, p2, size, j) ==
    /\ \/ todo' = <<>> /\ ~tagWrittenByInitiator'
       \/ \E i \in {j, j + 1} : Progress(b, p2, size, i)'
    /\ tagWrittenByInitiator' /\ ~landed' => Cleared'
    /\ landed' => whole' = message /\ tagWrittenByInitiator' /\ Holds(message)'
    /\ file' \in [1..NDEF_MAX_LENGTH -> 0..255]
    /\ tagWrittenByInitiator' \in BOOLEAN
    /\ currentFile' \in {"NONE", "CC", "NDEF"}
    /\ whole' \in Message \cup {NoMessage}
    /\ landed' \in BOOLEAN
    /\ \/ \A i \in 3..NDEF_MAX_LENGTH : file'[i] = file[i]
       \/ j > 5 /\ \A x \in 1..Len(b) : x <= (j - 5) * size => file'[2 + x] = b[x]

\* Before the first update nothing changes.
LEMMA OpeningKeeps ==
    ASSUME NfcInv, NEW lost \in BOOLEAN, Serve(lost), NEW n \in Nat, NEW k \in Nat,
           NEW b, NEW p2, NEW size, NEW j \in Nat, IsAt(b, p2, size, j, n, k), j < 5
    PROVE  ServeKeeps(b, p2, size, j)
<1> DEFINE plan == Plan(b, p2, size)
<1>1. IsPlan(plan, b, p2, size) /\ Progress(b, p2, size, j) /\ size \in Nat \ {0}
  BY DEF IsAt
<1>2. n = Len(b) /\ k = Pieces(n, size) /\ Head(todo) = plan[j + 1] /\ Tail(todo) = Rest(plan, j + 1)
  BY DEF IsAt
<1>3. Len(plan) = k + 7 /\ \A i \in 1..5 : plan[i] = Opening(p2)[i]
  BY <1>1, <1>2 DEF IsPlan
<1>4. j + 1 \in 1..5 /\ ~(j + 1 >= k + 7)
  OBVIOUS
<1>5. Head(todo) = Opening(p2)[j + 1]
  BY <1>2, <1>3, <1>4
<1>6. NfcTypeOK /\ landed \in BOOLEAN
  BY DEF NfcInv
<1>7. Opens(lost)
  BY <1>4, <1>5, <1>6, ServeOpening
<1>8. todo = Rest(plan, j) /\ ~tagWrittenByInitiator /\ (landed => j + 1 >= Len(plan))
  BY <1>1 DEF Progress
<1>9. ~landed
  BY <1>3, <1>4, <1>8
<1> HIDE DEF plan
<1>10. file' = file /\ tagWrittenByInitiator' = tagWrittenByInitiator /\ whole' = whole /\ landed' = landed
  BY <1>7 DEF Opens
<1>11. CASE todo' = <<>>
  BY <1>6, <1>7, <1>8, <1>9, <1>10, <1>11 DEF ServeKeeps, Opens, NfcTypeOK
<1>12. CASE todo' # <<>>
  <2>1. todo' = IF lost THEN todo ELSE Tail(todo)
    BY <1>7, <1>12 DEF Opens
  <2>2. PICK i \in {j, j + 1} : todo' = Rest(plan, i)
    BY <1>2, <1>8, <2>1
  <2>3. i \in Nat /\ i <= k + 7 /\ ~(i > 5) /\ (i - 6) * size <= 0
    <3>1. i \in Nat /\ i <= 5
      BY <1>4
    <3>2. (i - 6) * size <= 0
      BY <1>1, <3>1
    <3> QED
      BY <3>1, <3>2
  <2>4. \A x \in 1..Len(b) : ~(x <= (i - 6) * size)
    <3> SUFFICES ASSUME NEW x \in 1..n PROVE ~(x <= (i - 6) * size)
      BY <1>2
    <3>1. (i - 6) * size \in Int
      BY <1>1, <2>3
    <3> QED
      BY <2>3, <3>1
  <2>5. Progress(b, p2, size, i)'
    BY <1>3, <1>8, <1>9, <1>10, <2>2, <2>3, <2>4 DEF Progress, plan
  <2> QED
    BY <1>6, <1>7, <1>8, <1>9, <1>10, <2>5 DEF ServeKeeps, Opens, NfcTypeOK
<1> QED
  BY <1>11, <1>12

\* The first update makes the file empty.
LEMMA ClearKeeps ==
    ASSUME NfcInv, NEW lost \in BOOLEAN, Serve(lost), NEW n \in Nat, NEW k \in Nat,
           NEW b, NEW p2, NEW size, NEW j \in Nat, IsAt(b, p2, size, j, n, k), j = 5
    PROVE  ServeKeeps(b, p2, size, j)
<1> DEFINE plan == Plan(b, p2, size)
           z == <<0, 0>>
<1>1. IsPlan(plan, b, p2, size) /\ Progress(b, p2, size, j) /\ size \in Nat \ {0}
  BY DEF IsAt
<1>2. /\ n = Len(b) /\ k = Pieces(n, size) /\ Head(todo) = plan[j + 1]
      /\ Tail(todo) = Rest(plan, j + 1) /\ Len(todo) = k + 7 - j
  BY DEF IsAt
<1>3. Len(plan) = k + 7 /\ plan[6] = Update(0, z)
  BY <1>1, <1>2 DEF IsPlan
<1>4. NfcTypeOK /\ landed \in BOOLEAN
  BY DEF NfcInv
<1>5. z \in Seq(0..255) /\ Len(z) = 2 /\ z[1] = 0 /\ z[2] = 0
  OBVIOUS
<1> HIDE DEF z, plan
<1>6. Updates(lost, 0, z)
  <2>1. 0 \in Nat /\ 0 + Len(z) <= NDEF_MAX_LENGTH
    BY <1>5, TagAssumption
  <2>2. Head(todo) = Update(0, z)
    BY <1>2, <1>3
  <2> QED
    BY <1>4, <1>5, <2>1, <2>2, ServeUpdate
<1>7. Writes(file', 0, z)
  BY <1>6 DEF Updates
<1>8. file' \in [1..NDEF_MAX_LENGTH -> 0..255] /\ file'[1] = 0 /\ file'[2] = 0
  <2>1. \A x \in 1..Len(z) : file'[0 + x] = z[x]
    BY <1>7 DEF Writes
  <2>2. file'[0 + 1] = z[1] /\ file'[0 + 2] = z[2]
    BY <1>5, <2>1
  <2>3. file'[1] = 0 /\ file'[2] = 0
    BY <1>5, <2>2
  <2> QED
    BY <1>7, <2>3 DEF Writes
<1>a. \A i \in 3..NDEF_MAX_LENGTH : file'[i] = file[i]
  <2>1. \A i \in 1..NDEF_MAX_LENGTH : i > 0 + Len(z) => file'[i] = file[i]
    BY <1>7 DEF Writes
  <2>2. 0 + Len(z) = 2
    BY <1>5
  <2>3. NDEF_MAX_LENGTH \in Nat
    BY TagAssumption
  <2> SUFFICES ASSUME NEW i \in 3..NDEF_MAX_LENGTH PROVE file'[i] = file[i]
    OBVIOUS
  <2>4. \A y \in 1..NDEF_MAX_LENGTH : y > 2 => file'[y] = file[y]
    BY <2>1, <2>2
  <2>5. i \in 1..NDEF_MAX_LENGTH /\ i > 2
    BY <2>3
  <2> QED
    BY <2>4, <2>5
<1>9. todo = Rest(plan, j) /\ (landed => j + 1 >= Len(plan))
  BY <1>1 DEF Progress, plan
<1>10. ~landed /\ Len(todo) # 1
  BY <1>2, <1>3, <1>9
<1>11. /\ landed' = FALSE /\ whole' = whole /\ tagWrittenByInitiator' = TRUE /\ currentFile' = currentFile
       /\ todo' = IF lost THEN todo ELSE Tail(todo)
  BY <1>4, <1>6, <1>10 DEF Updates
<1>12. PICK i \in {j, j + 1} : todo' = Rest(plan, i)
  BY <1>2, <1>9, <1>11
<1>13. i \in Nat /\ i <= k + 7 /\ ~(i < 5) /\ (i - 6) * size <= 0
  <2>1. i \in Nat /\ i <= 6 /\ i >= 5
    OBVIOUS
  <2>2. (i - 6) * size <= 0
    BY <1>1, <2>1
  <2> QED
    BY <2>1, <2>2
<1>14. \A x \in 1..Len(b) : ~(x <= (i - 6) * size)
  <2> SUFFICES ASSUME NEW x \in 1..n PROVE ~(x <= (i - 6) * size)
    BY <1>2
  <2>1. (i - 6) * size \in Int
    BY <1>1, <1>13
  <2> QED
    BY <1>13, <2>1
<1>15. Progress(b, p2, size, i)'
  BY <1>3, <1>11, <1>12, <1>13, <1>14 DEF Progress, plan
<1>16. Cleared'
  BY <1>8 DEF Cleared
<1> QED
  BY <1>4, <1>8, <1>a, <1>11, <1>15, <1>16 DEF ServeKeeps, NfcTypeOK

\* A piece brings its bytes and leaves the length, and the earlier pieces, alone.
LEMMA PieceKeeps ==
    ASSUME NfcInv, NEW lost \in BOOLEAN, Serve(lost), NEW n \in Nat, NEW k \in Nat,
           NEW b, NEW p2, NEW size, NEW j \in Nat, IsAt(b, p2, size, j, n, k), j > 5, j < k + 6
    PROVE  ServeKeeps(b, p2, size, j)
<1> DEFINE plan == Plan(b, p2, size)
           q == j - 5
           l == low(size, q)
           h == high(n, size, q)
           d == SubSeq(b, l + 1, h)
           N == NDEF_MAX_LENGTH
<1>1. IsPlan(plan, b, p2, size) /\ Progress(b, p2, size, j) /\ size \in Nat \ {0}
  BY DEF IsAt
<1>2. /\ n = Len(b) /\ k = Pieces(n, size) /\ Head(todo) = plan[j + 1]
      /\ Tail(todo) = Rest(plan, j + 1) /\ Len(todo) = k + 7 - j
      /\ b = Encode(message) /\ Fits(message)
  BY DEF IsAt
<1>3. b \in Seq(0..255) /\ n >= 3 /\ n + 2 <= N
  BY <1>2, FitFacts
<1>4. q \in 1..k /\ 6 + q = j + 1 /\ n # 0
  BY <1>3
<1>5. Len(plan) = k + 7 /\ plan[6 + q] = Part(b, size, q)
  BY <1>1, <1>2, <1>4 DEF IsPlan
<1>6. /\ l \in Nat /\ h \in Nat /\ l < h /\ h <= n /\ h <= q * size
      /\ q * size <= n => h = q * size
  BY <1>1, <1>2, <1>4, PieceFacts
<1>7. l = (j - 6) * size /\ q * size = (j + 1 - 6) * size
  <2>1. q - 1 = j - 6 /\ q = j + 1 - 6
    OBVIOUS
  <2> QED
    BY <2>1 DEF low
<1>8. NfcTypeOK /\ landed \in BOOLEAN
  BY DEF NfcInv
<1> HIDE DEF plan, q, l, h
<1>9. d \in Seq(0..255) /\ Len(d) = h - l /\ \A x \in 1..(h - l) : d[x] = b[l + x]
  <2>1. \A i \in (l + 1)..h : b[i] \in 0..255
    <3> SUFFICES ASSUME NEW i \in (l + 1)..h PROVE b[i] \in 0..255
      OBVIOUS
    <3>1. i \in 1..Len(b)
      BY <1>2, <1>6
    <3> QED
      BY <1>3, <3>1, ElementOfSeq
  <2>2. l + 1 \in Int /\ h \in Int /\ l + 1 <= h /\ h - (l + 1) + 1 = h - l
    BY <1>6
  <2>3. /\ d \in Seq(0..255)
        /\ Len(d) = IF l + 1 <= h THEN h - (l + 1) + 1 ELSE 0
        /\ \A x \in 1..(h - (l + 1) + 1) : d[x] = b[l + 1 + x - 1]
    BY <2>1, <2>2, SubSeqProperties
  <2> HIDE DEF d
  <2>4. Len(d) = h - l
    BY <2>2, <2>3
  <2>5. ASSUME NEW x \in 1..(h - l) PROVE d[x] = b[l + x]
    <3>1. x \in 1..(h - (l + 1) + 1) /\ l + 1 + x - 1 = l + x
      BY <1>6
    <3> QED
      BY <2>3, <3>1
  <2> QED
    BY <2>3, <2>4, <2>5
<1>10. Head(todo) = Update(2 + l, d)
  BY <1>2, <1>4, <1>5 DEF Part, l, h
<1> HIDE DEF d
<1>11. N \in Nat /\ 2 + l \in Nat /\ 2 + l + (h - l) <= N
  BY <1>3, <1>6, TagAssumption
<1>12. Updates(lost, 2 + l, d)
  <2>1. 2 + l + Len(d) <= N
    BY <1>9, <1>11
  <2> QED
    BY <1>8, <1>9, <1>10, <1>11, <2>1, ServeUpdate
<1>13. Writes(file', 2 + l, d)
  BY <1>12 DEF Updates
<1>14. /\ file' \in [1..N -> 0..255]
       /\ \A x \in 1..(h - l) : file'[2 + l + x] = b[l + x]
       /\ \A i \in 1..N : i <= 2 + l \/ i > 2 + l + (h - l) => file'[i] = file[i]
  BY <1>9, <1>13 DEF Writes
<1>15. todo = Rest(plan, j) /\ tagWrittenByInitiator /\ (landed => j + 1 >= Len(plan))
  BY <1>1 DEF Progress, plan
<1>16. \A x \in 1..n : x <= l => file[2 + x] = b[x]
  BY <1>1, <1>2, <1>7 DEF Progress
<1>17. ~landed /\ Len(todo) # 1
  BY <1>2, <1>5, <1>15
<1>18. Cleared /\ Cleared'
  <2>1. Cleared
    BY <1>15, <1>17 DEF NfcInv, FileInv, PhoneInv, Serve
  <2>2. 1 \in 1..N /\ 2 \in 1..N /\ 1 <= 2 + l /\ 2 <= 2 + l
    BY <1>6, TagAssumption
  <2>3. file'[1] = file[1] /\ file'[2] = file[2]
    BY <1>14, <2>2
  <2> QED
    BY <2>1, <2>3 DEF Cleared
<1>19. /\ landed' = FALSE /\ whole' = whole /\ tagWrittenByInitiator' = TRUE /\ currentFile' = currentFile
       /\ todo' = IF lost THEN todo ELSE Tail(todo)
  BY <1>8, <1>12, <1>17 DEF Updates
<1>20. PICK i \in {j, j + 1} : todo' = Rest(plan, i)
  BY <1>2, <1>15, <1>19
<1>21. i \in Nat /\ i <= k + 7 /\ ~(i < 5)
  OBVIOUS
<1>22. ASSUME NEW x \in 1..n, x <= q * size PROVE file'[2 + x] = b[x]
  <2>1. CASE x <= l
    <3>1. 2 + x \in 1..N /\ 2 + x <= 2 + l
      BY <1>3, <1>6, <1>11, <2>1
    <3> QED
      BY <1>14, <1>16, <2>1, <3>1
  <2>2. CASE ~(x <= l)
    <3>1. q * size \in Int
      BY <1>1, <1>4
    <3>2. x <= h
      <4>1. CASE q * size <= n
        BY <1>6, <1>22, <4>1
      <4>2. CASE ~(q * size <= n)
        <5>1. h = n
          <6>1. ~(q * size < n)
            BY <3>1, <4>2
          <6> QED
            BY <6>1 DEF h, high
        <5> QED
          BY <5>1
      <4> QED
        BY <4>1, <4>2
    <3>3. x - l \in 1..(h - l) /\ 2 + l + (x - l) = 2 + x /\ l + (x - l) = x
      BY <1>6, <2>2, <3>2
    <3>4. file'[2 + l + (x - l)] = b[l + (x - l)]
      BY <1>14, <3>3
    <3> QED
      BY <3>3, <3>4
  <2> QED
    BY <2>1, <2>2
<1>a. ASSUME NEW x \in 1..n, x <= (i - 6) * size PROVE x <= q * size
  <2>1. CASE i = j + 1
    BY <1>7, <1>a, <2>1
  <2>2. CASE i = j
    <3>1. x <= l /\ q * size \in Int
      BY <1>1, <1>4, <1>7, <1>a, <2>2
    <3> QED
      BY <1>6, <3>1
  <2> QED
    BY <2>1, <2>2
<1>b. \A x \in 1..Len(b) : x <= (j - 5) * size => file'[2 + x] = b[x]
  BY <1>2, <1>22 DEF q
<1>23. Progress(b, p2, size, i)'
  BY <1>2, <1>5, <1>19, <1>20, <1>21, <1>22, <1>a DEF Progress, plan
<1> QED
  BY <1>8, <1>b, <1>14, <1>18, <1>19, <1>23 DEF ServeKeeps, NfcTypeOK

\* With the length the whole message is there.
LEMMA LengthKeeps ==
    ASSUME NfcInv, NEW lost \in BOOLEAN, Serve(lost), NEW n \in Nat, NEW k \in Nat,
           NEW b, NEW p2, NEW size, NEW j \in Nat, IsAt(b, p2, size, j, n, k), j = k + 6
    PROVE  ServeKeeps(b, p2, size, j)
<1> DEFINE plan == Plan(b, p2, size)
           z == <<0, n>>
           N == NDEF_MAX_LENGTH
<1>1. IsPlan(plan, b, p2, size) /\ Progress(b, p2, size, j) /\ size \in Nat \ {0}
  BY DEF IsAt
<1>2. /\ n = Len(b) /\ k = Pieces(n, size) /\ Head(todo) = plan[j + 1]
      /\ Tail(todo) = Rest(plan, j + 1) /\ Len(todo) = k + 7 - j
      /\ b = Encode(message) /\ Fits(message)
  BY DEF IsAt
<1>3. n >= 3 /\ n + 2 <= N /\ n <= 253 /\ message \in Message
  BY <1>2, FitFacts
<1>4. Len(plan) = k + 7 /\ plan[k + 7] = Update(0, z)
  BY <1>1, <1>2 DEF IsPlan
<1>5. NfcTypeOK /\ landed \in BOOLEAN
  BY DEF NfcInv
<1>6. z \in Seq(0..255) /\ Len(z) = 2 /\ z[1] = 0 /\ z[2] = n
  <2>1. n \in 0..255 /\ 0 \in 0..255
    BY <1>3
  <2> QED
    BY <2>1
<1> HIDE DEF z, plan
<1>7. Updates(lost, 0, z)
  <2>1. 0 \in Nat /\ 0 + Len(z) <= NDEF_MAX_LENGTH
    BY <1>6, TagAssumption
  <2>2. Head(todo) = Update(0, z)
    <3>1. j + 1 = k + 7
      OBVIOUS
    <3> QED
      BY <1>2, <1>4, <3>1
  <2> QED
    BY <1>5, <1>6, <2>1, <2>2, ServeUpdate
<1>8. Writes(file', 0, z)
  BY <1>7 DEF Updates
<1>9. /\ file' \in [1..N -> 0..255] /\ file'[1] = 0 /\ file'[2] = n
      /\ \A i \in 1..N : i > 2 => file'[i] = file[i]
  <2>1. \A x \in 1..Len(z) : file'[0 + x] = z[x]
    BY <1>8 DEF Writes
  <2>2. file'[0 + 1] = z[1] /\ file'[0 + 2] = z[2]
    BY <1>6, <2>1
  <2>3. file'[1] = 0 /\ file'[2] = n
    BY <1>6, <2>2
  <2>4. \A i \in 1..N : i > 0 + Len(z) => file'[i] = file[i]
    BY <1>8 DEF Writes
  <2>5. 0 + Len(z) = 2
    BY <1>6
  <2> QED
    BY <1>8, <2>3, <2>4, <2>5 DEF Writes
<1>10. todo = Rest(plan, j) /\ tagWrittenByInitiator
  BY <1>1 DEF Progress, plan
<1>11. \A x \in 1..n : file[2 + x] = b[x]
  <2>1. n <= k * size /\ j - 6 = k
    <3>1. n # 0
      BY <1>3
    <3>2. n <= Pieces(n, size) * size
      BY <1>1, <3>1, PieceFacts
    <3> QED
      BY <1>2, <3>2
  <2> SUFFICES ASSUME NEW x \in 1..n PROVE file[2 + x] = b[x]
    OBVIOUS
  <2>2. x <= k * size
    <3>1. k * size \in Int
      BY <1>1
    <3> QED
      BY <2>1, <3>1
  <2>3. x <= (j - 6) * size
    BY <2>1, <2>2
  <2> QED
    BY <1>1, <1>2, <2>3 DEF Progress
<1>12. \A x \in 1..n : file'[2 + x] = b[x]
  <2> SUFFICES ASSUME NEW x \in 1..n PROVE file'[2 + x] = b[x]
    OBVIOUS
  <2>1. 2 + x \in 1..N /\ 2 + x > 2
    BY <1>3, TagAssumption
  <2> QED
    BY <1>9, <1>11, <2>1
<1>13. Len(todo) = 1
  BY <1>2
<1>14. /\ landed' = TRUE /\ whole' = message /\ tagWrittenByInitiator' = TRUE
       /\ currentFile' = currentFile /\ todo' = IF lost THEN todo ELSE Tail(todo)
  BY <1>7, <1>13 DEF Updates
<1>15. PICK i \in {j, j + 1} : todo' = Rest(plan, i)
  BY <1>2, <1>10, <1>14
<1>16. i \in Nat /\ i <= k + 7 /\ ~(i < 5) /\ i + 1 >= k + 7
  OBVIOUS
<1>17. Progress(b, p2, size, i)'
  BY <1>2, <1>4, <1>12, <1>14, <1>15, <1>16 DEF Progress, plan
<1>18. message' = message
  BY DEF Serve
<1>19. Holds(message)'
  BY <1>2, <1>9, <1>12, <1>18 DEF Holds, Fits
<1>20. \A y \in 3..N : file'[y] = file[y]
  <2> SUFFICES ASSUME NEW y \in 3..N PROVE file'[y] = file[y]
    OBVIOUS
  <2>1. y \in 1..N /\ y > 2
    BY TagAssumption
  <2> QED
    BY <1>9, <2>1
<1> QED
  BY <1>3, <1>5, <1>9, <1>14, <1>17, <1>19, <1>20 DEF ServeKeeps, NfcTypeOK

\* A round keeps what is known of the phone and of the file, wherever in its plan
\* the phone is.
LEMMA ServeKept ==
    ASSUME NfcInv, NEW lost \in BOOLEAN, Serve(lost), NEW n \in Nat, NEW k \in Nat,
           NEW b, NEW p2, NEW size, NEW j, IsAt(b, p2, size, j, n, k)
    PROVE  ServeKeeps(b, p2, size, j)
<1>1. j \in Nat /\ j \in 0..(k + 6)
  BY DEF IsAt
<1>2. j < 5 \/ j = 5 \/ (j > 5 /\ j < k + 6) \/ j = k + 6
  BY <1>1
<1>3. CASE j < 5
  BY <1>1, <1>3, OpeningKeeps
<1>4. CASE j = 5
  BY <1>1, <1>4, ClearKeeps
<1>5. CASE j > 5 /\ j < k + 6
  BY <1>1, <1>5, PieceKeeps
<1>6. CASE j = k + 6
  BY <1>1, <1>6, LengthKeeps
<1> QED
  BY <1>2, <1>3, <1>4, <1>5, <1>6

\* A round keeps the invariant, wherever the phone is.
LEMMA ServeInv ==
    ASSUME NfcInv, NEW lost \in BOOLEAN, Serve(lost)
    PROVE  NfcInv'
<1>1. PICK b, p2, size, j, n, k : IsAt(b, p2, size, j, n, k) /\ n \in Nat /\ k \in Nat
  BY PhoneAt DEF Serve
<1>2. /\ p2 \in {0, 12} /\ size \in Piece
      /\ b = Encode(message) /\ Fits(message)
      /\ \A i \in {j, j + 1} : i \in Nat
  BY <1>1 DEF IsAt
<1>3. ServeKeeps(b, p2, size, j)
  BY <1>1, ServeKept
<1>4. UNCHANGED <<message, result, pc, served, calls>>
  BY DEF Serve
<1>5. NfcTypeOK' /\ landed' \in BOOLEAN /\ served' \in BOOLEAN
  BY <1>3, <1>4 DEF NfcInv, NfcTypeOK, ServeKeeps
<1>6. Fits(message)'
  BY <1>2, <1>4 DEF Fits
<1>7. \/ todo' = <<>> /\ ~tagWrittenByInitiator'
      \/ \E i \in Nat : Progress(b, p2, size, i)'
  BY <1>2, <1>3 DEF ServeKeeps
<1>8. Encode(message)' = b
  BY <1>2, <1>4
<1>9. PhoneInv'
  BY <1>2, <1>3, <1>4, <1>6, <1>7, <1>8 DEF PhoneInv, ServeKeeps
<1>10. FileInv'
  <2>1. landed' => tagWrittenByInitiator' /\ Holds(message)' /\ whole' = message'
    BY <1>3, <1>4 DEF ServeKeeps
  <2>2. Holds(message)' /\ whole' = message' => Holds(whole)'
    BY DEF Holds, Fits
  <2>3. tagWrittenByInitiator' /\ ~landed' => Cleared'
    BY <1>3 DEF ServeKeeps
  <2> QED
    BY <2>1, <2>2, <2>3 DEF FileInv
<1> QED
  BY <1>5, <1>9, <1>10 DEF NfcInv

\* What try_get returns is good or not.
LEMMA TryGetGood ==
    ASSUME NEW r \in TryGet
    PROVE  r.good \in BOOLEAN
<1> DEFINE q == Len(Fields(IF tagWrittenByInitiator THEN Decode(content, length) ELSE <<>>,
                           UID, UidLength))
                + Len(Fields(IF tagWrittenByInitiator THEN Decode(content, length) ELSE <<>>,
                             OTP, CodeLength)) = 2
<1>1. r.good = q
  BY DEF TryGet, Read
<1>2. q \in BOOLEAN
  OBVIOUS
<1> HIDE DEF q
<1> QED
  BY <1>1, <1>2

\* A phone that comes begins its plan.
LEMMA EmulateInv ==
    ASSUME NfcInv, NEW m \in Message, NEW size \in Piece, NEW p2 \in {0, 12}, Emulate(m, size, p2)
    PROVE  NfcInv'
<1>1. /\ calls < MaxCalls /\ calls' = calls + 1
      /\ pc' = "emulating" /\ tagWrittenByInitiator' = FALSE /\ currentFile' = "NONE"
      /\ message' = m /\ todo' = Plan(Encode(m), p2, size) /\ landed' = FALSE
      /\ file' = file /\ result' = result /\ served' = served /\ whole' = whole
      /\ Fits(m)
  BY DEF Emulate, Plan, Fits, MaxFileSize
<1>2. calls' \in 0..MaxCalls
  <2>1. calls \in 0..MaxCalls /\ MaxCalls \in Nat
    BY TagAssumption DEF NfcInv, NfcTypeOK
  <2> QED
    BY <1>1, <2>1
<1>3. NfcTypeOK' /\ landed' \in BOOLEAN /\ served' \in BOOLEAN
  BY <1>1, <1>2 DEF NfcInv, NfcTypeOK
<1> DEFINE b == Encode(m)
           plan == Plan(b, p2, size)
           l == Len(plan)
           n == Len(b)
<1>4. b \in Seq(Nat) /\ n \in Nat /\ n >= 3 /\ size \in Nat \ {0}
  BY <1>1, FitFacts, TagAssumption
<1>5. plan = Rest(plan, 0) /\ l \in Nat
  <2>1. n # 0
    <3> HIDE DEF n
    <3> QED
      BY <1>4
  <2>2. b # <<>>
    BY <2>1
  <2>3. IsPlan(plan, b, p2, size)
    BY <1>4, <2>2, PlanShape
  <2>4. l = Pieces(n, size) + 7
    BY <2>3 DEF IsPlan
  <2>5. Pieces(n, size) \in Nat
    <3> HIDE DEF n
    <3> QED
      BY <1>4, <2>1, PieceFacts
  <2>6. plan = [i \in 1..l |-> plan[i]]
    BY <2>3 DEF IsPlan
  <2>7. l \in Nat
    BY <2>4, <2>5
  <2>8. l - 0 = l /\ \A i \in 1..l : 0 + i = i
    BY <2>7
  <2> QED
    BY <2>6, <2>7, <2>8 DEF Rest
<1>6. Progress(b, p2, size, 0)'
  <2>1. 0 <= l /\ 0 < 5 /\ ~(0 > 5)
    BY <1>5
  <2>2. \A x \in 1..n : ~(x <= (0 - 6) * size)
    <3> SUFFICES ASSUME NEW x \in 1..n PROVE ~(x <= (0 - 6) * size)
      OBVIOUS
    <3>1. x \in Nat /\ x > 0
      BY <1>4
    <3> QED
      BY <1>4, <3>1
  <2> QED
    BY <1>1, <1>5, <2>1, <2>2 DEF Progress
<1> HIDE DEF b, plan, l, n
<1>7. PhoneInv'
  <2>1. Fits(message)' /\ Encode(message)' = b
    BY <1>1 DEF Fits, b
  <2>2. 0 \in Nat
    OBVIOUS
  <2> QED
    BY <1>1, <1>6, <2>1, <2>2 DEF PhoneInv
<1>8. FileInv'
  BY <1>1 DEF FileInv
<1> QED
  BY <1>3, <1>7, <1>8 DEF NfcInv

\* Every step keeps the invariant.
LEMMA NfcStep == NfcInv /\ [NfcNext]_nfcVars => NfcInv'
<1> SUFFICES ASSUME NfcInv, [NfcNext]_nfcVars PROVE NfcInv'
  OBVIOUS
<1>1. CASE EmulateFails
  <2>1. calls' \in 0..MaxCalls
    <3>1. calls \in 0..MaxCalls /\ MaxCalls \in Nat
      BY TagAssumption DEF NfcInv, NfcTypeOK
    <3> QED
      BY <1>1, <3>1 DEF EmulateFails
  <2>2. /\ UNCHANGED <<file, tagWrittenByInitiator, currentFile, todo, message, pc, whole>>
        /\ landed' = FALSE /\ served' = FALSE /\ result' \in TryGet /\ pc = "idle"
    BY <1>1 DEF EmulateFails, tagVars, phoneVars
  <2>3. NfcTypeOK' /\ landed' \in BOOLEAN /\ served' \in BOOLEAN
    BY <2>1, <2>2, TryGetGood DEF NfcInv, NfcTypeOK
  <2>4. PhoneInv'
    BY <2>2 DEF PhoneInv
  <2>5. FileInv'
    BY <2>2 DEF NfcInv, FileInv, Cleared, Holds, Fits
  <2> QED
    BY <2>3, <2>4, <2>5 DEF NfcInv
<1>2. CASE \E m \in Message, size \in Piece, p2 \in {0, 12} : Emulate(m, size, p2)
  BY <1>2, EmulateInv
<1>3. CASE \E lost \in BOOLEAN : Serve(lost)
  BY <1>3, ServeInv
<1>4. CASE Leave
  <2>1. /\ UNCHANGED <<file, tagWrittenByInitiator, currentFile, message, calls, whole, landed>>
        /\ pc' = "idle" /\ served' = TRUE /\ result' \in TryGet
    BY <1>4 DEF Leave, tagVars
  <2>2. NfcTypeOK' /\ landed' \in BOOLEAN /\ served' \in BOOLEAN
    BY <2>1, TryGetGood DEF NfcInv, NfcTypeOK
  <2>3. PhoneInv'
    BY <2>1 DEF PhoneInv
  <2>4. FileInv'
    BY <2>1 DEF NfcInv, FileInv, Cleared, Holds, Fits
  <2> QED
    BY <2>2, <2>3, <2>4 DEF NfcInv
<1>5. CASE UNCHANGED nfcVars
  <2>1. UNCHANGED <<file, tagWrittenByInitiator, currentFile, todo, message, result, pc, served,
                    calls, whole, landed>>
    BY <1>5 DEF nfcVars, tagVars, phoneVars
  <2>2. NfcTypeOK' /\ landed' \in BOOLEAN /\ served' \in BOOLEAN
    BY <2>1 DEF NfcInv, NfcTypeOK
  <2>3. PhoneInv'
    BY <2>1 DEF NfcInv, PhoneInv, Progress, Cleared, Fits
  <2>4. FileInv'
    BY <2>1 DEF NfcInv, FileInv, Cleared, Holds, Fits
  <2> QED
    BY <2>2, <2>3, <2>4 DEF NfcInv
<1> QED
  BY <1>1, <1>2, <1>3, <1>4, <1>5 DEF NfcNext

\* The file, the phone and the flag agree: once the file was written in this call
\* it says that it is empty or holds the last whole message, and a phone has
\* written just what its place in its plan says.
THEOREM NfcInvariant == NfcSpec => []NfcInv
<1>1. NfcInit => NfcInv
  <2> SUFFICES ASSUME NfcInit PROVE NfcInv
    OBVIOUS
  <2>1. NfcTypeOK
    <3>1. file \in [1..NDEF_MAX_LENGTH -> 0..255]
      BY DEF NfcInit
    <3>2. calls \in 0..MaxCalls
      BY TagAssumption DEF NfcInit
    <3> QED
      BY <3>1, <3>2 DEF NfcInit, NfcTypeOK
  <2> QED
    BY <2>1 DEF NfcInit, NfcInv, PhoneInv, FileInv
<1> QED
  BY <1>1, NfcStep, PTL DEF NfcSpec

\* The state of EmulateTag and NFC::try_get has its types: the file keeps its
\* NDEF_MAX_LENGTH bytes through the updates of phones that write no message
\* longer than the announced size, in any pieces and with any lost answers.
THEOREM NfcTypes == NfcSpec => []NfcTypeOK
<1>1. NfcInv => NfcTypeOK
  BY DEF NfcInv
<1> QED
  BY <1>1, NfcInvariant, PTL

-----------------------------------------------------------------------------
(* What try_get reads *)

\* The bytes getContent gives
LEMMA ContentFacts ==
    ASSUME NfcTypeOK
    PROVE  /\ content \in Seq(Nat)
           /\ Len(content) = NDEF_MAX_LENGTH - 2
           /\ \A x \in 1..(NDEF_MAX_LENGTH - 2) : content[x] = file[2 + x]
<1> DEFINE N == NDEF_MAX_LENGTH
           c == SubSeq(file, 3, N)
<1>1. N \in Nat /\ N >= 2
  BY TagAssumption
<1>2. file \in [1..N -> 0..255]
  BY DEF NfcTypeOK
<1>3. content = c
  <2>1. Len(file) = N
    BY <1>1, <1>2
  <2> QED
    BY <2>1 DEF content
<1>4. \A i \in 3..N : file[i] \in Nat
  <2> SUFFICES ASSUME NEW i \in 3..N PROVE file[i] \in Nat
    OBVIOUS
  <2>1. i \in 1..N
    BY <1>1
  <2>2. file[i] \in 0..255
    BY <1>2, <2>1
  <2> QED
    BY <2>2
<1>5. /\ c \in Seq(Nat)
      /\ Len(c) = IF 3 <= N THEN N - 3 + 1 ELSE 0
      /\ \A i \in 1..(N - 3 + 1) : c[i] = file[3 + i - 1]
  BY <1>1, <1>4, SubSeqProperties
<1> HIDE DEF c, N
<1>6. Len(c) = N - 2
  BY <1>1, <1>5
<1>7. ASSUME NEW x \in 1..(N - 2) PROVE c[x] = file[2 + x]
  <2>1. x \in 1..(N - 3 + 1) /\ 3 + x - 1 = 2 + x
    BY <1>1
  <2> QED
    BY <1>5, <2>1
<1> QED
  BY <1>3, <1>5, <1>6, <1>7 DEF N

\* Over a file that holds a message the decoder makes the rounds of the message.
LEMMA HeldRounds ==
    ASSUME NfcTypeOK, NEW m, Holds(m)
    PROVE  /\ length = Len(Encode(m))
           /\ At(content, 0, Encode(m))
<1> DEFINE b == Encode(m)
           n == Len(b)
           N == NDEF_MAX_LENGTH
<1>1. file[1] = 0 /\ file[2] = n /\ \A x \in 1..n : file[2 + x] = b[x]
  BY DEF Holds
<1>2. b \in Seq(Nat) /\ n \in Nat /\ n + 2 <= N /\ N \in Nat
  BY FitFacts, TagAssumption DEF Holds
<1>3. length = n
  BY <1>1, <1>2 DEF length
<1> HIDE DEF b, n, N
<1>4. ASSUME NEW x \in 1..n PROVE content[0 + x] = b[x]
  <2>1. x \in 1..(N - 2) /\ 0 + x = x
    BY <1>2
  <2>2. content[x] = file[2 + x]
    BY <2>1, ContentFacts DEF N
  <2> QED
    BY <1>1, <2>1, <2>2
<1>5. Len(content) = N - 2
  BY ContentFacts DEF N
<1>6. 0 + n <= Len(content)
  BY <1>2, <1>5
<1> QED
  BY <1>3, <1>4, <1>6 DEF At, n, b

\* A file that holds a message decodes to its records.
LEMMA HeldDecodes ==
    ASSUME NfcTypeOK, NEW m, Holds(m)
    PROVE  Decode(content, length) = addRecord(m)
<1>1. IsMessage(m)
  BY FitFacts DEF Holds
<1>2. length = Len(Encode(m)) /\ At(content, 0, Encode(m))
  BY HeldRounds
<1>3. content \in Seq(Nat)
  BY ContentFacts
<1>4. Decode(content, Len(Encode(m))) = addRecord(m)
  BY <1>1, <1>2, <1>3, MessageDecodes
<1> QED
  BY <1>2, <1>4, Zenon

\* A message written to its end decodes to its records.
THEOREM RoundTrips == NfcSpec => []RoundTrip
<1>1. NfcInv => RoundTrip
  BY HeldDecodes DEF NfcInv, FileInv, RoundTrip
<1> QED
  BY <1>1, NfcInvariant, PTL

\* f[k] is what try_get has found in the first k records.
IsFields(records, word, n, l, f) ==
    /\ Fields(records, word, n) = f[l]
    /\ f[0] = <<>>
    /\ \A k \in 1..l : f[k] = IF Matches(records[k], word, n)
                              THEN Append(f[k - 1], records[k].payload) ELSE f[k - 1]
    /\ \A k \in 0..l : Len(f[k]) \in Nat

\* The loop of try_get over the records, a record at a time
LEMMA FieldsExist ==
    ASSUME NEW records, NEW l \in Nat, Len(records) = l, NEW word, NEW n
    PROVE  \E f : IsFields(records, word, n, l, f)
<1> DEFINE Q(k) == Matches(records[k], word, n)
           V == {records[k].payload : k \in 1..l}
           E(f) == [k \in 0..l |-> IF k = 0 THEN <<>>
                                   ELSE IF Q(k) THEN Append(f[k - 1], records[k].payload)
                                        ELSE f[k - 1]]
           s == CHOOSE f : f = E(f)
           F == [k \in Nat |-> [x \in Seq(V) |->
                    IF k \in 1..l /\ Q(k) THEN Append(x, records[k].payload) ELSE x]]
<1>1. \A k \in 1..l : records[k].payload \in V
  OBVIOUS
<1> HIDE DEF V, Q
<1>2. PICK f : Iterates(Seq(V), <<>>, F, l, f)
  <2>1. IsRule(Seq(V), F)
    BY <1>1, AppendProperties DEF IsRule
  <2>2. <<>> \in Seq(V)
    OBVIOUS
  <2> HIDE DEF F
  <2> QED
    BY <2>1, <2>2, Recursion
<1>3. ASSUME NEW k \in 1..l
      PROVE  f[k] = IF Q(k) THEN Append(f[k - 1], records[k].payload) ELSE f[k - 1]
  <2>1. k \in Nat /\ k - 1 \in 0..l
    OBVIOUS
  <2>2. f[k - 1] \in Seq(V)
    BY <1>2, <2>1 DEF Iterates
  <2>3. F[k][f[k - 1]] = IF Q(k) THEN Append(f[k - 1], records[k].payload) ELSE f[k - 1]
    BY <2>1, <2>2
  <2>4. f[k] = F[k][f[k - 1]]
    BY <1>2 DEF Iterates
  <2> HIDE DEF F
  <2> QED
    BY <2>3, <2>4, Zenon
<1>4. f = E(f)
  <2>1. f = [k \in 0..l |-> f[k]] /\ f[0] = <<>>
    BY <1>2 DEF Iterates
  <2>2. \A k \in 0..l : f[k] = IF k = 0 THEN <<>>
                               ELSE IF Q(k) THEN Append(f[k - 1], records[k].payload)
                                    ELSE f[k - 1]
    <3> SUFFICES ASSUME NEW k \in 0..l, k # 0
                 PROVE  f[k] = IF Q(k) THEN Append(f[k - 1], records[k].payload) ELSE f[k - 1]
      BY <2>1
    <3>1. k \in 1..l
      OBVIOUS
    <3> QED
      BY <1>3, <3>1
  <2> QED
    BY <2>1, <2>2
<1>5. s = E(s)
  BY <1>4
<1> HIDE DEF s
<1>6. s[0] = <<>>
  <2>1. 0 \in 0..l
    OBVIOUS
  <2> QED
    BY <1>5, <2>1
<1>7. ASSUME NEW k \in 1..l
      PROVE  s[k] = IF Q(k) THEN Append(s[k - 1], records[k].payload) ELSE s[k - 1]
  <2>1. k \in 0..l /\ k # 0
    OBVIOUS
  <2> QED
    BY <1>5, <2>1
<1> DEFINE T == {k \in Nat : k \in 0..l => s[k] \in Seq(V)}
<1>8. 0 \in T
  <2>1. <<>> \in Seq(V) /\ 0 \in Nat
    OBVIOUS
  <2> QED
    BY <1>6, <2>1
<1>9. ASSUME NEW k \in Nat, k \in T PROVE k + 1 \in T
  <2> SUFFICES ASSUME k + 1 \in 0..l PROVE s[k + 1] \in Seq(V)
    OBVIOUS
  <2>1. k \in 0..l /\ k + 1 \in 1..l /\ (k + 1) - 1 = k
    OBVIOUS
  <2>2. s[k] \in Seq(V) /\ records[k + 1].payload \in V
    BY <1>1, <1>9, <2>1
  <2>3. s[k + 1] = IF Q(k + 1) THEN Append(s[k], records[k + 1].payload) ELSE s[k]
    BY <1>7, <2>1
  <2>4. Append(s[k], records[k + 1].payload) \in Seq(V)
    BY <2>2, AppendProperties
  <2> QED
    BY <2>2, <2>3, <2>4
<1> HIDE DEF T
<1>10. Nat \subseteq T
  BY <1>8, <1>9, Induction
<1>11. \A k \in 0..l : Len(s[k]) \in Nat
  <2> SUFFICES ASSUME NEW k \in 0..l PROVE Len(s[k]) \in Nat
    OBVIOUS
  <2>1. s[k] \in Seq(V)
    BY <1>10 DEF T
  <2> QED
    BY <2>1
<1>12. Fields(records, word, n) = s[l]
  BY DEF Fields, Q, s
<1>13. IsFields(records, word, n, l, s)
  BY <1>6, <1>7, <1>11, <1>12 DEF IsFields, Q
<1> QED
  BY <1>13

\* The fields of a list of records are a list.
LEMMA FieldsLength ==
    ASSUME NEW records, Len(records) \in Nat, NEW word, NEW n
    PROVE  Len(Fields(records, word, n)) \in Nat
<1> DEFINE l == Len(records)
<1>1. PICK f : IsFields(records, word, n, l, f)
  BY FieldsExist
<1>2. l \in 0..l
  OBVIOUS
<1>3. Len(f[l]) \in Nat /\ Fields(records, word, n) = f[l]
  BY <1>1, <1>2 DEF IsFields
<1> QED
  BY <1>3

\* One record has at most one field.
LEMMA OneField ==
    ASSUME NEW r, NEW word, NEW n
    PROVE  /\ Matches(r, word, n) => Len(Fields(<<r>>, word, n)) = 1
           /\ ~Matches(r, word, n) => Len(Fields(<<r>>, word, n)) = 0
<1> DEFINE s == <<r>>
<1>1. Len(s) = 1 /\ s[1] = r
  OBVIOUS
<1> HIDE DEF s
<1>2. PICK f : IsFields(s, word, n, 1, f)
  BY <1>1, FieldsExist
<1>3. Fields(s, word, n) = f[1] /\ f[0] = <<>>
  BY <1>2 DEF IsFields
<1>4. f[1] = IF Matches(r, word, n) THEN Append(<<>>, r.payload) ELSE <<>>
  <2>1. f[1] = IF Matches(s[1], word, n) THEN Append(f[1 - 1], s[1].payload) ELSE f[1 - 1]
    BY <1>2 DEF IsFields
  <2>2. 1 - 1 = 0
    OBVIOUS
  <2> QED
    BY <1>1, <1>3, <2>1, <2>2
<1>5. Len(Append(<<>>, r.payload)) = 1 /\ Len(<<>>) = 0
  OBVIOUS
<1> QED
  BY <1>3, <1>4, <1>5 DEF s

\* A record is the id or the code, never both.
LEMMA OneWord ==
    ASSUME NEW r, NEW m, NEW n
    PROVE  ~(Matches(r, UID, m) /\ Matches(r, OTP, n))
<1> SUFFICES ASSUME Matches(r, UID, m), Matches(r, OTP, n) PROVE FALSE
  OBVIOUS
<1> DEFINE a == <<KEY, SLASH, UID, SLASH>>
           b == <<KEY, SLASH, OTP, SLASH>>
<1>1. a = b
  BY DEF Matches
<1>2. a[3] = UID /\ b[3] = OTP
  OBVIOUS
<1> QED
  BY <1>1, <1>2 DEF UID, OTP

\* Over a file that says it is empty there is nothing good.
LEMMA ClearedNotGood ==
    ASSUME NfcTypeOK, Cleared
    PROVE  \A res \in Read(Decode(content, length)) : ~res.good
<1> DEFINE r == RecordAt(content, 0)
           d == <<r.record>>
<1>1. length = 0
  BY DEF Cleared, length
<1>2. Rounds(content, 0) = <<r>>
  BY ContentFacts, OneRound
<1> HIDE DEF r
<1>3. [k \in DOMAIN <<r>> |-> <<r>>[k].record] = d
  OBVIOUS
<1>4. addRecord(d) = d
  <2> DEFINE x == r.record
             s == SubSeq(d, 1, 1)
  <2>1. Len(d) = 1 /\ d[1] = x
    OBVIOUS
  <2>2. addRecord(d) = s
    BY <2>1 DEF addRecord, MAX_NDEF_RECORDS
  <2> HIDE DEF d, x
  <2>3. \A i \in 1..1 : d[i] \in {x}
    BY <2>1
  <2>4. s \in Seq({x}) /\ Len(s) = IF 1 <= 1 THEN 1 - 1 + 1 ELSE 0
    BY <2>3, SubSeqProperties
  <2> HIDE DEF s
  <2>5. s = <<x>>
    BY <2>4
  <2> QED
    BY <2>2, <2>5 DEF d, x
<1>5. Decode(content, 0) = d
  BY <1>2, <1>3, <1>4 DEF Decode
<1> DEFINE u == Len(Fields(d, UID, UidLength))
           c == Len(Fields(d, OTP, CodeLength))
<1>6. u \in {0, 1} /\ c \in {0, 1} /\ ~(u = 1 /\ c = 1)
  <2> DEFINE x == r.record
             U == Matches(x, UID, UidLength)
             C == Matches(x, OTP, CodeLength)
  <2>1. (U => u = 1) /\ (~U => u = 0)
    BY OneField
  <2>2. (C => c = 1) /\ (~C => c = 0)
    BY OneField
  <2>3. ~(U /\ C)
    BY OneWord
  <2> HIDE DEF u, c, U, C
  <2> QED
    BY <2>1, <2>2, <2>3
<1>7. \A res \in Read(d) : res.good = (u + c = 2)
  BY DEF Read
<1> HIDE DEF u, c, d
<1>8. \A res \in Read(d) : ~res.good
  <2>1. u + c # 2
    BY <1>6
  <2> QED
    BY <1>7, <2>1
<1> QED
  BY <1>1, <1>5, <1>8

\* Without records there is nothing good.
LEMMA NoRecordNotGood == \A res \in Read(<<>>) : ~res.good
<1>1. ASSUME NEW word, NEW n PROVE Len(Fields(<<>>, word, n)) = 0
  <2>1. Len(<<>>) = 0
    OBVIOUS
  <2>2. PICK f : IsFields(<<>>, word, n, 0, f)
    BY <2>1, FieldsExist
  <2> QED
    BY <2>1, <2>2 DEF IsFields
<1> DEFINE u == Len(Fields(<<>>, UID, UidLength))
           c == Len(Fields(<<>>, OTP, CodeLength))
<1>2. \A res \in Read(<<>>) : res.good = (u + c = 2)
  BY DEF Read
<1>3. u = 0 /\ c = 0
  BY <1>1
<1> HIDE DEF u, c
<1>4. u + c # 2
  BY <1>3
<1> QED
  BY <1>2, <1>4

\* What is good is read from the last message that was written to its end.
LEMMA GoodRead ==
    ASSUME NfcInv, NEW r \in TryGet, r.good
    PROVE  /\ tagWrittenByInitiator /\ ~Cleared
           /\ Holds(whole)
           /\ r \in Read(addRecord(whole))
<1>1. tagWrittenByInitiator
  BY NoRecordNotGood DEF TryGet
<1>2. TryGet = Read(Decode(content, length))
  BY <1>1 DEF TryGet
<1>3. NfcTypeOK
  BY DEF NfcInv
<1>4. ~Cleared
  BY <1>2, <1>3, ClearedNotGood
<1>5. Holds(whole)
  BY <1>1, <1>4 DEF NfcInv, FileInv
<1>6. Decode(content, length) = addRecord(whole)
  BY <1>3, <1>5, HeldDecodes
<1> QED
  BY <1>1, <1>2, <1>4, <1>5, <1>6

\* GoodIsWhole, for the result it is about
WholeResult(r) ==
    r.good =>
        /\ whole # NoMessage
        /\ LET uids == Fields(addRecord(whole), UID, UidLength)
               codes == Fields(addRecord(whole), OTP, CodeLength)
           IN  /\ <<Len(uids), Len(codes)>> \in {<<1, 1>>, <<2, 0>>, <<0, 2>>}
               /\ uids # <<>> => r.uid = uids[Len(uids)]
               /\ codes # <<>> => r.code = codes[Len(codes)]

\* A good result of try_get is read from the last whole message.
LEMMA GoodWhole ==
    ASSUME NfcInv, NEW r \in TryGet
    PROVE  WholeResult(r)
<1> SUFFICES ASSUME r.good PROVE WholeResult(r)
  BY DEF WholeResult
<1> DEFINE a == addRecord(whole)
           uids == Fields(a, UID, UidLength)
           codes == Fields(a, OTP, CodeLength)
           u == Len(uids)
           c == Len(codes)
<1>1. Fits(whole) /\ r \in Read(a)
  BY GoodRead DEF Holds
<1>2. whole \in Seq(Record) /\ whole # NoMessage
  <2>1. IsMessage(whole) /\ whole \in Message
    BY <1>1, FitFacts
  <2> QED
    BY <2>1, TagAssumption DEF IsMessage
<1>3. Len(a) \in Nat
  <2> DEFINE l == Len(whole)
             k == IF l < 4 THEN l ELSE 4
  <2>1. l \in Nat
    BY <1>2
  <2>2. k \in Int /\ k <= l
    BY <2>1
  <2>3. a = SubSeq(whole, 1, k)
    BY DEF addRecord, MAX_NDEF_RECORDS
  <2> HIDE DEF k, l
  <2>4. \A i \in 1..k : whole[i] \in Record
    <3> SUFFICES ASSUME NEW i \in 1..k PROVE whole[i] \in Record
      OBVIOUS
    <3>1. i \in 1..l
      BY <2>1, <2>2
    <3> QED
      BY <1>2, <3>1, ElementOfSeq DEF l
  <2>5. SubSeq(whole, 1, k) \in Seq(Record)
    BY <2>2, <2>4, SubSeqProperties
  <2> HIDE DEF a
  <2>6. a \in Seq(Record)
    BY <2>3, <2>5
  <2> QED
    BY <2>6
<1> HIDE DEF a
<1>4. u \in Nat /\ c \in Nat
  BY <1>3, FieldsLength
<1>5. /\ r.good = (u + c = 2)
      /\ uids # <<>> => r.uid = uids[Len(uids)]
      /\ codes # <<>> => r.code = codes[Len(codes)]
  BY <1>1 DEF Read, Field
<1> HIDE DEF uids, codes, u, c
<1>6. u + c = 2
  BY <1>5
<1>7. (u = 1 /\ c = 1) \/ (u = 2 /\ c = 0) \/ (u = 0 /\ c = 2)
  BY <1>4, <1>6
<1>8. <<u, c>> \in {<<1, 1>>, <<2, 0>>, <<0, 2>>}
  BY <1>7
<1> QED
  BY <1>2, <1>5, <1>8 DEF WholeResult, uids, codes, u, c, a

\* GoodIsWhole: what NFC::try_get reads into a good result is of one message that
\* was written to its end, for any messages, pieces, lost answers and phones that
\* leave; with one id and one code in it, the result is these two.
THEOREM GoodAreWhole == NfcSpec => []GoodIsWhole
<1>1. NfcInit => GoodIsWhole
  BY DEF NfcInit, GoodIsWhole
<1>2. NfcInv /\ GoodIsWhole /\ [NfcNext]_nfcVars => GoodIsWhole'
  <2> SUFFICES ASSUME NfcInv, GoodIsWhole, [NfcNext]_nfcVars, pc' = "idle"
               PROVE  WholeResult(result)'
    BY DEF GoodIsWhole, WholeResult
  <2>1. CASE EmulateFails \/ Leave
    <3>1. result' \in TryGet /\ whole' = whole
      BY <2>1 DEF EmulateFails, Leave
    <3>2. WholeResult(result')
      BY <3>1, GoodWhole
    <3> QED
      BY <3>1, <3>2 DEF WholeResult
  <2>2. CASE \E m \in Message, size \in Piece, p2 \in {0, 12} : Emulate(m, size, p2)
    BY <2>2 DEF Emulate
  <2>3. CASE \E lost \in BOOLEAN : Serve(lost)
    BY <2>3 DEF Serve
  <2>4. CASE UNCHANGED nfcVars
    <3>1. UNCHANGED <<result, pc, whole>>
      BY <2>4 DEF nfcVars
    <3> QED
      BY <3>1 DEF GoodIsWhole, WholeResult
  <2> QED
    BY <2>1, <2>2, <2>3, <2>4 DEF NfcNext
<1> QED
  BY <1>1, <1>2, NfcInvariant, PTL DEF NfcSpec

\* GoodIsFresh: after an emulation that did not fail, a good result is of the
\* phone of this call.
THEOREM GoodAreFresh == NfcSpec => []GoodIsFresh
<1>1. NfcInit => GoodIsFresh
  BY DEF NfcInit, GoodIsFresh
<1>2. NfcInv /\ GoodIsFresh /\ [NfcNext]_nfcVars => GoodIsFresh'
  <2> SUFFICES ASSUME NfcInv, GoodIsFresh, [NfcNext]_nfcVars, pc' = "idle", served', result'.good
               PROVE  landed'
    BY DEF GoodIsFresh
  <2>1. CASE EmulateFails
    BY <2>1 DEF EmulateFails
  <2>2. CASE \E m \in Message, size \in Piece, p2 \in {0, 12} : Emulate(m, size, p2)
    BY <2>2 DEF Emulate
  <2>3. CASE \E lost \in BOOLEAN : Serve(lost)
    BY <2>3 DEF Serve
  <2>4. CASE Leave
    <3>1. result' \in TryGet /\ landed' = landed /\ pc = "emulating"
      BY <2>4 DEF Leave
    <3>2. tagWrittenByInitiator /\ ~Cleared
      BY <3>1, GoodRead
    <3>3. tagWrittenByInitiator /\ ~landed => Cleared
      BY <3>1 DEF NfcInv, PhoneInv
    <3> QED
      BY <3>1, <3>2, <3>3
  <2>5. CASE UNCHANGED nfcVars
    BY <2>5 DEF nfcVars, GoodIsFresh
  <2> QED
    BY <2>1, <2>2, <2>3, <2>4, <2>5 DEF NfcNext
<1> QED
  BY <1>1, <1>2, NfcInvariant, PTL DEF NfcSpec

-----------------------------------------------------------------------------
(* The decoder stays in the file *)

\* The bytes of the content, as the decoder sees them
LEMMA ContentBytes ==
    ASSUME NfcTypeOK, NEW i \in Nat, i + 3 <= NDEF_MAX_LENGTH
    PROVE  ByteAt(content, i) = file[3 + i]
<1> DEFINE N == NDEF_MAX_LENGTH
<1>1. N \in Nat /\ Len(content) = N - 2 /\ \A x \in 1..(N - 2) : content[x] = file[2 + x]
  BY ContentFacts, TagAssumption
<1> HIDE DEF N
<1>2. i + 1 \in 1..(N - 2) /\ i < N - 2 /\ 2 + (i + 1) = 3 + i
  BY <1>1 DEF N
<1>3. content[i + 1] = file[3 + i]
  BY <1>1, <1>2
<1> QED
  BY <1>1, <1>2, <1>3 DEF ByteAt

\* With a header in the file, the round of an empty file stays inside.
LEMMA HeaderInside ==
    ASSUME NfcTypeOK, HeaderInv
    PROVE  RecordAt(content, 0).next <= NDEF_MAX_LENGTH - 2
<1> DEFINE N == NDEF_MAX_LENGTH
<1>1. N \in Nat /\ N >= 8
  BY TagAssumption
<1>2. /\ ByteAt(content, 0) = file[3] /\ ByteAt(content, 1) = file[4] /\ ByteAt(content, 2) = file[5]
      /\ ByteAt(content, 3) = file[6] /\ ByteAt(content, 4) = file[7]
  <2>1. \A i \in 0..4 : ByteAt(content, i) = file[3 + i]
    <3> SUFFICES ASSUME NEW i \in 0..4 PROVE ByteAt(content, i) = file[3 + i]
      OBVIOUS
    <3>1. i \in Nat /\ i + 3 <= N
      BY <1>1
    <3> QED
      BY <3>1, ContentBytes
  <2>2. /\ ByteAt(content, 0) = file[3 + 0] /\ ByteAt(content, 1) = file[3 + 1]
        /\ ByteAt(content, 2) = file[3 + 2] /\ ByteAt(content, 3) = file[3 + 3]
        /\ ByteAt(content, 4) = file[3 + 4]
    BY <2>1
  <2> QED
    BY <2>2
<1>3. CASE \A i \in 3..7 : file[i] = 0
  <2>1. /\ ByteAt(content, 0) = 0 /\ ByteAt(content, 1) = 0 /\ ByteAt(content, 2) = 0
        /\ ByteAt(content, 3) = 0 /\ ByteAt(content, 4) = 0
    BY <1>2, <1>3
  <2>2. ~Bit(0, 16) /\ ~Bit(0, 8)
    BY DEF Bit
  <2>3. RecordAt(content, 0).next = 6
    <3> DEFINE end(d) == 0 + 5 + Flag(Bit(ByteAt(d, 0), 8), 1) + 1 + ByteAt(d, 0 + 1)
                         + (IF Bit(ByteAt(d, 0), 8) THEN ByteAt(d, 0 + 5 + 1) ELSE 0)
                         + (ByteAt(d, 0 + 1) * 16777216 + ByteAt(d, 0 + 2) * 65536
                            + ByteAt(d, 0 + 3) * 256 + ByteAt(d, 0 + 4))
    <3>1. ~Bit(ByteAt(content, 0), 16)
      BY <2>1, <2>2
    <3>2. end(content) = 6
      <4>1. Flag(Bit(ByteAt(content, 0), 8), 1) = 0
        BY <2>1, <2>2 DEF Flag
      <4> QED
        BY <2>1, <2>2, <4>1
    <3>3. RecordAt(content, 0).next = end(content)
      BY <3>1, LongNext
    <3> HIDE DEF end
    <3> QED
      BY <3>2, <3>3
  <2> QED
    BY <1>1, <2>3
<1>4. ASSUME NEW m \in Message, Fits(m), Header(m)
      PROVE  RecordAt(content, 0).next <= NDEF_MAX_LENGTH - 2
  <2> DEFINE b == Encode(m)
             n == Len(b)
             t == RecordAt(b, 0).next
  <2>1. n \in Nat /\ n >= 3 /\ n + 2 <= N
    BY <1>4, FitFacts
  <2>2. IsFirst(m, b)
    BY <1>4, FitFacts, FirstRecord
  <2>3. file[3] = b[1] /\ file[4] = b[2] /\ file[5] = b[3] /\ (m[1].id # <<>> => file[6] = b[4])
    BY <1>4 DEF Header
  <2> HIDE DEF b
  <2>4. ByteAt(b, 0) = b[1] /\ ByteAt(b, 1) = b[2] /\ ByteAt(b, 2) = b[3]
    BY <2>1 DEF ByteAt
  <2>5. m[1].id # <<>> => ByteAt(b, 3) = b[4]
    <3>1. m[1].id # <<>> => n >= 4
      BY <2>2 DEF IsFirst
    <3>2. n >= 4 => ByteAt(b, 3) = b[4]
      BY <2>1 DEF ByteAt
    <3> QED
      BY <3>1, <3>2
  <2>6. Bit(b[1], 16) /\ (Bit(b[1], 8) <=> m[1].id # <<>>) /\ t \in Nat /\ t <= n
    BY <2>2 DEF IsFirst
  <2>7. RecordAt(content, 0).next = t
    <3>1. /\ ByteAt(content, 0) = ByteAt(b, 0) /\ ByteAt(content, 1) = ByteAt(b, 1)
          /\ ByteAt(content, 2) = ByteAt(b, 2)
          /\ Bit(ByteAt(b, 0), 16)
          /\ Bit(ByteAt(b, 0), 8) => ByteAt(content, 3) = ByteAt(b, 3)
      BY <1>2, <2>3, <2>4, <2>5, <2>6
    <3> QED
      BY <3>1, SameNext
  <2> HIDE DEF t, n
  <2>8. t <= N - 2
    BY <1>1, <2>1, <2>6
  <2> QED
    BY <2>7, <2>8
<1> QED
  BY <1>3, <1>4 DEF HeaderInv

\* If pieces have at least the four bytes of a header, every step leaves in the
\* file the header of some message, or none.
LEMMA HeaderStep ==
    ASSUME \A s \in Piece : s >= 4
    PROVE  NfcInv /\ HeaderInv /\ [NfcNext]_nfcVars => HeaderInv'
<1> SUFFICES ASSUME NfcInv, HeaderInv, [NfcNext]_nfcVars PROVE HeaderInv'
  OBVIOUS
<1> DEFINE N == NDEF_MAX_LENGTH
<1>1. N \in Nat /\ N >= 8
  BY TagAssumption
<1>2. ASSUME \A i \in 3..N : file'[i] = file[i] PROVE HeaderInv'
  <2>1. \A i \in 3..7 : file'[i] = file[i]
    BY <1>1, <1>2
  <2>2. ASSUME NEW m, Header(m) PROVE Header(m)'
    BY <2>1, <2>2 DEF Header
  <2>3. ASSUME NEW m, Fits(m) PROVE Fits(m)'
    BY <2>3 DEF Fits
  <2> QED
    BY <2>1, <2>2, <2>3 DEF HeaderInv
<1>3. CASE \E lost \in BOOLEAN : Serve(lost)
  <2>1. PICK lost \in BOOLEAN : Serve(lost)
    BY <1>3
  <2>2. PICK b, p2, size, j, n, k : IsAt(b, p2, size, j, n, k) /\ n \in Nat /\ k \in Nat
    BY <2>1, PhoneAt DEF Serve
  <2>3. /\ size \in Piece /\ size \in Nat /\ j \in Nat
        /\ n = Len(b) /\ b = Encode(message) /\ Fits(message)
    BY <2>2 DEF IsAt
  <2>4. ServeKeeps(b, p2, size, j)
    BY <2>1, <2>2, ServeKept
  <2>5. CASE \A i \in 3..N : file'[i] = file[i]
    BY <1>2, <2>5
  <2>6. CASE j > 5 /\ \A x \in 1..Len(b) : x <= (j - 5) * size => file'[2 + x] = b[x]
    <3>1. 4 <= (j - 5) * size /\ (j - 5) * size \in Int
      <4>1. size >= 4 /\ j - 5 >= 1
        BY <2>3, <2>6
      <4> QED
        BY <2>3, <4>1
    <3>2. n >= 3 /\ message \in Message
      BY <2>3, FitFacts
    <3>3. message[1].id # <<>> => n >= 4
      BY <2>3, FitFacts, FirstRecord DEF IsFirst
    <3>4. ASSUME NEW x \in 1..4, x <= n PROVE file'[2 + x] = b[x]
      <4>1. x \in 1..n /\ x <= (j - 5) * size
        BY <2>2, <3>1, <3>4
      <4> QED
        BY <2>3, <2>6, <4>1
    <3>5. file'[2 + 1] = b[1] /\ file'[2 + 2] = b[2] /\ file'[2 + 3] = b[3] /\ (n >= 4 => file'[2 + 4] = b[4])
      BY <2>2, <3>2, <3>4
    <3>6. file'[3] = b[1] /\ file'[4] = b[2] /\ file'[5] = b[3] /\ (n >= 4 => file'[6] = b[4])
      BY <3>5
    <3>7. PICK m : m = message
      OBVIOUS
    <3>8. Fits(m)' /\ Header(m)'
      <4>1. Fits(m) /\ b = Encode(m)
        BY <2>3, <3>7
      <4> QED
        BY <3>3, <3>6, <3>7, <4>1 DEF Fits, Header
    <3> QED
      BY <3>2, <3>7, <3>8 DEF HeaderInv
  <2> QED
    BY <2>4, <2>5, <2>6 DEF ServeKeeps
<1>4. CASE file' = file
  BY <1>2, <1>4
<1>5. CASE EmulateFails
  BY <1>4, <1>5 DEF EmulateFails, tagVars
<1>6. CASE \E m \in Message, size \in Piece, p2 \in {0, 12} : Emulate(m, size, p2)
  BY <1>4, <1>6 DEF Emulate
<1>7. CASE Leave
  BY <1>4, <1>7 DEF Leave, tagVars
<1>8. CASE UNCHANGED nfcVars
  BY <1>4, <1>8 DEF nfcVars, tagVars
<1> QED
  BY <1>3, <1>5, <1>6, <1>7, <1>8 DEF NfcNext

\* DecodesInFile: the decoder of NFC::try_get stays inside the file, whatever was
\* left half written, if phones write in pieces of at least four bytes: then the
\* file always begins with the header of one message, or with none.
THEOREM DecodesInside == NfcSpec => []DecodesInFile
<1>0. CASE ~(\A s \in Piece : s >= 4)
  <2>1. DecodesInFile
    BY <1>0 DEF DecodesInFile
  <2> QED
    BY <2>1, PTL
<1> SUFFICES ASSUME \A s \in Piece : s >= 4 PROVE NfcSpec => []DecodesInFile
  BY <1>0
<1>1. NfcInit => HeaderInv
  <2> SUFFICES ASSUME NfcInit PROVE \A i \in 3..7 : file[i] = 0
    BY DEF HeaderInv
  <2>1. \A i \in 3..7 : i \in 1..NDEF_MAX_LENGTH
    BY TagAssumption
  <2> QED
    BY <2>1 DEF NfcInit
<1>2. NfcInv /\ HeaderInv /\ [NfcNext]_nfcVars => HeaderInv'
  BY HeaderStep
<1>3. NfcInv /\ HeaderInv => DecodesInFile
  <2> SUFFICES ASSUME NfcInv, HeaderInv, tagWrittenByInitiator,
                      NEW k \in DOMAIN Rounds(content, length)
               PROVE  Rounds(content, length)[k].next <= NDEF_MAX_LENGTH - 2
    BY DEF DecodesInFile
  <2>1. NfcTypeOK
    BY DEF NfcInv
  <2>2. CASE Cleared
    <3>1. length = 0
      BY <2>2 DEF Cleared, length
    <3>2. Rounds(content, 0) = <<RecordAt(content, 0)>>
      BY <2>1, ContentFacts, OneRound
    <3>3. RecordAt(content, 0).next <= NDEF_MAX_LENGTH - 2
      BY <2>1, HeaderInside
    <3> QED
      BY <3>1, <3>2, <3>3
  <2>3. CASE Holds(whole)
    <3> DEFINE n == Len(whole)
               l == Len(Encode(whole))
    <3>1. IsMessage(whole) /\ l \in Nat /\ l + 2 <= NDEF_MAX_LENGTH
      BY <2>3, FitFacts DEF Holds
    <3>2. length = l /\ At(content, 0, Encode(whole)) /\ content \in Seq(Nat)
      BY <2>1, <2>3, HeldRounds, ContentFacts
    <3>3. PICK e : IsEnds(whole, e)
      BY <3>1, EncodeEnds DEF IsMessage
    <3>4. Rounds(content, length) = MessageRounds(whole, e)
      BY <3>1, <3>2, <3>3, MessageRead
    <3>5. k \in 1..n /\ Rounds(content, length)[k].next = e[k]
      BY <3>4 DEF MessageRounds, Found
    <3>6. e[k] \in Nat /\ e[k] <= l
      <4>1. n \in Nat
        BY <3>1 DEF IsMessage
      <4>2. k \in 0..n
        BY <3>5, <4>1
      <4> QED
        BY <3>3, <3>5, <4>2 DEF IsEnds
    <3> HIDE DEF l
    <3>7. e[k] <= NDEF_MAX_LENGTH - 2
      BY <3>1, <3>6, TagAssumption
    <3> QED
      BY <3>5, <3>7
  <2> QED
    BY <2>2, <2>3 DEF NfcInv, FileInv
<1> QED
  BY <1>1, <1>2, <1>3, NfcInvariant, PTL DEF NfcSpec
=============================================================================
