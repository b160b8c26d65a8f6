--------------------------- MODULE Pn532HsuProofs ---------------------------
(***************************************************************************)
(* Proofs about the serial line, for any command codes, payloads and       *)
(* buffer sizes: the caller's buffer never overflows, and neither short    *)
(* reads nor late bytes make a response out of pieces.                     *)
(***************************************************************************)
EXTENDS Pn532Hsu, SequenceTheorems, WellFoundedInduction, TLAPS

-----------------------------------------------------------------------------
(* Induction *)

\* Induction, for a set in place of a predicate
LEMMA Induction ==
    ASSUME NEW T, 0 \in T, \A n \in Nat : n \in T => n + 1 \in T
    PROVE  Nat \subseteq T
<1> DEFINE U == Nat \ T
           R == OpToRel(<, Nat)
<1> SUFFICES ASSUME U # {} PROVE FALSE
  OBVIOUS
<1>1. IsWellFoundedOn(R, Nat)
  BY NatLessThanWellFounded
<1>2. PICK n \in U : \A j \in U : <<j, n>> \notin R
  <2>1. U \subseteq Nat
    OBVIOUS
  <2> HIDE DEF U, R
  <2> QED
    BY <1>1, <2>1, WFMin
<1>3. n \in Nat /\ n # 0 /\ n - 1 \in Nat /\ n - 1 \notin T
  OBVIOUS
<1>4. <<n - 1, n>> \in R
  BY <1>3 DEF OpToRel
<1> QED
  BY <1>2, <1>3, <1>4

\* F[i] gives the i-th value of a sequence of values in S from the one before it.
IsRule(S, F) == F \in [Nat -> [S -> S]]

Iterates(S, a, F, n, f) ==
    f \in [0..n -> S] /\ f[0] = a /\ \A i \in 1..n : f[i] = F[i][f[i - 1]]

\* A recursive function has a value: there is a function that satisfies the
\* equation that defines it.
LEMMA Recursion ==
    ASSUME NEW S, NEW a \in S, NEW F, IsRule(S, F)
    PROVE  \A n \in Nat : \E f : Iterates(S, a, F, n, f)
<1> DEFINE T == {m \in Nat : \E f : Iterates(S, a, F, m, f)}
<1>1. 0 \in T
  <2>1. Iterates(S, a, F, 0, [i \in 0..0 |-> a])
    BY DEF Iterates
  <2> QED
    BY <2>1
<1>2. ASSUME NEW m \in Nat, m \in T PROVE m + 1 \in T
  <2>1. PICK f : Iterates(S, a, F, m, f)
    BY <1>2
  <2> DEFINE g == [i \in 0..(m + 1) |-> IF i = m + 1 THEN F[m + 1][f[m]] ELSE f[i]]
  <2>2. Iterates(S, a, F, m + 1, g)
    <3>1. f \in [0..m -> S] /\ f[0] = a /\ \A i \in 1..m : f[i] = F[i][f[i - 1]]
      BY <2>1 DEF Iterates
    <3>2. F[m + 1][f[m]] \in S
      BY <3>1 DEF IsRule
    <3>3. g \in [0..(m + 1) -> S]
      BY <3>1, <3>2
    <3>4. g[0] = a
      BY <3>1
    <3>5. ASSUME NEW i \in 1..(m + 1) PROVE g[i] = F[i][g[i - 1]]
      <4>1. CASE i = m + 1
        BY <4>1
      <4>2. CASE i # m + 1
        <5>1. i \in 1..m /\ i - 1 \in 0..m
          BY <4>2
        <5>2. g[i] = f[i] /\ g[i - 1] = f[i - 1]
          BY <5>1
        <5> QED
          BY <3>1, <5>1, <5>2
      <4> QED
        BY <4>1, <4>2
    <3> QED
      BY <3>3, <3>4, <3>5 DEF Iterates
  <2> HIDE DEF g
  <2> QED
    BY <2>2
<1> HIDE DEF T
<1>3. Nat \subseteq T
  BY <1>1, <1>2, Induction
<1> QED
  BY <1>3 DEF T

-----------------------------------------------------------------------------
(* Bytes *)

Byte == 0..255

\* The sum of a frame's bytes is a number.
LEMMA SumNat ==
    ASSUME NEW b \in Seq(Nat)
    PROVE  Sum(b) \in Nat
<1> DEFINE n == Len(b)
           E(f) == [i \in 0..n |-> IF i = 0 THEN 0 ELSE f[i - 1] + b[i]]
           s == CHOOSE f : f = E(f)
           F == [i \in Nat |-> [x \in Nat |-> IF i \in 1..n THEN x + b[i] ELSE x]]
<1>1. n \in Nat /\ \A i \in 1..n : b[i] \in Nat
  OBVIOUS
<1>2. PICK f : Iterates(Nat, 0, F, n, f)
  <2>1. IsRule(Nat, F) /\ 0 \in Nat
    BY <1>1 DEF IsRule
  <2> HIDE DEF F, n
  <2> QED
    BY <1>1, <2>1, Recursion
<1>3. f = E(f)
  <2>1. \A i \in 1..n : f[i] = f[i - 1] + b[i]
    <3> SUFFICES ASSUME NEW i \in 1..n PROVE f[i] = f[i - 1] + b[i]
      OBVIOUS
    <3>1. i \in Nat /\ i - 1 \in 0..n
      BY <1>1
    <3>2. f[i - 1] \in Nat
      BY <1>2, <3>1 DEF Iterates
    <3>3. F[i][f[i - 1]] = f[i - 1] + b[i]
      BY <3>1, <3>2
    <3> QED
      BY <1>2, <3>3 DEF Iterates
  <2> QED
    BY <1>1, <1>2, <2>1 DEF Iterates
<1>4. s = E(s)
  BY <1>3
<1> HIDE DEF s
<1> DEFINE T == {i \in Nat : i \in 0..n => s[i] \in Nat}
<1>5. 0 \in T
  BY <1>1, <1>4
<1>6. ASSUME NEW i \in Nat, i \in T PROVE i + 1 \in T
  <2> SUFFICES ASSUME i + 1 \in 0..n PROVE s[i + 1] \in Nat
    OBVIOUS
  <2>1. i \in 0..n /\ i + 1 \in 1..n /\ i + 1 # 0 /\ (i + 1) - 1 = i
    BY <1>1
  <2>2. s[i] \in Nat /\ b[i + 1] \in Nat
    BY <1>6, <2>1
  <2>3. s[i + 1] = s[i] + b[i + 1]
    BY <1>4, <2>1
  <2> QED
    BY <2>2, <2>3
<1> HIDE DEF T
<1>7. Nat \subseteq T
  BY <1>5, <1>6, Induction
<1>8. Sum(b) = s[n]
  BY DEF Sum, s
<1> QED
  BY <1>1, <1>7, <1>8 DEF T

\* A complement is a byte.
LEMMA ComplementByte == \A n \in Int : Complement(n) \in Byte
BY DEF Complement, Byte

\* u is s, of length m, followed by t, of length n.
Joins(u, s, m, t, n) ==
    /\ u \in Seq(Byte)
    /\ Len(u) = n + m
    /\ \A i \in 1..m : u[i] = s[i]
    /\ \A i \in 1..n : u[i + m] = t[i]

IsBytes(s, m) == s \in Seq(Byte) /\ Len(s) = m

\* The places of the bytes of a concatenation.
LEMMA Joined ==
    ASSUME NEW s, NEW m \in Nat, IsBytes(s, m), NEW t, NEW n \in Nat, IsBytes(t, n)
    PROVE  Joins(s \o t, s, m, t, n)
<1>1. s \in Seq(Byte) /\ t \in Seq(Byte) /\ Len(s) = m /\ Len(t) = n
  BY DEF IsBytes
<1>2. s \o t \in Seq(Byte) /\ Len(s \o t) = m + n
  BY <1>1, ConcatProperties
<1>3. \A i \in 1..(m + n) : (s \o t)[i] = IF i <= m THEN s[i] ELSE t[i - m]
  <2>1. \A i \in 1..(Len(s) + Len(t)) :
            (s \o t)[i] = IF i <= Len(s) THEN s[i] ELSE t[i - Len(s)]
    BY <1>1, ConcatProperties
  <2> QED
    BY <1>1, <2>1
<1>4. ASSUME NEW i \in 1..m PROVE (s \o t)[i] = s[i]
  <2>1. i \in 1..(m + n) /\ i <= m
    OBVIOUS
  <2> QED
    BY <1>3, <2>1
<1>5. ASSUME NEW i \in 1..n PROVE (s \o t)[i + m] = t[i]
  <2>1. i + m \in 1..(m + n) /\ ~(i + m <= m) /\ (i + m) - m = i
    OBVIOUS
  <2> QED
    BY <1>3, <2>1
<1> QED
  BY <1>2, <1>4, <1>5 DEF Joins

\* The chip's reply to a command: the ACK and the response
Replied(c, p) == ACK \o Frame(c, p)

\* The bytes of a reply, by their places.
IsReply(f, c, p, n) ==
    /\ f \in Seq(Byte)
    /\ Len(f) = n + 15
    /\ f[1] = 0 /\ f[2] = 0 /\ f[3] = 255 /\ f[4] = 0 /\ f[5] = 255 /\ f[6] = 0
    /\ f[7] = 0 /\ f[8] = 0 /\ f[9] = 255
    /\ f[10] = n + 2 /\ f[11] = Complement(n + 2)
    /\ f[12] = 213 /\ f[13] = c + 1
    /\ \A i \in 1..n : f[i + 13] = p[i]
    /\ f[n + 15] = 0

\* A reply has its bytes at these places, and they are bytes.
LEMMA ReplyBytes ==
    ASSUME NEW c \in 0..148, NEW n \in 0..253, NEW p, IsBytes(p, n)
    PROVE  IsReply(Replied(c, p), c, p, n) /\ Frame(c, p) \in Seq(Byte)
<1>1. p \in Seq(Byte) /\ Len(p) = n
  BY DEF IsBytes
<1> DEFINE a == <<0, 0, 255, 0, 255, 0>>
           q == <<0, 0, 255>>
           l == n + 2
           h == <<l, Complement(l), 213, c + 1>>
           z == <<Complement(213 + c + 1 + Sum(p)), 0>>
<1>2. n \in Nat /\ l \in Byte /\ Complement(l) \in Byte /\ 213 \in Byte /\ c + 1 \in Byte
  <2>1. n \in Nat
    OBVIOUS
  <2>2. l \in Byte /\ l \in Int /\ 213 \in Byte /\ c + 1 \in Byte
    BY DEF Byte
  <2> QED
    BY <2>1, <2>2, ComplementByte
<1>3. Complement(213 + c + 1 + Sum(p)) \in Byte
  <2>1. p \in Seq(Nat)
    <3>1. Byte \subseteq Nat
      BY DEF Byte
    <3> QED
      BY <1>1, <3>1, SeqMonotonic
  <2>2. 213 + c + 1 + Sum(p) \in Int
    <3>1. Sum(p) \in Nat
      BY <2>1, SumNat
    <3> QED
      BY <3>1
  <2> QED
    BY <2>2, ComplementByte
<1>4. a \in Seq(Byte) /\ Len(a) = 6 /\ q \in Seq(Byte) /\ Len(q) = 3
  BY DEF Byte
<1>5. h \in Seq(Byte) /\ Len(h) = 4 /\ h[1] = l /\ h[2] = Complement(l) /\ h[3] = 213 /\ h[4] = c + 1
  BY <1>2
<1>6. z \in Seq(Byte) /\ Len(z) = 2 /\ z[2] = 0
  <2>1. 0 \in Byte
    BY DEF Byte
  <2> QED
    BY <1>3, <2>1
<1>7. /\ a[1] = 0 /\ a[2] = 0 /\ a[3] = 255 /\ a[4] = 0 /\ a[5] = 255 /\ a[6] = 0
      /\ q[1] = 0 /\ q[2] = 0 /\ q[3] = 255
  OBVIOUS
<1>8. IsBytes(a, 6) /\ IsBytes(q, 3) /\ IsBytes(h, 4) /\ IsBytes(p, n) /\ IsBytes(z, 2)
  BY <1>1, <1>4, <1>5, <1>6 DEF IsBytes
<1> DEFINE u == q \o h
           v == u \o p
           w == v \o z
           f == a \o w
<1>9. Replied(c, p) = f /\ Frame(c, p) = w
  BY <1>1 DEF Replied, Frame, ACK, Preamble, PN532TOHOST
<1> HIDE DEF a, q, h, z, l
<1>10. Joins(u, q, 3, h, 4) /\ IsBytes(u, 7)
  <2>1. Joins(u, q, 3, h, 4)
    BY <1>8, Joined
  <2> HIDE DEF u
  <2> QED
    BY <2>1 DEF Joins, IsBytes
<1> HIDE DEF u
<1>11. Joins(v, u, 7, p, n) /\ IsBytes(v, n + 7)
  <2>1. Joins(v, u, 7, p, n)
    BY <1>2, <1>8, <1>10, Joined
  <2> QED
    BY <2>1 DEF Joins, IsBytes
<1> HIDE DEF v
<1>12. Joins(w, v, n + 7, z, 2) /\ IsBytes(w, n + 9)
  <2>1. n + 7 \in Nat
    BY <1>2
  <2>2. Joins(w, v, n + 7, z, 2)
    BY <1>8, <1>11, <2>1, Joined
  <2>3. 2 + (n + 7) = n + 9
    BY <1>2
  <2> QED
    BY <2>2, <2>3 DEF Joins, IsBytes
<1> HIDE DEF w
<1>13. Joins(f, a, 6, w, n + 9)
  <2>1. n + 9 \in Nat
    BY <1>2
  <2> QED
    BY <1>8, <1>12, <2>1, Joined
<1> HIDE DEF f
<1>14. f \in Seq(Byte) /\ Len(f) = n + 15
  BY <1>2, <1>13 DEF Joins
<1>15. ASSUME NEW j \in 1..(n + 9) PROVE f[j + 6] = w[j]
  BY <1>13 DEF Joins
<1>16. ASSUME NEW j \in 1..(n + 7) PROVE f[j + 6] = v[j]
  <2>1. j \in 1..(n + 9)
    BY <1>2
  <2>2. w[j] = v[j]
    BY <1>12 DEF Joins
  <2> QED
    BY <1>15, <2>1, <2>2
<1>17. ASSUME NEW j \in 1..7 PROVE f[j + 6] = u[j]
  <2>1. j \in 1..(n + 7)
    BY <1>2
  <2>2. v[j] = u[j]
    BY <1>11 DEF Joins
  <2> QED
    BY <1>16, <2>1, <2>2
<1>18. u[1] = q[1] /\ u[2] = q[2] /\ u[3] = q[3] /\ u[4] = h[1] /\ u[5] = h[2] /\ u[6] = h[3] /\ u[7] = h[4]
  <2>1. \A i \in 1..3 : u[i] = q[i]
    BY <1>10 DEF Joins
  <2>2. \A i \in 1..4 : u[i + 3] = h[i]
    BY <1>10 DEF Joins
  <2> QED
    BY <2>1, <2>2
<1>19. /\ f[7] = 0 /\ f[8] = 0 /\ f[9] = 255 /\ f[10] = n + 2 /\ f[11] = Complement(n + 2)
       /\ f[12] = 213 /\ f[13] = c + 1
  <2>1. f[1 + 6] = u[1] /\ f[2 + 6] = u[2] /\ f[3 + 6] = u[3] /\ f[4 + 6] = u[4]
    BY <1>17
  <2>2. f[5 + 6] = u[5] /\ f[6 + 6] = u[6] /\ f[7 + 6] = u[7]
    BY <1>17
  <2> QED
    BY <1>5, <1>7, <1>18, <2>1, <2>2 DEF l
<1>20. ASSUME NEW i \in 1..n PROVE f[i + 13] = p[i]
  <2> DEFINE j == i + 7
  <2>1. j \in 1..(n + 7) /\ j + 6 = i + 13
    BY <1>2
  <2>2. v[j] = p[i]
    BY <1>11 DEF Joins
  <2> HIDE DEF j
  <2>3. f[j + 6] = p[i]
    BY <1>16, <2>1, <2>2
  <2> QED
    BY <2>1, <2>3
<1>21. f[1] = 0 /\ f[2] = 0 /\ f[3] = 255 /\ f[4] = 0 /\ f[5] = 255 /\ f[6] = 0
  <2>1. \A i \in 1..6 : f[i] = a[i]
    BY <1>13 DEF Joins
  <2> QED
    BY <1>7, <2>1
<1>22. f[n + 15] = 0
  <2>1. n + 9 \in 1..(n + 9) /\ (n + 9) + 6 = n + 15 /\ 2 + (n + 7) = n + 9 /\ 2 \in 1..2
    BY <1>2
  <2>2. w[2 + (n + 7)] = z[2]
    BY <1>12, <2>1 DEF Joins
  <2>3. f[(n + 9) + 6] = w[n + 9]
    BY <1>15, <2>1
  <2> QED
    BY <1>6, <2>1, <2>2, <2>3
<1> QED
  BY <1>9, <1>12, <1>14, <1>19, <1>20, <1>21, <1>22 DEF IsBytes, IsReply

\* The same for the payloads the chip sends.
LEMMA ReplyPlaces ==
    ASSUME NEW c \in Command \cup {0}, NEW p \in Payload
    PROVE  /\ p \in Seq(Byte) /\ Frame(c, p) \in Seq(Byte)
           /\ \E n \in 0..253 : Len(p) = n /\ IsReply(Replied(c, p), c, p, n)
<1>1. c \in 0..148
  BY HsuAssumption
<1>2. p \in Seq(Byte)
  BY HsuAssumption DEF Byte
<1> DEFINE n == Len(p)
<1>3. n \in Nat /\ n <= 253
  BY <1>2, HsuAssumption
<1> HIDE DEF n
<1>4. n \in 0..253
  BY <1>3
<1>5. Len(p) = n /\ IsBytes(p, n)
  BY <1>2 DEF n, IsBytes
<1>6. IsReply(Replied(c, p), c, p, n) /\ Frame(c, p) \in Seq(Byte)
  BY <1>1, <1>4, <1>5, ReplyBytes
<1> QED
  BY <1>2, <1>4, <1>5, <1>6

-----------------------------------------------------------------------------
(* Types and the buffer *)

Receiving == {"ack", "preamble", "length", "command", "payload", "checksum"}

\* What a call of receive asks for, and what comes next.
LEMMA Stages ==
    /\ stage = "ack" => Wanted = 6 /\ Following = "preamble"
    /\ stage = "preamble" => Wanted = 3 /\ Following = "length"
    /\ stage = "length" => Wanted = 2 /\ Following = "command"
    /\ stage = "command" => Wanted = 2 /\ Following = "payload"
    /\ stage = "payload" => Wanted = size /\ Following = "checksum"
    /\ stage = "checksum" => Wanted = 2 /\ Following = "idle"
BY DEF Wanted, Following

\* The types are kept together with the size of a payload that is read: the
\* type invariant alone does not bound it.
HsuTypeInv ==
    /\ HsuTypeOK
    /\ rx \in Seq(Byte)
    /\ line \in Seq(Byte)
    /\ buf \in Seq(Byte)
    /\ stage \in {"command", "payload"} => size <= BufferSize

\* What the bytes received lead to.
LEMMA ProceedTypes ==
    ASSUME HsuTypeInv, stage # "idle", NEW b, Proceed(b), rx' \in Seq(Byte),
           stage = "length" => b[1] \in Byte,
           stage = "payload" => b \in Seq(Byte) /\ Len(b) <= BufferSize
    PROVE  HsuTypeInv'
<1> USE DEF HsuTypeInv, HsuTypeOK
<1>1. UNCHANGED <<command, written, line, busy, sent>>
  BY DEF Proceed, chipVars
<1>2. ret' \in {"OK", "INVALID_ACK", "TIMEOUT", "INVALID_FRAME", "NO_SPACE"}
  <2>1. Check(b) \in {"OK", "INVALID_ACK", "TIMEOUT", "INVALID_FRAME", "NO_SPACE"}
    BY DEF Check
  <2> QED
    BY <2>1 DEF Proceed
<1>3. stage' \in Receiving \cup {"idle"}
  BY Stages DEF Proceed, Receiving
<1>4. size' \in 0..255
  <2>1. \A n \in Byte : PayloadLength(n) \in 0..255
    BY DEF Byte, PayloadLength
  <2> QED
    BY <2>1 DEF Proceed
<1>5. buf' \in Seq(Byte) /\ Len(buf') <= BufferSize
  BY DEF Proceed
<1>6. stage' \in {"command", "payload"} => size' <= BufferSize
  <2>1. CASE stage = "length"
    <3>1. Check(b) = "OK" => Fits(PayloadLength(b[1]))
      BY <2>1 DEF Check
    <3> QED
      BY <2>1, <3>1 DEF Proceed, Fits
  <2>2. CASE stage = "command"
    BY <2>2 DEF Proceed
  <2>3. CASE stage \notin {"length", "command"}
    BY <2>3, Stages DEF Proceed
  <2> QED
    BY <2>1, <2>2, <2>3
<1> QED
  BY <1>1, <1>2, <1>3, <1>4, <1>5, <1>6 DEF Receiving

\* A call of receive that gets its bytes.
LEMMA ReceiveTypes ==
    ASSUME HsuTypeInv, Receive
    PROVE  HsuTypeInv'
<1> DEFINE b == SubSeq(rx, 1, Wanted)
<1>1. /\ stage # "idle" /\ Len(rx) >= Wanted /\ rx' = SubSeq(rx, Wanted + 1, Len(rx))
      /\ Proceed(b)
  BY DEF Receive
<1>2. rx \in Seq(Byte) /\ Len(rx) \in Nat /\ Wanted \in Nat
  <2>1. stage \in Receiving /\ size \in Nat /\ rx \in Seq(Byte)
    BY <1>1 DEF HsuTypeInv, HsuTypeOK, Receiving
  <2> QED
    BY <2>1, Stages DEF Receiving
<1>3. rx' \in Seq(Byte) /\ b \in Seq(Byte) /\ Len(b) = Wanted
  BY <1>1, <1>2, SubSeqProperties
<1>4. stage = "length" => b[1] \in Byte
  BY <1>3, Stages
<1>5. stage = "payload" => b \in Seq(Byte) /\ Len(b) <= BufferSize
  BY <1>3, Stages DEF HsuTypeInv
<1> HIDE DEF b
<1> QED
  BY <1>1, <1>3, <1>4, <1>5, ProceedTypes

\* A call of receive that runs out of time.
LEMMA ReceiveShortTypes ==
    ASSUME HsuTypeInv, ReceiveShort
    PROVE  HsuTypeInv'
<1>1. stage # "idle" /\ Len(rx) < Wanted /\ rx' = <<>> /\ rx' \in Seq(Byte)
  BY DEF ReceiveShort
<1>2. rx \in Seq(Byte)
  BY DEF HsuTypeInv
<1>3. CASE rx = <<>> \/ stage = "payload"
  <2>1. /\ stage' = "idle" /\ ret' = "TIMEOUT" /\ buf' = IF stage = "payload" THEN rx ELSE buf
        /\ UNCHANGED <<command, size, written, line, busy, sent>>
    BY <1>3 DEF ReceiveShort, chipVars
  <2>2. stage = "payload" => Len(rx) <= BufferSize
    <3> SUFFICES ASSUME stage = "payload" PROVE Len(rx) <= BufferSize
      OBVIOUS
    <3>1. Len(rx) < size /\ size <= BufferSize /\ size \in 0..255 /\ Len(rx) \in Nat
      BY <1>1, <1>2, Stages DEF HsuTypeInv, HsuTypeOK
    <3> QED
      BY <3>1, HsuAssumption
  <2> QED
    BY <1>1, <1>2, <2>1, <2>2 DEF HsuTypeInv, HsuTypeOK
<1>4. CASE ~(rx = <<>> \/ stage = "payload")
  <2>1. PICK b \in Filled(rx) : Proceed(b)
    BY <1>4 DEF ReceiveShort
  <2>2. stage = "length" => b[1] \in Byte
    <3> SUFFICES ASSUME stage = "length" PROVE b[1] \in Byte
      OBVIOUS
    <3>1. PICK n : b = <<rx[1], n>>
      BY DEF Filled
    <3>2. rx[1] \in Byte
      BY <1>2, <1>4
    <3> QED
      BY <3>1, <3>2
  <2> QED
    BY <1>1, <1>4, <2>1, <2>2, ProceedTypes
<1> QED
  BY <1>3, <1>4

\* Every step keeps the types.
LEMMA HsuTypeStep ==
    ASSUME HsuTypeInv, [HsuNext]_hsuVars
    PROVE  HsuTypeInv'
<1>1. ASSUME NEW c \in Command, writeCommand(c) PROVE HsuTypeInv'
  BY <1>1, HsuAssumption DEF writeCommand, HsuTypeInv, HsuTypeOK
<1>2. ASSUME NEW p \in Payload, Answer(p) PROVE HsuTypeInv'
  <2>1. /\ busy' = FALSE /\ line' = (line \o ACK) \o Frame(command, p)
        /\ UNCHANGED <<stage, command, size, buf, ret, written, rx>>
    BY <1>2 DEF Answer, callVars
  <2>2. line' \in Seq(Byte)
    <3>1. command \in Command \cup {0}
      BY DEF HsuTypeInv, HsuTypeOK
    <3>2. Frame(command, p) \in Seq(Byte)
      BY <3>1, ReplyPlaces
    <3>3. ACK \in Seq(Byte)
      BY DEF ACK, Byte
    <3>4. line \o ACK \in Seq(Byte)
      BY <3>3, ConcatProperties DEF HsuTypeInv
    <3> QED
      BY <2>1, <3>2, <3>4, ConcatProperties
  <2> QED
    BY <2>1, <2>2 DEF HsuTypeInv, HsuTypeOK
<1>3. CASE Arrive
  <2>1. rx' \in Seq(Byte) /\ line' \in Seq(Byte)
    BY <1>3 DEF Arrive, HsuTypeInv
  <2>2. UNCHANGED <<stage, command, size, buf, ret, written, busy, sent>>
    BY <1>3 DEF Arrive, callVars, chipVars
  <2> QED
    BY <2>1, <2>2 DEF HsuTypeInv, HsuTypeOK
<1>4. CASE UNCHANGED hsuVars
  BY <1>4 DEF hsuVars, callVars, chipVars, HsuTypeInv, HsuTypeOK
<1> QED
  BY <1>1, <1>2, <1>3, <1>4, ReceiveTypes, ReceiveShortTypes DEF HsuNext

\* The types hold at first.
LEMMA HsuTypeStart ==
    ASSUME HsuInit
    PROVE  HsuTypeInv
<1>1. Len(<<>>) = 0 /\ <<>> \in Seq(Byte)
  OBVIOUS
<1>2. Len(<<>>) <= BufferSize /\ 0 \in 0..MaxCommands
  BY <1>1, HsuAssumption
<1>3. rx \in Seq(Byte) /\ line \in Seq(Byte) /\ buf \in Seq(Byte) /\ Len(buf) <= BufferSize
  BY <1>1, <1>2 DEF HsuInit
<1>4. written \in 0..MaxCommands
  BY <1>2 DEF HsuInit
<1>5. stage = "idle" /\ command = 0 /\ size = 0 /\ ret = "OK" /\ busy = FALSE
  BY DEF HsuInit
<1>6. HsuTypeOK
  <2>1. command \in Command \cup {0} /\ size \in 0..255
    <3>1. command = 0 /\ size = 0
      BY <1>5
    <3> QED
      BY <3>1
  <2>2. stage = "idle" /\ ret = "OK" /\ Len(buf) <= BufferSize
    BY <1>3, <1>5
  <2>3. busy \in BOOLEAN
    BY <1>5
  <2> QED
    BY <1>4, <2>1, <2>2, <2>3 DEF HsuTypeOK
<1> QED
  BY <1>3, <1>5, <1>6 DEF HsuTypeInv

\* The line keeps its types, whatever the chip sends and however late: in
\* particular readResponse never writes past the end of the caller's buffer.
THEOREM HsuTypes == HsuSpec => []HsuTypeOK
<1>1. HsuInit => HsuTypeInv
  BY HsuTypeStart
<1>2. HsuTypeInv /\ [HsuNext]_hsuVars => HsuTypeInv'
  BY HsuTypeStep
<1>3. HsuTypeInv => HsuTypeOK
  BY DEF HsuTypeInv
<1> QED
  BY <1>1, <1>2, <1>3, PTL DEF HsuSpec

-----------------------------------------------------------------------------
(* What is on the line *)

\* The bytes arrived and those on the way are what is left of f after k bytes.
Left(r, l, f, k) ==
    /\ Len(r) + Len(l) = Len(f) - k
    /\ \A i \in 1..Len(r) : r[i] = f[i + k]
    /\ \A i \in 1..Len(l) : l[i] = f[i + (Len(r) + k)]

\* Reading w bytes that have arrived.
LEMMA LeftTake ==
    ASSUME NEW r \in Seq(Byte), NEW l \in Seq(Byte), NEW f \in Seq(Byte), NEW k \in Nat,
           Left(r, l, f, k), NEW w \in Nat, Len(r) >= w
    PROVE  /\ Left(SubSeq(r, w + 1, Len(r)), l, f, k + w)
           /\ \A i \in 1..w : SubSeq(r, 1, w)[i] = f[i + k]
<1> DEFINE q == SubSeq(r, w + 1, Len(r))
           n == Len(r)
           m == Len(l)
           o == Len(f)
<1>1. n \in Nat /\ m \in Nat /\ o \in Nat /\ n >= w
  OBVIOUS
<1>2. q \in Seq(Byte) /\ Len(q) = n - w /\ \A i \in 1..(n - w) : q[i] = r[w + i]
  BY <1>1, SubSeqProperties
<1>3. n + m = o - k /\ (\A i \in 1..n : r[i] = f[i + k]) /\ \A i \in 1..m : l[i] = f[i + (n + k)]
  BY DEF Left
<1>4. \A i \in 1..w : SubSeq(r, 1, w)[i] = r[i]
  BY <1>1, SubSeqProperties
<1> HIDE DEF q, n, m, o
<1>5. ASSUME NEW i \in 1..w PROVE SubSeq(r, 1, w)[i] = f[i + k]
  <2>1. i \in 1..n
    BY <1>1
  <2> QED
    BY <1>3, <1>4, <2>1
<1>6. ASSUME NEW i \in 1..(n - w) PROVE q[i] = f[i + (k + w)]
  <2> DEFINE j == w + i
  <2>1. j \in 1..n /\ j + k = i + (k + w) /\ q[i] = r[j]
    BY <1>1, <1>2
  <2> HIDE DEF j
  <2>2. q[i] = f[j + k]
    BY <1>3, <2>1
  <2> QED
    BY <2>1, <2>2
<1>7. (n - w) + m = o - (k + w) /\ (n - w) + (k + w) = n + k
  BY <1>1, <1>3
<1>8. Left(q, l, f, k + w)
  <2>1. Len(q) + Len(l) = Len(f) - (k + w)
    BY <1>2, <1>7 DEF m, o
  <2>2. \A i \in 1..Len(q) : q[i] = f[i + (k + w)]
    BY <1>2, <1>6
  <2>3. \A i \in 1..Len(l) : l[i] = f[i + (Len(q) + (k + w))]
    BY <1>2, <1>3, <1>7 DEF m
  <2> QED
    BY <2>1, <2>2, <2>3 DEF Left
<1> QED
  BY <1>5, <1>8 DEF q, n

\* All that has arrived is read, or dumped.
LEMMA LeftShort ==
    ASSUME NEW r \in Seq(Byte), NEW l \in Seq(Byte), NEW f \in Seq(Byte), NEW k \in Nat,
           Left(r, l, f, k)
    PROVE  Left(<<>>, l, f, k + Len(r)) /\ \A i \in 1..Len(r) : r[i] = f[i + k]
<1> DEFINE n == Len(r)
<1>1. n \in Nat /\ Len(l) \in Nat /\ Len(f) \in Nat
  OBVIOUS
<1>2. /\ n + Len(l) = Len(f) - k
      /\ \A i \in 1..n : r[i] = f[i + k]
      /\ \A i \in 1..Len(l) : l[i] = f[i + (n + k)]
  BY DEF Left
<1> HIDE DEF n
<1>3. Len(<<>>) = 0 /\ 1..0 = {} /\ 0 + (k + n) = n + k /\ 0 + Len(l) = Len(f) - (k + n)
  BY <1>1, <1>2
<1>4. Left(<<>>, l, f, k + n)
  BY <1>2, <1>3 DEF Left
<1> QED
  BY <1>2, <1>4 DEF n

\* A byte arrives.
LEMMA LeftArrive ==
    ASSUME NEW r \in Seq(Byte), NEW l \in Seq(Byte), NEW f \in Seq(Byte), NEW k \in Nat,
           Left(r, l, f, k), l # <<>>
    PROVE  Left(Append(r, Head(l)), Tail(l), f, k)
<1> DEFINE n == Len(r)
           m == Len(l)
           q == Append(r, Head(l))
           t == Tail(l)
<1>1. n \in Nat /\ m \in Nat /\ m >= 1 /\ Len(f) \in Nat
  OBVIOUS
<1>2. /\ n + m = Len(f) - k
      /\ \A i \in 1..n : r[i] = f[i + k]
      /\ \A i \in 1..m : l[i] = f[i + (n + k)]
  BY DEF Left
<1>3. Len(q) = n + 1 /\ (\A i \in 1..n : q[i] = r[i]) /\ q[n + 1] = l[1]
  BY <1>1
<1>4. Len(t) = m - 1 /\ \A i \in 1..(m - 1) : t[i] = l[i + 1]
  BY <1>1
<1> HIDE DEF n, m, q, t
<1>5. ASSUME NEW i \in 1..(n + 1) PROVE q[i] = f[i + k]
  <2>1. CASE i \in 1..n
    BY <1>2, <1>3, <2>1
  <2>2. CASE i = n + 1
    <3>1. 1 \in 1..m /\ 1 + (n + k) = i + k
      BY <1>1, <2>2
    <3> QED
      BY <1>2, <1>3, <2>2, <3>1
  <2> QED
    BY <1>1, <2>1, <2>2
<1>6. ASSUME NEW i \in 1..(m - 1) PROVE t[i] = f[i + ((n + 1) + k)]
  <2> DEFINE j == i + 1
  <2>1. j \in 1..m /\ j + (n + k) = i + ((n + 1) + k) /\ t[i] = l[j]
    BY <1>1, <1>4
  <2> HIDE DEF j
  <2>2. t[i] = f[j + (n + k)]
    BY <1>2, <2>1
  <2> QED
    BY <2>1, <2>2
<1>7. (n + 1) + (m - 1) = Len(f) - k
  BY <1>1, <1>2
<1>8. Left(q, t, f, k)
  BY <1>3, <1>4, <1>5, <1>6, <1>7 DEF Left
<1> QED
  BY <1>8 DEF q, t

\* The chip sends more.
LEMMA LeftMore ==
    ASSUME NEW r \in Seq(Byte), NEW l \in Seq(Byte), NEW f \in Seq(Byte), NEW k \in Nat,
           Left(r, l, f, k), NEW g \in Seq(Byte)
    PROVE  Left(r, l \o g, f \o g, k) /\ k <= Len(f)
<1> DEFINE n == Len(r)
           m == Len(l)
           o == Len(f)
           h == Len(g)
           x == l \o g
           y == f \o g
<1>1. n \in Nat /\ m \in Nat /\ o \in Nat /\ h \in Nat
  OBVIOUS
<1>2. n + m = o - k /\ (\A i \in 1..n : r[i] = f[i + k]) /\ \A i \in 1..m : l[i] = f[i + (n + k)]
  BY DEF Left
<1>3. Joins(x, l, m, g, h) /\ Joins(y, f, o, g, h)
  BY <1>1, Joined DEF IsBytes
<1> HIDE DEF n, m, o, h, x, y
<1>4. ASSUME NEW i \in 1..n PROVE r[i] = y[i + k]
  <2>1. i + k \in 1..o
    BY <1>1, <1>2
  <2> QED
    BY <1>2, <1>3, <2>1 DEF Joins
<1>5. ASSUME NEW i \in 1..(h + m) PROVE x[i] = y[i + (n + k)]
  <2>1. CASE i <= m
    <3>1. i \in 1..m /\ i + (n + k) \in 1..o
      BY <1>1, <1>2, <2>1
    <3> QED
      BY <1>2, <1>3, <3>1 DEF Joins
  <2>2. CASE ~(i <= m)
    <3> DEFINE j == i - m
    <3>1. j \in 1..h /\ j + m = i /\ j + o = i + (n + k)
      BY <1>1, <1>2, <2>2
    <3> HIDE DEF j
    <3>2. x[j + m] = g[j] /\ y[j + o] = g[j]
      BY <1>3, <3>1 DEF Joins
    <3> QED
      BY <3>1, <3>2
  <2> QED
    BY <2>1, <2>2
<1>6. Len(x) = h + m /\ Len(y) = h + o /\ n + (h + m) = (h + o) - k /\ k <= o
  BY <1>1, <1>2, <1>3 DEF Joins
<1>7. Left(r, x, y, k)
  BY <1>4, <1>5, <1>6 DEF Left, n
<1> QED
  BY <1>6, <1>7 DEF x, y, o

-----------------------------------------------------------------------------
(* All that the chip sends *)

\* At k the stream s has the command of one of these responses, after the
\* payload's length and before the payload p.
IsResponse(s, k, p, responses) ==
    /\ [command |-> s[k + 1] - 1, payload |-> p] \in responses
    /\ s[k - 2] = Len(p) + 2 /\ s[k - 1] = Complement(Len(p) + 2)
    /\ Len(p) + (k + 1) <= Len(s)
    /\ \A i \in 1..Len(p) : s[i + (k + 1)] = p[i]

\* The stream s is made of the ACKs and these responses: what looks like the
\* header of a response is one, and no header begins in one frame and ends in
\* the next.
IsStream(s, responses) ==
    /\ s \in Seq(Byte)
    /\ s # <<>> => s[Len(s)] = 0
    /\ \A k \in 3..(Len(s) - 1) :
          LooksLikeHeader(s, k) => \E p \in Payload : IsResponse(s, k, p, responses)

\* The command, at 12, is the one place of a reply that looks like a header's.
LEMMA ReplyHeader ==
    ASSUME Unambiguous, NEW c \in Command, NEW p \in Payload, NEW f, f = Replied(c, p),
           NEW k \in 3..(Len(f) - 1), LooksLikeHeader(f, k)
    PROVE  k = 12
BY DEF Unambiguous, Replied

\* The stream is one after another reply, too.
LEMMA StreamGrows ==
    ASSUME Unambiguous, NEW s, NEW responses, IsStream(s, responses),
           NEW c \in Command, NEW p \in Payload
    PROVE  /\ IsStream(s \o Replied(c, p), responses \cup {[command |-> c, payload |-> p]})
           /\ Replied(c, p) \in Seq(Byte)
<1> DEFINE f == Replied(c, p)
           t == s \o f
           o == Len(s)
           more == responses \cup {[command |-> c, payload |-> p]}
<1>1. PICK n \in 0..253 : Len(p) = n /\ IsReply(f, c, p, n)
  BY ReplyPlaces
<1> HIDE DEF f
<1>2. /\ f \in Seq(Byte) /\ Len(f) = n + 15 /\ f[1] = 0 /\ f[2] = 0 /\ f[10] = n + 2
      /\ f[11] = Complement(n + 2) /\ f[13] = c + 1 /\ f[n + 15] = 0
      /\ \A i \in 1..n : f[i + 13] = p[i]
  BY <1>1 DEF IsReply
<1>3. s \in Seq(Byte) /\ o \in Nat
  BY DEF IsStream
<1>4. Joins(t, s, o, f, n + 15)
  <2>1. n + 15 \in Nat /\ IsBytes(s, o) /\ IsBytes(f, n + 15)
    BY <1>2, <1>3 DEF IsBytes
  <2> QED
    BY <1>3, <2>1, Joined
<1> HIDE DEF t
<1>5. /\ t \in Seq(Byte) /\ Len(t) = (n + 15) + o
      /\ \A i \in 1..o : t[i] = s[i]
      /\ \A i \in 1..(n + 15) : t[i + o] = f[i]
  BY <1>4 DEF Joins
<1>6. t[Len(t)] = 0
  <2>1. n + 15 \in 1..(n + 15)
    OBVIOUS
  <2> QED
    BY <1>2, <1>5, <2>1
<1>7. ASSUME NEW k \in 3..(Len(t) - 1), LooksLikeHeader(t, k)
      PROVE  \E r \in Payload : IsResponse(t, k, r, more)
  <2>1. t[k] = 213 /\ k \in 3..((n + 15) + o - 1)
    BY <1>5, <1>7 DEF LooksLikeHeader, PN532TOHOST
  <2>2. CASE k < o
    <3>1. k \in 3..(o - 1) /\ \A i \in {k - 2, k - 1, k, k + 1} : i \in 1..o
      BY <1>3, <2>1, <2>2
    <3>2. t[k - 2] = s[k - 2] /\ t[k - 1] = s[k - 1] /\ t[k] = s[k] /\ t[k + 1] = s[k + 1]
      BY <1>5, <3>1
    <3>3. LooksLikeHeader(s, k)
      BY <1>7, <3>2 DEF LooksLikeHeader
    <3>4. PICK r \in Payload : IsResponse(s, k, r, responses)
      BY <3>1, <3>3 DEF IsStream
    <3> DEFINE m == Len(r)
    <3>5. m \in Nat
      BY HsuAssumption
    <3>6. /\ [command |-> s[k + 1] - 1, payload |-> r] \in responses
          /\ s[k - 2] = m + 2 /\ s[k - 1] = Complement(m + 2)
          /\ m + (k + 1) <= o
          /\ \A i \in 1..m : s[i + (k + 1)] = r[i]
      BY <3>4 DEF IsResponse
    <3> HIDE DEF m, o
    <3>7. m + (k + 1) <= (n + 15) + o
      BY <1>3, <3>5, <3>6
    <3>8. ASSUME NEW i \in 1..m PROVE t[i + (k + 1)] = r[i]
      <4>1. i + (k + 1) \in 1..o
        BY <1>3, <3>1, <3>5, <3>6
      <4> QED
        BY <1>5, <3>6, <4>1
    <3>9. [command |-> t[k + 1] - 1, payload |-> r] \in more
      BY <3>2, <3>6
    <3>10. IsResponse(t, k, r, more)
      BY <1>5, <3>2, <3>6, <3>7, <3>8, <3>9 DEF IsResponse, m
    <3> QED
      BY <3>10
  <2>3. CASE k = o
    <3>1. k \in 1..o /\ s # <<>>
      BY <1>3, <2>1, <2>3
    <3>2. t[k] = 0
      BY <1>5, <2>3, <3>1 DEF IsStream
    <3> QED
      BY <2>1, <3>2
  <2>4. CASE k > o
    <3> DEFINE j == k - o
    <3>1. j \in 1..(n + 14) /\ j + o = k /\ j \in 1..(n + 15)
      BY <1>3, <2>1, <2>4
    <3> HIDE DEF j, o
    <3>2. f[j] = 213
      BY <1>5, <2>1, <3>1
    <3>3. j >= 3
      <4>1. j # 1 /\ j # 2
        BY <1>2, <3>2
      <4> QED
        BY <3>1, <4>1
    <3>4. /\ \A i \in {j - 2, j - 1, j, j + 1} : i \in 1..(n + 15)
          /\ (j - 2) + o = k - 2 /\ (j - 1) + o = k - 1 /\ (j + 1) + o = k + 1
      BY <1>3, <3>1, <3>3
    <3>5. t[k - 2] = f[j - 2] /\ t[k - 1] = f[j - 1] /\ t[k] = f[j] /\ t[k + 1] = f[j + 1]
      <4>1. /\ t[(j - 2) + o] = f[j - 2] /\ t[(j - 1) + o] = f[j - 1] /\ t[j + o] = f[j]
            /\ t[(j + 1) + o] = f[j + 1]
        BY <1>5, <3>4
      <4> QED
        BY <3>1, <3>4, <4>1
    <3>6. LooksLikeHeader(f, j)
      BY <1>7, <3>5 DEF LooksLikeHeader
    <3>7. j = 12
      <4>1. j \in 3..(Len(f) - 1)
        BY <1>2, <3>1, <3>3
      <4> QED
        BY <3>6, <4>1, ReplyHeader DEF f
    <3>8. t[k - 2] = n + 2 /\ t[k - 1] = Complement(n + 2) /\ t[k + 1] = c + 1
      BY <1>2, <3>5, <3>7
    <3>9. n + (k + 1) <= (n + 15) + o
      BY <1>3, <3>1, <3>7
    <3>10. ASSUME NEW i \in 1..n PROVE t[i + (k + 1)] = p[i]
      <4>1. i + 13 \in 1..(n + 15) /\ (i + 13) + o = i + (k + 1)
        BY <1>3, <3>1, <3>7
      <4>2. t[(i + 13) + o] = f[i + 13]
        BY <1>5, <4>1
      <4> QED
        BY <1>2, <4>1, <4>2
    <3>11. [command |-> t[k + 1] - 1, payload |-> p] \in more
      <4>1. t[k + 1] - 1 = c
        BY <3>8, HsuAssumption
      <4> QED
        BY <4>1
    <3>12. IsResponse(t, k, p, more)
      BY <1>1, <1>5, <3>8, <3>9, <3>10, <3>11 DEF IsResponse
    <3> QED
      BY <3>12
  <2>5. k < o \/ k = o \/ k > o
    <3> HIDE DEF o
    <3> QED
      BY <1>3, <2>1
  <2> QED
    BY <2>2, <2>3, <2>4, <2>5
<1>8. IsStream(t, more)
  BY <1>5, <1>6, <1>7 DEF IsStream
<1> QED
  BY <1>2, <1>8 DEF t, f

-----------------------------------------------------------------------------
(* Where a call is in the stream *)

\* The payload p of a response to the present command is next in the stream.
IsNext(p, s, q) ==
    /\ [command |-> command, payload |-> p] \in sent
    /\ Len(p) + q <= Len(s)
    /\ \A i \in 1..Len(p) : s[i + q] = p[i]

\* The call has read, or dumped, q bytes of the stream s.  The last ones before
\* the length were a preamble or the part of one; those before the command a
\* length with its complement, or without it.
Place(s, q) ==
    /\ Left(rx, line, s, q)
    /\ stage = "length" => q >= 1 /\ s[q] \in {0, 255}
    /\ stage = "command" =>
          /\ q >= 2
          /\ \/ (s[q - 1] + s[q]) % 256 = 0 /\ size = PayloadLength(s[q - 1])
             \/ s[q - 1] \in {0, 255} /\ size = PayloadLength(s[q])
    /\ stage = "payload" => \E p \in Payload : size = Len(p) /\ IsNext(p, s, q)
    /\ stage = "checksum" => [command |-> command, payload |-> buf] \in sent

\* The inductive invariant
HsuInv ==
    /\ HsuTypeInv
    /\ busy \/ stage # "idle" => command \in Command
    /\ \E s, q : q \in Nat /\ IsStream(s, sent) /\ Place(s, q)
    /\ ResponseIntact

\* A step of a call that keeps its place.
LEMMA KeepPlace ==
    ASSUME HsuInv, HsuTypeInv', stage # "idle", UNCHANGED <<command, busy, sent>>,
           NEW s, IsStream(s, sent), NEW q \in Nat, Place(s, q)',
           stage' = "idle" /\ ret' = "OK" => [command |-> command, payload |-> buf'] \in sent
    PROVE  HsuInv'
<1>1. IsStream(s, sent)'
  BY DEF IsStream, IsResponse
<1>2. ResponseIntact'
  BY DEF ResponseIntact
<1>3. busy' \/ stage' # "idle" => command' \in Command
  BY DEF HsuInv
<1> QED
  BY <1>1, <1>2, <1>3 DEF HsuInv

\* The payload's length, of bytes that can pass for LEN.
LEMMA Lengths ==
    /\ \A p \in Payload : PayloadLength(Len(p) + 2) = Len(p)
    /\ Complement(255) = 1 /\ PayloadLength(1) = 255
<1>1. ASSUME NEW p \in Payload PROVE PayloadLength(Len(p) + 2) = Len(p)
  <2> DEFINE n == Len(p)
  <2>0. n \in 0..253
    BY ReplyPlaces
  <2> HIDE DEF n
  <2>1. (n + 2) - 2 = n /\ n % 256 = n
    BY <2>0
  <2> QED
    BY <2>1 DEF PayloadLength, n
<1>2. Complement(255) = 1
  BY DEF Complement
<1>3. PayloadLength(1) = 255
  <2>1. \A m \in Int : m + 1 = 0 => m % 256 = 255
    OBVIOUS
  <2>2. 1 - 2 \in Int /\ (1 - 2) + 1 = 0
    OBVIOUS
  <2> QED
    BY <2>1, <2>2 DEF PayloadLength
<1> QED
  BY <1>1, <1>2, <1>3

\* The command of the call, where the call reads a command, is in the header of a
\* response: its payload is next and has the length read.
LEMMA CommandRead ==
    ASSUME HsuTypeInv, stage = "command", command \in Command, NEW s, IsStream(s, sent),
           NEW q \in Nat, Place(s, q), q + 2 <= Len(s), s[1 + q] = 213, s[2 + q] = command + 1
    PROVE  \E p \in Payload : size = Len(p) /\ IsNext(p, s, q + 2)
<1> DEFINE k == q + 1
           l == Len(s)
<1>1. s \in Seq(Byte) /\ l \in Nat /\ q >= 2
  BY DEF IsStream, Place
<1>2. /\ k \in 3..(l - 1) /\ k - 2 = q - 1 /\ k - 1 = q /\ k = 1 + q /\ k + 1 = 2 + q
      /\ k + 1 = q + 2
  <2>1. q + 2 <= l
    OBVIOUS
  <2> HIDE DEF l
  <2> QED
    BY <1>1, <2>1
<1>3. command \in Int /\ (command + 1) - 1 = command
  BY HsuAssumption
<1>4. \/ (s[q - 1] + s[q]) % 256 = 0 /\ size = PayloadLength(s[q - 1])
      \/ s[q - 1] \in {0, 255} /\ size = PayloadLength(s[q])
  BY DEF Place
<1> HIDE DEF k
<1>5. LooksLikeHeader(s, k)
  <2>1. s[k - 2] = s[q - 1] /\ s[k - 1] = s[q] /\ s[k] = 213 /\ s[k + 1] - 1 = command
    BY <1>2, <1>3
  <2> QED
    BY <1>4, <2>1 DEF LooksLikeHeader, PN532TOHOST
<1>6. PICK p \in Payload : IsResponse(s, k, p, sent)
  BY <1>2, <1>5 DEF IsStream
<1>7. PICK n \in 0..253 : Len(p) = n
  BY ReplyPlaces
<1>11. PayloadLength(Len(p) + 2) = Len(p)
  <2> HIDE DEF l
  <2>0. p \in Payload
    BY <1>6
  <2> QED
    BY <2>0, Lengths
<1>8. /\ [command |-> command, payload |-> p] \in sent
      /\ s[q - 1] = n + 2 /\ s[q] = Complement(n + 2)
      /\ n + (q + 2) <= Len(s)
      /\ \A i \in 1..n : s[i + (q + 2)] = p[i]
  <2>1. s[k + 1] - 1 = command
    BY <1>2, <1>3
  <2> QED
    BY <1>2, <1>6, <1>7, <2>1 DEF IsResponse
<1>9. IsNext(p, s, q + 2)
  BY <1>7, <1>8 DEF IsNext
<1>10. size = n
  <2>1. CASE size = PayloadLength(s[q - 1])
    <3>1. PayloadLength(n + 2) = n
      BY <1>7, <1>11
    <3> QED
      BY <1>8, <2>1, <3>1
  <2>2. CASE s[q - 1] \in {0, 255} /\ size = PayloadLength(s[q])
    <3>1. n + 2 = 255
      BY <1>8, <2>2
    <3>2. size = 255
      BY <1>8, <2>2, <3>1, Lengths
    <3>3. size <= BufferSize
      BY DEF HsuTypeInv
    <3>4. BufferSize \in 1..253
      BY HsuAssumption
    <3> QED
      BY <3>2, <3>3, <3>4
  <2> QED
    BY <1>4, <2>1, <2>2
<1> QED
  BY <1>7, <1>9, <1>10

\* A call of receive that gets its bytes.
LEMMA ReceivePlace ==
    ASSUME HsuInv, Receive
    PROVE  HsuInv'
<1> DEFINE b == SubSeq(rx, 1, Wanted)
<1>1. /\ stage # "idle" /\ Len(rx) >= Wanted /\ rx' = SubSeq(rx, Wanted + 1, Len(rx))
      /\ Proceed(b)
  BY DEF Receive
<1>2. HsuTypeInv /\ HsuTypeInv'
  BY HsuTypeStep DEF HsuInv, HsuNext
<1>3. /\ stage \in Receiving /\ size \in 0..255 /\ command \in Command
      /\ rx \in Seq(Byte) /\ line \in Seq(Byte)
  BY <1>1, <1>2 DEF HsuInv, HsuTypeInv, HsuTypeOK, Receiving
<1>4. PICK w \in Nat : w = Wanted
  BY <1>3, Stages DEF Receiving
<1>5. PICK s, q : q \in Nat /\ IsStream(s, sent) /\ Place(s, q)
  BY DEF HsuInv
<1>6. s \in Seq(Byte) /\ q \in Nat /\ Left(rx, line, s, q)
  BY <1>5 DEF IsStream, Place
<1>7. UNCHANGED <<line, command, busy, sent>>
  BY <1>1 DEF Proceed, chipVars
<1>8. b \in Seq(Byte) /\ Len(b) = w
  BY <1>1, <1>3, <1>4, SubSeqProperties
<1> HIDE DEF b
<1>9. Left(rx', line', s, q + w) /\ \A i \in 1..w : b[i] = s[i + q]
  <2>1. rx \in Seq(Byte) /\ line \in Seq(Byte) /\ Len(rx) >= w
    BY <1>1, <1>3, <1>4
  <2>2. /\ Left(SubSeq(rx, w + 1, Len(rx)), line, s, q + w)
        /\ \A i \in 1..w : SubSeq(rx, 1, w)[i] = s[i + q]
    BY <1>6, <2>1, LeftTake
  <2> QED
    BY <1>1, <1>4, <1>7, <2>2 DEF b
<1>10. q + w <= Len(s)
  <2> DEFINE n == Len(rx)
             m == Len(line)
             l == Len(s)
  <2>1. n \in Nat /\ m \in Nat /\ l \in Nat /\ n >= w /\ n + m = l - q
    BY <1>1, <1>3, <1>4, <1>6 DEF Left
  <2> HIDE DEF n, m, l
  <2>2. q + w <= l
    BY <1>6, <2>1
  <2> QED
    BY <2>2 DEF l
<1>11. /\ stage' = IF Check(b) = "OK" THEN Following ELSE "idle"
       /\ ret' = Check(b)
       /\ size' = IF stage = "length" THEN PayloadLength(b[1]) ELSE size
       /\ buf' = IF stage = "payload" THEN b ELSE buf
  BY <1>1 DEF Proceed
<1>12. ASSUME Place(s, q + w)',
              stage' = "idle" /\ ret' = "OK" => [command |-> command, payload |-> buf'] \in sent
       PROVE  HsuInv'
  <2>1. q + w \in Nat
    BY <1>6
  <2> QED
    BY <1>1, <1>2, <1>5, <1>7, <1>12, <2>1, KeepPlace
<1>13. CASE Check(b) # "OK"
  <2>1. stage' = "idle" /\ ret' # "OK"
    BY <1>11, <1>13
  <2>2. Place(s, q + w)'
    BY <1>9, <2>1 DEF Place
  <2> QED
    BY <1>12, <2>1, <2>2
<1>14. CASE Check(b) = "OK" /\ stage = "ack"
  <2>1. stage' = "preamble"
    BY <1>11, <1>14, Stages
  <2>2. Place(s, q + w)'
    BY <1>9, <2>1 DEF Place
  <2> QED
    BY <1>12, <2>1, <2>2
<1>15. CASE Check(b) = "OK" /\ stage = "preamble"
  <2>1. stage' = "length" /\ w = 3
    BY <1>4, <1>11, <1>15, Stages
  <2>2. b = <<0, 0, 255>>
    BY <1>15 DEF Check, Preamble
  <2>3. s[3 + q] = 255 /\ q + 3 = 3 + q /\ q + 3 >= 1
    <3>1. b[3] = s[3 + q]
      BY <1>9, <2>1
    <3>2. b[3] = 255
      BY <2>2
    <3> QED
      BY <1>6, <3>1, <3>2
  <2>4. Left(rx', line', s, q + 3) /\ s[q + 3] = 255
    BY <1>9, <2>1, <2>3
  <2>5. Place(s, q + 3)'
    BY <2>1, <2>3, <2>4 DEF Place
  <2> QED
    BY <1>12, <2>1, <2>5
<1>16. CASE Check(b) = "OK" /\ stage = "length"
  <2>1. stage' = "command" /\ w = 2 /\ size' = PayloadLength(b[1])
    BY <1>4, <1>11, <1>16, Stages
  <2>2. (b[1] + b[2]) % 256 = 0
    BY <1>16 DEF Check
  <2>3. b[1] = s[1 + q] /\ b[2] = s[2 + q]
    BY <1>9, <2>1
  <2>4. (q + 2) - 1 = 1 + q /\ q + 2 = 2 + q /\ q + 2 >= 2
    BY <1>6
  <2>5. (s[(q + 2) - 1] + s[q + 2]) % 256 = 0 /\ size' = PayloadLength(s[(q + 2) - 1])
    BY <2>1, <2>2, <2>3, <2>4
  <2>6. Left(rx', line', s, q + 2)
    BY <1>9, <2>1
  <2>7. Place(s, q + 2)'
    BY <2>1, <2>4, <2>5, <2>6 DEF Place
  <2> QED
    BY <1>12, <2>1, <2>7
<1>17. CASE Check(b) = "OK" /\ stage = "command"
  <2>1. stage' = "payload" /\ w = 2 /\ size' = size
    BY <1>4, <1>11, <1>17, Stages
  <2>2. b = <<213, command + 1>>
    BY <1>17 DEF Check, PN532TOHOST
  <2>3. s[1 + q] = 213 /\ s[2 + q] = command + 1
    <3>1. b[1] = s[1 + q] /\ b[2] = s[2 + q]
      BY <1>9, <2>1
    <3>2. b[1] = 213 /\ b[2] = command + 1
      BY <2>2
    <3> QED
      BY <3>1, <3>2
  <2>4. PICK p \in Payload : size = Len(p) /\ IsNext(p, s, q + 2)
    <3>1. q + 2 <= Len(s)
      BY <1>10, <2>1
    <3> QED
      BY <1>2, <1>3, <1>5, <1>17, <2>3, <3>1, CommandRead
  <2>5. IsNext(p, s, q + 2)' /\ size' = Len(p)
    BY <1>7, <2>1, <2>4 DEF IsNext
  <2>6. Left(rx', line', s, q + 2)
    BY <1>9, <2>1
  <2>7. Place(s, q + 2)'
    BY <2>1, <2>5, <2>6 DEF Place
  <2> QED
    BY <1>12, <2>1, <2>7
<1>18. CASE Check(b) = "OK" /\ stage = "payload"
  <2>1. stage' = "checksum" /\ w = size /\ buf' = b
    BY <1>4, <1>11, <1>18, Stages
  <2>2. PICK p \in Payload : size = Len(p) /\ IsNext(p, s, q)
    BY <1>5, <1>18 DEF Place
  <2>3. [command |-> command, payload |-> p] \in sent /\ \A i \in 1..Len(p) : s[i + q] = p[i]
    BY <2>2 DEF IsNext
  <2>4. p \in Seq(Byte) /\ Len(b) = Len(p) /\ \A i \in 1..Len(p) : b[i] = p[i]
    BY <1>3, <1>8, <1>9, <2>1, <2>2, <2>3, ReplyPlaces
  <2>5. b = p
    BY <1>8, <2>4, SeqEqual
  <2>6. [command |-> command', payload |-> buf'] \in sent'
    BY <1>7, <2>1, <2>3, <2>5
  <2>7. Place(s, q + w)'
    BY <1>9, <2>1, <2>6 DEF Place
  <2> QED
    BY <1>12, <2>1, <2>7
<1>19. CASE Check(b) = "OK" /\ stage = "checksum"
  <2>1. stage' = "idle" /\ buf' = buf
    BY <1>11, <1>19, Stages
  <2>2. [command |-> command, payload |-> buf] \in sent
    BY <1>5, <1>19 DEF Place
  <2>3. Place(s, q + w)'
    BY <1>9, <2>1 DEF Place
  <2> QED
    BY <1>12, <2>1, <2>2, <2>3
<1> QED
  BY <1>3, <1>13, <1>14, <1>15, <1>16, <1>17, <1>18, <1>19 DEF Receiving

\* A call of receive that runs out of time.
LEMMA ReceiveShortPlace ==
    ASSUME HsuInv, ReceiveShort
    PROVE  HsuInv'
<1>1. stage # "idle" /\ Len(rx) < Wanted /\ rx' = <<>>
  BY DEF ReceiveShort
<1>2. HsuTypeInv /\ HsuTypeInv'
  BY HsuTypeStep DEF HsuInv, HsuNext
<1>3. /\ stage \in Receiving /\ size \in 0..255 /\ command \in Command
      /\ rx \in Seq(Byte) /\ line \in Seq(Byte)
  BY <1>1, <1>2 DEF HsuInv, HsuTypeInv, HsuTypeOK, Receiving
<1>4. PICK s, q : q \in Nat /\ IsStream(s, sent) /\ Place(s, q)
  BY DEF HsuInv
<1>5. s \in Seq(Byte) /\ q \in Nat /\ Left(rx, line, s, q)
  BY <1>4 DEF IsStream, Place
<1>6. UNCHANGED <<line, command, busy, sent>>
  BY DEF ReceiveShort, Proceed, chipVars
<1>7. PICK m \in Nat : m = Len(rx)
  BY <1>3
<1>8. Left(rx', line', s, q + m) /\ \A i \in 1..m : rx[i] = s[i + q]
  <2>1. Left(<<>>, line, s, q + Len(rx)) /\ \A i \in 1..Len(rx) : rx[i] = s[i + q]
    BY <1>3, <1>5, LeftShort
  <2> QED
    BY <1>1, <1>6, <1>7, <2>1
<1>9. ASSUME Place(s, q + m)',
             stage' = "idle" /\ ret' = "OK" => [command |-> command, payload |-> buf'] \in sent
      PROVE  HsuInv'
  <2>1. q + m \in Nat
    BY <1>5, <1>7
  <2> QED
    BY <1>1, <1>2, <1>4, <1>6, <1>9, <2>1, KeepPlace
<1>10. ASSUME stage' = "idle", ret' # "OK" PROVE HsuInv'
  <2>1. Place(s, q + m)'
    BY <1>8, <1>10 DEF Place
  <2> QED
    BY <1>9, <1>10, <2>1
<1>11. CASE rx = <<>> \/ stage = "payload"
  <2>1. stage' = "idle" /\ ret' = "TIMEOUT"
    BY <1>11 DEF ReceiveShort
  <2> QED
    BY <1>10, <2>1
<1>12. ASSUME rx # <<>>, stage # "payload" PROVE HsuInv'
  <2>1. PICK b \in Filled(rx) : Proceed(b)
    BY <1>12 DEF ReceiveShort
  <2>2. /\ stage' = IF Check(b) = "OK" THEN Following ELSE "idle"
        /\ ret' = Check(b)
        /\ size' = IF stage = "length" THEN PayloadLength(b[1]) ELSE size
        /\ buf' = IF stage = "payload" THEN b ELSE buf
    BY <2>1 DEF Proceed
  <2>3. m \in Nat /\ m >= 1 /\ m < Wanted
    BY <1>1, <1>3, <1>7, <1>12
  <2>4. CASE Check(b) # "OK"
    BY <1>10, <2>2, <2>4
  <2>5. CASE Check(b) = "OK" /\ stage = "ack"
    <3>1. stage' = "preamble"
      BY <2>2, <2>5, Stages
    <3>2. Place(s, q + m)'
      BY <1>8, <3>1 DEF Place
    <3> QED
      BY <1>9, <3>1, <3>2
  <2>6. CASE Check(b) = "OK" /\ stage = "preamble"
    <3>1. stage' = "length" /\ m \in {1, 2}
      BY <2>2, <2>3, <2>6, Stages
    <3>2. b = <<0, 0, 255>>
      BY <2>6 DEF Check, Preamble
    <3>3. rx[m] = 0
      <4>1. b # rx
        <5>1. Len(b) = 3
          BY <3>2
        <5> HIDE <3>2
        <5>2. Len(rx) # 3
          BY <1>7, <3>1
        <5> QED
          BY <5>1, <5>2
      <4>2. rx = SubSeq(b, 1, m)
        BY <1>7, <2>1, <2>6, <4>1 DEF Filled
      <4>3. b \in Seq(Byte) /\ Len(b) = 3 /\ b[1] = 0 /\ b[2] = 0
        BY <3>2 DEF Byte
      <4> HIDE <3>2
      <4>4. SubSeq(b, 1, m)[m] = b[m]
        BY <3>1, <4>3, SubSeqProperties
      <4> QED
        BY <3>1, <4>2, <4>3, <4>4
    <3>4. s[q + m] = 0 /\ q + m >= 1
      <4>1. m \in 1..m /\ m + q = q + m /\ q + m >= 1
        BY <1>5, <2>3
      <4> QED
        BY <1>8, <3>3, <4>1
    <3>5. Place(s, q + m)'
      BY <1>8, <3>1, <3>4 DEF Place
    <3> QED
      BY <1>9, <3>1, <3>5
  <2>7. CASE Check(b) = "OK" /\ stage = "length"
    <3>1. stage' = "command" /\ m = 1 /\ size' = PayloadLength(b[1])
      BY <2>2, <2>3, <2>7, Stages
    <3>2. b[1] = s[q + 1]
      <4>1. PICK o : b = <<rx[1], o>>
        BY <2>1, <2>7 DEF Filled
      <4>2. b[1] = rx[1]
        BY <4>1
      <4>3. rx[1] = s[1 + q] /\ 1 + q = q + 1
        BY <1>5, <1>8, <3>1
      <4> QED
        BY <4>2, <4>3
    <3>3. s[q] \in {0, 255} /\ q >= 1
      BY <1>4, <2>7 DEF Place
    <3>4. (q + 1) - 1 = q /\ q + 1 >= 2
      BY <1>5, <3>3
    <3>5. s[(q + 1) - 1] \in {0, 255} /\ size' = PayloadLength(s[q + 1])
      BY <3>1, <3>2, <3>3, <3>4
    <3>6. Left(rx', line', s, q + 1)
      BY <1>8, <3>1
    <3>7. Place(s, q + 1)'
      BY <3>1, <3>4, <3>5, <3>6 DEF Place
    <3> QED
      BY <1>9, <3>1, <3>7
  <2>8. CASE Check(b) = "OK" /\ stage = "command"
    <3>1. b = <<213, command + 1>>
      BY <2>8 DEF Check, PN532TOHOST
    <3>2. b = <<rx[1], 0>>
      BY <2>1, <2>8 DEF Filled
    <3>3. command + 1 = 0
      BY <3>1, <3>2
    <3>4. command \in 1..148
      BY <1>3, HsuAssumption
    <3> QED
      BY <3>3, <3>4
  <2>9. CASE Check(b) = "OK" /\ stage = "checksum"
    <3>1. stage' = "idle" /\ buf' = buf
      BY <2>2, <2>9, Stages
    <3>2. [command |-> command, payload |-> buf] \in sent
      BY <1>4, <2>9 DEF Place
    <3>3. Place(s, q + m)'
      BY <1>8, <3>1 DEF Place
    <3> QED
      BY <1>9, <3>1, <3>2, <3>3
  <2> QED
    BY <1>3, <1>12, <2>4, <2>5, <2>6, <2>7, <2>8, <2>9 DEF Receiving
<1> QED
  BY <1>11, <1>12

\* A command is written: what has arrived is dumped, what has not stays.
LEMMA WritePlace ==
    ASSUME HsuInv, NEW c \in Command, writeCommand(c)
    PROVE  HsuInv'
<1>1. HsuTypeInv' /\ rx \in Seq(Byte) /\ line \in Seq(Byte)
  BY HsuTypeStep DEF HsuInv, HsuNext, HsuTypeInv
<1>2. stage' = "ack" /\ command' = c /\ rx' = <<>> /\ line' = line /\ sent' = sent
  BY DEF writeCommand
<1>3. PICK s, q : q \in Nat /\ IsStream(s, sent) /\ Place(s, q)
  BY DEF HsuInv
<1>4. s \in Seq(Byte) /\ q \in Nat /\ Left(rx, line, s, q)
  BY <1>3 DEF IsStream, Place
<1>5. PICK m \in Nat : m = Len(rx)
  BY <1>1
<1>6. Left(<<>>, line, s, q + m) /\ q + m \in Nat
  BY <1>1, <1>4, <1>5, LeftShort
<1>7. Place(s, q + m)'
  BY <1>2, <1>6 DEF Place
<1>8. IsStream(s, sent)'
  BY <1>2, <1>3 DEF IsStream, IsResponse
<1>9. ResponseIntact'
  BY <1>2 DEF ResponseIntact
<1> QED
  BY <1>1, <1>2, <1>6, <1>7, <1>8, <1>9 DEF HsuInv

\* The chip answers: what it sends follows in the stream.
LEMMA AnswerPlace ==
    ASSUME Unambiguous, HsuInv, NEW p \in Payload, Answer(p)
    PROVE  HsuInv'
<1>1. HsuTypeInv' /\ rx \in Seq(Byte) /\ line \in Seq(Byte)
  BY HsuTypeStep DEF HsuInv, HsuNext, HsuTypeInv
<1>2. /\ busy /\ line' = (line \o ACK) \o Frame(command, p)
      /\ sent' = sent \cup {[command |-> command, payload |-> p]}
      /\ UNCHANGED <<stage, command, size, buf, ret, written, rx>>
  BY DEF Answer, callVars
<1>3. command \in Command
  BY <1>2 DEF HsuInv
<1>4. PICK s, q : q \in Nat /\ IsStream(s, sent) /\ Place(s, q)
  BY DEF HsuInv
<1>5. s \in Seq(Byte) /\ q \in Nat /\ Left(rx, line, s, q)
  BY <1>4 DEF IsStream, Place
<1>6. PICK f : f = Replied(command, p)
  OBVIOUS
<1>7. f \in Seq(Byte) /\ IsStream(s \o f, sent')
  BY <1>2, <1>3, <1>4, <1>6, StreamGrows
<1>8. line' = line \o f
  <2>1. ACK \in Seq(Byte)
    BY DEF ACK, Byte
  <2>2. Frame(command, p) \in Seq(Byte)
    BY <1>3, ReplyPlaces
  <2>3. (line \o ACK) \o Frame(command, p) = line \o (ACK \o Frame(command, p))
    <3>1. \A a, b, c \in Seq(Byte) : (a \o b) \o c = a \o (b \o c)
      BY ConcatAssociative
    <3> QED
      BY <1>1, <2>1, <2>2, <3>1, Zenon
  <2> QED
    BY <1>2, <1>6, <2>3, Zenon DEF Replied
<1>9. Left(rx, line \o f, s \o f, q) /\ q <= Len(s)
  BY <1>1, <1>5, <1>7, LeftMore
<1> DEFINE t == s \o f
           o == Len(s)
<1>10. o \in Nat /\ \A i \in 1..o : t[i] = s[i]
  <2>1. IsBytes(s, o) /\ IsBytes(f, Len(f)) /\ o \in Nat /\ Len(f) \in Nat
    BY <1>5, <1>7 DEF IsBytes
  <2>2. Joins(t, s, o, f, Len(f))
    BY <2>1, Joined
  <2> HIDE DEF t
  <2> QED
    BY <2>1, <2>2 DEF Joins
<1>11. q <= o /\ Left(rx', line', t, q)
  BY <1>2, <1>8, <1>9
<1>a. Len(t) \in Nat /\ o <= Len(t)
  BY <1>5, <1>7, ConcatProperties
<1> HIDE DEF t, o
<1>12. Place(t, q)'
  <2>1. stage' = "length" => q >= 1 /\ t[q] \in {0, 255}
    <3> SUFFICES ASSUME stage = "length" PROVE q >= 1 /\ t[q] \in {0, 255}
      BY <1>2
    <3>1. q >= 1 /\ s[q] \in {0, 255}
      BY <1>4 DEF Place
    <3>2. q \in 1..o
      BY <1>5, <1>10, <1>11, <3>1
    <3> QED
      BY <1>10, <3>1, <3>2
  <2>2. stage' = "command" =>
            /\ q >= 2
            /\ \/ (t[q - 1] + t[q]) % 256 = 0 /\ size' = PayloadLength(t[q - 1])
               \/ t[q - 1] \in {0, 255} /\ size' = PayloadLength(t[q])
    <3> SUFFICES ASSUME stage = "command"
                 PROVE  /\ q >= 2
                        /\ \/ (t[q - 1] + t[q]) % 256 = 0 /\ size = PayloadLength(t[q - 1])
                           \/ t[q - 1] \in {0, 255} /\ size = PayloadLength(t[q])
      BY <1>2
    <3>1. /\ q >= 2
          /\ \/ (s[q - 1] + s[q]) % 256 = 0 /\ size = PayloadLength(s[q - 1])
             \/ s[q - 1] \in {0, 255} /\ size = PayloadLength(s[q])
      BY <1>4 DEF Place
    <3>2. q \in 1..o /\ q - 1 \in 1..o
      BY <1>5, <1>10, <1>11, <3>1
    <3>3. t[q] = s[q] /\ t[q - 1] = s[q - 1]
      BY <1>10, <3>2
    <3> QED
      BY <3>1, <3>3
  <2>3. stage' = "payload" => \E r \in Payload : size' = Len(r) /\ IsNext(r, t, q)'
    <3> SUFFICES ASSUME stage = "payload"
                 PROVE  \E r \in Payload : size' = Len(r) /\ IsNext(r, t, q)'
      BY <1>2
    <3>1. PICK r \in Payload : size = Len(r) /\ IsNext(r, s, q)
      BY <1>4 DEF Place
    <3> DEFINE n == Len(r)
    <3>2. /\ n \in Nat /\ [command |-> command, payload |-> r] \in sent
          /\ n + q <= o /\ \A i \in 1..n : s[i + q] = r[i]
      <4>1. n \in Nat
        BY <3>1, HsuAssumption
      <4> QED
        BY <3>1, <4>1, Zenon DEF IsNext, o
    <3> HIDE DEF n
    <3>3. ASSUME NEW i \in 1..n PROVE t[i + q] = r[i]
      <4>1. i + q \in 1..o
        BY <1>5, <1>10, <3>2
      <4> QED
        BY <1>10, <3>2, <4>1
    <3>4. n + q <= Len(t) /\ [command |-> command', payload |-> r] \in sent'
      BY <1>2, <1>5, <1>10, <1>a, <3>2
    <3>5. IsNext(r, t, q)'
      BY <3>3, <3>4 DEF IsNext, n
    <3> QED
      BY <1>2, <3>1, <3>5
  <2>4. stage' = "checksum" => [command |-> command', payload |-> buf'] \in sent'
    BY <1>2, <1>4 DEF Place
  <2> QED
    BY <1>11, <2>1, <2>2, <2>3, <2>4 DEF Place
<1>13. IsStream(t, sent)'
  BY <1>7 DEF IsStream, IsResponse, t
<1>14. ResponseIntact'
  BY <1>2 DEF HsuInv, ResponseIntact
<1> QED
  BY <1>1, <1>2, <1>3, <1>5, <1>12, <1>13, <1>14 DEF HsuInv

\* A byte arrives, or nothing happens.
LEMMA ArrivePlace ==
    ASSUME HsuInv, Arrive \/ UNCHANGED hsuVars
    PROVE  HsuInv'
<1>1. HsuTypeInv' /\ rx \in Seq(Byte) /\ line \in Seq(Byte)
  BY HsuTypeStep DEF HsuInv, HsuNext, HsuTypeInv
<1>2. UNCHANGED <<stage, command, size, buf, ret, written, busy, sent>>
  BY DEF Arrive, hsuVars, callVars, chipVars
<1>3. \/ line # <<>> /\ rx' = Append(rx, Head(line)) /\ line' = Tail(line)
      \/ UNCHANGED <<rx, line>>
  BY DEF Arrive, hsuVars
<1>4. PICK s, q : q \in Nat /\ IsStream(s, sent) /\ Place(s, q)
  BY DEF HsuInv
<1>5. s \in Seq(Byte) /\ q \in Nat /\ Left(rx, line, s, q)
  BY <1>4 DEF IsStream, Place
<1>6. Left(rx', line', s, q)
  BY <1>1, <1>3, <1>5, LeftArrive
<1>7. Place(s, q)'
  <2>1. \A p : IsNext(p, s, q)' <=> IsNext(p, s, q)
    BY <1>2 DEF IsNext
  <2> QED
    BY <1>2, <1>4, <1>6, <2>1, Zenon DEF Place
<1>8. IsStream(s, sent)'
  BY <1>2, <1>4 DEF IsStream, IsResponse
<1>9. ResponseIntact'
  BY <1>2 DEF HsuInv, ResponseIntact
<1> QED
  BY <1>1, <1>2, <1>5, <1>7, <1>8, <1>9 DEF HsuInv

\* ResponseIntact: when a call of readResponse returns a response, the caller's
\* buffer holds the whole payload of one the chip sent to that command code, for
\* any payloads without the like of a header and any buffer sizes: although
\* every read but that of the payload takes a part of its bytes for all of them,
\* and although bytes of earlier replies arrive while a later one is awaited.
\* The argument: whatever the call has skipped, it gets past the check of the
\* command only at the header of a response, and then has its length.
THEOREM ResponsesIntact == HsuSpec => []ResponseIntact
<1>0. CASE ~Unambiguous
  <2>1. ResponseIntact
    BY <1>0 DEF ResponseIntact
  <2> QED
    BY <2>1, PTL
<1> SUFFICES ASSUME Unambiguous PROVE HsuSpec => []ResponseIntact
  BY <1>0
<1>1. HsuInit => HsuInv
  <2> SUFFICES ASSUME HsuInit PROVE HsuInv
    OBVIOUS
  <2>1. stage = "idle" /\ written = 0 /\ ~(written > 0) /\ ~busy /\ rx = <<>> /\ line = <<>>
    BY DEF HsuInit
  <2>2. IsStream(<<>>, sent)
    <3>1. <<>> \in Seq(Byte) /\ Len(<<>>) = 0 /\ 3..(0 - 1) = {}
      OBVIOUS
    <3> QED
      BY <3>1 DEF IsStream
  <2>3. Left(<<>>, <<>>, <<>>, 0)
    <3>1. Len(<<>>) = 0 /\ 1..0 = {} /\ 0 + 0 = 0 - 0
      OBVIOUS
    <3> QED
      BY <3>1 DEF Left
  <2>4. Place(<<>>, 0)
    BY <2>1, <2>3 DEF Place
  <2> QED
    BY <2>1, <2>2, <2>4, HsuTypeStart DEF HsuInv, ResponseIntact
<1>2. HsuInv /\ [HsuNext]_hsuVars => HsuInv'
  <2> SUFFICES ASSUME HsuInv, [HsuNext]_hsuVars PROVE HsuInv'
    OBVIOUS
  <2>1. ASSUME NEW c \in Command, writeCommand(c) PROVE HsuInv'
    BY <2>1, WritePlace
  <2>2. ASSUME NEW p \in Payload, Answer(p) PROVE HsuInv'
    BY <2>2, AnswerPlace
  <2>3. CASE Receive \/ ReceiveShort
    BY <2>3, ReceivePlace, ReceiveShortPlace
  <2>4. CASE Arrive \/ UNCHANGED hsuVars
    BY <2>4, ArrivePlace
  <2> QED
    BY <2>1, <2>2, <2>3, <2>4 DEF HsuNext
<1>3. HsuInv => ResponseIntact
  BY DEF HsuInv
<1> QED
  BY <1>1, <1>2, <1>3, PTL DEF HsuSpec

=============================================================================
