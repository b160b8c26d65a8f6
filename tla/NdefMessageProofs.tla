-------------------------- MODULE NdefMessageProofs --------------------------
(***************************************************************************)
(* Proofs about the messages of the tag: Encode lays out the records of a  *)
(* message one after the other, with headers that the decoder reads back,  *)
(* so Decode undoes it, for any records and wherever the bytes are.        *)
(***************************************************************************)
EXTENDS NdefMessage, SequenceTheorems, WellFoundedInduction, TLAPS

-----------------------------------------------------------------------------
(* Induction *)

\* Induction, for a set in place of a predicate
LEMMA Induction ==
    ASSUME NEW T, 0 \in T, \A n \in Nat : n \in T => n + 1 \in T
    PROVE  Nat \subseteq T
<1> DEFINE U == Nat \ T
           R == OpToRel(<, Nat)
<1> SUFFICES ASSUME U # {} PROVE FALSE
  OBVIOUS
<1>1. IsWellFoundedOn(R, Nat)
  BY NatLessThanWellFounded
<1>2. PICK n \in U : \A j \in U : <<j, n>> \notin R
  <2>1. U \subseteq Nat
    OBVIOUS
  <2> HIDE DEF U, R
  <2> QED
    BY <1>1, <2>1, WFMin
<1>3. n \in Nat /\ n # 0 /\ n - 1 \in Nat /\ n - 1 \notin T
  OBVIOUS
<1>4. <<n - 1, n>> \in R
  BY <1>3 DEF OpToRel
<1> QED
  BY <1>2, <1>3, <1>4

\* F[i] gives the i-th value of a sequence of values in S from the one before it.
IsRule(S, F) == F \in [Nat -> [S -> S]]

Iterates(S, a, F, n, f) ==
    f \in [0..n -> S] /\ f[0] = a /\ \A i \in 1..n : f[i] = F[i][f[i - 1]]

\* A recursive function has a value: there is a function that satisfies the
\* equation that defines it.
LEMMA Recursion ==
    ASSUME NEW S, NEW a \in S, NEW F, IsRule(S, F)
    PROVE  \A n \in Nat : \E f : Iterates(S, a, F, n, f)
<1> DEFINE T == {m \in Nat : \E f : Iterates(S, a, F, m, f)}
<1>1. 0 \in T
  <2>1. Iterates(S, a, F, 0, [i \in 0..0 |-> a])
    BY DEF Iterates
  <2> QED
    BY <2>1
<1>2. ASSUME NEW m \in Nat, m \in T PROVE m + 1 \in T
  <2>1. PICK f : Iterates(S, a, F, m, f)
    BY <1>2
  <2> DEFINE g == [i \in 0..(m + 1) |-> IF i = m + 1 THEN F[m + 1][f[m]] ELSE f[i]]
  <2>2. Iterates(S, a, F, m + 1, g)
    <3>1. f \in [0..m -> S] /\ f[0] = a /\ \A i \in 1..m : f[i] = F[i][f[i - 1]]
      BY <2>1 DEF Iterates
    <3>2. F[m + 1][f[m]] \in S
      BY <3>1 DEF IsRule
    <3>3. g \in [0..(m + 1) -> S]
      BY <3>1, <3>2
    <3>4. g[0] = a
      BY <3>1
    <3>5. ASSUME NEW i \in 1..(m + 1) PROVE g[i] = F[i][g[i - 1]]
      <4>1. CASE i = m + 1
        BY <4>1
      <4>2. CASE i # m + 1
        <5>1. i \in 1..m /\ i - 1 \in 0..m
          BY <4>2
        <5>2. g[i] = f[i] /\ g[i - 1] = f[i - 1]
          BY <5>1
        <5> QED
          BY <3>1, <5>1, <5>2
      <4> QED
        BY <4>1, <4>2
    <3> QED
      BY <3>3, <3>4, <3>5 DEF Iterates
  <2> HIDE DEF g
  <2> QED
    BY <2>2
<1> HIDE DEF T
<1>3. Nat \subseteq T
  BY <1>1, <1>2, Induction
<1> QED
  BY <1>3 DEF T

-----------------------------------------------------------------------------
(* Sequences of numbers *)

IsNumbers(s, m) == s \in Seq(Nat) /\ Len(s) = m

\* u is s, of length m, followed by t, of length n.
Joins(u, s, m, t, n) ==
    /\ u \in Seq(Nat)
    /\ Len(u) = n + m
    /\ \A i \in 1..m : u[i] = s[i]
    /\ \A i \in 1..n : u[m + i] = t[i]

\* The places of the elements of a concatenation.
LEMMA Joined ==
    ASSUME NEW s, NEW m \in Nat, IsNumbers(s, m), NEW t, NEW n \in Nat, IsNumbers(t, n)
    PROVE  Joins(s \o t, s, m, t, n) /\ IsNumbers(s \o t, m + n)
<1>1. s \in Seq(Nat) /\ t \in Seq(Nat) /\ Len(s) = m /\ Len(t) = n
  BY DEF IsNumbers
<1>2. s \o t \in Seq(Nat) /\ Len(s \o t) = m + n
  BY <1>1, ConcatProperties
<1>3. \A i \in 1..(m + n) : (s \o t)[i] = IF i <= m THEN s[i] ELSE t[i - m]
  <2>1. \A i \in 1..(Len(s) + Len(t)) :
            (s \o t)[i] = IF i <= Len(s) THEN s[i] ELSE t[i - Len(s)]
    BY <1>1, ConcatProperties
  <2> QED
    BY <1>1, <2>1
<1>4. ASSUME NEW i \in 1..m PROVE (s \o t)[i] = s[i]
  <2>1. i \in 1..(m + n) /\ i <= m
    OBVIOUS
  <2> QED
    BY <1>3, <2>1
<1>5. ASSUME NEW i \in 1..n PROVE (s \o t)[m + i] = t[i]
  <2>1. m + i \in 1..(m + n) /\ ~(m + i <= m) /\ (m + i) - m = i
    OBVIOUS
  <2> QED
    BY <1>3, <2>1
<1>6. n + m = m + n
  OBVIOUS
<1> QED
  BY <1>2, <1>4, <1>5, <1>6 DEF Joins, IsNumbers

\* The places of the fields of a record: header, type, id, payload
Layout(r, h, nh, t, nt, i, ni, p, np) ==
    /\ r \in Seq(Nat)
    /\ Len(r) = nh + nt + ni + np
    /\ \A x \in 1..nh : r[x] = h[x]
    /\ \A x \in 1..nt : r[nh + x] = t[x]
    /\ \A x \in 1..ni : r[nh + nt + x] = i[x]
    /\ \A x \in 1..np : r[nh + nt + ni + x] = p[x]

\* The four parts of a record, joined, are laid out one after the other.
LEMMA LaidOut ==
    ASSUME NEW h, NEW nh \in Nat, IsNumbers(h, nh), NEW t, NEW nt \in Nat, IsNumbers(t, nt),
           NEW i, NEW ni \in Nat, IsNumbers(i, ni), NEW p, NEW np \in Nat, IsNumbers(p, np)
    PROVE  Layout(h \o t \o i \o p, h, nh, t, nt, i, ni, p, np)
<1> DEFINE u == h \o t
           v == u \o i
           w == v \o p
<1>1. Joins(u, h, nh, t, nt) /\ IsNumbers(u, nh + nt)
  BY Joined
<1> HIDE DEF u
<1>2. Joins(v, u, nh + nt, i, ni) /\ IsNumbers(v, nh + nt + ni)
  <2>1. nh + nt \in Nat
    OBVIOUS
  <2> QED
    BY <1>1, <2>1, Joined
<1> HIDE DEF v
<1>3. Joins(w, v, nh + nt + ni, p, np)
  <2>1. nh + nt + ni \in Nat
    OBVIOUS
  <2> QED
    BY <1>2, <2>1, Joined
<1> HIDE DEF w
<1>4. w \in Seq(Nat) /\ Len(w) = nh + nt + ni + np
  BY <1>3 DEF Joins
<1>5. \A x \in 1..(nh + nt + ni) : w[x] = v[x]
  BY <1>3 DEF Joins
<1>6. \A x \in 1..(nh + nt) : w[x] = u[x]
  <2>1. \A x \in 1..(nh + nt) : v[x] = u[x]
    BY <1>2 DEF Joins
  <2> QED
    BY <1>5, <2>1
<1>7. \A x \in 1..nh : w[x] = h[x]
  <2>1. \A x \in 1..nh : u[x] = h[x]
    BY <1>1 DEF Joins
  <2> QED
    BY <1>6, <2>1
<1>8. \A x \in 1..nt : w[nh + x] = t[x]
  <2>1. \A x \in 1..nt : u[nh + x] = t[x]
    BY <1>1 DEF Joins
  <2> QED
    BY <1>6, <2>1
<1>9. \A x \in 1..ni : w[nh + nt + x] = i[x]
  <2>1. \A x \in 1..ni : v[nh + nt + x] = i[x]
    BY <1>2 DEF Joins
  <2> QED
    BY <1>5, <2>1
<1>10. \A x \in 1..np : w[nh + nt + ni + x] = p[x]
  BY <1>3 DEF Joins
<1>11. Layout(w, h, nh, t, nt, i, ni, p, np)
  BY <1>4, <1>7, <1>8, <1>9, <1>10 DEF Layout
<1> QED
  BY <1>11 DEF u, v, w

-----------------------------------------------------------------------------
(* The encoder *)

Record == [tnf : 0..7, type : Seq(0..255), id : Seq(0..255), payload : Seq(0..255)]

\* A record's flags and lengths
RecordHeader(r, first, last) ==
    <<getTnfByte(r, first, last), Len(r.type)>> \o LengthField(Len(r.payload))
        \o (IF r.id = <<>> THEN <<>> ELSE <<Len(r.id)>>)

\* The lengths and the fields of a record are numbers.
LEMMA RecordParts ==
    ASSUME NEW r \in Record
    PROVE  /\ Len(r.type) \in Nat /\ Len(r.id) \in Nat /\ Len(r.payload) \in Nat
           /\ IsNumbers(r.type, Len(r.type)) /\ IsNumbers(r.id, Len(r.id))
           /\ IsNumbers(r.payload, Len(r.payload))
           /\ r.id = <<>> <=> Len(r.id) = 0
<1>1. r.type \in Seq(0..255) /\ r.id \in Seq(0..255) /\ r.payload \in Seq(0..255)
  BY DEF Record
<1>2. r.type \in Seq(Nat) /\ r.id \in Seq(Nat) /\ r.payload \in Seq(Nat)
  <2>1. 0..255 \subseteq Nat
    OBVIOUS
  <2>2. ASSUME NEW s \in Seq(0..255) PROVE s \in Seq(Nat)
    BY <2>1, SeqMonotonic, Zenon
  <2> QED
    BY <1>1, <2>2
<1> QED
  BY <1>1, <1>2 DEF IsNumbers

\* Flags in bits of their own
LEMMA FlagBits ==
    ASSUME NEW x \in 0..7, NEW a \in {0, 128}, NEW b \in {0, 64}, NEW d \in {0, 8}
    PROVE  /\ x + a + b + 16 + d \in 0..255
           /\ ((x + a + b + 16 + d) \div 16) % 2 = 1
           /\ ((x + a + b + 16 + d) \div 64) % 2 = 1 <=> b = 64
           /\ ((x + a + b + 16 + d) \div 8) % 2 = 1 <=> d = 8
           /\ (x + a + b + 16 + d) % 8 = x
<1>1. CASE a = 0 /\ b = 0 /\ d = 0
  BY <1>1
<1>2. CASE a = 0 /\ b = 0 /\ d = 8
  BY <1>2
<1>3. CASE a = 0 /\ b = 64 /\ d = 0
  BY <1>3
<1>4. CASE a = 0 /\ b = 64 /\ d = 8
  BY <1>4
<1>5. CASE a = 128 /\ b = 0 /\ d = 0
  BY <1>5
<1>6. CASE a = 128 /\ b = 0 /\ d = 8
  BY <1>6
<1>7. CASE a = 128 /\ b = 64 /\ d = 0
  BY <1>7
<1>8. CASE a = 128 /\ b = 64 /\ d = 8
  BY <1>8
<1> QED
  BY <1>1, <1>2, <1>3, <1>4, <1>5, <1>6, <1>7, <1>8

\* The flags of a short record
IsFlags(flags, r, last) ==
    /\ flags \in 0..255
    /\ Bit(flags, 16)
    /\ Bit(flags, 64) <=> last
    /\ Bit(flags, 8) <=> r.id # <<>>
    /\ flags % 8 = r.tnf

\* getTnfByte sets in the first byte the flags the decoder tests, and the TNF.
LEMMA TnfByte ==
    ASSUME NEW r \in Record, NEW first \in BOOLEAN, NEW last \in BOOLEAN
    PROVE  /\ getTnfByte(r, first, last) \in Nat
           /\ Len(r.payload) <= 255 => IsFlags(getTnfByte(r, first, last), r, last)
<1> DEFINE x == r.tnf
           a == Flag(first, 128)
           b == Flag(last, 64)
           c == Flag(Len(r.payload) <= 255, 16)
           d == Flag(r.id # <<>>, 8)
<1>1. x \in 0..7
  BY DEF Record
<1>2. a \in {0, 128} /\ b \in {0, 64} /\ c \in {0, 16} /\ d \in {0, 8}
  BY DEF Flag
<1>3. (b = 64 <=> last) /\ (Len(r.payload) <= 255 => c = 16) /\ (d = 8 <=> r.id # <<>>)
  BY DEF Flag
<1>4. getTnfByte(r, first, last) = x + a + b + c + d
  BY DEF getTnfByte
<1> HIDE DEF x, a, b, c, d
<1>5. x + a + b + c + d \in Nat
  BY <1>1, <1>2
<1>6. ASSUME c = 16 PROVE IsFlags(x + a + b + c + d, r, last)
  <2>1. /\ x + a + b + 16 + d \in 0..255
        /\ ((x + a + b + 16 + d) \div 16) % 2 = 1
        /\ ((x + a + b + 16 + d) \div 64) % 2 = 1 <=> b = 64
        /\ ((x + a + b + 16 + d) \div 8) % 2 = 1 <=> d = 8
        /\ (x + a + b + 16 + d) % 8 = x
    BY <1>1, <1>2, FlagBits
  <2> QED
    BY <1>3, <1>6, <2>1 DEF IsFlags, Bit, x
<1> QED
  BY <1>3, <1>4, <1>5, <1>6

\* A header, and that of a short record
IsHeader(h, r, first, last) ==
    /\ h \in Seq(Nat)
    /\ Len(h) \in Nat \ 0..2
    /\ Len(r.payload) <= 255 =>
          /\ h[1] = getTnfByte(r, first, last)
          /\ h[2] = Len(r.type)
          /\ h[3] = Len(r.payload)
          /\ r.id = <<>> => Len(h) = 3
          /\ r.id # <<>> => Len(h) = 4 /\ h[4] = Len(r.id)

\* The header of a record: its flags, the lengths of its parts, each in its place.
LEMMA HeaderNumbers ==
    ASSUME NEW r \in Record, NEW first \in BOOLEAN, NEW last \in BOOLEAN
    PROVE  IsHeader(RecordHeader(r, first, last), r, first, last)
<1> DEFINE g == getTnfByte(r, first, last)
           t == Len(r.type)
           i == Len(r.id)
           p == Len(r.payload)
<1>1. g \in Nat /\ t \in Nat /\ i \in Nat /\ p \in Nat
  <2>1. g \in Nat
    BY TnfByte
  <2>2. t \in Nat /\ i \in Nat /\ p \in Nat
    BY RecordParts
  <2> QED
    BY <2>1, <2>2
<1> DEFINE a == <<g, t>>
           l == LengthField(p)
           e == IF r.id = <<>> THEN <<>> ELSE <<i>>
           u == a \o l
           h == u \o e
<1>2. RecordHeader(r, first, last) = h
  BY DEF RecordHeader
<1> HIDE DEF g, t, i, p
<1>3. IsNumbers(a, 2) /\ a[1] = g /\ a[2] = t
  BY <1>1 DEF IsNumbers
<1>4. PICK n \in {1, 4} : IsNumbers(l, n) /\ (p <= 255 => n = 1 /\ l[1] = p)
  <2>1. CASE p <= 255
    BY <1>1, <2>1 DEF LengthField, IsNumbers
  <2>2. CASE ~(p <= 255)
    <3>1. l = <<0, 0, (p \div 256) % 256, p % 256>>
      BY <2>2 DEF LengthField
    <3>2. (p \div 256) % 256 \in Nat /\ p % 256 \in Nat
      BY <1>1
    <3>3. IsNumbers(l, 4)
      BY <3>1, <3>2 DEF IsNumbers
    <3> QED
      BY <2>2, <3>3
  <2> QED
    BY <2>1, <2>2
<1>5. PICK k \in {0, 1} : /\ IsNumbers(e, k)
                          /\ r.id = <<>> => k = 0
                          /\ r.id # <<>> => k = 1 /\ e[1] = i
  BY <1>1 DEF IsNumbers
<1> HIDE DEF a, l, e
<1>6. n \in Nat /\ k \in Nat /\ 2 + n \in Nat
  OBVIOUS
<1>7. Joins(u, a, 2, l, n) /\ IsNumbers(u, 2 + n)
  BY <1>3, <1>4, <1>6, Joined
<1> HIDE DEF u
<1>8. Joins(h, u, 2 + n, e, k)
  BY <1>5, <1>6, <1>7, Joined
<1> HIDE DEF h
<1>9. h \in Seq(Nat) /\ Len(h) = k + (2 + n)
  BY <1>8 DEF Joins
<1>10. h[1] = g /\ h[2] = t /\ h[3] = l[1]
  <2>1. u[1] = g /\ u[2] = t /\ u[2 + 1] = l[1]
    BY <1>3, <1>6, <1>7 DEF Joins
  <2>2. h[1] = u[1] /\ h[2] = u[2] /\ h[3] = u[3]
    BY <1>6, <1>8 DEF Joins
  <2> QED
    BY <2>1, <2>2
<1>11. k = 1 => h[2 + n + 1] = e[1]
  BY <1>6, <1>8 DEF Joins
<1>12. Len(h) \in Nat \ 0..2
  BY <1>6, <1>9
<1>13. ASSUME p <= 255
       PROVE  /\ h[3] = p
              /\ r.id = <<>> => Len(h) = 3
              /\ r.id # <<>> => Len(h) = 4 /\ h[4] = i
  BY <1>4, <1>5, <1>9, <1>10, <1>11, <1>13
<1>14. IsHeader(h, r, first, last)
  BY <1>9, <1>10, <1>12, <1>13 DEF IsHeader, g, t, p, i
<1> QED
  BY <1>2, <1>14

\* The places of the fields in the bytes of a record.
LEMMA RecordLayout ==
    ASSUME NEW r \in Record, NEW first \in BOOLEAN, NEW last \in BOOLEAN
    PROVE  LET h == RecordHeader(r, first, last)
           IN  Layout(EncodeRecord(r, first, last), h, Len(h), r.type, Len(r.type),
                      r.id, Len(r.id), r.payload, Len(r.payload))
<1> DEFINE h == RecordHeader(r, first, last)
<1>1. EncodeRecord(r, first, last) = h \o r.type \o r.id \o r.payload
  BY DEF EncodeRecord, RecordHeader
<1>2. IsNumbers(h, Len(h)) /\ Len(h) \in Nat
  BY HeaderNumbers DEF IsHeader, IsNumbers
<1> HIDE DEF h
<1>3. Layout(h \o r.type \o r.id \o r.payload, h, Len(h), r.type, Len(r.type),
             r.id, Len(r.id), r.payload, Len(r.payload))
  BY <1>2, RecordParts, LaidOut
<1>4. Layout(EncodeRecord(r, first, last), h, Len(h), r.type, Len(r.type),
             r.id, Len(r.id), r.payload, Len(r.payload))
  BY <1>1, <1>3
<1> QED
  BY <1>4 DEF h

\* A record has at least its three bytes of header, and its payload.
IsEncoded(e, r) ==
    /\ e \in Seq(Nat)
    /\ Len(e) \in Nat
    /\ Len(e) >= 3 + Len(r.payload)
    /\ Len(e) <= 255 => \A x \in DOMAIN e : e[x] \in 0..255

\* Record.encode gives numbers, and bytes if there are at most 255 of them.
LEMMA RecordBytes ==
    ASSUME NEW r \in Record, NEW first \in BOOLEAN, NEW last \in BOOLEAN
    PROVE  IsEncoded(EncodeRecord(r, first, last), r)
<1> DEFINE h == RecordHeader(r, first, last)
           e == EncodeRecord(r, first, last)
           nh == Len(h)
           nt == Len(r.type)
           ni == Len(r.id)
           np == Len(r.payload)
<1>1. Layout(e, h, nh, r.type, nt, r.id, ni, r.payload, np)
  BY RecordLayout
<1>2. IsHeader(h, r, first, last)
  BY HeaderNumbers
<1>3. nt \in Nat /\ ni \in Nat /\ np \in Nat
  BY RecordParts
<1>4. nh \in Nat \ 0..2
  BY <1>2 DEF IsHeader
<1>5. /\ \A x \in 1..nt : r.type[x] \in 0..255
      /\ \A x \in 1..ni : r.id[x] \in 0..255
      /\ \A x \in 1..np : r.payload[x] \in 0..255
  <2>1. r.type \in Seq(0..255) /\ r.id \in Seq(0..255) /\ r.payload \in Seq(0..255)
    BY DEF Record
  <2>2. ASSUME NEW s \in Seq(0..255), NEW x \in 1..Len(s) PROVE s[x] \in 0..255
    BY ElementOfSeq
  <2> QED
    BY <2>1, <2>2
<1> DEFINE f == getTnfByte(r, first, last)
<1>a. np <= 255 => IsFlags(f, r, last)
  BY TnfByte
<1>b. np <= 255 => /\ h[1] = f /\ h[2] = nt /\ h[3] = np
                   /\ nh = 3 \/ (nh = 4 /\ h[4] = ni)
  BY <1>2 DEF IsHeader
<1> HIDE DEF h, e, f, nh, nt, ni, np
<1>6. ASSUME nh + nt + ni + np <= 255
      PROVE  \A x \in 1..nh : h[x] \in 0..255
  <2>1. nt \in 0..255 /\ ni \in 0..255 /\ np \in 0..255 /\ np <= 255
    BY <1>3, <1>4, <1>6
  <2>2. h[1] \in 0..255
    BY <1>a, <1>b, <2>1 DEF IsFlags
  <2>3. h[2] \in 0..255 /\ h[3] \in 0..255 /\ (nh = 3 \/ (nh = 4 /\ h[4] \in 0..255))
    BY <1>b, <2>1
  <2> QED
    BY <2>2, <2>3
<1>7. /\ e \in Seq(Nat)
      /\ Len(e) = nh + nt + ni + np
      /\ \A x \in 1..nh : e[x] = h[x]
      /\ \A x \in 1..nt : e[nh + x] = r.type[x]
      /\ \A x \in 1..ni : e[nh + nt + x] = r.id[x]
      /\ \A x \in 1..np : e[nh + nt + ni + x] = r.payload[x]
  BY <1>1 DEF Layout
<1>8. Len(e) \in Nat /\ Len(e) >= 3 + np
  BY <1>3, <1>4, <1>7
<1>9. ASSUME nh + nt + ni + np <= 255, NEW x \in 1..(nh + nt + ni + np)
      PROVE  e[x] \in 0..255
  <2>1. CASE x \in 1..nh
    BY <1>6, <1>7, <1>9, <2>1
  <2>2. ASSUME NEW y \in 1..nt, nh + y = x PROVE e[x] \in 0..255
    <3>1. e[nh + y] = r.type[y] /\ r.type[y] \in 0..255
      BY <1>5, <1>7
    <3> QED
      BY <2>2, <3>1
  <2>3. ASSUME NEW y \in 1..ni, nh + nt + y = x PROVE e[x] \in 0..255
    <3>1. e[nh + nt + y] = r.id[y] /\ r.id[y] \in 0..255
      BY <1>5, <1>7
    <3> QED
      BY <2>3, <3>1
  <2>4. ASSUME NEW y \in 1..np, nh + nt + ni + y = x PROVE e[x] \in 0..255
    <3>1. e[nh + nt + ni + y] = r.payload[y] /\ r.payload[y] \in 0..255
      BY <1>5, <1>7
    <3> QED
      BY <2>4, <3>1
  <2>5. nh \in Nat
    BY <1>4
  <2>6. \/ x \in 1..nh
        \/ x - nh \in 1..nt /\ nh + (x - nh) = x
        \/ x - nh - nt \in 1..ni /\ nh + nt + (x - nh - nt) = x
        \/ x - nh - nt - ni \in 1..np /\ nh + nt + ni + (x - nh - nt - ni) = x
    BY <1>3, <2>5
  <2> QED
    BY <2>1, <2>2, <2>3, <2>4, <2>6
<1>10. DOMAIN e = 1..(nh + nt + ni + np)
  BY <1>7
<1>11. Len(e) <= 255 => \A x \in DOMAIN e : e[x] \in 0..255
  <2>1. Len(e) = nh + nt + ni + np
    BY <1>7
  <2> QED
    BY <1>9, <1>10, <2>1
<1>12. e \in Seq(Nat)
  BY <1>7
<1>13. IsEncoded(e, r)
  BY <1>8, <1>11, <1>12 DEF IsEncoded, np
<1> QED
  BY <1>13 DEF e

-----------------------------------------------------------------------------
(* The decoder *)

\* The bytes e are in the data, from index on.
At(data, index, e) ==
    /\ index + Len(e) <= Len(data)
    /\ \A x \in 1..Len(e) : data[index + x] = e[x]

\* What RecordAt finds where a record was encoded
Found(r, last, next) == [record |-> r, me |-> last, next |-> next]

\* A round of the decoder, at the bytes of a short record, finds the record.
LEMMA RecordRead ==
    ASSUME NEW data \in Seq(Nat), NEW index \in Nat, NEW r \in Record,
           NEW first \in BOOLEAN, NEW last \in BOOLEAN, Len(r.payload) <= 255,
           At(data, index, EncodeRecord(r, first, last))
    PROVE  RecordAt(data, index) = Found(r, last, index + Len(EncodeRecord(r, first, last)))
<1> DEFINE h == RecordHeader(r, first, last)
           e == EncodeRecord(r, first, last)
           f == getTnfByte(r, first, last)
           nh == Len(h)
           nt == Len(r.type)
           ni == Len(r.id)
           np == Len(r.payload)
           ne == Len(e)
           nd == Len(data)
<1>1. Layout(e, h, nh, r.type, nt, r.id, ni, r.payload, np)
  BY RecordLayout
<1>2. IsHeader(h, r, first, last)
  BY HeaderNumbers
<1>3. nt \in Nat /\ ni \in Nat /\ np \in Nat /\ (r.id = <<>> <=> ni = 0)
  BY RecordParts
<1>4. IsFlags(f, r, last)
  BY TnfByte
<1>5. /\ h[1] = f /\ h[2] = nt /\ h[3] = np
      /\ r.id = <<>> => nh = 3
      /\ r.id # <<>> => nh = 4 /\ h[4] = ni
  BY <1>2 DEF IsHeader
<1>6. nd \in Nat /\ index + ne <= nd /\ \A x \in 1..ne : data[index + x] = e[x]
  BY DEF At
<1> HIDE DEF h, e, f, nh, nt, ni, np, ne, nd
<1>7. /\ ne = nh + nt + ni + np
      /\ \A x \in 1..nh : e[x] = h[x]
      /\ \A x \in 1..nt : e[nh + x] = r.type[x]
      /\ \A x \in 1..ni : e[nh + nt + x] = r.id[x]
      /\ \A x \in 1..np : e[nh + nt + ni + x] = r.payload[x]
  BY <1>1 DEF Layout, ne
<1>8. nh \in Nat /\ ne \in Nat /\ nh >= 3 /\ nh <= 4 /\ ne = nh + nt + ni + np
  <2>1. nh \in Nat /\ nh >= 3 /\ nh <= 4
    BY <1>5
  <2>2. ne = nh + nt + ni + np
    BY <1>7
  <2> QED
    BY <1>3, <2>1, <2>2
<1>9. \A x \in 1..ne : ByteAt(data, index + x - 1) = e[x]
  <2> SUFFICES ASSUME NEW x \in 1..ne PROVE ByteAt(data, index + x - 1) = e[x]
    OBVIOUS
  <2>1. nd \in Nat /\ index + ne <= nd
    BY <1>6
  <2>2. x \in Int /\ index + x - 1 < nd /\ (index + x - 1) + 1 = index + x
    BY <1>8, <2>1
  <2> QED
    BY <1>6, <2>2 DEF ByteAt, nd
<1>10. /\ ByteAt(data, index) = f /\ ByteAt(data, index + 1) = nt /\ ByteAt(data, index + 2) = np
       /\ r.id # <<>> => ByteAt(data, index + 2 + 1) = ni
  <2>1. 1 \in 1..ne /\ 2 \in 1..ne /\ 3 \in 1..ne /\ (nh = 4 => 4 \in 1..ne)
    BY <1>3, <1>8
  <2>2. index + 1 - 1 = index /\ index + 2 - 1 = index + 1 /\ index + 3 - 1 = index + 2
        /\ index + 4 - 1 = index + 2 + 1
    OBVIOUS
  <2>3. ByteAt(data, index) = e[1] /\ ByteAt(data, index + 1) = e[2] /\ ByteAt(data, index + 2) = e[3]
        /\ (nh = 4 => ByteAt(data, index + 2 + 1) = e[4])
    BY <1>9, <2>1, <2>2
  <2>4. e[1] = h[1] /\ e[2] = h[2] /\ e[3] = h[3] /\ (nh = 4 => e[4] = h[4])
    BY <1>7, <1>8
  <2> QED
    BY <1>5, <2>3, <2>4
<1>11. Bytes(data, index + nh, nt) = r.type
  <2>1. ASSUME NEW k \in 1..nt PROVE ByteAt(data, index + nh + k - 1) = r.type[k]
    <3>1. nh + k \in 1..ne /\ index + (nh + k) - 1 = index + nh + k - 1
      BY <1>3, <1>8
    <3> QED
      BY <1>7, <1>9, <3>1
  <2>2. r.type = [k \in 1..nt |-> r.type[k]]
    BY DEF Record, nt
  <2> QED
    BY <2>1, <2>2 DEF Bytes
<1>12. Bytes(data, index + nh + nt, ni) = r.id
  <2>1. ASSUME NEW k \in 1..ni PROVE ByteAt(data, index + nh + nt + k - 1) = r.id[k]
    <3>1. nh + nt + k \in 1..ne /\ index + (nh + nt + k) - 1 = index + nh + nt + k - 1
      BY <1>3, <1>8
    <3> QED
      BY <1>7, <1>9, <3>1
  <2>2. r.id = [k \in 1..ni |-> r.id[k]]
    BY DEF Record, ni
  <2> QED
    BY <2>1, <2>2 DEF Bytes
<1>13. Bytes(data, index + nh + nt + ni, np) = r.payload
  <2>1. ASSUME NEW k \in 1..np PROVE ByteAt(data, index + nh + nt + ni + k - 1) = r.payload[k]
    <3>1. /\ nh + nt + ni + k \in 1..ne
          /\ index + (nh + nt + ni + k) - 1 = index + nh + nt + ni + k - 1
      BY <1>3, <1>8
    <3> QED
      BY <1>7, <1>9, <3>1
  <2>2. r.payload = [k \in 1..np |-> r.payload[k]]
    BY DEF Record, np
  <2> QED
    BY <2>1, <2>2 DEF Bytes
<1>14. /\ r.id = <<>> => index + 2 + Flag(Bit(f, 8), 1) + 1 = index + nh
       /\ r.id # <<>> => index + 2 + Flag(Bit(f, 8), 1) + 1 = index + nh
  BY <1>4, <1>5 DEF Flag, IsFlags
<1>15. (IF Bit(f, 8) THEN ByteAt(data, index + 2 + 1) ELSE 0) = ni
  BY <1>3, <1>4, <1>10 DEF IsFlags
<1>16. RecordAt(data, index)
         = [record |-> [tnf |-> f % 8, type |-> Bytes(data, index + nh, nt),
                        id |-> Bytes(data, index + nh + nt, ni),
                        payload |-> Bytes(data, index + nh + nt + ni, np)],
            me |-> Bit(f, 64), next |-> index + nh + nt + ni + np]
  BY <1>4, <1>10, <1>14, <1>15, SMTT(60) DEF RecordAt, IsFlags
<1>17. Bit(f, 64) = last
  BY <1>4 DEF IsFlags, Bit
<1>18. r = [tnf |-> f % 8, type |-> r.type, id |-> r.id, payload |-> r.payload]
  BY <1>4 DEF Record, IsFlags
<1>19. index + nh + nt + ni + np = index + ne
  BY <1>3, <1>8
<1>20. RecordAt(data, index) = Found(r, last, index + ne)
  BY <1>11, <1>12, <1>13, <1>16, <1>17, <1>18, <1>19 DEF Found
<1> QED
  BY <1>20 DEF e, ne

-----------------------------------------------------------------------------
(* The bytes of a message *)

\* The bytes of its k-th record
RecordOf(m, k) == EncodeRecord(m[k], k = 1, k = Len(m))

\* So for every record of a message.
LEMMA RecordOfBytes ==
    ASSUME NEW m \in Seq(Record), NEW k \in 1..Len(m)
    PROVE  m[k] \in Record /\ IsEncoded(RecordOf(m, k), m[k])
<1>1. m[k] \in Record
  BY ElementOfSeq
<1>2. (k = 1) \in BOOLEAN /\ (k = Len(m)) \in BOOLEAN
  OBVIOUS
<1> QED
  BY <1>1, <1>2, RecordBytes DEF RecordOf

\* f[k] is what the encoder has after k records.
IsEncoding(m, f) ==
    /\ f \in [0..Len(m) -> Seq(Nat)]
    /\ f[0] = <<>>
    /\ \A k \in 1..Len(m) : f[k] = f[k - 1] \o RecordOf(m, k)
    /\ Encode(m) = f[Len(m)]

\* Encode joins the bytes of the records, one after the other.
LEMMA Encoding ==
    ASSUME NEW m \in Seq(Record)
    PROVE  \E f : IsEncoding(m, f)
<1> DEFINE n == Len(m)
           E(f) == [k \in 0..n |-> IF k = 0 THEN <<>> ELSE f[k - 1] \o RecordOf(m, k)]
           s == CHOOSE f : f = E(f)
           F == [k \in Nat |-> [x \in Seq(Nat) |-> IF k \in 1..n THEN x \o RecordOf(m, k) ELSE x]]
<1>1. n \in Nat /\ \A k \in 1..n : RecordOf(m, k) \in Seq(Nat)
  BY RecordOfBytes DEF IsEncoded
<1>2. PICK f : Iterates(Seq(Nat), <<>>, F, n, f)
  <2>1. IsRule(Seq(Nat), F)
    BY <1>1, ConcatProperties DEF IsRule
  <2>2. <<>> \in Seq(Nat)
    OBVIOUS
  <2> HIDE DEF F, n
  <2> QED
    BY <1>1, <2>1, <2>2, Recursion
<1>3. \A k \in 1..n : f[k] = f[k - 1] \o RecordOf(m, k)
  <2> SUFFICES ASSUME NEW k \in 1..n PROVE f[k] = f[k - 1] \o RecordOf(m, k)
    OBVIOUS
  <2>1. k \in Nat /\ k - 1 \in 0..n
    BY <1>1
  <2>2. f[k - 1] \in Seq(Nat)
    BY <1>2, <2>1 DEF Iterates
  <2>3. F[k][f[k - 1]] = f[k - 1] \o RecordOf(m, k)
    BY <2>1, <2>2
  <2> QED
    BY <1>2, <2>3 DEF Iterates
<1>4. f = E(f)
  BY <1>1, <1>2, <1>3 DEF Iterates
<1>5. s = E(s)
  BY <1>4
<1> HIDE DEF s
<1>6. /\ DOMAIN s = 0..n
      /\ s[0] = <<>>
      /\ \A k \in 1..n : s[k] = s[k - 1] \o RecordOf(m, k)
  <2>1. DOMAIN s = 0..n
    BY <1>5
  <2>2. \A k \in 0..n : s[k] = IF k = 0 THEN <<>> ELSE s[k - 1] \o RecordOf(m, k)
    BY <1>5
  <2>3. 0 \in 0..n /\ \A k \in 1..n : k \in 0..n /\ k # 0
    BY <1>1
  <2> QED
    BY <2>1, <2>2, <2>3
<1> DEFINE T == {k \in Nat : k \in 0..n => s[k] \in Seq(Nat)}
<1>7. 0 \in T
  <2>1. <<>> \in Seq(Nat) /\ 0 \in Nat
    OBVIOUS
  <2> QED
    BY <1>6, <2>1
<1>8. ASSUME NEW k \in Nat, k \in T PROVE k + 1 \in T
  <2> SUFFICES ASSUME k + 1 \in 0..n PROVE s[k + 1] \in Seq(Nat)
    OBVIOUS
  <2>1. k \in 0..n /\ k + 1 \in 1..n /\ (k + 1) - 1 = k
    BY <1>1
  <2>2. s[k + 1] = s[k] \o RecordOf(m, k + 1)
    BY <1>6, <2>1
  <2>3. s[k] \in Seq(Nat) /\ RecordOf(m, k + 1) \in Seq(Nat)
    BY <1>1, <1>8, <2>1
  <2> QED
    BY <2>2, <2>3, ConcatProperties
<1> HIDE DEF T
<1>9. Nat \subseteq T
  BY <1>7, <1>8, Induction
<1>10. s \in [0..n -> Seq(Nat)]
  <2>1. \A k \in 0..n : s[k] \in Seq(Nat)
    BY <1>1, <1>9 DEF T
  <2>2. s = [k \in 0..n |-> s[k]]
    BY <1>5
  <2> QED
    BY <2>1, <2>2
<1>11. Encode(m) = s[n]
  BY DEF Encode, RecordOf, s
<1>12. IsEncoding(m, s)
  BY <1>6, <1>10, <1>11 DEF IsEncoding
<1> QED
  BY <1>12

\* e[k] is where the k-th record ends.
IsEnds(m, e) ==
    /\ e \in [0..Len(m) -> Nat]
    /\ e[0] = 0
    /\ e[Len(m)] = Len(Encode(m))
    /\ \A k \in 1..Len(m) :
          /\ e[k] = e[k - 1] + Len(RecordOf(m, k))
          /\ e[k] <= e[Len(m)]
          /\ At(Encode(m), e[k - 1], RecordOf(m, k))

\* Every record of a message has its bytes between the end of the one before it
\* and its own.
LEMMA EncodeEnds ==
    ASSUME NEW m \in Seq(Record)
    PROVE  Encode(m) \in Seq(Nat) /\ \E e : IsEnds(m, e)
<1> DEFINE n == Len(m)
<1>1. n \in Nat
  OBVIOUS
<1>2. PICK f : IsEncoding(m, f)
  BY Encoding
<1>3. /\ f \in [0..n -> Seq(Nat)]
      /\ f[0] = <<>>
      /\ Encode(m) = f[n]
  BY <1>2 DEF IsEncoding
<1> DEFINE r(k) == RecordOf(m, k)
           e == [k \in 0..n |-> Len(f[k])]
<1>4. ASSUME NEW k \in 1..n
      PROVE  /\ k - 1 \in 0..n /\ k \in 0..n
             /\ f[k - 1] \in Seq(Nat) /\ e[k - 1] = Len(f[k - 1]) /\ e[k - 1] \in Nat
             /\ e[k] = Len(f[k])
             /\ r(k) \in Seq(Nat) /\ Len(r(k)) \in Nat
  <2>1. k - 1 \in 0..n /\ k \in 0..n
    BY <1>1
  <2>2. r(k) \in Seq(Nat) /\ Len(r(k)) \in Nat
    BY RecordOfBytes DEF IsEncoded
  <2>3. f[k - 1] \in Seq(Nat)
    BY <1>3, <2>1
  <2>4. e[k - 1] = Len(f[k - 1]) /\ e[k] = Len(f[k])
    BY <2>1
  <2>5. Len(f[k - 1]) \in Nat
    BY <2>3
  <2> QED
    BY <2>1, <2>2, <2>3, <2>4, <2>5
<1>5. ASSUME NEW k \in 1..n
      PROVE  /\ Joins(f[k], f[k - 1], e[k - 1], r(k), Len(r(k)))
             /\ e[k] = e[k - 1] + Len(r(k))
  <2>1. IsNumbers(f[k - 1], e[k - 1]) /\ IsNumbers(r(k), Len(r(k)))
    BY <1>4 DEF IsNumbers
  <2>2. f[k] = f[k - 1] \o r(k)
    BY <1>2 DEF IsEncoding
  <2> HIDE DEF e, r
  <2>3. /\ Joins(f[k - 1] \o r(k), f[k - 1], e[k - 1], r(k), Len(r(k)))
        /\ IsNumbers(f[k - 1] \o r(k), e[k - 1] + Len(r(k)))
    BY <1>4, <2>1, Joined
  <2> QED
    BY <1>4, <2>2, <2>3 DEF IsNumbers
<1> HIDE DEF e, r
\* What is encoded stays a prefix.
<1>6. ASSUME NEW k \in 0..n
      PROVE  \A d \in Nat : k + d <= n =>
                 e[k] <= e[k + d] /\ \A x \in 1..e[k] : f[k + d][x] = f[k][x]
  <2> DEFINE T == {d \in Nat : k + d <= n =>
                      e[k] <= e[k + d] /\ \A x \in 1..e[k] : f[k + d][x] = f[k][x]}
  <2>0. \A i \in 0..n : e[i] \in Nat
    BY <1>3 DEF e
  <2>1. 0 \in T
    BY <2>0
  <2>2. ASSUME NEW d \in Nat, d \in T PROVE d + 1 \in T
    <3> SUFFICES ASSUME k + (d + 1) <= n
                 PROVE  /\ e[k] <= e[k + (d + 1)]
                        /\ \A x \in 1..e[k] : f[k + (d + 1)][x] = f[k][x]
      OBVIOUS
    <3> DEFINE i == k + (d + 1)
    <3>1. i \in 1..n /\ i - 1 = k + d /\ k + d <= n /\ k + d \in 0..n
      BY <1>1
    <3>2. e[k] <= e[i - 1] /\ \A x \in 1..e[k] : f[i - 1][x] = f[k][x]
      BY <2>2, <3>1
    <3>3. e[i] = e[i - 1] + Len(r(i)) /\ Len(r(i)) \in Nat /\ \A x \in 1..e[i - 1] : f[i][x] = f[i - 1][x]
      BY <1>4, <1>5, <3>1 DEF Joins
    <3> HIDE DEF i
    <3>4. e[k] \in Nat /\ e[i - 1] \in Nat
      BY <2>0, <3>1
    <3>5. e[k] <= e[i] /\ \A x \in 1..e[k] : f[i][x] = f[k][x]
      BY <3>2, <3>3, <3>4
    <3> QED
      BY <3>5 DEF i
  <2> HIDE DEF T
  <2>3. Nat \subseteq T
    BY <2>1, <2>2, Induction
  <2> QED
    BY <2>3 DEF T
<1>7. ASSUME NEW k \in 1..n
      PROVE  e[k] <= e[n] /\ At(f[n], e[k - 1], r(k))
  <2>1. k \in 0..n /\ n - k \in Nat /\ k + (n - k) <= n /\ k + (n - k) = n
    BY <1>1
  <2>2. e[k] <= e[n] /\ \A x \in 1..e[k] : f[n][x] = f[k][x]
    BY <1>6, <2>1
  <2>3. \A x \in 1..Len(r(k)) : f[k][e[k - 1] + x] = r(k)[x]
    BY <1>5 DEF Joins
  <2>4. e[k] = e[k - 1] + Len(r(k)) /\ e[k - 1] \in Nat /\ Len(r(k)) \in Nat
    BY <1>4, <1>5
  <2>5. ASSUME NEW x \in 1..Len(r(k)) PROVE f[n][e[k - 1] + x] = r(k)[x]
    <3>1. e[k - 1] + x \in 1..e[k]
      BY <2>4
    <3> QED
      BY <2>2, <2>3, <3>1
  <2>6. Len(f[n]) = e[n]
    BY <1>1 DEF e
  <2> QED
    BY <2>2, <2>4, <2>5, <2>6 DEF At
<1>8. e \in [0..n -> Nat] /\ e[0] = 0 /\ e[n] = Len(f[n]) /\ f[n] \in Seq(Nat)
  BY <1>1, <1>3 DEF e
<1>9. IsEnds(m, e)
  BY <1>3, <1>5, <1>7, <1>8 DEF IsEnds, r
<1> QED
  BY <1>3, <1>8, <1>9

-----------------------------------------------------------------------------
(* The rounds of the decoder *)

\* A round goes forward.
LEMMA RoundForward ==
    ASSUME NEW data \in Seq(Nat), NEW index \in Nat
    PROVE  RecordAt(data, index).next \in Nat /\ RecordAt(data, index).next > index
<1>1. \A i \in Nat : ByteAt(data, i) \in Nat
  <2> SUFFICES ASSUME NEW i \in Nat, i < Len(data) PROVE data[i + 1] \in Nat
    BY DEF ByteAt
  <2>1. i + 1 \in 1..Len(data)
    OBVIOUS
  <2> QED
    BY <2>1, ElementOfSeq
<1> DEFINE flags == ByteAt(data, index)
           short == Bit(flags, 16)
           b1 == ByteAt(data, index + 1)
           b2 == ByteAt(data, index + 2)
           b3 == ByteAt(data, index + 3)
           b4 == ByteAt(data, index + 4)
           pl == IF short THEN b2 ELSE b1 * 16777216 + b2 * 65536 + b3 * 256 + b4
           le == index + (IF short THEN 2 ELSE 5)
           il == IF Bit(flags, 8) THEN ByteAt(data, le + 1) ELSE 0
           fl == Flag(Bit(flags, 8), 1)
<1>2. RecordAt(data, index).next = le + fl + 1 + b1 + il + pl
  BY SMTT(60) DEF RecordAt
<1>3. b1 \in Nat /\ b2 \in Nat /\ b3 \in Nat /\ b4 \in Nat
  <2>1. index + 1 \in Nat /\ index + 2 \in Nat /\ index + 3 \in Nat /\ index + 4 \in Nat
    OBVIOUS
  <2> QED
    BY <1>1, <2>1
<1>4. le \in Nat /\ le > index
  OBVIOUS
<1>5. il \in Nat
  <2> HIDE DEF le
  <2>1. le + 1 \in Nat
    BY <1>4
  <2> QED
    BY <1>1, <2>1
<1>6. fl \in Nat
  BY DEF Flag
<1>7. pl \in Nat
  <2> HIDE DEF b1, b2, b3, b4
  <2> QED
    BY <1>3
<1> HIDE DEF b1, le, il, fl, pl
<1> QED
  BY <1>2, <1>3, <1>4, <1>5, <1>6, <1>7

\* Does the loop end after the round at this index?
Stops(data, numBytes, index) ==
    LET r == RecordAt(data, index)
    IN  r.me \/ r.next > numBytes \/ r.next > Len(data)

\* The rounds from an index on, given those from later ones
RoundsFrom(data, numBytes, f, index) ==
    LET r == RecordAt(data, index)
    IN  IF Stops(data, numBytes, index) THEN <<r>> ELSE <<r>> \o f[r.next]

IsRounds(data, numBytes, f) ==
    /\ Rounds(data, numBytes) = f[0]
    /\ \A index \in 0..Len(data) : f[index] = RoundsFrom(data, numBytes, f, index)

\* The loop of the decoder has a value: every round goes forward.
LEMMA RoundsExist ==
    ASSUME NEW data \in Seq(Nat), NEW numBytes
    PROVE  \E f : IsRounds(data, numBytes, f)
<1> DEFINE n == Len(data)
           E(f) == [index \in 0..n |-> RoundsFrom(data, numBytes, f, index)]
           s == CHOOSE f : f = E(f)
           P(d, f) == \A index \in (n - d)..n : f[index] = RoundsFrom(data, numBytes, f, index)
           T == {d \in Nat : d <= n => \E f : P(d, f)}
<1>1. n \in Nat
  OBVIOUS
<1>2. ASSUME NEW k \in Int, NEW f, NEW g, NEW index \in Nat, index >= k,
             \A i \in (k + 1)..n : f[i] = g[i]
      PROVE  RoundsFrom(data, numBytes, f, index) = RoundsFrom(data, numBytes, g, index)
  <2> DEFINE next == RecordAt(data, index).next
  <2>1. next \in Nat /\ next > index
    BY RoundForward
  <2>2. CASE Stops(data, numBytes, index)
    BY <2>2 DEF RoundsFrom
  <2>3. CASE ~Stops(data, numBytes, index)
    <3>1. ~(next > n)
      BY <2>3 DEF Stops
    <3> HIDE DEF next
    <3>2. next \in (k + 1)..n
      BY <1>1, <1>2, <2>1, <3>1
    <3>3. f[next] = g[next]
      BY <1>2, <3>2
    <3> QED
      BY <2>3, <3>3 DEF RoundsFrom, next
  <2> QED
    BY <2>2, <2>3
<1> HIDE DEF n
<1>3. 0 \in T
  <2> DEFINE f == [index \in n..n |-> RoundsFrom(data, numBytes, <<>>, index)]
  <2>1. f[n] = RoundsFrom(data, numBytes, <<>>, n)
    BY <1>1
  <2>2. RoundsFrom(data, numBytes, <<>>, n) = RoundsFrom(data, numBytes, f, n)
    <3> DEFINE g == <<>>
    <3>1. \A i \in (n + 1)..n : g[i] = f[i]
      BY <1>1
    <3>2. n \in Int /\ n \in Nat /\ n >= n
      BY <1>1
    <3> HIDE DEF f, g
    <3>3. RoundsFrom(data, numBytes, g, n) = RoundsFrom(data, numBytes, f, n)
      BY <1>2, <3>1, <3>2
    <3> QED
      BY <3>3 DEF g
  <2> HIDE DEF f
  <2>3. P(0, f)
    BY <1>1, <2>1, <2>2
  <2> QED
    BY <2>3
<1>4. ASSUME NEW d \in Nat, d \in T PROVE d + 1 \in T
  <2> SUFFICES ASSUME d + 1 <= n PROVE \E f : P(d + 1, f)
    OBVIOUS
  <2>1. PICK f : P(d, f)
    BY <1>1, <1>4
  <2> DEFINE k == n - (d + 1)
             g == [index \in k..n |-> IF index = k THEN RoundsFrom(data, numBytes, f, k) ELSE f[index]]
  <2>2. k \in Nat /\ k <= n /\ n - d = k + 1
    BY <1>1
  <2> HIDE DEF k
  <2>3. /\ g[k] = RoundsFrom(data, numBytes, f, k)
        /\ \A i \in (k + 1)..n : f[i] = g[i]
    BY <1>1, <2>2
  <2> HIDE DEF g
  <2>4. ASSUME NEW index \in k..n PROVE g[index] = RoundsFrom(data, numBytes, g, index)
    <3>1. RoundsFrom(data, numBytes, f, index) = RoundsFrom(data, numBytes, g, index)
      <4>1. k \in Int /\ index \in Nat /\ index >= k
        BY <1>1, <2>2
      <4> QED
        BY <1>2, <2>3, <4>1
    <3>2. CASE index = k
      BY <2>3, <3>1, <3>2
    <3>3. CASE index # k
      <4>1. index \in (n - d)..n /\ index \in (k + 1)..n
        BY <1>1, <2>2, <3>3
      <4> QED
        BY <2>1, <2>3, <3>1, <4>1
    <3> QED
      BY <3>2, <3>3
  <2> QED
    BY <2>4 DEF k
<1> HIDE DEF T
<1>5. Nat \subseteq T
  BY <1>3, <1>4, Induction
<1>6. PICK f : P(n, f)
  BY <1>1, <1>5 DEF T
<1> DEFINE g == [index \in 0..n |-> f[index]]
<1>7. \A index \in 0..n : g[index] = RoundsFrom(data, numBytes, g, index)
  <2> SUFFICES ASSUME NEW index \in 0..n PROVE g[index] = RoundsFrom(data, numBytes, g, index)
    OBVIOUS
  <2> DEFINE k == 0
  <2>1. index \in (n - n)..n /\ index \in Nat /\ index >= k /\ k \in Int
    BY <1>1
  <2>2. \A i \in (k + 1)..n : f[i] = g[i]
    BY <1>1
  <2>3. g[index] = f[index]
    OBVIOUS
  <2> HIDE DEF g, k
  <2>4. RoundsFrom(data, numBytes, f, index) = RoundsFrom(data, numBytes, g, index)
    BY <1>2, <2>1, <2>2
  <2> QED
    BY <1>6, <2>1, <2>3, <2>4
<1>8. g = E(g)
  <2>1. g = [index \in 0..n |-> g[index]]
    OBVIOUS
  <2> HIDE DEF g
  <2> QED
    BY <1>7, <2>1
<1>9. s = E(s)
  BY <1>8
<1> HIDE DEF s
<1>10. \A index \in 0..n : s[index] = RoundsFrom(data, numBytes, s, index)
  BY <1>9
<1>11. Rounds(data, numBytes) = s[0]
  BY DEF Rounds, RoundsFrom, Stops, s, n
<1>12. IsRounds(data, numBytes, s)
  BY <1>10, <1>11 DEF IsRounds, n
<1> QED
  BY <1>12

\* Over a file that says it is empty there is one round.
LEMMA OneRound ==
    ASSUME NEW data \in Seq(Nat)
    PROVE  Rounds(data, 0) = <<RecordAt(data, 0)>>
<1>1. PICK f : IsRounds(data, 0, f)
  BY RoundsExist
<1>2. Stops(data, 0, 0)
  BY RoundForward DEF Stops
<1>3. 0 \in 0..Len(data)
  OBVIOUS
<1> QED
  BY <1>1, <1>2, <1>3 DEF IsRounds, RoundsFrom

\* The rounds over the bytes of a message: one for each record
MessageRounds(m, e) == [k \in 1..Len(m) |-> Found(m[k], k = Len(m), e[k])]

\* A message short enough for one file
IsMessage(m) == m \in Seq(Record) /\ m # <<>> /\ Len(Encode(m)) <= 255

\* At the bytes of the k-th record the decoder finds the k-th record.
LEMMA RecordsRead ==
    ASSUME NEW m, IsMessage(m), NEW data \in Seq(Nat), At(data, 0, Encode(m)),
           NEW e, IsEnds(m, e), NEW k \in 1..Len(m)
    PROVE  RecordAt(data, e[k - 1]) = Found(m[k], k = Len(m), e[k])
<1> DEFINE r == RecordOf(m, k)
           n == Len(m)
<1>1. m \in Seq(Record) /\ Len(Encode(m)) <= 255 /\ n \in Nat
  BY DEF IsMessage
<1>2. m[k] \in Record /\ IsEncoded(r, m[k])
  BY <1>1, RecordOfBytes
<1>3. r \in Seq(Nat) /\ Len(r) \in Nat /\ Len(r) >= 3 + Len(m[k].payload)
  BY <1>2 DEF IsEncoded
<1>4. /\ e \in [0..n -> Nat] /\ e[n] = Len(Encode(m))
      /\ e[k] = e[k - 1] + Len(r) /\ e[k] <= e[n] /\ At(Encode(m), e[k - 1], r)
  BY DEF IsEnds
<1>5. k - 1 \in 0..n /\ n \in 0..n
  BY <1>1
<1>6. e[k - 1] \in Nat /\ e[n] \in Nat
  BY <1>4, <1>5
<1>7. Len(m[k].payload) \in Nat
  BY <1>2, RecordParts
<1>8. Len(m[k].payload) <= 255
  <2> DEFINE p == Len(m[k].payload)
             l == Len(r)
             t == e[n]
             a == e[k - 1]
  <2>1. p \in Nat /\ l \in Nat /\ t \in Nat /\ a \in Nat
    BY <1>3, <1>6, <1>7
  <2>2. l >= 3 + p /\ a + l <= t /\ t <= 255
    BY <1>1, <1>3, <1>4
  <2> HIDE DEF p, l, t, a
  <2>3. p <= 255
    BY <2>1, <2>2
  <2> QED
    BY <2>3 DEF p
<1>9. At(data, e[k - 1], r)
  <2> DEFINE b == Encode(m)
             a == e[k - 1]
             l == Len(r)
             nb == Len(b)
             nd == Len(data)
  <2>1. 0 + nb <= nd /\ \A x \in 1..nb : data[0 + x] = b[x]
    BY DEF At
  <2>2. a + l <= nb /\ \A x \in 1..l : b[a + x] = r[x]
    BY <1>4 DEF At
  <2>3. a \in Nat /\ l \in Nat /\ nb \in Nat /\ nd \in Nat
    BY <1>3, <1>4, <1>6
  <2> HIDE DEF a, b, l, nb, nd
  <2>4. a + l <= nd
    BY <2>1, <2>2, <2>3
  <2>5. ASSUME NEW x \in 1..l PROVE data[a + x] = r[x]
    <3>1. a + x \in 1..nb /\ 0 + (a + x) = a + x
      BY <2>2, <2>3
    <3>2. data[0 + (a + x)] = b[a + x]
      BY <2>1, <3>1
    <3> QED
      BY <2>2, <3>1, <3>2
  <2> QED
    BY <2>4, <2>5 DEF At, a, l, nd
<1>10. (k = 1) \in BOOLEAN /\ (k = n) \in BOOLEAN
  OBVIOUS
<1>11. RecordAt(data, e[k - 1]) = Found(m[k], k = n, e[k - 1] + Len(r))
  BY <1>2, <1>6, <1>8, <1>9, <1>10, RecordRead DEF RecordOf
<1> QED
  BY <1>4, <1>11

\* The decoder, given the bytes of a message and their number, makes one round
\* per record and stops at the last.
LEMMA MessageRead ==
    ASSUME NEW m, IsMessage(m), NEW data \in Seq(Nat), At(data, 0, Encode(m)),
           NEW e, IsEnds(m, e)
    PROVE  Rounds(data, Len(Encode(m))) = MessageRounds(m, e)
<1> DEFINE n == Len(m)
           L == Len(data)
           N == Len(Encode(m))
           F(k) == Found(m[k], k = n, e[k])
           S == {F(k) : k \in 1..n}
           \* the rounds from the k-th record on
           W(k) == [i \in 1..(n - k + 1) |-> F(k + i - 1)]
<1>1. m \in Seq(Record) /\ n \in Nat /\ n # 0
  BY DEF IsMessage
<1>2. PICK f : IsRounds(data, N, f)
  BY RoundsExist
<1>3. ASSUME NEW k \in 1..n PROVE RecordAt(data, e[k - 1]) = F(k)
  BY RecordsRead
<1>4. e \in [0..n -> Nat] /\ e[0] = 0 /\ e[n] = N /\ \A k \in 1..n : e[k] <= e[n]
  BY DEF IsEnds
<1>5. N \in Nat /\ L \in Nat /\ N <= L
  <2>1. N \in Nat /\ L \in Nat
    BY <1>1, <1>4
  <2>2. 0 + N <= L
    BY DEF At
  <2> HIDE DEF N, L
  <2> QED
    BY <2>1, <2>2
<1>6. ASSUME NEW k \in 0..n PROVE e[k] \in 0..L /\ e[k] <= N
  <2>1. e[k] \in Nat /\ e[k] <= N
    <3> HIDE DEF N, L, n
    <3>1. CASE k = 0
      BY <1>4, <1>5, <3>1
    <3>2. CASE k # 0
      <4>1. k \in 1..n
        BY <1>1, <3>2
      <4> QED
        BY <1>4, <4>1
    <3> QED
      BY <3>1, <3>2
  <2> HIDE DEF N, L
  <2> QED
    BY <1>5, <2>1
<1>7. ASSUME NEW k \in 1..n
      PROVE  /\ k = n => f[e[k - 1]] = <<F(k)>>
             /\ k # n => f[e[k - 1]] = <<F(k)>> \o f[e[k]]
  <2>1. k - 1 \in 0..n /\ k \in 0..n
    BY <1>1
  <2>2. e[k - 1] \in 0..L /\ e[k] \in 0..L /\ e[k] <= N
    BY <1>6, <2>1
  <2>3. f[e[k - 1]] = RoundsFrom(data, N, f, e[k - 1])
    BY <1>2, <2>2 DEF IsRounds
  <2>4. F(k).me = (k = n) /\ F(k).next = e[k]
    BY DEF Found
  <2>5. ~(e[k] > N) /\ ~(e[k] > L)
    <3> HIDE DEF N, L
    <3> QED
      BY <1>5, <2>2
  <2>6. Stops(data, N, e[k - 1]) <=> k = n
    <3> HIDE DEF F
    <3> QED
      BY <1>3, <2>4, <2>5 DEF Stops
  <2> HIDE DEF F
  <2> QED
    BY <1>3, <2>3, <2>4, <2>6 DEF RoundsFrom
<1> DEFINE T == {d \in Nat : d < n => f[e[n - d - 1]] = W(n - d)}
<1> HIDE DEF F, N, L, n
<1>8. 0 \in T
  <2>1. n \in 1..n /\ n - 0 = n
    BY <1>1
  <2>2. f[e[n - 1]] = <<F(n)>>
    BY <1>7, <2>1
  <2>3. W(n) = <<F(n)>>
    <3>1. n - n + 1 = 1 /\ n + 1 - 1 = n
      BY <1>1
    <3> QED
      BY <3>1
  <2> QED
    BY <2>1, <2>2, <2>3
<1>9. ASSUME NEW d \in Nat, d \in T PROVE d + 1 \in T
  <2> SUFFICES ASSUME d + 1 < n PROVE f[e[n - (d + 1) - 1]] = W(n - (d + 1))
    OBVIOUS
  <2> DEFINE k == n - (d + 1)
             q == d + 1
             V == W(k + 1)
             Z == W(k)
             a == <<F(k)>>
  <2>1. k \in 1..n /\ k # n /\ n - d - 1 = k /\ n - d = k + 1 /\ n - (k + 1) + 1 = q /\ n - k + 1 = q + 1
        /\ d < n
    BY <1>1
  <2>2. f[e[k - 1]] = a \o f[e[k]]
    BY <1>7, <2>1
  <2>3. f[e[k]] = V
    BY <1>9, <2>1
  <2> HIDE DEF k, q
  <2>4. q \in Nat
    BY DEF q
  <2>5. V = [i \in 1..q |-> F(k + 1 + i - 1)] /\ Z = [i \in 1..(q + 1) |-> F(k + i - 1)]
    BY <2>1
  <2> HIDE DEF V, Z
  <2>6. V \in Seq(S) /\ Len(V) = q
    <3>1. \A i \in 1..q : k + 1 + i - 1 \in 1..n
      BY <1>1, <2>1, <2>4
    <3>2. \A i \in 1..q : F(k + 1 + i - 1) \in S
      BY <3>1
    <3> HIDE DEF S
    <3> QED
      BY <2>4, <2>5, <3>2
  <2>7. a \in Seq(S) /\ Len(a) = 1 /\ a[1] = F(k)
    <3>1. F(k) \in S
      BY <2>1
    <3> HIDE DEF S
    <3> QED
      BY <3>1
  <2> HIDE DEF a, S
  <2>8. /\ a \o V \in Seq(S) /\ Len(a \o V) = 1 + q
        /\ \A i \in 1..(1 + q) : (a \o V)[i] = IF i <= 1 THEN a[i] ELSE V[i - 1]
    <3>1. /\ a \o V \in Seq(S) /\ Len(a \o V) = Len(a) + Len(V)
          /\ \A i \in 1..(Len(a) + Len(V)) : (a \o V)[i] = IF i <= Len(a) THEN a[i] ELSE V[i - Len(a)]
      BY <2>6, <2>7, ConcatProperties
    <3> QED
      BY <2>6, <2>7, <3>1
  <2>9. ASSUME NEW i \in 1..(q + 1) PROVE (a \o V)[i] = F(k + i - 1)
    <3>1. i \in 1..(1 + q)
      BY <2>4
    <3>2. CASE i = 1
      <4>1. k + i - 1 = k
        BY <2>1, <3>2
      <4>2. (a \o V)[i] = a[1]
        BY <2>8, <3>1, <3>2
      <4> QED
        BY <2>7, <4>1, <4>2
    <3>3. CASE i # 1
      <4>1. i - 1 \in 1..q /\ ~(i <= 1) /\ k + 1 + (i - 1) - 1 = k + i - 1
        BY <2>1, <2>4, <3>3
      <4>2. (a \o V)[i] = V[i - 1]
        BY <2>8, <3>1, <4>1
      <4>3. V[i - 1] = F(k + 1 + (i - 1) - 1)
        BY <2>5, <4>1
      <4> QED
        BY <4>1, <4>2, <4>3
    <3> QED
      BY <3>2, <3>3
  <2>10. a \o V = Z
    <3>1. a \o V = [i \in 1..(1 + q) |-> (a \o V)[i]]
      <4> DEFINE c == a \o V
      <4>1. c \in Seq(S) /\ Len(c) = 1 + q
        BY <2>8
      <4> HIDE DEF c
      <4>2. c = [i \in 1..(1 + q) |-> c[i]]
        BY <4>1
      <4> QED
        BY <4>2 DEF c
    <3>2. 1 + q = q + 1
      BY <2>4
    <3> QED
      BY <2>5, <2>9, <3>1, <3>2
  <2> QED
    BY <2>2, <2>3, <2>10 DEF k, Z
<1> HIDE DEF T
<1>10. Nat \subseteq T
  BY <1>8, <1>9, Induction
<1>11. f[e[0]] = W(1)
  <2>1. n - 1 \in Nat /\ n - 1 < n /\ n - (n - 1) - 1 = 0 /\ n - (n - 1) = 1
    BY <1>1
  <2>2. f[e[n - (n - 1) - 1]] = W(n - (n - 1))
    BY <1>10, <2>1 DEF T
  <2> QED
    BY <2>1, <2>2
<1>12. W(1) = [k \in 1..n |-> F(k)]
  <2>1. n - 1 + 1 = n /\ \A i \in 1..n : 1 + i - 1 = i
    BY <1>1
  <2> QED
    BY <2>1
<1>13. Rounds(data, N) = [k \in 1..n |-> F(k)]
  BY <1>2, <1>4, <1>11, <1>12 DEF IsRounds
<1> QED
  BY <1>13 DEF MessageRounds, F, N, n

\* Decode undoes Encode: where a file begins with the bytes NdefMessage::encode
\* wrote of a message that fits one, whatever follows them, the decoder of
\* NdefMessage(data, numBytes) finds its records, as many as addRecord keeps.
THEOREM MessageDecodes ==
    ASSUME NEW m, IsMessage(m), NEW data \in Seq(Nat), At(data, 0, Encode(m))
    PROVE  Decode(data, Len(Encode(m))) = addRecord(m)
<1> DEFINE n == Len(m)
           N == Len(Encode(m))
           R == Rounds(data, N)
<1>1. m \in Seq(Record)
  BY DEF IsMessage
<1>2. PICK e : IsEnds(m, e)
  BY <1>1, EncodeEnds
<1>3. R = MessageRounds(m, e)
  BY <1>2, MessageRead
<1> HIDE DEF R
<1>4. DOMAIN R = 1..n /\ \A k \in 1..n : R[k].record = m[k]
  BY <1>3 DEF MessageRounds, Found
<1>5. [k \in DOMAIN R |-> R[k].record] = m
  <2>1. m = [k \in 1..n |-> m[k]]
    BY <1>1
  <2> QED
    BY <1>4, <2>1
<1> QED
  BY <1>5 DEF Decode, R

\* The bytes of a message are bytes, and at least three.
LEMMA MessageBytes ==
    ASSUME NEW m, IsMessage(m)
    PROVE  /\ Encode(m) \in Seq(0..255)
           /\ Len(Encode(m)) \in Nat
           /\ Len(Encode(m)) >= 3
<1> DEFINE n == Len(m)
           b == Encode(m)
           N == Len(b)
           r(k) == RecordOf(m, k)
<1>1. m \in Seq(Record) /\ n \in Nat /\ n # 0 /\ N <= 255
  BY DEF IsMessage
<1>2. b \in Seq(Nat)
  BY <1>1, EncodeEnds
<1>3. PICK e : IsEnds(m, e)
  BY <1>1, EncodeEnds
<1>4. /\ e \in [0..n -> Nat] /\ e[0] = 0 /\ e[n] = N
      /\ \A k \in 1..n : e[k] = e[k - 1] + Len(r(k)) /\ e[k] <= e[n] /\ At(b, e[k - 1], r(k))
  BY <1>3 DEF IsEnds
<1>5. ASSUME NEW k \in 1..n PROVE IsEncoded(r(k), m[k]) /\ Len(m[k].payload) \in Nat
  BY <1>1, RecordOfBytes, RecordParts
<1> HIDE DEF n, b, N, r
<1>6. N \in Nat
  BY <1>1, <1>4
<1>7. ASSUME NEW k \in 1..n
      PROVE  /\ k - 1 \in 0..n /\ e[k - 1] \in Nat /\ e[k] \in Nat
             /\ r(k) \in Seq(Nat) /\ Len(r(k)) \in Nat /\ Len(r(k)) >= 3 /\ Len(r(k)) <= 255
             /\ \A x \in 1..Len(r(k)) : r(k)[x] \in 0..255
  <2>1. k - 1 \in 0..n /\ k \in 0..n
    BY <1>1
  <2>2. e[k - 1] \in Nat /\ e[k] \in Nat
    BY <1>4, <2>1
  <2> DEFINE l == Len(r(k))
             p == Len(m[k].payload)
  <2>3. l \in Nat /\ l >= 3 + p /\ p \in Nat /\ r(k) \in Seq(Nat)
    BY <1>5 DEF IsEncoded
  <2>4. e[k] = e[k - 1] + l /\ e[k] <= e[n] /\ e[n] = N
    BY <1>4
  <2> HIDE DEF l, p
  <2>5. l >= 3 /\ l <= 255
    BY <1>1, <1>6, <2>2, <2>3, <2>4
  <2>6. \A x \in 1..l : r(k)[x] \in 0..255
    <3>1. l <= 255 => \A x \in DOMAIN r(k) : r(k)[x] \in 0..255
      BY <1>5 DEF IsEncoded, l
    <3>2. DOMAIN r(k) = 1..l
      BY <2>3 DEF l
    <3> QED
      BY <2>5, <3>1, <3>2
  <2> QED
    BY <2>1, <2>2, <2>3, <2>5, <2>6 DEF l
<1>8. N >= 3
  <2>1. 1 \in 1..n
    BY <1>1
  <2>2. e[1] = e[1 - 1] + Len(r(1)) /\ e[1] <= e[n] /\ Len(r(1)) \in Nat /\ Len(r(1)) >= 3
    BY <1>4, <1>7, <2>1
  <2> DEFINE l == Len(r(1))
  <2>3. e[1] = l /\ e[1] <= N /\ l \in Nat /\ l >= 3
    BY <1>4, <2>2
  <2> HIDE DEF l
  <2> QED
    BY <1>6, <2>3
<1> DEFINE T == {k \in Nat : k \in 0..n => \A x \in 1..e[k] : b[x] \in 0..255}
<1>9. 0 \in T
  BY <1>4
<1>10. ASSUME NEW k \in Nat, k \in T PROVE k + 1 \in T
  <2> SUFFICES ASSUME k + 1 \in 0..n, NEW x \in 1..e[k + 1] PROVE b[x] \in 0..255
    OBVIOUS
  <2>1. k \in 0..n /\ k + 1 \in 1..n /\ (k + 1) - 1 = k
    BY <1>1
  <2> DEFINE l == Len(r(k + 1))
  <2>2. e[k + 1] = e[k] + l /\ e[k] \in Nat /\ l \in Nat
    BY <1>4, <1>7, <2>1
  <2>3. At(b, e[k], r(k + 1))
    BY <1>4, <2>1
  <2>4. \A y \in 1..l : b[e[k] + y] \in 0..255
    <3> SUFFICES ASSUME NEW y \in 1..l PROVE b[e[k] + y] \in 0..255
      OBVIOUS
    <3>1. b[e[k] + y] = r(k + 1)[y]
      BY <2>3 DEF At
    <3>2. r(k + 1)[y] \in 0..255
      BY <1>7, <2>1
    <3> QED
      BY <3>1, <3>2
  <2> HIDE DEF l
  <2>5. CASE x \in 1..e[k]
    BY <1>10, <2>1, <2>5
  <2>6. CASE x \notin 1..e[k]
    <3>1. x - e[k] \in 1..l /\ e[k] + (x - e[k]) = x
      BY <2>2, <2>6
    <3>2. b[e[k] + (x - e[k])] \in 0..255
      BY <2>4, <3>1
    <3> QED
      BY <3>1, <3>2
  <2> QED
    BY <2>5, <2>6
<1> HIDE DEF T
<1>11. Nat \subseteq T
  BY <1>9, <1>10, Induction
<1>12. \A x \in 1..N : b[x] \in 0..255
  BY <1>1, <1>4, <1>11 DEF T
<1>13. b \in Seq(0..255)
  <2>1. b = [x \in 1..N |-> b[x]]
    BY <1>2 DEF N
  <2> DEFINE c == [x \in 1..N |-> b[x]]
  <2>2. c \in Seq(0..255)
    BY <1>6, <1>12
  <2> HIDE DEF c
  <2>3. b = c
    BY <2>1 DEF c
  <2> QED
    BY <2>2, <2>3
<1> QED
  BY <1>6, <1>8, <1>13 DEF b, N

-----------------------------------------------------------------------------
(* The header of a message *)

\* What the first bytes of a message say of its first record
IsFirst(m, b) ==
    /\ Bit(b[1], 16)
    /\ Bit(b[1], 8) <=> m[1].id # <<>>
    /\ m[1].id # <<>> => Len(b) >= 4
    /\ RecordAt(b, 0).next \in Nat
    /\ RecordAt(b, 0).next <= Len(b)

\* The header of a message is true of it: its flags, and a first record that ends
\* within the message.
LEMMA FirstRecord ==
    ASSUME NEW m, IsMessage(m)
    PROVE  IsFirst(m, Encode(m))
<1> DEFINE b == Encode(m)
           n == Len(b)
           r == RecordOf(m, 1)
           h == RecordHeader(m[1], TRUE, 1 = Len(m))
           f == getTnfByte(m[1], TRUE, 1 = Len(m))
<1>1. IsMessage(m) /\ b \in Seq(Nat) /\ n \in Nat /\ n <= 255
  <2>1. b \in Seq(0..255) /\ n \in Nat /\ 0..255 \subseteq Nat
    BY MessageBytes
  <2> QED
    BY <2>1, SeqMonotonic DEF IsMessage
<1>2. m \in Seq(Record) /\ 1 \in 1..Len(m) /\ Len(m) \in Nat
  BY <1>1 DEF IsMessage
<1>3. m[1] \in Record /\ IsEncoded(r, m[1])
  BY <1>2, RecordOfBytes
<1>4. PICK e : IsEnds(m, e)
  BY <1>2, EncodeEnds
<1>5. /\ e \in [0..Len(m) -> Nat] /\ e[0] = 0 /\ e[Len(m)] = n
      /\ e[1] = e[1 - 1] + Len(r) /\ e[1] <= e[Len(m)] /\ At(b, e[1 - 1], r)
  BY <1>2, <1>4 DEF IsEnds
<1>6. Len(r) \in Nat /\ Len(r) >= 3 + Len(m[1].payload) /\ e[1] \in Nat /\ At(b, 0, r) /\ e[1] = Len(r)
  <2>1. Len(r) \in Nat /\ Len(r) >= 3 + Len(m[1].payload)
    BY <1>3 DEF IsEncoded
  <2>2. 1 - 1 = 0 /\ 1 \in 0..Len(m)
    BY <1>2
  <2> QED
    BY <1>5, <2>1, <2>2
<1>7. Len(m[1].payload) \in Nat
  BY <1>3, RecordParts
<1>8. Len(m[1].payload) <= 255
  <2> DEFINE p == Len(m[1].payload)
             l == Len(r)
  <2>1. p \in Nat /\ l \in Nat /\ l >= 3 + p /\ l <= n
    BY <1>5, <1>6, <1>7
  <2> HIDE DEF p, l, n
  <2>2. p <= 255
    BY <1>1, <2>1
  <2> QED
    BY <2>2 DEF p
<1>9. r = EncodeRecord(m[1], TRUE, 1 = Len(m)) /\ (1 = Len(m)) \in BOOLEAN
  BY DEF RecordOf
<1>10. /\ IsHeader(h, m[1], TRUE, 1 = Len(m)) /\ IsFlags(f, m[1], 1 = Len(m))
       /\ Layout(r, h, Len(h), m[1].type, Len(m[1].type), m[1].id, Len(m[1].id),
                 m[1].payload, Len(m[1].payload))
  <2>1. IsHeader(h, m[1], TRUE, 1 = Len(m))
    BY <1>3, <1>9, HeaderNumbers
  <2>2. IsFlags(f, m[1], 1 = Len(m))
    BY <1>3, <1>8, <1>9, TnfByte
  <2>3. Layout(EncodeRecord(m[1], TRUE, 1 = Len(m)), h, Len(h), m[1].type, Len(m[1].type),
               m[1].id, Len(m[1].id), m[1].payload, Len(m[1].payload))
    BY <1>3, <1>9, RecordLayout
  <2> QED
    BY <1>9, <2>1, <2>2, <2>3
<1>11. h[1] = f /\ Len(h) \in Nat /\ Len(h) >= 3 /\ (m[1].id # <<>> => Len(h) = 4)
  <2>1. h[1] = f /\ Len(h) \in Nat \ 0..2 /\ (m[1].id # <<>> => Len(h) = 4)
    BY <1>8, <1>10 DEF IsHeader
  <2> DEFINE l == Len(h)
  <2>2. l \in Nat \ 0..2
    BY <2>1
  <2> HIDE DEF l
  <2>3. l \in Nat /\ l >= 3
    BY <2>2
  <2> QED
    BY <2>1, <2>3 DEF l
<1>12. r[1] = f /\ Len(r) >= Len(h)
  <2> DEFINE lh == Len(h)
             lt == Len(m[1].type)
             li == Len(m[1].id)
             lp == Len(m[1].payload)
  <2>1. lt \in Nat /\ li \in Nat /\ lp \in Nat
    BY <1>3, RecordParts
  <2>2. Len(r) = lh + lt + li + lp /\ \A x \in 1..lh : r[x] = h[x]
    BY <1>10 DEF Layout
  <2>3. lh \in Nat /\ lh >= 3 /\ h[1] = f
    BY <1>11
  <2> HIDE DEF lh, lt, li, lp, h, r
  <2>4. 1 \in 1..lh
    BY <2>3
  <2>5. r[1] = f
    BY <2>2, <2>3, <2>4
  <2>6. Len(r) >= lh
    BY <2>1, <2>2, <2>3
  <2> QED
    BY <2>5, <2>6 DEF lh
<1>13. b[1] = r[1] /\ n >= Len(r)
  <2> DEFINE l == Len(r)
  <2>1. 0 + l <= n /\ \A x \in 1..l : b[0 + x] = r[x]
    BY <1>6 DEF At
  <2>2. l \in Nat /\ l >= 3
    <3> DEFINE p == Len(m[1].payload)
    <3>1. l \in Nat /\ p \in Nat /\ l >= 3 + p
      BY <1>6, <1>7
    <3> HIDE DEF l, p
    <3> QED
      BY <3>1
  <2> HIDE DEF l, n
  <2>3. 1 \in 1..l /\ 0 + 1 = 1 /\ n >= l
    BY <1>1, <2>1, <2>2
  <2>4. b[0 + 1] = r[1]
    BY <2>1, <2>3
  <2> QED
    BY <2>3, <2>4 DEF l
<1>14. m[1].id # <<>> => n >= 4
  <2> DEFINE l == Len(r)
             lh == Len(h)
  <2>1. l \in Nat /\ lh \in Nat /\ n >= l /\ l >= lh /\ (m[1].id # <<>> => lh = 4)
    BY <1>6, <1>11, <1>12, <1>13
  <2> HIDE DEF l, lh, n
  <2> QED
    BY <1>1, <2>1
<1>15. RecordAt(b, 0).next = e[1]
  <2>1. At(b, 0, b)
    <3> HIDE DEF b
    <3> QED
      BY <1>1 DEF At, n
  <2>2. RecordAt(b, e[1 - 1]) = Found(m[1], 1 = Len(m), e[1])
    <3>1. \A i \in 1..Len(m) : RecordAt(b, e[i - 1]) = Found(m[i], i = Len(m), e[i])
      BY <1>1, <1>4, <2>1, RecordsRead
    <3> HIDE DEF b
    <3> QED
      BY <1>2, <3>1
  <2>3. e[1 - 1] = 0
    BY <1>5
  <2> QED
    BY <2>2, <2>3 DEF Found
<1>16. Bit(b[1], 16) /\ (Bit(b[1], 8) <=> m[1].id # <<>>)
  <2> HIDE DEF b, r, h, f
  <2> QED
    BY <1>10, <1>12, <1>13 DEF IsFlags
<1> QED
  BY <1>5, <1>6, <1>14, <1>15, <1>16 DEF IsFirst

\* Where the first record ends depends on the header alone.
LEMMA SameNext ==
    ASSUME NEW c, NEW b,
           ByteAt(c, 0) = ByteAt(b, 0), ByteAt(c, 1) = ByteAt(b, 1), ByteAt(c, 2) = ByteAt(b, 2),
           Bit(ByteAt(b, 0), 16), Bit(ByteAt(b, 0), 8) => ByteAt(c, 3) = ByteAt(b, 3)
    PROVE  RecordAt(c, 0).next = RecordAt(b, 0).next
<1> DEFINE end(d) == 0 + 2 + Flag(Bit(ByteAt(d, 0), 8), 1) + 1 + ByteAt(d, 0 + 1)
                     + (IF Bit(ByteAt(d, 0), 8) THEN ByteAt(d, 0 + 2 + 1) ELSE 0)
                     + ByteAt(d, 0 + 2)
<1>1. ASSUME NEW d, Bit(ByteAt(d, 0), 16) PROVE RecordAt(d, 0).next = end(d)
  BY <1>1, SMTT(60) DEF RecordAt
<1>2. 0 + 1 = 1 /\ 0 + 2 = 2 /\ 0 + 2 + 1 = 3
  OBVIOUS
<1>3. end(c) = end(b)
  BY <1>2
<1>4. RecordAt(c, 0).next = end(c) /\ RecordAt(b, 0).next = end(b)
  <2> HIDE DEF end
  <2> QED
    BY <1>1
<1> HIDE DEF end
<1> QED
  BY <1>3, <1>4

\* Where a first record of the long form ends, by its first six bytes.
LEMMA LongNext ==
    ASSUME NEW d, ~Bit(ByteAt(d, 0), 16)
    PROVE  RecordAt(d, 0).next =
               0 + 5 + Flag(Bit(ByteAt(d, 0), 8), 1) + 1 + ByteAt(d, 0 + 1)
               + (IF Bit(ByteAt(d, 0), 8) THEN ByteAt(d, 0 + 5 + 1) ELSE 0)
               + (ByteAt(d, 0 + 1) * 16777216 + ByteAt(d, 0 + 2) * 65536
                  + ByteAt(d, 0 + 3) * 256 + ByteAt(d, 0 + 4))
BY SMTT(60) DEF RecordAt

=============================================================================
