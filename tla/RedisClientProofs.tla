------------------------- MODULE RedisClientProofs -------------------------
(***************************************************************************)
(* Proofs about Redis::get, for any values (whatever characters they are   *)
(* made of), any number of commands and any way TCP cuts the replies: the  *)
(* parser is never out of step with the server.                            *)
(***************************************************************************)
EXTENDS RedisClient, SequenceTheorems, TLAPS

-----------------------------------------------------------------------------
(* Types, also when a reply is cut before the LF of its header *)

\* Every step keeps the types: whatever a header says, the parser asks for at
\* most three bytes of a body.
LEMMA RedisTypeStep ==
    ASSUME RedisTypeOK, [RedisNext]_redisVars
    PROVE  RedisTypeOK'
<1> USE RedisAssumption DEF RedisTypeOK
<1>1. CASE Issue
  BY <1>1 DEF Issue, Return
<1>2. CASE Skip
  BY <1>2 DEF Skip, parserVars
<1>3. CASE ParseType
  BY <1>3 DEF ParseType, Return
<1>4. CASE Disconnected
  BY <1>4 DEF Disconnected, Return
<1>5. CASE ReadHeader
  BY <1>5 DEF ReadHeader
<1>6. CASE HeaderTimeout
  BY <1>6 DEF HeaderTimeout
<1>7. CASE DiscardLF
  BY <1>7 DEF DiscardLF, AfterHeader, Return, toInt
<1>8. CASE ReadBody
  BY <1>8 DEF ReadBody, Return
<1>9. CASE BodyTimeout
  BY <1>9 DEF BodyTimeout
<1>10. ASSUME NEW text \in Text, Reply(text) PROVE RedisTypeOK'
  BY <1>10 DEF Reply, parserVars
<1>11. ASSUME NEW n \in 1..Len(line), Arrive(n) PROVE RedisTypeOK'
  BY <1>11 DEF Arrive, parserVars
<1>12. CASE Break
  BY <1>12 DEF Break, parserVars
<1>13. CASE UNCHANGED redisVars
  BY <1>13 DEF redisVars, parserVars
<1> QED
  BY <1>1, <1>2, <1>3, <1>4, <1>5, <1>6, <1>7, <1>8, <1>9, <1>10, <1>11, <1>12, <1>13
     DEF RedisNext, ParserNext, ServerNext

\* The client keeps its types, also when replies are cut before the LF of their
\* header: for the length of a body, RedisBulkString::init gets from toInt no
\* other number than the parser lets through.
THEOREM RedisTypes == RedisSpec => []RedisTypeOK
<1>1. RedisInit => RedisTypeOK
  BY RedisAssumption DEF RedisInit, RedisTypeOK
<1>2. RedisTypeOK /\ [RedisNext]_redisVars => RedisTypeOK'
  BY RedisTypeStep
<1> QED
  BY <1>1, <1>2, PTL DEF RedisSpec

-----------------------------------------------------------------------------
(* What is on the wire *)

\* The characters: strings, those of a reply's own named (this is STRING)
Char == STRING \cup {"$", "-", "0", "1", "none", CR, LF}

\* A reply is its type, a header, CR, LF and what comes after that.
Kind(text) == IF text \in Error THEN "-" ELSE "$"

Header(text) ==
    IF text = Null THEN <<"-", "1">> ELSE IF text \in Error THEN text ELSE Digits(Len(text))

Rest(text) == IF text \in Value THEN text \o <<CR, LF>> ELSE <<>>

\* What may be left of the previous reply.
Leftover == {<<>>, <<LF>>, <<CR, LF>>}

\* The bytes arrived and those on the way are e, of which a broken connection
\* lost the end.
Wire(r, l, c, e) ==
    /\ Len(r) + Len(l) <= Len(e)
    /\ c => Len(r) + Len(l) = Len(e)
    /\ ~c => l = <<>>
    /\ \A i \in 1..Len(r) : r[i] = e[i]
    /\ \A i \in 1..Len(l) : l[i] = e[Len(r) + i]

\* The connection broke in a header, and the parser has run out of bytes.
Cut == ~connected /\ rx = <<>> /\ line = <<>>

\* data is what has been read of the header.
Unread == SubSeq(Header(reply), Len(data) + 1, Len(Header(reply)))

Begun ==
    /\ Len(data) <= Len(Header(reply))
    /\ data = SubSeq(Header(reply), 1, Len(data))

\* The parser's place in the reply, stage by stage.  GetAnswers alone says
\* nothing of a get that is under way, nor of what a finished one leaves behind
\* for the next.
PlaceInv ==
    /\ connected /\ reply \in Value => Len(line) # Len(reply) + 3
    /\ gets = 0 => stage = "idle" /\ reply = NoReply /\ Wire(rx, line, connected, <<>>)
    /\ stage = "idle" /\ gets > 0 =>
          /\ \E e \in Leftover : Wire(rx, line, connected, e)
          /\ connected => reply # NoReply
    /\ stage = "type" =>
          \E e \in Leftover :
              Wire(rx, line, connected, IF reply = NoReply THEN e ELSE e \o Encode(reply))
    /\ stage \in {"header", "lf", "body"} => reply \in Text /\ kind = Kind(reply)
    /\ stage = "header" =>
          Begun /\ Wire(rx, line, connected, Unread \o <<CR, LF>> \o Rest(reply))
    /\ stage = "lf" =>
          \/ data = Header(reply) /\ Wire(rx, line, connected, <<LF>> \o Rest(reply))
          \/ Cut /\ Begun
    /\ stage = "body" =>
          \/ reply \in Value /\ data = Header(reply) /\ Wire(rx, line, connected, Rest(reply))
          \/ Cut

RedisInv ==
    /\ RedisTypeOK
    /\ rx \in Seq(Char)
    /\ line \in Seq(Char)
    /\ data \in Seq(Char)
    /\ PlaceInv
    /\ GetAnswers

-----------------------------------------------------------------------------
(* Lemmas on the wire *)

\* A byte that arrived is the next one expected, and reading it keeps the rest.
LEMMA WireTake ==
    ASSUME NEW S, NEW r \in Seq(S), NEW l \in Seq(S), NEW c \in BOOLEAN, NEW e \in Seq(S),
           Wire(r, l, c, e), r # <<>>
    PROVE  /\ e # <<>>
           /\ Head(r) = e[1]
           /\ Tail(r) \in Seq(S)
           /\ Wire(Tail(r), l, c, Tail(e))
<1>1. Len(r) \in Nat \ {0} /\ Len(l) \in Nat /\ Len(e) \in Nat /\ Len(r) + Len(l) <= Len(e)
  BY DEF Wire
<1>2. e # <<>> /\ Head(r) = e[1]
  BY <1>1 DEF Wire
<1>3. Tail(r) \in Seq(S) /\ Len(Tail(r)) = Len(r) - 1 /\ Len(Tail(e)) = Len(e) - 1
  BY <1>1, <1>2
<1>4. \A i \in 1..(Len(r) - 1) : Tail(r)[i] = r[i + 1]
  BY <1>1
<1>5. \A i \in 1..(Len(e) - 1) : Tail(e)[i] = e[i + 1]
  BY <1>1, <1>2
<1>6. \A i \in 1..Len(Tail(r)) : Tail(r)[i] = Tail(e)[i]
  BY <1>1, <1>3, <1>4, <1>5 DEF Wire
<1>7. \A i \in 1..Len(l) : l[i] = Tail(e)[Len(Tail(r)) + i]
  BY <1>1, <1>3, <1>5 DEF Wire
<1>8. /\ Len(Tail(r)) + Len(l) <= Len(Tail(e))
      /\ Len(r) + Len(l) = Len(e) => Len(Tail(r)) + Len(l) = Len(Tail(e))
  <2> DEFINE nr == Len(r)
             nl == Len(l)
             ne == Len(e)
  <2>1. Len(Tail(r)) = nr - 1 /\ Len(Tail(e)) = ne - 1
    BY <1>3, Zenon
  <2>2. nr \in Nat \ {0} /\ nl \in Nat /\ ne \in Nat /\ nr + nl <= ne
    BY <1>1, Zenon
  <2> HIDE DEF nr, nl, ne
  <2>3. /\ (nr - 1) + nl <= ne - 1
        /\ nr + nl = ne => (nr - 1) + nl = ne - 1
    BY <2>2
  <2> QED
    BY <2>1, <2>3, Zenon DEF nr, nl, ne
<1>9. (c => Len(r) + Len(l) = Len(e)) /\ (~c => l = <<>>)
  BY DEF Wire
<1>10. Wire(Tail(r), l, c, Tail(e))
  BY <1>6, <1>7, <1>8, <1>9 DEF Wire
<1> QED
  BY <1>2, <1>3, <1>10

\* The same for the first n bytes.
LEMMA WireTakeSeveral ==
    ASSUME NEW S, NEW r \in Seq(S), NEW l \in Seq(S), NEW c \in BOOLEAN,
           NEW f \in Seq(S), NEW e \in Seq(S),
           Wire(r, l, c, f \o e), Len(r) >= Len(f)
    PROVE  /\ SubSeq(r, 1, Len(f)) = f
           /\ SubSeq(r, Len(f) + 1, Len(r)) \in Seq(S)
           /\ Wire(SubSeq(r, Len(f) + 1, Len(r)), l, c, e)
<1> DEFINE n == Len(f)
           q == SubSeq(r, n + 1, Len(r))
<1>1. /\ Len(r) \in Nat /\ Len(l) \in Nat /\ n \in Nat /\ Len(e) \in Nat
      /\ Len(f \o e) = n + Len(e)
      /\ \A i \in 1..n : (f \o e)[i] = f[i]
      /\ \A i \in 1..Len(e) : (f \o e)[n + i] = e[i]
  OBVIOUS
<1>2. /\ q \in Seq(S) /\ Len(q) = Len(r) - n
      /\ \A i \in 1..(Len(r) - n) : q[i] = r[n + i]
  BY <1>1
<1>3. SubSeq(r, 1, n) = f
  <2>1. SubSeq(r, 1, n) \in Seq(S) /\ Len(SubSeq(r, 1, n)) = n
    BY <1>1
  <2>2. \A i \in 1..n : SubSeq(r, 1, n)[i] = r[i]
    BY <1>1
  <2>3. \A i \in 1..Len(r) : r[i] = (f \o e)[i]
    BY DEF Wire
  <2>4. \A i \in 1..n : i \in 1..Len(r)
    BY <1>1
  <2>5. \A i \in 1..n : r[i] = f[i]
    BY <1>1, <2>3, <2>4
  <2> QED
    BY <2>1, <2>2, <2>5, SeqEqual
<1>4. /\ Len(r) + Len(l) <= n + Len(e)
      /\ c => Len(r) + Len(l) = n + Len(e)
      /\ ~c => l = <<>>
      /\ \A i \in 1..Len(r) : r[i] = (f \o e)[i]
      /\ \A i \in 1..Len(l) : l[i] = (f \o e)[Len(r) + i]
  BY <1>1 DEF Wire
<1> HIDE DEF n, q
<1>5. \A i \in 1..Len(q) : q[i] = e[i]
  <2> SUFFICES ASSUME NEW i \in 1..Len(q) PROVE q[i] = e[i]
    OBVIOUS
  <2>1. i \in 1..Len(e) /\ n + i \in 1..Len(r) /\ i \in 1..(Len(r) - n)
    BY <1>1, <1>2, <1>4
  <2> QED
    BY <2>1, <1>1, <1>2, <1>4
<1>6. \A i \in 1..Len(l) : l[i] = e[Len(q) + i]
  <2> SUFFICES ASSUME NEW i \in 1..Len(l) PROVE l[i] = e[Len(q) + i]
    OBVIOUS
  <2>1. Len(q) + i \in 1..Len(e) /\ n + (Len(q) + i) = Len(r) + i
    BY <1>1, <1>2, <1>4 DEF n
  <2>2. l[i] = (f \o e)[n + (Len(q) + i)]
    BY <2>1, <1>4
  <2> QED
    BY <2>1, <2>2, <1>1
<1>7. Wire(q, l, c, e)
  BY <1>1, <1>2, <1>4, <1>5, <1>6 DEF Wire, n
<1> QED
  BY <1>2, <1>3, <1>7 DEF n, q

\* Bytes that arrive stay in their order.
LEMMA WireArrive ==
    ASSUME NEW S, NEW r \in Seq(S), NEW l \in Seq(S), NEW c \in BOOLEAN, NEW e \in Seq(S),
           Wire(r, l, c, e), NEW n \in 1..Len(l)
    PROVE  /\ r \o SubSeq(l, 1, n) \in Seq(S)
           /\ SubSeq(l, n + 1, Len(l)) \in Seq(S)
           /\ Len(SubSeq(l, n + 1, Len(l))) = Len(l) - n
           /\ Wire(r \o SubSeq(l, 1, n), SubSeq(l, n + 1, Len(l)), c, e)
<1> DEFINE a == SubSeq(l, 1, n)
           b == SubSeq(l, n + 1, Len(l))
           ra == r \o a
<1>1. Len(r) \in Nat /\ Len(l) \in Nat \ {0} /\ Len(e) \in Nat /\ n \in Nat \ {0} /\ n <= Len(l)
  OBVIOUS
<1>2. a \in Seq(S) /\ Len(a) = n /\ \A i \in 1..n : a[i] = l[i]
  BY <1>1
<1>3. /\ b \in Seq(S) /\ Len(b) = Len(l) - n
      /\ \A i \in 1..(Len(l) - n) : b[i] = l[n + i]
  BY <1>1
<1> HIDE DEF a, b
<1>4. /\ ra \in Seq(S) /\ Len(ra) = Len(r) + n
      /\ \A i \in 1..Len(r) : ra[i] = r[i]
      /\ \A i \in 1..n : ra[Len(r) + i] = a[i]
  <2>1. /\ ra \in Seq(S) /\ Len(ra) = Len(r) + n
        /\ \A i \in 1..(Len(r) + n) : ra[i] = IF i <= Len(r) THEN r[i] ELSE a[i - Len(r)]
    BY <1>2, ConcatProperties
  <2> HIDE DEF ra
  <2>2. \A i \in 1..n : Len(r) + i \in 1..(Len(r) + n) /\ ~(Len(r) + i <= Len(r))
                        /\ Len(r) + i - Len(r) = i
    BY <1>1
  <2>3. \A i \in 1..Len(r) : i \in 1..(Len(r) + n) /\ i <= Len(r)
    BY <1>1
  <2>4. \A i \in 1..Len(r) : ra[i] = r[i]
    BY <2>1, <2>3
  <2>5. ASSUME NEW i \in 1..n PROVE ra[Len(r) + i] = a[i]
    <3> DEFINE j == Len(r) + i
    <3>1. j \in 1..(Len(r) + n) /\ ~(j <= Len(r)) /\ j - Len(r) = i
      BY <2>2
    <3> HIDE DEF j
    <3>2. ra[j] = a[j - Len(r)]
      BY <2>1, <3>1
    <3> QED
      BY <3>1, <3>2 DEF j
  <2> QED
    BY <2>1, <2>4, <2>5
<1> HIDE DEF ra
<1>5. \A i \in 1..Len(ra) : ra[i] = e[i]
  <2> SUFFICES ASSUME NEW i \in 1..Len(ra) PROVE ra[i] = e[i]
    OBVIOUS
  <2>1. CASE i <= Len(r)
    BY <2>1, <1>1, <1>4 DEF Wire
  <2>2. CASE i > Len(r)
    <3>1. i - Len(r) \in 1..n /\ i - Len(r) \in 1..Len(l) /\ Len(r) + (i - Len(r)) = i
      BY <2>2, <1>1, <1>4
    <3>2. ra[i] = l[i - Len(r)]
      BY <3>1, <1>2, <1>4
    <3> QED
      BY <3>1, <3>2 DEF Wire
  <2> QED
    BY <2>1, <2>2, <1>1, <1>4
<1>6. \A i \in 1..Len(b) : b[i] = e[Len(ra) + i]
  <2> SUFFICES ASSUME NEW i \in 1..Len(b) PROVE b[i] = e[Len(ra) + i]
    OBVIOUS
  <2>1. n + i \in 1..Len(l) /\ Len(r) + (n + i) = Len(ra) + i
    BY <1>1, <1>3, <1>4
  <2>2. b[i] = l[n + i]
    BY <1>1, <1>3
  <2> QED
    BY <2>1, <2>2 DEF Wire
<1>7. c
  <2>1. l # <<>>
    BY <1>1
  <2> QED
    BY <2>1 DEF Wire
<1>8. Len(ra) + Len(b) = Len(e) /\ Len(ra) + Len(b) <= Len(e)
  <2>1. Len(r) + Len(l) = Len(e)
    BY <1>7 DEF Wire
  <2>2. Len(b) = Len(l) - n /\ Len(ra) = Len(r) + n
    BY <1>3, <1>4
  <2> QED
    BY <1>1, <2>1, <2>2
<1>9. Wire(ra, b, c, e)
  BY <1>1, <1>5, <1>6, <1>7, <1>8 DEF Wire
<1> QED
  BY <1>3, <1>4, <1>9 DEF a, b, ra

\* What the server adds comes after what is expected already.
LEMMA WireSend ==
    ASSUME NEW S, NEW r \in Seq(S), NEW l \in Seq(S), NEW e \in Seq(S), NEW x \in Seq(S),
           Wire(r, l, TRUE, e)
    PROVE  Wire(r, l \o x, TRUE, e \o x)
<1>1. Len(r) \in Nat /\ Len(l) \in Nat /\ Len(e) \in Nat /\ Len(x) \in Nat
  OBVIOUS
<1>2. Len(r) + Len(l) = Len(e)
  BY DEF Wire
<1>3. /\ Len(l \o x) = Len(l) + Len(x)
      /\ \A i \in 1..(Len(l) + Len(x)) : (l \o x)[i] = IF i <= Len(l) THEN l[i] ELSE x[i - Len(l)]
  BY ConcatProperties
<1>4. /\ Len(e \o x) = Len(e) + Len(x)
      /\ \A i \in 1..(Len(e) + Len(x)) : (e \o x)[i] = IF i <= Len(e) THEN e[i] ELSE x[i - Len(e)]
  BY ConcatProperties
<1>5. \A i \in 1..Len(r) : r[i] = (e \o x)[i]
  <2> SUFFICES ASSUME NEW i \in 1..Len(r) PROVE r[i] = (e \o x)[i]
    OBVIOUS
  <2>1. i \in 1..(Len(e) + Len(x)) /\ i <= Len(e)
    BY <1>1, <1>2
  <2>2. r[i] = e[i]
    BY DEF Wire
  <2> QED
    BY <2>1, <2>2, <1>4
<1>6. \A i \in 1..Len(l \o x) : (l \o x)[i] = (e \o x)[Len(r) + i]
  <2> SUFFICES ASSUME NEW i \in 1..(Len(l) + Len(x)) PROVE (l \o x)[i] = (e \o x)[Len(r) + i]
    BY <1>3
  <2> DEFINE j == Len(r) + i
  <2>1. j \in 1..(Len(e) + Len(x))
    BY <1>1, <1>2
  <2>2. CASE i <= Len(l)
    <3>1. i \in 1..Len(l) /\ j <= Len(e)
      BY <2>2, <1>1, <1>2
    <3>2. l[i] = e[j]
      BY <3>1 DEF Wire
    <3> HIDE DEF j
    <3>3. (l \o x)[i] = l[i]
      BY <2>2, <1>3
    <3>4. (e \o x)[j] = e[j]
      BY <2>1, <3>1, <1>4
    <3> QED
      BY <3>2, <3>3, <3>4 DEF j
  <2>3. CASE ~(i <= Len(l))
    <3>1. ~(j <= Len(e)) /\ j - Len(e) = i - Len(l)
      <4>1. Len(e) < j
        BY <2>3, <1>1, <1>2
      <4>2. j - Len(e) = i - Len(l)
        <5>1. i \in Int /\ Len(e) = Len(r) + Len(l)
          BY <1>1, <1>2
        <5> QED
          BY <5>1, <1>1
      <4> QED
        BY <4>1, <4>2, <1>1, <2>1
    <3> HIDE DEF j
    <3>2. (l \o x)[i] = x[i - Len(l)]
      BY <2>3, <1>3
    <3>3. (e \o x)[j] = x[j - Len(e)]
      BY <2>1, <3>1, <1>4
    <3>4. (l \o x)[i] = (e \o x)[j]
      BY <3>1, <3>2, <3>3
    <3> QED
      BY <3>4 DEF j
  <2> QED
    BY <2>2, <2>3
<1>7. Len(r) + Len(l \o x) = Len(e \o x) /\ Len(r) + Len(l \o x) <= Len(e \o x)
  <2> DEFINE a == Len(r)
             b == Len(l)
             c == Len(x)
             d == Len(e)
             lx == Len(l \o x)
             ex == Len(e \o x)
  <2>1. lx = b + c /\ ex = d + c
    BY <1>3, <1>4
  <2>2. a \in Nat /\ b \in Nat /\ c \in Nat /\ a + b = d
    BY <1>1, <1>2
  <2> HIDE DEF a, b, c, d, lx, ex
  <2>3. a + lx = ex /\ a + lx <= ex
    BY <2>1, <2>2
  <2> QED
    BY <2>3 DEF a, lx, ex
<1> QED
  BY <1>5, <1>6, <1>7 DEF Wire

\* A break loses what is on the way.
LEMMA WireBreak ==
    ASSUME NEW S, NEW r \in Seq(S), NEW l \in Seq(S), NEW e \in Seq(S), NEW c \in BOOLEAN,
           Wire(r, l, c, e)
    PROVE  Wire(r, <<>>, FALSE, e)
<1>1. Len(r) + Len(l) <= Len(e) /\ \A i \in 1..Len(r) : r[i] = e[i]
  BY DEF Wire
<1>2. Len(r) \in Nat /\ Len(l) \in Nat /\ Len(e) \in Nat
  OBVIOUS
<1>3. Len(<<>>) = 0 /\ Len(r) + 0 <= Len(e) /\ 1..0 = {}
  BY <1>1, <1>2
<1> QED
  BY <1>1, <1>3 DEF Wire

\* Once the bytes have run out after a break, anything may have been lost.
LEMMA WireCut ==
    ASSUME NEW S, NEW e \in Seq(S)
    PROVE  Wire(<<>>, <<>>, FALSE, e)
<1>1. Len(<<>>) = 0 /\ Len(e) \in Nat /\ 0 + 0 <= Len(e) /\ 1..0 = {}
  OBVIOUS
<1> QED
  BY <1>1 DEF Wire

\* The first of a concatenation, and what follows it.
LEMMA ConcatHead ==
    ASSUME NEW S, NEW s \in Seq(S), NEW u \in Seq(S), s # <<>>
    PROVE  (s \o u)[1] = s[1] /\ Tail(s) \in Seq(S) /\ Tail(s \o u) = Tail(s) \o u
<1>1. Len(s) \in Nat \ {0} /\ Len(u) \in Nat
  OBVIOUS
<1>2. /\ s \o u \in Seq(S) /\ Len(s \o u) = Len(s) + Len(u)
      /\ \A i \in 1..(Len(s) + Len(u)) : (s \o u)[i] = IF i <= Len(s) THEN s[i] ELSE u[i - Len(s)]
  BY ConcatProperties
<1>3. (s \o u)[1] = s[1]
  BY <1>1, <1>2
<1>4. /\ Tail(s) \in Seq(S) /\ Len(Tail(s)) = Len(s) - 1
      /\ \A i \in 1..(Len(s) - 1) : Tail(s)[i] = s[i + 1]
  BY <1>1, HeadTailProperties
<1>5. /\ Tail(s \o u) \in Seq(S) /\ Len(Tail(s \o u)) = Len(s) + Len(u) - 1
      /\ \A i \in 1..(Len(s) + Len(u) - 1) : Tail(s \o u)[i] = (s \o u)[i + 1]
  <2>1. s \o u # <<>>
    BY <1>1, <1>2
  <2> QED
    BY <1>2, <2>1, HeadTailProperties
<1>6. /\ Tail(s) \o u \in Seq(S) /\ Len(Tail(s) \o u) = Len(s) - 1 + Len(u)
      /\ \A i \in 1..(Len(s) - 1 + Len(u)) :
            (Tail(s) \o u)[i] = IF i <= Len(s) - 1 THEN Tail(s)[i] ELSE u[i - (Len(s) - 1)]
  BY <1>4, ConcatProperties
<1>7. ASSUME NEW i \in 1..(Len(s) + Len(u) - 1)
      PROVE  Tail(s \o u)[i] = (Tail(s) \o u)[i]
  <2>1. i + 1 \in 1..(Len(s) + Len(u)) /\ i \in 1..(Len(s) - 1 + Len(u))
    BY <1>1
  <2>2. CASE i <= Len(s) - 1
    <3>1. i + 1 <= Len(s) /\ i \in 1..(Len(s) - 1)
      BY <2>2, <1>1
    <3>2. (s \o u)[i + 1] = s[i + 1]
      BY <2>1, <3>1, <1>2
    <3> QED
      BY <2>1, <2>2, <3>1, <3>2, <1>4, <1>5, <1>6
  <2>3. CASE ~(i <= Len(s) - 1)
    <3>1. ~(i + 1 <= Len(s)) /\ i + 1 - Len(s) = i - (Len(s) - 1)
      BY <2>3, <1>1
    <3>2. (s \o u)[i + 1] = u[i + 1 - Len(s)]
      BY <2>1, <3>1, <1>2
    <3> QED
      BY <2>1, <2>3, <3>1, <3>2, <1>5, <1>6
  <2> QED
    BY <2>2, <2>3
<1>8. Tail(s \o u) = Tail(s) \o u
  BY <1>1, <1>5, <1>6, <1>7, SeqEqual
<1> QED
  BY <1>3, <1>4, <1>8

-----------------------------------------------------------------------------
(* Lemmas on the replies *)

\* Short tuples as sequences
LEMMA Tuples ==
    ASSUME NEW S, NEW a \in S, NEW b \in S
    PROVE  /\ <<a>> \in Seq(S) /\ Len(<<a>>) = 1 /\ Tail(<<a>>) = <<>>
           /\ <<a, b>> \in Seq(S) /\ Len(<<a, b>>) = 2 /\ Tail(<<a, b>>) = <<b>>
OBVIOUS

\* The length of a text tells what it is.
LEMMA Texts ==
    /\ Text \subseteq Seq(Char)
    /\ NoReply \notin Text
    /\ \A v \in Value : Len(v) \in {2, 3} /\ v # Null /\ v \notin Error
    /\ \A x \in Error : x # Null /\ x \notin Value /\ \A i \in 1..Len(x) : x[i] # CR
<1>1. Value \subseteq Seq(Char) /\ \A v \in Value : Len(v) \in {2, 3}
  <2>1. STRING \subseteq Char
    BY DEF Char
  <2> QED
    BY <2>1, RedisAssumption, SeqMonotonic
<1>2. Null \in Seq(Char) /\ Len(Null) = 0
  BY DEF Null
<1>3. Error \subseteq Seq(Char) /\ \A x \in Error : Len(x) > 3 /\ \A i \in 1..Len(x) : x[i] # CR
  <2>1. STRING \ {CR} \subseteq Char
    BY DEF Char
  <2>2. Error \subseteq Seq(STRING \ {CR}) /\ \A x \in Error : Len(x) > 3
    BY RedisAssumption
  <2>3. \A x \in Error : \A i \in 1..Len(x) : x[i] \in STRING \ {CR}
    BY <2>2
  <2> QED
    BY <2>1, <2>2, <2>3, SeqMonotonic
<1>4. NoReply \in Seq(Char) /\ Len(NoReply) = 1
  <2>1. "none" \in Char
    BY DEF Char
  <2> QED
    BY <2>1, Tuples DEF NoReply
<1>5. ASSUME NEW v \in Value PROVE v # Null /\ v # NoReply /\ v \notin Error
  <2> DEFINE l == Len(v)
  <2>1. l \in {2, 3}
    BY <1>1
  <2> HIDE DEF l
  <2>2. l # 0 /\ l # 1 /\ ~(l > 3)
    BY <2>1
  <2> QED
    BY <2>2, <1>2, <1>3, <1>4, Zenon DEF l
<1>6. ASSUME NEW x \in Error PROVE x # Null /\ x # NoReply
  <2> DEFINE l == Len(x)
  <2>1. l > 3 /\ l \in Nat
    BY <1>3
  <2> HIDE DEF l
  <2>2. l # 0 /\ l # 1
    BY <2>1
  <2> QED
    BY <2>2, <1>2, <1>4, Zenon DEF l
<1>7. NoReply # Null
  BY <1>2, <1>4
<1>8. \A x \in Error : x \notin Value
  BY <1>5
<1> QED
  BY <1>1, <1>2, <1>3, <1>5, <1>6, <1>7, <1>8 DEF Text

\* The parts of a reply.
LEMMA Parts ==
    ASSUME NEW text \in Text
    PROVE  /\ Header(text) \in Seq(Char)
           /\ \A i \in 1..Len(Header(text)) : Header(text)[i] # CR
           /\ Rest(text) \in Seq(Char)
           /\ <<CR, LF>> \o Rest(text) \in Seq(Char)
           /\ Kind(text) \in {"$", "-"}
<1>2. /\ Header(text) \in Seq(Char)
      /\ \A i \in 1..Len(Header(text)) : Header(text)[i] # CR
  <2>1. CASE text \in Error
    <3>1. Header(text) = text
      BY <2>1, Texts DEF Header
    <3> QED
      BY <2>1, <3>1, Texts
  <2>2. CASE text \notin Error
    <3> PICK a \in {"-", "1"}, b \in {"0", "1"} : Header(text) = <<a, b>>
      BY <2>2 DEF Header, Digits
    <3>1. Header(text) \in Seq(Char) /\ Len(Header(text)) = 2
      <4>1. a \in Char /\ b \in Char
        BY DEF Char
      <4> QED
        BY <4>1, Tuples
    <3>2. \A i \in 1..2 : Header(text)[i] \in {"-", "0", "1"}
      OBVIOUS
    <3> QED
      BY <3>1, <3>2 DEF CR
  <2> QED
    BY <2>1, <2>2
<1>3. Rest(text) \in Seq(Char) /\ <<CR, LF>> \in Seq(Char)
  <2>1. <<CR, LF>> \in Seq(Char)
    <3>1. CR \in Char /\ LF \in Char
      BY DEF Char
    <3> QED
      BY <3>1, Tuples
  <2>2. text \in Seq(Char)
    BY Texts
  <2>3. text \o <<CR, LF>> \in Seq(Char) /\ <<>> \in Seq(Char)
    BY <2>1, <2>2, ConcatProperties
  <2> QED
    BY <2>1, <2>3 DEF Rest
<1>4. <<CR, LF>> \o Rest(text) \in Seq(Char)
  BY <1>3
<1> QED
  BY <1>2, <1>3, <1>4 DEF Kind

\* The parser takes the server's encoding apart.
LEMMA EncodeParts ==
    ASSUME NEW text \in Text
    PROVE  /\ Encode(text) \in Seq(Char)
           /\ Encode(text) # <<>>
           /\ Encode(text)[1] = Kind(text)
           /\ Tail(Encode(text)) = Header(text) \o <<CR, LF>> \o Rest(text)
           /\ Len(Encode(text)) = Len(Header(text)) + Len(Rest(text)) + 3
<1> DEFINE h == Header(text)
           k == <<Kind(text)>>
           z == <<CR, LF>>
<1>1. k \in Seq(Char) /\ z \in Seq(Char) /\ h \in Seq(Char) /\ Rest(text) \in Seq(Char)
  <2>1. Kind(text) \in Char /\ CR \in Char /\ LF \in Char
    BY DEF Kind, Char
  <2> QED
    BY <2>1, Parts, Tuples
<1>2. Encode(text) = k \o (h \o z \o Rest(text))
  <2>1. CASE text = Null
    <3>1. Encode(text) = <<"$", "-", "1", CR, LF>>
      BY <2>1, Texts DEF Encode
    <3>2. h = <<"-", "1">> /\ k = <<"$">> /\ Rest(text) = <<>>
      BY <2>1, Texts DEF Header, Kind, Rest
    <3> QED
      BY <3>1, <3>2
  <2>2. CASE text \in Error
    <3>1. Encode(text) = <<"-">> \o text \o <<CR, LF>>
      BY <2>2, Texts DEF Encode
    <3>2. h = text /\ k = <<"-">> /\ Rest(text) = <<>>
      BY <2>2, Texts DEF Header, Kind, Rest
    <3>3. (k \o text) \o z = k \o (text \o z)
      <4>1. text \in Seq(Char) /\ k \in Seq(Char) /\ z \in Seq(Char)
        BY <1>1, Texts
      <4> HIDE DEF k, z
      <4>2. \A a, b, c \in Seq(Char) : (a \o b) \o c = a \o (b \o c)
        BY ConcatAssociative
      <4> QED
        BY <4>1, <4>2
    <3>4. (text \o z) \o <<>> = text \o z
      <4>1. text \o z \in Seq(Char)
        BY <1>1, <3>2
      <4> QED
        BY <4>1, ConcatEmptySeq
    <3> QED
      BY <3>1, <3>2, <3>3, <3>4, Zenon
  <2>3. CASE text \in Value
    <3>1. Encode(text) = <<"$">> \o Digits(Len(text)) \o <<CR, LF>> \o text \o <<CR, LF>>
      BY <2>3, Texts DEF Encode
    <3>2. h = Digits(Len(text)) /\ k = <<"$">> /\ Rest(text) = text \o z
      BY <2>3, Texts DEF Header, Kind, Rest
    <3>3. text \in Seq(Char)
      BY Texts
    <3>4. CASE Len(text) = 2
      <4>1. text = <<text[1], text[2]>>
        BY <3>3, <3>4
      <4>2. \A a, b : text = <<a, b>> =>
                <<"$">> \o <<"1", "0">> \o <<CR, LF>> \o text \o <<CR, LF>>
                    = <<"$">> \o (<<"1", "0">> \o <<CR, LF>> \o (text \o <<CR, LF>>))
        OBVIOUS
      <4> QED
        BY <3>1, <3>2, <3>4, <4>1, <4>2 DEF Digits
    <3>5. CASE Len(text) = 3
      <4>1. text = <<text[1], text[2], text[3]>>
        BY <3>3, <3>5
      <4>2. \A a, b, c : text = <<a, b, c>> =>
                <<"$">> \o <<"1", "1">> \o <<CR, LF>> \o text \o <<CR, LF>>
                    = <<"$">> \o (<<"1", "1">> \o <<CR, LF>> \o (text \o <<CR, LF>>))
        OBVIOUS
      <4> QED
        BY <3>1, <3>2, <3>5, <4>1, <4>2 DEF Digits
    <3> QED
      BY <2>3, <3>4, <3>5, Texts
  <2> QED
    BY <2>1, <2>2, <2>3 DEF Text
<1> DEFINE u == h \o z \o Rest(text)
<1>3. u \in Seq(Char) /\ Len(u) = Len(h) + 2 + Len(Rest(text))
  <2>1. h \o z \in Seq(Char) /\ Len(h \o z) = Len(h) + 2
    BY <1>1
  <2> DEFINE hz == h \o z
  <2> HIDE DEF hz
  <2>2. hz \o Rest(text) \in Seq(Char) /\ Len(hz \o Rest(text)) = Len(hz) + Len(Rest(text))
    BY <1>1, <2>1, ConcatProperties DEF hz
  <2> QED
    BY <2>1, <2>2 DEF hz
<1> HIDE DEF u, h
<1>4. /\ Encode(text) \in Seq(Char) /\ Encode(text) # <<>>
      /\ Len(Encode(text)) = 1 + Len(u)
      /\ Encode(text)[1] = Kind(text)
  BY <1>1, <1>2, <1>3 DEF u
<1>5. Tail(Encode(text)) = Tail(k) \o u
  BY <1>1, <1>2, <1>3, ConcatHead DEF u
<1>6. Tail(k) = <<>> /\ <<>> \o u = u
  BY <1>3
<1>7. Len(Encode(text)) = Len(h) + Len(Rest(text)) + 3
  <2>1. Len(h) \in Nat /\ Len(Rest(text)) \in Nat
    BY <1>1
  <2> QED
    BY <2>1, <1>3, <1>4
<1> QED
  BY <1>4, <1>5, <1>6, <1>7 DEF u, h

-----------------------------------------------------------------------------
(* Every step keeps the parser in step with the server *)

\* What is on the wire in each stage is a sequence of characters.
LEMMA Expected ==
    ASSUME NEW text \in Text \cup {NoReply}, NEW e \in Leftover
    PROVE  /\ e \in Seq(Char)
           /\ (IF text = NoReply THEN e ELSE e \o Encode(text)) \in Seq(Char)
<1>1. e \in Seq(Char)
  <2>1. CR \in Char /\ LF \in Char
    BY DEF Char
  <2>2. <<>> \in Seq(Char) /\ <<LF>> \in Seq(Char) /\ <<CR, LF>> \in Seq(Char)
    BY <2>1, Tuples
  <2> QED
    BY <2>2 DEF Leftover
<1>2. CASE text = NoReply
  BY <1>1, <1>2
<1>3. CASE text # NoReply
  <2>1. Encode(text) \in Seq(Char)
    BY <1>3, EncodeParts
  <2>2. e \o Encode(text) \in Seq(Char)
    BY <1>1, <2>1, ConcatProperties
  <2> QED
    BY <1>1, <1>3, <2>2
<1> QED
  BY <1>2, <1>3

\* A command is issued over what the previous reply left, or there is no
\* connection any more.
LEMMA IssuePlace ==
    ASSUME RedisInv, Issue
    PROVE  RedisInv'
<1>1. UNCHANGED <<rx, line, connected, kind, data>> /\ gets' = gets + 1 /\ reply' = NoReply
  BY DEF Issue, Return
<1>2. RedisTypeOK'
  BY RedisTypeStep DEF RedisInv, RedisNext
<1>3. gets \in Nat /\ gets' > 0 /\ gets' # 0
  BY <1>1, RedisAssumption DEF RedisInv, RedisTypeOK
<1>4. reply' \notin Value
  BY <1>1, Texts DEF Text
<1>5. PICK e \in Leftover : Wire(rx, line, connected, e)
  <2>1. stage = "idle"
    BY DEF Issue
  <2>2. <<>> \in Leftover
    BY DEF Leftover
  <2>3. gets = 0 \/ gets > 0
    BY <1>3
  <2> QED
    BY <2>1, <2>2, <2>3 DEF RedisInv, PlaceInv
<1>6. CASE Connected
  <2>1. stage' = "type"
    BY <1>6 DEF Issue
  <2>2. PlaceInv'
    BY <1>1, <1>3, <1>4, <1>5, <2>1 DEF PlaceInv
  <2>3. GetAnswers'
    BY <2>1 DEF GetAnswers
  <2> QED
    BY <1>1, <1>2, <2>2, <2>3 DEF RedisInv
<1>7. CASE ~Connected
  <2>1. stage' = "idle" /\ result' = Null /\ ~connected'
    BY <1>1, <1>7 DEF Issue, Return, Connected
  <2>2. PlaceInv'
    BY <1>1, <1>3, <1>4, <1>5, <2>1 DEF PlaceInv
  <2>3. GetAnswers'
    BY <2>1 DEF GetAnswers
  <2> QED
    BY <1>1, <1>2, <2>2, <2>3 DEF RedisInv
<1> QED
  BY <1>6, <1>7

\* parseType drops what the previous reply left, and nothing else.
LEMMA SkipPlace ==
    ASSUME RedisInv, Skip
    PROVE  RedisInv'
<1>1. stage = "type" /\ rx # <<>> /\ Head(rx) \in {CR, LF} /\ rx' = Tail(rx)
  BY DEF Skip, Skipped
<1>2. UNCHANGED <<stage, kind, data, result, line, connected, reply, gets>>
  BY DEF Skip, parserVars
<1>3. RedisTypeOK'
  BY RedisTypeStep DEF RedisInv, RedisNext, ParserNext
<1>4. PICK e \in Leftover :
          Wire(rx, line, connected, IF reply = NoReply THEN e ELSE e \o Encode(reply))
  BY <1>1 DEF RedisInv, PlaceInv
<1> DEFINE x == IF reply = NoReply THEN e ELSE e \o Encode(reply)
<1>5. reply \in Text \cup {NoReply} /\ e \in Seq(Char) /\ x \in Seq(Char)
  BY Expected DEF RedisInv, RedisTypeOK
<1>6. Head(rx) = x[1] /\ x # <<>> /\ Tail(rx) \in Seq(Char) /\ Wire(Tail(rx), line, connected, Tail(x))
  <2> HIDE DEF x
  <2>1. rx \in Seq(Char) /\ line \in Seq(Char) /\ connected \in BOOLEAN
    BY DEF RedisInv, RedisTypeOK
  <2>2. Wire(rx, line, connected, x)
    BY <1>4 DEF x
  <2> QED
    BY <1>1, <1>5, <2>1, <2>2, WireTake
<1>7. e # <<>>
  <2> SUFFICES ASSUME e = <<>> PROVE FALSE
    OBVIOUS
  <2>1. reply \in Text
    BY <1>5, <1>6
  <2>2. x = Encode(reply)
    BY <2>1, Texts, EncodeParts
  <2> QED
    BY <1>1, <1>6, <2>1, <2>2, EncodeParts, Parts DEF CR, LF
<1>8. Tail(e) \in Leftover
  <2>1. Tail(<<LF>>) = <<>> /\ Tail(<<CR, LF>>) = <<LF>>
    OBVIOUS
  <2> QED
    BY <1>7, <2>1 DEF Leftover
<1>9. Tail(x) = IF reply = NoReply THEN Tail(e) ELSE Tail(e) \o Encode(reply)
  <2>1. CASE reply = NoReply
    BY <2>1
  <2>2. CASE reply # NoReply
    BY <2>2, <1>5, <1>7, ConcatHead, EncodeParts
  <2> QED
    BY <2>1, <2>2
<1>10. PlaceInv'
  <2> HIDE DEF x
  <2> QED
    BY <1>1, <1>2, <1>6, <1>8, <1>9 DEF PlaceInv, RedisInv
<1>11. GetAnswers'
  BY <1>1, <1>2 DEF GetAnswers
<1> QED
  BY <1>1, <1>2, <1>3, <1>6, <1>10, <1>11 DEF RedisInv

\* The first character that is not skipped is the type of the reply; there is
\* never an unknown one.
LEMMA ParseTypePlace ==
    ASSUME RedisInv, ParseType
    PROVE  RedisInv'
<1>1. stage = "type" /\ rx # <<>> /\ Head(rx) \notin {CR, LF} /\ rx' = Tail(rx)
  BY DEF ParseType, Skipped
<1>2. UNCHANGED <<line, connected, reply, gets>>
  BY DEF ParseType
<1>3. RedisTypeOK'
  BY RedisTypeStep DEF RedisInv, RedisNext, ParserNext
<1>4. PICK e \in Leftover :
          Wire(rx, line, connected, IF reply = NoReply THEN e ELSE e \o Encode(reply))
  BY <1>1 DEF RedisInv, PlaceInv
<1> DEFINE x == IF reply = NoReply THEN e ELSE e \o Encode(reply)
<1>5. reply \in Text \cup {NoReply} /\ e \in Seq(Char) /\ x \in Seq(Char)
  BY Expected DEF RedisInv, RedisTypeOK
<1>6. Head(rx) = x[1] /\ x # <<>> /\ Tail(rx) \in Seq(Char) /\ Wire(Tail(rx), line, connected, Tail(x))
  <2> HIDE DEF x
  <2>1. rx \in Seq(Char) /\ line \in Seq(Char) /\ connected \in BOOLEAN
    BY DEF RedisInv, RedisTypeOK
  <2>2. Wire(rx, line, connected, x)
    BY <1>4 DEF x
  <2> QED
    BY <1>1, <1>5, <2>1, <2>2, WireTake
<1>7. e = <<>>
  <2> SUFFICES ASSUME e # <<>> PROVE FALSE
    OBVIOUS
  <2>1. e[1] \in {CR, LF}
    BY DEF Leftover
  <2>2. x[1] = e[1]
    <3>1. CASE reply = NoReply
      BY <3>1
    <3>2. CASE reply # NoReply
      BY <3>2, <1>5, ConcatHead, EncodeParts
    <3> QED
      BY <3>1, <3>2
  <2> QED
    BY <1>1, <1>6, <2>1, <2>2
<1>8. reply \in Text /\ x = Encode(reply)
  <2>1. reply \in Text
    BY <1>5, <1>6, <1>7
  <2> QED
    BY <2>1, <1>7, Texts, EncodeParts
<1>9. Head(rx) = Kind(reply) /\ Kind(reply) \in {"$", "-"}
  BY <1>6, <1>8, EncodeParts, Parts
<1>10. stage' = "header" /\ kind' = Kind(reply) /\ data' = <<>>
  BY <1>9 DEF ParseType
<1>11. Begun' /\ Unread' = Header(reply)
  <2>1. Header(reply) \in Seq(Char) /\ Len(Header(reply)) \in Nat
    BY <1>8, Parts
  <2>2. Len(data') = 0 /\ SubSeq(Header(reply), 1, 0) = <<>> /\ 0 <= Len(Header(reply))
    BY <2>1, <1>10
  <2>3. SubSeq(Header(reply), 0 + 1, Len(Header(reply))) = Header(reply)
    BY <2>1, SubSeqFull
  <2> QED
    BY <1>2, <1>10, <2>2, <2>3 DEF Begun, Unread
<1>12. Wire(rx', line', connected', Unread' \o <<CR, LF>> \o Rest(reply))
  BY <1>1, <1>2, <1>6, <1>8, <1>11, EncodeParts
<1>13. PlaceInv'
  <2>1. gets' # 0
    BY <1>1, <1>2 DEF RedisInv, PlaceInv
  <2> QED
    BY <1>2, <1>8, <1>10, <1>11, <1>12, <2>1 DEF PlaceInv, RedisInv
<1>14. GetAnswers'
  BY <1>10 DEF GetAnswers
<1>15. data' \in Seq(Char)
  BY <1>10
<1> QED
  BY <1>1, <1>2, <1>3, <1>6, <1>13, <1>14, <1>15 DEF RedisInv

\* Without a connection and without bytes, get returns the null.
LEMMA DisconnectedPlace ==
    ASSUME RedisInv, Disconnected
    PROVE  RedisInv'
<1>1. stage = "type" /\ ~connected /\ rx = <<>> /\ stage' = "idle" /\ result' = Null
  BY DEF Disconnected, Lost, Connected, Return
<1>2. UNCHANGED <<kind, data, rx, line, connected, reply, gets>>
  BY DEF Disconnected, Return
<1>3. RedisTypeOK'
  BY RedisTypeStep DEF RedisInv, RedisNext, ParserNext
<1>4. line = <<>>
  BY <1>1 DEF RedisInv, PlaceInv, Wire
<1>5. Wire(rx, line, connected, <<>>) /\ <<>> \in Leftover
  <2>1. Wire(<<>>, <<>>, FALSE, <<>>)
    <3>1. <<>> \in Seq(Char)
      OBVIOUS
    <3> QED
      BY <3>1, WireCut
  <2>2. connected = FALSE
    BY <1>1 DEF RedisInv, RedisTypeOK
  <2> QED
    BY <1>1, <1>4, <2>1, <2>2 DEF Leftover
<1>6. PlaceInv'
  <2>1. gets' # 0
    BY <1>1, <1>2 DEF RedisInv, PlaceInv
  <2> QED
    BY <1>1, <1>2, <1>5, <2>1 DEF PlaceInv, RedisInv
<1>7. GetAnswers'
  BY <1>1, <1>2 DEF GetAnswers
<1> QED
  BY <1>2, <1>3, <1>6, <1>7 DEF RedisInv

\* The n-th element of h, after the first ones.
LEMMA Step ==
    ASSUME NEW S, NEW h \in Seq(S), NEW n \in Nat, n < Len(h)
    PROVE  /\ Append(SubSeq(h, 1, n), h[n + 1]) = SubSeq(h, 1, n + 1)
           /\ SubSeq(h, n + 1, Len(h)) # <<>>
           /\ SubSeq(h, n + 1, Len(h))[1] = h[n + 1]
           /\ Tail(SubSeq(h, n + 1, Len(h))) = SubSeq(h, n + 2, Len(h))
<1> DEFINE a == SubSeq(h, 1, n)
           b == SubSeq(h, 1, n + 1)
           c == SubSeq(h, n + 1, Len(h))
           d == SubSeq(h, n + 2, Len(h))
<1>1. Len(h) \in Nat /\ h[n + 1] \in S
  OBVIOUS
<1>2. a \in Seq(S) /\ Len(a) = n /\ \A i \in 1..n : a[i] = h[i]
  BY <1>1
<1>3. b \in Seq(S) /\ Len(b) = n + 1 /\ \A i \in 1..(n + 1) : b[i] = h[i]
  BY <1>1
<1>4. c \in Seq(S) /\ Len(c) = Len(h) - n /\ \A i \in 1..(Len(h) - n) : c[i] = h[n + i]
  BY <1>1
<1>5. d \in Seq(S) /\ Len(d) = Len(h) - n - 1 /\ \A i \in 1..(Len(h) - n - 1) : d[i] = h[n + 1 + i]
  BY <1>1
<1> HIDE DEF a, b, c, d
<1>6. Append(a, h[n + 1]) = b
  <2>1. /\ Append(a, h[n + 1]) \in Seq(S) /\ Len(Append(a, h[n + 1])) = n + 1
        /\ \A i \in 1..n : Append(a, h[n + 1])[i] = a[i]
        /\ Append(a, h[n + 1])[n + 1] = h[n + 1]
    BY <1>1, <1>2
  <2>2. \A i \in 1..(n + 1) : i \in 1..n \/ i = n + 1
    OBVIOUS
  <2>3. \A i \in 1..(n + 1) : Append(a, h[n + 1])[i] = b[i]
    BY <1>2, <1>3, <2>1, <2>2
  <2> QED
    BY <1>3, <2>1, <2>3, SeqEqual
<1>7. c # <<>> /\ c[1] = h[n + 1]
  BY <1>1, <1>4
<1>8. Tail(c) = d
  <2>1. /\ Tail(c) \in Seq(S) /\ Len(Tail(c)) = Len(h) - n - 1
        /\ \A i \in 1..(Len(h) - n - 1) : Tail(c)[i] = c[i + 1]
    BY <1>1, <1>4, <1>7
  <2>2. ASSUME NEW i \in 1..(Len(h) - n - 1) PROVE Tail(c)[i] = d[i]
    <3>1. i + 1 \in 1..(Len(h) - n) /\ n + (i + 1) = n + 1 + i
      BY <1>1
    <3> QED
      BY <1>4, <1>5, <2>1, <3>1
  <2> QED
    BY <1>5, <2>1, <2>2, SeqEqual
<1> QED
  BY <1>6, <1>7, <1>8 DEF a, b, c, d

\* A character of the header is appended to data, its CR ends it.
LEMMA ReadHeaderPlace ==
    ASSUME RedisInv, ReadHeader
    PROVE  RedisInv'
<1> DEFINE h == Header(reply)
           z == <<CR, LF>>
           x == Unread \o z \o Rest(reply)
<1>1. stage = "header" /\ rx # <<>> /\ rx' = Tail(rx)
  BY DEF ReadHeader
<1>2. UNCHANGED <<kind, result, line, connected, reply, gets>>
  BY DEF ReadHeader
<1>3. RedisTypeOK'
  BY RedisTypeStep DEF RedisInv, RedisNext, ParserNext
<1>4. reply \in Text /\ kind = Kind(reply) /\ Begun /\ Wire(rx, line, connected, x) /\ gets # 0
  BY <1>1 DEF RedisInv, PlaceInv
<1>5. /\ h \in Seq(Char) /\ Len(h) \in Nat /\ \A i \in 1..Len(h) : h[i] # CR
      /\ Rest(reply) \in Seq(Char)
  BY <1>4, Parts
<1>6. z \in Seq(Char) /\ z # <<>> /\ z[1] = CR /\ Tail(z) = <<LF>> /\ <<LF>> \in Seq(Char)
  <2>1. CR \in Char /\ LF \in Char
    BY DEF Char
  <2> QED
    BY <2>1
<1>7. rx \in Seq(Char) /\ line \in Seq(Char) /\ connected \in BOOLEAN /\ data \in Seq(Char)
  BY DEF RedisInv, RedisTypeOK
<1>8. Len(data) \in Nat /\ Len(data) <= Len(h) /\ data = SubSeq(h, 1, Len(data))
  BY <1>4, <1>7 DEF Begun
<1>9. Unread \in Seq(Char)
  BY <1>5, <1>8 DEF Unread
<1> HIDE DEF h, z
<1>10. Unread \o z \in Seq(Char) /\ Unread \o z # <<>> /\ x \in Seq(Char)
  <2>1. Unread \o z \in Seq(Char) /\ Unread \o z # <<>>
    BY <1>6, <1>9
  <2> DEFINE uz == Unread \o z
  <2> HIDE DEF uz
  <2>2. uz \o Rest(reply) \in Seq(Char)
    BY <1>5, <2>1 DEF uz
  <2> QED
    BY <2>1, <2>2 DEF uz
<1>11. x[1] = (Unread \o z)[1] /\ Tail(x) = Tail(Unread \o z) \o Rest(reply)
  <2> DEFINE s == Unread \o z
             u == Rest(reply)
  <2>1. s \in Seq(Char) /\ u \in Seq(Char) /\ s # <<>>
    BY <1>5, <1>10
  <2> HIDE DEF s, u
  <2>2. (s \o u)[1] = s[1] /\ Tail(s \o u) = Tail(s) \o u
    BY <2>1, ConcatHead
  <2> QED
    BY <2>2 DEF s, u
<1>12. Head(rx) = x[1] /\ Tail(rx) \in Seq(Char) /\ Wire(Tail(rx), line, connected, Tail(x))
  <2> HIDE DEF x
  <2> QED
    BY <1>1, <1>4, <1>7, <1>10, WireTake
<1>13. CASE Unread # <<>>
  <2>1. Len(data) < Len(h)
    <3>1. ASSUME Len(data) = Len(h) PROVE FALSE
      BY <3>1, <1>5, <1>8, <1>13 DEF Unread, h
    <3> QED
      BY <3>1, <1>5, <1>8
  <2>2. (Unread \o z)[1] = Unread[1] /\ Tail(Unread \o z) = Tail(Unread) \o z
    BY <1>6, <1>9, <1>13, ConcatHead
  <2>3. /\ Append(data, h[Len(data) + 1]) = SubSeq(h, 1, Len(data) + 1)
        /\ Unread[1] = h[Len(data) + 1]
        /\ Tail(Unread) = SubSeq(h, Len(data) + 2, Len(h))
    BY <1>5, <1>8, <2>1, Step DEF Unread, h
  <2>4. Head(rx) = h[Len(data) + 1] /\ Head(rx) # CR /\ Head(rx) \in Char
    BY <1>5, <1>8, <1>11, <1>12, <2>1, <2>2, <2>3
  <2>5. stage' = "header" /\ data' = Append(data, Head(rx))
    BY <1>1, <2>4 DEF ReadHeader
  <2>6. data' \in Seq(Char) /\ Len(data') = Len(data) + 1 /\ data' = SubSeq(h, 1, Len(data) + 1)
    BY <1>7, <2>3, <2>4, <2>5
  <2>7. Begun'
    BY <1>2, <1>5, <1>8, <2>1, <2>6 DEF Begun, h
  <2>8. Unread' = Tail(Unread)
    <3>1. Len(data') + 1 = Len(data) + 2
      BY <1>8, <2>6
    <3> QED
      BY <1>2, <2>3, <3>1 DEF Unread, h
  <2>9. Wire(rx', line', connected', Unread' \o z \o Rest(reply'))
    BY <1>1, <1>2, <1>11, <1>12, <2>2, <2>8
  <2>10. PlaceInv'
    BY <1>2, <1>4, <2>5, <2>7, <2>9 DEF PlaceInv, RedisInv, z
  <2>11. GetAnswers'
    BY <2>5 DEF GetAnswers
  <2> QED
    BY <1>1, <1>2, <1>3, <1>7, <1>12, <2>6, <2>10, <2>11 DEF RedisInv
<1>14. CASE Unread = <<>>
  <2>1. Len(data) = Len(h) /\ data = h
    <3>1. ASSUME Len(data) < Len(h) PROVE FALSE
      BY <3>1, <1>5, <1>8, <1>14, Step DEF Unread, h
    <3>2. Len(data) = Len(h)
      BY <3>1, <1>5, <1>8
    <3> QED
      BY <3>2, <1>5, <1>8, SubSeqFull
  <2>2. Unread \o z = z
    BY <1>6, <1>14
  <2>3. Head(rx) = CR /\ Tail(x) = <<LF>> \o Rest(reply)
    BY <1>6, <1>11, <1>12, <2>2
  <2>4. stage' = "lf" /\ data' = data
    BY <1>1, <2>3 DEF ReadHeader
  <2>5. Wire(rx', line', connected', <<LF>> \o Rest(reply'))
    BY <1>1, <1>2, <1>12, <2>3
  <2>6. PlaceInv'
    BY <1>2, <1>4, <2>1, <2>4, <2>5 DEF PlaceInv, RedisInv, h
  <2>7. GetAnswers'
    BY <2>4 DEF GetAnswers
  <2> QED
    BY <1>1, <1>2, <1>3, <1>7, <1>12, <2>4, <2>6, <2>7 DEF RedisInv
<1> QED
  BY <1>13, <1>14

\* readStringUntil gives up only when nothing will arrive any more.
LEMMA HeaderTimeoutPlace ==
    ASSUME RedisInv, HeaderTimeout
    PROVE  RedisInv'
<1>1. stage = "header" /\ ~connected /\ rx = <<>> /\ stage' = "lf"
  BY DEF HeaderTimeout, Connected
<1>2. UNCHANGED <<kind, data, result, rx, line, connected, reply, gets>>
  BY DEF HeaderTimeout
<1>3. RedisTypeOK'
  BY RedisTypeStep DEF RedisInv, RedisNext, ParserNext
<1>4. line = <<>> /\ Begun /\ reply \in Text /\ kind = Kind(reply) /\ gets # 0
  BY <1>1 DEF RedisInv, PlaceInv, Wire
<1>5. Cut' /\ Begun'
  BY <1>1, <1>2, <1>4 DEF Cut, Begun
<1>6. PlaceInv'
  BY <1>1, <1>2, <1>4, <1>5 DEF PlaceInv, RedisInv
<1>7. GetAnswers'
  BY <1>1 DEF GetAnswers
<1> QED
  BY <1>2, <1>3, <1>6, <1>7 DEF RedisInv

\* What toInt makes of the headers
LEMMA HeaderNumbers ==
    /\ Header(Null) = <<"-", "1">> /\ toInt(Header(Null)) = -1
    /\ \A v \in Value : Kind(v) = "$" /\ toInt(Header(v)) = Len(v)
    /\ \A text \in Text : Kind(text) = "-" => text \in Error
<1>1. Header(Null) = <<"-", "1">>
  BY DEF Header
<1>2. toInt(<<"-", "1">>) = -1 /\ toInt(<<"1", "0">>) = 2 /\ toInt(<<"1", "1">>) = 3
  BY DEF toInt
<1>3. ASSUME NEW v \in Value PROVE Kind(v) = "$" /\ toInt(Header(v)) = Len(v)
  <2>1. Len(v) \in {2, 3} /\ v # Null /\ v \notin Error
    BY Texts
  <2>2. Header(v) = IF Len(v) = 2 THEN <<"1", "0">> ELSE <<"1", "1">>
    BY <2>1 DEF Header, Digits
  <2> QED
    BY <1>2, <2>1, <2>2 DEF Kind
<1> QED
  BY <1>1, <1>2, <1>3 DEF Kind

\* Part of the error replied
PartOfError(text) == reply \in Error /\ \E n \in 1..Len(reply) : text = SubSeq(reply, 1, n)

\* Returning with a leftover on the wire and the reply in the result is a step
\* to a good place.
LEMMA ReturnPlace ==
    ASSUME RedisInv, RedisTypeOK', NEW text, Return(text), UNCHANGED <<line, connected, reply, gets>>,
           rx' \in Seq(Char), gets # 0, reply \in Text,
           NEW e \in Leftover, Wire(rx', line, connected, e),
           text = Answer(reply) \/ (~connected /\ (text = Null \/ PartOfError(text)))
    PROVE  RedisInv'
<1>1. stage' = "idle" /\ result' = text /\ data' = data
  BY DEF Return
<1>2. PlaceInv'
  BY <1>1, Texts DEF PlaceInv, RedisInv
<1>3. GetAnswers'
  BY <1>1 DEF GetAnswers, PartOfError
<1> QED
  BY <1>1, <1>2, <1>3 DEF RedisInv

\* The LF is discarded if it is there; where a body follows, it is.
LEMMA DiscardLFPlace ==
    ASSUME RedisInv, DiscardLF
    PROVE  RedisInv'
<1>1. stage = "lf" /\ rx' = (IF rx # <<>> THEN Tail(rx) ELSE rx) /\ AfterHeader
  BY DEF DiscardLF
<1>2. UNCHANGED <<line, connected, reply, gets>>
  BY DEF DiscardLF
<1>3. RedisTypeOK'
  BY RedisTypeStep DEF RedisInv, RedisNext, ParserNext
<1>4. reply \in Text /\ kind = Kind(reply) /\ gets # 0
  BY <1>1 DEF RedisInv, PlaceInv
<1>5. rx \in Seq(Char) /\ line \in Seq(Char) /\ connected \in BOOLEAN /\ data \in Seq(Char)
  BY DEF RedisInv, RedisTypeOK
<1>6. <<LF>> \in Seq(Char) /\ Tail(<<LF>>) = <<>> /\ Len(<<LF>>) = 1 /\ <<>> \in Seq(Char)
  <2>1. LF \in Char
    BY DEF Char
  <2> QED
    BY <2>1, Tuples
<1>7. Rest(reply) \in Seq(Char)
  BY <1>4, Parts
<1>8. CASE data = Header(reply) /\ Wire(rx, line, connected, <<LF>> \o Rest(reply))
  <2> DEFINE x == <<LF>> \o Rest(reply)
  <2>1. x \in Seq(Char) /\ Len(x) = 1 + Len(Rest(reply)) /\ Tail(x) = Rest(reply)
    <3> DEFINE s == <<LF>>
               u == Rest(reply)
    <3>1. s \in Seq(Char) /\ u \in Seq(Char) /\ s # <<>> /\ Len(s) = 1 /\ Tail(s) = <<>>
      BY <1>6, <1>7
    <3> HIDE DEF s, u
    <3>2. Tail(s \o u) = Tail(s) \o u
      BY <3>1, ConcatHead
    <3>3. <<>> \o u = u
      BY <3>1, ConcatEmptySeq
    <3>4. s \o u \in Seq(Char) /\ Len(s \o u) = Len(s) + Len(u)
      BY <3>1, ConcatProperties
    <3> QED
      BY <3>1, <3>2, <3>3, <3>4, Zenon DEF s, u
  <2> HIDE DEF x
  <2>2. rx # <<>> => Tail(rx) \in Seq(Char) /\ Wire(Tail(rx), line, connected, Rest(reply))
    <3>1. Wire(rx, line, connected, x)
      BY <1>8 DEF x
    <3>2. rx # <<>> => Tail(rx) \in Seq(Char) /\ Wire(Tail(rx), line, connected, Tail(x))
      BY <1>5, <2>1, <3>1, WireTake
    <3> QED
      BY <2>1, <3>2, Zenon
  <2>3. CASE reply \in Value
    <3>1. kind = "$" /\ toInt(data) = Len(reply) /\ Len(reply) \in {2, 3}
      BY <1>4, <1>8, <2>3, HeaderNumbers, Texts
    <3>2. stage' = "body" /\ UNCHANGED <<kind, data, result>>
      BY <1>1, <3>1 DEF AfterHeader
    <3>3. Rest(reply) = reply \o <<CR, LF>> /\ Len(Rest(reply)) = Len(reply) + 2
      <4>1. reply \in Seq(Char) /\ <<CR, LF>> \in Seq(Char) /\ Len(<<CR, LF>>) = 2
        <5>1. CR \in Char /\ LF \in Char
          BY DEF Char
        <5> QED
          BY <1>4, <5>1, Texts, Tuples
      <4> QED
        BY <2>3, <4>1, ConcatProperties DEF Rest
    <3>4. CASE rx # <<>>
      <4>1. Wire(rx', line, connected, Rest(reply)) /\ rx' \in Seq(Char)
        BY <1>1, <2>2, <3>4
      <4>2. PlaceInv'
        BY <1>2, <1>4, <1>8, <2>3, <3>2, <4>1 DEF PlaceInv, RedisInv
      <4> QED
        BY <1>2, <1>3, <1>5, <3>2, <4>1, <4>2 DEF RedisInv, GetAnswers
    <3>5. CASE rx = <<>>
      <4>1. ~connected
        <5> SUFFICES ASSUME connected PROVE FALSE
          OBVIOUS
        <5>1. Len(rx) + Len(line) = Len(x)
          BY <1>8 DEF Wire, x
        <5>2. Len(line) # Len(reply) + 3
          BY <2>3 DEF RedisInv, PlaceInv
        <5>3. Len(rx) = 0 /\ Len(line) \in Nat
          BY <1>5, <3>5
        <5>4. Len(x) = Len(reply) + 3
          BY <2>1, <3>1, <3>3
        <5> QED
          BY <5>1, <5>2, <5>3, <5>4, <3>1
      <4>2. line = <<>> /\ rx' = <<>>
        BY <1>1, <1>8, <3>5, <4>1 DEF Wire
      <4>3. Cut'
        BY <1>2, <4>1, <4>2 DEF Cut
      <4>4. PlaceInv'
        BY <1>2, <1>4, <3>2, <4>3 DEF PlaceInv, RedisInv
      <4> QED
        BY <1>2, <1>3, <1>5, <3>2, <4>2, <4>4 DEF RedisInv, GetAnswers
    <3> QED
      BY <3>4, <3>5
  <2>4. CASE reply \notin Value
    <3>1. (reply = Null \/ reply \in Error) /\ Rest(reply) = <<>> /\ Answer(reply) = reply
      BY <1>4, <2>4 DEF Text, Rest, Answer
    <3>2. Return(reply)
      <4>1. CASE reply = Null
        <5>1. kind = "$" /\ toInt(data) = -1
          BY <1>4, <1>8, <4>1, HeaderNumbers, Texts DEF Kind
        <5> QED
          BY <1>1, <4>1, <5>1 DEF AfterHeader
      <4>2. CASE reply \in Error
        <5>1. kind = "-" /\ data = reply
          BY <1>4, <1>8, <4>2, Texts DEF Kind, Header
        <5> QED
          BY <1>1, <5>1 DEF AfterHeader
      <4> QED
        BY <3>1, <4>1, <4>2
    <3>3. x = <<LF>>
      BY <1>6, <3>1 DEF x
    <3>4. rx' \in Seq(Char)
      BY <1>1, <1>5, <2>2
    <3>5. PICK e \in Leftover : Wire(rx', line, connected, e)
      <4>1. <<>> \in Leftover /\ <<LF>> \in Leftover
        BY DEF Leftover
      <4>2. CASE rx # <<>>
        BY <1>1, <2>2, <3>1, <4>1, <4>2
      <4>3. CASE rx = <<>>
        BY <1>1, <1>5, <1>8, <3>3, <4>1, <4>3 DEF x
      <4> QED
        BY <4>2, <4>3
    <3> QED
      BY <1>2, <1>3, <1>4, <3>1, <3>2, <3>4, <3>5, ReturnPlace
  <2> QED
    BY <2>3, <2>4
<1>9. CASE Cut /\ Begun
  <2>1. rx' = <<>> /\ rx = <<>> /\ line = <<>> /\ ~connected /\ connected = FALSE
    BY <1>1, <1>5, <1>9 DEF Cut
  <2>2. Wire(rx', line, connected, <<>>) /\ <<>> \in Leftover /\ rx' \in Seq(Char)
    BY <1>6, <2>1, WireCut DEF Leftover
  <2>3. CASE kind = "-"
    <3>1. reply \in Error /\ Header(reply) = reply
      BY <1>4, <2>3, HeaderNumbers, Texts DEF Header
    <3>2. data = Null \/ PartOfError(data)
      <4>1. Len(data) \in Nat /\ Len(reply) \in Nat
        BY <1>4, <1>5, Texts
      <4>2. Len(data) <= Len(reply) /\ data = SubSeq(reply, 1, Len(data))
        BY <1>9, <3>1 DEF Begun
      <4>3. CASE Len(data) = 0
        BY <1>5, <4>3 DEF Null
      <4>4. CASE Len(data) # 0
        <5>1. Len(data) \in 1..Len(reply)
          BY <4>1, <4>2, <4>4
        <5> QED
          BY <3>1, <4>2, <5>1 DEF PartOfError
      <4> QED
        BY <4>3, <4>4
    <3>3. Return(data)
      BY <1>1, <2>3 DEF AfterHeader
    <3>4. ~connected /\ (data = Null \/ PartOfError(data))
      BY <2>1, <3>2
    <3> QED
      BY <1>2, <1>3, <1>4, <2>2, <3>3, <3>4, ReturnPlace
  <2>4. CASE kind # "-" /\ toInt(data) = -1
    <3>1. Return(Null)
      BY <1>1, <2>4 DEF AfterHeader
    <3> QED
      BY <1>2, <1>3, <1>4, <2>1, <2>2, <3>1, ReturnPlace
  <2>5. CASE kind # "-" /\ toInt(data) # -1
    <3>1. stage' = "body" /\ UNCHANGED <<kind, data, result>>
      BY <1>1, <2>5 DEF AfterHeader
    <3>2. Cut'
      BY <1>2, <2>1 DEF Cut
    <3>3. PlaceInv'
      BY <1>2, <1>4, <3>1, <3>2 DEF PlaceInv, RedisInv
    <3> QED
      BY <1>2, <1>3, <1>5, <2>2, <3>1, <3>3 DEF RedisInv, GetAnswers
  <2> QED
    BY <2>3, <2>4, <2>5
<1> QED
  BY <1>1, <1>8, <1>9 DEF RedisInv, PlaceInv

\* What get returns is the whole body; CR and LF stay for the next get.
LEMMA ReadBodyPlace ==
    ASSUME RedisInv, ReadBody
    PROVE  RedisInv'
<1>1. /\ stage = "body" /\ Len(rx) >= Body /\ rx' = SubSeq(rx, Body + 1, Len(rx))
      /\ Return(CString(SubSeq(rx, 1, Body)))
  BY DEF ReadBody
<1>2. UNCHANGED <<line, connected, reply, gets>>
  BY DEF ReadBody
<1>3. RedisTypeOK'
  BY RedisTypeStep DEF RedisInv, RedisNext, ParserNext
<1>4. reply \in Text /\ gets # 0
  BY <1>1 DEF RedisInv, PlaceInv
<1>5. rx \in Seq(Char) /\ line \in Seq(Char) /\ connected \in BOOLEAN
  BY DEF RedisInv, RedisTypeOK
<1>6. CASE reply \in Value /\ data = Header(reply) /\ Wire(rx, line, connected, Rest(reply))
  <2>1. Body = Len(reply) /\ Len(reply) \in Nat
    BY <1>6, HeaderNumbers, Texts DEF Body
  <2>2. reply \in Seq(Char) /\ <<CR, LF>> \in Seq(Char)
    <3>1. CR \in Char /\ LF \in Char
      BY DEF Char
    <3> QED
      BY <1>4, <3>1, Texts, Tuples
  <2>3. Wire(rx, line, connected, reply \o <<CR, LF>>)
    BY <1>6 DEF Rest
  <2> DEFINE z == <<CR, LF>>
  <2>4. z \in Leftover /\ z \in Seq(Char) /\ reply \in Seq(Char)
    BY <2>2 DEF Leftover
  <2>5. Wire(rx, line, connected, reply \o z) /\ Len(rx) >= Len(reply)
    BY <1>1, <2>1, <2>3
  <2> HIDE DEF z
  <2>6. /\ SubSeq(rx, 1, Len(reply)) = reply
        /\ SubSeq(rx, Len(reply) + 1, Len(rx)) \in Seq(Char)
        /\ Wire(SubSeq(rx, Len(reply) + 1, Len(rx)), line, connected, z)
    BY <1>5, <2>4, <2>5, WireTakeSeveral
  <2>7. rx' \in Seq(Char) /\ Wire(rx', line, connected, z) /\ Return(Answer(reply))
    BY <1>1, <1>6, <2>1, <2>6 DEF Answer
  <2> QED
    BY <1>2, <1>3, <1>4, <2>4, <2>7, ReturnPlace
<1>7. CASE Cut
  <2>1. rx = <<>> /\ line = <<>> /\ ~connected /\ connected = FALSE
    BY <1>5, <1>7 DEF Cut
  <2>2. Body = 0
    <3>1. Body \in 0..3 /\ Len(rx) = 0
      BY <1>1, <2>1 DEF RedisInv, RedisTypeOK, Body
    <3> QED
      BY <1>1, <3>1
  <2>3. rx' = <<>> /\ Return(Null)
    <3>1. SubSeq(rx, 1, 0) = <<>> /\ SubSeq(rx, 1, Len(rx)) = rx
      BY <1>5, SubSeqEmpty, SubSeqFull
    <3>2. SubSeq(rx, Body + 1, Len(rx)) = rx /\ SubSeq(rx, 1, Body) = Null
      BY <2>2, <3>1 DEF Null
    <3>3. CString(Null) = Null
      BY DEF CString, Null
    <3> QED
      BY <1>1, <2>1, <3>2, <3>3
  <2>4. rx' \in Seq(Char) /\ <<>> \in Leftover /\ Wire(rx', line, connected, <<>>)
    <3>1. <<>> \in Seq(Char)
      OBVIOUS
    <3> QED
      BY <2>1, <2>3, <3>1, WireCut DEF Leftover
  <2> QED
    BY <1>2, <1>3, <1>4, <2>1, <2>3, <2>4, ReturnPlace
<1> QED
  BY <1>1, <1>6, <1>7 DEF RedisInv, PlaceInv

\* exit(-1) is the end.
LEMMA BodyTimeoutPlace ==
    ASSUME RedisInv, BodyTimeout
    PROVE  RedisInv'
<1>1. stage = "body" /\ ~connected /\ stage' = "exited" /\ rx' = <<>>
  BY DEF BodyTimeout
<1>2. UNCHANGED <<kind, data, result, line, connected, reply, gets>>
  BY DEF BodyTimeout
<1>3. RedisTypeOK'
  BY RedisTypeStep DEF RedisInv, RedisNext, ParserNext
<1>4. gets # 0
  BY <1>1 DEF RedisInv, PlaceInv
<1>5. PlaceInv'
  BY <1>1, <1>2, <1>4 DEF PlaceInv
<1>6. rx' \in Seq(Char)
  BY <1>1
<1> QED
  BY <1>1, <1>2, <1>3, <1>5, <1>6 DEF RedisInv, GetAnswers

\* The server replies only while parseType waits (or after the exit).
LEMMA ReplyPlace ==
    ASSUME RedisInv, NEW text \in Text, Reply(text)
    PROVE  RedisInv'
<1>1. /\ connected /\ gets > 0 /\ reply = NoReply /\ reply' = text /\ line' = line \o Encode(text)
      /\ UNCHANGED <<stage, kind, data, result, rx, connected, gets>>
  BY DEF Reply, parserVars
<1>2. RedisTypeOK'
  BY RedisTypeStep DEF RedisInv, RedisNext, ServerNext
<1>3. rx \in Seq(Char) /\ line \in Seq(Char) /\ data \in Seq(Char) /\ connected = TRUE /\ gets # 0
  BY <1>1, RedisAssumption DEF RedisInv, RedisTypeOK
<1>4. Encode(text) \in Seq(Char) /\ Len(Encode(text)) = Len(Header(text)) + Len(Rest(text)) + 3
  BY EncodeParts
<1>5. line' \in Seq(Char) /\ Len(line') = Len(line) + Len(Encode(text))
  BY <1>1, <1>3, <1>4, ConcatProperties
<1>6. stage \in {"type", "exited"}
  BY <1>1, Texts DEF RedisInv, RedisTypeOK, PlaceInv
<1>7. ASSUME text \in Value PROVE Len(line') # Len(text) + 3
  <2>1. Len(text) \in {2, 3} /\ text \in Seq(Char)
    BY <1>7, Texts
  <2>2. Len(Rest(text)) = Len(text) + 2
    <3>1. <<CR, LF>> \in Seq(Char) /\ Len(<<CR, LF>>) = 2
      <4>1. CR \in Char /\ LF \in Char
        BY DEF Char
      <4> QED
        BY <4>1, Tuples
    <3> QED
      BY <1>7, <2>1, <3>1, ConcatProperties DEF Rest
  <2>3. Len(Header(text)) = 2 /\ Len(line) \in Nat
    <3>1. Header(text) = Digits(Len(text))
      BY <1>7, Texts DEF Header
    <3>2. Len(Digits(Len(text))) = 2
      BY DEF Digits
    <3> QED
      BY <1>3, <3>1, <3>2
  <2> QED
    BY <1>4, <1>5, <2>1, <2>2, <2>3
<1>8. ASSUME stage = "type"
      PROVE  \E e \in Leftover : Wire(rx, line', connected, e \o Encode(text))
  <2>1. PICK e \in Leftover : Wire(rx, line, connected, e)
    BY <1>1, <1>8 DEF RedisInv, PlaceInv
  <2>2. e \in Seq(Char)
    BY Expected DEF RedisInv, RedisTypeOK
  <2>3. Wire(rx, line \o Encode(text), TRUE, e \o Encode(text))
    BY <1>3, <1>4, <2>1, <2>2, WireSend
  <2> QED
    BY <1>1, <1>3, <2>3
<1>9. PlaceInv'
  BY <1>1, <1>3, <1>6, <1>7, <1>8, Texts DEF PlaceInv
<1>10. GetAnswers'
  BY <1>1, <1>6 DEF GetAnswers
<1> QED
  BY <1>1, <1>2, <1>3, <1>5, <1>9, <1>10 DEF RedisInv

\* What only moves bytes towards the parser, or loses the last of them, leaves
\* the parser where it is.
LEMMA MovePlace ==
    ASSUME RedisInv, RedisTypeOK', UNCHANGED <<parserVars, reply, gets>>,
           rx' \in Seq(Char), line' \in Seq(Char),
           connected' => connected, Cut => Cut',
           connected' /\ reply \in Value => Len(line') # Len(reply) + 3,
           \A e \in Seq(Char) : Wire(rx, line, connected, e) => Wire(rx', line', connected', e)
    PROVE  RedisInv'
<1>1. UNCHANGED <<stage, kind, data, result, reply, gets>>
  BY DEF parserVars
<1>2. data \in Seq(Char) /\ connected \in BOOLEAN /\ connected' \in BOOLEAN
  BY DEF RedisInv, RedisTypeOK
<1>3. gets = 0 => stage = "idle" /\ reply = NoReply /\ Wire(rx', line', connected', <<>>)
  <2>1. <<>> \in Seq(Char)
    OBVIOUS
  <2> QED
    BY <2>1 DEF RedisInv, PlaceInv
<1>4. stage = "idle" /\ gets > 0 =>
         /\ \E e \in Leftover : Wire(rx', line', connected', e)
         /\ connected' => reply # NoReply
  BY Expected DEF RedisInv, PlaceInv, RedisTypeOK
<1>5. stage = "type" =>
         \E e \in Leftover :
             Wire(rx', line', connected', IF reply = NoReply THEN e ELSE e \o Encode(reply))
  <2> SUFFICES ASSUME stage = "type"
               PROVE  \E e \in Leftover :
                          Wire(rx', line', connected',
                               IF reply = NoReply THEN e ELSE e \o Encode(reply))
    OBVIOUS
  <2>1. PICK e \in Leftover :
            Wire(rx, line, connected, IF reply = NoReply THEN e ELSE e \o Encode(reply))
    BY DEF RedisInv, PlaceInv
  <2>2. (IF reply = NoReply THEN e ELSE e \o Encode(reply)) \in Seq(Char)
    BY Expected DEF RedisInv, RedisTypeOK
  <2> QED
    BY <2>1, <2>2
<1>6. ASSUME stage = "header"
      PROVE  Begun /\ Wire(rx', line', connected', Unread \o <<CR, LF>> \o Rest(reply))
  <2>1. Begun /\ Wire(rx, line, connected, Unread \o <<CR, LF>> \o Rest(reply)) /\ reply \in Text
    BY <1>6 DEF RedisInv, PlaceInv
  <2>2. Header(reply) \in Seq(Char) /\ Rest(reply) \in Seq(Char)
    BY <2>1, Parts
  <2>3. Unread \in Seq(Char)
    BY <1>2, <2>1, <2>2 DEF Unread, Begun
  <2>4. <<CR, LF>> \in Seq(Char)
    <3>1. CR \in Char /\ LF \in Char
      BY DEF Char
    <3> QED
      BY <3>1, Tuples
  <2>5. Unread \o <<CR, LF>> \in Seq(Char)
    BY <2>3, <2>4, ConcatProperties
  <2>6. Unread \o <<CR, LF>> \o Rest(reply) \in Seq(Char)
    BY <2>2, <2>5, ConcatProperties
  <2> QED
    BY <2>1, <2>6
<1>7. ASSUME stage = "lf"
      PROVE  \/ data = Header(reply) /\ Wire(rx', line', connected', <<LF>> \o Rest(reply))
             \/ Cut' /\ Begun
  <2>1. reply \in Text
    BY <1>7 DEF RedisInv, PlaceInv
  <2>2. <<LF>> \o Rest(reply) \in Seq(Char)
    <3>1. LF \in Char
      BY DEF Char
    <3>2. <<LF>> \in Seq(Char) /\ Rest(reply) \in Seq(Char)
      BY <2>1, <3>1, Tuples, Parts
    <3> QED
      BY <3>2, ConcatProperties
  <2> QED
    BY <1>7, <2>2 DEF RedisInv, PlaceInv
<1>8. ASSUME stage = "body"
      PROVE  \/ reply \in Value /\ data = Header(reply) /\ Wire(rx', line', connected', Rest(reply))
             \/ Cut'
  <2>1. Rest(reply) \in Seq(Char)
    BY <1>8, Parts DEF RedisInv, PlaceInv
  <2> QED
    BY <1>8, <2>1 DEF RedisInv, PlaceInv
<1>9. stage \in {"header", "lf", "body"} => reply \in Text /\ kind = Kind(reply)
  BY DEF RedisInv, PlaceInv
<1>10. Begun' = Begun /\ Unread' = Unread
  BY <1>1 DEF Begun, Unread
<1>11. PlaceInv'
  BY <1>1, <1>3, <1>4, <1>5, <1>6, <1>7, <1>8, <1>9, <1>10 DEF PlaceInv
<1>12. GetAnswers'
  BY <1>1, <1>2 DEF RedisInv, GetAnswers
<1> QED
  BY <1>1, <1>2, <1>11, <1>12 DEF RedisInv

\* A piece that does not end between a header's CR and LF arrives.
LEMMA ArrivePlace ==
    ASSUME RedisInv, ~HeaderCut, NEW n \in 1..Len(line), Arrive(n)
    PROVE  RedisInv'
<1>1. /\ connected /\ ~HeaderCR(n) /\ rx' = rx \o SubSeq(line, 1, n)
      /\ line' = SubSeq(line, n + 1, Len(line)) /\ UNCHANGED <<parserVars, connected, reply, gets>>
  BY DEF Arrive
<1>2. RedisTypeOK'
  BY RedisTypeStep DEF RedisInv, RedisNext, ServerNext
<1>3. rx \in Seq(Char) /\ line \in Seq(Char) /\ connected \in BOOLEAN
  BY DEF RedisInv, RedisTypeOK
<1>4. \A e \in Seq(Char) : Wire(rx, line, connected, e) => Wire(rx', line', connected', e)
  BY <1>1, <1>3, WireArrive
<1>5. rx' \in Seq(Char) /\ line' \in Seq(Char) /\ Len(line') = Len(line) - n
  <2>1. SubSeq(line, 1, n) \in Seq(Char) /\ n \in Nat /\ Len(line) \in Nat /\ n <= Len(line)
    BY <1>3
  <2>2. line' \in Seq(Char) /\ Len(line') = Len(line) - n
    BY <1>1, <1>3, <2>1, SubSeqProperties
  <2> QED
    BY <1>1, <1>3, <2>1, <2>2, ConcatProperties
<1>6. reply \in Value => Len(line') # Len(reply) + 3
  BY <1>1, <1>5 DEF HeaderCR
<1>7. Cut => Cut'
  BY <1>1 DEF Cut
<1> QED
  BY <1>1, <1>2, <1>4, <1>5, <1>6, <1>7, MovePlace

\* The connection breaks.
LEMMA BreakPlace ==
    ASSUME RedisInv, Break
    PROVE  RedisInv'
<1>1. connected /\ connected' = FALSE /\ line' = <<>> /\ UNCHANGED <<parserVars, rx, reply, gets>>
  BY DEF Break
<1>2. RedisTypeOK'
  BY RedisTypeStep DEF RedisInv, RedisNext
<1>3. rx \in Seq(Char) /\ line \in Seq(Char) /\ connected \in BOOLEAN
  BY DEF RedisInv, RedisTypeOK
<1>4. \A e \in Seq(Char) : Wire(rx, line, connected, e) => Wire(rx', line', connected', e)
  BY <1>1, <1>3, WireBreak
<1>5. rx' \in Seq(Char) /\ line' \in Seq(Char)
  BY <1>1, <1>3
<1>6. Cut => Cut'
  BY <1>1 DEF Cut
<1> QED
  BY <1>1, <1>2, <1>4, <1>5, <1>6, MovePlace

-----------------------------------------------------------------------------

\* Each get returns what the server replied to its own command (of a value the
\* part before its first NUL, of an error the text), or the null or a part of
\* the error's text once the connection is lost, as long as no reply arrives
\* cut between the CR and the LF of its header: for values of any characters
\* (CR, LF, type characters and digits included), for any number of gets,
\* wherever else TCP cuts the replies and whenever the connection breaks.
THEOREM RedisGetAnswers ==
    ASSUME ~HeaderCut
    PROVE  RedisSpec => []GetAnswers
<1>1. RedisInit => RedisInv
  <2> SUFFICES ASSUME RedisInit PROVE RedisInv
    OBVIOUS
  <2>1. RedisTypeOK
    BY RedisAssumption DEF RedisInit, RedisTypeOK
  <2>2. rx = <<>> /\ line = <<>> /\ data = <<>> /\ <<>> \in Seq(Char)
    BY DEF RedisInit
  <2>3. Len(<<>>) = 0 /\ 1..0 = {} /\ 0 + 0 = 0
    OBVIOUS
  <2>4. Wire(rx, line, connected, <<>>)
    BY <2>2, <2>3 DEF Wire
  <2>5. reply \notin Value
    BY Texts DEF RedisInit, Text
  <2>6. PlaceInv
    <3>1. stage = "idle" /\ gets = 0 /\ ~(gets > 0) /\ reply = NoReply
      BY DEF RedisInit
    <3> QED
      BY <2>4, <2>5, <3>1 DEF PlaceInv
  <2> QED
    BY <2>1, <2>2, <2>6 DEF RedisInit, RedisInv, GetAnswers
<1>2. RedisInv /\ [RedisNext]_redisVars => RedisInv'
  <2> SUFFICES ASSUME RedisInv, [RedisNext]_redisVars PROVE RedisInv'
    OBVIOUS
  <2>1. CASE UNCHANGED redisVars
    <3>1. /\ UNCHANGED <<parserVars, reply, gets>>
          /\ UNCHANGED <<rx, line, connected>>
      BY <2>1 DEF redisVars
    <3>2. RedisTypeOK'
      BY RedisTypeStep DEF RedisInv
    <3>3. rx' \in Seq(Char) /\ line' \in Seq(Char) /\ (Cut => Cut')
      BY <3>1 DEF RedisInv, Cut
    <3>4. connected' /\ reply \in Value => Len(line') # Len(reply) + 3
      BY <3>1 DEF RedisInv, PlaceInv
    <3>5. \A e \in Seq(Char) : Wire(rx, line, connected, e) => Wire(rx', line', connected', e)
      BY <3>1
    <3> QED
      BY <3>1, <3>2, <3>3, <3>4, <3>5, MovePlace
  <2>2. CASE Issue \/ Break
    BY <2>2, IssuePlace, BreakPlace
  <2>3. CASE Skip \/ ParseType \/ Disconnected
    BY <2>3, SkipPlace, ParseTypePlace, DisconnectedPlace
  <2>4. CASE ReadHeader \/ HeaderTimeout \/ DiscardLF
    BY <2>4, ReadHeaderPlace, HeaderTimeoutPlace, DiscardLFPlace
  <2>5. CASE ReadBody \/ BodyTimeout
    BY <2>5, ReadBodyPlace, BodyTimeoutPlace
  <2>6. CASE \E text \in Text : Reply(text)
    BY <2>6, ReplyPlace
  <2>7. CASE \E n \in 1..Len(line) : Arrive(n)
    BY <2>7, ArrivePlace
  <2> QED
    BY <2>1, <2>2, <2>3, <2>4, <2>5, <2>6, <2>7 DEF RedisNext, ParserNext, ServerNext
<1>3. RedisInv => GetAnswers
  BY DEF RedisInv
<1> QED
  BY <1>1, <1>2, <1>3, PTL DEF RedisSpec

=============================================================================
