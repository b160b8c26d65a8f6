-------------------------- MODULE CertVerifyProofs --------------------------
(***************************************************************************)
(* Proofs about cert_verify.sh on top of the chain, the loggers and the    *)
(* store, for any number of endpoints, employees, CAs, tickets and faults. *)
(* The script decides by a copy of what the key held; the copy outlives    *)
(* the key, but not the ticket, which the chain keeps for ever.            *)
(***************************************************************************)
EXTENDS CertVerify, TicketStoreProofs

\* Ticket t was issued by the script's endpoint for the user id.
IssuedFor(t, uid) ==
    /\ t \in DOMAIN issued
    /\ issued[t].contract = ENDPOINT
    /\ issued[t].ticket.employee_id = uid

\* What the script knows at each of its steps.
ScriptInv ==
    /\ cpc \in {"idle", "query", "check_ca", "verify"}
    /\ cert \in ClientCert \cup {Undecodable}
    /\ verdict \in {"none", "accept", "reject"}
    /\ cpc # "idle" => verdict = "none" /\ cert \in ClientCert
    /\ cpc \in {"idle", "query"} => tempfile = NoFile
    /\ cpc = "check_ca" => tempfile = 0 \/ IssuedFor(tempfile, first64[cert.uid])
    /\ cpc = "verify" => IssuedFor(tempfile, first64[cert.uid])
    /\ verdict = "accept" =>
          \E k \in DOMAIN issued : IssuedFor(k, first64[cert.uid]) /\ issued[k].ticket.data.ca = cert.ca

CertInv == StoreInv /\ ScriptInv

\* An issued ticket stays on the chain as it is.
LEMMA TicketsStay ==
    ASSUME StoreInv, [StoreNext]_storeVars
    PROVE  \A k \in DOMAIN issued : k \in DOMAIN issued' /\ issued'[k] = issued[k]
<1>1. CASE issued' = issued
  BY <1>1
<1>2. CASE \E i : issued' = Append(issued, i)
  BY <1>2 DEF StoreInv, StoreTypeOK, ChainTypeOK
<1>3. ASSUME NEW ep \in EndPoint, NEW sender \in Account, NEW data \in TicketData,
             Issue(ep, sender, data)
      PROVE  \E i : issued' = Append(issued, i)
  BY <1>3 DEF Issue, CreateTicket
<1>4. ASSUME NEW ep \in EndPoint,
             \/ ProcessTicket(ep) \/ SkipTicket(ep) \/ Exit(ep)
             \/ Start(ep) \/ RedisSet(ep) \/ RedisRefuse(ep)
      PROVE  issued' = issued
  BY <1>4 DEF ProcessTicket, SkipTicket, Exit, Start, RedisSet, RedisRefuse, chainVars
<1>5. CASE Tick \/ RedisRestart \/ UNCHANGED storeVars
  BY <1>1, <1>5 DEF Tick, NewBlock, RedisRestart, storeVars, chainVars
<1>6. CASE RegistryNext /\ UNCHANGED <<now, issued, up, feed, sets, store, faults>>
  BY <1>1, <1>6
<1> QED
  BY <1>1, <1>2, <1>3, <1>4, <1>5, <1>6 DEF StoreNext

\* Whatever happens to the chain, the loggers and the store between two steps
\* of the script, what it knows stays true.
LEMMA ScriptWaits ==
    ASSUME CertInv, [StoreNext]_storeVars, UNCHANGED scriptVars
    PROVE  CertInv'
<1>1. StoreInv'
  BY StoreStep DEF CertInv
<1>2. \A k \in DOMAIN issued : k \in DOMAIN issued' /\ issued'[k] = issued[k]
  BY TicketsStay DEF CertInv
<1>3. \A t, uid : IssuedFor(t, uid) => (IssuedFor(t, uid))'
  BY <1>2 DEF IssuedFor
<1>4. UNCHANGED <<cpc, cert, tempfile, verdict>>
  BY DEF scriptVars
<1>5. ASSUME verdict = "accept"
      PROVE  \E k \in DOMAIN issued' :
                (IssuedFor(k, first64[cert.uid]))' /\ issued'[k].ticket.data.ca = cert.ca
  <2>1. PICK k \in DOMAIN issued : IssuedFor(k, first64[cert.uid]) /\ issued[k].ticket.data.ca = cert.ca
    BY <1>5 DEF CertInv, ScriptInv
  <2>2. (IssuedFor(k, first64[cert.uid]))' /\ k \in DOMAIN issued' /\ issued'[k].ticket.data.ca = cert.ca
    BY <1>2, <1>4, <2>1 DEF IssuedFor
  <2> QED
    BY <2>2
<1>6. (IssuedFor(tempfile, first64[cert.uid])) => (IssuedFor(tempfile, first64[cert.uid]))'
  BY <1>2, <1>4 DEF IssuedFor
<1> QED
  BY <1>1, <1>4, <1>5, <1>6 DEF CertInv, ScriptInv

\* A step of the script leaves the tickets alone.
LEMMA ScriptAlone ==
    ASSUME StoreInv, UNCHANGED storeVars
    PROVE  /\ StoreInv' /\ issued' = issued
           /\ \A t, uid : (IssuedFor(t, uid))' <=> IssuedFor(t, uid)
<1>1. StoreInv'
  BY StoreStep
<1>2. issued' = issued
  BY DEF storeVars, chainVars
<1> QED
  BY <1>1, <1>2 DEF IssuedFor

\* What GET gives is a ticket of the endpoint and the user id, or nothing.
LEMMA FetchedFacts ==
    ASSUME StoreInv, NEW uid \in EmployeeId \cup {NoUid}
    PROVE  Fetched(uid) = 0 \/ IssuedFor(Fetched(uid), uid)
<1> DEFINE q == [endpoint |-> endpoint_id[ENDPOINT], employee |-> uid, kind |-> "cert"]
           t == store[q].ticket
<1>1. CASE uid = NoUid
  BY <1>1 DEF Fetched
<1>2. CASE uid # NoUid /\ t # 0
  <2>1. q \in Key
    BY <1>2, CertAssumption DEF Key, EndPointId
  <2>2. t \in DOMAIN issued /\ key(t) = q
    BY <1>2, <2>1 DEF StoreInv, StoreTypeOK, OrderInv, StoreOwn
  <2>3. /\ issued[t].ticket.employee_id = uid
        /\ issued[t].ticket.endpoint_id = endpoint_id[ENDPOINT]
    BY <2>2 DEF key
  <2>4. issued[t].contract = ENDPOINT
    BY <2>2, <2>3, TicketFacts, StoreAssumption, CertAssumption
  <2> QED
    BY <1>2, <2>2, <2>3, <2>4 DEF Fetched, IssuedFor
<1>3. CASE uid # NoUid /\ t = 0
  BY <1>3 DEF Fetched
<1> QED
  BY <1>1, <1>2, <1>3

\* The steps of the script keep what it knows.
LEMMA ScriptStep ==
    ASSUME CertInv,
           \/ \E c \in ClientCert \cup {Undecodable} : Decode(c)
           \/ Query \/ QueryError \/ InvalidCA \/ ValidCA \/ Verify
    PROVE  CertInv'
<1>1. UNCHANGED storeVars
  BY DEF Decode, Query, QueryError, InvalidCA, ValidCA, Verify
<1>2. /\ StoreInv' /\ issued' = issued
      /\ \A t, uid : (IssuedFor(t, uid))' <=> IssuedFor(t, uid)
  BY <1>1, ScriptAlone DEF CertInv
<1>3. SUFFICES ScriptInv'
  BY <1>2 DEF CertInv
<1>4. ASSUME NEW c \in ClientCert \cup {Undecodable}, Decode(c) PROVE ScriptInv'
  BY <1>4 DEF Decode, CertInv, ScriptInv
<1>5. CASE Query
  <2>1. cert \in ClientCert /\ first64[cert.uid] \in EmployeeId \cup {NoUid} /\ verdict = "none"
    BY <1>5, CertAssumption DEF Query, CertInv, ScriptInv, ClientCert
  <2>2. /\ cpc' = "check_ca" /\ cert' = cert /\ verdict' = verdict
        /\ tempfile' = Fetched(first64[cert.uid])
    BY <1>5 DEF Query
  <2>3. tempfile' = 0 \/ (IssuedFor(tempfile, first64[cert.uid]))'
    BY <1>2, <2>1, <2>2, FetchedFacts DEF CertInv, IssuedFor
  <2> QED
    BY <2>1, <2>2, <2>3 DEF ScriptInv
<1>6. CASE QueryError
  BY <1>6 DEF QueryError, Exits, CertInv, ScriptInv
<1>7. CASE InvalidCA
  BY <1>7 DEF InvalidCA, Exits, CertInv, ScriptInv
<1>8. CASE ValidCA
  <2>1. /\ cpc' = "verify" /\ verdict' = "none" /\ cert' \in ClientCert
        /\ IssuedFor(tempfile, first64[cert.uid])
    BY <1>8 DEF ValidCA, IsCA, CertInv, ScriptInv
  <2>2. (IssuedFor(tempfile, first64[cert.uid]))'
    BY <1>2, <1>8, <2>1 DEF ValidCA, IssuedFor
  <2> QED
    BY <2>1, <2>2 DEF ScriptInv
<1>9. CASE Verify
  <2>1. /\ cpc' = "idle" /\ tempfile' = NoFile /\ cert' = cert
        /\ verdict' \in {"accept", "reject"}
        /\ verdict' = "accept" => issued[tempfile].ticket.data.ca = cert.ca
    BY <1>9 DEF Verify, Exits
  <2>2. IssuedFor(tempfile, first64[cert.uid]) /\ tempfile \in DOMAIN issued
    BY <1>9 DEF Verify, CertInv, ScriptInv, IssuedFor
  <2>3. ASSUME verdict' = "accept"
        PROVE  \E k \in DOMAIN issued' :
                  (IssuedFor(k, first64[cert.uid]))' /\ issued'[k].ticket.data.ca = cert'.ca
    <3>1. issued[tempfile].ticket.data.ca = cert.ca
      BY <2>1, <2>3
    <3>2. \A k \in DOMAIN issued : IssuedFor(k, first64[cert.uid]) => (IssuedFor(k, first64[cert.uid]))'
      BY <1>2, <2>1 DEF IssuedFor
    <3> QED
      BY <1>2, <2>1, <2>2, <3>1, <3>2
  <2>4. cert' \in ClientCert \cup {Undecodable}
    BY <2>1 DEF CertInv, ScriptInv
  <2> QED
    BY <2>1, <2>3, <2>4 DEF ScriptInv
<1> QED
  BY <1>4, <1>5, <1>6, <1>7, <1>8, <1>9

\* Every step of the whole keeps the invariant.
LEMMA CertStep == ASSUME CertInv, [CertNext]_certVars PROVE CertInv'
<1>1. CASE StoreNext /\ UNCHANGED scriptVars
  BY <1>1, ScriptWaits
<1>2. CASE UNCHANGED certVars
  BY <1>2, ScriptWaits DEF certVars
<1> QED
  BY <1>1, <1>2, ScriptStep DEF CertNext

\* Before the first run there is no file and no verdict.
LEMMA CertInitInv == CertInit => CertInv
BY StoreInitInv DEF CertInit, CertInv, ScriptInv

-----------------------------------------------------------------------------
(* The theorems *)

\* What the script knows holds in every reachable state.
THEOREM CertInvariant == CertSpec => []CertInv
BY CertInitInv, CertStep, PTL DEF CertSpec

\* The file holds the payload of a ticket of the chain, or nothing.
THEOREM CertTypeCorrect == CertSpec => []CertTypeOK
<1>1. ASSUME CertInv PROVE CertTypeOK
  BY <1>1 DEF CertInv, StoreInv, ScriptInv, IssuedFor, CertTypeOK
<1> QED
  BY <1>1, CertInvariant, PTL

\* cert_verify.sh exits with 0 only for a certificate whose user id is that of
\* an account which got a ticket with the CA of this certificate from this
\* endpoint, whatever was delayed, lost, replaced, expired or restarted.
THEOREM CertAcceptedHolder == CertSpec => []AcceptedHolder
<1>1. ASSUME CertInv, verdict = "accept"
      PROVE  \E k \in DOMAIN issued :
                /\ issued[k].contract = ENDPOINT
                /\ issued[k].ticket.data.ca = cert.ca
                /\ At(employee_addrs[issued[k].sender]).employee_id = first64[cert.uid]
  <2>1. PICK k \in DOMAIN issued : IssuedFor(k, first64[cert.uid]) /\ issued[k].ticket.data.ca = cert.ca
    BY <1>1 DEF CertInv, ScriptInv
  <2>2. At(employee_addrs[issued[k].sender]).employee_id = issued[k].ticket.employee_id
    BY <1>1 DEF CertInv, StoreInv, ChainInv, TicketsAuthentic
  <2> QED
    BY <2>1, <2>2 DEF IssuedFor
<1>2. CertInv => AcceptedHolder
  BY <1>1 DEF AcceptedHolder
<1> QED
  BY <1>2, CertInvariant, PTL

\* cert_verify.sh only reads the store: with it the loggers, the server and the
\* chain behave as TicketStore says.
THEOREM CertImplementsStore == CertSpec => StoreSpec
<1>1. CertInit => StoreInit
  BY DEF CertInit
<1>2. [CertNext]_certVars => [StoreNext]_storeVars
  BY DEF CertNext, Decode, Query, QueryError, InvalidCA, ValidCA, Verify, certVars
<1> QED
  BY <1>1, <1>2, PTL DEF CertSpec, StoreSpec

\* From the chain to the script's exit: tickets name their holders, each id one
\* account; the store holds what these holders asked for, and nothing replaced
\* by an older ticket.
THEOREM CertKeepsStore ==
    CertSpec => [](TicketsAuthentic /\ HolderUnique /\ StoreAuthentic) /\ NoRollback
<1>1. StoreInv => TicketsAuthentic /\ HolderUnique
  BY HoldersDiffer DEF StoreInv, ChainInv
<1> QED
  BY <1>1, CertImplementsStore, StoreInvariant, StoreHoldsAuthentic, StoreNeverRollsBack, PTL

\* No exit of the script leaves the temporary file behind.
THEOREM CertFileRemoved == CertSpec => []FileRemoved
<1>1. CertInv => FileRemoved
  BY DEF CertInv, ScriptInv, FileRemoved
<1> QED
  BY <1>1, CertInvariant, PTL

-----------------------------------------------------------------------------
(***************************************************************************)
(* Proof of what the loggers are for: as long as nothing fails and they    *)
(* run before the first ticket, a readable ticket does not get lost before *)
(* its validity period is over.  The step that could lose it is the expiry *)
(* of its key, whose time starts later than the ticket's.                  *)
(***************************************************************************)

\* The end of a ticket's validity period.
End(k) == issued[k].ticket.timestamp + issued[k].ticket.validity_length

In(k, s) == \E n \in DOMAIN s : s[n] = k

\* The ticket's payload can be read and its EX argument is not too large.
Storable(k) == Readable(k) /\ Ex(k) <= MaxEx

\* k is on its way, or its key holds it or a later ticket.
Kept(k) ==
    \/ In(k, feed[issued[k].contract])
    \/ In(k, sets[issued[k].contract])
    \/ store[key(k)].ticket >= k

\* Loggers run, no key expires before the ticket it holds, and what is valid
\* is kept.
AvailInv ==
    /\ \A ep \in EndPoint : up[ep]
    /\ \A q \in Key : store[q].ticket # 0 => store[q].expires >= End(store[q].ticket)
    /\ \A k \in DOMAIN issued : Storable(k) /\ now < End(k) => Kept(k)

\* Queues lose only their heads,
LEMMA InTail ==
    ASSUME NEW S, NEW s \in Seq(S), s # <<>>, NEW k, In(k, s), k # Head(s)
    PROVE  In(k, Tail(s))
<1>1. PICK n \in DOMAIN s : s[n] = k
  BY DEF In
<1>2. n # 1 /\ n \in 1..Len(s) /\ Len(s) \in Nat
  BY <1>1
<1>3. n - 1 \in DOMAIN Tail(s) /\ Tail(s)[n - 1] = s[n]
  BY <1>2
<1> QED
  BY <1>1, <1>3 DEF In

\* and gain an end.
LEMMA InAppend ==
    ASSUME NEW S, NEW s \in Seq(S), NEW x \in S, NEW k, In(k, s) \/ k = x
    PROVE  In(k, Append(s, x))
<1>1. CASE In(k, s)
  <2>1. PICK n \in DOMAIN s : s[n] = k
    BY <1>1 DEF In
  <2>2. n \in DOMAIN Append(s, x) /\ Append(s, x)[n] = s[n]
    OBVIOUS
  <2> QED
    BY <2>1, <2>2 DEF In
<1>2. CASE k = x
  <2>1. Len(s) + 1 \in DOMAIN Append(s, x) /\ Append(s, x)[Len(s) + 1] = x
    OBVIOUS
  <2> QED
    BY <1>2, <2>1 DEF In
<1> QED
  BY <1>1, <1>2

\* The times of a ticket are numbers, its EX argument is no less than its
\* validity, and zero only if that is.
LEMMA TicketTimes ==
    ASSUME StoreInv, NEW k \in DOMAIN issued
    PROVE  /\ k \in Nat /\ k # 0 /\ now \in Nat
           /\ issued[k].ticket.timestamp \in Nat /\ issued[k].ticket.timestamp <= now
           /\ issued[k].ticket.validity_length \in Nat
           /\ End(k) \in Nat
           /\ Ex(k) \in Nat /\ Ex(k) >= issued[k].ticket.validity_length
           /\ Ex(k) = 0 => End(k) <= now
<1>1. issued[k] \in TicketIssued /\ now \in Nat /\ k \in Nat /\ k # 0
  BY DEF StoreInv, StoreTypeOK, ChainTypeOK
<1>2. /\ issued[k].ticket.timestamp \in Nat
      /\ issued[k].ticket.validity_length \in Nat
  BY <1>1 DEF TicketIssued, Ticket
<1>3. issued[k].ticket.timestamp <= now
  BY <1>1 DEF StoreInv, ChainInv, TimestampsOrdered
<1>4. Ex(k) \in Nat /\ Ex(k) >= issued[k].ticket.validity_length
  BY <1>2 DEF Ex
<1> QED
  BY <1>1, <1>2, <1>3, <1>4 DEF End

\* Of two tickets of one key the later ends later.
LEMMA LaterEndsLater ==
    ASSUME StoreInv, NEW j \in DOMAIN issued, NEW k \in DOMAIN issued, j <= k, key(j) = key(k)
    PROVE  End(j) <= End(k)
<1>1. issued[j].ticket.endpoint_id = issued[k].ticket.endpoint_id
  BY DEF key
<1>2. issued[j].contract = issued[k].contract
  BY <1>1, TicketFacts, StoreAssumption
<1>3. issued[j].ticket.validity_length = issued[k].ticket.validity_length
  BY <1>2 DEF StoreInv, ChainInv, TicketsAuthentic
<1>4. issued[j].ticket.timestamp <= issued[k].ticket.timestamp
  BY DEF StoreInv, ChainInv, TimestampsOrdered
<1> QED
  BY <1>3, <1>4, TicketTimes DEF End

\* At first there are no tickets.
LEMMA AvailInitInv == ASSUME LoggersFirst, StoreInit PROVE AvailInv
BY DEF StoreInit, Missing, AvailInv

-----------------------------------------------------------------------------
(* The steps *)

\* A step that issues nothing, leaves the loggers up, and keeps each valid
\* ticket it finds kept, and each key for the time of its ticket.
LEMMA QuietAvail ==
    ASSUME StoreInv, AvailInv, issued' = issued, up' = up,
           now \in Nat, now' \in Nat, now <= now',
           \A q \in Key : store'[q].ticket # 0 => store'[q].expires >= End(store'[q].ticket),
           \A k \in DOMAIN issued : Storable(k) /\ now' < End(k) /\ Kept(k) => (Kept(k))'
    PROVE  AvailInv'
<1>1. \A k : (End(k))' = End(k) /\ (key(k))' = key(k)
  BY DEF End, key
<1>2. \A k : (Storable(k))' => Storable(k)
  BY DEF Storable, Readable, Ex
<1>3. \A q \in Key : store'[q].ticket # 0 => store'[q].expires >= (End(store[q].ticket))'
  BY DEF End
<1>4. ASSUME NEW k \in DOMAIN issued, (Storable(k))', now' < End(k)
      PROVE  (Kept(k))'
  <2>1. Storable(k)
    BY <1>2, <1>4
  <2>2. now < End(k)
    BY <1>4, TicketTimes
  <2>3. Kept(k)
    BY <2>1, <2>2 DEF AvailInv
  <2> QED
    BY <1>4, <2>1, <2>3
<1>5. \A k \in DOMAIN issued' : (Storable(k))' /\ now' < (End(k))' => (Kept(k))'
  BY <1>1, <1>4
<1>6. \A ep \in EndPoint : up'[ep]
  BY DEF AvailInv
<1> QED
  BY <1>3, <1>5, <1>6 DEF AvailInv

\* Issuing: the new event is in the feed, because the logger is up.
LEMMA IssueAvail ==
    ASSUME StoreInv, AvailInv, NEW ep \in EndPoint, NEW sender \in Account,
           NEW data \in TicketData, Issue(ep, sender, data)
    PROVE  AvailInv'
<1> DEFINE L == Len(issued)
<1>1. \E i : i.contract = ep /\ issued' = Append(issued, i)
  <2> DEFINE i == [contract |-> ep, sender |-> sender,
                   ticket |-> NewTicket(ep, get_employee_address(sender).employee, data)]
  <2>1. i.contract = ep /\ issued' = Append(issued, i)
    BY DEF Issue, CreateTicket
  <2> QED
    BY <2>1
<1>2. /\ L \in Nat /\ DOMAIN issued = 1..L /\ DOMAIN issued' = 1..(L + 1) /\ Len(issued') = L + 1
      /\ \A k \in 1..L : issued'[k] = issued[k]
      /\ issued'[L + 1].contract = ep
  <2>1. issued \in Seq(TicketIssued)
    BY DEF StoreInv, StoreTypeOK, ChainTypeOK
  <2>2. PICK i : i.contract = ep /\ issued' = Append(issued, i)
    BY <1>1
  <2> HIDE DEF L
  <2>3. L \in Nat /\ DOMAIN issued = 1..L
    BY <2>1 DEF L
  <2>4. DOMAIN issued' = 1..(L + 1) /\ Len(issued') = L + 1
    BY <2>1, <2>2, <2>3 DEF L
  <2>5. \A k \in 1..L : issued'[k] = issued[k]
    BY <2>1, <2>2, <2>3 DEF L
  <2>6. issued'[L + 1] = i
    BY <2>1, <2>2, <2>3 DEF L
  <2> QED
    BY <2>2, <2>3, <2>4, <2>5, <2>6
<1>3. UNCHANGED <<up, sets, store, now>>
  BY DEF Issue, CreateTicket
<1>4. feed' = [feed EXCEPT ![ep] = Append(feed[ep], L + 1)]
  BY <1>2 DEF Issue, AvailInv
<1>5. \A q \in Key : store[q].ticket \in {0} \cup 1..L
  BY TicketNumbers DEF StoreInv
<1>6. \A e \in EndPoint : feed[e] \in Seq(1..L)
  BY TicketNumbers DEF StoreInv
<1> HIDE DEF L
<1>7. feed[ep] \in Seq(1..(L + 1)) /\ L + 1 \in 1..(L + 1)
  BY <1>2, <1>6
<1>8. \A k : In(k, feed[ep]) \/ k = L + 1 => In(k, Append(feed[ep], L + 1))
  BY <1>7, InAppend
<1>9. /\ feed'[ep] = Append(feed[ep], L + 1)
      /\ \A e \in EndPoint : e # ep => feed'[e] = feed[e]
  BY <1>4 DEF StoreInv, StoreTypeOK
<1>10. /\ In(L + 1, feed'[ep])
       /\ \A e \in EndPoint : \A k : In(k, feed[e]) => In(k, feed'[e])
  BY <1>8, <1>9
<1>11. \A k \in 1..L : (End(k))' = End(k) /\ (key(k))' = key(k)
  BY <1>2 DEF End, key
<1>12. \A k \in 1..L : (Storable(k))' => Storable(k)
  BY <1>2 DEF Storable, Readable, Ex
<1>13. ASSUME NEW q \in Key, store'[q].ticket # 0
       PROVE  store'[q].expires >= (End(store[q].ticket))'
  <2>1. store[q].ticket \in 1..L /\ store[q].expires >= End(store[q].ticket)
    BY <1>3, <1>5, <1>13 DEF AvailInv
  <2>2. (End(store[q].ticket))' = End(store[q].ticket)
    BY <1>2, <1>3, <2>1 DEF End
  <2> QED
    BY <1>3, <2>1, <2>2
<1>14. ASSUME NEW k \in 1..L, (Storable(k))', now' < (End(k))'
       PROVE  (Kept(k))'
  <2>1. Kept(k)
    BY <1>2, <1>3, <1>11, <1>12, <1>14 DEF AvailInv
  <2>2. issued'[k].contract = issued[k].contract /\ issued[k].contract \in EndPoint
    BY <1>2, TicketFacts
  <2>3. (key(k))' = key(k)
    BY <1>11
  <2>4. CASE In(k, feed[issued[k].contract])
    BY <1>10, <2>2, <2>4 DEF Kept
  <2>5. CASE In(k, sets[issued[k].contract])
    BY <1>3, <2>2, <2>5 DEF Kept
  <2>6. CASE store[key(k)].ticket >= k
    BY <1>3, <2>3, <2>6 DEF Kept
  <2> QED
    BY <2>1, <2>4, <2>5, <2>6 DEF Kept
<1>15. ASSUME NEW k, k = L + 1
       PROVE  (Kept(k))'
  <2>1. In(k, feed'[issued'[k].contract])
    BY <1>2, <1>10, <1>15
  <2> QED
    BY <2>1 DEF Kept
<1>16. ASSUME NEW k \in DOMAIN issued', (Storable(k))', now' < (End(k))'
       PROVE  (Kept(k))'
  <2>1. k \in 1..L \/ k = L + 1
    BY <1>2
  <2> QED
    BY <1>14, <1>15, <1>16, <2>1
<1> QED
  BY <1>3, <1>13, <1>16 DEF AvailInv

\* An event becomes a command, or is skipped because nobody can read it.
LEMMA HandleAvail ==
    ASSUME StoreInv, AvailInv, NEW ep \in EndPoint, ProcessTicket(ep) \/ SkipTicket(ep)
    PROVE  AvailInv'
<1> DEFINE h == Head(feed[ep])
<1>1. /\ UNCHANGED <<issued, now, up, store>>
      /\ feed[ep] # <<>>
      /\ feed' = [feed EXCEPT ![ep] = Tail(feed[ep])]
  BY DEF ProcessTicket, SkipTicket, chainVars
<1>2. feed[ep] \in Seq(DOMAIN issued) /\ sets[ep] \in Seq(DOMAIN issued)
  BY DEF StoreInv, StoreTypeOK
<1>3. h \in DOMAIN issued
  BY <1>1, <1>2, TailAt
<1>4. /\ \A k : In(k, feed[ep]) /\ k # h => In(k, Tail(feed[ep]))
      /\ \A k : In(k, sets[ep]) \/ k = h => In(k, Append(sets[ep], h))
  BY <1>1, <1>2, <1>3, InTail, InAppend
<1>5. /\ feed'[ep] = Tail(feed[ep])
      /\ \A e \in EndPoint : e # ep => feed'[e] = feed[e]
  BY <1>1 DEF StoreInv, StoreTypeOK
<1>6. \/ ~Readable(h) /\ sets' = sets
      \/ sets' = [sets EXCEPT ![ep] = Append(sets[ep], h)]
  BY DEF ProcessTicket, SkipTicket
<1> HIDE DEF h
<1>7. ASSUME NEW k, Readable(k), NEW e \in EndPoint, In(k, feed[e]) \/ In(k, sets[e])
      PROVE  In(k, feed'[e]) \/ In(k, sets'[e])
  <2>1. CASE sets' = sets /\ k # h
    BY <1>4, <1>5, <1>7, <2>1
  <2>2. CASE sets' = [sets EXCEPT ![ep] = Append(sets[ep], h)]
    <3>1. /\ sets'[ep] = Append(sets[ep], h)
          /\ \A f \in EndPoint : f # ep => sets'[f] = sets[f]
      BY <2>2 DEF StoreInv, StoreTypeOK
    <3> QED
      BY <1>4, <1>5, <1>7, <3>1
  <2> QED
    BY <1>6, <1>7, <2>1, <2>2
<1>8. ASSUME NEW k \in DOMAIN issued, Readable(k), Kept(k)
      PROVE  (Kept(k))'
  <2>1. issued[k].contract \in EndPoint
    BY TicketFacts
  <2>2. (key(k))' = key(k)
    BY <1>1 DEF key
  <2> QED
    BY <1>1, <1>7, <1>8, <2>1, <2>2 DEF Kept
<1>9. now \in Nat /\ now' \in Nat /\ now <= now'
  BY <1>1 DEF StoreInv, StoreTypeOK, ChainTypeOK
<1>10. \A q \in Key : store'[q].ticket # 0 => store'[q].expires >= End(store'[q].ticket)
  BY <1>1 DEF AvailInv
<1> QED
  BY <1>1, <1>8, <1>9, <1>10, QuietAvail DEF Storable

\* A command is executed, or refused because the validity is zero and thus
\* over, or too large.
LEMMA ExecuteAvail ==
    ASSUME StoreInv, AvailInv, NEW ep \in EndPoint, RedisSet(ep) \/ RedisRefuse(ep)
    PROVE  AvailInv'
<1> DEFINE h == Head(sets[ep])
<1>1. /\ UNCHANGED <<issued, now, up, feed>>
      /\ sets[ep] # <<>>
      /\ sets' = [sets EXCEPT ![ep] = Tail(sets[ep])]
  BY DEF RedisSet, RedisRefuse, chainVars
<1>2. sets[ep] \in Seq(DOMAIN issued)
  BY DEF StoreInv, StoreTypeOK
<1>3. h \in DOMAIN issued
  BY <1>1, <1>2, TailAt
<1>4. \A k : In(k, sets[ep]) /\ k # h => In(k, Tail(sets[ep]))
  BY <1>1, <1>2, InTail
<1>5. /\ sets'[ep] = Tail(sets[ep])
      /\ \A e \in EndPoint : e # ep => sets'[e] = sets[e]
  BY <1>1 DEF StoreInv, StoreTypeOK
<1>6. \/ store' = [store EXCEPT ![key(h)] = [ticket |-> h, expires |-> now + Ex(h)]]
      \/ store' = store /\ Ex(h) \notin 1..MaxEx
  BY DEF RedisSet, RedisRefuse
<1>7. NotRolledBack
  BY RedisSetStep, RefuseShrinks, ChainUnchanged, ShrinksStep
  DEF RedisRefuse, chainVars, StoreInv
<1> HIDE DEF h
<1>8. key(h) \in Key
  BY <1>3, TicketFacts
<1>9. /\ \A q \in Key : q # key(h) => store'[q] = store[q]
      /\ \/ store'[key(h)] = [ticket |-> h, expires |-> now + Ex(h)]
         \/ store' = store /\ Ex(h) \notin 1..MaxEx
  BY <1>6, <1>8 DEF StoreInv, StoreTypeOK
<1>10. now \in Nat /\ now' \in Nat /\ now <= now'
  BY <1>1 DEF StoreInv, StoreTypeOK, ChainTypeOK
<1>11. now + Ex(h) >= End(h)
  BY <1>3, TicketTimes DEF End
<1>12. ASSUME NEW q \in Key, store'[q].ticket # 0
       PROVE  store'[q].expires >= End(store'[q].ticket)
  <2>1. CASE store'[q] = store[q]
    BY <1>12, <2>1 DEF AvailInv
  <2>2. CASE store'[q] = [ticket |-> h, expires |-> now + Ex(h)]
    BY <1>11, <2>2
  <2> QED
    BY <1>9, <2>1, <2>2
<1>13. ASSUME NEW k \in DOMAIN issued, Storable(k), now' < End(k), Kept(k)
       PROVE  (Kept(k))'
  <2>1. issued[k].contract \in EndPoint /\ key(k) \in Key /\ k \in Nat /\ k # 0
    BY TicketFacts, TicketTimes
  <2>2. (key(k))' = key(k)
    BY <1>1 DEF key
  <2>3. CASE store[key(k)].ticket >= k
    <3>1. store'[key(k)].ticket >= k
      <4>1. store[key(k)].ticket \in Nat /\ h \in Nat /\ h # 0
        <5> DEFINE t == store[key(k)].ticket
        <5>1. t \in {0} \cup 1..Len(issued) /\ Len(issued) \in Nat
          BY <2>1, TicketNumbers DEF StoreInv
        <5> HIDE DEF t
        <5>2. t \in Nat
          BY <5>1
        <5>3. h \in Nat /\ h # 0
          BY <1>3, TicketTimes
        <5> QED
          BY <5>2, <5>3 DEF t
      <4>2. CASE store'[key(k)] = store[key(k)]
        BY <2>3, <4>2
      <4>3. CASE store'[key(k)] = [ticket |-> h, expires |-> now + Ex(h)]
        BY <1>7, <2>1, <2>3, <4>1, <4>3 DEF NotRolledBack
      <4> QED
        BY <1>9, <2>1, <4>2, <4>3
    <3> QED
      BY <2>2, <3>1 DEF Kept
  <2>4. CASE In(k, feed[issued[k].contract])
    BY <1>1, <2>4 DEF Kept
  <2>5. CASE In(k, sets[issued[k].contract]) /\ (issued[k].contract # ep \/ k # h)
    <3>1. In(k, sets'[issued[k].contract])
      BY <1>4, <1>5, <2>1, <2>5
    <3> QED
      BY <1>1, <3>1 DEF Kept
  <2>6. CASE k = h
    <3>1. Ex(h) \in Nat /\ Ex(h) # 0 /\ Ex(h) <= MaxEx
      BY <1>1, <1>3, <1>10, <1>13, <2>6, TicketTimes DEF Storable
    <3>2. Ex(h) \in 1..MaxEx
      BY <3>1, StoreAssumption
    <3>3. store'[key(k)].ticket = k
      BY <1>9, <2>6, <3>2
    <3> QED
      BY <2>1, <2>2, <3>3 DEF Kept
  <2> QED
    BY <1>13, <2>3, <2>4, <2>5, <2>6 DEF Kept
<1> QED
  BY <1>1, <1>10, <1>12, <1>13, QuietAvail

\* Time passes: a key that expires holds a ticket that is over, and so is
\* every earlier ticket of that key.
LEMMA TickAvail == ASSUME StoreInv, AvailInv, Tick PROVE AvailInv'
<1>1. UNCHANGED <<issued, up, feed, sets>> /\ store' = Expire(now')
  BY DEF Tick, NewBlock, loggerVars
<1>2. now \in Nat /\ now' \in Nat /\ now <= now'
  BY DEF Tick, NewBlock, StoreInv, StoreTypeOK, ChainTypeOK
<1>3. \A q \in Key :
          \/ store[q].expires <= now' /\ store'[q] = Missing
          \/ ~(store[q].expires <= now') /\ store'[q] = store[q]
  BY <1>1 DEF Expire
<1>4. \A q \in Key : store'[q].ticket # 0 => store'[q].expires >= End(store'[q].ticket)
  BY <1>3 DEF Missing, AvailInv
<1>5. ASSUME NEW k \in DOMAIN issued, now' < End(k), Kept(k)
      PROVE  (Kept(k))'
  <2>1. (key(k))' = key(k)
    BY <1>1 DEF key
  <2>2. CASE In(k, feed[issued[k].contract]) \/ In(k, sets[issued[k].contract])
    BY <1>1, <2>2 DEF Kept
  <2>3. CASE store[key(k)].ticket >= k
    <3> DEFINE t == store[key(k)].ticket
    <3>1. key(k) \in Key /\ k \in Nat /\ k # 0 /\ End(k) \in Nat
      BY TicketFacts, TicketTimes
    <3>2. t \in {0} \cup DOMAIN issued /\ DOMAIN issued \subseteq Nat
      BY <3>1 DEF StoreInv, StoreTypeOK, ChainTypeOK
    <3>3. t \in DOMAIN issued /\ t # 0
      BY <2>3, <3>1, <3>2
    <3>4. key(t) = key(k)
      BY <3>1, <3>3 DEF StoreInv, OrderInv, StoreOwn
    <3>5. End(k) <= End(t) /\ End(t) \in Nat
      BY <2>3, <3>3, <3>4, LaterEndsLater, TicketTimes
    <3>6. store[key(k)].expires >= End(t) /\ store[key(k)].expires \in Nat
      BY <3>1, <3>3 DEF AvailInv, StoreInv, StoreTypeOK
    <3>7. ~(store[key(k)].expires <= now')
      BY <1>2, <1>5, <3>1, <3>5, <3>6, SMTT(30)
    <3>8. store'[key(k)] = store[key(k)]
      BY <1>3, <3>1, <3>7
    <3> QED
      BY <2>1, <2>3, <3>8 DEF Kept
  <2> QED
    BY <1>5, <2>2, <2>3 DEF Kept
<1> QED
  BY <1>1, <1>2, <1>4, <1>5, QuietAvail

\* A step that leaves events, commands and keys alone.
LEMMA IdleAvail ==
    ASSUME StoreInv, AvailInv, UNCHANGED <<now, issued, up, feed, sets, store>>
    PROVE  AvailInv'
BY DEF AvailInv, End, Kept, In, key, Kind, Storable, Readable, Ex

\* A fault is counted, and no step takes one back.
LEMMA FaultsCounted ==
    ASSUME StoreInv, [StoreNext]_storeVars, faults' = 0
    PROVE  /\ faults = 0
           /\ ~RedisRestart
           /\ \A ep \in EndPoint : ~Exit(ep)
<1>1. faults \in Nat
  <2>1. faults \in 0..MaxFaults
    BY Zenon DEF StoreInv, StoreTypeOK
  <2> QED
    BY <2>1, StoreAssumption
<1>2. ~RedisRestart /\ \A ep \in EndPoint : ~Exit(ep)
  BY <1>1 DEF RedisRestart, Exit
<1>3. faults' = faults
  BY <1>2 DEF StoreNext, Issue, ProcessTicket, SkipTicket, Start, RedisSet, RedisRefuse, Tick,
              loggerVars, storeVars
<1> QED
  BY <1>2, <1>3

\* Until a fault every step keeps the invariant.
LEMMA AvailStep ==
    ASSUME StoreInv, faults = 0 => AvailInv, [StoreNext]_storeVars, faults' = 0
    PROVE  AvailInv'
<1>1. AvailInv
  BY FaultsCounted
<1>2. CASE RegistryNext /\ UNCHANGED <<now, issued, up, feed, sets, store, faults>>
  BY <1>1, <1>2, IdleAvail
<1>3. CASE \E ep \in EndPoint, sender \in Account, data \in TicketData : Issue(ep, sender, data)
  BY <1>1, <1>3, IssueAvail
<1>4. CASE \E ep \in EndPoint : ProcessTicket(ep) \/ SkipTicket(ep)
  BY <1>1, <1>4, HandleAvail
<1>5. CASE \E ep \in EndPoint : RedisSet(ep) \/ RedisRefuse(ep)
  BY <1>1, <1>5, ExecuteAvail
<1>6. ASSUME NEW ep \in EndPoint PROVE ~Exit(ep) /\ ~Start(ep)
  BY <1>1, FaultsCounted DEF Start, AvailInv
<1>7. ~RedisRestart
  BY FaultsCounted
<1>8. CASE Tick
  BY <1>1, <1>8, TickAvail
<1>9. CASE UNCHANGED storeVars
  <2>1. UNCHANGED <<now, issued, up, feed, sets, store>>
    BY <1>9 DEF storeVars, chainVars
  <2> QED
    BY <1>1, <2>1, IdleAvail
<1> QED
  BY <1>2, <1>3, <1>4, <1>5, <1>6, <1>7, <1>8, <1>9 DEF StoreNext

-----------------------------------------------------------------------------

\* With the loggers subscribed first, until something fails, a readable ticket
\* whose validity period is not over, and not beyond the range of EX, is in the
\* store, replaced there by a later one, or on its way to it: for any number of
\* endpoints, employees and tickets and any validity periods.
THEOREM StoreAvailable ==
    ASSUME LoggersFirst
    PROVE  StoreSpec => []AvailableWhileValid
<1>1. StoreInit => (faults = 0 => AvailInv)
  BY AvailInitInv
<1>2. StoreInv /\ (faults = 0 => AvailInv) /\ [StoreNext]_storeVars => (faults = 0 => AvailInv)'
  BY AvailStep
<1>3. (faults = 0 => AvailInv) => AvailableWhileValid
  BY DEF AvailInv, AvailableWhileValid, Storable, Kept, In, End
<1> QED
  BY <1>1, <1>2, <1>3, StoreInvariant, PTL DEF StoreSpec

=============================================================================
