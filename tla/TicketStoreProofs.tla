-------------------------- MODULE TicketStoreProofs --------------------------
(***************************************************************************)
(* Proofs about the way of a ticket into the store, for any number of      *)
(* endpoints, employees, tickets and faults: what a key holds is a ticket  *)
(* of its endpoint and its employee, and never an older one than before.   *)
(***************************************************************************)
EXTENDS TicketStore, TicketGranterProofs

-----------------------------------------------------------------------------
(* The migrated registry *)

\* The state the migrations leave is one the registry's invariant allows.
LEMMA MigratedInv == Migrated => RegistryInv
<1> SUFFICES ASSUME Migrated PROVE RegistryInv
  OBVIOUS
<1> DEFINE rec(n) == [exists |-> TRUE, employee_id |-> staff[n][1],
                      employee_address |-> staff[n][2], employee_obj |-> n, active |-> TRUE]
           tail == [n \in 1..Len(staff) |-> rec(n)]
<1>1. /\ staff \in Seq(EmployeeId \X Addr) /\ Len(staff) \in Nat
      /\ DOMAIN staff = 1..Len(staff)
      /\ \A n \in 1..Len(staff) : staff[n][1] \in EmployeeId /\ staff[n][2] \in Addr
      /\ \A m, n \in 1..Len(staff) : staff[m][1] = staff[n][1] => m = n
      /\ \A m, n \in 1..Len(staff) : staff[m][2] = staff[n][2] => m = n
  BY StoreAssumption
<1>2. /\ EmptyRecord \in EmployeeRecord /\ ~EmptyRecord.exists
      /\ \A n \in 1..Len(staff) : rec(n) \in EmployeeRecord
  BY <1>1, RegistryAssumption DEF EmployeeRecord, EmptyRecord
<1>3. tail \in Seq(EmployeeRecord) /\ Len(tail) = Len(staff)
      /\ \A n \in 1..Len(staff) : tail[n] = rec(n)
  <2> HIDE DEF rec
  <2> QED
    BY <1>1, <1>2
<1>4. records = <<EmptyRecord>> \o tail
  BY DEF Migrated
<1>5. /\ records \in Seq(EmployeeRecord)
      /\ Len(records) = Len(staff) + 1
      /\ records[1] = EmptyRecord
      /\ \A n \in 1..Len(staff) : records[n + 1] = rec(n)
  <2> HIDE DEF rec, tail
  <2>1. <<EmptyRecord>> \in Seq(EmployeeRecord) /\ Len(<<EmptyRecord>>) = 1
        /\ <<EmptyRecord>>[1] = EmptyRecord
    BY <1>2
  <2> QED
    BY <1>1, <1>3, <1>4, <2>1
<1>6. \A id \in EmployeeId :
          \/ employee_ids[id] = 0
          \/ /\ employee_ids[id] \in 1..Len(staff)
             /\ staff[employee_ids[id]][1] = id
  BY <1>1 DEF Migrated
<1>7. \A a \in Addr :
          \/ employee_addrs[a] = 0
          \/ /\ employee_addrs[a] \in 1..Len(staff)
             /\ staff[employee_addrs[a]][2] = a
  BY <1>1 DEF Migrated
<1>8. \A n \in 1..Len(staff) :
          employee_ids[staff[n][1]] = n /\ employee_addrs[staff[n][2]] = n
  BY <1>1 DEF Migrated
<1>9. /\ empolyees \in Seq(Empolyee) /\ Len(empolyees) = Len(staff)
      /\ \A n \in 1..Len(staff) :
            empolyees[n] = [employee_id |-> staff[n][1], employee_addr |-> staff[n][2]]
  BY <1>1 DEF Migrated, Empolyee
<1>10. RegistryTypeOK
  <2>1. employee_ids \in [EmployeeId -> Nat] /\ employee_addrs \in [Addr -> Nat]
    BY <1>1, <1>6, <1>7 DEF Migrated
  <2> QED
    BY <1>1, <1>5, <1>9, <2>1 DEF Migrated, RegistryTypeOK, Length
<1>11. IndicesInBounds
  BY <1>1, <1>5, <1>6, <1>7 DEF IndicesInBounds, Length
<1>a. Length - 1 = Len(staff) /\ \A k \in 1..Len(staff) : At(k) = rec(k)
  BY <1>1, <1>5 DEF Length, At
<1>b. \A k \in 1..Len(staff) :
          /\ At(k).exists /\ At(k).employee_id = staff[k][1]
          /\ At(k).employee_address = staff[k][2] /\ At(k).employee_obj = k
  BY <1>a
<1>12. RegistryOneToOne
  <2>1. \A k \in 1..(Length - 1) :
          /\ At(k).exists
          /\ employee_ids[At(k).employee_id] = k
          /\ employee_addrs[At(k).employee_address] = k
    BY <1>8, <1>a, <1>b
  <2>2. \A id \in EmployeeId : employee_ids[id] # 0 => At(employee_ids[id]).employee_id = id
    BY <1>6, <1>b
  <2>3. \A a \in Addr : employee_addrs[a] # 0 => At(employee_addrs[a]).employee_address = a
    BY <1>7, <1>b
  <2> QED
    BY <2>1, <2>2, <2>3 DEF RegistryOneToOne
<1>13. SentinelAbsent
  BY <1>2, <1>5 DEF SentinelAbsent, At
<1>14. ObjectsMatch
  BY <1>1, <1>9, <1>a, <1>b DEF ObjectsMatch
<1> QED
  BY <1>10, <1>11, <1>12, <1>13, <1>14 DEF RegistryInv

-----------------------------------------------------------------------------
(* The invariant *)

\* Events and commands of an endpoint are tickets of that endpoint, and the
\* commands are readable ones.
QueuesOwn ==
    \A ep \in EndPoint :
        /\ \A n \in DOMAIN feed[ep] : issued[feed[ep][n]].contract = ep
        /\ \A n \in DOMAIN sets[ep] :
              issued[sets[ep][n]].contract = ep /\ Readable(sets[ep][n])

Increasing(s) == \A m, n \in DOMAIN s : m < n => s[m] < s[n]

\* Tickets wait in the order of the chain, the commands before the events.
QueuesOrdered ==
    \A ep \in EndPoint :
        /\ Increasing(feed[ep])
        /\ Increasing(sets[ep])
        /\ \A m \in DOMAIN sets[ep], n \in DOMAIN feed[ep] : sets[ep][m] < feed[ep][n]

\* A key holds a readable ticket whose key it is.
StoreOwn ==
    \A q \in Key : store[q].ticket # 0 =>
        key(store[q].ticket) = q /\ Readable(store[q].ticket)

\* What is stored is older than what its endpoint's logger has still to store.
\* NoRollback is not an invariant; this is why each step satisfies it.
StoreBehind ==
    \A q \in Key : store[q].ticket # 0 =>
        LET ep == issued[store[q].ticket].contract IN
        /\ \A n \in DOMAIN feed[ep] : store[q].ticket < feed[ep][n]
        /\ \A n \in DOMAIN sets[ep] : store[q].ticket < sets[ep][n]

OrderInv == QueuesOwn /\ QueuesOrdered /\ StoreOwn /\ StoreBehind

StoreInv == ChainInv /\ StoreTypeOK /\ OrderInv

\* After the migrations nothing is waiting and nothing is stored.
LEMMA StoreInitInv == StoreInit => StoreInv
<1> SUFFICES ASSUME StoreInit PROVE StoreInv
  OBVIOUS
<1>1. RegistryInv
  BY MigratedInv DEF StoreInit
<1>2. issued = <<>> /\ now = 0
  BY DEF StoreInit
<1>3. ChainInv
  BY <1>1, <1>2 DEF ChainInv, RegistryInv, ChainTypeOK, TicketsAuthentic, TimestampsOrdered
<1>4. \A ep \in EndPoint : feed[ep] = <<>> /\ sets[ep] = <<>>
  BY DEF StoreInit
<1>5. \A q \in Key : store[q].ticket = 0
  BY DEF StoreInit, Missing
<1>6. StoreTypeOK
  <2>1. up \in [EndPoint -> BOOLEAN] /\ faults \in 0..MaxFaults
    BY StoreAssumption DEF StoreInit
  <2>2. feed \in [EndPoint -> Seq(DOMAIN issued)] /\ sets \in [EndPoint -> Seq(DOMAIN issued)]
    BY DEF StoreInit
  <2>3. store \in [Key -> [ticket : {0} \cup DOMAIN issued, expires : Nat]]
    BY DEF StoreInit, Missing
  <2> QED
    BY <1>3, <2>1, <2>2, <2>3 DEF StoreTypeOK, ChainInv
<1>7. OrderInv
  BY <1>4, <1>5 DEF OrderInv, QueuesOwn, QueuesOrdered, Increasing, StoreOwn, StoreBehind
<1> QED
  BY <1>3, <1>6, <1>7 DEF StoreInv

-----------------------------------------------------------------------------
(* Steps that only take away *)

\* t is a part of s without gaps.
PartOf(t, s) == \E d \in Nat : \A n \in DOMAIN t : n + d \in DOMAIN s /\ t[n] = s[n + d]

\* A part of a queue in order is in order.
LEMMA PartIncreasing ==
    ASSUME NEW S, S \subseteq Nat, NEW s \in Seq(S), NEW t \in Seq(S), PartOf(t, s), Increasing(s)
    PROVE  Increasing(t)
<1>1. PICK d \in Nat : \A n \in DOMAIN t : n + d \in DOMAIN s /\ t[n] = s[n + d]
  BY DEF PartOf
<1> QED
  BY <1>1 DEF Increasing

\* Each of its elements is one of the queue's.
LEMMA PartElements ==
    ASSUME NEW s, NEW t, PartOf(t, s), NEW n \in DOMAIN t
    PROVE  \E m \in DOMAIN s : t[n] = s[m]
BY DEF PartOf

\* What is below all of a queue is below all of its part.
LEMMA PartAbove ==
    ASSUME NEW x, NEW s, NEW t, PartOf(t, s), \A n \in DOMAIN s : x < s[n]
    PROVE  \A n \in DOMAIN t : x < t[n]
<1> TAKE n \in DOMAIN t
<1>1. PICK m \in DOMAIN s : t[n] = s[m]
  BY PartElements
<1> QED
  BY <1>1, Zenon

\* The whole is a part.
LEMMA PartSelf == ASSUME NEW S, NEW s \in Seq(S) PROVE PartOf(s, s)
<1>1. \A n \in DOMAIN s : n + 0 \in DOMAIN s /\ s[n] = s[n + 0]
  OBVIOUS
<1> QED
  BY <1>1 DEF PartOf

\* So is what follows the head,
LEMMA PartTail ==
    ASSUME NEW S, NEW s \in Seq(S), s # <<>>
    PROVE  Tail(s) \in Seq(S) /\ PartOf(Tail(s), s)
<1>1. Tail(s) \in Seq(S) /\ \A n \in DOMAIN Tail(s) : n + 1 \in DOMAIN s /\ Tail(s)[n] = s[n + 1]
  OBVIOUS
<1> QED
  BY <1>1 DEF PartOf

\* the commands a process had sent before it ended,
LEMMA PartFront ==
    ASSUME NEW S, NEW s \in Seq(S), NEW n \in 0..Len(s)
    PROVE  SubSeq(s, 1, n) \in Seq(S) /\ PartOf(SubSeq(s, 1, n), s)
<1>1. SubSeq(s, 1, n) \in Seq(S)
      /\ \A i \in DOMAIN SubSeq(s, 1, n) : i + 0 \in DOMAIN s /\ SubSeq(s, 1, n)[i] = s[i + 0]
  OBVIOUS
<1> QED
  BY <1>1 DEF PartOf

\* those a server that restarted has not lost,
LEMMA PartRest ==
    ASSUME NEW S, NEW s \in Seq(S), NEW n \in 0..Len(s)
    PROVE  SubSeq(s, n + 1, Len(s)) \in Seq(S) /\ PartOf(SubSeq(s, n + 1, Len(s)), s)
<1>1. SubSeq(s, n + 1, Len(s)) \in Seq(S)
      /\ \A i \in DOMAIN SubSeq(s, n + 1, Len(s)) :
            i + n \in DOMAIN s /\ SubSeq(s, n + 1, Len(s))[i] = s[i + n]
  OBVIOUS
<1> QED
  BY <1>1 DEF PartOf

\* and nothing at all.
LEMMA PartEmpty == ASSUME NEW s PROVE PartOf(<<>>, s)
BY DEF PartOf

\* A step after which each queue is a part of what it was keeps the queues in
\* order.
LEMMA QueuesShrink ==
    ASSUME StoreInv, StoreTypeOK', issued' = issued,
           \A ep \in EndPoint : PartOf(feed'[ep], feed[ep]) /\ PartOf(sets'[ep], sets[ep])
    PROVE  QueuesOwn' /\ QueuesOrdered'
<1>1. DOMAIN issued \subseteq Nat
  BY DEF StoreInv, StoreTypeOK, ChainTypeOK
<1>2. \A ep \in EndPoint :
          /\ feed[ep] \in Seq(DOMAIN issued) /\ sets[ep] \in Seq(DOMAIN issued)
          /\ feed'[ep] \in Seq(DOMAIN issued) /\ sets'[ep] \in Seq(DOMAIN issued)
  BY DEF StoreInv, StoreTypeOK
<1>3. \A k : (Readable(k))' <=> Readable(k)
  BY DEF Readable
<1>5. \A ep \in EndPoint :
          /\ \A n \in DOMAIN feed'[ep] : \E m \in DOMAIN feed[ep] : feed'[ep][n] = feed[ep][m]
          /\ \A n \in DOMAIN sets'[ep] : \E m \in DOMAIN sets[ep] : sets'[ep][n] = sets[ep][m]
  BY PartElements
<1>6. QueuesOwn'
  BY <1>3, <1>5 DEF StoreInv, OrderInv, QueuesOwn
<1>7. QueuesOrdered'
  <2>1. \A ep \in EndPoint : Increasing(feed'[ep]) /\ Increasing(sets'[ep])
    BY <1>1, <1>2, PartIncreasing DEF StoreInv, OrderInv, QueuesOrdered
  <2>2. ASSUME NEW ep \in EndPoint, NEW m \in DOMAIN sets'[ep], NEW n \in DOMAIN feed'[ep]
        PROVE  sets'[ep][m] < feed'[ep][n]
    BY <1>5 DEF StoreInv, OrderInv, QueuesOrdered
  <2> QED
    BY <2>1, <2>2 DEF QueuesOrdered, Increasing
<1> QED
  BY <1>6, <1>7

\* If each key also holds what it held or nothing, the store stays behind the
\* queues.  It is the step of every fault.
LEMMA ShrinkStep ==
    ASSUME StoreInv, StoreTypeOK', issued' = issued,
           \A ep \in EndPoint : PartOf(feed'[ep], feed[ep]) /\ PartOf(sets'[ep], sets[ep]),
           \A q \in Key : store'[q].ticket = 0 \/ store'[q].ticket = store[q].ticket
    PROVE  OrderInv'
<1>3. \A k : (Readable(k))' <=> Readable(k)
  BY DEF Readable
<1>4. \A k : (key(k))' = key(k)
  BY DEF key
<1>6. QueuesOwn' /\ QueuesOrdered'
  BY QueuesShrink
<1>8. StoreOwn'
  BY <1>3, <1>4 DEF StoreInv, OrderInv, StoreOwn
<1>9. StoreBehind'
  <2> SUFFICES ASSUME NEW q \in Key, store'[q].ticket # 0
               PROVE  LET ep == issued[store'[q].ticket].contract IN
                      /\ \A n \in DOMAIN feed'[ep] : store'[q].ticket < feed'[ep][n]
                      /\ \A n \in DOMAIN sets'[ep] : store'[q].ticket < sets'[ep][n]
    BY DEF StoreBehind
  <2>1. store'[q].ticket = store[q].ticket
    OBVIOUS
  <2> DEFINE ep == issued[store[q].ticket].contract
  <2>2. ep \in EndPoint
    <3>1. store[q].ticket \in DOMAIN issued
      BY <2>1 DEF StoreInv, StoreTypeOK
    <3>2. issued[store[q].ticket] \in TicketIssued
      BY <3>1 DEF StoreInv, StoreTypeOK, ChainTypeOK
    <3> QED
      BY <3>2 DEF TicketIssued
  <2>3. /\ \A n \in DOMAIN feed[ep] : store[q].ticket < feed[ep][n]
        /\ \A n \in DOMAIN sets[ep] : store[q].ticket < sets[ep][n]
    BY <2>1, Zenon DEF StoreInv, OrderInv, StoreBehind
  <2>4. PartOf(feed'[ep], feed[ep]) /\ PartOf(sets'[ep], sets[ep])
    BY <2>2
  <2>5. /\ \A n \in DOMAIN feed'[ep] : store[q].ticket < feed'[ep][n]
        /\ \A n \in DOMAIN sets'[ep] : store[q].ticket < sets'[ep][n]
    <3> HIDE DEF ep
    <3> QED
      BY <2>3, <2>4, PartAbove
  <2> QED
    BY <2>1, <2>5, Zenon
<1> QED
  BY <1>6, <1>8, <1>9 DEF OrderInv

\* What a ticket says, as the loggers use it.
LEMMA TicketFacts ==
    ASSUME StoreInv, NEW k \in DOMAIN issued
    PROVE  /\ issued[k].contract \in EndPoint
           /\ issued[k].ticket.endpoint_id = endpoint_id[issued[k].contract]
           /\ key(k) \in Key
           /\ Ex(k) \in Nat
<1>1. issued[k] \in TicketIssued
  BY DEF StoreInv, StoreTypeOK, ChainTypeOK
<1>2. /\ issued[k].contract \in EndPoint
      /\ issued[k].ticket.endpoint_id \in EndPointId
      /\ issued[k].ticket.employee_id \in EmployeeId
      /\ issued[k].ticket.validity_length \in Nat
  BY <1>1 DEF TicketIssued, Ticket
<1>3. issued[k].ticket.endpoint_id = endpoint_id[issued[k].contract]
  BY DEF StoreInv, ChainInv, TicketsAuthentic
<1>4. key(k) \in Key
  BY <1>2 DEF key, Key, Kind
<1>5. Ex(k) \in Nat
  BY <1>2 DEF Ex
<1> QED
  BY <1>2, <1>3, <1>4, <1>5

-----------------------------------------------------------------------------
(* The steps of the chain, the loggers and the server *)

NotRolledBack == \A k \in Key : store'[k].ticket # 0 => store'[k].ticket >= store[k].ticket

\* The types say that numbers are numbers.
LEMMA TicketNumbers ==
    ASSUME StoreTypeOK
    PROVE  /\ Len(issued) \in Nat /\ DOMAIN issued = 1..Len(issued)
           /\ \A q \in Key : store[q].ticket \in {0} \cup 1..Len(issued)
           /\ \A ep \in EndPoint : /\ feed[ep] \in Seq(1..Len(issued))
                                   /\ sets[ep] \in Seq(1..Len(issued))
BY DEF StoreTypeOK, ChainTypeOK

\* What a queue holds are numbers of tickets.
LEMMA SeqElement == ASSUME NEW S, NEW s \in Seq(S), NEW n \in DOMAIN s PROVE s[n] \in S
OBVIOUS

\* A new event goes to the end of the feed, and is newer than everything.
LEMMA IssueStep ==
    ASSUME StoreInv, NEW ep \in EndPoint, NEW sender \in Account, NEW data \in TicketData,
           Issue(ep, sender, data)
    PROVE  StoreInv' /\ NotRolledBack
<1> DEFINE L == Len(issued)
<1>1. CreateTicket(ep, sender, ep, data)
  BY DEF Issue
<1>2. ChainInv'
  BY <1>1, CreateTicketStep DEF StoreInv
<1>3. \E i : i.contract = ep /\ issued' = Append(issued, i)
  <2> DEFINE i == [contract |-> ep, sender |-> sender,
                   ticket |-> NewTicket(ep, get_employee_address(sender).employee, data)]
  <2>1. i.contract = ep /\ issued' = Append(issued, i)
    BY <1>1 DEF CreateTicket
  <2> QED
    BY <2>1
<1>4. /\ L \in Nat /\ DOMAIN issued = 1..L /\ DOMAIN issued' = 1..(L + 1) /\ Len(issued') = L + 1
      /\ \A k \in 1..L : issued'[k] = issued[k]
      /\ issued'[L + 1].contract = ep
  BY <1>3 DEF StoreInv, StoreTypeOK, ChainTypeOK
<1>5. /\ \A q \in Key : store[q].ticket \in {0} \cup 1..L
      /\ \A e \in EndPoint : feed[e] \in Seq(1..L) /\ sets[e] \in Seq(1..L)
  BY TicketNumbers DEF StoreInv
<1>6. UNCHANGED <<up, sets, store, faults>>
  BY DEF Issue
<1>7. \A e \in EndPoint :
          \/ feed'[e] = feed[e]
          \/ e = ep /\ feed'[e] = Append(feed[e], L + 1)
  BY <1>4 DEF Issue, StoreInv, StoreTypeOK
<1>8. \A e \in EndPoint : feed'[e] \in Seq(1..(L + 1)) /\ sets[e] \in Seq(1..(L + 1))
  <2> TAKE e \in EndPoint
  <2> HIDE DEF L
  <2>1. feed[e] \in Seq(1..(L + 1)) /\ sets[e] \in Seq(1..(L + 1)) /\ L + 1 \in 1..(L + 1)
    BY <1>4, <1>5
  <2>2. CASE feed'[e] = feed[e]
    BY <2>1, <2>2
  <2>3. CASE feed'[e] = Append(feed[e], L + 1)
    BY <2>1, <2>3
  <2> QED
    BY <1>7, <2>2, <2>3
<1>9. StoreTypeOK'
  <2>1. feed' \in [EndPoint -> Seq(1..(L + 1))]
    <3>1. feed' = [e \in EndPoint |-> feed'[e]]
      BY DEF Issue, StoreInv, StoreTypeOK
    <3> QED
      BY <1>8, <3>1
  <2>2. sets \in [EndPoint -> Seq(1..(L + 1))]
    <3>1. sets = [e \in EndPoint |-> sets[e]]
      BY DEF StoreInv, StoreTypeOK
    <3> QED
      BY <1>8, <3>1
  <2>3. store \in [Key -> [ticket : {0} \cup 1..(L + 1), expires : Nat]]
    BY <1>4 DEF StoreInv, StoreTypeOK
  <2> QED
    BY <1>2, <1>4, <1>6, <2>1, <2>2, <2>3 DEF StoreInv, StoreTypeOK, ChainInv
<1>10. \A k \in 1..L : (Readable(k) => (Readable(k))') /\ (key(k))' = key(k)
  BY <1>4 DEF Readable, key
<1> HIDE DEF L
<1>a. ASSUME NEW e \in EndPoint
      PROVE  /\ \A n \in DOMAIN feed[e] : feed[e][n] \in 1..L
             /\ \A n \in DOMAIN sets[e] : sets[e][n] \in 1..L
             /\ DOMAIN feed[e] = 1..Len(feed[e]) /\ Len(feed[e]) \in Nat
  <2>1. feed[e] \in Seq(1..L) /\ sets[e] \in Seq(1..L)
    BY <1>5
  <2>2. \A n \in DOMAIN feed[e] : feed[e][n] \in 1..L
    BY <2>1, SeqElement
  <2>3. \A n \in DOMAIN sets[e] : sets[e][n] \in 1..L
    BY <2>1, SeqElement
  <2>4. DOMAIN feed[e] = 1..Len(feed[e]) /\ Len(feed[e]) \in Nat
    BY <2>1
  <2> QED
    BY <2>2, <2>3, <2>4
<1>b. ASSUME NEW e \in EndPoint, NEW n \in DOMAIN feed'[e]
      PROVE  \/ n \in DOMAIN feed[e] /\ feed'[e][n] = feed[e][n]
             \/ e = ep /\ n = Len(feed[e]) + 1 /\ feed'[e][n] = L + 1
  <2>1. CASE feed'[e] = feed[e]
    BY <2>1
  <2>2. CASE e = ep /\ feed'[e] = Append(feed[e], L + 1)
    BY <1>5, <2>2
  <2> QED
    BY <1>7, <2>1, <2>2
<1>11. QueuesOwn'
  <2> SUFFICES ASSUME NEW e \in EndPoint
               PROVE  /\ \A n \in DOMAIN feed'[e] : issued'[feed'[e][n]].contract = e
                      /\ \A n \in DOMAIN sets[e] :
                            issued'[sets[e][n]].contract = e /\ (Readable(sets[e][n]))'
    BY <1>6 DEF QueuesOwn
  <2>1. ASSUME NEW n \in DOMAIN feed'[e] PROVE issued'[feed'[e][n]].contract = e
    BY <1>4, <1>a, <1>b, SMTT(30) DEF StoreInv, OrderInv, QueuesOwn
  <2>2. ASSUME NEW n \in DOMAIN sets[e]
        PROVE  issued'[sets[e][n]].contract = e /\ (Readable(sets[e][n]))'
    <3>1. issued[sets[e][n]].contract = e /\ Readable(sets[e][n]) /\ sets[e][n] \in 1..L
      BY <1>a DEF StoreInv, OrderInv, QueuesOwn
    <3>2. (Readable(sets[e][n]))'
      BY <1>6, <1>10, <3>1, Zenon
    <3> QED
      BY <1>4, <3>1, <3>2
  <2> QED
    BY <1>6, <2>1, <2>2
<1>12. QueuesOrdered'
  <2> SUFFICES ASSUME NEW e \in EndPoint
               PROVE  /\ Increasing(feed'[e])
                      /\ Increasing(sets[e])
                      /\ \A m \in DOMAIN sets[e], n \in DOMAIN feed'[e] :
                            sets[e][m] < feed'[e][n]
    BY <1>6 DEF QueuesOrdered, Increasing
  <2>1. /\ \A m, n \in DOMAIN feed[e] : m < n => feed[e][m] < feed[e][n]
        /\ Increasing(sets[e])
        /\ \A m \in DOMAIN sets[e], n \in DOMAIN feed[e] : sets[e][m] < feed[e][n]
    BY DEF StoreInv, OrderInv, QueuesOrdered, Increasing
  <2>2. ASSUME NEW m \in DOMAIN feed'[e], NEW n \in DOMAIN feed'[e], m < n
        PROVE  feed'[e][m] < feed'[e][n]
    <3> DEFINE l == Len(feed[e])
    <3>1. l \in Nat /\ DOMAIN feed[e] = 1..l
      BY <1>a
    <3>2. \/ m \in DOMAIN feed[e] /\ feed'[e][m] = feed[e][m]
          \/ m = l + 1
      BY <1>b
    <3>3. \/ n \in DOMAIN feed[e] /\ feed'[e][n] = feed[e][n]
          \/ n = l + 1 /\ feed'[e][n] = L + 1
      BY <1>b
    <3> HIDE DEF l
    <3>4. m \in DOMAIN feed[e] /\ feed'[e][m] = feed[e][m] /\ feed[e][m] \in 1..L
      <4>1. m # l + 1
        BY <2>2, <3>1, <3>3
      <4> QED
        BY <1>a, <3>2, <4>1
    <3>5. CASE n \in DOMAIN feed[e] /\ feed'[e][n] = feed[e][n]
      BY <2>1, <2>2, <3>4, <3>5, Zenon
    <3>6. CASE feed'[e][n] = L + 1
      BY <1>4, <3>4, <3>6
    <3> QED
      BY <3>3, <3>5, <3>6
  <2>3. ASSUME NEW m \in DOMAIN sets[e], NEW n \in DOMAIN feed'[e]
        PROVE  sets[e][m] < feed'[e][n]
    BY <1>4, <1>a, <1>b, <2>1
  <2> QED
    BY <2>1, <2>2, <2>3 DEF Increasing
<1>13. StoreOwn'
  BY <1>5, <1>6, <1>10 DEF StoreInv, OrderInv, StoreOwn
<1>14. StoreBehind'
  <2> SUFFICES ASSUME NEW q \in Key, store[q].ticket # 0
               PROVE  LET e == issued'[store[q].ticket].contract IN
                      /\ \A n \in DOMAIN feed'[e] : store[q].ticket < feed'[e][n]
                      /\ \A n \in DOMAIN sets[e] : store[q].ticket < sets[e][n]
    BY <1>6 DEF StoreBehind
  <2>1. store[q].ticket \in 1..L /\ issued'[store[q].ticket] = issued[store[q].ticket]
    BY <1>4, <1>5
  <2> DEFINE e == issued[store[q].ticket].contract
  <2>2. e \in EndPoint
    BY <1>4, <2>1, TicketFacts
  <2>3. /\ \A n \in DOMAIN feed[e] : store[q].ticket < feed[e][n]
        /\ \A n \in DOMAIN sets[e] : store[q].ticket < sets[e][n]
    BY DEF StoreInv, OrderInv, StoreBehind
  <2>4. \A n \in DOMAIN feed'[e] : store[q].ticket < feed'[e][n]
    <3> HIDE DEF e
    <3> QED
      BY <1>4, <1>b, <2>1, <2>2, <2>3
  <2> QED
    BY <2>1, <2>3, <2>4
<1>15. NotRolledBack
  BY <1>4, <1>5, <1>6 DEF NotRolledBack
<1> QED
  BY <1>2, <1>9, <1>11, <1>12, <1>13, <1>14, <1>15 DEF StoreInv, OrderInv

\* What is left of a queue without its head,
LEMMA TailAt ==
    ASSUME NEW S, NEW s \in Seq(S), s # <<>>
    PROVE  /\ Tail(s) \in Seq(S)
           /\ \A n \in DOMAIN Tail(s) :
                 n \in Nat /\ n > 0 /\ n + 1 \in DOMAIN s /\ Tail(s)[n] = s[n + 1]
           /\ Head(s) = s[1] /\ 1 \in DOMAIN s /\ s[1] \in S
OBVIOUS

\* and of a queue with a new end.
LEMMA AppendAt ==
    ASSUME NEW S, NEW s \in Seq(S), NEW x \in S
    PROVE  /\ Append(s, x) \in Seq(S)
           /\ \A n \in DOMAIN Append(s, x) :
                 \/ n \in DOMAIN s /\ Append(s, x)[n] = s[n]
                 \/ n = Len(s) + 1 /\ Append(s, x)[n] = x
           /\ \A n \in DOMAIN Append(s, x) : n <= Len(s) + 1 /\ n \in Nat
           /\ Len(s) \in Nat
OBVIOUS

\* A step that leaves the chain alone keeps its invariant.
LEMMA ChainUnchanged == ASSUME ChainInv, UNCHANGED chainVars PROVE ChainInv'
BY ChainStep

\* The head of the feed goes to the end of the commands.
LEMMA ProcessStep ==
    ASSUME StoreInv, NEW ep \in EndPoint, ProcessTicket(ep)
    PROVE  StoreInv' /\ NotRolledBack
<1> DEFINE L == Len(issued)
           h == Head(feed[ep])
<1>1. ChainInv' /\ issued' = issued
  BY ChainUnchanged DEF ProcessTicket, StoreInv, chainVars
<1>2. feed[ep] \in Seq(1..L) /\ sets[ep] \in Seq(1..L) /\ L \in Nat /\ DOMAIN issued = 1..L
  BY TicketNumbers DEF StoreInv
<1>3. UNCHANGED <<up, store, faults>> /\ feed[ep] # <<>> /\ Readable(h)
  BY DEF ProcessTicket
<1>4. h \in 1..L /\ h = feed[ep][1] /\ 1 \in DOMAIN feed[ep]
  BY <1>2, <1>3
<1>5. \A e \in EndPoint : e # ep => feed'[e] = feed[e] /\ sets'[e] = sets[e]
  BY DEF ProcessTicket, StoreInv, StoreTypeOK
<1>6. feed'[ep] = Tail(feed[ep]) /\ sets'[ep] = Append(sets[ep], h)
  BY DEF ProcessTicket, StoreInv, StoreTypeOK
<1> HIDE DEF h
<1>7. /\ feed'[ep] \in Seq(1..L)
      /\ \A n \in DOMAIN feed'[ep] :
            n \in Nat /\ n > 0 /\ n + 1 \in DOMAIN feed[ep] /\ feed'[ep][n] = feed[ep][n + 1]
  <2> HIDE DEF L
  <2>1. feed[ep] \in Seq(1..L) /\ feed[ep] # <<>>
    BY <1>2, <1>3
  <2>2. /\ Tail(feed[ep]) \in Seq(1..L)
        /\ \A n \in DOMAIN Tail(feed[ep]) :
              n \in Nat /\ n > 0 /\ n + 1 \in DOMAIN feed[ep]
              /\ Tail(feed[ep])[n] = feed[ep][n + 1]
    BY <2>1, TailAt
  <2> QED
    BY <1>6, <2>2
<1>8. /\ sets'[ep] \in Seq(1..L)
      /\ \A n \in DOMAIN sets'[ep] :
            \/ n \in DOMAIN sets[ep] /\ sets'[ep][n] = sets[ep][n]
            \/ n = Len(sets[ep]) + 1 /\ sets'[ep][n] = h
      /\ \A n \in DOMAIN sets'[ep] : n <= Len(sets[ep]) + 1 /\ n \in Nat
      /\ Len(sets[ep]) \in Nat
  <2> HIDE DEF L
  <2> QED
    BY <1>2, <1>4, <1>6, AppendAt
<1>9. StoreTypeOK'
  <2>1. feed' \in [EndPoint -> Seq(1..L)] /\ sets' \in [EndPoint -> Seq(1..L)]
    BY <1>2, <1>6, <1>7, <1>8 DEF ProcessTicket, StoreInv, StoreTypeOK
  <2> QED
    BY <1>1, <1>2, <1>3, <2>1 DEF StoreInv, StoreTypeOK, ChainInv
<1>10. \A k : (Readable(k) => (Readable(k))') /\ (key(k))' = key(k)
  BY <1>1 DEF Readable, key
<1>11. /\ \A m, n \in DOMAIN feed[ep] : m < n => feed[ep][m] < feed[ep][n]
       /\ \A m, n \in DOMAIN sets[ep] : m < n => sets[ep][m] < sets[ep][n]
       /\ \A m \in DOMAIN sets[ep], n \in DOMAIN feed[ep] : sets[ep][m] < feed[ep][n]
       /\ \A n \in DOMAIN feed[ep] : issued[feed[ep][n]].contract = ep
       /\ \A n \in DOMAIN sets[ep] : issued[sets[ep][n]].contract = ep /\ Readable(sets[ep][n])
  BY DEF StoreInv, OrderInv, QueuesOrdered, QueuesOwn, Increasing
<1>12. QueuesOwn'
  <2> SUFFICES ASSUME NEW e \in EndPoint
               PROVE  /\ \A n \in DOMAIN feed'[e] : issued[feed'[e][n]].contract = e
                      /\ \A n \in DOMAIN sets'[e] : issued[sets'[e][n]].contract = e
                                                    /\ Readable(sets'[e][n])
    BY <1>1, <1>10 DEF QueuesOwn, Readable
  <2>1. CASE e # ep
    BY <1>5, <2>1 DEF StoreInv, OrderInv, QueuesOwn
  <2>2. CASE e = ep
    <3>1. \A n \in DOMAIN feed'[ep] : issued[feed'[ep][n]].contract = ep
      BY <1>7, <1>11
    <3>2. issued[h].contract = ep
      BY <1>4, <1>11
    <3>3. \A n \in DOMAIN sets'[ep] :
              issued[sets'[ep][n]].contract = ep /\ Readable(sets'[ep][n])
      BY <1>3, <1>8, <1>11, <3>2, Zenon
    <3> QED
      BY <2>2, <3>1, <3>3
  <2> QED
    BY <2>1, <2>2
<1>13. QueuesOrdered'
  <2> SUFFICES ASSUME NEW e \in EndPoint
               PROVE  /\ Increasing(feed'[e])
                      /\ Increasing(sets'[e])
                      /\ \A m \in DOMAIN sets'[e], n \in DOMAIN feed'[e] :
                            sets'[e][m] < feed'[e][n]
    BY DEF QueuesOrdered, Increasing
  <2>1. CASE e # ep
    BY <1>5, <2>1 DEF StoreInv, OrderInv, QueuesOrdered
  <2>2. CASE e = ep
    <3>1. ASSUME NEW m \in DOMAIN feed'[ep], NEW n \in DOMAIN feed'[ep], m < n
          PROVE  feed'[ep][m] < feed'[ep][n]
      <4>1. m + 1 < n + 1
        BY <1>7, <3>1
      <4> QED
        BY <1>7, <1>11, <4>1
    <3>2. ASSUME NEW m \in DOMAIN sets'[ep], NEW n \in DOMAIN sets'[ep], m < n
          PROVE  sets'[ep][m] < sets'[ep][n]
      <4>1. m \in DOMAIN sets[ep] /\ sets'[ep][m] = sets[ep][m]
        <5> DEFINE l == Len(sets[ep])
        <5>1. l \in Nat /\ m \in Nat /\ n \in Nat /\ n <= l + 1
          BY <1>8
        <5> HIDE DEF l
        <5>2. m # l + 1
          BY <3>2, <5>1
        <5> QED
          BY <1>8, <5>2, Zenon DEF l
      <4> QED
        BY <1>4, <1>8, <1>11, <4>1, <3>2
    <3>3. ASSUME NEW m \in DOMAIN sets'[ep], NEW n \in DOMAIN feed'[ep]
          PROVE  sets'[ep][m] < feed'[ep][n]
      <4>1. n + 1 \in DOMAIN feed[ep] /\ feed'[ep][n] = feed[ep][n + 1] /\ 1 < n + 1
        BY <1>7
      <4>2. h < feed[ep][n + 1]
        BY <1>4, <1>11, <4>1
      <4> QED
        BY <1>8, <1>11, <4>1, <4>2
    <3> QED
      BY <2>2, <3>1, <3>2, <3>3 DEF Increasing
  <2> QED
    BY <2>1, <2>2
<1>14. StoreOwn'
  BY <1>3, <1>10 DEF StoreInv, OrderInv, StoreOwn
<1>15. StoreBehind'
  <2> SUFFICES ASSUME NEW q \in Key, store[q].ticket # 0
               PROVE  LET e == issued[store[q].ticket].contract IN
                      /\ \A n \in DOMAIN feed'[e] : store[q].ticket < feed'[e][n]
                      /\ \A n \in DOMAIN sets'[e] : store[q].ticket < sets'[e][n]
    BY <1>1, <1>3 DEF StoreBehind
  <2> DEFINE e == issued[store[q].ticket].contract
  <2>1. e \in EndPoint
    BY TicketFacts, TicketNumbers DEF StoreInv
  <2>2. /\ \A n \in DOMAIN feed[e] : store[q].ticket < feed[e][n]
        /\ \A n \in DOMAIN sets[e] : store[q].ticket < sets[e][n]
    BY DEF StoreInv, OrderInv, StoreBehind
  <2> HIDE DEF e
  <2>3. /\ \A n \in DOMAIN feed'[e] : store[q].ticket < feed'[e][n]
        /\ \A n \in DOMAIN sets'[e] : store[q].ticket < sets'[e][n]
    <3>1. CASE e # ep
      BY <1>5, <2>1, <2>2, <3>1
    <3>2. CASE e = ep
      BY <1>4, <1>7, <1>8, <2>2, <3>2
    <3> QED
      BY <3>1, <3>2
  <2> QED
    BY <2>3 DEF e
<1>16. NotRolledBack
  BY <1>3, TicketNumbers DEF NotRolledBack, StoreInv
<1> QED
  BY <1>1, <1>9, <1>12, <1>13, <1>14, <1>15, <1>16 DEF StoreInv, OrderInv

\* The head of the commands is executed: it is newer than what its key held,
\* which is a ticket of the same endpoint, and older than all that waits.
LEMMA RedisSetStep ==
    ASSUME StoreInv, NEW ep \in EndPoint, RedisSet(ep)
    PROVE  StoreInv' /\ NotRolledBack
<1> DEFINE h == Head(sets[ep])
<1>1. ChainInv' /\ issued' = issued
  BY ChainUnchanged DEF RedisSet, StoreInv, chainVars
<1>2. sets[ep] \in Seq(DOMAIN issued) /\ sets[ep] # <<>> /\ DOMAIN issued \subseteq Nat
  BY DEF RedisSet, StoreInv, StoreTypeOK, ChainTypeOK
<1>3. h \in DOMAIN issued /\ h = sets[ep][1] /\ 1 \in DOMAIN sets[ep]
  BY <1>2, TailAt
<1>4. issued[h].contract = ep /\ Readable(h) /\ h \in Nat /\ h # 0
  BY <1>2, <1>3 DEF StoreInv, StoreTypeOK, ChainTypeOK, OrderInv, QueuesOwn
<1>5. key(h) \in Key /\ Ex(h) \in Nat
  BY <1>3, TicketFacts
<1>6. /\ store' = [store EXCEPT ![key(h)] = [ticket |-> h, expires |-> now + Ex(h)]]
      /\ sets' = [sets EXCEPT ![ep] = Tail(sets[ep])]
      /\ UNCHANGED <<up, feed, faults>>
  BY DEF RedisSet
<1> HIDE DEF h
<1>7. /\ Tail(sets[ep]) \in Seq(DOMAIN issued)
      /\ \A n \in DOMAIN Tail(sets[ep]) :
            n \in Nat /\ n > 0 /\ n + 1 \in DOMAIN sets[ep] /\ Tail(sets[ep])[n] = sets[ep][n + 1]
  BY <1>2, TailAt
<1>8. /\ sets'[ep] = Tail(sets[ep])
      /\ \A e \in EndPoint : e # ep => sets'[e] = sets[e]
      /\ store'[key(h)].ticket = h
      /\ \A q \in Key : q # key(h) => store'[q] = store[q]
  BY <1>5, <1>6 DEF StoreInv, StoreTypeOK
<1>9. StoreTypeOK'
  <2>1. sets' \in [EndPoint -> Seq(DOMAIN issued)]
    BY <1>6, <1>7 DEF StoreInv, StoreTypeOK
  <2>2. [ticket |-> h, expires |-> now + Ex(h)] \in [ticket : {0} \cup DOMAIN issued, expires : Nat]
    BY <1>3, <1>5 DEF StoreInv, StoreTypeOK, ChainTypeOK
  <2>3. store' \in [Key -> [ticket : {0} \cup DOMAIN issued, expires : Nat]]
    BY <1>5, <1>6, <2>2 DEF StoreInv, StoreTypeOK
  <2> QED
    BY <1>1, <1>6, <2>1, <2>3 DEF StoreInv, StoreTypeOK, ChainInv
<1>10. \A k : (key(k))' = key(k)
  BY <1>1 DEF key
<1>11. \A k : Readable(k) => (Readable(k))'
  BY <1>1 DEF Readable
<1>12. /\ \A n \in DOMAIN feed[ep] : h < feed[ep][n]
       /\ \A n \in DOMAIN sets'[ep] : h < sets'[ep][n]
  BY <1>3, <1>7, <1>8 DEF StoreInv, OrderInv, QueuesOrdered, Increasing
<1>13. \A e \in EndPoint : PartOf(sets'[e], sets[e]) /\ PartOf(feed'[e], feed[e])
  <2> TAKE e \in EndPoint
  <2>1. PartOf(feed'[e], feed[e])
    BY <1>6, PartSelf DEF StoreInv, StoreTypeOK
  <2>2. CASE e # ep
    BY <1>8, <2>1, <2>2, PartSelf DEF StoreInv, StoreTypeOK
  <2>3. CASE e = ep
    BY <1>2, <1>8, <2>1, <2>3, PartTail
  <2> QED
    BY <2>2, <2>3
<1>14. QueuesOwn' /\ QueuesOrdered'
  BY <1>1, <1>9, <1>13, QueuesShrink
<1>15. StoreOwn'
  <2> SUFFICES ASSUME NEW q \in Key, store'[q].ticket # 0
               PROVE  key(store'[q].ticket) = q /\ Readable(store'[q].ticket)
    BY <1>10, <1>11 DEF StoreOwn
  <2>1. CASE q = key(h)
    BY <1>4, <1>8, <2>1
  <2>2. CASE q # key(h)
    BY <1>8, <2>2 DEF StoreInv, OrderInv, StoreOwn
  <2> QED
    BY <2>1, <2>2
<1>16. StoreBehind'
  <2> SUFFICES ASSUME NEW q \in Key, store'[q].ticket # 0
               PROVE  LET e == issued[store'[q].ticket].contract IN
                      /\ \A n \in DOMAIN feed[e] : store'[q].ticket < feed[e][n]
                      /\ \A n \in DOMAIN sets'[e] : store'[q].ticket < sets'[e][n]
    BY <1>1, <1>6 DEF StoreBehind
  <2>1. CASE q = key(h)
    BY <1>4, <1>8, <1>12, <2>1
  <2>2. CASE q # key(h)
    <3> DEFINE e == issued[store[q].ticket].contract
    <3>1. store'[q].ticket = store[q].ticket /\ store[q].ticket # 0
      BY <1>8, <2>2
    <3>2. e \in EndPoint
      BY <3>1, TicketFacts DEF StoreInv, StoreTypeOK
    <3>3. /\ \A n \in DOMAIN feed[e] : store[q].ticket < feed[e][n]
          /\ \A n \in DOMAIN sets[e] : store[q].ticket < sets[e][n]
      BY <3>1, Zenon DEF StoreInv, OrderInv, StoreBehind
    <3>4. \A n \in DOMAIN sets'[e] : store[q].ticket < sets'[e][n]
      <4>1. PartOf(sets'[e], sets[e])
        BY <1>13, <3>2
      <4> HIDE DEF e
      <4> QED
        BY <3>3, <4>1, PartAbove
    <3> QED
      BY <3>1, <3>3, <3>4, Zenon
  <2> QED
    BY <2>1, <2>2, Zenon
<1>17. NotRolledBack
  <2> SUFFICES ASSUME NEW q \in Key, store'[q].ticket # 0
               PROVE  store'[q].ticket >= store[q].ticket
    BY DEF NotRolledBack
  <2>1. store[q].ticket \in {0} \cup DOMAIN issued
    BY DEF StoreInv, StoreTypeOK
  <2>2. CASE q # key(h)
    BY <1>2, <1>8, <2>1, <2>2
  <2>3. CASE q = key(h) /\ store[q].ticket = 0
    BY <1>4, <1>8, <2>3
  <2>4. CASE q = key(h) /\ store[q].ticket # 0
    <3> DEFINE t == store[q].ticket
    <3>1. t \in DOMAIN issued /\ key(t) = key(h)
      BY <2>1, <2>4 DEF StoreInv, OrderInv, StoreOwn
    <3>2. issued[t].ticket.endpoint_id = issued[h].ticket.endpoint_id
      BY <3>1 DEF key
    <3>3. issued[t].contract \in EndPoint
          /\ endpoint_id[issued[t].contract] = endpoint_id[issued[h].contract]
      BY <1>3, <3>1, <3>2, TicketFacts
    <3>4. issued[t].contract = ep
      BY <1>4, <3>3, StoreAssumption
    <3>5. t < h
      BY <1>3, <2>4, <3>4 DEF StoreInv, OrderInv, StoreBehind
    <3> QED
      BY <1>2, <1>4, <1>8, <2>4, <3>1, <3>5
  <2> QED
    BY <2>2, <2>3, <2>4
<1> QED
  BY <1>1, <1>9, <1>14, <1>15, <1>16, <1>17 DEF StoreInv, OrderInv

\* A step that takes events, commands or keys away and issues nothing.
Shrinks ==
    /\ issued' = issued
    /\ up' \in [EndPoint -> BOOLEAN] /\ faults' \in 0..MaxFaults
    /\ feed' \in [EndPoint -> Seq(DOMAIN issued)]
    /\ sets' \in [EndPoint -> Seq(DOMAIN issued)]
    /\ store' \in [Key -> [ticket : {0} \cup DOMAIN issued, expires : Nat]]
    /\ \A ep \in EndPoint : PartOf(feed'[ep], feed[ep]) /\ PartOf(sets'[ep], sets[ep])
    /\ \A q \in Key : store'[q].ticket = 0 \/ store'[q].ticket = store[q].ticket

\* Such a step keeps the invariant and rolls nothing back.
LEMMA ShrinksStep ==
    ASSUME StoreInv, ChainInv', Shrinks
    PROVE  StoreInv' /\ NotRolledBack
<1>1. StoreTypeOK'
  BY DEF Shrinks, StoreTypeOK, ChainInv
<1>2. OrderInv'
  BY <1>1, ShrinkStep DEF Shrinks
<1>3. NotRolledBack
  BY TicketNumbers DEF Shrinks, NotRolledBack, StoreInv
<1> QED
  BY <1>1, <1>2, <1>3 DEF StoreInv

\* Nothing happens to the loggers and the store.
LEMMA QuietShrinks ==
    ASSUME StoreInv, UNCHANGED <<issued, up, feed, sets, store, faults>>
    PROVE  Shrinks
<1>1. \A ep \in EndPoint : PartOf(feed[ep], feed[ep]) /\ PartOf(sets[ep], sets[ep])
  BY PartSelf DEF StoreInv, StoreTypeOK
<1> QED
  BY <1>1 DEF Shrinks, StoreInv, StoreTypeOK

\* A ticket that cannot be read is dropped.
LEMMA SkipShrinks ==
    ASSUME StoreInv, NEW ep \in EndPoint, SkipTicket(ep)
    PROVE  Shrinks
<1>1. feed[ep] \in Seq(DOMAIN issued) /\ feed[ep] # <<>>
  BY DEF SkipTicket, StoreInv, StoreTypeOK
<1>2. Tail(feed[ep]) \in Seq(DOMAIN issued) /\ PartOf(Tail(feed[ep]), feed[ep])
  BY <1>1, PartTail
<1>3. \A e \in EndPoint : PartOf(feed[e], feed[e]) /\ PartOf(sets[e], sets[e])
  BY PartSelf DEF StoreInv, StoreTypeOK
<1>4. feed' = [feed EXCEPT ![ep] = Tail(feed[ep])]
  BY DEF SkipTicket
<1>5. feed' \in [EndPoint -> Seq(DOMAIN issued)] /\ \A e \in EndPoint : PartOf(feed'[e], feed[e])
  BY <1>2, <1>3, <1>4 DEF StoreInv, StoreTypeOK
<1> QED
  BY <1>3, <1>5 DEF SkipTicket, chainVars, Shrinks, StoreInv, StoreTypeOK

\* A logger ends: its events and the commands it has not sent are lost.
LEMMA ExitShrinks ==
    ASSUME StoreInv, NEW ep \in EndPoint, Exit(ep)
    PROVE  Shrinks
<1>1. PICK n \in 0..Len(sets[ep]) : sets' = [sets EXCEPT ![ep] = SubSeq(sets[ep], 1, n)]
  BY DEF Exit
<1>2. sets[ep] \in Seq(DOMAIN issued)
  BY DEF StoreInv, StoreTypeOK
<1>3. SubSeq(sets[ep], 1, n) \in Seq(DOMAIN issued) /\ PartOf(SubSeq(sets[ep], 1, n), sets[ep])
  BY <1>2, PartFront
<1>4. \A e \in EndPoint : PartOf(feed[e], feed[e]) /\ PartOf(sets[e], sets[e])
  BY PartSelf DEF StoreInv, StoreTypeOK
<1>5. sets' \in [EndPoint -> Seq(DOMAIN issued)] /\ \A e \in EndPoint : PartOf(sets'[e], sets[e])
  BY <1>1, <1>3, <1>4 DEF StoreInv, StoreTypeOK
<1>6. <<>> \in Seq(DOMAIN issued) /\ PartOf(<<>>, feed[ep])
  BY PartEmpty
<1>7. feed' = [feed EXCEPT ![ep] = <<>>]
  BY DEF Exit
<1>8. feed' \in [EndPoint -> Seq(DOMAIN issued)] /\ \A e \in EndPoint : PartOf(feed'[e], feed[e])
  BY <1>4, <1>6, <1>7 DEF StoreInv, StoreTypeOK
<1>9. up' \in [EndPoint -> BOOLEAN]
  BY DEF Exit, StoreInv, StoreTypeOK
<1>10. faults' \in 0..MaxFaults
  BY StoreAssumption DEF Exit, StoreInv, StoreTypeOK
<1> QED
  BY <1>5, <1>8, <1>9, <1>10 DEF Exit, chainVars, Shrinks, StoreInv, StoreTypeOK

\* A logger starts, with nothing to do.
LEMMA StartShrinks ==
    ASSUME StoreInv, NEW ep \in EndPoint, Start(ep)
    PROVE  Shrinks
<1>1. \A e \in EndPoint : PartOf(feed[e], feed[e]) /\ PartOf(sets[e], sets[e])
  BY PartSelf DEF StoreInv, StoreTypeOK
<1>2. up' \in [EndPoint -> BOOLEAN]
  BY DEF Start, StoreInv, StoreTypeOK
<1> QED
  BY <1>1, <1>2 DEF Start, chainVars, Shrinks, StoreInv, StoreTypeOK

\* The server refuses a command.
LEMMA RefuseShrinks ==
    ASSUME StoreInv, NEW ep \in EndPoint, RedisRefuse(ep)
    PROVE  Shrinks
<1>1. sets[ep] \in Seq(DOMAIN issued) /\ sets[ep] # <<>>
  BY DEF RedisRefuse, StoreInv, StoreTypeOK
<1>2. Tail(sets[ep]) \in Seq(DOMAIN issued) /\ PartOf(Tail(sets[ep]), sets[ep])
  BY <1>1, PartTail
<1>3. \A e \in EndPoint : PartOf(feed[e], feed[e]) /\ PartOf(sets[e], sets[e])
  BY PartSelf DEF StoreInv, StoreTypeOK
<1>4. sets' = [sets EXCEPT ![ep] = Tail(sets[ep])]
  BY DEF RedisRefuse
<1>5. sets' \in [EndPoint -> Seq(DOMAIN issued)] /\ \A e \in EndPoint : PartOf(sets'[e], sets[e])
  BY <1>2, <1>3, <1>4 DEF StoreInv, StoreTypeOK
<1> QED
  BY <1>3, <1>5 DEF RedisRefuse, chainVars, Shrinks, StoreInv, StoreTypeOK

\* Time passes and keys expire.
LEMMA TickShrinks ==
    ASSUME StoreInv, Tick
    PROVE  Shrinks
<1>1. \A ep \in EndPoint : PartOf(feed[ep], feed[ep]) /\ PartOf(sets[ep], sets[ep])
  BY PartSelf DEF StoreInv, StoreTypeOK
<1>2. UNCHANGED <<issued, up, feed, sets, faults>>
  BY DEF Tick, NewBlock, loggerVars
<1>3. \A q \in Key : Expire(now')[q] = Missing \/ Expire(now')[q] = store[q]
  BY DEF Expire
<1>4. Missing \in [ticket : {0} \cup DOMAIN issued, expires : Nat] /\ Missing.ticket = 0
  BY DEF Missing
<1>5. store' = Expire(now')
  BY DEF Tick
<1>6. Expire(now') \in [Key -> [ticket : {0} \cup DOMAIN issued, expires : Nat]]
  BY <1>4 DEF Expire, StoreInv, StoreTypeOK
<1>7. \A q \in Key : store'[q].ticket = 0 \/ store'[q].ticket = store[q].ticket
  BY <1>3, <1>4, <1>5
<1> QED
  BY <1>1, <1>2, <1>5, <1>6, <1>7 DEF Shrinks, StoreInv, StoreTypeOK

\* The server restarts without some keys and some commands.
LEMMA RestartShrinks ==
    ASSUME StoreInv, RedisRestart
    PROVE  Shrinks
<1>1. PICK lost \in SUBSET {k \in Key : store[k] # Missing} :
          store' = [k \in Key |-> IF k \in lost THEN Missing ELSE store[k]]
  BY DEF RedisRestart
<1>2. PICK n \in [EndPoint -> 0..MaxTickets] :
          /\ \A ep \in EndPoint : n[ep] <= Len(sets[ep])
          /\ sets' = [ep \in EndPoint |-> SubSeq(sets[ep], n[ep] + 1, Len(sets[ep]))]
  BY DEF RedisRestart
<1>3. \A ep \in EndPoint :
          /\ SubSeq(sets[ep], n[ep] + 1, Len(sets[ep])) \in Seq(DOMAIN issued)
          /\ PartOf(SubSeq(sets[ep], n[ep] + 1, Len(sets[ep])), sets[ep])
  <2> TAKE ep \in EndPoint
  <2>1. sets[ep] \in Seq(DOMAIN issued)
    BY DEF StoreInv, StoreTypeOK
  <2>2. n[ep] \in 0..Len(sets[ep])
    BY <1>2, <2>1, GranterAssumption
  <2> QED
    BY <2>1, <2>2, PartRest
<1>4. \A ep \in EndPoint : PartOf(feed[ep], feed[ep])
  BY PartSelf DEF StoreInv, StoreTypeOK
<1>5. sets' \in [EndPoint -> Seq(DOMAIN issued)] /\ \A ep \in EndPoint : PartOf(sets'[ep], sets[ep])
  BY <1>2, <1>3
<1>6. Missing \in [ticket : {0} \cup DOMAIN issued, expires : Nat] /\ Missing.ticket = 0
  BY DEF Missing
<1>7. store' \in [Key -> [ticket : {0} \cup DOMAIN issued, expires : Nat]]
  BY <1>1, <1>6 DEF StoreInv, StoreTypeOK
<1>8. \A q \in Key : store'[q].ticket = 0 \/ store'[q].ticket = store[q].ticket
  BY <1>1, <1>6
<1>9. faults' \in 0..MaxFaults
  BY StoreAssumption DEF RedisRestart, StoreInv, StoreTypeOK
<1> QED
  BY <1>4, <1>5, <1>7, <1>8, <1>9
  DEF RedisRestart, chainVars, Shrinks, StoreInv, StoreTypeOK

\* Every step keeps the invariant and rolls no key back.
LEMMA StoreStep ==
    ASSUME StoreInv, [StoreNext]_storeVars
    PROVE  StoreInv' /\ NotRolledBack
<1>1. CASE RegistryNext /\ UNCHANGED <<now, issued, up, feed, sets, store, faults>>
  <2>1. ChainInv'
    BY <1>1, RegistryKeepsTickets DEF StoreInv
  <2> QED
    BY <1>1, <2>1, QuietShrinks, ShrinksStep
<1>2. CASE \E ep \in EndPoint, sender \in Account, data \in TicketData : Issue(ep, sender, data)
  BY <1>2, IssueStep
<1>3. CASE \E ep \in EndPoint : ProcessTicket(ep)
  BY <1>3, ProcessStep
<1>4. CASE \E ep \in EndPoint : RedisSet(ep)
  BY <1>4, RedisSetStep
<1>5. ASSUME NEW ep \in EndPoint, SkipTicket(ep) \/ Exit(ep) \/ Start(ep) \/ RedisRefuse(ep)
      PROVE  StoreInv' /\ NotRolledBack
  <2>1. UNCHANGED chainVars
    BY <1>5 DEF SkipTicket, Exit, Start, RedisRefuse, chainVars
  <2>2. Shrinks
    BY <1>5, SkipShrinks, ExitShrinks, StartShrinks, RefuseShrinks
  <2> QED
    BY <2>1, <2>2, ChainUnchanged, ShrinksStep DEF StoreInv
<1>6. CASE Tick
  <2>1. ChainNext
    BY <1>6 DEF Tick, ChainNext
  <2> QED
    BY <1>6, <2>1, ChainStep, TickShrinks, ShrinksStep DEF StoreInv
<1>7. CASE RedisRestart
  <2>1. UNCHANGED chainVars
    BY <1>7 DEF RedisRestart, chainVars
  <2> QED
    BY <1>7, <2>1, ChainUnchanged, RestartShrinks, ShrinksStep DEF StoreInv
<1>8. CASE UNCHANGED storeVars
  <2>1. UNCHANGED chainVars /\ UNCHANGED <<issued, up, feed, sets, store, faults>>
    BY <1>8 DEF storeVars, chainVars
  <2> QED
    BY <2>1, ChainUnchanged, QuietShrinks, ShrinksStep DEF StoreInv
<1> QED
  BY <1>1, <1>2, <1>3, <1>4, <1>5, <1>6, <1>7, <1>8 DEF StoreNext

-----------------------------------------------------------------------------
(* The theorems *)

\* The invariant holds whatever is delayed, lost or restarted.
THEOREM StoreInvariant == StoreSpec => []StoreInv
BY StoreInitInv, StoreStep, PTL DEF StoreSpec

\* Events and commands name tickets of the chain, keys are keys.
THEOREM StoreTypeCorrect == StoreSpec => []StoreTypeOK
<1>1. StoreInv => StoreTypeOK
  BY DEF StoreInv
<1> QED
  BY <1>1, StoreInvariant, PTL

\* Under the key of an endpoint and an employee the server holds a payload
\* this employee's account asked this endpoint for, which log_tickets_*.js
\* could read.
THEOREM StoreHoldsAuthentic == StoreSpec => []StoreAuthentic
<1>1. ASSUME StoreInv PROVE StoreAuthentic
  <2> SUFFICES ASSUME NEW q \in Key, store[q].ticket # 0
               PROVE  LET i == issued[store[q].ticket] IN
                      /\ q.endpoint = endpoint_id[i.contract]
                      /\ q.kind = Kind(i.contract)
                      /\ At(employee_addrs[i.sender]).employee_id = q.employee
                      /\ Readable(store[q].ticket)
    BY DEF StoreAuthentic
  <2> DEFINE t == store[q].ticket
  <2>1. t \in DOMAIN issued
    BY <1>1 DEF StoreInv, StoreTypeOK
  <2>2. key(t) = q /\ Readable(t)
    BY <1>1 DEF StoreInv, OrderInv, StoreOwn
  <2>3. /\ issued[t].ticket.endpoint_id = endpoint_id[issued[t].contract]
        /\ At(employee_addrs[issued[t].sender]).employee_id = issued[t].ticket.employee_id
    BY <1>1, <2>1 DEF StoreInv, ChainInv, TicketsAuthentic
  <2>4. /\ q.endpoint = issued[t].ticket.endpoint_id
        /\ q.employee = issued[t].ticket.employee_id
        /\ q.kind = Kind(issued[t].contract)
    <3>1. q = [endpoint |-> issued[t].ticket.endpoint_id,
               employee |-> issued[t].ticket.employee_id,
               kind     |-> Kind(issued[t].contract)]
      BY <2>2, Zenon DEF key
    <3> HIDE DEF t
    <3> QED
      BY <3>1
  <2> QED
    BY <2>2, <2>3, <2>4
<1> QED
  BY <1>1, StoreInvariant, PTL

\* No SET, expiry or restart replaces a stored ticket by an older one.
THEOREM StoreNeverRollsBack == StoreSpec => NoRollback
<1>1. ASSUME StoreInv, [StoreNext]_storeVars
      PROVE  [\A k \in Key : store'[k].ticket # 0 =>
                 store'[k].ticket >= store[k].ticket]_storeVars
  BY <1>1, StoreStep DEF NotRolledBack
<1> QED
  BY <1>1, StoreInvariant, PTL DEF StoreSpec, NoRollback

=============================================================================
