------------------------ MODULE TicketGranterProofs -------------------------
(***************************************************************************)
(* Proofs about the registry, for every set of accounts, ids and factories *)
(* and every bound.                                                        *)
(***************************************************************************)
EXTENDS TicketGranter, TLAPS

\* Type correctness is inductive on its own.
LEMMA TypeStep ==
    ASSUME RegistryTypeOK, [RegistryNext]_registryVars
    PROVE  RegistryTypeOK'
<1> USE DEF RegistryTypeOK, Length
<1>1. ASSUME NEW sender \in Account, NEW f \in Factory \cup {NoFactory},
             set_factory(sender, f)
      PROVE  RegistryTypeOK'
  BY <1>1 DEF set_factory
<1>2. ASSUME NEW id \in EmployeeId, NEW a \in Addr, make(id, a)
      PROVE  RegistryTypeOK'
  BY <1>2 DEF make, deploy, Empolyee
<1>3. ASSUME NEW sender \in Account, NEW id \in EmployeeId, NEW a \in Addr,
             new_employee(sender, id, a)
      PROVE  RegistryTypeOK'
  <2>1. empolyees' \in Seq(Empolyee) /\ Len(empolyees') \in Nat
    BY <1>3 DEF new_employee, deploy, Empolyee
  <2>2. records' \in Seq(EmployeeRecord) /\ Len(records') = Len(records) + 1
    BY <1>3, <2>1 DEF new_employee, EmployeeRecord
  <2> QED
    BY <1>3, <2>1, <2>2 DEF new_employee, PushedIndex
<1>4. CASE UNCHANGED registryVars
  BY <1>4 DEF registryVars
<1> QED
  BY <1>1, <1>2, <1>3, <1>4 DEF RegistryNext

\* Every reachable state of EmployeeManagment is type correct; in particular
\* records always holds the sentinel.
THEOREM RegistryTypeCorrect == RegistrySpec => []RegistryTypeOK
<1>1. RegistryInit => RegistryTypeOK
  BY RegistryAssumption
     DEF RegistryInit, RegistryTypeOK, Length, EmptyRecord, EmployeeRecord
<1> QED
  BY <1>1, TypeStep, PTL DEF RegistrySpec

-----------------------------------------------------------------------------

\* RegistryOneToOne says nothing of the sentinel, yet new_employee's `require'
\* passes for a new id exactly because index 0 holds a record with
\* exists = FALSE.
SentinelAbsent == ~At(0).exists

\* LookupSound looks at active employees only; the step that appends a record
\* needs what it says of every record and of its object.
ObjectsMatch ==
    \A k \in 1..(Length - 1) :
        /\ At(k).employee_obj \in 1..Len(empolyees)
        /\ empolyees[At(k).employee_obj] =
              [employee_id |-> At(k).employee_id,
               employee_addr |-> At(k).employee_address]

\* The inductive invariant.
RegistryInv ==
    /\ RegistryTypeOK
    /\ IndicesInBounds
    /\ SentinelAbsent
    /\ RegistryOneToOne
    /\ ObjectsMatch

\* The effect of new_employee(_, id, a), index by index.
Pushed(id, a) ==
    /\ Len(records') = Len(records) + 1
    /\ \A k \in 1..Len(records) : records'[k] = records[k]
    /\ records'[Len(records) + 1] =
          [exists |-> TRUE, employee_id |-> id, employee_address |-> a,
           employee_obj |-> Len(empolyees) + 1, active |-> TRUE]
    /\ employee_ids' = [employee_ids EXCEPT ![id] = Len(records)]
    /\ employee_addrs' = [employee_addrs EXCEPT ![a] = Len(records)]
    /\ Len(empolyees') = Len(empolyees) + 1
    /\ \A e \in 1..Len(empolyees) : empolyees'[e] = empolyees[e]
    /\ empolyees'[Len(empolyees) + 1] = [employee_id |-> id, employee_addr |-> a]

\* What new_employee's push and the factory's deployment do to the arrays.
LEMMA PushEffect ==
    ASSUME RegistryTypeOK,
           NEW sender \in Account, NEW id \in EmployeeId, NEW a \in Addr,
           new_employee(sender, id, a)
    PROVE  Pushed(id, a)
<1>1. /\ Len(empolyees') = Len(empolyees) + 1
      /\ \A e \in 1..Len(empolyees) : empolyees'[e] = empolyees[e]
      /\ empolyees'[Len(empolyees) + 1] = [employee_id |-> id, employee_addr |-> a]
  BY DEF new_employee, deploy, RegistryTypeOK
<1>2. /\ Len(records') = Len(records) + 1
      /\ \A k \in 1..Len(records) : records'[k] = records[k]
      /\ records'[Len(records) + 1] =
            [exists |-> TRUE, employee_id |-> id, employee_address |-> a,
             employee_obj |-> Len(empolyees) + 1, active |-> TRUE]
  BY <1>1 DEF new_employee, RegistryTypeOK
<1> QED
  BY <1>1, <1>2 DEF new_employee, PushedIndex, Length, Pushed

\* new_employee keeps the correspondence: the `require' says that neither the
\* id nor the address points at a record of an employee, so overwriting
\* their indices cuts no record off.
LEMMA NewEmployeeStep ==
    ASSUME RegistryInv,
           NEW sender \in Account, NEW id \in EmployeeId, NEW a \in Addr,
           new_employee(sender, id, a)
    PROVE  RegistryInv'
<1> DEFINE n == Len(records)
<1> USE DEF RegistryInv
<1>1. RegistryTypeOK'
  BY TypeStep DEF RegistryNext
<1>2. n \in Nat /\ n >= 1 /\ Len(empolyees) \in Nat
  BY DEF RegistryTypeOK, Length
<1>3. Pushed(id, a)
  BY PushEffect
<1>4. employee_ids[id] = 0 /\ employee_addrs[a] = 0
  BY <1>2 DEF new_employee, Unregistered, RegistryOneToOne, IndicesInBounds,
              RegistryTypeOK, Length, At
<1>5. IndicesInBounds'
  BY <1>2, <1>3 DEF Pushed, IndicesInBounds, RegistryTypeOK, Length
<1>6. SentinelAbsent'
  BY <1>2, <1>3 DEF Pushed, SentinelAbsent, At
<1>7. RegistryOneToOne'
  <2>1. ASSUME NEW k \in 1..(n - 1)
        PROVE  /\ records'[k + 1].exists
               /\ employee_ids'[records'[k + 1].employee_id] = k
               /\ employee_addrs'[records'[k + 1].employee_address] = k
    <3>1. records'[k + 1] = records[k + 1]
      BY <1>2, <1>3 DEF Pushed
    <3>2. /\ records[k + 1].employee_id \in EmployeeId
          /\ records[k + 1].employee_address \in Addr
      <4>1. k + 1 \in 1..Len(records)
        BY <1>2
      <4>2. records[k + 1] \in EmployeeRecord
        BY <4>1 DEF RegistryTypeOK
      <4> QED
        BY <4>2 DEF EmployeeRecord
    <3>3. /\ records[k + 1].exists
          /\ employee_ids[records[k + 1].employee_id] = k
          /\ employee_addrs[records[k + 1].employee_address] = k
      BY <1>2 DEF RegistryOneToOne, Length, At
    <3>4. records[k + 1].employee_id # id /\ records[k + 1].employee_address # a
      BY <1>4, <3>3
    <3> QED
      BY <1>3, <3>1, <3>2, <3>3, <3>4 DEF Pushed, RegistryTypeOK
  <2>2. /\ records'[n + 1].exists
        /\ employee_ids'[records'[n + 1].employee_id] = n
        /\ employee_addrs'[records'[n + 1].employee_address] = n
    BY <1>2, <1>3 DEF Pushed, RegistryTypeOK
  <2>3. ASSUME NEW i \in EmployeeId, employee_ids'[i] # 0
        PROVE  records'[employee_ids'[i] + 1].employee_id = i
    <3>1. CASE i = id
      BY <1>2, <1>3, <3>1 DEF Pushed, RegistryTypeOK
    <3>2. CASE i # id
      <4>1. employee_ids'[i] = employee_ids[i] /\ employee_ids[i] \in 0..(n - 1)
        BY <1>2, <1>3, <3>2 DEF Pushed, RegistryTypeOK, IndicesInBounds, Length
      <4>2. records'[employee_ids[i] + 1] = records[employee_ids[i] + 1]
        <5>1. employee_ids[i] + 1 \in 1..n
          BY <1>2, <4>1
        <5>2. \A k \in 1..n : records'[k] = records[k]
          BY <1>3 DEF Pushed
        <5> QED
          BY <5>1, <5>2, Zenon
      <4>3. records[employee_ids[i] + 1].employee_id = i
        BY <2>3, <4>1 DEF RegistryOneToOne, At
      <4> QED
        BY <4>1, <4>2, <4>3
    <3> QED
      BY <3>1, <3>2
  <2>4. ASSUME NEW b \in Addr, employee_addrs'[b] # 0
        PROVE  records'[employee_addrs'[b] + 1].employee_address = b
    <3>1. CASE b = a
      BY <1>2, <1>3, <3>1 DEF Pushed, RegistryTypeOK
    <3>2. CASE b # a
      <4>1. employee_addrs'[b] = employee_addrs[b] /\ employee_addrs[b] \in 0..(n - 1)
        BY <1>2, <1>3, <3>2 DEF Pushed, RegistryTypeOK, IndicesInBounds, Length
      <4>2. records'[employee_addrs[b] + 1] = records[employee_addrs[b] + 1]
        <5>1. employee_addrs[b] + 1 \in 1..n
          BY <1>2, <4>1
        <5>2. \A k \in 1..n : records'[k] = records[k]
          BY <1>3 DEF Pushed
        <5> QED
          BY <5>1, <5>2, Zenon
      <4>3. records[employee_addrs[b] + 1].employee_address = b
        BY <2>4, <4>1 DEF RegistryOneToOne, At
      <4> QED
        BY <4>1, <4>2, <4>3
    <3> QED
      BY <3>1, <3>2
  <2> QED
    BY <1>2, <2>1, <2>2, <2>3, <2>4, <1>3 DEF Pushed, RegistryOneToOne, Length, At
<1>8. ObjectsMatch'
  <2> DEFINE l == Len(empolyees)
             Matched(k) == /\ records[k + 1].employee_obj \in 1..l
                           /\ empolyees[records[k + 1].employee_obj] =
                                 [employee_id |-> records[k + 1].employee_id,
                                  employee_addr |-> records[k + 1].employee_address]
  <2>1. /\ Len(records') = n + 1 /\ Len(empolyees') = l + 1
        /\ \A k \in 1..n : records'[k] = records[k]
        /\ \A e \in 1..l : empolyees'[e] = empolyees[e]
    BY <1>3, Zenon DEF Pushed
  <2>2. ASSUME NEW k \in 1..(n - 1)
        PROVE  Matched(k)
    BY <2>2, Zenon DEF ObjectsMatch, Length, At
  <2>3. ASSUME NEW k \in 1..n
        PROVE  /\ records'[k + 1].employee_obj \in 1..(l + 1)
               /\ empolyees'[records'[k + 1].employee_obj] =
                     [employee_id |-> records'[k + 1].employee_id,
                      employee_addr |-> records'[k + 1].employee_address]
    <3>1. CASE k \in 1..(n - 1)
      <4>1. k + 1 \in 1..n
        <5> HIDE DEF n
        <5> QED
          BY <1>2, <3>1
      <4>2. records'[k + 1] = records[k + 1]
        BY <2>1, <4>1, Zenon
      <4>3. Matched(k)
        BY <2>2, <3>1, Zenon
      <4>4. empolyees'[records[k + 1].employee_obj] = empolyees[records[k + 1].employee_obj]
        BY <2>1, <4>3, Zenon
      <4>5. 1..l \subseteq 1..(l + 1)
        BY <1>2
      <4> QED
        BY <4>2, <4>3, <4>4, <4>5, Zenon
    <3>2. CASE k = n
      <4>1. /\ records'[n + 1].employee_obj = l + 1
            /\ records'[n + 1].employee_id = id
            /\ records'[n + 1].employee_address = a
            /\ empolyees'[l + 1] = [employee_id |-> id, employee_addr |-> a]
        BY <1>3 DEF Pushed
      <4>2. l + 1 \in 1..(l + 1)
        BY <1>2
      <4> QED
        BY <3>2, <4>1, <4>2, Zenon
    <3>3. k \in 1..(n - 1) \/ k = n
      <4> HIDE DEF n
      <4> QED
        BY <1>2
    <3> QED
      BY <3>1, <3>2, <3>3
  <2>4. Length' - 1 = n
    BY <1>2, <2>1 DEF Length
  <2> QED
    BY <2>1, <2>3, <2>4, Zenon DEF ObjectsMatch, At
<1> QED
  BY <1>1, <1>5, <1>6, <1>7, <1>8

\* Every transaction of the registry and of the factory keeps the invariant.
LEMMA RegistryStep ==
    ASSUME RegistryInv, [RegistryNext]_registryVars
    PROVE  RegistryInv'
<1>1. RegistryTypeOK'
  BY TypeStep DEF RegistryInv
<1>2. ASSUME NEW sender \in Account, NEW f \in Factory \cup {NoFactory},
             set_factory(sender, f)
      PROVE  RegistryInv'
  BY <1>1, <1>2 DEF RegistryInv, set_factory, IndicesInBounds, SentinelAbsent,
                    RegistryOneToOne, ObjectsMatch, Length, At
<1>3. ASSUME NEW id \in EmployeeId, NEW a \in Addr, make(id, a)
      PROVE  RegistryInv'
  <2>1. IndicesInBounds' /\ SentinelAbsent' /\ RegistryOneToOne'
    BY <1>3 DEF RegistryInv, make, IndicesInBounds, SentinelAbsent,
                RegistryOneToOne, Length, At
  <2>2. /\ Len(empolyees) \in Nat
        /\ Len(empolyees') = Len(empolyees) + 1
        /\ \A e \in 1..Len(empolyees) : empolyees'[e] = empolyees[e]
    BY <1>3 DEF RegistryInv, make, deploy, RegistryTypeOK
  <2>3. ObjectsMatch'
    <3>1. records' = records
      BY <1>3 DEF make
    <3>2. SUFFICES ASSUME NEW k \in 1..(Len(records) - 1)
                   PROVE  /\ records[k + 1].employee_obj \in 1..Len(empolyees')
                          /\ empolyees'[records[k + 1].employee_obj] =
                                [employee_id |-> records[k + 1].employee_id,
                                 employee_addr |-> records[k + 1].employee_address]
      BY <3>1 DEF ObjectsMatch, Length, At
    <3>3. /\ records[k + 1].employee_obj \in 1..Len(empolyees)
          /\ empolyees[records[k + 1].employee_obj] =
                [employee_id |-> records[k + 1].employee_id,
                 employee_addr |-> records[k + 1].employee_address]
      BY DEF RegistryInv, ObjectsMatch, Length, At
    <3> QED
      BY <2>2, <3>3
  <2> QED
    BY <1>1, <2>1, <2>3 DEF RegistryInv
<1>4. ASSUME NEW sender \in Account, NEW id \in EmployeeId, NEW a \in Addr,
             new_employee(sender, id, a)
      PROVE  RegistryInv'
  BY <1>4, NewEmployeeStep
<1>5. CASE UNCHANGED registryVars
  BY <1>1, <1>5 DEF RegistryInv, registryVars, IndicesInBounds, SentinelAbsent,
                    RegistryOneToOne, ObjectsMatch, Length, At
<1> QED
  BY <1>2, <1>3, <1>4, <1>5 DEF RegistryNext

\* The constructor establishes it: the sentinel is the only record.
LEMMA RegistryInitInv == RegistryInit => RegistryInv
<1> SUFFICES ASSUME RegistryInit PROVE RegistryInv
  OBVIOUS
<1>1. RegistryTypeOK
  BY RegistryAssumption
     DEF RegistryInit, RegistryTypeOK, Length, EmptyRecord, EmployeeRecord
<1>2. Len(records) = 1 /\ records[1] = EmptyRecord
  BY DEF RegistryInit
<1> QED
  BY <1>1, <1>2 DEF RegistryInit, RegistryInv, IndicesInBounds, SentinelAbsent,
                    RegistryOneToOne, ObjectsMatch, Length, At, EmptyRecord

\* The inductive invariant of the registry holds in every reachable state.
THEOREM RegistryInvariant == RegistrySpec => []RegistryInv
BY RegistryInitInv, RegistryStep, PTL DEF RegistrySpec

\* For every set of accounts and ids, the two mappings and the record array of
\* EmployeeManagment.sol stay in one-to-one correspondence: the id of an
\* employee is unique, and so is the account.
THEOREM RegistryIsOneToOne == RegistrySpec => []RegistryOneToOne
<1>1. RegistryInv => RegistryOneToOne
  BY DEF RegistryInv
<1> QED
  BY <1>1, RegistryInvariant, PTL

\* No lookup of the registry reverts on an array bound.
THEOREM RegistryInBounds == RegistrySpec => []IndicesInBounds
<1>1. RegistryInv => IndicesInBounds
  BY DEF RegistryInv
<1> QED
  BY <1>1, RegistryInvariant, PTL

\* What CreateTicket learns about its sender from get_employee_address.
LEMMA LookupIdentity ==
    ASSUME RegistryInv, NEW a \in Addr, get_employee_address(a).active
    PROVE  /\ employee_addrs[a] \in 1..(Length - 1)
           /\ At(employee_addrs[a]).employee_address = a
           /\ At(employee_addrs[a]).employee_id \in EmployeeId
           /\ employee_ids[At(employee_addrs[a]).employee_id] = employee_addrs[a]
           /\ get_employee_address(a).employee \in DOMAIN empolyees
           /\ empolyees[get_employee_address(a).employee] =
                 [employee_id |-> At(employee_addrs[a]).employee_id, employee_addr |-> a]
<1> DEFINE k == employee_addrs[a]
<1>1. At(k).exists /\ get_employee_address(a).employee = At(k).employee_obj
  BY DEF get_employee_address, is_employee_active
<1>2. k \in 0..(Length - 1) /\ k # 0
  BY <1>1 DEF RegistryInv, IndicesInBounds, RegistryTypeOK, SentinelAbsent, Length
<1>3. At(k).employee_address = a /\ employee_ids[At(k).employee_id] = k
  BY <1>2 DEF RegistryInv, RegistryOneToOne, RegistryTypeOK, Length
<1>4. At(k).employee_id \in EmployeeId
  <2>1. k + 1 \in 1..Len(records)
    BY <1>2 DEF RegistryInv, RegistryTypeOK, Length
  <2>2. records[k + 1] \in EmployeeRecord
    BY <2>1 DEF RegistryInv, RegistryTypeOK
  <2> QED
    BY <2>2 DEF EmployeeRecord, At
<1>5. /\ At(k).employee_obj \in DOMAIN empolyees
      /\ empolyees[At(k).employee_obj] =
            [employee_id |-> At(k).employee_id, employee_addr |-> At(k).employee_address]
  BY <1>2 DEF RegistryInv, ObjectsMatch, RegistryTypeOK, Length
<1> QED
  BY <1>1, <1>2, <1>3, <1>4, <1>5

\* get_employee_address never hands out an Empolyee of another account, even
\* though the factory is open to everyone.
THEOREM RegistryLookupSound == RegistrySpec => []LookupSound
<1>1. RegistryInv => LookupSound
  <2> SUFFICES ASSUME RegistryInv, NEW a \in Addr, get_employee_address(a).active
               PROVE  LET e == get_employee_address(a).employee IN
                      /\ e \in DOMAIN empolyees
                      /\ empolyees[e].employee_addr = a
                      /\ employee_ids[empolyees[e].employee_id] = employee_addrs[a]
    BY DEF LookupSound
  <2>1. /\ get_employee_address(a).employee \in DOMAIN empolyees
        /\ empolyees[get_employee_address(a).employee] =
              [employee_id |-> At(employee_addrs[a]).employee_id, employee_addr |-> a]
        /\ employee_ids[At(employee_addrs[a]).employee_id] = employee_addrs[a]
    BY LookupIdentity
  <2> QED
    BY <2>1
<1> QED
  BY <1>1, RegistryInvariant, PTL

\* A transaction leaves every binding of an account or an id as it was.
LEMMA BindingStep ==
    ASSUME RegistryInv, [RegistryNext]_registryVars
    PROVE  BindingKept
<1>1. ASSUME NEW sender \in Account, NEW id \in EmployeeId, NEW a \in Addr,
             new_employee(sender, id, a)
      PROVE  BindingKept
  <2>1. Pushed(id, a)
    BY <1>1, PushEffect DEF RegistryInv
  <2>2. employee_ids[id] = 0 /\ employee_addrs[a] = 0
    BY <1>1 DEF RegistryInv, new_employee, Unregistered, RegistryOneToOne,
                      IndicesInBounds, RegistryTypeOK, Length, At
  <2>3. \A k \in 1..Length : k <= Len(records') /\ records'[k] = records[k]
    BY <2>1 DEF RegistryInv, RegistryTypeOK, Pushed, Length
  <2>4. \A b \in Addr : employee_addrs[b] # 0 => employee_addrs'[b] = employee_addrs[b]
    BY <2>1, <2>2 DEF RegistryInv, RegistryTypeOK, Pushed
  <2>5. \A i \in EmployeeId : employee_ids[i] # 0 => employee_ids'[i] = employee_ids[i]
    BY <2>1, <2>2 DEF RegistryInv, RegistryTypeOK, Pushed
  <2> QED
    BY <2>3, <2>4, <2>5 DEF BindingKept
<1>2. ASSUME UNCHANGED <<records, employee_ids, employee_addrs>>
      PROVE  BindingKept
  BY <1>2 DEF RegistryInv, RegistryTypeOK, BindingKept, Length
<1> QED
  BY <1>1, <1>2 DEF RegistryNext, registryVars, set_factory, make

\* No transaction ever rebinds an account or an id: a ticket's employee_id
\* means the same account for good.
THEOREM RegistryBindingPermanent == RegistrySpec => BindingPermanent
<1>1. RegistryInv /\ [RegistryNext]_registryVars => [BindingKept]_registryVars
  BY BindingStep
<1> QED
  BY <1>1, RegistryInvariant, PTL DEF RegistrySpec, BindingPermanent

-----------------------------------------------------------------------------
(***************************************************************************)
(* Proofs about the chain: what an issued ticket says stays true of the    *)
(* registry, for every set of accounts, ids and endpoints.                 *)
(***************************************************************************)

\* The inductive invariant.  TicketsAuthentic alone is not inductive: that a
\* new ticket is right needs the registry's own invariant (LookupIdentity),
\* that an old one stays right needs that no binding is undone (BindingStep).
ChainInv ==
    /\ RegistryInv
    /\ ChainTypeOK
    /\ TicketsAuthentic
    /\ TimestampsOrdered

\* Just deployed, the chain has no tickets and a registry that is in order.
LEMMA ChainInitInv == ChainInit => ChainInv
<1> SUFFICES ASSUME ChainInit PROVE ChainInv
  OBVIOUS
<1>1. RegistryInv
  BY RegistryInitInv DEF ChainInit
<1>2. issued = <<>> /\ now = 0
  BY DEF ChainInit
<1> QED
  BY <1>1, <1>2 DEF ChainInv, RegistryInv, ChainTypeOK, TicketsAuthentic, TimestampsOrdered

\* A registry transaction keeps every issued ticket authentic.
LEMMA RegistryKeepsTickets ==
    ASSUME ChainInv, [RegistryNext]_registryVars, UNCHANGED <<now, issued>>
    PROVE  ChainInv'
<1>1. RegistryInv'
  BY RegistryStep DEF ChainInv
<1>2. BindingKept
  BY BindingStep DEF ChainInv
<1>3. ChainTypeOK'
  BY <1>1 DEF ChainInv, ChainTypeOK, RegistryInv
<1>4. TimestampsOrdered'
  BY DEF ChainInv, TimestampsOrdered
<1>5. TicketsAuthentic'
  <2> SUFFICES ASSUME NEW k \in DOMAIN issued
               PROVE  /\ employee_addrs'[issued[k].sender] # 0
                      /\ records'[employee_addrs'[issued[k].sender] + 1].employee_id
                            = issued[k].ticket.employee_id
                      /\ issued[k].ticket.endpoint_id = endpoint_id[issued[k].contract]
                      /\ issued[k].ticket.validity_length
                            = validity_length[issued[k].contract]
    BY DEF TicketsAuthentic, At
  <2> DEFINE s == issued[k].sender
  <2>1. s \in Addr
    <3>1. issued[k] \in TicketIssued
      BY DEF ChainInv, ChainTypeOK
    <3> QED
      BY <3>1 DEF TicketIssued, Account
  <2>2. /\ employee_addrs[s] # 0
        /\ records[employee_addrs[s] + 1].employee_id = issued[k].ticket.employee_id
        /\ issued[k].ticket.endpoint_id = endpoint_id[issued[k].contract]
        /\ issued[k].ticket.validity_length = validity_length[issued[k].contract]
    BY DEF ChainInv, TicketsAuthentic, At
  <2>3. employee_addrs'[s] = employee_addrs[s]
    BY <1>2, <2>1, <2>2 DEF BindingKept
  <2>4. employee_addrs[s] + 1 \in 1..Len(records)
    BY <2>1 DEF ChainInv, RegistryInv, RegistryTypeOK, IndicesInBounds, Length
  <2>5. records'[employee_addrs[s] + 1] = records[employee_addrs[s] + 1]
    BY <1>2, <2>4, Zenon DEF BindingKept, Length
  <2> QED
    BY <2>2, <2>3, <2>5
<1> QED
  BY <1>1, <1>3, <1>4, <1>5 DEF ChainInv

\* CreateTicket appends a ticket that is authentic and not older than the rest.
LEMMA CreateTicketStep ==
    ASSUME ChainInv,
           NEW ep \in EndPoint, NEW sender \in Account, NEW endpoint \in EndPoint,
           NEW data \in TicketData,
           CreateTicket(ep, sender, endpoint, data)
    PROVE  ChainInv'
<1> DEFINE r == get_employee_address(sender)
           t == NewTicket(endpoint, r.employee, data)
           i == [contract |-> ep, sender |-> sender, ticket |-> t]
<1>1. /\ ep = endpoint
      /\ r.active
      /\ issued' = Append(issued, i)
      /\ UNCHANGED registryVars
      /\ now' = now
  BY DEF CreateTicket
<1>2. sender \in Addr
  BY DEF Account
<1>3. /\ employee_addrs[sender] \in 1..(Length - 1)
      /\ At(employee_addrs[sender]).employee_id \in EmployeeId
      /\ empolyees[r.employee] =
            [employee_id |-> At(employee_addrs[sender]).employee_id,
             employee_addr |-> sender]
  BY <1>1, <1>2, LookupIdentity DEF ChainInv
<1>4. RegistryInv'
  BY <1>1, RegistryStep DEF ChainInv
<1>5. /\ t.employee_id = At(employee_addrs[sender]).employee_id
      /\ t.endpoint_id = endpoint_id[ep]
      /\ t.validity_length = validity_length[ep]
      /\ t.timestamp = now
  BY <1>1, <1>3 DEF NewTicket
<1>6. i \in TicketIssued
  BY <1>1, <1>3, GranterAssumption
     DEF ChainInv, ChainTypeOK, TicketIssued, Ticket, NewTicket, EndPointId
<1>7. /\ issued \in Seq(TicketIssued)
      /\ Len(issued') = Len(issued) + 1
      /\ DOMAIN issued' = 1..(Len(issued) + 1)
      /\ \A k \in 1..Len(issued) : issued'[k] = issued[k]
      /\ issued'[Len(issued) + 1] = i
  <2> HIDE DEF i
  <2> QED
    BY <1>1, <1>6 DEF ChainInv, ChainTypeOK
<1>8. ChainTypeOK'
  <2> HIDE DEF i
  <2> QED
    BY <1>1, <1>4, <1>6 DEF ChainInv, ChainTypeOK, RegistryInv
<1>9. TicketsAuthentic'
  <2> DEFINE Authentic(j) ==
                 /\ employee_addrs[j.sender] # 0
                 /\ At(employee_addrs[j.sender]).employee_id = j.ticket.employee_id
                 /\ j.ticket.endpoint_id = endpoint_id[j.contract]
                 /\ j.ticket.validity_length = validity_length[j.contract]
  <2>1. Authentic(i)
    <3>1. employee_addrs[sender] # 0
      BY <1>3
    <3>2. i.contract = ep /\ i.sender = sender /\ i.ticket = t
      OBVIOUS
    <3> HIDE DEF i, t
    <3> QED
      BY <1>5, <3>1, <3>2, Zenon
  <2>2. \A k \in 1..Len(issued) : Authentic(issued[k])
    <3>1. DOMAIN issued = 1..Len(issued)
      BY <1>7
    <3> QED
      BY <3>1, Zenon DEF ChainInv, TicketsAuthentic
  <2>3. employee_addrs' = employee_addrs /\ records' = records
    BY <1>1, Zenon DEF registryVars
  <2>4. ASSUME NEW k \in DOMAIN issued'
        PROVE  Authentic(issued'[k])
    <3> DEFINE l == Len(issued)
    <3>1. l \in Nat /\ DOMAIN issued' = 1..(l + 1)
      BY <1>7
    <3>2. k \in 1..l \/ k = l + 1
      <4> HIDE DEF l
      <4> QED
        BY <3>1
    <3>3. CASE k \in 1..l
      <4>1. issued'[k] = issued[k]
        BY <1>7, <3>3, Zenon
      <4> QED
        BY <2>2, <3>3, <4>1, Zenon
    <3>4. CASE k = l + 1
      <4> HIDE DEF i, Authentic
      <4> QED
        BY <1>7, <2>1, <3>4, Zenon
    <3> QED
      BY <3>2, <3>3, <3>4
  <2> QED
    BY <2>3, <2>4, Zenon DEF TicketsAuthentic, At
<1>10. TimestampsOrdered'
  <2> DEFINE l == Len(issued)
  <2>1. l \in Nat /\ DOMAIN issued = 1..l /\ DOMAIN issued' = 1..(l + 1)
    BY <1>7
  <2>2. now \in Nat
    BY DEF ChainInv, ChainTypeOK
  <2>3. i.ticket.timestamp = now
    BY <1>5
  <2>4. \A k \in 1..l : issued'[k] = issued[k]
    BY <1>7, Zenon
  <2>5. issued'[l + 1].ticket.timestamp = now
    <3> HIDE DEF i
    <3> QED
      BY <1>7, <2>3, Zenon
  <2> HIDE DEF l
  <2>6. ASSUME NEW k \in DOMAIN issued'
        PROVE  issued'[k].ticket.timestamp <= now
    <3>1. CASE k \in 1..l
      <4>1. k <= k
        BY <2>1, <3>1
      <4> QED
        BY <2>1, <2>4, <3>1, <4>1, Zenon DEF ChainInv, TimestampsOrdered
    <3>2. CASE k = l + 1
      BY <2>2, <2>5, <3>2
    <3> QED
      BY <2>1, <3>1, <3>2
  <2>7. ASSUME NEW j \in DOMAIN issued', NEW k \in DOMAIN issued', j <= k
        PROVE  issued'[j].ticket.timestamp <= issued'[k].ticket.timestamp
    <3>1. CASE k \in 1..l
      <4>1. j \in 1..l
        BY <2>1, <2>7, <3>1
      <4> QED
        BY <2>1, <2>4, <2>7, <3>1, <4>1, Zenon DEF ChainInv, TimestampsOrdered
    <3>2. CASE k = l + 1
      BY <2>5, <2>6, <3>2, Zenon
    <3> QED
      BY <2>1, <3>1, <3>2
  <2>8. now' = now
    BY <1>1
  <2> QED
    BY <2>6, <2>7, <2>8 DEF TimestampsOrdered
<1> QED
  BY <1>4, <1>8, <1>9, <1>10 DEF ChainInv

\* Every transaction and every new block keeps the chain's invariant.
LEMMA ChainStep ==
    ASSUME ChainInv, [ChainNext]_chainVars
    PROVE  ChainInv'
<1>1. CASE RegistryNext /\ UNCHANGED <<now, issued>>
  BY <1>1, RegistryKeepsTickets
<1>2. ASSUME NEW ep \in EndPoint, NEW sender \in Account, NEW endpoint \in EndPoint,
             NEW data \in TicketData,
             CreateTicket(ep, sender, endpoint, data)
      PROVE  ChainInv'
  BY <1>2, CreateTicketStep
<1>3. CASE NewBlock
  <2>1. RegistryInv'
    BY <1>3, RegistryStep DEF ChainInv, NewBlock
  <2>2. ChainTypeOK'
    BY <1>3, <2>1 DEF ChainInv, ChainTypeOK, RegistryInv, NewBlock
  <2>3. TicketsAuthentic'
    BY <1>3 DEF ChainInv, TicketsAuthentic, NewBlock, registryVars, At
  <2>4. TimestampsOrdered'
    <3> SUFFICES ASSUME NEW j \in DOMAIN issued, NEW k \in DOMAIN issued, j <= k
                 PROVE  /\ issued[j].ticket.timestamp <= issued[k].ticket.timestamp
                        /\ issued[k].ticket.timestamp <= now + 1
      BY <1>3 DEF TimestampsOrdered, NewBlock
    <3>1. issued[k] \in TicketIssued
      BY DEF ChainInv, ChainTypeOK
    <3> QED
      BY <3>1 DEF ChainInv, ChainTypeOK, TimestampsOrdered, TicketIssued, Ticket
  <2> QED
    BY <2>1, <2>2, <2>3, <2>4 DEF ChainInv
<1>4. CASE UNCHANGED chainVars
  BY <1>4, RegistryKeepsTickets DEF chainVars
<1> QED
  BY <1>1, <1>2, <1>3, <1>4 DEF ChainNext

\* The inductive invariant of the chain holds in every reachable state.
THEOREM ChainInvariant == ChainSpec => []ChainInv
BY ChainInitInv, ChainStep, PTL DEF ChainSpec

\* The registry and the events stay what the contracts' types say.
THEOREM ChainTypeCorrect == ChainSpec => []ChainTypeOK
<1>1. ChainInv => ChainTypeOK
  BY DEF ChainInv
<1> QED
  BY <1>1, ChainInvariant, PTL

\* Whatever transactions follow, every ticket ever issued names the employee
\* the registry knows its sender by, and the endpoint that emitted it.
THEOREM ChainTicketsAuthentic == ChainSpec => []TicketsAuthentic
<1>1. ChainInv => TicketsAuthentic
  BY DEF ChainInv
<1> QED
  BY <1>1, ChainInvariant, PTL

\* The events of the chain are ordered by their timestamps.
THEOREM ChainTimestampsOrdered == ChainSpec => []TimestampsOrdered
<1>1. ChainInv => TimestampsOrdered
  BY DEF ChainInv
<1> QED
  BY <1>1, ChainInvariant, PTL

\* An employee_id on a ticket stands for one account and an account for one
\* employee_id: it combines the tickets with the registry's correspondence of
\* ids and accounts.
LEMMA HoldersDiffer == ASSUME ChainInv PROVE HolderUnique
<1> SUFFICES ASSUME NEW j \in DOMAIN issued, NEW k \in DOMAIN issued
             PROVE  issued[j].ticket.employee_id = issued[k].ticket.employee_id
                       <=> issued[j].sender = issued[k].sender
  BY DEF HolderUnique
<1>1. ASSUME NEW m \in DOMAIN issued
      PROVE  LET n == employee_addrs[issued[m].sender] IN
             /\ At(n).employee_id = issued[m].ticket.employee_id
             /\ At(n).employee_address = issued[m].sender
             /\ employee_ids[At(n).employee_id] = n
  <2> DEFINE n == employee_addrs[issued[m].sender]
  <2>1. issued[m] \in TicketIssued
    BY DEF ChainInv, ChainTypeOK
  <2>2. issued[m].sender \in Addr
    BY <2>1 DEF TicketIssued, Account
  <2>3. n # 0 /\ At(n).employee_id = issued[m].ticket.employee_id
    BY DEF ChainInv, TicketsAuthentic
  <2>4. n \in 1..(Length - 1)
    BY <2>2, <2>3
       DEF ChainInv, RegistryInv, RegistryTypeOK, IndicesInBounds, Length
  <2>5. employee_ids[At(n).employee_id] = n
    BY <2>4, Zenon DEF ChainInv, RegistryInv, RegistryOneToOne
  <2>6. At(n).employee_address = issued[m].sender
    BY <2>2, <2>3, Zenon DEF ChainInv, RegistryInv, RegistryOneToOne
  <2> QED
    BY <2>3, <2>5, <2>6
<1> QED
  BY <1>1

\* Every ticket's employee_id names one account for good, and the other way
\* round.
THEOREM ChainHolderUnique == ChainSpec => []HolderUnique
<1>1. ChainInv => HolderUnique
  BY HoldersDiffer
<1> QED
  BY <1>1, ChainInvariant, PTL

\* The endpoint contracts and the passing of time leave the registry to its own
\* transactions: the chain implements EmployeeManagment.
THEOREM ChainImplementsRegistry == ChainSpec => RegistrySpec
<1>1. ChainInit => RegistryInit
  BY DEF ChainInit
<1>2. [ChainNext]_chainVars => [RegistryNext]_registryVars
  BY DEF ChainNext, CreateTicket, NewBlock, chainVars
<1> QED
  BY <1>1, <1>2, PTL DEF ChainSpec, RegistrySpec

\* So with the endpoint contracts, too, ids, accounts and records correspond, no
\* lookup is out of bounds or finds another's Empolyee, and no binding changes.
THEOREM ChainKeepsRegistry ==
    ChainSpec => [](RegistryOneToOne /\ IndicesInBounds /\ LookupSound) /\ BindingPermanent
BY ChainImplementsRegistry, RegistryIsOneToOne, RegistryInBounds, RegistryLookupSound,
   RegistryBindingPermanent, PTL

=============================================================================
