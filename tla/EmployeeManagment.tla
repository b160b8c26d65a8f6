-------------------------- MODULE EmployeeManagment --------------------------
(***************************************************************************)
(* The employee registry: contracts/EmployeeManagment.sol and the two      *)
(* contracts of contracts/Employee.sol that it drives (EmpolyeeFactory and *)
(* Empolyee).                                                              *)
(*                                                                         *)
(* A transaction is one atomic step.  A transaction whose `require' fails  *)
(* reverts and leaves no trace, so its guard is simply not satisfied.      *)
(* Solidity arrays are indexed from 0 and sequences from 1: At(k) is       *)
(* records[k] of the contract.  Names of employees are left out, nothing   *)
(* reads them.                                                             *)
(***************************************************************************)
EXTENDS Naturals, Sequences

CONSTANTS
    Addr,           \* account addresses, the zero address included
    EmployeeId,     \* bytes32 employee ids, the zero id included
    ZeroAddr,       \* address(0x0): the default value of an address
    ZeroId,         \* bytes32(0): the default value of an employee id
    manager,        \* the account given to EmployeeManagment's constructor
    Factory,        \* deployed EmpolyeeFactory contracts
    NoFactory,      \* IEmployeeFactory(address(0x0))
    MaxEmpolyees    \* bound on the number of Empolyee contracts deployed

ASSUME RegistryAssumption ==
    /\ ZeroAddr \in Addr
    /\ ZeroId \in EmployeeId
    /\ manager \in Addr
    /\ NoFactory \notin Factory
    /\ MaxEmpolyees \in Nat

VARIABLES
    records,        \* EmployeeRecord[]: the sentinel, then the employees
    employee_ids,   \* mapping(bytes32 => uint): index in records, 0 by default
    employee_addrs, \* mapping(address => uint): index in records, 0 by default
    factory,        \* the factory new_employee uses
    empolyees       \* the Empolyee contracts deployed so far: an IEmployee
                    \* reference is an index in this sequence, 0 is address(0)

registryVars == <<records, employee_ids, employee_addrs, factory, empolyees>>

EmployeeRecord ==
    [exists           : BOOLEAN,
     employee_id      : EmployeeId,
     employee_address : Addr,
     employee_obj     : Nat,
     active           : BOOLEAN]

\* Accounts that can send a transaction: nobody has the zero address's key.
Account == Addr \ {ZeroAddr}

\* The storage of one Empolyee contract.
Empolyee == [employee_id : EmployeeId, employee_addr : Addr]

-----------------------------------------------------------------------------

is_manager(id) == id = manager

\* records.length and records[k]
Length == Len(records)
At(k) == records[k + 1]

\* `EmployeeRecord memory er;': every field has its default value
EmptyRecord ==
    [exists |-> FALSE, employee_id |-> ZeroId, employee_address |-> ZeroAddr,
     employee_obj |-> 0, active |-> FALSE]

\* get_employeerec_address: whether addr belongs to an active employee
is_employee_active(addr) ==
    LET er == At(employee_addrs[addr]) IN er.exists /\ er.active

\* get_employee_address: the pair it returns, the object being address(0)
\* for an account that is not an active employee's
get_employee_address(addr) ==
    IF is_employee_active(addr)
    THEN [active |-> TRUE, employee |-> At(employee_addrs[addr]).employee_obj]
    ELSE [active |-> FALSE, employee |-> 0]

-----------------------------------------------------------------------------

\* The constructor: the sentinel record takes index 0, where the mappings
\* point by default, so that an unknown id or address finds exists = FALSE.
\* The first form, a mutant, does not push it.
RegistryInitNoSentinel ==
    /\ records = <<>>
    /\ employee_ids = [id \in EmployeeId |-> 0]
    /\ employee_addrs = [a \in Addr |-> 0]
    /\ factory = NoFactory
    /\ empolyees = <<>>

RegistryInit ==
    /\ records = <<EmptyRecord>>
    /\ employee_ids = [id \in EmployeeId |-> 0]
    /\ employee_addrs = [a \in Addr |-> 0]
    /\ factory = NoFactory
    /\ empolyees = <<>>

\* set_factory; address(0x0) is a legal argument
set_factory(sender, factory_) ==
    /\ is_manager(sender)
    /\ factory' = factory_
    /\ UNCHANGED <<records, employee_ids, employee_addrs, empolyees>>

\* EmpolyeeFactory.make deploys one Empolyee.  It is external and unguarded:
\* any account may call it, and the contract it deploys is then in no record.
deploy(id, addr) ==
    /\ Len(empolyees) < MaxEmpolyees
    /\ empolyees' = Append(empolyees, [employee_id |-> id, employee_addr |-> addr])

make(id, addr) ==
    /\ deploy(id, addr)
    /\ UNCHANGED <<records, employee_ids, employee_addrs, factory>>

\* The second `require' of new_employee: neither the address nor the id has a
\* record yet.  The first two forms are mutants.
UnregisteredAddressOnly(employee_id, employee_address) ==
    ~At(employee_addrs[employee_address]).exists

UnregisteredEither(employee_id, employee_address) ==
    \/ ~At(employee_addrs[employee_address]).exists
    \/ ~At(employee_ids[employee_id]).exists

Unregistered(employee_id, employee_address) ==
    /\ ~At(employee_addrs[employee_address]).exists
    /\ ~At(employee_ids[employee_id]).exists

\* The index both mappings get: records.length - 1 after the push, which is
\* Length before it.  The first form, a mutant, forgets the - 1.
PushedIndexPastEnd == Length + 1

PushedIndex == Length

\* new_employee
new_employee(sender, employee_id, employee_address) ==
    /\ is_manager(sender)
    /\ factory # NoFactory
    /\ Unregistered(employee_id, employee_address)
    /\ deploy(employee_id, employee_address)
    /\ records' = Append(records,
          [exists |-> TRUE,
           employee_id |-> employee_id,
           employee_address |-> employee_address,
           employee_obj |-> Len(empolyees'),
           active |-> TRUE])
    /\ employee_ids' = [employee_ids EXCEPT ![employee_id] = PushedIndex]
    /\ employee_addrs' = [employee_addrs EXCEPT ![employee_address] = PushedIndex]
    /\ UNCHANGED factory

RegistryNext ==
    \/ \E sender \in Account, f \in Factory \cup {NoFactory} : set_factory(sender, f)
    \/ \E id \in EmployeeId, a \in Addr : make(id, a)
    \/ \E sender \in Account, id \in EmployeeId, a \in Addr : new_employee(sender, id, a)

RegistrySpec == RegistryInit /\ [][RegistryNext]_registryVars

-----------------------------------------------------------------------------

\* Type invariant of the registry's storage.
RegistryTypeOK ==
    /\ records \in Seq(EmployeeRecord)
    /\ Length >= 1
    /\ employee_ids \in [EmployeeId -> Nat]
    /\ employee_addrs \in [Addr -> Nat]
    /\ factory \in Factory \cup {NoFactory}
    /\ empolyees \in Seq(Empolyee)

\* What the mappings hold is always an index of records, so no lookup of
\* EmployeeManagment.sol:45 or :78 can revert on an array bound.
IndicesInBounds ==
    /\ \A id \in EmployeeId : employee_ids[id] < Length
    /\ \A a \in Addr : employee_addrs[a] < Length

\* The registry is a one-to-one correspondence of ids, addresses and records:
\* each employee's record is the one that both mappings find (so no two
\* records share an id or an address), and an index other than the
\* sentinel's leads to the record of that very id or address.  It is what the
\* `require' of EmployeeManagment.sol:45, read with the sentinel of :74, is for.
RegistryOneToOne ==
    /\ \A k \in 1..(Length - 1) :
          /\ At(k).exists
          /\ employee_ids[At(k).employee_id] = k
          /\ employee_addrs[At(k).employee_address] = k
    /\ \A id \in EmployeeId : employee_ids[id] # 0 => At(employee_ids[id]).employee_id = id
    /\ \A a \in Addr : employee_addrs[a] # 0 => At(employee_addrs[a]).employee_address = a

\* The IEmployee that get_employee_address hands out for an account is a
\* deployed contract holding that account and the id the registry knows it
\* by, although anyone can deploy an Empolyee with the same data through
\* EmpolyeeFactory.make: CreateTicket takes the ticket's employee_id from it.
LookupSound ==
    \A a \in Addr : get_employee_address(a).active =>
        LET e == get_employee_address(a).employee IN
        /\ e \in DOMAIN empolyees
        /\ empolyees[e].employee_addr = a
        /\ employee_ids[empolyees[e].employee_id] = employee_addrs[a]

\* No record already there changes, no account and no id moves to another one.
BindingKept ==
    /\ \A k \in 1..Length : k <= Len(records') /\ records'[k] = records[k]
    /\ \A a \in Addr : employee_addrs[a] # 0 => employee_addrs'[a] = employee_addrs[a]
    /\ \A id \in EmployeeId : employee_ids[id] # 0 => employee_ids'[id] = employee_ids[id]

\* An identity is never rebound: once an account or an id has a record, no
\* later transaction moves it to another record or edits that record.
BindingPermanent == [][BindingKept]_registryVars

=============================================================================
