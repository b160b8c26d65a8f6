---------------------------- MODULE TicketGranter ----------------------------
(***************************************************************************)
(* The chain: the endpoint contracts that issue tickets (NetEndPoint.sol,  *)
(* DoorEndPoint.sol, whose CreateTicket is the same code, on top of        *)
(* EndPointBase.sol) composed with the employee registry they consult.     *)
(*                                                                         *)
(* Transactions of both are serialised by the chain, in any order.  A      *)
(* CreateTicket that returns false (the sender is no active employee)      *)
(* changes nothing and emits nothing, TicketRejected is declared and never *)
(* emitted: like a revert it is no step of the model.                      *)
(***************************************************************************)
EXTENDS EmployeeManagment

CONSTANTS
    EndPoint,           \* the endpoint contracts
    endpoint_id,        \* constructor argument of each: its bytes32 id
    validity_length,    \* constructor argument of each: seconds, a uint64
    TicketData,         \* payloads an employee may put in a ticket
    MaxTime,            \* bound on the block timestamp
    MaxTickets          \* bound on the number of tickets issued

ASSUME GranterAssumption ==
    /\ validity_length \in [EndPoint -> Nat]
    /\ MaxTime \in Nat
    /\ MaxTickets \in Nat

VARIABLES
    now,        \* block.timestamp
    issued      \* the TicketIssued events in the order of the chain, each with
                \* the contract that emitted it and the account that asked

chainVars == <<registryVars, now, issued>>

EndPointId == {endpoint_id[ep] : ep \in EndPoint}

\* struct Ticket
Ticket ==
    [timestamp       : Nat,
     endpoint_id     : EndPointId,
     employee_id     : EmployeeId,
     validity_length : Nat,
     data            : TicketData]

TicketIssued == [contract : EndPoint, sender : Account, ticket : Ticket]

-----------------------------------------------------------------------------

\* EndPointBase.validate_ticket; validate_ticket_extra of both kinds of
\* endpoint compares the validity only, the payload is not looked at
validate_ticket(ep, ticket) ==
    /\ ticket.endpoint_id = endpoint_id[ep]
    /\ ticket.validity_length = validity_length[ep]

\* The Ticket that CreateTicket of contract ep builds for the Empolyee at e.
\* The first two forms are mutants: the id of the factory's last contract, and
\* the end of the validity period for its beginning.
NewTicketOfLast(ep, e, data) ==
    [timestamp |-> now,
     endpoint_id |-> endpoint_id[ep],
     employee_id |-> empolyees[Len(empolyees)].employee_id,
     validity_length |-> validity_length[ep],
     data |-> data]

NewTicketUntil(ep, e, data) ==
    [timestamp |-> now + validity_length[ep],
     endpoint_id |-> endpoint_id[ep],
     employee_id |-> empolyees[e].employee_id,
     validity_length |-> validity_length[ep],
     data |-> data]

NewTicket(ep, e, data) ==
    [timestamp |-> now,
     endpoint_id |-> endpoint_id[ep],
     employee_id |-> empolyees[e].employee_id,
     validity_length |-> validity_length[ep],
     data |-> data]

\* CreateTicket(endpoint, data) of contract ep, sent by sender
CreateTicket(ep, sender, endpoint, data) ==
    LET r == get_employee_address(sender)
        ticket == NewTicket(endpoint, r.employee, data)
    IN  /\ Len(issued) < MaxTickets
        /\ ep = endpoint
        /\ r.active
        /\ validate_ticket(ep, ticket)
        /\ issued' = Append(issued, [contract |-> ep, sender |-> sender, ticket |-> ticket])
        /\ UNCHANGED <<registryVars, now>>

\* Time passes: later blocks carry a later timestamp.
NewBlock ==
    /\ now < MaxTime
    /\ now' = now + 1
    /\ UNCHANGED <<registryVars, issued>>

-----------------------------------------------------------------------------

\* The contracts just deployed, before any transaction.
ChainInit ==
    /\ RegistryInit
    /\ now = 0
    /\ issued = <<>>

ChainNext ==
    \/ RegistryNext /\ UNCHANGED <<now, issued>>
    \/ \E ep \in EndPoint, sender \in Account, endpoint \in EndPoint, data \in TicketData :
          CreateTicket(ep, sender, endpoint, data)
    \/ NewBlock

ChainSpec == ChainInit /\ [][ChainNext]_chainVars

-----------------------------------------------------------------------------

\* Type invariant of the chain.
ChainTypeOK ==
    /\ RegistryTypeOK
    /\ now \in Nat
    /\ issued \in Seq(TicketIssued)

\* At all times, however the registry has grown since, the employee_id of an
\* issued ticket is the id the registry holds for the account that asked for
\* it, and its endpoint_id is the id of the contract that emitted it: the
\* loggers and the endpoints trust both (DoorEndPoint.sol:29-36).
TicketsAuthentic ==
    \A k \in DOMAIN issued :
        LET i == issued[k] IN
        /\ employee_addrs[i.sender] # 0
        /\ At(employee_addrs[i.sender]).employee_id = i.ticket.employee_id
        /\ i.ticket.endpoint_id = endpoint_id[i.contract]
        /\ i.ticket.validity_length = validity_length[i.contract]

\* Tickets of one employee_id have all been asked for by one account, and one
\* account holds tickets of one employee_id only: a stored ticket names its
\* holder by that id alone.
HolderUnique ==
    \A j, k \in DOMAIN issued :
        issued[j].ticket.employee_id = issued[k].ticket.employee_id
            <=> issued[j].sender = issued[k].sender

\* The events of the chain are in the order of their timestamps, and none is
\* in the future: the last event of an employee is the newest ticket, which
\* is what the loggers rely on when a later SET overwrites an earlier one.
TimestampsOrdered ==
    \A j, k \in DOMAIN issued : j <= k =>
        /\ issued[j].ticket.timestamp <= issued[k].ticket.timestamp
        /\ issued[k].ticket.timestamp <= now

=============================================================================
