----------------------------- MODULE TicketStore -----------------------------
(***************************************************************************)
(* The way of a ticket from the chain to the Redis server the endpoints    *)
(* ask: the two logger scripts (scripts/log_tickets_certs.js for           *)
(* NetEndPoint, scripts/log_tickets_secret.js for DoorEndPoint), one       *)
(* process per endpoint contract, composed with the chain.                 *)
(*                                                                         *)
(*   chain --event--> feed --processTicket--> sets --SET .. EX--> store    *)
(*                                                                         *)
(* feed[ep] holds the events the node has pushed to the subscription and   *)
(* the script has not handled; sets[ep] the SET commands the redis client  *)
(* has queued or sent and the server has not executed.  Events and         *)
(* commands are named by the position of their ticket in `issued'.  Both   *)
(* queues are first in, first out (one web socket, one redis connection).  *)
(***************************************************************************)
EXTENDS TicketGranter

CONSTANTS
    Door,           \* the DoorEndPoint contracts; the others are NetEndPoints
    Unsealed,       \* `sealed' of a payload that decrypts under no key
    staff,          \* the <<employee_id, address>> pairs registered at the start
    LoggersFirst,   \* are the loggers running before the first ticket?
    MaxEx,          \* the largest EX argument that Redis accepts
    MaxFaults       \* bound on crashes, kills and restarts

\* A payload is what it was encrypted for (the id of a door, or Unsealed when
\* JSON.parse or the decryption of log_tickets_secret.js:28-31 would throw)
\* and the text inside.
ASSUME StoreAssumption ==
    /\ Door \subseteq EndPoint
    /\ \A d \in TicketData : d.sealed \in EndPointId \cup {Unsealed}
    /\ \A e, f \in EndPoint : endpoint_id[e] = endpoint_id[f] => e = f
    /\ staff \in Seq(EmployeeId \X Addr)
    /\ \A m, n \in DOMAIN staff :
          staff[m][1] = staff[n][1] \/ staff[m][2] = staff[n][2] => m = n
    /\ LoggersFirst \in BOOLEAN
    /\ MaxEx \in Nat
    /\ MaxFaults \in Nat

VARIABLES
    up,         \* is the logger of an endpoint running and subscribed?
    feed,       \* its TicketIssued events not yet handled
    sets,       \* its SET commands not yet executed
    store,      \* the keys of the Redis server
    faults      \* faults so far

loggerVars == <<up, feed, sets, faults>>
storeVars == <<chainVars, up, feed, sets, store, faults>>

\* endpoint_<id>/tickets/employee_<id>/(cert|secret)
Key == [endpoint : EndPointId, employee : EmployeeId, kind : {"cert", "secret"}]

\* What a key holds: the ticket its value was taken from and the time it
\* expires.  Ticket 0 is a key that does not exist.
Missing == [ticket |-> 0, expires |-> 0]

Kind(ep) == IF ep \in Door THEN "secret" ELSE "cert"

\* The key of a ticket.  The first form, a mutant, takes the employee from
\* the last event instead of its own.
keyOfLast(k) ==
    [endpoint |-> issued[k].ticket.endpoint_id,
     employee |-> issued[Len(issued)].ticket.employee_id,
     kind     |-> Kind(issued[k].contract)]

key(k) ==
    [endpoint |-> issued[k].ticket.endpoint_id,
     employee |-> issued[k].ticket.employee_id,
     kind     |-> Kind(issued[k].contract)]

-----------------------------------------------------------------------------

\* Can processTicket compute the value to store?  A certificate is stored as
\* it is; a secret has to decrypt under the endpoint's private key.
Readable(k) ==
    issued[k].contract \in Door => issued[k].ticket.data.sealed = issued[k].ticket.endpoint_id

\* The EX argument: validity_seconds for a certificate, three times as much
\* for a secret.  The first form, a mutant, divides instead.
ExThird(k) == issued[k].ticket.validity_length \div 3

Ex(k) ==
    IF issued[k].contract \in Door
    THEN issued[k].ticket.validity_length * 3
    ELSE issued[k].ticket.validity_length

-----------------------------------------------------------------------------

\* The state migration 3_Employees.js leaves (factory set, employees
\* registered through new_employee), an empty Redis server.
Migrated ==
    /\ records = <<EmptyRecord>> \o
          [n \in 1..Len(staff) |->
              [exists |-> TRUE, employee_id |-> staff[n][1],
               employee_address |-> staff[n][2], employee_obj |-> n, active |-> TRUE]]
    /\ employee_ids = [id \in EmployeeId |->
          IF \E n \in DOMAIN staff : staff[n][1] = id
          THEN CHOOSE n \in DOMAIN staff : staff[n][1] = id ELSE 0]
    /\ employee_addrs = [a \in Addr |->
          IF \E n \in DOMAIN staff : staff[n][2] = a
          THEN CHOOSE n \in DOMAIN staff : staff[n][2] = a ELSE 0]
    /\ factory \in Factory
    /\ empolyees = [n \in 1..Len(staff) |->
          [employee_id |-> staff[n][1], employee_addr |-> staff[n][2]]]

StoreInit ==
    /\ Migrated
    /\ now = 0
    /\ issued = <<>>
    /\ up = [ep \in EndPoint |-> LoggersFirst]
    /\ feed = [ep \in EndPoint |-> <<>>]
    /\ sets = [ep \in EndPoint |-> <<>>]
    /\ store = [k \in Key |-> Missing]
    /\ faults = 0

\* CreateTicket, as issue_ticket.js and issue_ticket_door.js send it.  The
\* subscription of log_tickets_*.js names no fromBlock: only a logger that is
\* subscribed at this moment will ever get the event.  The first form, a
\* mutant, hears of a transaction the chain has not included.
IssuePending(ep, sender, data) ==
    /\ get_employee_address(sender).active
    /\ Len(feed[ep]) < MaxTickets
    /\ feed' = [feed EXCEPT ![ep] = IF up[ep] THEN Append(@, Len(issued) + 1) ELSE @]
    /\ UNCHANGED <<chainVars, up, sets, store, faults>>

Issue(ep, sender, data) ==
    /\ CreateTicket(ep, sender, ep, data)
    /\ feed' = [feed EXCEPT ![ep] = IF up[ep] THEN Append(@, Len(issued')) ELSE @]
    /\ UNCHANGED <<up, sets, store, faults>>

\* processTicket up to its `await': the SET is queued in the redis client.
\* The first form, a mutant, lets a later event overtake.
ProcessLatest(ep) ==
    /\ feed[ep] # <<>>
    /\ Readable(feed[ep][Len(feed[ep])])
    /\ sets' = [sets EXCEPT ![ep] = Append(@, feed[ep][Len(feed[ep])])]
    /\ feed' = [feed EXCEPT ![ep] = SubSeq(@, 1, Len(@) - 1)]
    /\ UNCHANGED <<chainVars, up, store, faults>>

ProcessTicket(ep) ==
    /\ feed[ep] # <<>>
    /\ Readable(Head(feed[ep]))
    /\ sets' = [sets EXCEPT ![ep] = Append(@, Head(feed[ep]))]
    /\ feed' = [feed EXCEPT ![ep] = Tail(@)]
    /\ UNCHANGED <<chainVars, up, store, faults>>

\* processTicket throws before the `await': its promise is rejected and nobody
\* handles it.  The ticket is skipped; whether the process survives is up to
\* the runtime, the other case is Exit.
SkipTicket(ep) ==
    /\ feed[ep] # <<>>
    /\ ~Readable(Head(feed[ep]))
    /\ feed' = [feed EXCEPT ![ep] = Tail(@)]
    /\ UNCHANGED <<chainVars, up, sets, store, faults>>

\* The process ends: an unhandled rejection, the `throw' of the subscription's
\* error handler, a kill.  Events not handled are lost; of the commands, those
\* already sent are still executed.  They stay in the queue of the endpoint,
\* before those of the next process: this one has to be started, to connect to
\* Redis and to subscribe before it sends any, and bytes that a dead process has
\* sent are taken to arrive in that time.
Exit(ep) ==
    /\ up[ep]
    /\ faults < MaxFaults
    /\ up' = [up EXCEPT ![ep] = FALSE]
    /\ feed' = [feed EXCEPT ![ep] = <<>>]
    /\ \E n \in 0..Len(sets[ep]) : sets' = [sets EXCEPT ![ep] = SubSeq(@, 1, n)]
    /\ faults' = faults + 1
    /\ UNCHANGED <<chainVars, store>>

\* main: connect to Redis, subscribe
Start(ep) ==
    /\ ~up[ep]
    /\ up' = [up EXCEPT ![ep] = TRUE]
    /\ UNCHANGED <<chainVars, feed, sets, store, faults>>

-----------------------------------------------------------------------------

\* The server executes the next SET of a logger.
RedisSet(ep) ==
    /\ sets[ep] # <<>>
    /\ LET k == Head(sets[ep]) IN
          /\ Ex(k) \in 1..MaxEx
          /\ store' = [store EXCEPT ![key(k)] = [ticket |-> k, expires |-> now + Ex(k)]]
    /\ sets' = [sets EXCEPT ![ep] = Tail(@)]
    /\ UNCHANGED <<chainVars, up, feed, faults>>

\* SET with EX 0, or with one beyond the server's range (the contracts limit
\* validity_length in no way), is an error: nothing is stored, the promise is
\* rejected.
RedisRefuse(ep) ==
    /\ sets[ep] # <<>>
    /\ Ex(Head(sets[ep])) \notin 1..MaxEx
    /\ sets' = [sets EXCEPT ![ep] = Tail(@)]
    /\ UNCHANGED <<chainVars, up, feed, store, faults>>

\* A key is gone once its time is over.
Expire(t) == [k \in Key |-> IF store[k].expires <= t THEN Missing ELSE store[k]]

\* Time passes, for the chain and for the server.  EX is a duration, so the two
\* clocks are only assumed to run at one rate and a block's timestamp not to lie
\* ahead of the time at which its events arrive.
Tick ==
    /\ NewBlock
    /\ store' = Expire(now')
    /\ UNCHANGED loggerVars

\* The server restarts.  Any of its keys may be lost, and so are commands that
\* were sent and not answered; the client reconnects and sends the others.
RedisRestart ==
    /\ faults < MaxFaults
    /\ \E lost \in SUBSET {k \in Key : store[k] # Missing} :
          store' = [k \in Key |-> IF k \in lost THEN Missing ELSE store[k]]
    /\ \E n \in [EndPoint -> 0..MaxTickets] :
          /\ \A ep \in EndPoint : n[ep] <= Len(sets[ep])
          /\ sets' = [ep \in EndPoint |-> SubSeq(sets[ep], n[ep] + 1, Len(sets[ep]))]
    /\ faults' = faults + 1
    /\ UNCHANGED <<chainVars, up, feed>>

-----------------------------------------------------------------------------

StoreNext ==
    \/ RegistryNext /\ UNCHANGED <<now, issued, up, feed, sets, store, faults>>
    \/ \E ep \in EndPoint, sender \in Account, data \in TicketData : Issue(ep, sender, data)
    \/ \E ep \in EndPoint :
          \/ ProcessTicket(ep)
          \/ SkipTicket(ep)
          \/ Exit(ep)
          \/ Start(ep)
          \/ RedisSet(ep)
          \/ RedisRefuse(ep)
    \/ Tick
    \/ RedisRestart

StoreSpec == StoreInit /\ [][StoreNext]_storeVars

\* A running logger handles its events, the server executes what it is sent,
\* and somebody starts a logger that is down.  Nobody has to issue a ticket,
\* and no fault has to happen.
StoreFairness ==
    \A ep \in EndPoint :
        /\ WF_storeVars(ProcessTicket(ep) \/ SkipTicket(ep))
        /\ WF_storeVars(RedisSet(ep) \/ RedisRefuse(ep))
        /\ WF_storeVars(Start(ep))

FairStoreSpec == StoreSpec /\ StoreFairness

-----------------------------------------------------------------------------

\* Type invariant of the loggers and the store.
StoreTypeOK ==
    /\ ChainTypeOK
    /\ up \in [EndPoint -> BOOLEAN]
    /\ feed \in [EndPoint -> Seq(DOMAIN issued)]
    /\ sets \in [EndPoint -> Seq(DOMAIN issued)]
    /\ store \in [Key -> [ticket : {0} \cup DOMAIN issued, expires : Nat]]
    /\ faults \in 0..MaxFaults

\* Under the key of an endpoint and an employee the server only ever holds the
\* payload of a ticket that this employee's account asked this endpoint for,
\* and that the endpoint could read: the endpoints authenticate by it.
StoreAuthentic ==
    \A k \in Key : store[k].ticket # 0 =>
        LET i == issued[store[k].ticket] IN
        /\ k.endpoint = endpoint_id[i.contract]
        /\ k.kind = Kind(i.contract)
        /\ At(employee_addrs[i.sender]).employee_id = k.employee
        /\ Readable(store[k].ticket)

\* A stored ticket is never replaced by one issued before it, whatever is
\* delayed, lost or restarted on the way.
NoRollback ==
    [][\A k \in Key : store'[k].ticket # 0 => store'[k].ticket >= store[k].ticket]_storeVars

\* Until something fails, and with the loggers subscribed first, a readable
\* ticket whose validity period is not over, and not beyond what Redis takes, is
\* in the store, or replaced there by a later one of the same key, or still on
\* its way to it.
AvailableWhileValid ==
    faults = 0 =>
        \A k \in DOMAIN issued :
            LET i == issued[k] IN
            ( /\ Readable(k) /\ Ex(k) <= MaxEx
              /\ now < i.ticket.timestamp + i.ticket.validity_length ) =>
                \/ \E n \in DOMAIN feed[i.contract] : feed[i.contract][n] = k
                \/ \E n \in DOMAIN sets[i.contract] : sets[i.contract][n] = k
                \/ store[key(k)].ticket >= k

\* Unless something fails, every readable ticket is stored sooner or later, if
\* it is valid for any time at all, and not for longer than Redis takes.
StoredUnlessFault ==
    \A k \in 1..MaxTickets :
        <>( /\ k \in DOMAIN issued /\ Readable(k)
            /\ issued[k].ticket.validity_length > 0 /\ Ex(k) <= MaxEx )
            => <>(faults > 0 \/ \E q \in Key : store[q].ticket = k)

\* Every readable ticket the chain issues is stored sooner or later.
\* README.md says of the loggers that each `tracks all tickets issued by a
\* given ticket granter and stores them'.
EveryTicketStored ==
    \A k \in 1..MaxTickets :
        <>(k \in DOMAIN issued /\ Readable(k)) => <>(\E q \in Key : store[q].ticket = k)

=============================================================================
