# Verification of the smart-contract based access control

This directory holds TLA+ specifications of the repository's system, the TLC
configurations that check them on small instances, and TLAPS proofs of the
properties that matter most. Paths of the source are relative to the
repository's root; `README.md:n` in a comment is the repository's README.

## 1. The system

An organisation keeps its employees and the right to access its endpoints on a
chain. An employee asks an endpoint contract for a ticket; the ticket is an
event; a logger script copies its payload to a Redis server under a key made of
endpoint and employee; the endpoint itself (a door, a WiFi network) looks the
payload up when the employee presents a credential.

```
 manager --new_employee--> EmployeeManagment <--get_employee_address-- NetEndPoint, DoorEndPoint
                                                                          | TicketIssued
                            log_tickets_certs.js, log_tickets_secret.js <-+
                                        | SET key value EX t
                                        v
                                      Redis
                           GET secret  /   \  GET cert
       phone --NFC--> door controller       cert_verify.sh <-- FreeRADIUS
                        | 0x21 / 0x22 (serial)
                      latch (relay)
```

| Part | Source | State | Operations |
|---|---|---|---|
| Employee registry | `smart-contracts/contracts/EmployeeManagment.sol`, `Employee.sol` | `records`, two index mappings, `factory`, deployed `Empolyee` contracts | constructor, `set_factory`, `new_employee`, `get_employee_address`, `make` |
| Ticket granters | `NetEndPoint.sol`, `DoorEndPoint.sol`, `EndPointBase.sol` | endpoint id, validity length; the event log | `CreateTicket`, `validate_ticket` |
| Loggers, store | `smart-contracts/scripts/log_tickets_*.js`, `make_secret.js`; Redis | subscription, pending calls, client queue, keys with expiry | `main`, `processTicket`, `SET`, expiry |
| Door controller | `door-verifier/door_sketch.ino`, `redis.cpp` | loop position, presented id and code, value, connection | `setup`, `loop` |
| Door line and latch | `door-verifier/door.cpp`, `door-module/door_module.ino` | two receive buffers, relay, where each loop is | `Door::open`, the latch's `loop` |
| NFC presentation | `door-verifier/nfc.cpp`, `arduino-libraries/PN532/emulatetag.cpp`, `arduino-libraries/NDEF` | NDEF file, write flag, selected file | `emulate`, `try_get`, decoding |
| PN532 framing | `door-verifier/MY_PN532_HSU.cpp` | last command, serial buffer | `writeCommand`, `readResponse`, `readAckFrame`, `receive` |
| Redis client | `arduino-libraries/Redis_for_Arduino` | connection, reply stream | `issue`, `parseType` |
| TOTP | `arduino-libraries/TOTP_library` | key | `getCode` |
| Network access | `radius-server/raddb-tls/cert_verify.sh` | temporary file | look up, verify |
| Lights | `smart-contracts/contracts/LightsController.sol` | `i`, `n`, `first`, `iterationCount`, owner | `doIteration`, ownership |
| HelloBlockchain | `smart-contracts/contracts/HelloBlockchain.sol` | state, messages, two parties | `SendRequest`, `SendResponse` |

What makes it hard to test:

* the identity a ticket names is copied from a registry that keeps changing and
  whose factory anybody may use;
* tickets travel through a subscription, an asynchronous handler and a command
  queue, each of which loses what it holds in a crash, to a store whose clock
  is not the ticket's;
* the two boards of the door share a line without sequence numbers, timeouts or
  flushes, read whole buffers at once, and restart independently;
* the controller acts on a secret that it read earlier, from a server it may
  have lost;
* three byte streams (the tag's file, the PN532's frames, the Redis replies) are
  parsed by code that takes what has arrived so far for what was sent.

`PROJECT.json` lists these as hazards with the line where each bites and the
properties that would catch it.

## 2. Modules

| Module | What it is |
|---|---|
| `EmployeeManagment` | the registry and the factory; one action per transaction |
| `TicketGranter` | extends it with the endpoint contracts and the chain's clock |
| `TicketStore` | extends that with the loggers and the Redis server |
| `CertVerify` | extends that with `cert_verify.sh`: the system from the chain to network access |
| `DoorCycle` | abstract: the cycle idle, requested, unlocked, relocked that the latch promises |
| `DoorLatch` | both boards and the serial line; refines `DoorCycle` until a board restarts |
| `DoorVerifier` | extends it with the controller's loop |
| `NdefMessage` | the NDEF decoder and encoder, as functions of byte sequences |
| `EmulateTag` | extends it with the emulated tag and `NFC::try_get` |
| `Pn532Hsu` | commands, ACKs and responses on the serial line to the PN532 |
| `RedisClient` | `Redis::get` and the reply parser on a byte stream |
| `LightPattern` | abstract: all lights on, then each alone, in order |
| `LightsController` | the contract; refines `LightPattern` |
| `*Proofs` | theorems about the module of that name; `TicketGranterProofs` also has those about `EmployeeManagment`, `CertVerifyProofs` the availability of `TicketStore`, `DeviceProofs` those about `DoorLatch`, `DoorVerifier` and `LightsController` |
| `MC*` | instances for TLC |

How they fit together: `DoorVerifier` takes its secrets, presentations and
replies from interfaces that other modules justify. Its `StoreChanges` stores a
secret only under the id of a holder, which is `StoreAuthentic` of
`TicketStore`. Its `Presentation` pairs any id with any code, those of earlier
phones and of no phone included, which is what `EmulateTag` can return when a
message lacks a field. Its `Replies` are the value of the key, an error's text
(`ErrorText` includes its parts) or nothing, which is `GetAnswers` of
`RedisClient`, for values without a NUL and replies that are not cut inside the
line end of a header (`redis_split` shows what happens if they are). These three
steps are arguments about the models, not refinements that a tool checks.

### Correspondence with the code

*Contracts.* A transaction is one atomic step; one that reverts, or returns
false before it changes anything, is not a step. Arrays are sequences, `At(k)`
is `records[k]`. An `IEmployee` reference is an index in the sequence of
deployed contracts, 0 is `address(0)`. `make` by any account is an action of
its own, and `new_employee` contains the same deployment. The names of
employees are left out.

*Tickets.* `issued` is the event log, each event with the emitting contract and
the sender. `block.timestamp` is `now`, the same for all transactions of a
block.

*Loggers.* `feed` are events delivered and not handled, `sets` are commands
queued or sent. `processTicket` runs without interruption up to its only
`await`, so it is one step that either queues a command or throws. A payload is
the endpoint it is sealed for, or nothing that decrypts; in `CertVerify` it also
is, or is not, the certificate of a CA. The redis client and the web socket are
external, modelled from how the scripts use them: both keep the order; the
client sends queued commands again after a reconnection but not those already
sent. Of a process that ends, the commands already sent stay in the queue, before
those of the next process: that one has to start, connect and subscribe first,
and the bytes of the dead one are assumed to reach Redis meanwhile.

*Store.* A key holds the number of the ticket its value came from and its
expiry time. `SET` with `EX 0`, or with more than `MaxEx`, is refused. Redis and
the chain share the clock `now`. As `EX` is a duration, this assumes that the two
run at one rate and that a block's timestamp is not ahead of the time its events
arrive; clocks that drift apart are not modelled.

*Network access.* `cpc` is the position in the script, one step per external
command; everything else may happen between two of them. `tempfile` is the
ticket whose payload was fetched, 0 for the empty file that a missing key gives.
A certificate is its user id and the CA that signed it. `first64` is what
`${user_id:1:64}` leaves of a user id: an employee's id, also of one with more
characters behind it, or, of a shorter or a missing one, what is nobody's.

*Door.* A receive buffer is a sequence of lines; `readString` takes them all.
Each `delay` of the latch separates two steps, and lines pile up meanwhile. A
restart empties the board's buffer; a line sent to a controller that has not
called `Door::setup` is lost.

*Controller.* `pc` is the position in `loop`. `try_get` is the choice of a
presentation or of none, `Redis::get` the choice among the replies possible in
the present state, a code is the pair of text and time step it is computed
from: the loop makes one from whatever `get` returned, an error's text included,
and a phone may present the code of any text.

*Tag.* `file` is `ndef_file`, byte by byte, and keeps its bytes from call to
call. A phone writes as a Type 4 tag prescribes, in pieces of some size; it may
leave before any command and repeats one whose answer was lost. `Emulate`
enters the loop of `emulate`, `Serve` is one round of it, `Leave` its end with
the rest of `try_get`; `EmulateFails` is the early return. Words of a record's
key are one byte each, the letter they begin with: where a message is cut short
the decoder may take such a byte for a length. `result` is not initialised in
`try_get`: a field for which no record was found is what the last call left in
its place, or `Junk`.

*PN532.* `stage` is the call of `receive` the driver is in. `Receive` is such a
call with all its bytes there, `ReceiveShort` one cut off by its time limit;
`Filled` are the buffers it can leave, for the uninitialised ones a choice.
`CharMax` is the width of `receive`'s result.

*Redis client.* `stage` is the place in the parser, `rx` the bytes arrived. The
base constructor of a reply reads its header, the bulk string then its body, and
the line end of the body stays for `parseType` of the next command to skip.
Characters are strings, and a length is written with binary digits, so that two
digits make a header that can be cut in its middle. `CString` is the way of a
value through a C string, which ends at its first NUL. An error's text is its
header, of which a broken connection may leave any part.

*Lights.* `shown` is what a device makes of the `DeviceConfigChange` events.
Solidity's checked arithmetic makes the counter revert at `MaxUint`.

## 3. Runs

| Run | Question | Result |
|---|---|---|
| `chain` | do ids, accounts, records and contracts stay in correspondence while anybody deploys `Empolyee`s, and do tickets keep naming their holder? | holds |
| `store` | until something fails, does each readable ticket get to the store and stay for its validity period? | holds |
| `cert` | with crashes, restarts and losses: can the store hold a wrong or an older ticket, can the script accept a certificate no ticket speaks for, does it leave a file behind? | no |
| `verifier` | until a board restarts, is the door unlocked only for the presentation being served, by the secret of its employee or an error text that Redis gave for it, is each one answered, do the boards implement the cycle? with a restart, does the latch unlock at most once per command and always lock again? | holds |
| `nfc` | is what was read into a good result of `try_get` always from one whole message, and of this call? does the decoder stay in the file, and find what was encoded? | holds |
| `hsu` | is a response returned the whole of one that the chip sent to this command code? does a call with a time limit return? | holds |
| `redis` | does each `get` return the reply to its own command, and does it return? | holds |
| `lights` | do the events show the pattern for every list? | holds |
| `store_lost` | does the logger store all tickets (README.md:240)? | no: those issued while it is down are lost |
| `door_stale_answer` | does `Door::open` return when the door is closed (README.md:284)? | no: it may take the answer to a command sent before a restart |
| `otp` | is a used one-time password of no further use (README.md:253)? | no: the code of time step 0 is always the one expected |
| `redis_split` | does `get` return the key's value (Redis.h:114)? | no: not if the reply is cut inside the line end of its header |

What the passing runs show needs some remarks.

* `GoodIsFresh` excludes calls in which the target could not be initialised.
  `emulate` returns early then, without resetting its flag, and `try_get` finds
  the message of the call before; `GoodIsWhole` includes these calls.
* `GoodIsWhole` admits a message with one field twice and the other missing,
  because `try_get` counts fields without telling them apart. The missing field
  of the result is what the stack held, which may be that of another phone.
  `UnlockedForHolder` includes such presentations.
* `UnlockedForHolder` admits a code made from an error's text. `RedisInternal.cpp`
  returns that text as the value of the key and the loop takes it for a secret;
  that nothing but this and the employee's own secret opens the door is what the
  property says. `GetAnswers` likewise says that `get` returns the text, which is
  not what `Redis.h:114` promises (`GetIsValue`).
* `NfcTypeOK` says that the file keeps its size. It rests on phones that believe
  the size the tag announces: `emulate` compares an update's offset with that
  size, not its end, and the missing comparison itself is not caught.
* `DecodesInFile` speaks of phones that write in pieces of at least four bytes.
  In smaller ones a message that breaks off can leave its flags before the
  lengths of an earlier one, and the decoder, which never looks at the size of
  the file, then leaves it.
* `ResponseIntact` admits the late response to an earlier command with the same
  code, because nothing in a frame tells the two apart; and it speaks of payloads
  in which nothing looks like the header of a response (`Unambiguous`).
* `AcceptedHolder` does not say that the ticket is the holder's last or not yet
  over: the script goes on with the copy it fetched.

### Bounds

* `chain`: three ids and three addresses (the zero id and the zero address among
  them, both legal arguments), three `Empolyee` contracts. Two of them make a
  clash of ids or accounts, the third lets a contract of the open factory come
  between. Two endpoints, two tickets, two timestamps: two tickets are what
  `HolderUnique` and `TimestampsOrdered` compare.
* `store`: two tickets, one employee, three networks with validity 2, 0 and 4
  and a door with validity 1, time up to 3 and `MaxEx` 3, so that tickets are
  replaced and expire and `SET` is also refused, for both reasons; one fault. `MaxTickets`, `MaxTime` and `MaxFaults`
  bound what a run may issue, wait for and lose.
* `cert`: two employees, two CAs (symmetric: nothing tells them apart), two
  tickets, one fault of any kind, loggers down at first. Two tickets replace
  each other under one key or belong to the two employees. User ids are those of
  the two, one with more characters behind it, and a missing one.
* `verifier`: two employees, two secrets, one error text, two time steps, one
  restart of either board at any moment.
* `nfc`: three calls, so that a message is written over the remains of two
  others; pieces of 4 bytes, the smallest `DecodesInFile` speaks of, and of 20;
  a file of 30 bytes, which five short records fill and six exceed. Ids of 2 bytes and codes of 1 byte
  keep the two apart by length, as 64 and 6 do.
* `hsu`: two commands, so that the bytes of the first answer may come late; a
  buffer of 3 and a `CharMax` of 2 for payloads of 0 to 4 bytes, so that one
  length is too large for `receive`'s result and one for the buffer. One payload
  reads like the start of a frame, one like the code of a response.
* `redis`: three commands, values of two lengths (one with a CR and LF, one with
  a NUL), nulls and errors of four characters: every sequence of three replies,
  cut everywhere (but see `HeaderCut`).
* `lights`: all lists of up to three of two lights; eight iterations show the
  longest pattern twice.

Deadlock is not an error in `lights` (the owner renounces, the counter is at its
end), in `door_stale_answer` (after a restart of the latch `Door::open` waits
for ever), and in `nfc`, `hsu` and `redis`, where the bound on calls ends the
behaviour.

### Fairness

* The loops of both boards run and delays end (weak fairness of `ReadLine`,
  `LatchNext`, `ControllerNext`): there is one thread per board and nothing else
  on it. Redis answers or the connection breaks: TCP guarantees no more, and a
  server that stays silent on an open connection would block the loop for ever.
  Presentations, time, losses and restarts are not fair.
* A subscribed logger handles its events and the server executes its commands:
  Node's event loop and Redis are fair to what they have received. `Start` is
  fair: somebody starts a logger that is down. Even so `store_lost` fails.
* `hsu`: the driver runs and bytes sent arrive. The chip need not answer: that
  the call returns then is what its time limits are for.
* `redis`: the parser runs, the server answers and its bytes arrive while the
  connection lasts; that it breaks is never assumed.

## 4. Proofs

For every value of the constants, from the assumptions named in the modules:

* `TicketGranterProofs`, the registry: type correctness; `RegistryOneToOne`,
  `IndicesInBounds`, `LookupSound`, `BindingPermanent`. The invariants are
  proved together as `RegistryInv`: that a lookup is sound needs each record's
  contract to hold the record's data (`ObjectsMatch`), that a registration does
  not cut off another record needs the guard of `new_employee` read with the
  sentinel (`SentinelAbsent`): an index whose record does not exist is 0.
* `TicketGranterProofs`, the tickets: type correctness, `TicketsAuthentic`,
  `TimestampsOrdered`, `HolderUnique`. The tickets' invariant survives registry
  transactions because bindings are permanent (`BindingStep`), and
  `HolderUnique` follows from authenticity and the registry's correspondence.
* `TicketStoreProofs`: with any number of faults, type correctness,
  `StoreAuthentic` and `NoRollback`. `NoRollback` is about one step, but needs
  to know where every ticket is: each queue of a logger holds tickets of its own
  contract in increasing order, the pending commands before the events
  (`QueuesOrdered`), and no key holds a ticket later than one still queued for
  it (`StoreBehind`). Faults are steps that only take away (`Shrinks`), which
  keeps any order.
* `CertVerifyProofs`, the store: with the loggers started first,
  `AvailableWhileValid` (it speaks of the time until something fails), for any
  validity periods within the range of `EX`. Each readable valid ticket is queued, stored or replaced
  (`AvailInv`); a replacement may not expire before the ticket it replaced,
  because timestamps grow and validity is fixed per contract
  (`LaterEndsLater`).
* `CertVerifyProofs`, the script: type correctness, `AcceptedHolder`, `FileRemoved`, with any
  number of faults. `ScriptInv` records what the script knows at each step; the
  fetched ticket is authentic by `StoreInv` and stays on the chain
  (`TicketsStay`), so it does not matter what happens to its key meanwhile.
* `DeviceProofs`, the boards: with any number of restarts, types and `UnlocksOwed`
  (strengthened by `PendingOwed`: each command in the latch's buffer is owed an
  unlocking). Until the first restart, `HandshakeInv`: while `Door::open` waits
  exactly one of command, cycle and answer exists. From it `ClosedWhenIdle`, and
  that the two boards implement `DoorCycle`.
* `DeviceProofs`, the loop: types and `UnlockedForHolder`. Each step of the loop is a
  step of the boards or leaves them alone, so `HandshakeInv` carries over;
  `LoopInv` adds that `pc` is at `opening` exactly while `Door::open` waits, that
  the codes were equal then, and where the value came from: the key of the
  presented employee or an error. Any codes may be presented.
* `DeviceProofs`, the lights: `NoRevert`, that the contract implements
  `LightPattern`, and `Periodic`, from two facts about remainders
  (`WrapAround`, `ModSucc`).

* `NdefMessageProofs`: `MessageDecodes`, the decoder undoes the encoder for every
  message of at most 255 bytes, whatever bytes follow it. The k-th record of a
  message ends where the encoder's k-th round ends (`EncodeEnds`), one round of
  the decoder started there finds the record (`RecordRead`), and the flag of the
  last record, and no other, ends the loop (`MessageRead`).
* `EmulateTagProofs`: `NfcTypeOK`, `RoundTrip`, `GoodIsWhole` and `GoodIsFresh`,
  for any messages that fit the announced size, pieces of any size, phones that
  leave and answers that are lost, and whatever memory holds for a field that was
  not read. `NfcInv` says how far a phone is in its plan and that
  the file holds just what the commands before that place wrote (`PhoneInv`;
  serving a command again changes nothing), and that a file written in this call
  says it is empty or holds the last whole message (`FileInv`). `DecodesInFile`
  also needs `HeaderInv`, that behind the length there is the header of some
  message or nothing; here its hypothesis on the size of pieces is used.
* `Pn532HsuProofs`: `HsuTypeOK`, so that no response is written past the
  caller's buffer, for whatever the chip sends and however late; and
  `ResponseIntact`, with short reads and late bytes, for any payloads (without
  the like of a header) and any buffer sizes. The argument: `HsuInv` relates what
  is unread to all that the chip has sent so far (`IsStream`), of which the
  unread bytes are the end (`Left`). Wherever skipped, late and missing bytes
  have taken the driver, it passes the check of the command only at two bytes
  that follow something it took for a length; this looks like a header, so it
  is one, and the payload behind it has the length read (`Place`, `CommandRead`).
  A short read takes all that has arrived and passes for a whole one only where
  the driver's place is still known (`ReceiveShortPlace`).
* `RedisClientProofs`: `RedisTypeOK`, wherever replies are cut; and `GetAnswers`
  for values of any two or three characters (cut at a NUL as the code does),
  errors of any more than three, any number of commands, and any cuts but the one
  that `redis_split` is about (`~HeaderCut`). `PlaceInv` gives the bytes still
  to come at each stage of the parser; between two commands these are what the
  line end of a body has left behind (`Leftover`).

The byte streams need inductions over bytes and records. The provers cannot
instantiate the library's induction theorems, whose parameter is an operator, so
`Pn532HsuProofs` and `NdefMessageProofs` derive from the well-foundedness of `<`
an induction that speaks of a set in place of a predicate (`Induction`), and
from it that the recursive functions of the models satisfy their equations
(`Recursion`).

The modules that extend others are shown to implement them, so what is proved of
a component holds in the composition that the run checks:

* `ChainImplementsRegistry` (`ChainSpec => RegistrySpec`) carries the registry's
  properties to the chain (`ChainKeepsRegistry`);
* `CertImplementsStore` (`CertSpec => StoreSpec`) carries `StoreAuthentic` and
  `NoRollback` to the system with the script (`CertKeepsStore`);
* `VerifierImplementsDoor` (`VerifierSpec => DoorSafety`) carries `UnlocksOwed`,
  `ClosedWhenIdle` and the safety part of the cycle to the controller
  (`VerifierKeepsDoor`).

`TicketStore` starts with employees registered (`Migrated`), not with the
registry as deployed, so `StoreSpec` does not imply `ChainSpec`; that `Migrated`
satisfies the registry's invariant is proved instead (`MigratedInv`).

Checked by TLC only: all liveness (`StoredUnlessFault`, `PresentationAnswered`,
`MatchOpens`, `RelocksEventually`, `CallReturns`, `GetReturns`, and the fairness
part of `ImplementsCycle`), which the prover does not do.

## 5. Not modelled

* FreeRADIUS and its configuration, the display driver, the command builders of
  the PN532 library, the redis and web3 packages: third-party code, used
  unchanged.
* SHA-1 and the truncation of a code: arithmetic on 160 bits, out of TLC's
  reach. Codes of different secrets or steps are taken to differ.
* RSA, AES and X.509: a payload is what it is sealed for, a certificate is who
  signed it.
* `HelloBlockchain`, the sample contract of the framework: no other part of the
  system uses it.
* Of the NDEF library, the builders of text, URI and MIME records; of the Redis
  client, arrays, integers, the other commands and authentication: the
  controller's loop does not use them. Of the tag, `setNdefFile` and the write
  callback, which nothing calls.
* A pause of more than a second inside a Redis reply, on a connection that
  lasts: the stream functions would give up there, and the parser with them.
* A PN532 frame that breaks off while a call has no time limit
  (`TgInitAsTarget`): the call waits for ever, by its interface.
* Phones that write past the size the tag announces, and a Redis server that is
  silent on an open connection: the code does not guard against either, and the
  properties assume they do not happen.
* Clocks of chain and Redis that drift apart, and commands of a dead logger that
  reach Redis after those of its successor.
* Display and WiFi set-up: output only.
* Chain reorganisations: `changed` events are only logged. The chain of the
  model is final.
