----------------------------- MODULE CertVerify -----------------------------
(***************************************************************************)
(* Network access: cert_verify.sh, which FreeRADIUS runs for the TLS       *)
(* certificate of a client, on top of the chain, the loggers and the       *)
(* store.  The ticket of a NetEndPoint carries the certificate of a CA,    *)
(* and the client's certificate is accepted if that CA has signed it.      *)
(*                                                                         *)
(* One run of the script at a time: concurrent ones share only the store,  *)
(* which they read (mktemp gives each a file of its own).  Everything else *)
(* goes on between its steps: keys expire or are replaced, loggers and the *)
(* server restart.  A certificate is its user id and the CA that signed    *)
(* it; that the client holds its key is for the TLS handshake to show.     *)
(***************************************************************************)
EXTENDS TicketStore, Integers

CONSTANTS
    ENDPOINT,       \* the NetEndPoint whose id is in /etc/raddb/endpoint_id
    CA,             \* certificates of CAs, that is, such as verify themselves
    UserId,         \* the user ids of certificates, a missing one included
    first64,        \* what ${user_id:1:64} leaves of each
    NoUid,          \* what is no employee's id
    Undecodable     \* a certificate jc cannot read

\* jq prints a user id between quotes and the script takes 64 characters behind
\* the first: an employee's id is left as it is, one with more characters
\* behind it is cut to it, and of `null' or of one with fewer characters
\* something is left that is no employee's.
ASSUME CertAssumption ==
    /\ ENDPOINT \in EndPoint \ Door
    /\ \A d \in TicketData : d.ca \in CA \cup {Undecodable}
    /\ NoUid \notin EmployeeId
    /\ first64 \in [UserId -> EmployeeId \cup {NoUid}]
    /\ Undecodable \notin CA

VARIABLES
    cpc,        \* where the script is: "idle", "query", "check_ca", "verify"
    cert,       \* $1, the client's certificate
    tempfile,   \* the ticket whose payload is in $tempfile, 0 for an empty
                \* file, NoFile for none
    verdict     \* the last run: "accept" (exit 0), "reject", or "none"

scriptVars == <<cpc, cert, tempfile, verdict>>
certVars == <<storeVars, scriptVars>>

NoFile == -1

ClientCert == [uid : UserId, ca : CA]

CertInit ==
    /\ StoreInit
    /\ cpc = "idle"
    /\ cert = Undecodable
    /\ tempfile = NoFile
    /\ verdict = "none"

-----------------------------------------------------------------------------

\* exit
Exits(outcome) ==
    /\ cpc' = "idle"
    /\ verdict' = outcome
    /\ UNCHANGED cert

\* The script starts: jc decodes the certificate or fails; jq of a missing
\* user id succeeds, with `null' for the id.  The id is cut.
Decode(c) ==
    /\ cpc = "idle"
    /\ cert' = c
    /\ verdict' = IF c = Undecodable THEN "reject" ELSE "none"
    /\ cpc' = IF c = Undecodable THEN "idle" ELSE "query"
    /\ UNCHANGED <<storeVars, tempfile>>

\* What GET gives for what is left of a user id.  The first form, a mutant,
\* takes the certificate of any employee of the endpoint.
FetchedAny(uid) ==
    LET held == {store[k].ticket : k \in {q \in Key :
                    q.endpoint = endpoint_id[ENDPOINT] /\ q.kind = "cert"}}
    IN  CHOOSE t \in held : \A s \in held : s <= t

Fetched(uid) ==
    IF uid = NoUid THEN 0
    ELSE store[[endpoint |-> endpoint_id[ENDPOINT], employee |-> uid, kind |-> "cert"]].ticket

\* mktemp and redis-cli GET
Query ==
    /\ cpc = "query"
    /\ tempfile' = Fetched(first64[cert.uid])
    /\ cpc' = "check_ca"
    /\ UNCHANGED <<storeVars, cert, verdict>>

\* redis-cli fails: the file is removed
QueryError ==
    /\ cpc = "query"
    /\ tempfile' = NoFile
    /\ Exits("reject")
    /\ UNCHANGED storeVars

\* Is the file the certificate of a CA?
IsCA == tempfile # 0 /\ issued[tempfile].ticket.data.ca \in CA

\* openssl verify of the file by itself fails, as it does for an empty file.
\* The first form, a mutant, does not remove the file.
InvalidCAKept ==
    /\ cpc = "check_ca"
    /\ ~IsCA
    /\ Exits("reject")
    /\ UNCHANGED <<storeVars, tempfile>>

InvalidCA ==
    /\ cpc = "check_ca"
    /\ ~IsCA
    /\ tempfile' = NoFile
    /\ Exits("reject")
    /\ UNCHANGED storeVars

ValidCA ==
    /\ cpc = "check_ca"
    /\ IsCA
    /\ cpc' = "verify"
    /\ UNCHANGED <<storeVars, cert, tempfile, verdict>>

\* openssl verify of the client's certificate by the CA's; the file is removed
Verify ==
    /\ cpc = "verify"
    /\ Exits(IF issued[tempfile].ticket.data.ca = cert.ca THEN "accept" ELSE "reject")
    /\ tempfile' = NoFile
    /\ UNCHANGED storeVars

CertNext ==
    \/ StoreNext /\ UNCHANGED scriptVars
    \/ \E c \in ClientCert \cup {Undecodable} : Decode(c)
    \/ Query
    \/ QueryError
    \/ InvalidCA
    \/ ValidCA
    \/ Verify

CertSpec == CertInit /\ [][CertNext]_certVars

-----------------------------------------------------------------------------

\* Type invariant of the script.
CertTypeOK ==
    /\ StoreTypeOK
    /\ cpc \in {"idle", "query", "check_ca", "verify"}
    /\ cert \in ClientCert \cup {Undecodable}
    /\ tempfile \in {NoFile, 0} \cup DOMAIN issued
    /\ verdict \in {"none", "accept", "reject"}

\* A client is accepted only if the account registered under the user id of
\* its certificate (its first 64 characters) has got a ticket from this endpoint
\* that holds the CA which signed the certificate: from the chain to the exit
\* status, whatever was delayed, lost, replaced, expired or restarted in between.
\* That the ticket is the holder's last, or not over, is not promised: the script
\* goes on with what it fetched.
AcceptedHolder ==
    verdict = "accept" =>
        \E k \in DOMAIN issued :
            /\ issued[k].contract = ENDPOINT
            /\ issued[k].ticket.data.ca = cert.ca
            /\ At(employee_addrs[issued[k].sender]).employee_id = first64[cert.uid]

\* The temporary file is gone when the script is, by each of its exits.
FileRemoved == cpc = "idle" => tempfile = NoFile

=============================================================================
