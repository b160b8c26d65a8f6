SPECIFICATION CertSpec
CONSTANTS
    net = net
    door = door
    alice = alice
    bob = bob
    id1 = id1
    id2 = id2
    Addr = {a0, mgr, alice, bob}
    EmployeeId = {id1, id2}
    ZeroAddr = a0
    ZeroId = id1
    manager = mgr
    Factory = {f1}
    NoFactory = noFactory
    MaxEmpolyees = 2
    EndPoint <- MCEndPoint
    endpoint_id <- MCendpoint_id
    validity_length <- MCvalidity_length
    TicketData <- MCTicketData
    Door <- MCDoor
    Unsealed = unsealed
    staff <- MCStaff
    LoggersFirst = FALSE
    MaxTime = 1
    MaxTickets = 2
    MaxEx = 3
    MaxFaults = 1
    ENDPOINT = net
    CA = {ca1, ca2}
    ca1 = ca1
    ca2 = ca2
    NoUid = noUid
    UserId = {id1, id2, id1more, noUid}
    first64 <- MCfirst64
    id1more = id1more
    Undecodable = undecodable
INVARIANTS
    CertTypeOK
    AcceptedHolder
    FileRemoved
    StoreAuthentic
PROPERTIES
    NoRollback
SYMMETRY MCSymmetry
