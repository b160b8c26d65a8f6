SPECIFICATION FairStoreSpec
CONSTANTS
    net = net
    lapsed = lapsed
    endless = endless
    door = door
    alice = alice
    id1 = id1
    Addr = {a0, mgr, alice}
    EmployeeId = {id1}
    ZeroAddr = a0
    ZeroId = id1
    manager = mgr
    Factory = {f1}
    NoFactory = noFactory
    MaxEmpolyees = 1
    EndPoint <- MCLasting
    endpoint_id <- MCendpoint_id
    validity_length <- MCvalidity_length
    TicketData <- MCTicketData
    Door <- MCDoor
    Unsealed = unsealed
    staff <- MCOneEmployee
    LoggersFirst = TRUE
    MaxTime = 3
    MaxTickets = 2
    MaxEx = 3
    MaxFaults = 1
PROPERTIES
    EveryTicketStored
