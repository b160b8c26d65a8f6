SPECIFICATION ChainSpec
CONSTANTS
    net = net
    door = door
    Addr = {a0, mgr, alice}
    EmployeeId = {id0, id1, id2}
    ZeroAddr = a0
    ZeroId = id0
    manager = mgr
    Factory = {f1}
    NoFactory = noFactory
    MaxEmpolyees = 3
    EndPoint <- MCEndPoint
    endpoint_id <- MCendpoint_id
    validity_length <- MCvalidity_length
    TicketData = {data}
    MaxTime = 1
    MaxTickets = 2
INVARIANTS
    ChainTypeOK
    IndicesInBounds
    RegistryOneToOne
    LookupSound
    TicketsAuthentic
    HolderUnique
    TimestampsOrdered
PROPERTIES
    BindingPermanent
