SPECIFICATION Spec
CONSTANTS
    t1 = t1
    t2 = t2
    NoTicket = NoTicket
    Tickets <- MCTickets
    Ttl <- MCTtl
    MaxNow = 2
SYMMETRY Symmetry
INVARIANTS
    ModeInv
    EntryMatchesService
    OneTicketOneLive
    NotLeftDark
PROPERTY FailedStaysClosed
