SPECIFICATION Spec
CONSTANTS
    Pollers = {p1, p2, p3}
    Setters = {s1}
    Events = {in, out}
    Limits <- AllOrOne
    ListHead = ListHead
    NoTicket = NoTicket
SYMMETRY Symmetry
INVARIANTS
    NoDanglingTicket
    GenuineTail
    NoMissedEvent
