SPECIFICATION Spec
CONSTANTS
    Pollers = {p1, p2}
    Setters = {s1}
    Events = {in}
    Limits <- All
    ListHead = ListHead
    NoTicket = NoTicket
PROPERTIES
    WakesAll
