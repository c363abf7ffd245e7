\* Three workers, two users, two seats, five requests: enough for a full life of
\* one seat (view, cancel, view, confirm) beside races on it and on the other.
CONSTANTS
    Workers = {w1, w2, w3}
    Users = {u1, u2}
    SeatIds = {s1, s2}
    NoUser = NoUser
    MaxRequests = 5
SPECIFICATION Spec
INVARIANTS
    SoldWasGranted
    SaleStands
PROPERTIES
    ImplementsRegistry
CHECK_DEADLOCK FALSE
