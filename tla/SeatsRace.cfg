\* Two workers and two users race for one seat.
CONSTANTS
    Workers = {w1, w2}
    Users = {u1, u2}
    SeatIds = {s1}
    NoUser = NoUser
    MaxRequests = 4
SPECIFICATION Spec
INVARIANTS
    NoDoubleSale
CHECK_DEADLOCK FALSE
