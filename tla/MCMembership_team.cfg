SPECIFICATION Spec
CONSTANTS
    o1 = o1
    o2 = o2
    guest = guest
    r1 = r1
    r2 = r2
    Members = {o1, o2}
    Invitee = guest
    Requests = {r1, r2}
    MaxBegun = 4
    MaxLinks = 3
SYMMETRY Symmetry
CHECK_DEADLOCK FALSE
INVARIANTS
    OwnerRemainsInTurn
PROPERTIES
    RevokedStaysClosed
    AcceptedAsInvited
