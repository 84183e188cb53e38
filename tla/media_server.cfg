SPECIFICATION Spec
SYMMETRY Symmetry
CONSTANTS
    DtlsLimit = 300
    Peers = {p1, p2}
    Ufrags = {u1, u2}
    Addrs = {a1, a2}
    Routines = {2}
    BufferNum = 3
    TicksMax = 2
    MaxMessages = 2
    None = None
    Expired = Expired
INVARIANTS BuffersConserved PeerReachable PeerServed RetransmitArmed BuffersLastUnlessStarved
