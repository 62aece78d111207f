SPECIFICATION Spec
CONSTANTS
    Mails = {m1, m2}
    Passwords = {p1, p2}
    k1 = k1
    k2 = k2
    k3 = k3
    Keys = {k1, k2, k3}
    Collated <- MCCollated
    Undecodable = Undecodable
    Empty = Empty
    MaxId = 2
SYMMETRY Symmetry
INVARIANTS TypeOK IdentityEnrolled MailboxNeedsProof
PROPERTY IdentityFrozen
