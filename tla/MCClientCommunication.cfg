SPECIFICATION Spec
CONSTANTS
    Sessions = {s1, s2, s3}
    Users = {u1, u2}
    d1 = d1
    d2 = d2
    d3 = d3
    Devices = {d1, d2, d3}
    Collated <- MCCollated
    None = None
    us_MDMessageDataSize = 4
    MaxId = 2
    MaxLength = 4
SYMMETRY Symmetry
INVARIANTS OtherSideOnly DuplicateNeedsRace NothingLost StoredDecodes
PROPERTIES RemovesFetched
\* Every message may have been stored and retrieved.
CHECK_DEADLOCK FALSE
