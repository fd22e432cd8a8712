\* Integers, lengths and hashes of two bytes, values of up to three parts.
SPECIFICATION Spec
CONSTANTS
    IntWidth = 2
    LenWidth = 2
    HashWidth = 2
    Checksum <- MCChecksum
    Leaves <- MCLeaves
    Names <- MCNames
    Junk <- MCJunk
    Damage = {1, 15, 127, 200}
    MaxParts = 3
INVARIANTS
    RoundTrip
    CutShortIsNoticed
    DamageIsContained
CHECK_DEADLOCK FALSE
