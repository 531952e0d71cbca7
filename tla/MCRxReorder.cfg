CONSTANTS
    Modulus = 16
    WindowCapacity = 3
    Slots = {s1, s2, s3}
    Total = 9
    First = 13
SPECIFICATION Spec
SYMMETRY SlotSymmetry
INVARIANTS TableIsExact ReleasedInOrder FastPathAgrees
