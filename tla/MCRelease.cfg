SPECIFICATION Spec
CONSTANTS
    p1 = p1
    p2 = p2
    k1 = k1
    k2 = k2
    a1 = a1
    Procs = {p1, p2}
    Keys = {k1, k2}
    Artifacts = {a1}
    Early <- MCEarly
    Late <- MCLate
    DocOrder <- MCDocOrder
    Copies = {"openapi.json", "hbse.proto"}
    Plain = "hbse.proto"
    MaxArtifacts = 2
    MaxWorld = 1
    MaxRuns = 4
    MaxCrashes = 1
    Torn = Torn
    Unsigned = Unsigned
    None = None
SYMMETRY Symmetry
INVARIANTS
    TypeOK
    PassedMeansSigned
    VerdictIsRight
