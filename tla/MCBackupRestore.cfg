SPECIFICATION Spec
CONSTANTS
    p1 = p1
    p2 = p2
    Procs = {p1, p2}
    NPages = 2
    MaxCommits = 2
    MaxRestores = 1
    MaxBackups = 2
    Damaged = Damaged
    None = None
SYMMETRY Symmetry
INVARIANT RestoreYieldsBackup
