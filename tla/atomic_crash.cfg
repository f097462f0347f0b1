SPECIFICATION Spec
CONSTANTS
    w1 = w1  w2 = w2  r1 = r1  p1 = p1  p2 = p2  a = a  b = b
    Writers = {w1, w2}
    Readers = {r1}
    Pids = {p1, p2}
    Proc <- TwoProcesses
    Values = {a, b}
    Size <- SizeAB
    MaxSize = 2
    Durables = {TRUE}
    Attempts = 1
    Windows = FALSE
    Faults = {"crash", "power"}
    MaxCalls = 1
    Dest = Dest
    Inodes = {i1, i2, i3}
    NoInode = NoInode
    Hole = Hole
CHECK_DEADLOCK FALSE
SYMMETRY InodeSymmetry
INVARIANTS TempsExclusive SnapshotRead DestWhole
PROPERTIES ImplementsRegister
