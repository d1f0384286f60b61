SPECIFICATION Spec
CONSTANTS
    Stmts = {s1, s2}
    Descs = {d1}
    Buffers = {b1}
    None = None
    Executing = {s1}
    MaxRowset = 2
    MaxRows = 1
SYMMETRY Symmetry
INVARIANTS
    NoDanglingStatement
