CONSTANTS
    Names = {a, b, c}
    Hidden = {x, y}
    f1 = f1
    f2 = f2
    p1 = p1
    d1 = d1
    s1 = s1
    Node = {f1, f2, p1, d1, s1}
    Kind <- MCKind
    Handles = {h, k}
    None = None
    Failed = Failed
    Callers = {u, v}
    Attrs = {m, n}
    MaxLength = 2
    Garbage = Garbage
SPECIFICATION UtilSpec
PROPERTIES ImplementsDirectory OutsideUntouched PrintsWhatIsThere
SYMMETRY Symmetry
CHECK_DEADLOCK FALSE
