\* Is "Clean shutdown complete." always followed by a clean exit?
CONSTANTS
    Conns = {c1, c2}
    Numbers <- MCNumbers
    None = None
    Buf = 1
SPECIFICATION Spec
INVARIANTS
    CleanIsClean
