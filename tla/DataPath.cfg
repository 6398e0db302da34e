SPECIFICATION Spec
CONSTANTS
    Sessions = {s1, s2}
    NoSession = NoSession
INVARIANTS
    FirstSessionCarried
    WholeInSession
