\* A source with a timeout of its own, and a call that asks for none.
CONSTANTS
    Calls = {c1, c2}
    Sessions = {k1}
    Users = {u1}
    NoUser = NoUser
    SourceTimeouts = {4}
    CallTimeouts = {0}
    PingTimeout = 5
    Unset = Unset
    NoSession = NoSession
SPECIFICATION Spec
INVARIANTS
    TimeoutOverrides
SYMMETRY Symmetry
CHECK_DEADLOCK FALSE
