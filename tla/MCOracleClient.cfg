\* Two calls one after the other on one session, for every setting of the source.
CONSTANTS
    Calls = {c1, c2}
    Sessions = {k1}
    Users = {u1, u2}
    NoUser = NoUser
    SourceTimeouts = {0, 4}
    CallTimeouts = {0, 3}
    PingTimeout = 5
    Unset = Unset
    NoSession = NoSession
SPECIFICATION Spec
INVARIANTS
    NoForeignIdentity
    NoInheritedTimeout
    CommitMatchesOutcome
SYMMETRY Symmetry
CHECK_DEADLOCK FALSE
