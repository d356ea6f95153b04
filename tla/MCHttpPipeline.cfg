\* One request of every kind on a route of every kind.
CONSTANTS
    Routes <- MCRoutes
    Graphs <- MCGraphs
    Sources = {s1, s2}
    MAX_CAUSE_DEPTH = 3
SPECIFICATION Spec
INVARIANTS
    HandlerIsGuarded
    AnswerIsHonest
    NothingInternalShown
    LinesMatchAnswer
PROPERTIES
    AnsweredOnce
CHECK_DEADLOCK FALSE
