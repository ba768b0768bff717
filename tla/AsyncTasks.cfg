SPECIFICATION Spec
CONSTANTS
    Tasks = {t1, t2}
    Workers = {w1, w2}
    NoTask = NoTask
INVARIANTS
    TypeOK
    AnswerBehindEvent
    TaskInOnePlace
    NoHalfInitializedGroup
PROPERTIES
    EveryCallEnds
    TasksAreServed
