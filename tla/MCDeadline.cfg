CONSTANT Attempts = 3
SPECIFICATION Spec
INVARIANTS AnswerIsCurrent RetriesInFull
PROPERTIES Returns NoLeak
CHECK_DEADLOCK FALSE
