SPECIFICATION Spec
CONSTANT MaxBlocks = 5
INVARIANT LogSurvives
