SPECIFICATION FairSpec
CONSTANT Nil = Nil
INVARIANT AnswersMatch
INVARIANT CacheMissesNothing
PROPERTY ImplementsService
PROPERTY CallsReturn
PROPERTY StartEnds
CHECK_DEADLOCK FALSE
