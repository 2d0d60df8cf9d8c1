SPECIFICATION FairSpec
CONSTANT Nil = Nil
INVARIANT NatBounded
 
INVARIANT OwnReply
INVARIANT AttemptsInStep
 
 
 
CHECK_DEADLOCK FALSE
