SPECIFICATION FairSpec
INVARIANT OnlyTheGroup
INVARIANT LookupsAgree
 
INVARIANT ApiNilMeansDone
PROPERTY ServesInTheEnd
 
CHECK_DEADLOCK FALSE
