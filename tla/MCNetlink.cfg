SPECIFICATION Spec
INVARIANTS
  TargetsNamed
  SteadyIsListed
  
  TreeComesBack
  
  OthersStay
  ListedAsGiven
  
CHECK_DEADLOCK FALSE
