\* Clients stop when they have their answer.
CHECK_DEADLOCK FALSE
CONSTANTS
  Requests = {r1, r2}
  NoCall = NoCall
SPECIFICATION FairSpec
INVARIANTS SuccessIsTrue FailureIsTrue 
PROPERTY WaitEnds
