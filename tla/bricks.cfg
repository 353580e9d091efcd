CONSTANTS
  h1 = h1
  Bricks = {b1, b2}
  Hosts = {h1}
  HostOf <- MCOneHost
  None = None
  MaxFaults = 2
SPECIFICATION FairSpec
INVARIANTS NoSendOnClosed OnePerHost ErrorKept AllOrNothing
PROPERTY CreateReturns
