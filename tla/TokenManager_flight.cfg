\* The refresh loop and a tool call around an expiring token.
CONSTANTS
  loop = loop
  c1 = c1
  Callers <- LoopAndOneCall
  Background = {loop}
  NoCaller = NoCaller
  MaxRotations = 2
SPECIFICATION FairSpec
INVARIANTS TypeOK RotatedTokenStored
PROPERTIES ImplementsCustody FollowersAnswered DeadTokenNoticed
