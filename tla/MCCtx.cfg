CONSTANTS
  p1 = p1
  p2 = p2
  Callers <- MCCallers
  Makers <- MCMakers
  Free = Free
  NumCtx = 3
  MaxTime = 1
  MaxOdd = 1
SPECIFICATION FairSpec
INVARIANTS TypeOK ChildrenAreTheLive TimersAreStopped ReasonsAreTrue
PROPERTIES ImplementsCtxTree TheDoomedFinish EveryCallReturns
