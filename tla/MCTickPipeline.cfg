CONSTANTS
  s1 = s1
  s2 = s2
  None = None
  Symbols = {s1, s2}
  Minutes = {0, 1}
  Mids = {1, 2, 3}
  MaxTicks = 4
  MaxLives = 2
  Pushed <- MCPushed
SPECIFICATION FairSpec
INVARIANTS TypeOK TickRetained BarsAreFaithful
PROPERTIES BufferIsFlushed
CHECK_DEADLOCK FALSE
