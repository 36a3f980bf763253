CONSTANTS
  eur = eur
  btc = btc
  c1 = c1
  c2 = c2
  None = None
  Forex = {eur}
  Crypto = {btc}
  Defaults = {eur}
  Configured = {btc}
  Conns = {c1, c2}
  MaxCalls = 2
SPECIFICATION FairSpec
INVARIANTS TypeOK SubscriptionsFollow
CHECK_DEADLOCK FALSE
PROPERTIES StreamsReturn
