\* Two subscribers and two bands, a batch of one, one IPO, one lost tick.
SPECIFICATION FairDigestSpec
CONSTANTS
  Subscriber <- TwoSubscribers
  Ipo = {i1}
  Bands = 2
  Batch = 1
  MaxLost = 1
CHECK_DEADLOCK FALSE
INVARIANTS
  OneMailADay
PROPERTIES
  EveryoneIsServed
