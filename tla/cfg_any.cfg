SPECIFICATION MCSpec
CONSTANTS
  w1 = w1
  w2 = w2
  p1 = p1
  p2 = p2
  s1 = s1
  s2 = s2
  v1 = v1
  v2 = v2
  Writers <- MCWriters
  Params <- MCParams
  Subscribers <- MCSubscribers
  Values <- MCValues
  Default <- MCDefault
  Own <- MCOwn
  Off = v2
  Allowed <- AnyDisturbance
SYMMETRY MCSymmetry
INVARIANTS SubscribersFresh UnracedReflects
