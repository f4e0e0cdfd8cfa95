SPECIFICATION FairSpec
CONSTANTS
  Channels = {a, b}
  Publishers = {p1, p2}
  Clients = {c1}
  Wants <- WantsAll
  ReplayCapacity = 1
  SubscriberCapacity = 1
  MaxSequence <- ThreeAndOne
  MaxRestarts = 1
INVARIANTS TypeOK ReplayIsHonest 
PROPERTY PublishEnds
