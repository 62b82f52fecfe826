CONSTANTS
  u1 = u1
  Users = {u1}
  Conns = {c1, c2}
  UserOf <- MCUserOf
  Emitters = {e1}
  QueueLimit = 1
  ChannelLimit = 1
  ClosersBound = 2
  Nobody = Nobody
SPECIFICATION Spec
INVARIANTS
  NoZombie
PROPERTIES
  BrokenIsForgotten
  OverflowedIsClosed
  BroadcastersGetOn
  GoneGoesOffline
CHECK_DEADLOCK FALSE
