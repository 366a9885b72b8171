SPECIFICATION FairMeshSpec
CONSTANTS
  b1 = b1
  b2 = b2
  b3 = b3
  ph = ph
  away = away
  ble = ble
  trunk = trunk
  ble23 = ble23
  access = access
  pub = pub
  msg = msg
  hello = hello
  Everyone = Everyone
  Bitles = {b1, b2, b3}
  Phones = {ph, away}
  Links = {ble, trunk, ble23, access}
  Members <- MCMembers
  Packets = {pub, msg, hello}
  Origin <- MCOrigin
  Dest <- MCDest
  Type <- MCType
  OriginTTL = 3
  RingSize = 1
  MaxUpsets = 1
INVARIANT ActsOnce
PROPERTY FloodsEnd
CHECK_DEADLOCK FALSE
