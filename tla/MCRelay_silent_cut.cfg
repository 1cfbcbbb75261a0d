\* The comment on connect: a disconnected socket reconnects by itself.
SPECIFICATION LiveSpec
CONSTANTS
  pos = pos
  pos2 = pos2
  inventory = inventory
  k1 = k1
  k2 = k2
  k3 = k3
  k4 = k4
  i1 = i1
  i2 = i2
  Client = {pos}
  Name = {"pos", "inventory"}
  Role <- MCRole
  Conn = {k1, k2, k3}
  Id = {}
  Call <- MCCall
  NoConn = NoConn
  NoName = NoName
  MaxCuts = 1
  MaxCrashes = 0
PROPERTY AutoReconnects
