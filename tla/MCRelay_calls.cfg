\* Two pages claim the name "pos" and the service calls it; a crash, and a lost
\* link when there is one page.
SPECIFICATION Spec
CONSTANTS
  pos = pos
  pos2 = pos2
  inventory = inventory
  k1 = k1
  k2 = k2
  k3 = k3
  k4 = k4
  i1 = i1
  i2 = i2
  Client = {pos, pos2, inventory}
  Name = {"pos", "inventory"}
  Role <- MCRole
  Conn = {k1, k2, k3, k4}
  Id = {i1}
  Call <- MCCallBack
  NoConn = NoConn
  NoName = NoName
  MaxCuts = 1
  MaxCrashes = 1
SYMMETRY Connections
ACTION_CONSTRAINT OnePage
INVARIANTS UniqueNames ServedRightly OpenMeansRegistered NoForgottenPromise
PROPERTY RefinesRpc
