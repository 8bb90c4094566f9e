SPECIFICATION Spec
CONSTANTS
  c1 = c1
  c2 = c2
  Ctx = {c1, c2}
  Addr <- MCAddr
  Fixed <- MCFixed
  Parent <- OneBehindHub
  Devs <- MCDevs
  MaxPlugs = 3
  Hosts <- AllHosts
  Races = {}
SYMMETRY Symmetry
INVARIANTS RefsTrue ListTrue SignalTrue
