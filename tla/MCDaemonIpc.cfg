SPECIFICATION FairIpcSpec
CONSTANTS
  ale = ale
  stout = stout
  Names = {ale, stout}
  NoName = NoName
  Abvs = {0}
  VolMod = 1
  Cap = 3
  Clients = {c1, c2}
  Commands <- OneOfEach
  Nobody = Nobody
INVARIANTS IpcTypeOK CarriedAsSent ListHasEarlierEdits
PROPERTIES ClientsReturn WholeIsServed
