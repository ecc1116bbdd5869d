SPECIFICATION Spec
CONSTANTS
  a = a
  b = b
  c = c
  NBlocks = 5
  Capacity = 2
  NSlots = 2
  NavStride = 2
  Names <- MCTwoNames
  NoName = noname
  Stored <- MCStored
  Contents = {c1, c2}
  NoContent = none
  Lengths = {1, 3}
  DirPaths <- MCDirPaths
  Killable = {"mymkfs", "mycopyTo", "myrm"}
  MaxKills = 1
  Reformat = TRUE
INVARIANTS
  OneOwner
  StatIsRight
PROPERTIES
  ImplementsFileTree
  CommandsFinish
