SPECIFICATION Safety
CONSTANTS
  a = a
  b = b
  c = c
  NBlocks = 6
  Capacity = 2
  NSlots = 2
  NavStride = 2
  Names <- MCTwoNames
  NoName = noname
  Stored <- MCStored
  Contents = {c1}
  NoContent = none
  Lengths = {2}
  DirPaths <- MCDirPaths
  Killable = {}
  MaxKills = 0
  Reformat = FALSE
PROPERTY RmFreesFileBlocks
