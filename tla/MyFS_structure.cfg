SPECIFICATION Spec
CONSTANTS
  a = a
  b = b
  c = c
  NBlocks = 6
  Capacity = 2
  NSlots = 2
  NavStride = 2
  Names <- MCThreeNames
  NoName = noname
  Stored <- MCStored
  Contents = {c1}
  NoContent = none
  Lengths = {3}
  DirPaths <- MCDirPaths
  Killable = {"mymkfs", "mycopyTo", "mymkdir", "myrmdir"}
  MaxKills = 1
  Reformat = FALSE
SYMMETRY MCSymmetry
INVARIANTS
  TypeOK
  OneOwner
  NothingLost
  NamesUnique
