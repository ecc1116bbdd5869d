\* Kills of any command, one after each mymkfs.
SPECIFICATION Spec
CONSTANTS
  a = a
  b = b
  c = c
  empty = empty
  full = full
  over = over
  NBlocks = 4
  Capacity = 2
  NSlots = 2
  ByteRange = 3
  Names <- MCNames
  NoName = noname
  Contents <- MCTexts
  NoContent = none
  Lengths <- MCLengths
  Paths <- MCPaths
  DirPaths <- MCDirPaths
  Killable = {"mymkfs", "mycopyto", "myrm", "mymkdir"}
  MaxKills = 1
  Reformat = FALSE
  HighBytes = {0, 1}
SYMMETRY MCSymmetry
INVARIANTS
  TypeOK
  OneOwner
  FreeListSound
  NothingLost
  FilesReadBack
  AllFoundUnlessHoled
PROPERTY OthersUntouched
