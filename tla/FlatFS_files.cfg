\* More names than slots; kills anywhere.
CONSTANTS
  a = a
  b = b
  long = long
  NoFile = NoFile
  Directory = Directory
  Names <- MCNames
  Long <- MCLong
  Prefix <- MCPrefix
  Ends <- MCEnds
  Bytes = {1, 2}
  HostContents <- MCContents
  METADATA_BLOCKS = 2
  PerBlock = 1
  BLOCK_SIZE = 2
  Kills = TRUE
SPECIFICATION Spec
INVARIANTS TypeOK RoundTrip NamesUnique
SYMMETRY MCSymmetry
