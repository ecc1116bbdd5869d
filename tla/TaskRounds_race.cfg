\* Two clients that race for strings of up to two characters; server and clients are interrupted at will.
CONSTANTS
  Clients = {u, v}
  Nobody = Nobody
  MaxLen = 2
SPECIFICATION Spec
INVARIANTS TypeOK ReportsItsString
PROPERTIES NobodyLeftWaiting
