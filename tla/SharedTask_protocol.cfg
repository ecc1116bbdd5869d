\* Three workers; the server is started again and any process is interrupted at will.
CONSTANTS
  Workers = {u, v, w}
  Nobody = Nobody
  MaxLen = 3
  Letter = 1
SPECIFICATION Spec
INVARIANTS TypeOK ReportsTheLength
PROPERTIES OfferAnswered
