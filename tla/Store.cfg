SPECIFICATION Spec
CONSTANTS
  NvSize = 26
  NumCreds = 2
  Credential <- Mixed
  Guids <- Two
INVARIANTS TypeOK FileIsMemory OneSlotEach StoredIsFound
PROPERTIES KeepsPromise
