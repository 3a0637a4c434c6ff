SPECIFICATION Spec
CONSTANTS
  BUF_DATA_SIZE = 5
  MaxBytes = 7
  MaxRead = 4
  client_flood = 2
INVARIANTS TypeOK LinesOfTheStream HandsOverRest
PROPERTIES LinesAreParsed
