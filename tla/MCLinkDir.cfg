\* Three runs, two of whose ids begin alike; one directory that cannot be removed.
SPECIFICATION Spec
CONSTANTS
  Runs = {"r1", "p2", "p3"}
  Short <- MCShort
  Numeral <- MCNumeral
  Parts <- MCParts
  Given <- MCGiven
  MaxRest = 1
  None = None
INVARIANTS
  TypeOK
  AllFit
PROPERTIES
  PlainIsUnique
