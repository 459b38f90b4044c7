SPECIFICATION Spec
CONSTANTS
  a = a
  b = b
  Char = {a, b}
  Nul = Nul
  Null = Null
  Junk = {Nul, a}
  Strings <- MCStrings
  SizeMax = 4
  MaxHeld = 2
INVARIANTS
  IsCordExact
  ObserversAgree
  SubIsSubstring
