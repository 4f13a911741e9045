SPECIFICATION Spec
CONSTANTS
  Letters <- MCLetters
  Classes <- MCClasses
  Words <- MCWords
  Scotland <- MCScotland
  SeqSpan = 100
  MaxTypings = 2
  MaxSubClass = 1
CHECK_DEADLOCK FALSE
INVARIANTS
  LeavesSpellWords
  GetFindsWords
  IdsAreUnique
  DecodesBack
