\* Strings from every caller-facing constructor, edited by every mutator.
\* A string that has been destroyed is not created again past MaxStrings,
\* so the model stops there: deadlock is not an error.
CONSTANTS
  Texts <- MCTexts
  Pieces <- MCPieces
  Checks <- MCChecks
  Origins <- CallerOrigins
  MaxChars = 3
  MaxOps = 2
  MaxStrings = 2
SPECIFICATION Spec
INVARIANTS LengthFresh EndWithAgrees NoLeak NoDoubleFree
PROPERTY StringRefinement
CHECK_DEADLOCK FALSE
