\* Strings decoded by SV_BufferRemoveString and SV_BufferRemoveString16.
\* MaxStrings ends the model (deadlock is not an error).
CONSTANTS
  Texts <- MCTexts
  Pieces <- MCPieces
  Checks <- MCChecks
  Origins <- WireOrigins
  MaxChars = 3
  MaxOps = 2
  MaxStrings = 2
SPECIFICATION Spec
PROPERTY DecodedStringsBehave
CHECK_DEADLOCK FALSE
