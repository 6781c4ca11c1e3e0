CONSTANTS
  Stripe = 32
  Byte <- MCByte
  Pieces <- MCPieces
  MaxCalls = 4
SPECIFICATION HashSpec
INVARIANTS
  DigestMatches
  Split
CHECK_DEADLOCK FALSE
