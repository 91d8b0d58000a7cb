\* One write of a value whose comments StyledWriter does not all write, and one
\* of which hides a token.
CHECK_DEADLOCK FALSE
CONSTANTS
  rightMargin_ = 12
  Width <- MCWidth
  Placed = {"//c ", "/*c*/"}
  Value <- MCValue
  Level <- MCLevel
  Values <- Disputed
  MoreValues = {}
  MaxWrites = 1
SPECIFICATION WriterSpec
INVARIANTS WrittenAsDocumented
