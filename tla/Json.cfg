\* Integers of two bytes, doubles of four digits, texts of up to four characters;
\* a margin of twelve, so that arrays of four elements are long and of two may be
\* too wide; blocks of eight objects, two of them in a batch, or batches that end
\* inside a block; three comments, one of which ends in a space.  A conversion takes no
\* step, no value is written after the last, and no batch allocated.
CHECK_DEADLOCK FALSE
CONSTANTS
  Bytes = 2
  Precision = 4
  CodePoints <- MCCodePoints
  ControlCode <- MCControlCode
  MaxText = 4
  rightMargin_ = 12
  Width <- MCWidth
  Placed = {"//c", "//c ", "/*c*/"}
  Value <- MCValue
  Level <- MCLevel
  Values <- Trees
  MoreValues <- Few
  MaxWrites = 2
  objectPerAllocation = 8
  Pages = {16, 20}
  MaxBatches = 3
  MaxBlocks = 4
  MaxFree = 6
SPECIFICATION MCSpec
INVARIANTS
  ConversionsReadBack StyledIsFast NothingLeftOver CommentsInOrder
  NoObjectTwice NoBlockLost
