\* An allocator of eight objects a block with the default page of the constructor.
CHECK_DEADLOCK FALSE
CONSTANTS
  objectPerAllocation = 8
  Pages = {255}
  MaxBatches = 1
  MaxBlocks = 256
  MaxFree = 0
SPECIFICATION AllocatorSpec
INVARIANTS InsideBatch
