\* A ring of four, written more often than it has entries; two offsets tell the order.
SPECIFICATION FifoFairSpec
CONSTANTS
  FIFO_MAX = 4
  nsmp = 2
  Offset = {o1, o2}
  None = None
  MaxWrites = 7
PROPERTIES ImplementsQueue Drained
