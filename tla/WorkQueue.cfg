SPECIFICATION QueueFairSpec
CONSTANT MaxTasks = 6
INVARIANTS WorkInv
PROPERTIES WorkEnds SerialSpec
CHECK_DEADLOCK FALSE
