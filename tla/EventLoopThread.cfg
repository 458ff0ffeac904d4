\* Three threads, whose loops are asked to quit by the owner and by themselves.
SPECIFICATION PoolFairSpec
CONSTANT N = 3
INVARIANT Sound
PROPERTIES NothingHangs
CHECK_DEADLOCK FALSE
