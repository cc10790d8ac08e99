\* size_t of 3 bits: capacities, offsets and sizes 0..7, and offset + size
\* can wrap.
CONSTANT W = 3
SPECIFICATION Spec
\* A CHECK failure or a crash ends the program.
CHECK_DEADLOCK FALSE
INVARIANT BlockBacksCapacity

