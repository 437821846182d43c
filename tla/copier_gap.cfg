\* A peer that sends up to two units.
CONSTANT Units = 2
SPECIFICATION Spec
INVARIANTS NilMeansComplete
\* Copy returns: then nothing more need happen.
CHECK_DEADLOCK FALSE
