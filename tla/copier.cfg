\* A peer that sends up to four units.
CONSTANT Units = 4
SPECIFICATION Spec
INVARIANTS TypeOK
PROPERTIES LossOnlyWhenStalled CancelStops EverythingArrives
\* Copy returns: then nothing more need happen.
CHECK_DEADLOCK FALSE
