CONSTANT Drives = {0, 1}
SPECIFICATION Spec
INVARIANT PresentDrivesIdentified
\* ata_init returns after the last drive: the final state has no successor.
CHECK_DEADLOCK FALSE
