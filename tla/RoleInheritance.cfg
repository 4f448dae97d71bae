SPECIFICATION FairSpec
CONSTANT Names = {n1, n2, n3}
INVARIANTS ResultIsClosure ErrorIsJustified InheritanceInv
PROPERTIES Terminates
CHECK_DEADLOCK FALSE
