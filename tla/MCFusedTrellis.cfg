CONSTANT Absent = Absent
CONSTANT Scenarios <- FusedTrellis
SPECIFICATION Spec
INVARIANT DeclaredIsServed
CHECK_DEADLOCK FALSE
