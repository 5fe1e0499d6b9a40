CONSTANT Absent = Absent
CONSTANT Scenarios <- MappedStock
SPECIFICATION Spec
INVARIANT DeclaredIsServed
CHECK_DEADLOCK FALSE
