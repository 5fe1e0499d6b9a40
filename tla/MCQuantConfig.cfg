CONSTANT Absent = Absent
CONSTANT Scenarios <- AllScenarios
SPECIFICATION Spec
INVARIANT SidecarsAgree
INVARIANT ContextsRestored
INVARIANT DeclaredIsServed
INVARIANT ExpertsAsDeclared
INVARIANT DelegationJudged
CHECK_DEADLOCK FALSE
