CONSTANT Calls <- AllCalls
SPECIFICATION Spec
INVARIANT PreparedIsRight
