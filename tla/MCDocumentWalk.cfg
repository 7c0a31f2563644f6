CONSTANTS
    Documents <- MCDocuments
    MaxDepth = 9
SPECIFICATION Spec
INVARIANTS
    FindingsAreExact
    TablesAreFound
