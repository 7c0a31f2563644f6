CONSTANTS
    Documents <- OptionDocuments
    MaxDepth = 9
SPECIFICATION Spec
INVARIANT
    MixedOptionsAreFound
