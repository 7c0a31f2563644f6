SPECIFICATION Spec
CONSTANTS
  RecordCapacity = 2
  ByteCapacity = 3
  Sizes <- MCSizes
  Offers <- MCOffers
  MaxGeneration = 2
  MaxEvents = 3
INVARIANTS
  JournalStaysValid
  CheckpointMeansWhatItMeant
  AuthorityCalledOnce
  ActiveUnitCanEnd
PROPERTIES
  EndsAtomically
  ImplementsStaging
