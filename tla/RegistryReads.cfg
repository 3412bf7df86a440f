CONSTANTS
  Readers = {r1, r2}
  Retries = 2
  MaxDocuments = 2
SPECIFICATION Spec
INVARIANTS
  RegistryTypeOK
  AnswersWereCurrent
  OnlyVouchedDocuments
  RefusedOnlyWhenDisturbed
PROPERTIES
  ImplementsSnapshots
SYMMETRY Symmetry
