SPECIFICATION SetupSpec
CONSTANTS
  Arguments <- MCArguments
  M_ = 2
INVARIANTS
  EntryPointOnTop
  LiveLabelsFound
  RefusalReason
