\* Two threads, three labels of which two share a mutex, two elements.
CONSTANTS
  Threads = {t1, t2}
  Labels = {0, 1, 2}
  Locks = 2
  Capacity = 2
  CallsAfterSave = 1
  ReplaceKnown = FALSE
  Dim = 1
  Magic = 5
  NoLabel = NoLabel
  NoFile = NoFile
SPECIFICATION Spec
INVARIANTS CountersAgree LabelsAgree
PROPERTY Implements
SYMMETRY Alike
