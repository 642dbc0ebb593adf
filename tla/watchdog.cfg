SPECIFICATION FairSpec
CONSTANTS
  Fragments = 2
INVARIANTS
  TypeOK
  ReactionsAreSpaced
  ConfirmedIsDebounced
  SuspectComesFirst
  
PROPERTIES
  PersistentSignalsConfirm
