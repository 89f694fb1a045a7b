CONSTANT Families <- McFamilies
CONSTANT Blobs <- McBlobs
CONSTANT EntryHeads <- McEntryHeads
CONSTANT WireHeads <- McWireHeads
SPECIFICATION Spec
INVARIANTS
  RoundTrip
  EditsAreRead
  ErrorsReported
  ReadsWhatCanBeRead
  RecordsAreWhole
  DataIsReadWhole
  ReadersAgree
CHECK_DEADLOCK FALSE
