CONSTANTS
  vi = vi
  a = a
  b = b
  spare = spare
  Tables <- SoundTables
  Sections <- McSections
  SpareSection = spare
  OtherTypes <- McOtherTypes
  Unprintable <- McUnprintable
  ByteMod = 4
  MaxPayload = 8
  MaxLen = 9
  InitImages <- Images
  NewNames <- McNames
  Descriptions <- McDescriptions
  OpenModes = {"strict", "lenient"}
  MaxTail = 4
SPECIFICATION Spec
INVARIANTS
  CanonicalStable
  OverlapFound
PROPERTIES
  GateStopsOversizeOnly
  ImplementsLibrary
