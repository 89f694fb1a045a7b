CONSTANTS
  vi = vi
  a = a
  spare = spare
  Sections <- McSections
  SpareSection = spare
  OtherTypes <- McOtherTypes
  Unprintable <- McUnprintable
  ByteMod = 4
  MaxPayload = 8
  MaxLen = 9
  Paths <- McPaths
  InitFiles <- McFiles
  Commands <- McCommands
  MaxTail = 12
  NoFile = NoFile
SPECIFICATION Spec
INVARIANTS
  SuccessIsFaithful
  RefusalLeavesFiles
  RepairMendsWhatItCan
