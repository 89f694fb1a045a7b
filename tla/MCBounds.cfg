CONSTANTS
  WordMod = 16
  HeaderSize = 1
  ListSize = 1
  CountSize = 1
  BlockSize = 1
  SectionSize = 1
  LenSize = 1
  MaxPayload = 2
  MaxBlocks = 2
  MaxSections = 2
  SmallWords = {0, 1, 2, 3, 5, 13, 15}
  FileSizes = {8, 15, 20}
  Words <- SmallWords
  Headers <- McHeaders
  Sizes <- FileSizes
  Layouts <- McLayouts
SPECIFICATION Spec
INVARIANTS
  ValidatedInInfo
  WrittenIsRead
