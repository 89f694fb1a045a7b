CONSTANTS
  vi = vi
  icon = icon
  lib = lib
  strg = strg
  Sections <- McSections
  SpareSection = strg
  OtherTypes <- McOtherTypes
  Unprintable = {}
  MaxPayload = 0
  MaxLen = 0
  Descriptions = {}
  ByteMod = 3
  InitImages <- Images
  NewNames <- SomeNames
  OpenModes = {"strict", "lenient"}
  MaxTail = 5
SPECIFICATION Spec
INVARIANTS
  TypeOK
  NamesResolve
  RewriteKeepsContents
  RawTailKept
  RewriteStable
  WrittenValidates
  ValidatorFindsParseIssues
PROPERTY
  OnlyTargetRenamedStrict
