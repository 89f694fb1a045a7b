CONSTANTS
  vi = vi
  icon = icon
  lib = lib
  strg = strg
  Sections <- McSections
  SpareSection = strg
  OtherTypes <- McOtherTypes
  Unprintable = {}
  MaxPayload = 0
  MaxLen = 0
  Descriptions = {}
  ByteMod = 4
  InitImages <- DamagedImages
  NewNames <- ShortNames
  OpenModes = {"strict", "lenient"}
  MaxTail = 5
SPECIFICATION Spec
PROPERTY OnlyTargetRenamed
