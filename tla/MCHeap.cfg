CONSTANTS
  None = None
  Broken = Broken
  DefaultClass = oHExt
  c = c
  TextHair = TextHair
  FontRun = FontRun
  MultiLabel = MultiLabel
  BigMultiLabel = BigMultiLabel
  MaxClimb = 3
  MaxFree = 4
  MaxTyped = 5
  Descs <- McDescs
  Tops <- McTops
  Shift = {1}
  Entries <- McEntries
  Streams <- McStreams
SPECIFICATION Spec
INVARIANTS
  TreeIsNesting
  LinksAgree
  CanonicalWins
  AnchorIsClosest
  SceneIsComplete
  DeclaredWiresAreDrawn
  TypesComeFromOwnObject
  TextsKeepContext
CHECK_DEADLOCK FALSE
