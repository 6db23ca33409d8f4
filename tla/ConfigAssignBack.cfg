SPECIFICATION Spec
CONSTANTS
  x1 = x1
  x2 = x2
  x3 = x3
  ext = ext
  r1 = r1
  r2 = r2
  r3 = r3
  r4 = r4
  f1 = f1
  f2 = f2
  Configs = {x1, x2, x3}
  NoOwner = NoOwner
  Pool <- ThreeArrays
  Nil = Nil
  Parts = {"md"}
  Fields = {f2}
  Opt = Opt
  Blank = Blank
  Borrowed <- OneBorrowed
  Visible <- OneVisible
  Codecs = {}
  NoCodec = NoCodec
  Failures = {}
  NoErr = NoErr
  MaxLen <- Lengths
  Slack <- Rooms
  Defaults <- TwoDefaults
  AssignBack = TRUE
SYMMETRY SymThree
PROPERTY ConfigsAreValues
