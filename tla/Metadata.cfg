SPECIFICATION Spec
CONSTANTS
  upper = upper
  lower = lower
  bin = bin
  bad = bad
  tenant = tenant
  sign = sign
  t1 = t1
  v0 = v0
  v1 = v1
  v2 = v2
  b1 = b1
  b2 = b2
  gen1 = gen1
  gen2 = gen2
  gen3 = gen3
  Keys = {upper, lower, bin, bad}
  Lower <- TheLower
  BinNames = {sign}
  Texts = {t1}
  Encode <- TheEncoding
  Bytes = {b1, b2}
  Gens = {gen1, gen2, gen3}
  NoValue = NoValue
  Blank = Blank
  MaxLen = 3
  MaxBin = 3
  Slack = 1
SYMMETRY SymGens
INVARIANTS
  TypeOK
  NothingPastTheEnd
  OneGeneration
PROPERTY BuildsTheEntries
