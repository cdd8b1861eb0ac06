SPECIFICATION Spec
CONSTANTS
  i1 = i1
  i2 = i2
  t1 = t1
  t2 = t2
  bad = bad
  u = u
  oldUrl = oldUrl
  p = p
  q = q
  NoUrl = NoUrl
  NoPattern = NoPattern
  Preview = Preview
  ScriptIds = {i1, i2}
  Urls = {u, oldUrl}
  Texts = {t1, t2, bad}
  Broken = {bad}
  Patterns = {p, q}
  OldUrl <- MCOldUrl
  Matches <- MCMatches
  MaxGeneration = 2
INVARIANTS KnowsEveryScript SourceIsCurrent CompiledToRun BlackboxIsCurrent
SYMMETRY Symmetry
