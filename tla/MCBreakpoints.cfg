SPECIFICATION Spec
CONSTANTS
  ScriptIds <- MCScriptIds
  Patterns <- MCPatterns
  Lines <- MCLines
  Failed <- MCFailed
  Anonymous <- MCAnonymous
  Matches <- MCMatches
  InRange <- MCInRange
  Actual <- MCActual
  MaxNumber = 3
INVARIANTS TypeOK RegistriesAgree UrlBreakpointsApply HitsAreSet
