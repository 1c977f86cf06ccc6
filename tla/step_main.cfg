SPECIFICATION PathFairSpec
CONSTANTS
  Tids = {main, worker}
  Main = main
  Keys = {0, 1, 2}
  Pages <- MCPages
  KeyOf <- MCKeyOf
  Instrs <- MCInstrs
  AppRights = {2}
  PAGE_MPK = FALSE
  Objects <- MCObjects
  PagesOf <- MCPagesOf
  SiteOf <- MCSiteOf
  Accesses <- MixedAccesses
INVARIANTS TypeOK StepInv RightsRestored NothingLeft FaultsJustified
PROPERTIES InstrCompletes NoMissedViolation
