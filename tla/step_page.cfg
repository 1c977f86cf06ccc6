SPECIFICATION PathFairSpec
CONSTANTS
  Tids = {main, worker}
  Main = main
  Keys = {0, 1, 2}
  Pages <- MCPages
  KeyOf <- MCKeyOf
  Instrs <- MCInstrs
  AppRights = {0, 1, 2}
  PAGE_MPK = TRUE
  Objects <- MCObjects
  PagesOf <- MCPagesOf
  SiteOf <- MCSiteOf
  Accesses <- CrossingAccesses
PROPERTIES InstrCompletes NoMissedPage
