SPECIFICATION PathSpec
CONSTANTS
  Tids = {main, worker}
  Main = main
  Keys = {0, 1, 2}
  Pages <- MCPages
  KeyOf <- MCKeyOf
  Instrs <- MCInstrs
  AppRights = {0, 3}
  PAGE_MPK = FALSE
  Objects <- MCObjects
  PagesOf <- MCPagesOf
  SiteOf <- MCSiteOf
  Accesses <- FewAccesses
INVARIANT AllRightsRestored
