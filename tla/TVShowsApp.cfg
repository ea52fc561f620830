\* Three shows with ids, one of them the default key 0, and one without; two loads
\* per launch; open rows may survive anything.
CONSTANTS
  k0 = k0
  k1 = k1
  k2 = k2
  Keys = {k0, k1, k2}
  DefaultId = k0
  NoId = nil
  Lists <- MCLists
  MaxFetches = 2
  KeptOpen = {"tap", "tab"}
SPECIFICATION Spec
INVARIANTS ScreenInv FavoritesListIsCurrent
PROPERTIES OnlyAskedIsRemoved CrashesOnlyOnStaleAction
