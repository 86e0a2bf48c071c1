SPECIFICATION MCSpec
CONSTANTS
  FirstLists <- FiveLists
  FolderNames = {"home", "work", "new"}
  Contexts <- TwoContexts
  MaxOrders = 2
  MaxElsewhere = 1
  MaxChanges = 2
  Names = {"home", "old", "new"}
  Sittings <- FourSittings
  MaxPhone = 1
  MaxFaults = 1
  Saves = {"cli", "tui"}
  TuiSaves = {"tui"}
  Enclosed = {"x", "z", "up"}
  Uploading = {"up"}
  FileNames <- ThreeNames
  Numbered <- FileNumbered
  LastNumber = 1
  MaxSpoils = 2
  FirstCards <- FewCards
  Matching = {1}
  MaxKeys = 2
  MaxNews = 1
  MaxTroubles = 1
  ChildNames = {"a", "b"}
  MaxChildren = 3
  MaxRefreshes = 2
  MaxDetailKeys = 3
INVARIANTS ShownAsAsked SavedTrue ScreenTrue CursorAnchored
PROPERTIES NoJumpBack
CHECK_DEADLOCK FALSE
