SPECIFICATION Spec
CONSTANTS
  Urls <- MCUrls
  Paths <- MCPaths
  Themes <- MCThemes
  IdLimit = 3
  MaxResources = 2
  MaxPayload = 70
  MaxQueue = 2
  MaxApps = 2
INVARIANTS AsSent WritesInside SectionsOwned RoutedHome
CHECK_DEADLOCK FALSE
