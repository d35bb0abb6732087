\* Two interchangeable callers, one kind of compatibility event, three moves; the
\* conversation and one client, two edits of a part of the settings.
CONSTANTS
  Callers = {c1, c2}
  Tasks = {"start", "stop", "shutdown", "hotspotOn", "hotspotOff", "save", "repair"}
  Kinds = {"dns"}
  MaxMoves = 3
  Choices = {"u1", "u2"}
  Flows <- SomeFlows
  Drafts <- SomeDrafts
  Content <- SomeContent
  Nics = {"nic1", "nic2"}
  Reserved = {"direct", "nic1"}
  Chat = "chat"
  Clients = {"client"}
  MaxEdits = 2
  MaxRounds = 2
SPECIFICATION DesktopSpec
SYMMETRY CallersSymmetry
CONSTRAINT FewEdits
INVARIANTS
  
  
  UserDecides
  HotspotStaysOff
  ProxyIsGivenBack
  
  ToolsKeepBounds
PROPERTY UpdateKeepsEdits
CHECK_DEADLOCK FALSE
