CONSTANTS
  Flows <- SomeFlows
  Drafts <- SomeDrafts
  Content <- SomeContent
  Nics = {"nic1", "nic2"}
  Reserved = {"direct", "nic1"}
SPECIFICATION Spec
INVARIANT RulesStayAligned
