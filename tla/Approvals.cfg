\* Two requests in a queue that keeps one, under changing policies.
SPECIFICATION Spec
CONSTANTS
  Person = {ann, system}
  System = system
  None = none
  Scope = {deleteVm}
  Gated = {deleteVm}
  Member = {ann}
  MaxApprovals = 1
  RequestBound = 2
  DecisionBound = 2
  Policies = {{}, {"separate", "group"}, {"separate", "twoPerson"}}
INVARIANTS UsePerGrant TwoApprovers
PROPERTIES NoLapsedUse
