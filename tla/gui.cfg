SPECIFICATION FairSpec
CONSTANTS
  Runs = 3
  Configs = 2
  Workloads = 2
INVARIANTS RunsApart StopIsOwn SelectedIsShown ViewsFollowConfig
PROPERTIES QuitAsks EndIsShown
ACTION_CONSTRAINT StartsAlike
