\* Two entries in any order; others change the disk twice.
SPECIFICATION FairSpec
CONSTANTS
  HostSdk <- MCHostSdk
  PluginVersion <- MCPluginVersion
  Policy <- MCPolicy
  Platform = {"windows", "linux"}
  ThisPlatform = "windows"
  Path = {"lib"}
  NoValue = NoValue
  Unparsable = Unparsable
  Dir = {d1, d2}
  Document <- MCDocuments
  NoDocument = NoDocument
  Root = Root
  MaxChanges = 2
\* The loader runs once.
CHECK_DEADLOCK FALSE
INVARIANTS
  OneVerdictEach
  NoneIsLost
  StartsWhatItFound
  OnlyFitPluginsStart
  RulesAcceptTheFit
PROPERTIES
  LoadingEnds
