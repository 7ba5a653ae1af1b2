\* Any sequence of calls; loadAll finds up to three directories in any order.
SPECIFICATION Spec
CONSTANTS
  Module <- MCModule
  Openable <- MCOpenable
  HasInit <- MCHasInit
  HasDeinit <- MCHasDeinit
  NoModule = NoModule
  Dir <- MCDir
  EntryOf <- MCEntryOf
  MaxListed = 3
INVARIANTS
  OpenIsHeld
  DeinitBeforeClose
  OneAtATime
  ReportedIsLoaded
