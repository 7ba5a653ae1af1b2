# FoxClip in TLA+

FoxClip is an OBS Studio module that hosts plugins of its own. When OBS loads it
(`obs_module_load`), it makes sure a plugin directory exists, looks at every
sub-directory, reads and validates the manifest it finds there, loads the shared library
the manifest names and runs the plugin's `init` on a thread of its own; it also puts a
menu, two tools-menu entries and a small window into OBS. `obs_module_unload` undoes all
of that. This directory holds TLA+ models of those parts, the TLC configurations that
check them on small instances, and proofs, checked by TLAPS, of what holds for every
instance.

Paths below are relative to `src/` inside the repository. In the modules, an operator
named `Wrong...` is a deliberately faulty variant of the operator defined after it. Nothing
uses it; PROJECT.json pairs it with the property that must notice when it takes the
place of the right one.

## Inventory

| part (source) | state it keeps | operations | interacts with |
|---|---|---|---|
| Threaded plugin host (`infra_shared/plugin/MultiPluginHost`, `ThreadedPlugin`, `ModuleLoader`) | a list of plugins under a mutex; per plugin an atomic flag, a `std::thread`, a library handle and two entry points | `loadAndStart`, `stopAndUnloadById`, `stopAndUnloadAll`, `list`, static destruction; `start`, `stop`, `threadMain`, destructor; `load`, `unload` | the linker's load counts; plugin code on worker threads; called by the loader and by unload |
| Single-plugin host (`infra_shared/plugin/FoxclipPluginHost`) | one handle, one `deinit`, one path | `load`, `unload`, `isLoaded` | plugin code on the caller's thread; called by `LoaderFacade` |
| LoaderFacade (`features/plugin_loader/app/LoaderFacade`) | the loop of one call | `loadOne`, `loadAll` with `unloadBeforeLoad`, `stopOnFirstSuccess` | the single-plugin host, the manifest reader and validator |
| Plugin loader (`features/plugin_loader/app/LoaderFacadeMulti`) | the loop of one call; lists of successes and errors | `loadAll`, `loadOne` | the file system; reader, validator; the threaded host |
| Manifest reader and validator (`features/plugin_loader/infrastructure`, `domain`, `app/ValidationInputFactory`) | none | `readFromDir`, `validate`, `makeValidationInput` | `Semver` |
| Versions (`infra_shared/version/Semver`) | none | `parse`, `<`, `supportsSdk`, `satisfiesMinHost` | the validator |
| Start-up check (`features/startup_check`, `infra_shared/startup/EnsurePluginDir`, `createDirs`, `existsDir`) | the chosen target and the result | constructor of the facade, `run`, `createIfMissing` | the file system; OBS's configuration path |
| Menu registry (`infra_shared/ui/menu/app/ObsMenuRegistry`) | a map from menu ids to guarded pointers to a menu and its actions, under a mutex | `ensureTopLevelMenu`, `addMenuAction`, `teardownAll`, the slot of `triggered` | Qt's event loop, deferred deletion and guarded pointers; other users of the menu bar |
| Module entry points (`app/plugin-main.cpp`) | a pointer to the window, the window facade | `obs_module_load`, `obs_module_unload` | everything above |
| Window (`infra_shared/ui/window`) | a dialog | `showHaloWindow` | Qt |
| File store (`infra_shared/fs/FileStore`) | none in memory; the files and directories it makes | `writeText`, `readText`, `ensureDirectory`, `exists` | path resolver; the file system; called by nothing yet, on any thread when it is |
| Path resolver (`infra_shared/fs/PathResolver`), `join`, `isAbsolute` | none | `toFull` | root provider; called by the file store and the start-up check |
| Listing for the log (`DirectoryLister`, `PluginFolderLogger`) | none | `listSubDirectories` | the log |
| Configuration root (`ObsConfigRootProvider`, `ObsConfigPathProvider`) | none | `root` | OBS |
| Log API, host table (`public_api/log`, `HostApiV1`, `ObsLogger`) | one minimum level for all plugins | `foxclipLog`, `foxclipLogVa`, `foxclipLogSetMinLevel`, `foxclipLogGetMinLevel`, `getHostApiV1` | called from plugins' threads |
| Recorder API (`public_api/recorder`) | none | `foxclipRecordStart` | the host table |
| Public headers, build and packaging | | | |

What is hard about it: the threads of the plugins against the callers of the host (a
`unique_ptr` is moved out of the list under the mutex and stopped outside it; a worker
clears the very flag `stop` exchanges); two kinds of ownership in Qt (parents and
`deleteLater`) with records that lag behind; a loop over directories in which any of
six steps may fail; a file system that others change between two looks at it; the order
in which code is unmapped and told to shut down, over long sequences of calls; files that are
written and read without a lock, on a disk that may fail at any piece, by a process that may die;
one log level that all plugins' threads share. PROJECT.json lists these hazards at their lines.

What makes each part correct, in a sentence:

- threaded host: no plugin code runs in a closed library, each load of a library is given
  back once, each plugin has one owner, and every call returns;
- single host: one library open at a time, each plugin's own `deinit` before closing, nothing left
  open by a failed load, and the list of successes is true;
- loader: one verdict for each directory, only fit plugins are started, each with a manifest of
  its own directory, and the loop ends;
- manifests and versions: exactly the plugins this host can run are accepted, by an
  order on versions that is an order;
- start-up check: it fails, and falls back, only for a cause: never because another program made
  the directory first;
- menu registry: the records tell the truth about the menu bar, clicks reach the callback
  registered last, a call that waited has its whole effect, nothing is leaked, and callbacks may
  call the registry;
- path resolver: what it returns lies in the root, and every path that leads down is resolved;
- file store: yes is answered only for what is in the file, and a failure or a crash never leaves
  the end of an old text behind the beginning of a new one;
- log: each line written, and each line dropped, was judged by a level in force during its call.

## Modules

| module | models | lines up with the code like this |
|---|---|---|
| `PluginLifecycle` | what the threaded host promises of a plugin | abstract: a phase and a place in the register for each plugin |
| `PluginHost` | MultiPluginHost, ThreadedPlugin, ModuleLoader, `std::thread` failing to start | `pc[c]` is where a caller is in `loadAndStart`, `stop...` or a destructor; `own[c]` is its `tp`, `victim` or `tmp`; `thread[o]` is where the worker is in `threadMain`. A critical section is one step; whatever happens outside the mutex, and every blocking point, is a step of its own |
| `PluginHostProofs` | | theorems about `PluginHost` |
| `SingleHost` | foxclip::Host, LoaderFacade | `handle`, `deinit` are the members of `state` (`deinit` by the library it points into); `pc` is the point in `load` / `unload`; `call` is the facade's loop; calls into plugin code and into the linker are steps |
| `SingleHostProofs` | | theorems about `SingleHost` |
| `ManifestRules` | reader, validator, comparison of versions | operators on what the reader can see of a document; `HostVersion` is `makeValidationInput`, which takes 0.0.0 for an unparsable version |
| `SemverParse` | `Semver::parse` | the two nested loops, a character a step; `Wrap` is the width of `int` |
| `VersionProofs` | | theorems about `SemverParse` and about `ManifestRules`' comparison of versions |
| `PluginLoader` | LoaderFacadeMulti (extends `ManifestRules`) | `pc` is the check in `loadOne` that comes next; `successes`, `errors` are `LoadAllResult`; `held` is a history of the manifests each directory has held, which no step reads; `IsDirectory` may answer from the type the iterator remembers |
| `PluginLoaderProofs` | | theorems about `PluginLoader` |
| `PluginDirectory` | start-up check, `ensureObsWritableDir`, `createDirs`, the choice of the directory plugins are loaded from in `obs_module_load` | `pc` names the next look at the file system; `spoilt` is a history of the places the world has spoilt, which no step reads |
| `PluginMain` | `obs_module_load`, `obs_module_unload`, the window and its facade, over `PluginLifecycle` and `LogApi` | `pc` is where the UI thread is; `helloWindow`, `windowFacade` are the two variables of plugin-main.cpp; `dialog`, `menu`, `item` are what Qt and OBS hold |
| `PluginMainProofs` | | theorems about `PluginMain` |
| `LogApi` | the log functions of the plugins' table | `minLevel` is the static; `logCall[c].at` is the point in `foxclipLog` / `foxclipLogVa`, each look at the level a step |
| `PathResolver` | `toFull`, its tests, and `std::filesystem`'s way of joining and normalising, for POSIX and Windows | operators on paths (`PathOn`); a path is a drive, a root and names, and the code's comparison of texts is one of sequences of characters. `IsRoot` says what the root provider gives |
| `FileStore` | FileStore, `createDirs` (extends `PathResolver`) | `call[c].at` is the point in `writeText`, `readText` or `ensureDirectory`; a text is written and read in pieces. A crash ends all calls and leaves the files |
| `PluginDirectoryProofs` | | theorems about `PluginDirectory` |
| `FileStoreProofs` | | theorems about `FileStore` |
| `MenuRegistry` | ObsMenuRegistry and what Qt does around it | `record` is `menuMap()`; `menu`, `action`, `bar` are Qt's objects; `ui` is the callback the UI thread runs; `queue` the calls posted by other threads |
| `MenuRegistryProofs` | | theorems about `MenuRegistry` |

`MCPluginHost`, `MCSingleHost`, `MCPluginLoader`, `MCMenuRegistry` and `MCFileStore` hold the values of
constants that a .cfg cannot write down. `PluginHost` is related to `PluginLifecycle` by a
refinement mapping (`PhaseOf`, `StatusOf`, at the end of the module). `PluginMain` is composed
with the abstract host, whose actions are the plugins' part of its steps, and with the log: a plugin whose
code is running may begin a log call, and its `init` or `deinit` returns only between two of them. `PluginLoader` uses
`ManifestRules` as the code uses the validator, and sees the threaded host as its answer to
`loadAndStart`.

## Runs

Type invariants are not given a run: those of `PluginHost`, `SingleHost`, `PluginLoader`, `PluginMain`, `LogApi` (within
`PluginMain`), `MenuRegistry`, `PluginDirectory` and `SemverParse`, and the types within `FileStoreProofs`' invariant, are proved for every
instance.

Every run finishes in under two minutes on two workers. `expect` is in PROJECT.json.

| run | instance | shows |
|---|---|---|
| `host_threads` | 2 callers, 2 plugin objects, 3 libraries, two of them with one manifest id | ownership, load counts, shutdown order, in every interleaving, thread creation failing included; the host implements `PluginLifecycle`; under fairness every call returns (15 thousand states). Two callers are what a race over the list takes; one shared id makes `find_if` choose; two objects of one library open it twice. For more objects the safety properties are proved |
| `host_stop_joins` (violation) | 1 of each | `stop` does not join a plugin whose `init` failed: see Findings |
| `menu_safety` | 2 menu ids, 1 action id, 3 menus, 2 actions, 1 queued call, foreign menus of both kinds | records, bar, clicks, teardown; a call run from the queue or a callback changes what the user is offered exactly as it promises (`CallsHaveTheirEffect`), whatever happened while it waited; a running callback's next step is always enabled, also when it calls the registry (320 thousand states). Two ids let one menu's operation disturb another's; three menu objects hold two recorded menus and a foreign or dying one |
| `single_host` | a complete plugin, one without `deinit`, one without `init`, a broken file, a refused directory | load counts, order, the facade's answer, over call sequences of any length |
| `single_table` (violation) | the same | the table handed to `init` dies with it: see Findings |
| `loader_files` | 2 entries in any order, 7 documents, 2 changes by others | verdicts, what is started and with which manifest, acceptance exactly of what is fit, termination. The documents are a good one, one for another platform, one without a name, and ones asking for an older host, a newer host, a newer SDK and an unparsable host version (870 thousand states). Two entries are needed for one that fails before one that works; two changes let an entry change between listing and check and again between check and reading |
| `semver_parse` | texts up to 6 characters over two digits, dot, space and another, ints of a few bits | the parser returns what is written and ends |
| `module_life` | 2 plugins, 2 log levels | from load to unload with plugins in every phase and the main window destroyed at any time: the window's pointer is fit, unloading ends and leaves nothing, and the filter on log lines is fair while the level changes under it (56 thousand states). Two plugins let one still be in `init` while another has failed |
| `directory_check` | both places in each of 4 states, writable or not, root known or not, 2 changes by others | a failure or a fallback has a cause in what the world did, with changes between any two steps. One change is another program making the directory first; two are enough to make a directory and lose it again between two looks |
| `directory_fallback` (violation) | the same | see Findings |
| `file_store` | 2 callers; 4 roots (POSIX, Windows with a trailing separator, a portable one, none), 11 relative paths, 2 texts | containment, resolution, what yes means, what a failure or crash leaves (193 thousand states). `Character` and `Letter` bound the names and drives paths may have. Two callers are two writers, or a writer and a reader, of one file; a text of two pieces can be cut in the middle and is longer than the other. The paths hold each way out of a root: up, from a drive's root, on a drive, and into a directory whose name begins like the root's |
| `file_read_fails` (violation) | the same, 1 caller | see Findings |

Bounds. `Object`, `Menu` and `Action` bound how many objects exist at once (a slot is used
again once its object is gone), `MaxQueue` the calls waiting for the UI thread, `MaxListed` the directories of
one listing, `MaxChanges` what others do to the file system during one loading or check, `MaxLength` and `Limit` the texts and
ints of the parser. `Room` in `MenuRegistry` is the bound on objects as a guard: a call is taken
up only when there are objects for all it may make. Symmetry is used in
`menu_safety` and `file_store`, where the only temporal properties look at one step at a time and do not tell the symmetric
objects apart.

`CHECK_DEADLOCK FALSE` is set where a system may stop: nobody has to call the host, a terminated
process stays terminated, the loader, the parser and the start-up check run once, OBS does nothing more after unloading, and
foreign menus may use up the pool of objects.

## Fairness

- `PluginHost`: weak fairness of each caller's step inside a call and of each worker. The operating
  system runs both; the assumption that a plugin's `init` and `deinit` return is part of it and
  is the plugin's duty. Beginning a call is not fair.
- `PluginMain`: weak fairness of a plugin's log call under way and of the steps of `obs_module_unload` once it
  has begun, strong fairness of each plugin's thread: its entry points go on only between two log calls, and return
  however much they log. The event loop is not fair: OBS may quit without running it again.
- `PluginLoader`: weak fairness of the loader's steps, other than the failing of the directory iterator: it
  runs on the thread of `obs_module_load`.
- `SemverParse`: weak fairness of the loop.
- `FileStore`: weak fairness of a caller's call, used for the counterexample alone.
- `MenuRegistry`: none. That a callback is never stuck is stated as an invariant (its next step is enabled).

Nothing is assumed of the environment: changes by others, clicks, destruction.

## What is proved

`PluginHostProofs` proves, for any set of callers, any libraries and ids and any finite set of
objects, that `HostInv` is invariant (`HostInvariance`), and from it the safety properties
`TypeOK`, `CodeIsMapped`, `RefsMatchHandles`, `UniqueOwner`, `ListedIsLive`,
`AllStopBeforeUnload`, `TerminatedByFailedInit`, and that the host implements `PluginLifecycle` (`HostImplementsLifecycle`).

The argument. None of these is inductive by itself. That a library is open while its plugin's code runs
follows from the destructor having stopped or joined the worker, but whether it has depends on who
cleared the flag. `HostInv` says so: a worker that has not ended can be joined, and once its flag is
clear either its `init` has failed or some caller is joining it (`ClearedIsJoined`);
a caller's loop leaves only ended workers behind it (`PassedIsStopped`); what a caller holds, and
where its loop stands, at each point of its program (`HandsShape`); a plugin without library or
not yet started is as constructed (`UnusedIsFresh`, `OwnedIsStarted`). A step of a caller touches only
the plugin it works on, and `UniqueOwner` says that no other caller has that one in hand; most of
the lemmas are about this. Load counts need the cardinality of a set that gains or loses one element
(`OpenedHandles` and its counterpart), which is where finiteness of `Object` is used.
Assumptions: `CallersAssumption` (there is a caller), `ModuleAssumption` (null is no library), `ObjectAssumption`.

The refinement maps a plugin's phase from its library and its worker (`PhaseOf`) and its place in the register from
who holds it (`StatusOf`). By `UniqueOwner` the place can be read off a single caller's hand (`StatusIsByHands`), so a step of
a caller moves at most the one plugin it works on, and every other keeps both (`StatusKept`, `PhaseKept`). One step per
action then maps to an action of `PluginLifecycle` or to a stutter. `HostInv` is
strengthened by one fact, that `deinit` runs only once the flag is clear (`ToldBeforeDeinit`). `stopAndUnloadAll`
withdraws many plugins in one step of the code and in one step of `PluginLifecycle`. Liveness is no part of it.

`SingleHostProofs` proves `SingleInv` inductive for any libraries, exports, directories and manifests, and
from it that the load counts balance (`LoadsBalance`), each plugin's own `deinit` comes before closing (`ShutDownBeforeClose`) and no two
plugins are initialised at once (`NeverTwo`). `SingleInv` adds to the properties what each point of a
call knows (`CallState`): while a library is being loaded nothing is recorded as loaded, and the
`deinit` on record is that of the loaded library. `FirstSuccessStays` (`ReportedIsLoaded`) needs one fact more: with
`stopOnFirstSuccess` the list of successes is empty until the one success that ends the loop, and that one is what is loaded (`OneIsEnough`).

`VersionProofs` proves that the comparison of versions is a strict total order, that a newer host still
satisfies a minimum host version, and that a newer SDK of the same major version still supports a plugin under any policy. And it proves,
for any digits, texts of any length and any width of `int`, that the parser returns what is written (`ParserIsCorrect`). The property says
nothing before the loops have ended, so `ParserInv` says what they know on the way: the numbers behind it are read (`IsRead`), the one in
hand is so far the number written in the digits passed (`InDigits`), wherever a number begins the reference has it begin too, and the
numbers that are not there are 0. The reference is a recursive function over the digits, unfolded one digit at a time (`WrittenUnfolds`); a number
that has wrapped cannot come back into range by another digit, because the written one only grows, which is why a fitting number was fitting all along.
Assumptions: `DigitAssumption`, `LengthAssumption`, `LimitAssumption`.

`PluginLoaderProofs` proves `LoaderInv` inductive for any finite set of entries, any documents and any number of
changes by others, and from it `TypeOK`, `OneVerdictEach` and `StartsWhatItFound`. `LoaderInv` adds to them that
the listing names no entry twice and that the position is inside it while an entry is judged (`ListingShape`), so
that what is judged now has no verdict yet; that what was validated is what was read (`DocumentInHand`); and that it was read where it is charged to (`FoundOnDisk`). `OnlyFitStart` and
`RulesAreExact` go on from there: the digit-by-digit comparison of versions agrees with the comparison of the numbers they
stand for (`LessIsByNumber`), so the reader and the validator accept exactly the fit manifests, and only those are ever
started. Assumptions: `DirAssumption`, `DocumentAssumption` (a version text is missing, unparsable or a version),
`NamesAssumption`; for the last two theorems also `DefaultPolicy` (the one `makeValidationInput` uses) and `SmallVersions`
(the components of the host's version and of minimum host versions are below 100, the base of the reference).
`NoneIsPassedBy` (`NoneIsLost`) adds what the loop has behind it: every entry before the position, undisturbed, either has its verdict
or was no directory (`NothingPassedBy`); and a listing that repeats nothing and is as long as there are entries names them
all (`SetToSeqsCovers`, a pigeonhole argument).

`MenuRegistryProofs` proves `MenuInv` inductive for any ids, menus, actions, queue and callbacks, and from it `TypeOK` and every
property of `menu_safety` but one. No property is inductive alone: that a click reaches its record needs every
listed action to be recorded (`ShownAreRecorded`), clickable or not; that a record is fit after the bar's window died
needs what is on the bar to exist and nothing to be on it without a window, and that nothing leaks needs the registry's menus to be
children of the bar (`ObjectsAreSound`). `MenuInv` splits into `CoreInv`, about the objects and the records, which each operation of the registry preserves
by itself, and `CallInv`, about who is calling: a callback, a queued closure and the UI thread run the same operations, so each operation
is proved once. That a call has its effect (`CallsTakeEffect`) is a fact about one step: in a state of the invariant what the user is
offered can be read off the records alone (`OfferIsRecorded`), each operation changes these as it should, and only a waiting call's own step takes
it off the queue or out of the callback (`RunsPerforms`). `Without`, which takes menus off the bar, is written as a recursive function so that what it keeps can be
proved (`WithoutKeepsTheRest`), by an induction over the natural numbers taken from the well-foundedness of their order. The invariant
also says that the mutex is free between steps, which is what `CallbacksReturn` comes down to. Assumptions: `NullAssumption`, `IdAssumption` (there
is an id of each kind), `BodyAssumption`, `ForeignAssumption`, `QueueAssumption`.

`PluginDirectoryProofs` proves, for any number of changes by others, `TypeOK` and `FailsOnlyForCause`. The strengthening (`Known`) ties
what the program has seen to the history: a place that cannot have a directory is spoilt (`HistoryIsKept`), and what a step saw of the target
still holds at the next step, or the target has been spoilt since.

`FileStoreProofs` proves `StoreInv` inductive for any callers, roots, relative paths and texts, and from it `NothingOldRemains`, `YesIsWritten` and
`YesIsRead`. For these, where a path leads is left open: the resolver is not expanded, and two calls may name the same place in any way. What makes the
properties inductive is what each open call knows of its file: a writer alone at an unmixed file has put exactly the pieces up to its position
(`SoFarWritten`), two writers at a file have marked it mixed (`OneWriter`), a calm reader has no writer beside it (`CalmHasNoWriter`)
and holds the beginning of the file (`SoFarRead`). A step of one call touches another only by opening for writing, which ends every reader's calm and marks
the file if there is a writer. Assumption: `TextAssumption` (texts are sequences of pieces).

Its second half is about the resolver: for any root that leads somewhere, on POSIX and Windows, and any relative path of the platform, `StaysWithinRoot`
(`RootIsKept`) and `DescendingIsResolved` (`DownIsResolved`). The inductive invariant over the calls, `RootInv`, is short: what a call resolved lies in the
root, and so does every file, and every directory or it is on the way to the root. Its weight is in what it knows of a resolved path (`ResolvedIsWithin`), and that is a
fact about `toFull` alone. The code compares texts, the property compares names, and three things lie between them:

- `lexically_normal` keeps normal names as they are (`NormalIsKept`), so that normalising twice, as `toFull` and `isPathTraversalSafe` do, is
  normalising once; and names without `..` behind others only lead down from where those lead (`KeptGoesDown`). This settles
  every relative path that has neither drive nor root.
- On Windows a path may be rooted, or have a drive, and still pass for relative. One of another drive differs from the base in one of
  the text's first two characters (`AnotherDriveIsRefused`), whether the base has a drive or not.
- One from the root of the drive shares no names with the base, and only the comparison of texts stops it: a text that breaks off at a
  separator behind the base's text can be taken apart into names in one way only, and these begin with the base's (`NamesAreRead`, name by name).

That a path leading down is never refused (`DescendingGetsThrough`) is the same comparison read the other way, with the base's own trailing separator, if there is
one, taken off first; on POSIX that may be a backslash which is part of the last name.
The recursive functions `Kept` and `Joined` are unfolded after showing that they exist (`KeepingExists`, `JoiningExists`).
Assumptions: `LetterAssumption` (a drive's letter is no separator and no colon) and `HomeAssumption` (each root is empty or satisfies `IsRoot`).

`PluginMainProofs` proves for any set of plugins that `MainInv` is inductive, and from it `TypeOK`, `WindowIsFit`, `NothingIsLeft` and
`StaysClosed`, and for any set of levels that the filter on log lines is fair (`LogIsFair`) and that what `PluginMain` does to the log
is what `LogApi` allows (`LogIsApart`): no other step of the module touches it. The strengthening says that outside loading a plugin off the list does not exist, that unloading empties the list
(`RegisterFits`), and that the pointer is set exactly while the dialog lives (`UiFits`), and that a
log call under way belongs to a plugin whose code is running, has seen the level in force, and past the filter has seen one that
called for its line (`LogFits`).

Only model-checked:

- liveness (`CallsReturn`, `UnloadEnds`, `LoadingEnds`, `ParseEnds`), which needs fairness and ENABLED, and
  `CallbacksReturn`, which is about ENABLED (that the mutex is free whenever a callback goes on is proved).

## Findings

- `host_stop_joins`: `ThreadedPlugin.h:23` says that `stop` calls `deinit` and joins the thread. When `init` fails the
  worker clears the flag itself (`ThreadedPlugin.cpp:42`), `stop` finds it clear and returns
  (`:29-30`), and the `std::thread` member is destroyed joinable, which is `std::terminate`. `TerminatedByFailedInit`
  shows that this is the only way the host terminates the process.
- `single_table`: `FoxclipPluginHost.cpp:85` hands `init` the address of a local table; the header tells
  plugins to keep the pointer (`plugin_api.h:32-35`).
- `directory_fallback`: the start-up check reports a fallback to a directory beside the program and makes
  it, but `obs_module_load` resolves the directory to load from anew, under OBS's root alone.
- `file_read_fails`: `FileStore.cpp:100-101` says that a failure to read sets the error code, and tests the stream for it, but the text was
  copied through stream iterators, which read the buffer behind the stream and leave its state alone. A failed read
  is answered with yes where the library takes it for the end of the file, and with an exception elsewhere.

Two smaller disagreements are visible in the models without a run of their own: `plugin-main.cpp:77` leaves making the
directory to the future, while `facade.run()` already makes it (`Make`, `Create` in `PluginDirectory`);
and without `unloadBeforeLoad` (`LoadTypes.h:9-10`) a loaded plugin is unloaded all the same, because `Host::load`
begins by unloading (`EntryPoint` and `Try` in `SingleHost`).

## Not modelled, and assumptions

- Of exceptions only that of `std::thread`'s constructor is modelled, as far as the host's own state goes (`StartThrows`); what becomes of it
  above `loadAndStart`, and of those for lack of memory, is not. `list()` only reads.
- A library that cannot be opened leaves `PluginHost` as it was; that is no step of the model.
- Menu callbacks run no event loop of their own. Without a QApplication `callUi` runs on the calling thread, but
  then there is no menu bar and every operation but `teardownAll` returns early.
- The start-up check takes `foxclip-plugins` as resolved whenever OBS has a root, which `DescendingIsResolved` states of the resolver. Paths that OBS knows stay known during
  `obs_module_load`.
- `LoadAllResult::errors` of LoaderFacade is left out; its successes are modelled. Whether `operator/` leaves a trailing separator
  when its right side is a bare drive (`C:\a / C:`) is left out. No property depends on either.
- A menu of another module that is on the bar without being its child stays there after `teardownAll`, as the code has it, and may
  be adopted while it is dying; `DoomedAreOffBar` exempts it.
- JSON, texts of messages, titles, the checkable flag, warnings: nothing depends on them.
- What a reader of a file gets beside a writer is modelled, but no property speaks about it: `YesMeansRead` is about readers left alone.
- Overflow of `int` in the parser wraps in the model, as in the builds at hand; no property speaks about it.
- A root leads somewhere: it is rooted or has a name left once it is normal (`IsRoot`). `.` and a bare `C:` are the roots this excludes. The comparison of texts
  misjudges them (under `.` it refuses every file below; under `C:` it refuses `a` and lets `\a` through); OBS's path for a
  module ends in the module's own directory, so it is neither. No name on Windows has a colon, and drives are letters: UNC roots are left out.
- A path and its text are taken as the same. The loader reads texts as UTF-8, the rest in the process's code page; which of
  the two agree is outside the repository. Windows' indifference to the case of letters is left out.
- A stream's buffer is abstracted to pieces that reach the file one by one, in order. Nobody removes a file that is open, and
  a crash is one of the process: what the system was given stays.
- Reads and writes of the log's minimum level are atomic. The text of a line and the OBS level it gets are left out.
- Listing directories for the log, the recorder's forwarding function, declarations and build scripts change no state.
- The parts marked `not_modelled` in PROJECT.json, each with its reason there.

## Plan

Built so far: the threaded host first (the heart of the program and its most concurrent part), its
abstract life cycle and its proofs; then the menu registry, the single host, the loader with its rules,
the parser, the start-up check, and the module's life as a whole; then the path resolver, the file store, the log shared by
the plugins' threads and a thread that cannot be started.

The planned proofs are done: every safety property that a run expects to hold, except `CallbacksReturn`, is stated by a theorem, and so is the refinement of
`PluginLifecycle`. What is left is out of the provers' reach and stays with TLC (see the list under "What is proved").

Should the code change, these are the places where the models would have to grow first: an event loop inside menu callbacks; UNC roots; callers of the file store, which
nothing in the module calls yet.
