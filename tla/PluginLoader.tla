---------------------------- MODULE PluginLoader ----------------------------
(***************************************************************************)
(* LoaderFacadeMulti: every sub-directory of the plugin root is checked,   *)
(* its manifest read and validated, and the library it names handed to the *)
(* plugin host.  The loader reads the file system step by step while other *)
(* programs may change it, and a directory that fails at any step must not *)
(* stop the ones after it.                                                 *)
(***************************************************************************)
EXTENDS ManifestRules, SequencesExt

CONSTANTS
  Dir,           (* the entries the plugin root may have                       *)
  Document,      (* what a plugin.json may hold                                *)
  NoDocument,    (* no plugin.json, or one that cannot be opened or parsed     *)
  Root,          (* the plugin root itself, in the list of errors              *)
  MaxChanges     (* bound on the changes others make to the file system        *)

ASSUME NamesAssumption == Root \notin Dir /\ NoDocument \notin Document
ASSUME ChangesAssumption == MaxChanges \in Nat
ASSUME DirAssumption == IsFiniteSet(Dir)
ASSUME DocumentAssumption ==
  \A d \in Document : {d.sdk, d.minHost} \subseteq Semver \cup {NoValue, Unparsable}

VARIABLES
  disk,        (* disk[d]: what is under the root at d                         *)
  changes,     (* how often others have changed the disk since the start       *)
  pc,          (* where the loader is                                          *)
  listed,      (* the entries in the order the directory iterator gives them   *)
  at,          (* the iterator's position                                      *)
  doc,         (* the manifest read last                                       *)
  successes, errors,   (* the verdicts: LoadAllResult                          *)
  hosted,      (* what the plugin host has been given and has started          *)
  held         (* held[d]: the manifests that have been at d since the start: a *)
               (* history, written by the world alone and read by no step      *)

vars == <<disk, changes, pc, listed, at, doc, successes, errors, hosted, held>>

Entry == [kind : {"absent", "file"}, doc : {NoDocument}]
         \cup [kind : {"dir"}, doc : Document \cup {NoDocument}]

TypeOK ==
  /\ disk \in [Dir -> Entry]
  /\ changes \in 0 .. MaxChanges
  /\ pc \in {"root", "next", "check", "read", "validate", "load", "done"}
  /\ listed \in Seq(Dir) /\ at \in 1 .. Len(listed) + 1
  /\ doc \in Document \cup {NoDocument}
  /\ successes \in Seq(Dir) /\ errors \in Seq(Dir \cup {Root})
  /\ hosted \in Seq([dir : Dir, doc : Document])
  /\ held \in [Dir -> SUBSET Document]

Init ==
  /\ disk \in [Dir -> Entry]
  /\ changes = 0
  /\ pc = "root"
  /\ listed = <<>> /\ at = 1
  /\ doc = NoDocument
  /\ successes = <<>> /\ errors = <<>>
  /\ hosted = <<>>
  /\ held = [d \in Dir |-> {disk[d].doc} \ {NoDocument}]

Current == listed[at]

----------------------------------------------------------------------------
(* The loader *)

(* The root is a directory and can be listed, in any order, or is not one.  *)
LoadAll ==
  /\ pc = "root" /\ pc' = "next"
  /\ listed' \in SetToSeqs({d \in Dir : disk[d].kind # "absent"})
  /\ UNCHANGED <<disk, changes, at, doc, successes, errors, hosted, held>>

NoRoot ==
  /\ pc = "root" /\ pc' = "done"
  /\ errors' = <<Root>>
  /\ UNCHANGED <<disk, changes, listed, at, doc, successes, hosted, held>>

WrongNextEntry ==                \* passes nothing over
  /\ pc = "next" /\ at <= Len(listed) /\ disk[Current].kind = "dir" /\ pc' = "check"
  /\ UNCHANGED <<disk, changes, listed, at, doc, successes, errors, hosted, held>>

(* The iterator may remember what the entry was when it was listed. *)
IsDirectory == IF changes = 0 THEN {disk[Current].kind = "dir"} ELSE BOOLEAN

(* An entry that is a directory is loaded, another one is passed over.      *)
NextEntry ==
  /\ pc = "next" /\ at <= Len(listed)
  /\ \E isDir \in IsDirectory :
       IF isDir THEN pc' = "check" /\ UNCHANGED at ELSE at' = at + 1 /\ UNCHANGED pc
  /\ UNCHANGED <<disk, changes, listed, doc, successes, errors, hosted, held>>

ListingEnds ==
  /\ pc = "next" /\ at > Len(listed) /\ pc' = "done"
  /\ UNCHANGED <<disk, changes, listed, at, doc, successes, errors, hosted, held>>

(* Opening the iterator or advancing it fails: the loop ends and no error   *)
(* is recorded.                                                             *)
ListingFails ==
  /\ pc = "next" /\ at <= Len(listed) /\ pc' = "done"
  /\ UNCHANGED <<disk, changes, listed, at, doc, successes, errors, hosted, held>>

WrongBreak ==                    \* gives up
  errors' = Append(errors, Current) /\ pc' = "next" /\ at' = Len(listed) + 1

WrongStay == errors' = Append(errors, Current) /\ pc' = "next" /\ UNCHANGED at  \* the same again

(* A failed loadOne: the error is recorded and the loop goes on. *)
Fail == errors' = Append(errors, Current) /\ pc' = "next" /\ at' = at + 1

(* loadOne looks at the directory again. *)
CheckDirectory ==
  /\ pc = "check"
  /\ IF disk[Current].kind = "dir" THEN pc' = "read" /\ UNCHANGED <<at, errors>> ELSE Fail
  /\ UNCHANGED <<disk, changes, listed, doc, successes, hosted, held>>

WrongReadManifest ==             \* goes on with the manifest it has in hand
  /\ pc = "read"
  /\ LET d == disk[Current].doc
     IN  IF (d # NoDocument /\ Readable(d)) \/ doc # NoDocument
         THEN /\ doc' = IF d # NoDocument /\ Readable(d) THEN d ELSE doc
              /\ pc' = "validate" /\ UNCHANGED <<at, errors>>
         ELSE Fail /\ UNCHANGED doc
  /\ UNCHANGED <<disk, changes, listed, successes, hosted, held>>

ReadManifest ==
  /\ pc = "read"
  /\ LET d == disk[Current].doc
     IN  IF d # NoDocument /\ Readable(d)
         THEN doc' = d /\ pc' = "validate" /\ UNCHANGED <<at, errors>>
         ELSE Fail /\ UNCHANGED doc
  /\ UNCHANGED <<disk, changes, listed, successes, hosted, held>>

WrongValidate ==                 \* does not look at the answer
  /\ pc = "validate" /\ pc' = "load"
  /\ UNCHANGED <<disk, changes, listed, at, doc, successes, errors, hosted, held>>

Validate ==
  /\ pc = "validate"
  /\ IF Valid(doc) THEN pc' = "load" /\ UNCHANGED <<at, errors>> ELSE Fail
  /\ UNCHANGED <<disk, changes, listed, doc, successes, hosted, held>>

(* MultiPluginHost::loadAndStart starts the plugin and lists it, or fails:  *)
(* the library may be missing, broken or without entry points.              *)
Started ==
  /\ pc = "load" /\ pc' = "next" /\ at' = at + 1
  /\ hosted' = Append(hosted, [dir |-> Current, doc |-> doc])
  /\ successes' = Append(successes, Current)
  /\ UNCHANGED <<disk, changes, listed, doc, errors, held>>

NotStarted ==
  /\ pc = "load" /\ Fail
  /\ UNCHANGED <<disk, changes, listed, doc, successes, hosted, held>>

(* Somebody else changes what is under the root. *)
Change(d, e) ==
  /\ pc # "done" /\ changes < MaxChanges
  /\ changes' = changes + 1
  /\ disk' = [disk EXCEPT ![d] = e]
  /\ held' = [held EXCEPT ![d] = @ \cup ({e.doc} \ {NoDocument})]
  /\ UNCHANGED <<pc, listed, at, doc, successes, errors, hosted>>

Loader == \/ LoadAll \/ NoRoot \/ NextEntry \/ ListingEnds \/ CheckDirectory
          \/ ReadManifest \/ Validate \/ Started \/ NotStarted

Next == Loader \/ ListingFails \/ \E d \in Dir, e \in Entry : Change(d, e)

Spec == Init /\ [][Next]_vars

(* The loader's thread goes on. *)
FairSpec == Spec /\ WF_vars(Loader)

----------------------------------------------------------------------------
(* Properties *)

Verdicts == errors \o successes

(* No directory is judged twice, and a directory is judged at all only      *)
(* after the listing has reached it.  (LoaderFacadeMulti.cpp:74-83)         *)
OneVerdictEach ==
  /\ IsInjective(Verdicts)
  /\ ToSet(Verdicts) \subseteq {Root} \cup {listed[i] : i \in 1 .. at - 1}

(* When nobody interferes and the listing is read to its end, every         *)
(* sub-directory has its verdict: none is lost behind one that failed.      *)
(* (LoaderFacadeMulti.cpp:79-82)                                            *)
NoneIsLost ==
  pc = "done" /\ changes = 0 /\ at > Len(listed) /\ Root \notin ToSet(errors) =>
    ToSet(Verdicts) = {d \in Dir : disk[d].kind = "dir"}

(* A plugin is started with a manifest that its own directory has held at   *)
(* some moment since loading began, however the files were changed under    *)
(* the loader's hands: never with one read elsewhere before, or left over   *)
(* from a directory that failed.  (LoaderFacadeMulti.cpp:35-56, 77-82)      *)
StartsWhatItFound == \A i \in 1 .. Len(hosted) : hosted[i].doc \in held[hosted[i].dir]

(* A version as one number, for versions with components below 100: the     *)
(* reference for comparing them.                                            *)
Number(v) == (v.major * 100 + v.minor) * 100 + v.patch

(* A plugin this host can run: made for the same major SDK and not for a    *)
(* newer minor one, content with this host's version, with a library for    *)
(* this platform.                                                           *)
Fit(d) ==
  /\ d.id # NoValue /\ d.named /\ d.versioned
  /\ d.sdk \notin {NoValue, Unparsable}
  /\ d.sdk.major = HostSdk.major /\ d.sdk.minor <= HostSdk.minor
  /\ d.minHost # Unparsable
  /\ d.minHost # NoValue => Number(d.minHost) <= Number(HostVersion)
  /\ d.entry[ThisPlatform] # NoValue

(* Only plugins this host can run are started, whatever happens to their    *)
(* files meanwhile.  (LoaderFacadeMulti.cpp:35-56, ManifestValidator.cpp)   *)
OnlyFitPluginsStart == \A i \in 1 .. Len(hosted) : Fit(hosted[i].doc)

(* Nothing fit is refused: under the default policy a manifest that could   *)
(* be read goes through exactly when it is fit.  (ManifestValidator.cpp,    *)
(* Semver.cpp:48-60)                                                        *)
RulesAcceptTheFit ==
  /\ pc = "load" => Fit(doc)
  /\ pc = "validate" => (Valid(doc) <=> Fit(doc))

(* Loading comes to an end: obs_module_load is not held up by a plugin      *)
(* directory that fails or changes.                                         *)
LoadingEnds == <>(pc = "done")

============================================================================
