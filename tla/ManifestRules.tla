---------------------------- MODULE ManifestRules ----------------------------
(***************************************************************************)
(* What makes a plugin manifest acceptable: NlohmannManifestReader (which  *)
(* keys plugin.json must have), Semver (how versions compare) and          *)
(* domain::validate (SDK compatibility, minimum host version, an entry for *)
(* the platform).                                                          *)
(*                                                                         *)
(* A document is what the reader can see of plugin.json.  A text field is  *)
(* NoValue when the key is missing, is no string or is empty; a version    *)
(* text is the version it parses to, or Unparsable (SemverParse says how). *)
(* Names, capabilities and locales decide nothing and are left out.        *)
(***************************************************************************)
EXTENDS Integers

CONSTANTS
  HostSdk,        (* FOXCLIP_SDK_VERSION_*                                     *)
  PluginVersion,  (* the version PLUGIN_VERSION parses to, or Unparsable       *)
  Policy,         (* the CompatPolicy: which of its two rules apply            *)
  Platform,       (* the platforms a manifest may name                         *)
  ThisPlatform,   (* currentPlatformKey()                                      *)
  Path,           (* relative paths of libraries                               *)
  NoValue, Unparsable

Semver == [major : Int, minor : Int, patch : Int]

ASSUME HostAssumption == HostSdk \in Semver /\ PluginVersion \in Semver \cup {Unparsable}
ASSUME PolicyAssumption ==
  Policy \in [requireSameMajor : BOOLEAN, requireHostMinorGreaterEqual : BOOLEAN]
ASSUME PlatformAssumption == ThisPlatform \in Platform
ASSUME NoValueAssumption ==
  NoValue \notin Path \cup Semver /\ Unparsable \notin Semver /\ NoValue # Unparsable

----------------------------------------------------------------------------
(* Versions *)

WrongLess(a, b) ==               \* compares every component by itself
  a.major < b.major \/ a.minor < b.minor \/ a.patch < b.patch

(* operator< *)
Less(a, b) ==
  \/ a.major < b.major
  \/ a.major = b.major /\ a.minor < b.minor
  \/ a.major = b.major /\ a.minor = b.minor /\ a.patch < b.patch

SatisfiesMinHost(host, minHost) == ~Less(host, minHost)

(* The patch level is ignored. *)
SupportsSdk(host, sdk) ==
  /\ Policy.requireSameMajor => host.major = sdk.major
  /\ Policy.requireHostMinorGreaterEqual => host.minor >= sdk.minor

(* makeValidationInput: a host whose version cannot be read is the oldest.  *)
HostVersion ==
  IF PluginVersion = Unparsable THEN [major |-> 0, minor |-> 0, patch |-> 0] ELSE PluginVersion

----------------------------------------------------------------------------
(* Manifests *)

EntryFor(doc, platform) == doc.entry[platform]

(* readFromDir: the four texts must be there, and a path for some platform. *)
Readable(doc) ==
  /\ doc.id # NoValue /\ doc.named /\ doc.versioned /\ doc.sdk # NoValue
  /\ \E p \in Platform : EntryFor(doc, p) # NoValue

(* validate.  An empty min_host_version is Unparsable; an absent one, or    *)
(* one that is no string, asks for nothing.                                 *)
Valid(doc) ==
  /\ Readable(doc)
  /\ doc.sdk # Unparsable
  /\ doc.minHost # NoValue =>
       doc.minHost # Unparsable /\ SatisfiesMinHost(HostVersion, doc.minHost)
  /\ SupportsSdk(HostSdk, doc.sdk)
  /\ EntryFor(doc, ThisPlatform) # NoValue

============================================================================
