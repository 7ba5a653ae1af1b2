---------------------------- MODULE MCPluginLoader ----------------------------
(* Small instances of the plugin loader. *)
EXTENDS PluginLoader

V(a, b, c) == [major |-> a, minor |-> b, patch |-> c]
MCHostSdk == V(1, 1, 0)
MCPluginVersion == V(1, 2, 3)
MCPolicy == [requireSameMajor |-> TRUE, requireHostMinorGreaterEqual |-> TRUE]

Doc(sdk, minHost, here, there) ==
  [id |-> "id", named |-> TRUE, versioned |-> TRUE, sdk |-> sdk, minHost |-> minHost,
   entry |-> [p \in Platform |-> IF p = ThisPlatform THEN here ELSE there]]

(* A good plugin, ones for another platform and without a name, and ones    *)
(* that need an older or a newer host or a newer SDK.                       *)
Good == Doc(V(1, 1, 5), NoValue, "lib", NoValue)
MCDocuments ==
  {Good, Doc(V(1, 1, 5), NoValue, NoValue, "lib"), [Good EXCEPT !.named = FALSE],
   [Good EXCEPT !.minHost = V(1, 1, 9)], [Good EXCEPT !.minHost = V(1, 3, 0)],
   [Good EXCEPT !.sdk = V(1, 2, 0)], [Good EXCEPT !.minHost = Unparsable]}

============================================================================
