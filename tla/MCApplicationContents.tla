------------------------- MODULE MCApplicationContents -------------------------
(***************************************************************************)
(* Instance for TLC: a base application of two backend modules, one of     *)
(* which is developed, and a user interface module, and two local modules, *)
(* one built by Maven and one by Gradle.                                   *)
(***************************************************************************)
EXTENDS ApplicationContents

CONSTANTS orders, users, ui, private, another

MCBase == {orders, users, ui}
MCPrivate == {private, another}
MCTool == [n \in {orders, users, ui, private, another} |->
             IF n = another THEN "gradle" ELSE "maven"]
MCPublished == MCBase \X {1}
MCFrontend == {ui}

Line(c, n, ns, v, fs) == [cmd |-> c, m |-> n, ns |-> ns, ver |-> v, flags |-> fs]

AllCommands ==
    {Line("upgradeModule", orders, "local", 0, {"cleanup"}),
     Line("upgradeModule", users, "folio", 1, {}),
     Line("upgradeModule", private, "local", 0, {}),
     Line("upgradeModule", private, "local", 0, {"deployment"}),
     Line("runLocalModule", private, "local", 0, {}),
     Line("runLocalModule", private, "local", 0,
          {"deployment", "application", "discovery", "entitlement"}),
     Line("runLocalModule", another, "local", 0, {"cleanup"}),
     Line("runLocalModule", orders, "local", 2, {}),
     Line("undeployApplication", private, "local", 0, {}),
     Line("updateModuleDiscovery", private, "local", 0, {})}

=============================================================================
