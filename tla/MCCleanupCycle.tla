-------------------------- MODULE MCCleanupCycle --------------------------
(***************************************************************************)
(* Small instances of CleanupCycle: the constants of its configurations.   *)
(***************************************************************************)
EXTENDS CleanupCycle

OnePlugin == {"cache"}
OnePluginOrder == <<"cache">>

TwoPlugins == {"cache", "docker"}
TwoPluginOrder == <<"docker", "cache">>

\* nix runs outside the level ladder, and before the ladder plugins here.
WithNix == {"cache", "nix"}
WithNixOrder == <<"nix", "cache">>

OnePath == {"root"}
OneMount == <<"root">>

TwoPaths == {"root", "srv"}
TwoMounts == <<"root", "srv">>

\* The thresholds of config/default.yaml, on both ladders of every path.
DefaultLadder == [warning |-> 80, moderate |-> 85, aggressive |-> 90, critical |-> 95]
DefaultMonitors == [m \in Paths |-> [bytes |-> DefaultLadder, inode |-> DefaultLadder, floor |-> 0]]

\* A negative byte_no_progress_limit disables byte backoff.
Disabled == -1

NoInodes == [m \in Paths |-> 0]
FixedInodes == [m \in Paths |-> 100]
NotDynamic == [m \in Paths |-> FALSE]
DefaultTarget == [m \in Paths |-> 70]
=============================================================================
