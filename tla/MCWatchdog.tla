---------------------------- MODULE MCWatchdog ----------------------------
(***************************************************************************)
(* Small instances of Watchdog: the constants of its configurations.       *)
(***************************************************************************)
EXTENDS Watchdog

TwoPlugins == <<"docker", "cache">>
OnePlugin == <<"docker">>
=============================================================================
