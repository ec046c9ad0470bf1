------------------------------ MODULE MCPlugins ------------------------------
(***************************************************************************)
(* The other plugins, profile-prune and the log throttle for TLC.  No two  *)
(* share a variable: a behaviour of the run is one of one of them, while   *)
(* the others stay in one initial state.                                   *)
(***************************************************************************)
EXTENDS MCPodman, MCRetention, MCArchive, MCWalks, Transcripts, DevLanes,
        ProfilePrune, LogThrottle

VARIABLE plugin

pluginsVars == <<podmanVars, rvars, avars, wvars, tvars, dvars,
                 pvars, throttleVars, plugin>>

PluginsInit ==
  /\ plugin \in {"podman", "retention", "archive", "walks", "transcript", "lanes",
                "prune", "log"}
  /\ PodmanInit
  /\ plugin = "podman" \/ (part = "store" /\ keepCfg.labels /\ keepCfg.file /\ running = {} /\ podStore = Resources)
  /\ RInit /\ TInit /\ ThrottleInit
  /\ AInit
  /\ plugin = "archive" \/ \A g \in AGroups, f \in AFiles : staged[g][f] = 0 /\ archived[g][f].form = "none"
  /\ WInit /\ watched.family = NFamilies
  /\ plugin = "walks" \/ (watched.waiter = 1 /\ watched.other = 2)
  /\ DInit
  /\ plugin = "lanes" \/ dtree = [lane |-> "shm", here |-> TRUE, content |-> "old", top |-> FALSE,
                                  use |-> "none", git |-> "none", receipt |-> "none"]
  /\ PInit /\ (plugin = "prune" \/ currentHome = "a")

PluginsNext ==
  \/ plugin = "podman" /\ PodmanNext
     /\ UNCHANGED <<rvars, avars, wvars, tvars, dvars, pvars, throttleVars, plugin>>
  \/ plugin = "retention" /\ RNext
     /\ UNCHANGED <<podmanVars, avars, wvars, tvars, dvars, pvars, throttleVars, plugin>>
  \/ plugin = "archive" /\ ANext
     /\ UNCHANGED <<podmanVars, rvars, wvars, tvars, dvars, pvars, throttleVars, plugin>>
  \/ plugin = "walks" /\ WNext
     /\ UNCHANGED <<podmanVars, rvars, avars, tvars, dvars, pvars, throttleVars, plugin>>
  \/ plugin = "transcript" /\ TNext
     /\ UNCHANGED <<podmanVars, rvars, avars, wvars, dvars, pvars, throttleVars, plugin>>
  \/ plugin = "lanes" /\ DNext
     /\ UNCHANGED <<podmanVars, rvars, avars, wvars, tvars, pvars, throttleVars, plugin>>
  \/ plugin = "prune" /\ PNext
     /\ UNCHANGED <<podmanVars, rvars, avars, wvars, tvars, dvars, throttleVars, plugin>>
  \/ plugin = "log" /\ ThrottleNext
     /\ UNCHANGED <<podmanVars, rvars, avars, wvars, tvars, dvars, pvars, plugin>>

PluginsSpec == PluginsInit /\ [][PluginsNext]_pluginsVars
=============================================================================
