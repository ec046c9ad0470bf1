------------------------------ MODULE MCPodman ------------------------------
(***************************************************************************)
(* The Podman plugin for TLC: its prunes and its disk compaction touch no  *)
(* common state, so a behaviour is one of the first or of the second.      *)
(***************************************************************************)
EXTENDS PodmanDisk, PodmanStore, TLC

VARIABLE part

podmanVars == <<diskVars, storeVars, part>>

\* The preflight refuses a cross-device compaction without a backup.
AllSetups == {s \in Setup : s.cross => s.keep}

NeedsC == "c1" :> {"v1", "n1", "i1"} @@ "c2" :> {"v2", "i2"}

SomeKeeps ==
  LET none == [labels |-> FALSE, refs |-> FALSE, file |-> FALSE, systemPrune |-> TRUE]
  IN  {none, [none EXCEPT !.labels = TRUE], [none EXCEPT !.refs = TRUE],
       [none EXCEPT !.file = TRUE], [none EXCEPT !.systemPrune = FALSE, !.labels = TRUE, !.file = TRUE]}

PodmanInit ==
  /\ part \in {"disk", "store"}
  /\ DiskInit /\ StoreInit
  /\ part = "disk" => keepCfg.labels /\ keepCfg.file /\ running = {} /\ podStore = Resources
  /\ part = "store" => ~ (setup.cross \/ setup.keep \/ setup.qcow2 \/ setup.needIdle)

PodmanNext ==
  \/ part = "disk" /\ DiskNext /\ UNCHANGED <<storeVars, part>>
  \/ part = "store" /\ StoreNext /\ UNCHANGED <<diskVars, part>>

PodmanSpec == PodmanInit /\ [][PodmanNext]_podmanVars
=============================================================================
