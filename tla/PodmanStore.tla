---------------------------- MODULE PodmanStore ----------------------------
(***************************************************************************)
(* What the podman plugin prunes, and the keep rule: Cleanup and the       *)
(* clean* methods of plugins/podman.go with plugins/podman_keep.go.        *)
(*                                                                         *)
(* A cycle is the list of prunes its level asks for, in the code's order.  *)
(* A plain prune is one podman command; where labels or pins are protected *)
(* the plugin lists, then removes one by one, and containers are created,  *)
(* started, stopped and removed by others in between.  Podman refuses to   *)
(* remove what a container uses.  Networks are volumes that go by a plain  *)
(* prune with label filters; BuildKit's cache and fstrim touch none of     *)
(* this and are left out, and every image and container is old enough.     *)
(***************************************************************************)
EXTENDS Integers, Sequences, FiniteSets

CONSTANTS
  Containers, Volumes, Networks, Images,
  NeedsOf,      \* the resources each container uses
  Labelled,     \* resources that carry a protected label
  Tagged,       \* images with a name: the others are dangling
  Pinned,       \* images named in protected_images
  KeepConfigs   \* configurations: labels, refs, file, systemPrune

VARIABLES
  keepCfg,      \* the configuration
  podStore,        \* resources and containers that exist
  running,      \* containers that run
  pinFile,      \* protected_images_file: readable, unreadable, or a pin is inspected in vain
  todo,         \* prunes left in the cycle
  keepRule,     \* what loadPodmanKeep returned for the running pass
  listed,       \* what the current pass listed
  dropped       \* history: containers this cycle has removed

storeVars == <<keepCfg, podStore, running, pinFile, todo, keepRule, listed, dropped>>

Resources == Volumes \cup Networks \cup Images

ASSUME StoreAssumption ==
  /\ Containers \cap Resources = {} /\ Images \cap (Volumes \cup Networks) = {}
  /\ Volumes \cap Networks = {} /\ Pinned \subseteq Images /\ Tagged \subseteq Images
  /\ NeedsOf \in [Containers -> SUBSET Resources]
  /\ KeepConfigs \subseteq [labels: BOOLEAN, refs: BOOLEAN, file: BOOLEAN, systemPrune: BOOLEAN]

UsedBy(cs) == UNION {NeedsOf[c] : c \in cs}
InUse == UsedBy(Containers \cap podStore)
NoKeep == [labels |-> FALSE, pins |-> {}, unreadable |-> FALSE, active |-> FALSE]

StoreInit ==
  /\ keepCfg \in KeepConfigs
  /\ podStore \in {Resources \cup cs : cs \in SUBSET Containers}
  /\ running \in SUBSET (podStore \cap Containers)
  /\ pinFile = "readable" /\ todo = <<>> /\ keepRule = NoKeep /\ listed = {} /\ dropped = {}
-----------------------------------------------------------------------------
(* Others. *)

\* A container is created from an image that is there; a missing volume or network
\* is made for it.
CreateContainer(c) ==
  /\ c \in Containers \ podStore /\ (NeedsOf[c] \cap Images) \subseteq podStore
  /\ podStore' = podStore \cup {c} \cup NeedsOf[c]
  /\ UNCHANGED <<keepCfg, running, pinFile, todo, keepRule, listed, dropped>>

StartOrStop(c) ==
  /\ c \in Containers \cap podStore
  /\ running' = IF c \in running THEN running \ {c} ELSE running \cup {c}
  /\ UNCHANGED <<keepCfg, podStore, pinFile, todo, keepRule, listed, dropped>>

RemoveContainer(c) ==
  /\ c \in (Containers \cap podStore) \ running
  /\ podStore' = podStore \ {c}
  /\ UNCHANGED <<keepCfg, running, pinFile, todo, keepRule, listed, dropped>>

PinFileChanges(s) ==
  /\ keepCfg.file \/ (keepCfg.refs /\ s # "unreadable")
  /\ pinFile' = s
  /\ UNCHANGED <<keepCfg, podStore, running, todo, keepRule, listed, dropped>>
-----------------------------------------------------------------------------
(* The keep rule. *)

\* loadPodmanKeep: the file is read again for every pass that asks.
LoadKeep ==
  [labels |-> keepCfg.labels,
   pins |-> IF keepCfg.refs \/ (keepCfg.file /\ pinFile # "unreadable") THEN Pinned ELSE {},
   unreadable |-> keepCfg.file /\ pinFile = "unreadable",
   active |-> keepCfg.labels \/ keepCfg.refs \/ keepCfg.file]

\* protectsLabels, and the filters of labelFilterArgs.
ProtectsLabels(x) == keepRule.labels /\ x \in Labelled

Moderate == <<"keep", "dangling", "images", "containers">>

\* cleanAggressive: volumes and networks before stopped containers.
Aggressive == <<"keep", "volumes", "networks">> \o Moderate

\* cleanCritical: a broad prune only when it is asked for and no keep rule is on.
Critical ==
  IF ~ keepCfg.systemPrune THEN <<>>
  ELSE IF LoadKeep.active THEN Aggressive ELSE <<"system">>

PassOf(level) ==
  CASE level = 1 -> <<"keep", "dangling">> [] level = 2 -> Moderate
    [] level = 3 -> Aggressive [] level = 4 -> Critical

BeginCycle(level) ==
  /\ todo = <<>>
  /\ todo' = PassOf(level) /\ listed' = {} /\ dropped' = {} /\ keepRule' = NoKeep
  /\ UNCHANGED <<keepCfg, podStore, running, pinFile>>

Doing(what) == todo # <<>> /\ Head(todo) = what
NextPass == todo' = Tail(todo) /\ listed' = {}

ReadKeep ==
  /\ Doing("keep") /\ NextPass /\ keepRule' = LoadKeep
  /\ UNCHANGED <<keepCfg, podStore, running, pinFile, dropped>>
-----------------------------------------------------------------------------
(* The prunes.  A failed command leaves everything and the cycle goes on. *)

PruneFails ==
  /\ todo # <<>> /\ Head(todo) # "keep" /\ NextPass
  /\ UNCHANGED <<keepCfg, podStore, running, pinFile, keepRule, dropped>>

\* podman image prune -f, podman network prune -f: label filters exclude.
PlainPrune(what, kind) ==
  /\ Doing(what) /\ NextPass
  /\ podStore' = podStore \ {x \in kind : x \notin InUse /\ ~ ProtectsLabels(x)}
  /\ UNCHANGED <<keepCfg, running, pinFile, keepRule, dropped>>

PruneDangling == PlainPrune("dangling", Images \ Tagged)
PruneNetworks == PlainPrune("networks", Networks)

\* Without labels to protect, one prune for the volumes and one for the containers.
PruneVolumes == ~ keepRule.labels /\ PlainPrune("volumes", Volumes)

\* Without a keep rule, one prune by age for all images.
PruneImages == ~ keepRule.active /\ PlainPrune("images", Images)

PruneContainers ==
  /\ ~ keepRule.labels /\ Doing("containers") /\ NextPass
  /\ podStore' = podStore \ (Containers \ running)
  /\ dropped' = dropped \cup ((Containers \cap podStore) \ running)
  /\ UNCHANGED <<keepCfg, running, pinFile, keepRule>>

\* Mutant: a pin that cannot be resolved is left out and the prune goes on.
PinsResolved_Skipped == ~ keepRule.unreadable

\* resolveProtectedImageIDs and the check of the file: the age prune stops unless
\* every pin could be looked up.
PinsResolved == ~ keepRule.unreadable /\ pinFile # "unresolved"
ResolvedPins == IF pinFile = "unresolved" THEN {} ELSE keepRule.pins

\* removeUnusedVolumes, removeStoppedContainers and pruneOldImagesProtected list...
ListCandidates ==
  /\ listed = {}
  /\ \/ /\ Doing("volumes") /\ keepRule.labels
        /\ listed' = {v \in Volumes \cap podStore : v \notin InUse /\ ~ ProtectsLabels(v)}
     \/ /\ Doing("containers") /\ keepRule.labels
        /\ listed' = {c \in (Containers \cap podStore) \ running : ~ ProtectsLabels(c)}
     \/ /\ Doing("images") /\ keepRule.active /\ PinsResolved
        /\ listed' = {i \in Images \cap podStore :
                        i \notin InUse \cup ResolvedPins /\ ~ ProtectsLabels(i)}
  /\ listed' # {}
  /\ UNCHANGED <<keepCfg, podStore, running, pinFile, todo, keepRule, dropped>>

\* ...and remove one by one, without --force: what is used or runs by now is refused.
RemoveListed(x, ok) ==
  /\ x \in listed
  /\ LET gone == ok /\ x \in podStore \ (InUse \cup running)
     IN  /\ podStore' = IF gone THEN podStore \ {x} ELSE podStore
         /\ dropped' = IF gone THEN dropped \cup ({x} \cap Containers) ELSE dropped
  /\ listed' = listed \ {x}
  /\ todo' = IF listed' = {} THEN Tail(todo) ELSE todo
  /\ UNCHANGED <<keepCfg, running, pinFile, keepRule>>

\* podman system prune -af --volumes: stopped containers and then what they used.
SystemPrune ==
  /\ Doing("system") /\ NextPass
  /\ podStore' = (podStore \cap running) \cup (UsedBy(running) \cap podStore)
  /\ dropped' = dropped \cup ((Containers \cap podStore) \ running)
  /\ UNCHANGED <<keepCfg, running, pinFile, keepRule>>

StoreNext ==
  \/ \E c \in Containers : CreateContainer(c) \/ StartOrStop(c) \/ RemoveContainer(c)
  \/ \E s \in {"readable", "unreadable", "unresolved"} : PinFileChanges(s)
  \/ \E level \in 1 .. 4 : BeginCycle(level)
  \/ ReadKeep
  \/ PruneFails
  \/ PruneDangling \/ PruneNetworks \/ PruneVolumes \/ PruneImages \/ PruneContainers
  \/ ListCandidates
  \/ \E x \in Resources \cup Containers, ok \in BOOLEAN : RemoveListed(x, ok)
  \/ SystemPrune

StoreSpec == StoreInit /\ [][StoreNext]_storeVars
-----------------------------------------------------------------------------
(* Properties. *)

Removed(x) == x \in podStore /\ x \notin podStore'

\* "Three things are never pruned" (docs/plugins.md), first part: what a container
\* used goes neither while the container exists nor in the cycle that removed the
\* container.  Only the broad prune, which an operator asks for and which any keep
\* setting replaces, may do that.
UsedIsKept ==
  [][\A x \in Resources : (Removed(x) /\ todo # <<>> /\ Head(todo) # "system")
        => x \notin UsedBy((Containers \cap podStore) \cup dropped)]_storeVars

\* Second and third part, while the rule is set: nothing with a protected label and
\* no pinned image that has a name is pruned, at any level, while pins change, cannot
\* be read or cannot be resolved.
ProtectedIsKept ==
  [][\A x \in Resources \cup Containers : (Removed(x) /\ (x \in Containers => x \in dropped')) =>
       /\ keepCfg.labels => x \notin Labelled
       /\ (keepCfg.refs \/ keepCfg.file) => x \notin Pinned \cap Tagged]_storeVars

\* The three things that are never pruned.
StoreKept == UsedIsKept /\ ProtectedIsKept
=============================================================================
