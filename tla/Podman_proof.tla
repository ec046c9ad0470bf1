---------------------------- MODULE Podman_proof ----------------------------
(***************************************************************************)
(* The podman plugin, for any containers, volumes, networks and images and *)
(* for every setup of the machine: what its prunes leave alone, and that   *)
(* compacting the machine's disk neither loses its data nor brings older   *)
(* data back.                                                              *)
(***************************************************************************)
EXTENDS PodmanStore, PodmanDisk, SequenceTheorems, TLAPS
-----------------------------------------------------------------------------
(* The prunes and the keep rule (PodmanStore). *)

Keep == [labels: BOOLEAN, pins: SUBSET Images, unreadable: BOOLEAN, active: BOOLEAN]

\* What may be left of a cycle.
Rest == {<<>>, <<"containers">>, <<"images", "containers">>, <<"dangling", "images", "containers">>,
         <<"dangling">>, <<"system">>}
Begun == {<<"keep", "dangling">>, <<"keep", "dangling", "images", "containers">>}
Volatile == {<<"volumes", "networks", "keep", "dangling", "images", "containers">>,
             <<"networks", "keep", "dangling", "images", "containers">>}
Cycles == Rest \cup Begun \cup Volatile \cup
          {<<"keep", "volumes", "networks", "keep", "dangling", "images", "containers">>}

StoreTypeOK ==
  /\ keepCfg \in KeepConfigs /\ podStore \subseteq Resources \cup Containers /\ running \subseteq Containers
  /\ pinFile \in {"readable", "unreadable", "unresolved"} /\ todo \in Cycles /\ keepRule \in Keep
  /\ listed \subseteq Resources \cup Containers /\ dropped \subseteq Containers

\* A prune runs under the rule the configuration asks for: labels are known, and every pin
\* is or the file could not be read.
RuleInv ==
  /\ todo # <<>> /\ Head(todo) \notin {"keep", "system"} =>
       /\ keepRule.labels <=> keepCfg.labels
       /\ keepRule.active <=> keepCfg.labels \/ keepCfg.refs \/ keepCfg.file
       /\ keepCfg.refs \/ keepCfg.file => keepRule.pins = Pinned \/ keepRule.unreadable
  /\ todo # <<>> /\ Head(todo) = "system" => ~ (keepCfg.labels \/ keepCfg.refs \/ keepCfg.file)

\* What was listed is of the kind at hand, and may go.
ListedInv ==
  listed # {} =>
    /\ todo # <<>> /\ Head(todo) \in {"volumes", "containers", "images"}
    /\ Head(todo) = "volumes" => listed \subseteq Volumes
    /\ Head(todo) = "containers" => listed \subseteq Containers
    /\ Head(todo) = "images" => listed \subseteq Images
    /\ keepCfg.labels => listed \cap Labelled = {}
    /\ keepCfg.refs \/ keepCfg.file => listed \cap Pinned = {}

\* Containers go last, and none with a protected label.
DroppedInv ==
  /\ dropped # {} => todo \in {<<>>, <<"containers">>}
  /\ keepCfg.labels => dropped \cap Labelled = {}

StoreInv == StoreTypeOK /\ RuleInv /\ ListedInv /\ DroppedInv

\* The first of what is left, and the rest of it.
LEMMA CycleShape ==
  ASSUME NEW t \in Cycles, t # <<>>
  PROVE  /\ Head(t) \in {"keep", "system", "dangling", "images", "containers", "volumes", "networks"}
         /\ Tail(t) \in Cycles
         /\ Head(t) \notin {"keep", "networks"} /\ Tail(t) # <<>> => Head(Tail(t)) \notin {"keep", "system"}
         /\ Head(t) = "networks" => Tail(t) # <<>> /\ Head(Tail(t)) = "keep"
         /\ Head(t) = "keep" /\ Tail(t) # <<>> => Head(Tail(t)) # "system"
         /\ Head(t) \in {"containers", "system"} => Tail(t) = <<>>
         /\ Head(t) = "containers" => t = <<"containers">>
         /\ Head(t) = "system" => t = <<"system">>
<1>1. CASE t = <<"containers">>
  BY <1>1 DEF Cycles, Rest
<1>2. CASE t = <<"images", "containers">>
  BY <1>2 DEF Cycles, Rest
<1>3. CASE t = <<"dangling", "images", "containers">>
  BY <1>3 DEF Cycles, Rest
<1>4. CASE t = <<"dangling">>
  BY <1>4 DEF Cycles, Rest
<1>5. CASE t = <<"system">>
  BY <1>5 DEF Cycles, Rest
<1>6. CASE t = <<"keep", "dangling">>
  BY <1>6 DEF Cycles, Rest
<1>7. CASE t = <<"keep", "dangling", "images", "containers">>
  BY <1>7 DEF Cycles, Rest
<1>8. CASE t = <<"volumes", "networks", "keep", "dangling", "images", "containers">>
  BY <1>8 DEF Cycles, Volatile
<1>9. CASE t = <<"networks", "keep", "dangling", "images", "containers">>
  BY <1>9 DEF Cycles, Begun
<1>10. CASE t = <<"keep", "volumes", "networks", "keep", "dangling", "images", "containers">>
  BY <1>10 DEF Cycles, Volatile
<1>. QED  BY <1>1, <1>2, <1>3, <1>4, <1>5, <1>6, <1>7, <1>8, <1>9, <1>10 DEF Cycles, Rest, Begun, Volatile

LEMMA KeepTypes ==
  /\ NoKeep \in Keep
  /\ keepCfg \in KeepConfigs =>
       /\ LoadKeep \in Keep
       /\ LoadKeep.labels <=> keepCfg.labels
       /\ LoadKeep.active <=> keepCfg.labels \/ keepCfg.refs \/ keepCfg.file
       /\ (keepCfg.refs \/ keepCfg.file) => (LoadKeep.pins = Pinned \/ LoadKeep.unreadable)
<1>1. NoKeep \in Keep
  BY DEF NoKeep, Keep
<1>2. ASSUME keepCfg \in KeepConfigs
      PROVE  /\ LoadKeep \in Keep
             /\ LoadKeep.labels <=> keepCfg.labels
             /\ LoadKeep.active <=> keepCfg.labels \/ keepCfg.refs \/ keepCfg.file
             /\ (keepCfg.refs \/ keepCfg.file) => (LoadKeep.pins = Pinned \/ LoadKeep.unreadable)
  <2> DEFINE pins == IF keepCfg.refs \/ (keepCfg.file /\ pinFile # "unreadable") THEN Pinned ELSE {}
             unreadable == keepCfg.file /\ pinFile = "unreadable"
             active == keepCfg.labels \/ keepCfg.refs \/ keepCfg.file
  <2>1. LoadKeep = [labels |-> keepCfg.labels, pins |-> pins, unreadable |-> unreadable, active |-> active]
    BY DEF LoadKeep
  <2>2. keepCfg.labels \in BOOLEAN /\ pins \in SUBSET Images /\ unreadable \in BOOLEAN /\ active \in BOOLEAN
    BY <1>2, StoreAssumption
  <2>3. (keepCfg.refs \/ keepCfg.file) => (pins = Pinned \/ unreadable)
    OBVIOUS
  <2>4. active <=> keepCfg.labels \/ keepCfg.refs \/ keepCfg.file
    OBVIOUS
  <2> HIDE DEF pins, unreadable, active
  <2>. QED  BY <2>1, <2>2, <2>3, <2>4 DEF Keep
<1>. QED  BY <1>1, <1>2

LEMMA StoreInvInit == StoreInit => StoreInv
<1> SUFFICES ASSUME StoreInit PROVE StoreInv
  OBVIOUS
<1>1. podStore \subseteq Resources \cup Containers /\ running \subseteq Containers
  BY DEF StoreInit
<1>2. StoreTypeOK
  BY <1>1, KeepTypes DEF StoreInit, StoreTypeOK, Cycles, Rest
<1>. QED  BY <1>2 DEF StoreInit, StoreInv, RuleInv, ListedInv, DroppedInv

\* What others do is no business of the plugin's own state.
LEMMA OthersInv ==
  ASSUME StoreInv, UNCHANGED <<keepCfg, todo, keepRule, listed, dropped>>,
         podStore' \subseteq Resources \cup Containers, running' \subseteq Containers,
         pinFile' \in {"readable", "unreadable", "unresolved"}
  PROVE  StoreInv'
  BY DEF StoreInv, StoreTypeOK, RuleInv, ListedInv, DroppedInv

LEMMA AggressiveIs ==
  Aggressive = <<"keep", "volumes", "networks", "keep", "dangling", "images", "containers">>
<1> DEFINE a == <<"keep", "volumes", "networks">>
           b == <<"keep", "dangling", "images", "containers">>
           c == <<"keep", "volumes", "networks", "keep", "dangling", "images", "containers">>
           Passes == {"keep", "volumes", "networks", "dangling", "images", "containers"}
<1>1. a \in Seq(Passes) /\ b \in Seq(Passes) /\ c \in Seq(Passes) /\ Len(a) = 3 /\ Len(b) = 4 /\ Len(c) = 7
  <2>1. a \in Seq(Passes) /\ Len(a) = 3
    OBVIOUS
  <2>2. b \in Seq(Passes) /\ Len(b) = 4
    OBVIOUS
  <2>3. c \in Seq(Passes) /\ Len(c) = 7
    OBVIOUS
  <2>. QED  BY <2>1, <2>2, <2>3
<1>2. a \o b \in Seq(Passes) /\ Len(a \o b) = 7
  BY <1>1
<1>3. \A i \in 1 .. 7 : (a \o b)[i] = IF i <= 3 THEN a[i] ELSE b[i - 3]
  BY <1>1
<1>4. \A i \in 1 .. 7 : (a \o b)[i] = c[i]
  BY <1>3
<1>. QED  BY <1>1, <1>2, <1>4, SeqEqual DEF Aggressive, Moderate

LEMMA BeginCycleInv == ASSUME StoreInv, NEW level \in 1 .. 4, BeginCycle(level) PROVE StoreInv'
<1>1. /\ todo' = PassOf(level) /\ listed' = {} /\ dropped' = {} /\ keepRule' = NoKeep
      /\ UNCHANGED <<keepCfg, podStore, running, pinFile>>
  BY DEF BeginCycle
<1>2. \/ todo' \in {<<"keep", "dangling">>, <<"keep", "dangling", "images", "containers">>, <<>>,
                     <<"keep", "volumes", "networks", "keep", "dangling", "images", "containers">>}
      \/ todo' = <<"system">> /\ ~ LoadKeep.active
  BY <1>1, AggressiveIs DEF PassOf, Moderate, Critical
<1>3. todo' \in Cycles /\ (todo' # <<>> => Head(todo') \in {"keep", "system"})
  BY <1>2 DEF Cycles, Rest, Begun
<1>4. todo' # <<>> /\ Head(todo') = "system" => ~ LoadKeep.active
  BY <1>2
<1>5. RuleInv'
  BY <1>1, <1>3, <1>4, KeepTypes DEF RuleInv, StoreInv, StoreTypeOK
<1>. QED  BY <1>1, <1>3, <1>5, KeepTypes DEF StoreInv, StoreTypeOK, ListedInv, DroppedInv

LEMMA ReadKeepInv == ASSUME StoreInv, ReadKeep PROVE StoreInv'
<1>1. /\ todo # <<>> /\ Head(todo) = "keep" /\ todo' = Tail(todo) /\ listed' = {} /\ keepRule' = LoadKeep
      /\ UNCHANGED <<keepCfg, podStore, running, pinFile, dropped>>
  BY DEF ReadKeep, Doing, NextPass
<1>2. todo' \in Cycles /\ (todo' # <<>> => Head(todo') # "system") /\ dropped = {}
  BY <1>1, CycleShape DEF StoreInv, StoreTypeOK, DroppedInv
<1>3. RuleInv'
  BY <1>1, <1>2, KeepTypes DEF RuleInv, StoreInv, StoreTypeOK
<1>. QED  BY <1>1, <1>2, <1>3, KeepTypes DEF StoreInv, StoreTypeOK, ListedInv, DroppedInv

\* The next prune runs under the same rule.
LEMMA NextPassRule ==
  ASSUME StoreInv, todo # <<>>, Head(todo) # "keep", todo' = Tail(todo), UNCHANGED <<keepCfg, keepRule>>
  PROVE  /\ todo' \in Cycles /\ RuleInv' /\ (dropped # {} => todo' = <<>>)
         /\ Head(todo) \in {"containers", "system"} => todo' = <<>>
<1>1. todo \in Cycles
  BY DEF StoreInv, StoreTypeOK
<1>2. dropped # {} => Head(todo) = "containers"
  BY DEF StoreInv, DroppedInv
<1>. QED  BY <1>1, <1>2, CycleShape DEF StoreInv, RuleInv

\* A prune, or one that failed, ends its pass.
LEMMA PruneInv ==
  ASSUME StoreInv, todo # <<>>, Head(todo) # "keep", NextPass, podStore' \subseteq podStore,
         UNCHANGED <<keepCfg, running, pinFile, keepRule>>,
         \/ dropped' = dropped
         \/ /\ dropped' \subseteq Containers /\ Head(todo) \in {"containers", "system"}
            /\ ~ keepCfg.labels
  PROVE  StoreInv'
<1>1. todo' = Tail(todo) /\ listed' = {}
  BY DEF NextPass
<1>2. DroppedInv'
  BY <1>1, NextPassRule DEF StoreInv, DroppedInv
<1>. QED  BY <1>1, <1>2, NextPassRule DEF StoreInv, StoreTypeOK, ListedInv

\* The rule at hand while a prune runs.
LEMMA RuleAtHand ==
  ASSUME StoreInv, todo # <<>>
  PROVE  /\ Head(todo) \notin {"keep", "system"} =>
              /\ keepRule.labels <=> keepCfg.labels
              /\ keepRule.active <=> keepCfg.labels \/ keepCfg.refs \/ keepCfg.file
              /\ keepCfg.refs \/ keepCfg.file => keepRule.pins = Pinned \/ keepRule.unreadable
         /\ Head(todo) = "system" => ~ keepCfg.labels /\ ~ keepCfg.refs /\ ~ keepCfg.file
         /\ Head(todo) \notin {"containers"} => dropped = {}
  BY DEF StoreInv, RuleInv, DroppedInv

\* A list has what is unused, unlabelled and not pinned.
LEMMA ListInv == ASSUME StoreInv, ListCandidates PROVE StoreInv'
<1>1. /\ UNCHANGED <<keepCfg, podStore, running, pinFile, todo, keepRule, dropped>>
      /\ todo # <<>> /\ Head(todo) \in {"volumes", "containers", "images"}
  BY DEF ListCandidates, Doing
<1>2. /\ Head(todo) = "volumes" => listed' \subseteq Volumes
      /\ Head(todo) = "containers" => listed' \subseteq Containers
      /\ Head(todo) = "images" => listed' \subseteq Images
  BY DEF ListCandidates, Doing
<1>3. \A x \in listed' : ~ ProtectsLabels(x)
  BY DEF ListCandidates
<1>4. keepCfg.labels => listed' \cap Labelled = {}
  BY <1>1, <1>3, RuleAtHand DEF ProtectsLabels
<1>5. Head(todo) = "images" /\ (keepCfg.refs \/ keepCfg.file) => listed' \cap Pinned = {}
  <2> SUFFICES ASSUME Head(todo) = "images", keepCfg.refs \/ keepCfg.file PROVE listed' \cap Pinned = {}
    OBVIOUS
  <2>1. PinsResolved /\ listed' \cap ResolvedPins = {}
    BY DEF ListCandidates, Doing
  <2>2. ResolvedPins = Pinned
    BY <1>1, <2>1, RuleAtHand DEF PinsResolved, ResolvedPins
  <2>. QED  BY <2>1, <2>2
<1>6. Head(todo) # "images" => listed' \cap Pinned = {}
  BY <1>1, <1>2, StoreAssumption DEF Resources
<1>7. listed' \subseteq Resources \cup Containers
  BY <1>1, <1>2 DEF Resources
<1>8. ListedInv'
  BY <1>1, <1>2, <1>4, <1>5, <1>6 DEF ListedInv
<1>. QED  BY <1>1, <1>7, <1>8 DEF StoreInv, StoreTypeOK, RuleInv, DroppedInv

\* One of the list goes, or is refused.
LEMMA RemoveListedInv ==
  ASSUME StoreInv, NEW x \in Resources \cup Containers, NEW ok \in BOOLEAN, RemoveListed(x, ok)
  PROVE  StoreInv'
<1>1. /\ x \in listed /\ listed' = listed \ {x} /\ UNCHANGED <<keepCfg, running, pinFile, keepRule>>
      /\ todo' = IF listed' = {} THEN Tail(todo) ELSE todo
      /\ podStore' \subseteq podStore /\ dropped \subseteq dropped' /\ dropped' \subseteq dropped \cup ({x} \cap Containers)
  BY DEF RemoveListed
<1>2. /\ todo # <<>> /\ Head(todo) \in {"volumes", "containers", "images"}
      /\ x \in Containers => Head(todo) = "containers"
      /\ keepCfg.labels => x \notin Labelled
  <2>1. listed # {}
    BY <1>1
  <2>2. Volumes \cap Containers = {} /\ Images \cap Containers = {}
    BY StoreAssumption DEF Resources
  <2>. QED  BY <1>1, <2>1, <2>2 DEF StoreInv, ListedInv
<1>3. todo \in Cycles /\ (Head(todo) = "containers" => todo = <<"containers">>)
  BY <1>2, CycleShape DEF StoreInv, StoreTypeOK
<1>4. todo' \in Cycles /\ RuleInv'
  <2>1. CASE listed' = {}
    BY <1>1, <1>2, <2>1, NextPassRule
  <2>2. CASE listed' # {}
    BY <1>1, <1>3, <2>2 DEF StoreInv, RuleInv
  <2>. QED  BY <2>1, <2>2
<1>5. dropped' # {} => todo' \in {<<>>, <<"containers">>}
  <2> SUFFICES ASSUME dropped' # {} PROVE todo' \in {<<>>, <<"containers">>}
    OBVIOUS
  <2>1. todo = <<"containers">>
    BY <1>1, <1>2, <1>3 DEF StoreInv, DroppedInv
  <2>. QED  BY <1>1, <2>1
<1>6. DroppedInv' /\ dropped' \subseteq Containers
  BY <1>1, <1>2, <1>5 DEF StoreInv, StoreTypeOK, DroppedInv
<1>7. ListedInv'
  BY <1>1 DEF StoreInv, ListedInv
<1>. QED  BY <1>1, <1>4, <1>6, <1>7 DEF StoreInv, StoreTypeOK

LEMMA StoreInvStep == StoreInv /\ [StoreNext]_storeVars => StoreInv'
<1> SUFFICES ASSUME StoreInv, [StoreNext]_storeVars PROVE StoreInv'
  OBVIOUS
<1>0. podStore \subseteq Resources \cup Containers /\ running \subseteq Containers /\ dropped \subseteq Containers
      /\ pinFile \in {"readable", "unreadable", "unresolved"}
  BY DEF StoreInv, StoreTypeOK
<1>1. ASSUME NEW c \in Containers, CreateContainer(c) \/ StartOrStop(c) \/ RemoveContainer(c) PROVE StoreInv'
  <2>1. NeedsOf[c] \subseteq Resources
    BY StoreAssumption
  <2>2. /\ UNCHANGED <<keepCfg, todo, keepRule, listed, dropped, pinFile>>
        /\ podStore' \subseteq Resources \cup Containers /\ running' \subseteq Containers
    BY <1>0, <1>1, <2>1 DEF CreateContainer, StartOrStop, RemoveContainer
  <2>. QED  BY <1>0, <2>2, OthersInv
<1>2. ASSUME NEW s \in {"readable", "unreadable", "unresolved"}, PinFileChanges(s) PROVE StoreInv'
  BY <1>0, <1>2, OthersInv DEF PinFileChanges
<1>3. CASE PruneFails
  BY <1>3, PruneInv DEF PruneFails
<1>4. ASSUME NEW what, NEW kind, what # "keep", PlainPrune(what, kind) PROVE StoreInv'
  BY <1>4, PruneInv DEF PlainPrune, Doing
<1>5. CASE PruneContainers
  BY <1>0, <1>5, PruneInv, RuleAtHand DEF PruneContainers, Doing
<1>6. CASE SystemPrune
  BY <1>0, <1>6, PruneInv, RuleAtHand DEF SystemPrune, Doing
<1>7. CASE UNCHANGED storeVars
  BY <1>0, <1>7, OthersInv DEF storeVars
<1>8. CASE PruneDangling \/ PruneNetworks \/ PruneVolumes \/ PruneImages
  BY <1>4, <1>8 DEF PruneDangling, PruneNetworks, PruneVolumes, PruneImages
<1>. QED
  BY <1>1, <1>2, <1>3, <1>5, <1>6, <1>7, <1>8, BeginCycleInv, ReadKeepInv, ListInv, RemoveListedInv DEF StoreNext

\* The inductive invariant of the prunes.
THEOREM StoreInvariant == StoreSpec => []StoreInv
  BY StoreInvInit, StoreInvStep, PTL DEF StoreSpec

\* Who removes what: others, a container; the plugin, what its prune may take.
LEMMA WhoRemoves ==
  ASSUME StoreInv, StoreNext, NEW x \in Resources \cup Containers, Removed(x)
  PROVE  \/ x \in Containers /\ dropped' = dropped
         \/ /\ x \in Resources /\ x \notin InUse /\ todo # <<>> /\ dropped = {}
            /\ keepCfg.labels => x \notin Labelled
            /\ (keepCfg.refs \/ keepCfg.file) => x \notin Pinned \cap Tagged
         \/ x \in Containers /\ (keepCfg.labels => x \notin Labelled)
         \/ todo # <<>> /\ Head(todo) = "system"
<1>1. x \in podStore /\ x \notin podStore'
  BY DEF Removed
<1>2. ASSUME NEW c \in Containers, CreateContainer(c) \/ StartOrStop(c) \/ RemoveContainer(c)
      PROVE  x \in Containers /\ dropped' = dropped
  BY <1>1, <1>2 DEF CreateContainer, StartOrStop, RemoveContainer
<1> DEFINE Spared == /\ x \in Resources /\ x \notin InUse /\ todo # <<>> /\ dropped = {}
                     /\ keepCfg.labels => x \notin Labelled
                     /\ (keepCfg.refs \/ keepCfg.file) => x \notin Pinned \cap Tagged
<1>3. ASSUME NEW what \in {"dangling", "networks", "volumes", "images"}, NEW kind, kind \subseteq Resources,
             PlainPrune(what, kind),
             keepCfg.refs \/ keepCfg.file => kind \cap (Pinned \cap Tagged) = {}
      PROVE  Spared
  <2>1. x \in kind /\ x \notin InUse /\ ~ ProtectsLabels(x) /\ todo # <<>> /\ Head(todo) = what
    BY <1>1, <1>3 DEF PlainPrune, Doing
  <2>. QED  BY <1>3, <2>1, RuleAtHand DEF ProtectsLabels
<1>4. CASE PruneDangling \/ PruneNetworks \/ PruneVolumes
  <2>1. /\ (Images \ Tagged) \cap (Pinned \cap Tagged) = {} /\ Networks \cap (Pinned \cap Tagged) = {}
        /\ Volumes \cap (Pinned \cap Tagged) = {}
        /\ Images \ Tagged \subseteq Resources /\ Networks \subseteq Resources /\ Volumes \subseteq Resources
    BY StoreAssumption DEF Resources
  <2>. QED  BY <1>3, <1>4, <2>1 DEF PruneDangling, PruneNetworks, PruneVolumes
<1>5. CASE PruneImages
  <2>1. ~ (keepCfg.refs \/ keepCfg.file)
    BY <1>5, RuleAtHand DEF PruneImages, PlainPrune, Doing
  <2>2. Images \subseteq Resources
    BY DEF Resources
  <2>. QED  BY <1>3, <1>5, <2>1, <2>2 DEF PruneImages
<1>6. CASE PruneContainers
  BY <1>1, <1>6, RuleAtHand DEF PruneContainers, Doing
<1>7. ASSUME NEW y \in Resources \cup Containers, NEW ok \in BOOLEAN, RemoveListed(y, ok)
      PROVE  Spared \/ (x \in Containers /\ (keepCfg.labels => x \notin Labelled))
  <2>1. x = y /\ x \in listed /\ x \notin InUse
    BY <1>1, <1>7 DEF RemoveListed
  <2>2. /\ todo # <<>> /\ x \in Resources \cup Containers
        /\ keepCfg.labels => x \notin Labelled
        /\ (keepCfg.refs \/ keepCfg.file) => x \notin Pinned
        /\ Head(todo) = "containers" => x \in Containers
    BY <2>1 DEF StoreInv, ListedInv
  <2>. QED  BY <2>1, <2>2, RuleAtHand
<1>8. CASE SystemPrune
  BY <1>8 DEF SystemPrune, Doing
<1>9. ~ PruneFails /\ ~ ReadKeep /\ ~ ListCandidates /\ \A level \in 1 .. 4 : ~ BeginCycle(level)
  BY <1>1 DEF PruneFails, ReadKeep, ListCandidates, BeginCycle
<1>10. \A s \in {"readable", "unreadable", "unresolved"} : ~ PinFileChanges(s)
  BY <1>1 DEF PinFileChanges
<1>. QED  BY <1>2, <1>4, <1>5, <1>6, <1>7, <1>8, <1>9, <1>10 DEF StoreNext

\* For any containers, volumes, networks and images and every keep configuration, whatever
\* others create, start, stop and remove meanwhile and however the pins change: the three
\* things that are never pruned stay.
THEOREM StoreIsKept == StoreSpec => StoreKept
<1> DEFINE Used == \A x \in Resources : (Removed(x) /\ todo # <<>> /\ Head(todo) # "system")
                     => x \notin UsedBy((Containers \cap podStore) \cup dropped)
           Protected == \A x \in Resources \cup Containers : (Removed(x) /\ (x \in Containers => x \in dropped')) =>
                          /\ keepCfg.labels => x \notin Labelled
                          /\ (keepCfg.refs \/ keepCfg.file) => x \notin Pinned \cap Tagged
<1>1. StoreInv /\ StoreNext => Used
  <2> SUFFICES ASSUME StoreInv, StoreNext, NEW x \in Resources, Removed(x), todo # <<>>, Head(todo) # "system"
               PROVE  x \notin UsedBy((Containers \cap podStore) \cup dropped)
    OBVIOUS
  <2>1. x \notin InUse /\ dropped = {}
    BY WhoRemoves, StoreAssumption
  <2>2. (Containers \cap podStore) \cup dropped = Containers \cap podStore
    BY <2>1
  <2>. QED  BY <2>1, <2>2 DEF InUse
<1>2. StoreInv /\ StoreNext => Protected
  <2> SUFFICES ASSUME StoreInv, StoreNext, NEW x \in Resources \cup Containers, Removed(x),
                      x \in Containers => x \in dropped'
               PROVE  /\ keepCfg.labels => x \notin Labelled
                      /\ (keepCfg.refs \/ keepCfg.file) => x \notin Pinned \cap Tagged
    OBVIOUS
  <2>1. x \in Containers => x \notin Pinned
    BY StoreAssumption DEF Resources
  <2>2. CASE x \in Containers /\ dropped' = dropped
    BY <2>1, <2>2 DEF StoreInv, DroppedInv
  <2>3. CASE todo # <<>> /\ Head(todo) = "system"
    BY <2>3, RuleAtHand
  <2>. QED  BY <2>1, <2>2, <2>3, WhoRemoves
<1> HIDE DEF Used, Protected
<1>3. StoreInv /\ [StoreNext]_storeVars => [Used]_storeVars /\ [Protected]_storeVars
  BY <1>1, <1>2
<1> USE DEF Used, Protected
<1>. QED  BY <1>3, StoreInvariant, PTL DEF StoreSpec, StoreKept, UsedIsKept, ProtectedIsKept
-----------------------------------------------------------------------------
(* The compaction of the machine's disk (PodmanDisk). *)

USE DEF File, Image, NoImage, Torn, Setup

DiskTypeOK ==
  /\ setup \in Setup
  /\ file \in [File -> Image]
  /\ data \in 0 .. MaxData
  /\ vm \in File \cup {"gone", "off"} /\ gaps \subseteq {"up", "backup"}
  /\ busy \in BOOLEAN /\ vmRunning \in BOOLEAN /\ cut \in BOOLEAN
  /\ step \in {"idle", "stop", "convert", "verify", "backup", "remove", "write", "check", "undo",
               "replace", "swap", "start", "restart", "rollback", "drop"}

Current(f) == file[f] = [ver |-> data, good |-> TRUE]

\* An image that boots is not an older one.
Fresh(f) == file[f].good => file[f].ver = data

\* No machine has been up in the window in which its disk is replaced.
Offline == "up" \notin gaps

\* Then the machine is up only outside of it, and on the newest data.
VmInv == Offline /\ Up => vm = "disk" /\ Current("disk") /\ step \in {"idle", "stop", "drop", "restart"}

\* And whatever a step may put in place of the disk is as new as the disk was.
FreshInv ==
  Offline =>
    /\ Fresh("disk")
    /\ step \in {"verify", "backup", "remove", "write", "replace", "swap"} => Fresh("temp")
    /\ step \in {"remove", "write", "check", "undo", "swap", "start", "rollback"} => Fresh("backup")
    /\ step \in {"stop", "convert", "verify", "backup", "replace"} => file["backup"] = NoImage

\* Which files and settings the steps come with.
StepInv ==
  /\ step \in {"backup", "remove", "write", "check", "undo", "swap", "rollback"} => setup.keep
  /\ step # "idle" /\ setup.cross => setup.keep
  /\ step \in {"backup", "remove", "write", "check", "undo"} => setup.cross
  /\ step \in {"replace", "swap"} => ~ setup.cross

\* Where the newest data is, step by step, when the setup promises to keep it.
DataInv ==
  (setup.keep \/ setup.qcow2) /\ gaps = {} =>
    /\ step \in {"idle", "restart"} => Current("disk") \/ Current("backup")
    /\ step \in {"stop", "convert", "verify", "backup", "replace", "remove", "drop"} => Current("disk")
    /\ step \in {"remove", "write", "check", "undo", "swap", "rollback"} => Current("backup")
    /\ step = "replace" /\ ~ setup.keep => Current("temp")
    /\ step = "start" => Current(IF setup.keep THEN "backup" ELSE "disk")

DiskInv == DiskTypeOK /\ VmInv /\ FreshInv /\ StepInv

\* The invariant holds of a machine that runs on its disk (DiskInit).
LEMMA DiskInvInit == DiskInit => DiskInv /\ DataInv
<1> SUFFICES ASSUME DiskInit PROVE DiskInv /\ DataInv
  OBVIOUS
<1>1. setup \in Setup /\ 0 \in 0 .. MaxData
  BY PodmanAssumption DEF DiskInit
<1>2. file \in [File -> Image]
  BY <1>1 DEF DiskInit
<1>3. Current("disk") /\ file["backup"] = NoImage
  BY DEF DiskInit, Current
<1>. QED
  BY <1>1, <1>2, <1>3 DEF DiskInit, DiskInv, DiskTypeOK, VmInv, FreshInv, StepInv, Fresh, Current, Offline, DataInv

\* A converted image is an image of the same version, and boots only if the source did.
LEMMA Converted ==
  ASSUME NEW i \in Image, NEW h \in BOOLEAN
  PROVE  /\ Copied(i, h) \in Image
         /\ Copied(i, h).ver = i.ver
         /\ Copied(i, h).good = (i.good /\ ~ h)
         /\ ~ h => Copied(i, h) = i
<1>1. CASE i = NoImage
  <2>1. i.good = FALSE /\ (i.good /\ ~ h) = FALSE
    BY <1>1
  <2>. QED  BY <1>1, <2>1 DEF Copied
<1>2. CASE i \in [ver: 0 .. MaxData, good: BOOLEAN]
  <2>1. /\ Copied(i, h) = [ver |-> i.ver, good |-> i.good /\ ~ h]
        /\ i = [ver |-> i.ver, good |-> i.good]
    BY <1>2 DEF Copied
  <2>2. i.ver \in 0 .. MaxData /\ i.good \in BOOLEAN /\ (i.good /\ ~ h) \in BOOLEAN
    BY <1>2
  <2>. QED  BY <2>1, <2>2
<1>. QED  BY <1>1, <1>2

LEMMA NotBooting == \A i \in {NoImage, Torn} : i \in Image /\ ~ i.good
<1>1. NoImage \in Image /\ ~ NoImage.good
  OBVIOUS
<1>2. Torn \in Image /\ ~ Torn.good
  BY PodmanAssumption
<1>. QED  BY <1>1, <1>2

\* The machine's writes make a newer version of the image that boots.
LEMMA Rewritten ==
  ASSUME NEW i \in [ver: Nat, good: BOOLEAN], i.good = TRUE, NEW v
  PROVE  [i EXCEPT !.ver = v] = [ver |-> v, good |-> TRUE]
<1>1. [i EXCEPT !.ver = v] = [ver |-> v, good |-> i.good]
  OBVIOUS
<1>. QED  BY <1>1, Zenon

\* A write makes an image of any image, the absent one included.
LEMMA Versioned ==
  ASSUME NEW i \in Image, NEW v \in 0 .. MaxData
  PROVE  [i EXCEPT !.ver = v] \in Image
<1>1. i \in [ver: Int, good: BOOLEAN]
  <2>1. CASE i = NoImage
    BY <2>1
  <2>2. CASE i \in [ver: 0 .. MaxData, good: BOOLEAN]
    BY <2>2, PodmanAssumption
  <2>. QED  BY <2>1, <2>2
<1>2. [i EXCEPT !.ver = v] = [ver |-> v, good |-> i.good] /\ i.good \in BOOLEAN
  BY <1>1
<1>. QED  BY <1>2

\* Every call of a compaction, its failure, a crash and the machine keep it.
LEMMA DiskInvStep == DiskInv /\ [DiskNext]_diskVars => DiskInv'
<1> SUFFICES ASSUME DiskInv, [DiskNext]_diskVars PROVE DiskInv'
  OBVIOUS
<1> USE PodmanAssumption DEF DiskInv, DiskTypeOK, VmInv, FreshInv, StepInv, Fresh, Current, Offline,
        Up, Replacing, Unlinked, Renamed, Go, Gone, CommandEnds, CallEnds
<1>1. CASE MachineWrites
  <2>1. /\ data' = data + 1 /\ data' \in 0 .. MaxData /\ Up
        /\ file' = IF vm \in File THEN [file EXCEPT ![vm].ver = data'] ELSE file
        /\ UNCHANGED <<setup, vm, busy, vmRunning, step, cut, gaps>>
    BY <1>1 DEF MachineWrites
  <2>2. ASSUME vm \in File PROVE [file[vm] EXCEPT !.ver = data'] \in Image
    BY <2>1, <2>2, Versioned
  <2>3. DiskTypeOK'
    BY <2>1, <2>2
  <2>4. Offline => Current("disk")'
    <3>1. SUFFICES ASSUME Offline PROVE Current("disk")'
      OBVIOUS
    <3>2. vm = "disk" /\ file["disk"] \in [ver: Nat, good: BOOLEAN] /\ file["disk"].good = TRUE
      BY <2>1, <3>1
    <3>3. [file["disk"] EXCEPT !.ver = data'] = [ver |-> data', good |-> TRUE]
      BY <3>2, Rewritten
    <3>4. file' = [file EXCEPT !["disk"] = [file["disk"] EXCEPT !.ver = data']]
      BY <2>1, <3>2
    <3>. QED  BY <3>3, <3>4
  <2>5. vm # "backup" => file'["backup"] = file["backup"]
    BY <2>1
  <2>6. Offline => vm = "disk" /\ step \in {"idle", "stop", "drop", "restart"}
    BY <2>1
  <2>7. VmInv' /\ StepInv'
    BY <2>1, <2>4, <2>6
  <2>8. FreshInv'
    BY <2>1, <2>4, <2>5, <2>6
  <2>. QED  BY <2>3, <2>7, <2>8
<1>2. CASE ContainersChange \/ MachineEnds
  <2>1. /\ UNCHANGED <<setup, file, data, vmRunning, step, cut, gaps>>
        /\ busy' \in BOOLEAN /\ vm' \in {vm, "off"}
    BY <1>2 DEF ContainersChange, MachineEnds
  <2>2. DiskTypeOK' /\ VmInv'
    BY <2>1
  <2>3. FreshInv' /\ StepInv'
    BY <2>1
  <2>. QED  BY <2>2, <2>3
<1>3. CASE UserStarts
  BY <1>3 DEF UserStarts
<1>4. CASE ContextEnds
  BY <1>4 DEF ContextEnds
<1>5. CASE BeginCompaction
  BY <1>5 DEF BeginCompaction, CanCompact, Present
<1>6. CASE VerifyTemp
  <2>1. /\ step = "verify" /\ UNCHANGED <<setup, data, vm, busy, vmRunning, cut, gaps>>
        /\ \/ UNCHANGED file /\ step' = IF setup.cross THEN "backup" ELSE "replace"
           \/ file' = [file EXCEPT !["temp"] = NoImage] /\ step' = "restart"
    BY <1>6 DEF VerifyTemp
  <2>2. CASE UNCHANGED file /\ step' = IF setup.cross THEN "backup" ELSE "replace"
    BY <2>1, <2>2
  <2>3. CASE file' = [file EXCEPT !["temp"] = NoImage] /\ step' = "restart"
    BY <2>1, <2>3, NotBooting
  <2>. QED  BY <2>1, <2>2, <2>3
<1>7. CASE CheckDisk
  BY <1>7 DEF CheckDisk, Verified
<1>8. ASSUME NEW ok \in BOOLEAN, NEW b \in BOOLEAN, StopMachine(ok, b) PROVE DiskInv'
  BY <1>8, ZenonT(30) DEF StopMachine
<1>9. ASSUME NEW ok \in BOOLEAN, NEW b \in BOOLEAN, ConvertToTemp(ok, b) PROVE DiskInv'
  <2>1. CASE ok
    <3>1. file' = [file EXCEPT !["temp"] = Copied(file["disk"], b)]
      BY <1>9, <2>1 DEF ConvertToTemp, Convert
    <3>2. file["disk"] \in Image
      OBVIOUS
    <3>. QED  BY <1>9, <2>1, <3>1, <3>2, Converted DEF ConvertToTemp
  <2>2. CASE ~ ok
    BY <1>9, <2>2 DEF ConvertToTemp
  <2>. QED  BY <2>1, <2>2
<1>10. ASSUME NEW ok \in BOOLEAN, NEW b \in BOOLEAN, ConvertToBackup(ok, b) PROVE DiskInv'
  <2>1. CASE ok
    <3>1. file' = [file EXCEPT !["backup"] = Copied(file["disk"], b)]
      BY <1>10, <2>1 DEF ConvertToBackup, Convert
    <3>2. file["disk"] \in Image
      OBVIOUS
    <3>. QED  BY <1>10, <2>1, <3>1, <3>2, Converted DEF ConvertToBackup
  <2>2. CASE ~ ok
    BY <1>10, <2>2 DEF ConvertToBackup
  <2>. QED  BY <2>1, <2>2
<1>11. ASSUME NEW ok \in BOOLEAN, NEW b \in BOOLEAN, WriteBack(ok, b) PROVE DiskInv'
  <2>1. CASE ok
    <3>1. file' = [file EXCEPT !["disk"] = Copied(file["temp"], b)]
      BY <1>11, <2>1 DEF WriteBack, Convert
    <3>2. file["temp"] \in Image
      OBVIOUS
    <3>. QED  BY <1>11, <2>1, <3>1, <3>2, Converted DEF WriteBack
  <2>2. CASE ~ ok
    <3>1. PICK i \in {NoImage, Torn} : file' = [file EXCEPT !["disk"] = i]
      BY <1>11, <2>2 DEF WriteBack, Convert
    <3>2. i \in Image /\ ~ i.good
      BY NotBooting
    <3>. QED  BY <1>11, <2>2, <3>1, <3>2 DEF WriteBack
  <2>. QED  BY <2>1, <2>2
<1>12. ASSUME NEW ok \in BOOLEAN, NEW b \in BOOLEAN, RenameIntoPlace(ok, b) PROVE DiskInv'
  BY <1>12 DEF RenameIntoPlace
<1>13. ASSUME NEW ok \in BOOLEAN, NEW harm \in BOOLEAN, NEW removed \in BOOLEAN,
              UndoCopy(ok, harm, removed)
       PROVE  DiskInv'
  <2>1. /\ file["backup"] \in Image /\ file["disk"] \in Image /\ NoImage \in Image
        /\ (Offline => Fresh("backup") /\ Fresh("disk")) /\ ~ NoImage.good
    BY <1>13 DEF UndoCopy
  <2>2. PICK i \in {Copied(file["backup"], harm), NoImage, file["disk"]} :
          file' = [file EXCEPT !["temp"] = NoImage, !["disk"] = i]
    BY <1>13 DEF UndoCopy, RestoreCopy
  <2>3. i \in Image /\ (Offline /\ i.good => i.ver = data)
    BY <2>1, <2>2, Converted
  <2>4. vm' \in {vm, "gone"} /\ (~ Up => ~ Up')
    BY <1>13 DEF UndoCopy, RestoreCopy
  <2>. QED  BY <1>13, <2>2, <2>3, <2>4 DEF UndoCopy
<1>14. ASSUME NEW ok \in BOOLEAN, NEW harm \in BOOLEAN, NEW removed \in BOOLEAN,
              Rollback(ok, harm, removed)
       PROVE  DiskInv'
  <2>1. CASE setup.cross
    <3>1. /\ file["backup"] \in Image /\ file["disk"] \in Image /\ NoImage \in Image
          /\ (Offline => Fresh("backup") /\ Fresh("disk")) /\ ~ NoImage.good
      BY <1>14 DEF Rollback
    <3>2. PICK i \in {Copied(file["backup"], harm), NoImage, file["disk"]} :
            file' = [file EXCEPT !["temp"] = NoImage, !["disk"] = i]
      BY <1>14, <2>1 DEF Rollback, RestoreCopy
    <3>3. i \in Image /\ (Offline /\ i.good => i.ver = data)
      BY <3>1, <3>2, Converted
    <3>4. vm' \in {vm, "gone"} /\ (~ Up => ~ Up')
      BY <1>14, <2>1 DEF Rollback, RestoreCopy
    <3>5. /\ step = "rollback" /\ step' \in {"restart", "idle"}
          /\ UNCHANGED <<setup, data, busy, vmRunning, cut, gaps>>
      BY <1>14, <2>1 DEF Rollback
    <3>6. DiskTypeOK'
      BY <3>2, <3>3, <3>4, <3>5, NotBooting
    <3>7. VmInv' /\ StepInv'
      BY <2>1, <3>4, <3>5
    <3>8. FreshInv'
      BY <3>2, <3>3, <3>5
    <3>. QED  BY <3>6, <3>7, <3>8
  <2>2. CASE ~ setup.cross
    BY <1>14, <2>2 DEF Rollback
  <2>. QED  BY <2>1, <2>2
<1>15. ASSUME NEW ok \in BOOLEAN, RemoveDisk(ok) \/ RenameToBackup(ok) PROVE DiskInv'
  <2>1. CASE RemoveDisk(ok)
    BY <1>15, <2>1 DEF RemoveDisk
  <2>2. CASE RenameToBackup(ok)
    BY <1>15, <2>2 DEF RenameToBackup
  <2>. QED  BY <1>15, <2>1, <2>2
<1>16. ASSUME NEW ok \in BOOLEAN, NEW up \in BOOLEAN,
              RestartMachine(ok, up) \/ StartMachine(ok, up)
       PROVE  DiskInv'
  <2>1. Offline /\ up => Current("disk")
    <3>1. file["disk"].good => file["disk"] \in [ver: 0 .. MaxData, good: BOOLEAN]
      OBVIOUS
    <3>. QED  BY <1>16, <3>1 DEF RestartMachine, StartMachine, Starts
  <2>2. CASE RestartMachine(ok, up)
    BY <2>1, <2>2 DEF RestartMachine, Starts
  <2>3. CASE StartMachine(ok, up)
    BY <2>1, <2>3 DEF StartMachine, Starts
  <2>. QED  BY <1>16, <2>2, <2>3
<1>17. ASSUME NEW ok \in BOOLEAN, DropBackup(ok) PROVE DiskInv'
  <2>1. /\ step = "drop" /\ step' = "idle"
        /\ \/ file' = [file EXCEPT !["backup"] = NoImage] /\ vm' = IF vm = "backup" THEN "gone" ELSE vm
           \/ UNCHANGED <<file, vm>>
        /\ UNCHANGED <<setup, data, busy, vmRunning, cut, gaps>>
    BY <1>17 DEF DropBackup
  <2>2. DiskTypeOK'
    BY <2>1, NotBooting
  <2>3. file'["disk"] = file["disk"] /\ (vm = "disk" => vm' = "disk") /\ (~ Up => ~ Up')
    BY <2>1
  <2>. QED  BY <2>1, <2>2, <2>3
<1>18. ASSUME NEW torn \in BOOLEAN, DaemonStops(torn) PROVE DiskInv'
  <2>1. step' = "idle" /\ vmRunning' = Up /\ UNCHANGED <<setup, data, vm, busy, cut, gaps>>
    BY <1>18 DEF DaemonStops
  <2>2. CASE file' = file
    BY <2>1, <2>2
  <2>3. CASE torn /\ file' = [file EXCEPT ![Writing] = Torn]
    <3>1. Writing \in {"temp", "backup", "disk"} /\ (Offline => ~ Up)
      BY <1>18, <2>3 DEF DaemonStops, Writing
    <3>2. file' \in [File -> Image] /\ (Offline => Fresh("disk")')
      BY <2>1, <2>3, <3>1, NotBooting
    <3>. QED  BY <2>1, <3>1, <3>2
  <2>4. file' = file \/ (torn /\ file' = [file EXCEPT ![Writing] = Torn])
    BY <1>18 DEF DaemonStops
  <2>. QED  BY <2>2, <2>3, <2>4
<1>19. CASE DaemonRestarts
  BY <1>19 DEF DaemonRestarts
<1>20. CASE UNCHANGED diskVars
  BY <1>20 DEF diskVars
<1>. QED
  BY <1>1, <1>2, <1>3, <1>4, <1>5, <1>6, <1>7, <1>8, <1>9, <1>10, <1>11, <1>12, <1>13, <1>14,
     <1>15, <1>16, <1>17, <1>18, <1>19, <1>20, ZenonT(30) DEF DiskNext

\* An image that boots and is not older is the newest data.
LEMMA BootsCurrent == ASSUME DiskInv, NEW f \in File, file[f].good, Fresh(f) PROVE Current(f)
<1>1. file[f] \in [ver: 0 .. MaxData, good: BOOLEAN]
  BY DEF DiskInv, DiskTypeOK
<1>2. file[f] = [ver |-> file[f].ver, good |-> file[f].good]
  BY <1>1
<1>3. file[f].good = TRUE
  BY <1>1
<1>. QED  BY <1>2, <1>3 DEF Fresh, Current

\* Where the newest data is kept moves with the steps, when a backup copy that was made
\* across devices is what it is taken for.
LEMMA DataInvStep ==
  DiskInv /\ DiskInv' /\ DataInv /\ [DiskNext]_diskVars => DataInv'
<1> SUFFICES ASSUME DiskInv, DiskInv', DataInv, [DiskNext]_diskVars,
                    setup'.keep \/ setup'.qcow2, gaps' = {}
             PROVE  DataInv'
  BY DEF DataInv
<1>a. /\ DiskTypeOK /\ VmInv /\ FreshInv /\ StepInv
      /\ DiskTypeOK' /\ VmInv' /\ FreshInv' /\ StepInv'
      /\ setup' = setup /\ gaps = {} /\ Offline
  BY DEF DiskInv, DiskNext, diskVars, MachineWrites, ContainersChange, UserStarts, MachineEnds, ContextEnds,
     BeginCompaction, VerifyTemp, CheckDisk, StopMachine, ConvertToTemp, ConvertToBackup, WriteBack,
     RenameIntoPlace, UndoCopy, Rollback, RemoveDisk, RenameToBackup, RestartMachine, StartMachine,
     DropBackup, DaemonStops, DaemonRestarts, Offline
<1> USE <1>a DEF DiskTypeOK, DataInv, Current, Up, Replacing, Unlinked, Renamed, Go, Gone
<1>1. CASE MachineWrites
  <2>1. Current("disk")' /\ step' \in {"idle", "stop", "drop", "restart"} /\ UNCHANGED <<setup, gaps>>
    BY <1>1 DEF MachineWrites, VmInv, Offline
  <2>. QED  BY <2>1
<1>2. CASE ContainersChange \/ UserStarts \/ MachineEnds \/ ContextEnds
  BY <1>2 DEF ContainersChange, UserStarts, MachineEnds, ContextEnds
<1>5. CASE BeginCompaction
  BY <1>5 DEF BeginCompaction, CanCompact, Present
<1>6. CASE VerifyTemp
  <2>1. setup.qcow2 /\ Verified("temp") => Current("temp")
    BY <1>6, BootsCurrent DEF VerifyTemp, Verified, FreshInv
  <2>. QED  BY <1>6, <2>1 DEF VerifyTemp, FreshInv
<1>7. CASE CheckDisk
  BY <1>7 DEF CheckDisk, FreshInv, StepInv
<1>8. ASSUME NEW ok \in BOOLEAN, NEW b \in BOOLEAN, StopMachine(ok, b) PROVE DataInv'
  BY <1>8 DEF StopMachine
<1>9. ASSUME NEW ok \in BOOLEAN, NEW b \in BOOLEAN, ConvertToTemp(ok, b) PROVE DataInv'
  BY <1>9 DEF ConvertToTemp, Convert
<1>10. ASSUME NEW ok \in BOOLEAN, NEW b \in BOOLEAN, ConvertToBackup(ok, b) PROVE DataInv'
  <2>1. CASE ok
    <3>1. ~ b
      BY <1>10 DEF ConvertToBackup
    <3>2. Copied(file["disk"], b) = file["disk"]
      BY <3>1, Converted
    <3>3. file' = [file EXCEPT !["backup"] = file["disk"]]
      BY <1>10, <2>1, <3>2 DEF ConvertToBackup, Convert
    <3>. QED  BY <1>10, <2>1, <3>3 DEF ConvertToBackup
  <2>2. CASE ~ ok
    BY <1>10, <2>2 DEF ConvertToBackup
  <2>. QED  BY <2>1, <2>2
<1>11. ASSUME NEW ok \in BOOLEAN, NEW b \in BOOLEAN, WriteBack(ok, b) PROVE DataInv'
  BY <1>11 DEF WriteBack, Convert
<1>12. ASSUME NEW ok \in BOOLEAN, NEW b \in BOOLEAN, RenameIntoPlace(ok, b) PROVE DataInv'
  BY <1>12, ZenonT(30) DEF RenameIntoPlace, FreshInv, StepInv
<1>13. ASSUME NEW ok \in BOOLEAN, NEW harm \in BOOLEAN, NEW removed \in BOOLEAN,
              UndoCopy(ok, harm, removed)
       PROVE  DataInv'
  BY <1>13 DEF UndoCopy, RestoreCopy
<1>14. ASSUME NEW ok \in BOOLEAN, NEW harm \in BOOLEAN, NEW removed \in BOOLEAN,
              Rollback(ok, harm, removed)
       PROVE  DataInv'
  BY <1>14 DEF Rollback, RestoreCopy
<1>15. ASSUME NEW ok \in BOOLEAN, RemoveDisk(ok) \/ RenameToBackup(ok) PROVE DataInv'
  BY <1>15 DEF RemoveDisk, RenameToBackup
<1>16. ASSUME NEW ok \in BOOLEAN, NEW up \in BOOLEAN,
              RestartMachine(ok, up) \/ StartMachine(ok, up)
       PROVE  DataInv'
  <2>1. CASE RestartMachine(ok, up)
    BY <2>1 DEF RestartMachine
  <2>2. CASE StartMachine(ok, up)
    <3>1. ok => Current("disk")'
      BY <2>2 DEF StartMachine, Starts, VmInv, Offline
    <3>. QED  BY <2>2, <3>1 DEF StartMachine
  <2>. QED  BY <1>16, <2>1, <2>2
<1>17. ASSUME NEW ok \in BOOLEAN, DropBackup(ok) PROVE DataInv'
  BY <1>17 DEF DropBackup
<1>18. ASSUME NEW torn \in BOOLEAN, DaemonStops(torn) PROVE DataInv'
  BY <1>18 DEF DaemonStops, Writing
<1>19. CASE DaemonRestarts
  BY <1>19 DEF DaemonRestarts
<1>20. CASE UNCHANGED diskVars
  BY <1>20 DEF diskVars
<1>. QED
  BY <1>1, <1>2, <1>5, <1>6, <1>7, <1>8, <1>9, <1>10, <1>11, <1>12, <1>13, <1>14,
     <1>15, <1>16, <1>17, <1>18, <1>19, <1>20 DEF DiskNext

\* The inductive invariant: as long as the machine was down whenever its disk was
\* replaced, it is up only on its newest data, and every image a step may put in place
\* of the disk is as new as the disk was.
THEOREM DiskInvariant == DiskSpec => []DiskInv
  BY DiskInvInit, DiskInvStep, PTL DEF DiskSpec

\* For every configuration, and whatever conversions damage, the machine never runs on
\* older data than it last wrote, unless it was up while its disk was replaced.
THEOREM NeverRolledBack == DiskSpec => []NoRollback
<1>1. DiskInv => NoRollback
  BY DEF DiskInv, VmInv, Current, Offline, NoRollback
<1>. QED  BY <1>1, DiskInvariant, PTL

\* For every configuration, a complete image of the newest data exists at every moment
\* when a backup is kept or the image can be checked, through failed commands, damaged
\* images and a daemon that stops anywhere, with the two exceptions of the property.
THEOREM DataIsKept == DiskSpec => []DataKept
<1>1. DiskInv /\ DataInv => DataKept
  BY DEF DiskInv, DiskTypeOK, DataInv, DataKept, Current
<1>. QED  BY <1>1, DataInvStep, DiskInvInit, DiskInvariant, PTL DEF DiskSpec
=============================================================================
