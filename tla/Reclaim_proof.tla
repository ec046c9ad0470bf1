--------------------------- MODULE Reclaim_proof ---------------------------
(***************************************************************************)
(* What the plugins that remove user files leave alone: the retention      *)
(* rules, the transcripts of agent sessions, the archive staging lifecycle *)
(* and the deleting lanes of dev-artifacts and shm scratch, for any number *)
(* of trees, lines, groups and files; and the turns that the walks of      *)
(* dev-artifacts give to their roots.                                      *)
(***************************************************************************)
EXTENDS Retention, Transcripts, ArchiveStaging, DevLanes, DevWalks, FiniteSetTheorems, TLAPS
-----------------------------------------------------------------------------
(* A retention pass: the plan it was chosen by may be as old as it will    *)
(* (Retention).                                                            *)

\* The tree between its recheck and its removal is still stale, or late says
\* what it has become since.
RecheckInv ==
  rpass.phase = "remove" =>
    /\ rtree[rpass.at].here
    /\ rpass.at \notin inventory.blocked
    /\ late \/ (rtree[rpass.at].age = RMaxAge /\ ~ Custody(rpass.at))

\* The tree at hand is one of the trees and not chosen again.
AtInv == rpass.phase \in {"recheck", "remove"} => rpass.at \in RTrees \ rpass.chosen

Pending(t) == t \in rpass.chosen \/ (rpass.phase \in {"recheck", "remove"} /\ rpass.at = t)

\* A tree still to be removed that is in use since the inventory in hand: the
\* inventory has it, or could not have seen it.
SteadyInv ==
  /\ rpass.phase \in {"idle", "evaluate"} => steady = {}
  /\ \A t \in steady : Pending(t) =>
       /\ rtree[t].here /\ rtree[t].use # "none"
       /\ t \in inventory.blocked \/ (rtree[t].use = "held" /\ RRootOf[t] \notin inventory.within)

RInv == RTypeOK /\ RecheckInv /\ AtInv /\ SteadyInv

\* Members of the types that every step uses.
LEMMA Constants ==
  /\ "none" \in RUse /\ "none" \in Claim /\ "fixture" \in Claim /\ "kept" \in Claim
  /\ 0 \in 0..RMaxAge /\ RMaxAge \in 0..RMaxAge
  /\ \A b \in BOOLEAN, a \in {0, RMaxAge} : [here |-> b, age |-> a, use |-> "none", custody |-> "none"] \in RTree
<1>1. /\ "none" \in RUse /\ "none" \in Claim /\ "fixture" \in Claim /\ "kept" \in Claim
      /\ 0 \in 0..RMaxAge /\ RMaxAge \in 0..RMaxAge
  BY RetentionAssumption DEF RUse, Claim
<1>. QED  BY <1>1 DEF RTree

\* The invariant holds before the first pass (RInit).
LEMMA RInvInit == RInit => RInv
<1> SUFFICES ASSUME RInit PROVE RInv
  OBVIOUS
<1>1. rtree \in [RTrees -> RTree]
  BY Constants DEF RInit
<1>2. NoInventory \in [age : 0..(InventoryMaxAge + 1), within : SUBSET Roots, blocked : SUBSET RTrees]
  BY RetentionAssumption DEF NoInventory
<1>3. RTypeOK
  <2>1. rpass \in [phase : {"idle", "evaluate", "apply", "recheck", "remove"},
                   todo : SUBSET RTrees, chosen : SUBSET RTrees, same : SUBSET RTrees,
                   at : RTrees \cup {"none"}]
    BY DEF RInit, RQuiet
  <2>2. sinceRun \in 0..RInterval
    BY RetentionAssumption DEF RInit
  <2>3. steady \subseteq RTrees /\ late \in BOOLEAN
    BY DEF RInit
  <2>. QED  BY <1>1, <1>2, <2>1, <2>2, <2>3 DEF RInit, RTypeOK
<1>. QED
  BY <1>3 DEF RInit, RInv, RecheckInv, AtInv, SteadyInv, RQuiet

\* A scan of the processes (scanRetentionActivity) blocks what it sees in use.
LEMMA ScanSees ==
  ASSUME NEW roots \in SUBSET Roots, Scan(roots)
  PROVE  /\ inventory' \in [age : 0..(InventoryMaxAge + 1), within : SUBSET Roots, blocked : SUBSET RTrees]
         /\ inventory'.within = roots
         /\ TreesReferenced(roots) \subseteq inventory'.blocked
<1>1. PICK more \in {{}, CargoTargets, RTrees} :
        inventory' = [age |-> 0, within |-> roots, blocked |-> TreesReferenced(roots) \cup more]
  BY DEF Scan
<1>2. more \subseteq RTrees
  BY RetentionAssumption
<1>3. TreesReferenced(roots) \subseteq RTrees
  BY DEF TreesReferenced
<1>. QED
  BY <1>1, <1>2, <1>3, RetentionAssumption

\* Every step of a pass and of the other processes keeps the types.
LEMMA RTypeStep == RTypeOK /\ [RNext]_rvars => RTypeOK'
<1> SUFFICES ASSUME RTypeOK, [RNext]_rvars PROVE RTypeOK'
  OBVIOUS
<1> USE RetentionAssumption DEF RTypeOK
<1>1. CASE RStart
  <2>1. PICK picked \in SUBSET {t \in RTrees : rtree[t].here} :
          rpass' = [phase |-> "evaluate", todo |-> picked, chosen |-> {}, same |-> picked, at |-> "none"]
    BY <1>1 DEF RStart
  <2>2. Scan(Roots) /\ UNCHANGED <<rtree, steady, late>> /\ sinceRun' = 0
    BY <1>1 DEF RStart
  <2>. QED  BY <2>1, <2>2, ScanSees
<1>2. ASSUME NEW t \in RTrees, Evaluate(t) PROVE RTypeOK'
  BY <1>2 DEF Evaluate
<1>3. CASE EvaluateDone
  BY <1>3 DEF EvaluateDone, NoInventory
<1>4. ASSUME NEW t \in RTrees, TakeTree(t) PROVE RTypeOK'
  <2>1. RRootOf[t] \in Roots
    BY DEF Roots
  <2>2. inventory' \in [age : 0..(InventoryMaxAge + 1), within : SUBSET Roots, blocked : SUBSET RTrees]
    BY <1>4, <2>1, ScanSees DEF TakeTree
  <2>3. steady' \subseteq RTrees
    BY <1>4 DEF TakeTree
  <2>. QED  BY <1>4, <2>2, <2>3 DEF TakeTree
<1>5. CASE Recheck
  BY <1>5 DEF Recheck, NextTree
<1>6. CASE RemoveTree
  <2>1. rtree' \in [RTrees -> RTree]
    BY <1>6, Constants DEF RemoveTree, NextTree
  <2>. QED  BY <1>6, <2>1 DEF RemoveTree, NextTree
<1>7. CASE RDone
  BY <1>7 DEF RDone, RQuiet, NoInventory
<1>8. ASSUME NEW t \in RTrees, Enter(t) \/ Leave(t) PROVE RTypeOK'
  BY <1>8, Constants DEF Enter, Leave, RTree
<1>9. ASSUME NEW t \in RTrees, Touch(t) PROVE RTypeOK'
  <2>1. PICK c \in {rtree[t].custody, "fixture", "kept"} : rtree' = [rtree EXCEPT ![t].age = 0, ![t].custody = c]
    BY <1>9 DEF Touch
  <2>2. c \in Claim
    BY Constants DEF RTree
  <2>3. rtree' \in [RTrees -> RTree]
    BY <2>1, <2>2, Constants DEF RTree
  <2>. QED  BY <1>9, <2>3 DEF Touch
<1>10. ASSUME NEW t \in RTrees, Replace(t) PROVE RTypeOK'
  <2>1. rtree' \in [RTrees -> RTree]
    BY <1>10, Constants DEF Replace
  <2>. QED  BY <1>10, <2>1 DEF Replace
<1>11. CASE RTick
  <2>1. rtree' \in [RTrees -> RTree]
    BY <1>11 DEF RTick, RTree
  <2>2. inventory' \in [age : 0..(InventoryMaxAge + 1), within : SUBSET Roots, blocked : SUBSET RTrees]
    BY <1>11 DEF RTick
  <2>. QED  BY <1>11, <2>1, <2>2 DEF RTick
<1>12. CASE UNCHANGED rvars
  BY <1>12 DEF rvars
<1>. QED
  BY <1>1, <1>2, <1>3, <1>4, <1>5, <1>6, <1>7, <1>8, <1>9, <1>10, <1>11, <1>12 DEF RNext

\* A tree goes only by RemoveTree, while its turn lasts.
LEMMA OnlyRemoveTree ==
  ASSUME RTypeOK, RTypeOK', [RNext]_rvars, NEW t \in RTrees, RGone(t)
  PROVE  RemoveTree /\ rpass.at = t
<1>1. ASSUME NEW u \in RTrees PROVE ~ (Enter(u) \/ Leave(u) \/ Touch(u) \/ Replace(u))
  <2>1. ~ Enter(u)
    BY DEF RGone, RTypeOK, RTree, Enter
  <2>2. ~ Leave(u)
    BY DEF RGone, RTypeOK, RTree, Leave
  <2>3. ~ Touch(u)
    BY DEF RGone, RTypeOK, RTree, Touch
  <2>4. ~ Replace(u)
    BY DEF RGone, RTypeOK, Replace
  <2>. QED  BY <2>1, <2>2, <2>3, <2>4
<1>2. ~ RTick
  BY DEF RGone, RTypeOK, RTree, RTick
<1>3. ~ (RStart \/ EvaluateDone \/ Recheck \/ RDone \/ \E u \in RTrees : Evaluate(u) \/ TakeTree(u))
  BY DEF RGone, RStart, EvaluateDone, Recheck, RDone, Evaluate, TakeTree
<1>4. RemoveTree
  BY <1>1, <1>2, <1>3 DEF RNext, rvars, RGone
<1>. QED  BY <1>4 DEF RemoveTree, RGone, RTypeOK, RTree

\* Each step of a pass keeps the invariant, whatever it finds.
LEMMA RPassStep ==
  ASSUME RInv, RTypeOK',
         \/ RStart \/ EvaluateDone \/ Recheck \/ RemoveTree \/ RDone
         \/ \E t \in RTrees : Evaluate(t) \/ TakeTree(t)
  PROVE  RecheckInv' /\ AtInv' /\ SteadyInv'
<1> USE DEF RInv, RTypeOK
<1>1. CASE RStart
  BY <1>1 DEF RStart, RecheckInv, AtInv, SteadyInv, Pending
<1>2. ASSUME NEW t \in RTrees, Evaluate(t) PROVE RecheckInv' /\ AtInv' /\ SteadyInv'
  BY <1>2 DEF Evaluate, RecheckInv, AtInv, SteadyInv, Pending
<1>3. CASE EvaluateDone
  BY <1>3 DEF EvaluateDone, RecheckInv, AtInv, SteadyInv, Pending
<1>4. ASSUME NEW t \in RTrees, TakeTree(t) PROVE RecheckInv' /\ AtInv' /\ SteadyInv'
  <2>1. RecheckInv' /\ AtInv'
    BY <1>4 DEF TakeTree, RecheckInv, AtInv
  <2>2. \A u \in RTrees : Pending(u)' => Pending(u)
    BY <1>4 DEF TakeTree, Pending
  <2>3. rtree' = rtree /\ rpass'.phase \notin {"idle", "evaluate"}
    BY <1>4 DEF TakeTree
  <2>4. SteadyInv'
    <3>1. CASE inventory' = inventory /\ steady' = steady
      BY <2>2, <2>3, <3>1 DEF SteadyInv
    <3>2. CASE Scan({RRootOf[t]}) /\ steady' = {u \in RTrees : RInUse(u)}
      <4>1. {RRootOf[t]} \in SUBSET Roots
        BY DEF Roots
      <4>2. inventory'.within = {RRootOf[t]} /\ TreesReferenced({RRootOf[t]}) \subseteq inventory'.blocked
        BY <3>2, <4>1, ScanSees
      <4>3. ASSUME NEW u \in steady'
            PROVE  /\ rtree'[u].here /\ rtree'[u].use # "none"
                   /\ u \in inventory'.blocked \/ (rtree'[u].use = "held" /\ RRootOf[u] \notin inventory'.within)
        BY <2>3, <3>2, <4>2 DEF TreesReferenced, RInUse
      <4>. QED  BY <2>3, <4>3 DEF SteadyInv
    <3>. QED  BY <1>4, <3>1, <3>2 DEF TakeTree
  <2>. QED  BY <2>1, <2>4
<1>5. CASE Recheck
  BY <1>5 DEF Recheck, NextTree, Stale, Custody, RecheckInv, AtInv, SteadyInv, Pending
<1>6. CASE RemoveTree
  <2>1. RecheckInv' /\ AtInv'
    BY <1>6 DEF RemoveTree, NextTree, RecheckInv, AtInv
  <2>2. \A t \in steady' : Pending(t)' => t \in steady /\ Pending(t) /\ t # rpass.at /\ rtree'[t] = rtree[t]
    BY <1>6 DEF RemoveTree, NextTree, AtInv, Pending
  <2>3. inventory' = inventory /\ rpass'.phase = "apply"
    BY <1>6 DEF RemoveTree, NextTree
  <2>4. SteadyInv'
    BY <2>2, <2>3 DEF SteadyInv
  <2>. QED  BY <2>1, <2>4
<1>7. CASE RDone
  BY <1>7 DEF RDone, RQuiet, RecheckInv, AtInv, SteadyInv, Pending
<1>. QED
  BY <1>1, <1>2, <1>3, <1>4, <1>5, <1>6, <1>7

\* Processes that use, leave, change and replace trees keep it, and so does time.
LEMMA RHostStep ==
  ASSUME RInv, RTypeOK',
         RTick \/ \E t \in RTrees : Enter(t) \/ Leave(t) \/ Touch(t) \/ Replace(t)
  PROVE  RecheckInv' /\ AtInv' /\ SteadyInv'
<1> USE RetentionAssumption DEF RInv, RTypeOK, RTree
<1>1. ASSUME NEW t \in RTrees, Enter(t) PROVE RecheckInv' /\ AtInv' /\ SteadyInv'
  <2>1. \A u \in RTrees : /\ rtree'[u].here = rtree[u].here /\ rtree'[u].age = rtree[u].age
                          /\ rtree'[u].custody = rtree[u].custody
                          /\ u # t => rtree'[u].use = rtree[u].use
    BY <1>1 DEF Enter
  <2>2. rtree[t].use = "none" /\ UNCHANGED <<rpass, inventory, steady, late>>
    BY <1>1 DEF Enter
  <2>3. RecheckInv' /\ AtInv'
    BY <2>1, <2>2 DEF RecheckInv, AtInv, Custody
  <2>4. SteadyInv'
    BY <2>1, <2>2 DEF SteadyInv, Pending
  <2>. QED  BY <2>3, <2>4
<1>2. ASSUME NEW t \in RTrees, Leave(t) PROVE RecheckInv' /\ AtInv' /\ SteadyInv'
  <2>1. \A u \in RTrees : /\ rtree'[u].here = rtree[u].here /\ rtree'[u].age = rtree[u].age
                          /\ rtree'[u].custody = rtree[u].custody
                          /\ u # t => rtree'[u].use = rtree[u].use
    BY <1>2 DEF Leave
  <2>2. steady' = steady \ {t} /\ UNCHANGED <<rpass, inventory, late>>
    BY <1>2 DEF Leave
  <2>3. RecheckInv' /\ AtInv'
    BY <2>1, <2>2 DEF RecheckInv, AtInv, Custody
  <2>4. SteadyInv'
    BY <2>1, <2>2 DEF SteadyInv, Pending
  <2>. QED  BY <2>3, <2>4
<1>3. ASSUME NEW t \in RTrees, Touch(t) PROVE RecheckInv' /\ AtInv' /\ SteadyInv'
  <2>1. \A u \in RTrees : rtree'[u].here = rtree[u].here /\ rtree'[u].use = rtree[u].use
                          /\ (u # t => rtree'[u] = rtree[u])
    BY <1>3 DEF Touch
  <2>2. UNCHANGED <<rpass, inventory, steady>> /\ late' = (late \/ (rpass.phase = "remove" /\ rpass.at = t))
    BY <1>3 DEF Touch
  <2>3. RecheckInv' /\ AtInv'
    BY <2>1, <2>2 DEF RecheckInv, AtInv, Custody
  <2>4. SteadyInv'
    BY <2>1, <2>2 DEF SteadyInv, Pending
  <2>. QED  BY <2>3, <2>4
<1>4. ASSUME NEW t \in RTrees, Replace(t) PROVE RecheckInv' /\ AtInv' /\ SteadyInv'
  <2>1. \A u \in RTrees : u # t => rtree'[u] = rtree[u]
    BY <1>4 DEF Replace
  <2>2. /\ rtree[t].use = "none" /\ rtree'[t].here /\ UNCHANGED <<inventory, steady>>
        /\ late' = (late \/ (rpass.phase = "remove" /\ rpass.at = t))
        /\ rpass'.phase = rpass.phase /\ rpass'.at = rpass.at /\ rpass'.chosen = rpass.chosen
    BY <1>4 DEF Replace
  <2>3. RecheckInv' /\ AtInv'
    BY <2>1, <2>2 DEF RecheckInv, AtInv, Custody
  <2>4. SteadyInv'
    BY <2>1, <2>2 DEF SteadyInv, Pending
  <2>. QED  BY <2>3, <2>4
<1>5. CASE RTick
  <2>1. \A u \in RTrees : /\ rtree'[u].here = rtree[u].here /\ rtree'[u].use = rtree[u].use
                          /\ rtree'[u].custody = rtree[u].custody
                          /\ rtree[u].here /\ rtree[u].age = RMaxAge => rtree'[u].age = RMaxAge
    BY <1>5 DEF RTick
  <2>2. /\ inventory'.within = inventory.within /\ inventory'.blocked = inventory.blocked
        /\ UNCHANGED <<rpass, steady, late>>
    BY <1>5 DEF RTick
  <2>3. RecheckInv' /\ AtInv'
    BY <2>1, <2>2 DEF RecheckInv, AtInv, Custody
  <2>4. SteadyInv'
    BY <2>1, <2>2 DEF SteadyInv, Pending
  <2>. QED  BY <2>3, <2>4
<1>. QED
  BY <1>1, <1>2, <1>3, <1>4, <1>5

\* The invariant is inductive.
LEMMA RInvStep == RInv /\ [RNext]_rvars => RInv'
<1> SUFFICES ASSUME RInv, [RNext]_rvars PROVE RInv'
  OBVIOUS
<1>1. RTypeOK'
  BY RTypeStep DEF RInv
<1>2. CASE UNCHANGED rvars
  BY <1>1, <1>2 DEF RInv, rvars, RecheckInv, AtInv, SteadyInv, Pending, Custody
<1>3. CASE RNext
  BY <1>1, <1>3, RPassStep, RHostStep DEF RNext, RInv
<1>. QED  BY <1>2, <1>3

\* For any number of trees and roots, and however old the plan, a retention pass
\* removes only what its recheck found stale and unclaimed, and nothing in use
\* that its last look at the processes could see (RemoveTree, recheck).
THEOREM RetentionIsSafe == RSpec => RetentionSafe
<1>1. RInv /\ RInv' /\ [RNext]_rvars =>
        [\A t \in RTrees : RGone(t) => late \/ (rtree[t].age = RMaxAge /\ ~ Custody(t))]_rvars
  BY OnlyRemoveTree DEF RInv, RecheckInv, RemoveTree
<1>2. RInv /\ RInv' /\ [RNext]_rvars =>
        [\A t \in RTrees :
           RGone(t) /\ t \in steady => rtree[t].use = "held" /\ RRootOf[t] \notin inventory.within]_rvars
  BY OnlyRemoveTree DEF RInv, RecheckInv, SteadyInv, Pending, RemoveTree
<1>. QED
  BY <1>1, <1>2, RInvInit, RInvStep, PTL DEF RSpec, RetentionSafe, StaleWhenRemoved, SeenUseKept
-----------------------------------------------------------------------------
(* compressAgentTranscript keeps every line and one archived copy          *)
(* (Transcripts).                                                          *)

\* While a copy is made there is no archived one, and the copy, wherever it is,
\* holds what the original holds but for the lines that slipped in.
CopyInv ==
  /\ zip.at \in {"copy", "rename"} => \A c \in Codecs : ~ compressed[c].there
  /\ zip.at # "idle" => zip.codec \in Codecs
  /\ zip.at = "rename" => scratch.there /\ original.lines \subseteq scratch.lines \cup slipped
  /\ zip.at = "remove" => original.lines \subseteq compressed[zip.codec].lines \cup slipped

\* At most one archived copy, and nothing in one that is not there.
ArchiveInv ==
  /\ \A c, d \in Codecs : compressed[c].there /\ compressed[d].there => c = d
  /\ \A c \in Codecs : ~ compressed[c].there => compressed[c].lines = {}

\* LinesKept without the union.
EveryLine ==
  \A n \in 1..written : n \in original.lines \/ n \in slipped \/ \E c \in Codecs : n \in compressed[c].lines

TInv == TTypeOK /\ CopyInv /\ ArchiveInv /\ EveryLine

\* The invariant holds of a transcript that was never compressed (TInit).
LEMMA TInvInit == TInit => TInv
BY TranscriptsAssumption
DEF TInit, TInv, TTypeOK, Content, NoFile, Zipless, CopyInv, ArchiveInv, EveryLine

\* Every call of a compression, its failure, a crash and the agent keep it.
LEMMA TInvStep == TInv /\ [TNext]_tvars => TInv'
<1> SUFFICES ASSUME TInv, [TNext]_tvars PROVE TInv'
  OBVIOUS
<1> USE TranscriptsAssumption DEF TInv, TTypeOK, Content
<1>1. CASE FindTranscript
  BY <1>1 DEF FindTranscript, CopyInv, ArchiveInv, EveryLine
<1>2. CASE CheckArchived
  BY <1>2 DEF CheckArchived, AlreadyArchived, Zipless, CopyInv, ArchiveInv, EveryLine
<1>3. CASE CopyLines
  BY <1>3 DEF CopyLines, CopyInv, ArchiveInv, EveryLine
<1>4. CASE CopyFails
  BY <1>4 DEF CopyFails, Zipless, NoFile, CopyInv, ArchiveInv, EveryLine
<1>5. CASE RenameCopy
  <2>1. TTypeOK'
    BY <1>5 DEF RenameCopy, NoFile
  <2>2. CopyInv'
    BY <1>5 DEF RenameCopy, NoFile, CopyInv
  <2>3. ArchiveInv'
    <3>1. \A c \in Codecs : c # zip.codec => compressed'[c] = compressed[c] /\ ~ compressed[c].there
      BY <1>5 DEF RenameCopy, CopyInv
    <3>2. zip.codec \in Codecs /\ compressed'[zip.codec].there
      BY <1>5 DEF RenameCopy, CopyInv
    <3>. QED  BY <3>1, <3>2 DEF ArchiveInv
  <2>4. EveryLine'
    <3>1. \A c \in Codecs : compressed[c].lines = {}
      BY <1>5 DEF RenameCopy, CopyInv, ArchiveInv
    <3>2. \A n \in 1..written : n \in original.lines \/ n \in slipped
      BY <3>1 DEF EveryLine
    <3>. QED  BY <3>2, <1>5 DEF RenameCopy, EveryLine
  <2>. QED  BY <2>1, <2>2, <2>3, <2>4
<1>6. CASE RemoveOriginal
  <2>. original' \in Content
    <3>1. {} \in SUBSET (1..MaxLines)
      OBVIOUS
    <3>2. NoFile \in Content
      BY <3>1 DEF NoFile
    <3>. QED  BY <1>6, <3>2 DEF RemoveOriginal
  <2>1. TTypeOK'
    BY <1>6 DEF RemoveOriginal, Zipless
  <2>2. CopyInv' /\ ArchiveInv'
    BY <1>6 DEF RemoveOriginal, Zipless, CopyInv, ArchiveInv
  <2>3. \A n \in original.lines : n \in slipped \/ n \in compressed[zip.codec].lines
    BY <1>6 DEF RemoveOriginal, CopyInv
  <2>4. zip.codec \in Codecs
    BY <1>6 DEF RemoveOriginal, CopyInv
  <2>5. EveryLine'
    BY <1>6, <2>3, <2>4 DEF RemoveOriginal, NoFile, EveryLine
  <2>. QED  BY <2>1, <2>2, <2>5
<1>7. CASE ZipCrash
  BY <1>7 DEF ZipCrash, Zipless, NoFile, CopyInv, ArchiveInv, EveryLine
<1>8. CASE AppendLine
  <2>1. TTypeOK'
    BY <1>8 DEF AppendLine
  <2>2. CopyInv' /\ ArchiveInv'
    BY <1>8 DEF AppendLine, CopyInv, ArchiveInv
  <2>3. EveryLine'
    BY <1>8 DEF AppendLine, EveryLine
  <2>. QED  BY <2>1, <2>2, <2>3
<1>9. CASE AgentChanges
  BY <1>9 DEF AgentChanges, CopyInv, ArchiveInv, EveryLine
<1>10. CASE TranscriptAges
  BY <1>10 DEF TranscriptAges, CopyInv, ArchiveInv, EveryLine
<1>11. CASE UNCHANGED tvars
  BY <1>11 DEF tvars, CopyInv, ArchiveInv, EveryLine
<1>. QED
  BY <1>1, <1>2, <1>3, <1>4, <1>5, <1>6, <1>7, <1>8, <1>9, <1>10, <1>11 DEF TNext

\* The archived copies are none or a single one.
LEMMA AtMostOne == TInv => OneCopy
<1> SUFFICES ASSUME TInv PROVE OneCopy
  OBVIOUS
<1> DEFINE S == {c \in Codecs : compressed[c].there}
<1>1. CASE S = {}
  <2>1. Cardinality(S) = 0
    BY <1>1, FS_EmptySet
  <2>. QED  BY <2>1 DEF OneCopy
<1>2. ASSUME NEW c \in S PROVE OneCopy
  <2>1. \A d \in S : d = c
    BY <1>2 DEF TInv, ArchiveInv
  <2>2. S = {c}
    BY <1>2, <2>1
  <2>3. Cardinality(S) = 1
    BY <2>2, FS_Singleton
  <2>. QED  BY <2>3 DEF OneCopy
<1>. QED  BY <1>1, <1>2

\* For any number of lines and codecs, whatever call fails and wherever the daemon
\* stops, compressAgentTranscript loses no line written before its copy was made
\* and leaves one archived copy.
THEOREM TranscriptIsKept == TSpec => []TranscriptKept
<1>1. TInv => LinesKept
  BY DEF TInv, EveryLine, LinesKept
<1>2. TInv => TranscriptKept
  BY <1>1, AtMostOne DEF TranscriptKept
<1>. QED
  BY <1>2, TInvInit, TInvStep, PTL DEF TSpec
-----------------------------------------------------------------------------
(* The archive staging lifecycle (ArchiveStaging). *)

Counterpart == [form: Forms, version: Versions \cup {0}]

APassType ==
  [phase: {"idle", "reconcile", "retire", "remove"}, next: Nat, budget: Nat, retire: SUBSET AGroups,
   at: AGroups \cup {0}]

ATypeOK ==
  /\ staged \in [AGroups -> [AFiles -> {0} \cup Versions]]
  /\ archived \in [AGroups -> [AFiles -> Counterpart]]
  /\ apass \in APassType /\ lateFile \subseteq AFiles

\* The group at hand: what it still holds is proved by the archive, or changed since.
GroupProved ==
  apass.phase = "remove" =>
    /\ apass.at \in AGroups
    /\ \A f \in AFiles : staged[apass.at][f] # 0 => ProvesSize(apass.at, f) \/ f \in lateFile

StagingInv == ATypeOK /\ GroupProved

LEMMA StagingInvInit == AInit => StagingInv
<1> SUFFICES ASSUME AInit PROVE StagingInv
  OBVIOUS
<1>1. AQuiet \in APassType /\ AQuiet.phase = "idle"
  BY ArchiveAssumption DEF AQuiet, APassType
<1>2. \A c \in {[form |-> "none", version |-> 0]} \cup [form : Forms \ {"none"}, version : Versions] : c \in Counterpart
  BY DEF Counterpart, Forms
<1>. QED  BY <1>1, <1>2 DEF AInit, StagingInv, ATypeOK, GroupProved

\* The steps of a pass before the removal, and its end.
LEMMA PassInv ==
  ASSUME StagingInv, AStart \/ Reconcile \/ ReconcileDone \/ RemoveEnds \/ ADone
  PROVE  StagingInv'
<1> USE DEF StagingInv
<1>1. AQuiet \in APassType /\ AQuiet.phase = "idle"
  BY ArchiveAssumption DEF AQuiet, APassType
<1>2. UNCHANGED <<staged, archived>> /\ lateFile' \subseteq AFiles
  BY DEF AStart, Reconcile, ReconcileDone, RemoveEnds, ADone, ATypeOK
<1>3. apass' \in APassType /\ apass'.phase # "remove"
  <2>1. CASE AStart
    BY <1>1, <2>1 DEF AStart, APassType
  <2>2. CASE Reconcile
    <3> DEFINE spent == IF GroupExists(apass.next) THEN apass.budget - 1 ELSE apass.budget
               due == IF VerifiedGroup(apass.next) /\ Aged(apass.next)
                      THEN apass.retire \cup {apass.next} ELSE apass.retire
    <3>1. /\ apass \in APassType /\ apass.phase = "reconcile"
          /\ apass' = [apass EXCEPT !.next = apass.next + 1, !.budget = spent, !.retire = due]
      BY <2>2 DEF Reconcile, ATypeOK
    <3>2. apass.next + 1 \in Nat /\ spent \in Nat /\ due \in SUBSET AGroups
      BY <2>2, <3>1 DEF Reconcile, APassType
    <3> HIDE DEF spent, due
    <3>. QED  BY <3>1, <3>2 DEF APassType
  <2>3. CASE ReconcileDone
    BY <2>3 DEF ReconcileDone, APassType, ATypeOK
  <2>4. CASE RemoveEnds
    BY <2>4 DEF RemoveEnds, APassType, ATypeOK
  <2>5. CASE ADone
    BY <1>1, <2>5 DEF ADone
  <2>. QED  BY <2>1, <2>2, <2>3, <2>4, <2>5
<1>. QED  BY <1>2, <1>3 DEF ATypeOK, GroupProved

\* A group that is verified again goes with a proof for every file.
LEMMA ReverifyInv == ASSUME StagingInv, NEW g \in AGroups, Reverify(g) PROVE StagingInv'
<1> USE DEF StagingInv
<1>1. UNCHANGED <<staged, archived>> /\ lateFile' = {}
  BY DEF Reverify
<1>2. apass' \in APassType /\ (apass'.phase = "remove" => apass'.at = g /\ VerifiedGroup(g))
  BY DEF Reverify, APassType, ATypeOK
<1>. QED  BY <1>1, <1>2 DEF ATypeOK, GroupProved, VerifiedGroup, Holds, ProvesSize

\* Programs stage and archive: a change in the group at hand is known to be late.
LEMMA ProgramInv ==
  ASSUME StagingInv, NEW g \in AGroups, NEW f \in AFiles,
         \/ \E v \in Versions : Stage(g, f, v)
         \/ \E form \in Forms \ {"none"} : ArchiveFile(g, f, form)
  PROVE  StagingInv'
<1> USE DEF StagingInv
<1>1. UNCHANGED apass /\ lateFile' = (IF apass.at = g THEN lateFile \cup {f} ELSE lateFile)
  BY DEF Stage, ArchiveFile, Late
<1> DEFINE Effect ==
      /\ staged' \in [AGroups -> [AFiles -> {0} \cup Versions]] /\ archived' \in [AGroups -> [AFiles -> Counterpart]]
      /\ \A h \in AGroups, e \in AFiles : (h # g \/ e # f) =>
           staged'[h][e] = staged[h][e] /\ archived'[h][e] = archived[h][e]
<1>2. Effect
  <2>1. ASSUME NEW v \in Versions, Stage(g, f, v) PROVE Effect
    BY <2>1 DEF Stage, ATypeOK
  <2>2. ASSUME NEW form \in Forms \ {"none"}, ArchiveFile(g, f, form) PROVE Effect
    <3> DEFINE c == [form |-> form, version |-> staged[g][f]]
    <3>1. c \in Counterpart
      BY DEF Counterpart, ATypeOK
    <3>2. archived' = [archived EXCEPT ![g][f] = c] /\ UNCHANGED staged
      BY <2>2 DEF ArchiveFile
    <3> HIDE DEF c
    <3>. QED  BY <3>1, <3>2 DEF ATypeOK
  <2>. QED  BY <2>1, <2>2
<1>3. ATypeOK'
  BY <1>1, <1>2 DEF ATypeOK
<1>. QED  BY <1>1, <1>2, <1>3 DEF ATypeOK, GroupProved, ProvesSize

LEMMA StagingInvStep == StagingInv /\ [ANext]_avars => StagingInv'
<1> SUFFICES ASSUME StagingInv, [ANext]_avars PROVE StagingInv'
  OBVIOUS
<1>1. ASSUME NEW f \in AFiles, RemoveStaged(f) PROVE StagingInv'
  BY <1>1 DEF RemoveStaged, StagingInv, ATypeOK, GroupProved, ProvesSize
<1>2. CASE Mount \/ ATick \/ UNCHANGED avars
  BY <1>2 DEF Mount, ATick, avars, StagingInv, ATypeOK, GroupProved, ProvesSize
<1>. QED  BY <1>1, <1>2, PassInv, ReverifyInv, ProgramInv DEF ANext, Pass

\* For any number of groups and files, whatever is staged, archived or unmounted during a
\* pass: removeArchiveStagingTree takes only files whose archived counterpart declares their
\* size, but for what changed after the group was verified again.
THEOREM StagingIsSized == ASpec => RetiredIsSized
<1>1. StagingInv /\ [ANext]_avars =>
        [\A g \in AGroups, f \in AFiles :
           staged[g][f] # 0 /\ staged'[g][f] = 0 => ProvesSize(g, f) \/ f \in lateFile]_avars
  <2> SUFFICES ASSUME StagingInv, [ANext]_avars, NEW g \in AGroups, NEW f \in AFiles,
                      staged[g][f] # 0, staged'[g][f] = 0
               PROVE  ProvesSize(g, f) \/ f \in lateFile
    OBVIOUS
  <2>1. ASSUME NEW e \in AFiles, RemoveStaged(e) PROVE apass.phase = "remove" /\ apass.at = g
    BY <2>1 DEF RemoveStaged, StagingInv, ATypeOK, GroupProved
  <2>2. ASSUME NEW h \in AGroups, NEW e \in AFiles, NEW v \in Versions, Stage(h, e, v) PROVE FALSE
    BY <2>2, ArchiveAssumption DEF Stage, StagingInv, ATypeOK
  <2>3. UNCHANGED staged \/ (apass.phase = "remove" /\ apass.at = g)
    BY <2>1, <2>2 DEF ANext, Pass, AStart, Reconcile, ReconcileDone, Reverify, RemoveEnds, ADone,
       ArchiveFile, Mount, ATick, avars
  <2>. QED  BY <2>3 DEF StagingInv, GroupProved
<1>2. ASpec => []StagingInv
  BY StagingInvInit, StagingInvStep, PTL DEF ASpec
<1>. QED  BY <1>1, <1>2, PTL DEF ASpec, RetiredIsSized
-----------------------------------------------------------------------------
(* The deleting lanes of dev-artifacts and shm scratch (DevLanes). *)

USE DEF Uses

Tree == [lane: Lanes, here: BOOLEAN, content: {"old", "deep", "shallow"}, top: BOOLEAN,
         use: Uses, git: {"none", "clean", "precious"},
         receipt: {"none", "claimed", "released"}]

LanePass == [at: {"idle", "plan", "measured", "remove"}, young: BOOLEAN, seen: BOOLEAN, blind: BOOLEAN,
             same: BOOLEAN, held: Uses, late: BOOLEAN]

\* Lanes that recheck everything, that refuse a tree seen in use before the walk, and after it.
Rechecking == {"disposable", "generated", "shm"}
EarlyRefusal == {"disposable", "session", "nix", "generated", "shm"}
LateRefusal == {"worktree", "artifact", "zig"}

DTypeOK == dtree \in Tree /\ pass \in LanePass

\* What the last check found, while nothing has changed since.
CheckInv ==
  pass.at = "remove" /\ ~ pass.late =>
    /\ dtree.lane \in Rechecking => pass.same /\ IdleTree /\ dtree.use = "none" /\ dtree.git = "none"
    /\ dtree.lane = "disposable" => dtree.receipt = "released"
    /\ dtree.lane = "session" => ~ dtree.top

\* A use that goes on since the look was seen, but where a look may miss it and did; and
\* a tree seen in use does not come to its removal.
SeenInv ==
  /\ pass.at # "idle" /\ Visible(pass.held) =>
       pass.seen \/ (pass.blind /\ MayMiss(pass.held))
  /\ pass.at \in {"measured", "remove"} /\ dtree.lane \in EarlyRefusal => ~ pass.seen
  /\ pass.at = "remove" /\ dtree.lane \in LateRefusal => ~ pass.seen

LanesInv == DTypeOK /\ CheckInv /\ SeenInv

LEMMA NoPassFacts == NoPass \in LanePass /\ NoPass.at = "idle"
  BY DEF NoPass, LanePass

LEMMA LanesInvInit == DInit => LanesInv
  BY NoPassFacts DEF DInit, LanesInv, DTypeOK, TreeNow, Tree, CheckInv, SeenInv

\* A step that ends the pass.
LEMMA EndedInv == ASSUME LanesInv, dtree' \in Tree, pass' = NoPass PROVE LanesInv'
  BY NoPassFacts DEF LanesInv, DTypeOK, CheckInv, SeenInv

\* The look when a pass begins sees every use that the lane can see and that it does
\* not miss.
LEMMA LookSees ==
  ASSUME DTypeOK, NEW seen \in Looks
  PROVE  /\ seen \in BOOLEAN
         /\ Visible(dtree.use) => seen \/ MayMiss(dtree.use)
<1>1. CASE Visible(dtree.use) /\ ~ MayMiss(dtree.use)
  <2>1. CASE dtree.lane \in Artifacts
    <3>1. dtree.use \in {"argv", "cwd"} /\ Looks = FamilyLooks
      BY <1>1, <2>1 DEF Visible, Looks, Artifacts, MayMiss
    <3>2. FamilyLooks = {TRUE}
      BY <3>1, Zenon DEF FamilyLooks
    <3>. QED  BY <3>1, <3>2
  <2>2. CASE dtree.lane \notin Artifacts
    <3>1. dtree.use # "none" /\ Looks = TempLooks
      BY <1>1, <2>2 DEF Visible, Looks, Artifacts, MayMiss
    <3>2. TempLooks = {TRUE}
      BY <3>1, Zenon DEF TempLooks
    <3>. QED  BY <3>1, <3>2
  <2>. QED  BY <2>1, <2>2
<1>2. CASE ~ (Visible(dtree.use) /\ ~ MayMiss(dtree.use))
  <2>1. Looks \in {FamilyLooks, SessionLooks, WorktreeLooks, TempLooks}
    BY DEF Looks
  <2>2. /\ FamilyLooks \subseteq BOOLEAN /\ SessionLooks \subseteq BOOLEAN
        /\ WorktreeLooks \subseteq BOOLEAN /\ TempLooks \subseteq BOOLEAN
    <3>1. FamilyLooks \subseteq BOOLEAN
      BY DEF FamilyLooks
    <3>2. SessionLooks \subseteq BOOLEAN
      BY DEF SessionLooks
    <3>3. WorktreeLooks \subseteq BOOLEAN
      BY DEF WorktreeLooks
    <3>4. TempLooks \subseteq BOOLEAN
      BY DEF TempLooks
    <3>. QED  BY <3>1, <3>2, <3>3, <3>4
  <2>3. seen \in BOOLEAN
    BY <2>1, <2>2
  <2>. QED  BY <1>2, <2>3
<1>. QED  BY <1>1, <1>2

LEMMA StartInv == ASSUME LanesInv, DStart PROVE LanesInv'
<1>1. PICK level \in 1..4, seen \in Looks :
        pass' = [NoPass EXCEPT !.at = "plan", !.young = dtree.lane \in Artifacts /\ level < 4,
                   !.seen = seen, !.blind = Visible(dtree.use) /\ ~ seen, !.held = dtree.use]
  BY DEF DStart
<1>2. seen \in BOOLEAN /\ (Visible(dtree.use) => seen \/ MayMiss(dtree.use))
  BY LookSees DEF LanesInv
<1>3. /\ pass' \in LanePass /\ pass'.at = "plan" /\ pass'.held = dtree.use
      /\ pass'.seen <=> seen
      /\ pass'.blind <=> Visible(dtree.use) /\ ~ seen
  <2> DEFINE young == dtree.lane \in Artifacts /\ level < 4
             blind == Visible(dtree.use) /\ ~ seen
  <2>1. pass' = [at |-> "plan", young |-> young, seen |-> seen, blind |-> blind, same |-> TRUE,
                 held |-> dtree.use, late |-> FALSE]
    BY <1>1 DEF NoPass
  <2>2. young \in BOOLEAN /\ blind \in BOOLEAN /\ dtree.use \in Uses
    BY DEF LanesInv, DTypeOK, Tree
  <2> HIDE DEF young
  <2>3. pass' \in LanePass
    BY <1>2, <2>1, <2>2 DEF LanePass
  <2>. QED  BY <2>1, <2>3
<1>4. UNCHANGED dtree
  BY DEF DStart
<1>5. DTypeOK' /\ CheckInv'
  BY <1>3, <1>4 DEF LanesInv, DTypeOK, CheckInv
<1>6. SeenInv'
  BY <1>2, <1>3, <1>4 DEF SeenInv, Visible, MayMiss
<1>. QED  BY <1>5, <1>6 DEF LanesInv

LEMMA PlanInv == ASSUME LanesInv, Plan PROVE LanesInv'
<1>1. UNCHANGED dtree /\ pass.at = "plan"
  BY DEF Plan
<1>2. CASE pass' = NoPass
  BY <1>1, <1>2, EndedInv DEF LanesInv, DTypeOK
<1>3. CASE pass' # NoPass
  <2>1. PICK again \in TempLooks, tracked \in TrackedLooks :
          Planned(again, tracked) /\ pass' = [pass EXCEPT !.at = "measured"]
    BY <1>3 DEF Plan
  <2>2. dtree.lane \in EarlyRefusal => ~ pass.seen
    BY <2>1, LanesAssumption DEF Planned, PlanDisposable, PlanSession, PlanNix, PlanGenerated, PlanShm, EarlyRefusal
  <2>3. /\ pass' \in LanePass /\ pass'.at = "measured"
        /\ pass'.seen = pass.seen /\ pass'.blind = pass.blind /\ pass'.held = pass.held
    BY <2>1 DEF LanesInv, DTypeOK, LanePass
  <2>. QED  BY <1>1, <2>2, <2>3 DEF LanesInv, DTypeOK, CheckInv, SeenInv, Visible, MayMiss
<1>. QED  BY <1>2, <1>3

LEMMA ConfirmInv == ASSUME LanesInv, Confirm PROVE LanesInv'
<1>1. UNCHANGED dtree /\ pass.at = "measured"
  BY DEF Confirm
<1>2. CASE pass' = NoPass
  BY <1>1, <1>2, EndedInv DEF LanesInv, DTypeOK
<1>3. CASE pass' # NoPass
  <2>1. PICK used \in TempLooks, guard \in WorktreeGuards, tracked \in TrackedLooks :
          Confirmed(used, guard, tracked) /\ pass' = [pass EXCEPT !.at = "remove", !.late = FALSE]
    BY <1>3 DEF Confirm
  <2>2. dtree.lane \in LateRefusal => ~ pass.seen
    BY <2>1, LanesAssumption DEF Confirmed, ConfirmWorktree, ConfirmArtifact, ConfirmZig, LateRefusal
  <2>3. dtree.lane \in Rechecking => Rechecked(used)
    BY <2>1, LanesAssumption DEF Confirmed, ConfirmDisposable, ConfirmGenerated, Rechecking
  <2>4. /\ dtree.lane = "disposable" => dtree.receipt = "released"
        /\ dtree.lane = "session" => ~ dtree.top
    BY <2>1 DEF Confirmed, ConfirmDisposable, ConfirmSession
  <2>5. ~ used => dtree.use = "none"
    BY <2>1 DEF TempLooks
  <2>6. /\ pass' \in LanePass /\ pass'.at = "remove"
        /\ pass'.seen = pass.seen /\ pass'.blind = pass.blind /\ pass'.held = pass.held /\ pass'.same = pass.same
    BY <2>1 DEF LanesInv, DTypeOK, LanePass
  <2>7. CheckInv'
    BY <1>1, <2>3, <2>4, <2>5, <2>6 DEF CheckInv, Rechecked, InCustody, IdleTree
  <2>. QED  BY <1>1, <2>2, <2>6, <2>7 DEF LanesInv, DTypeOK, SeenInv, Visible, MayMiss
<1>. QED  BY <1>2, <1>3

\* Processes and owners change the tree, never its lane: a check is late from then on.
LEMMA MeanwhileInv ==
  ASSUME LanesInv, UseChanges \/ Writes \/ GitWork \/ ReceiptChanges \/ Rebuilt
  PROVE  LanesInv'
<1>1. dtree' \in Tree /\ dtree'.lane = dtree.lane
  BY ZenonT(30) DEF UseChanges, Writes, GitWork, ReceiptChanges, Rebuilt, LanesInv, DTypeOK, Tree
<1> DEFINE removing == pass.at = "remove"
<1>2. removing \in BOOLEAN /\ pass \in LanePass
  BY DEF LanesInv, DTypeOK
<1>3. /\ pass' \in LanePass /\ pass'.at = pass.at /\ (pass'.late <=> removing)
      /\ pass'.seen = pass.seen /\ pass'.blind = pass.blind /\ pass'.held \in {pass.held, "none"}
  <2>1. \/ pass' = [pass EXCEPT !.late = removing]
        \/ pass' = [pass EXCEPT !.late = removing, !.held = "none"]
        \/ pass' = [pass EXCEPT !.late = removing, !.same = FALSE, !.held = "none"]
    BY <1>2 DEF UseChanges, Writes, GitWork, ReceiptChanges, Rebuilt, Meanwhile, LanePass
  <2> HIDE DEF removing
  <2>. QED  BY <1>2, <2>1 DEF LanePass
<1>4. CheckInv'
  BY <1>3 DEF CheckInv
<1>5. SeenInv'
  BY <1>1, <1>3 DEF LanesInv, SeenInv, Visible, MayMiss
<1>. QED  BY <1>1, <1>3, <1>4, <1>5 DEF LanesInv, DTypeOK

LEMMA LanesInvStep == LanesInv /\ [DNext]_dvars => LanesInv'
<1> SUFFICES ASSUME LanesInv, [DNext]_dvars PROVE LanesInv'
  OBVIOUS
<1>1. CASE RemovePath \/ PassEnds \/ LanesRestart
  <2>1. dtree' \in Tree /\ pass' = NoPass
    BY <1>1 DEF RemovePath, PassEnds, LanesRestart, LanesInv, DTypeOK, Tree
  <2>. QED  BY <2>1, EndedInv
<1>2. CASE UNCHANGED dvars
  BY <1>2 DEF dvars, LanesInv, DTypeOK, CheckInv, SeenInv, Visible, MayMiss, IdleTree
<1>. QED  BY <1>1, <1>2, StartInv, PlanInv, ConfirmInv, MeanwhileInv DEF DNext

\* The inductive invariant of the lanes.
THEOREM LanesInvariant == DSpec => []LanesInv
  BY LanesInvInit, LanesInvStep, PTL DEF DSpec

\* For every lane, whether git fails or not, and whatever processes do between the steps:
\* the lanes that recheck remove a tree only as their last check found it.
THEOREM NoLeaseGiven == DSpec => PlanIsNoLease
<1>1. LanesInv /\ [DNext]_dvars =>
        [Removes /\ ~ pass.late =>
           /\ dtree.lane \in {"disposable", "generated", "shm"} => pass.same /\ IdleTree /\ dtree.use = "none" /\ dtree.git = "none"
           /\ dtree.lane = "disposable" => dtree.receipt = "released"
           /\ dtree.lane = "session" => ~ dtree.top]_dvars
  BY DEF LanesInv, CheckInv, Removes, Rechecking
<1>. QED  BY <1>1, LanesInvariant, PTL DEF DSpec, PlanIsNoLease

\* For every lane: a tree in use since before the look, in a way the lane can see, is not
\* removed, but for a session or a worktree whose look failed, and an artifact whose tool
\* names another project while its own directory is not known.
THEOREM SteadyUseIsKept == DSpec => SteadyUseKept
<1>1. LanesInv /\ [DNext]_dvars =>
        [Removes /\ Visible(pass.held) => pass.blind /\ MayMiss(pass.held)]_dvars
  <2>1. dtree \in Tree => dtree.lane \in EarlyRefusal \cup LateRefusal
    BY LanesAssumption DEF Tree, EarlyRefusal, LateRefusal
  <2>. QED  BY <2>1 DEF LanesInv, DTypeOK, SeenInv, Removes
<1>. QED  BY <1>1, LanesInvariant, PTL DEF DSpec, SteadyUseKept
-----------------------------------------------------------------------------
(* The walks of dev-artifacts by turns and shares (DevWalks).              *)

\* Seen from a root that comes before two others, these keep their order.
LEMMA TurnsKeepOrder ==
  ASSUME NEW c \in 0..NRoots, NEW r \in WRoots, NEW x \in WRoots, NEW y \in WRoots,
         Turn(c, r) < Turn(c, x), Turn(c, r) < Turn(c, y)
  PROVE  Turn(c, x) < Turn(c, y) <=> Turn(r, x) < Turn(r, y)
BY WalksAssumption DEF Turn, WRoots

\* Seen from a root, its own turn comes last.
LEMMA OwnTurnIsLast ==
  ASSUME NEW r \in WRoots, NEW x \in WRoots, x # r
  PROVE  Turn(r, x) < Turn(r, r)
BY WalksAssumption DEF Turn, WRoots

\* No two roots have the same turn.
LEMMA TurnsDiffer ==
  ASSUME NEW c \in 0..NRoots, NEW x \in WRoots, NEW y \in WRoots, x # y
  PROVE  /\ Turn(c, x) \in Nat /\ Turn(c, y) \in Nat
         /\ Turn(c, x) < Turn(c, y) \/ Turn(c, y) < Turn(c, x)
BY WalksAssumption DEF Turn, WRoots

\* entryShare gives a root at least an even share q, and leaves one for the others.
LEMMA ShareIsEven ==
  ASSUME NEW left \in Nat, NEW n \in Nat \ {0}, NEW q \in Nat, left >= n * q
  PROVE  /\ EntryShare(left, n) \in Nat /\ EntryShare(left, n) >= q
         /\ \A used \in 1 .. EntryShare(left, n) :
              (IF used > left THEN 0 ELSE left - used) >= (n - 1) * q
<1> DEFINE d == (left + n - 1) \div n
<1>1. d \in Nat /\ n * d <= left + n - 1 /\ left + n - 1 < n * d + n
  OBVIOUS
<1>2. d >= q
  <2>1. SUFFICES ASSUME d + 1 <= q PROVE FALSE
    BY <1>1
  <2>2. n * (d + 1) <= n * q
    BY <1>1, <2>1
  <2> QED BY <1>1, <2>2
<1>3. d <= left \/ left = 0
  OBVIOUS
<1>4. left - d >= (n - 1) * q
  OBVIOUS
<1> QED BY <1>1, <1>2, <1>3, <1>4 DEF EntryShare, AtLeastOne

\* The share of each root, and the roots, are finite.
LEMMA RootsFinite ==
  ASSUME NEW S \in SUBSET WRoots
  PROVE  IsFiniteSet(S) /\ Cardinality(S) \in Nat
<1>1. IsFiniteSet(WRoots)
  BY WalksAssumption, FS_Interval DEF WRoots
<1>2. IsFiniteSet(S)
  BY <1>1, FS_Subset
<1> QED BY <1>2, FS_CardinalityType

LEMMA WalksInvInit == WInit => WalksInv
<1> SUFFICES ASSUME WInit PROVE WalksInv
  OBVIOUS
<1>1. WTypeOK
  <2>1. NoCursors \in [Families -> 0..NRoots]
    BY WalksAssumption DEF NoCursors
  <2>2. LaneIdle \in [phase : {"idle", "temp", "shared", "family", "roots", "after", "global"},
               family : 0..NFamilies, todo : SUBSET WRoots, from : 0..NRoots,
               seen : SUBSET WRoots, left : Nat, rotated : BOOLEAN, cut : SUBSET WRoots]
        /\ LaneIdle.phase = "idle"
    BY WalksAssumption DEF LaneIdle
  <2> QED BY <2>1, <2>2 DEF WInit, WTypeOK
<1> QED BY <1>1 DEF WInit, WalksInv, LaneIdle, PoolInv, EvenShare, TurnInv, AheadInv

\* selectWorkspaceRoots takes no more than workspace_scan_max_roots, so that an even
\* share of the entries is there for each.
LEMMA SelectionHasShares ==
  ASSUME WTypeOK, WorkspaceMaxRoots > 0, NEW c, NEW roots \in SUBSET wroots, Selects(roots, c)
  PROVE  ScanMaxEntries >= Cardinality(roots) * (ScanMaxEntries \div WorkspaceMaxRoots)
<1> DEFINE q == ScanMaxEntries \div WorkspaceMaxRoots
           k == Cardinality(roots)
<1>1. q \in Nat /\ WorkspaceMaxRoots * q <= ScanMaxEntries
  BY WalksAssumption
<1>2. k \in Nat /\ k <= WorkspaceMaxRoots
  <2>1. Cardinality(wroots) \in Nat /\ k \in Nat
    BY RootsFinite DEF WTypeOK
  <2> QED BY <2>1, WalksAssumption DEF Selects, TooMany
<1>3. k * q <= WorkspaceMaxRoots * q
  <2> HIDE DEF q, k
  <2> QED BY <1>1, <1>2, WalksAssumption
<1> QED BY <1>1, <1>2, <1>3, WalksAssumption

LEMMA BeginFamilyInv == WalksInv /\ BeginFamily => WalksInv'
<1> SUFFICES ASSUME WalksInv, BeginFamily PROVE WalksInv'
  OBVIOUS
<1> USE DEF WalksInv
<1>1. UNCHANGED <<wroots, cursorFile, cursors, watched, ahead>> /\ lane.family \in Families
      /\ cursors[lane.family] \in 0..NRoots
  BY DEF BeginFamily, WTypeOK
<1>2. CASE /\ lane'.todo = {} /\ lane'.seen = {} /\ lane'.cut = {}
           /\ lane' = [lane EXCEPT !.phase = "roots", !.todo = {}, !.seen = {}, !.cut = {}]
  <2>1. WTypeOK'
    BY <1>1, <1>2 DEF WTypeOK
  <2>2. PoolInv'
    <3>1. lane'.left \in Nat /\ Cardinality(lane'.todo) = 0
      BY <1>2, <2>1, FS_EmptySet DEF WTypeOK
    <3>2. WorkspaceMaxRoots > 0 => ScanMaxEntries \div WorkspaceMaxRoots \in Nat
      BY WalksAssumption
    <3> QED BY <3>1, <3>2 DEF PoolInv
  <2>3. AheadInv'
    BY <1>1, <1>2 DEF AheadInv, BeginFamily
  <2> QED BY <1>2, <2>1, <2>2, <2>3 DEF EvenShare, TurnInv
<1>3. ASSUME NEW roots \in SUBSET wroots, Selects(roots, cursors[lane.family]),
             lane' = [lane EXCEPT !.phase = "roots", !.todo = roots, !.seen = wroots, !.cut = {},
                       !.from = IF TooMany THEN cursors[lane.family] ELSE 0,
                       !.left = ScanMaxEntries, !.rotated = TooMany]
      PROVE  WalksInv'
  <2>0. /\ lane'.phase = "roots" /\ lane'.todo = roots /\ lane'.seen = wroots /\ lane'.cut = {}
        /\ lane'.left = ScanMaxEntries /\ lane'.family = lane.family
        /\ lane'.rotated <=> TooMany
        /\ TooMany => lane'.from = cursors[lane.family]
    BY <1>3 DEF WTypeOK
  <2>1. WTypeOK'
    <3>1. TooMany \in BOOLEAN
      BY DEF TooMany
    <3>2. (IF TooMany THEN cursors[lane.family] ELSE 0) \in 0..NRoots
      BY <1>1, WalksAssumption
    <3> HIDE DEF TooMany
    <3> QED BY <1>1, <1>3, <3>1, <3>2, WalksAssumption DEF WTypeOK
  <2>2. PoolInv'
    BY <1>3, <2>0, SelectionHasShares DEF PoolInv
  <2>3. TurnInv'
    BY <1>1, <1>3, <2>0 DEF TurnInv, Selects
  <2>4. AheadInv'
    <3>1. ahead => /\ watched.waiter \in wroots
                   /\ Turn(cursorFile[watched.family], watched.waiter)
                        < Turn(cursorFile[watched.family], watched.other)
                   /\ cursors[watched.family] = cursorFile[watched.family]
      BY DEF AheadInv, BeginFamily
    <3> QED BY <1>1, <2>0, <3>1 DEF AheadInv
  <2> QED BY <2>0, <2>1, <2>2, <2>3, <2>4 DEF EvenShare
<1> QED BY <1>2, <1>3 DEF BeginFamily, WTypeOK

\* Seen from the cursor, the root to be walked next has its turn before every other
\* root that the lane knows.
LEMMA NextIsFirst ==
  ASSUME WalksInv, lane.phase = "roots", lane.rotated, NEW r, IsNext(r),
         NEW s \in lane.seen, s # r
  PROVE  Turn(cursors[lane.family], r) < Turn(cursors[lane.family], s)
<1>1. r \in WRoots /\ s \in WRoots /\ lane.from \in 0..NRoots
  BY DEF WalksInv, WTypeOK, IsNext
<1>2. r \in lane.todo /\ (s \in lane.todo => Turn(lane.from, r) <= Turn(lane.from, s))
  BY DEF IsNext
<1>3. s \in lane.todo => Turn(lane.from, r) < Turn(lane.from, s)
  BY <1>1, <1>2, TurnsDiffer
<1> QED BY <1>2, <1>3 DEF WalksInv, TurnInv

\* What one walk does.
LEMMA WalkEffect ==
  ASSUME WTypeOK, NEW r, WalkRoot(r)
  PROVE  /\ r \in lane.todo /\ lane.phase = "roots" /\ lane'.phase = "roots"
         /\ r \in WRoots /\ lane.family \in Families
         /\ lane'.todo = lane.todo \ {r} /\ lane'.seen = lane.seen /\ lane'.from = lane.from
         /\ lane'.family = lane.family /\ (lane'.rotated <=> lane.rotated)
         /\ cursors' = [cursors EXCEPT ![lane.family] = r]
         /\ UNCHANGED <<wroots, watched>>
         /\ \E saved \in BOOLEAN :
              /\ cursorFile' = IF saved THEN cursors' ELSE cursorFile
              /\ ahead' = Overtakes(lane.family, r, saved)
         /\ lane' = [lane EXCEPT !.todo = lane.todo \ {r}, !.left = lane'.left, !.cut = lane'.cut]
         /\ \E used \in 1 .. EntryShare(lane.left, Cardinality(lane.todo)) :
              lane'.left = IF used > lane.left THEN 0 ELSE lane.left - used
         /\ lane'.cut = lane.cut
            \/ (lane'.cut = lane.cut \cup {r}
                /\ EntriesOf[r] > EntryShare(lane.left, Cardinality(lane.todo)))
<1> DEFINE share == EntryShare(lane.left, Cardinality(lane.todo))
           short == EntriesOf[r] > share
<1>1. r \in lane.todo /\ lane.phase = "roots" /\ r \in WRoots /\ lane.family \in Families
  BY DEF WTypeOK, WalkRoot, IsNext
<1>2. PICK used \in 1..(IF short THEN share ELSE EntriesOf[r]) :
        /\ lane' = [lane EXCEPT !.todo = @ \ {r}, !.left = IF used > @ THEN 0 ELSE @ - used,
                         !.cut = IF short /\ used = share THEN @ \cup {r} ELSE @]
        /\ cursors' = [cursors EXCEPT ![lane.family] = r]
        /\ \E saved \in BOOLEAN :
              /\ cursorFile' = IF saved THEN cursors' ELSE cursorFile
              /\ ahead' = Overtakes(lane.family, r, saved)
  BY DEF WalkRoot
<1>3. used \in 1 .. share
  <2>1. share \in Nat
    <3>1. Cardinality(lane.todo) \in Nat \ {0} /\ lane.left \in Nat
      <4>1. lane.todo \in SUBSET WRoots /\ lane.left \in Nat
        BY DEF WTypeOK
      <4>2. IsFiniteSet(lane.todo) /\ Cardinality(lane.todo) \in Nat
        BY <4>1, RootsFinite
      <4> QED BY <1>1, <4>1, <4>2, FS_EmptySet
    <3> QED BY <3>1 DEF EntryShare, AtLeastOne
  <2>2. EntriesOf[r] \in Nat
    BY <1>1, WalksAssumption DEF WRoots
  <2> HIDE DEF share
  <2> QED BY <2>1, <2>2
<1> HIDE DEF share
<1>4. /\ lane'.phase = lane.phase /\ lane'.todo = lane.todo \ {r} /\ lane'.seen = lane.seen
      /\ lane'.from = lane.from /\ lane'.family = lane.family /\ lane'.rotated = lane.rotated
      /\ lane'.left = IF used > lane.left THEN 0 ELSE lane.left - used
      /\ lane'.cut = IF short /\ used = share THEN lane.cut \cup {r} ELSE lane.cut
      /\ lane' = [lane EXCEPT !.todo = lane.todo \ {r}, !.left = lane'.left, !.cut = lane'.cut]
  BY <1>2 DEF WTypeOK
<1> QED BY <1>1, <1>2, <1>3, <1>4 DEF WalkRoot, share

LEMMA WalkRootInv ==
  ASSUME WalksInv, NEW r \in WRoots, WalkRoot(r)
  PROVE  WalksInv'
<1> DEFINE n == Cardinality(lane.todo)
           q == ScanMaxEntries \div WorkspaceMaxRoots
           c == cursors[lane.family]
<1>0. WTypeOK
  BY DEF WalksInv
<1>1. /\ r \in lane.todo /\ lane.phase = "roots" /\ lane'.phase = "roots" /\ lane.family \in Families
      /\ lane'.todo = lane.todo \ {r} /\ lane'.seen = lane.seen /\ lane'.from = lane.from
      /\ lane'.family = lane.family /\ (lane'.rotated <=> lane.rotated)
      /\ cursors' = [cursors EXCEPT ![lane.family] = r]
      /\ UNCHANGED <<wroots, watched>>
  BY <1>0, WalkEffect
<1>2. PICK saved \in BOOLEAN : /\ cursorFile' = IF saved THEN cursors' ELSE cursorFile
                               /\ ahead' = Overtakes(lane.family, r, saved)
  BY <1>0, WalkEffect
<1>3. PICK used \in 1 .. EntryShare(lane.left, n) :
        lane'.left = IF used > lane.left THEN 0 ELSE lane.left - used
  BY <1>0, WalkEffect
<1>4. /\ lane' = [lane EXCEPT !.todo = lane.todo \ {r}, !.left = lane'.left, !.cut = lane'.cut]
      /\ lane'.cut = lane.cut
         \/ (lane'.cut = lane.cut \cup {r} /\ EntriesOf[r] > EntryShare(lane.left, n))
  BY <1>0, WalkEffect
<1>5. /\ lane.left \in Nat /\ lane.todo \in SUBSET WRoots /\ c \in 0..NRoots
      /\ n \in Nat \ {0} /\ Cardinality(lane'.todo) = n - 1
  <2>1. lane.left \in Nat /\ lane.todo \in SUBSET WRoots /\ c \in 0..NRoots
    BY <1>0, <1>1 DEF WTypeOK
  <2>2. IsFiniteSet(lane.todo) /\ n \in Nat
    BY <2>1, RootsFinite
  <2>3. n # 0
    BY <1>1, <2>2, FS_EmptySet
  <2>4. Cardinality(lane.todo \ {r}) = n - 1
    BY <1>1, <2>2, FS_RemoveElement
  <2> QED BY <1>1, <2>1, <2>2, <2>3, <2>4
<1>6. EntryShare(lane.left, n) \in Nat
  BY <1>5 DEF EntryShare, AtLeastOne
<1> HIDE DEF n
<1>7. WTypeOK'
  <2>1. cursors' \in [Families -> 0..NRoots]
    BY <1>0, <1>1, WalksAssumption DEF WTypeOK, WRoots
  <2>2. cursorFile' \in [Families -> 0..NRoots]
    BY <1>0, <1>2, <2>1 DEF WTypeOK
  <2>3. lane'.left \in Nat
    BY <1>3, <1>5, <1>6
  <2>4. lane'.cut \in SUBSET WRoots
    BY <1>0, <1>4 DEF WTypeOK
  <2>5. ahead' \in BOOLEAN
    BY <1>0, <1>2 DEF Overtakes, WTypeOK
  <2> QED BY <1>0, <1>1, <1>4, <2>1, <2>2, <2>3, <2>4, <2>5 DEF WTypeOK
<1>8. PoolInv' /\ EvenShare'
  <2> SUFFICES ASSUME WorkspaceMaxRoots > 0
               PROVE  /\ lane'.left >= Cardinality(lane'.todo) * q
                      /\ \A s \in lane'.cut : EntriesOf[s] > q
    BY DEF PoolInv, EvenShare
  <2>1. q \in Nat
    BY WalksAssumption
  <2> HIDE DEF q
  <2>2. lane.left >= n * q /\ \A s \in lane.cut : EntriesOf[s] > q
    BY <1>1 DEF WalksInv, PoolInv, EvenShare, n, q
  <2>3. /\ EntryShare(lane.left, n) >= q
        /\ \A u \in 1 .. EntryShare(lane.left, n) :
             (IF u > lane.left THEN 0 ELSE lane.left - u) >= (n - 1) * q
    BY <1>5, <2>1, <2>2, ShareIsEven
  <2>4. lane'.left >= (n - 1) * q
    BY <1>3, <2>3
  <2>5. EntriesOf[r] \in Nat
    BY WalksAssumption DEF WRoots
  <2>6. \A s \in lane'.cut : EntriesOf[s] > q
    BY <1>4, <1>6, <2>1, <2>2, <2>3, <2>5
  <2> QED BY <1>5, <2>4, <2>6
<1>9. cursors'[lane.family] = r /\ (watched.family # lane.family
        => cursors'[watched.family] = cursors[watched.family])
  BY <1>0, <1>1 DEF WTypeOK
<1>10. ASSUME lane.rotated, NEW s \in lane.seen, s # r PROVE Turn(c, r) < Turn(c, s)
  BY <1>1, <1>10, NextIsFirst DEF WalkRoot
<1>11. TurnInv'
  <2> SUFFICES ASSUME lane.rotated, NEW x \in lane.todo \ {r}, NEW y \in lane.seen
               PROVE  IF y \in lane.todo \ {r}
                      THEN Turn(lane.from, x) < Turn(lane.from, y) <=> Turn(r, x) < Turn(r, y)
                      ELSE Turn(r, x) < Turn(r, y)
    BY <1>1, <1>9 DEF TurnInv
  <2>1. x \in lane.seen /\ x \in WRoots /\ y \in WRoots /\ x # r
    BY <1>0 DEF WalksInv, WTypeOK
  <2>2. CASE y = r
    BY <2>1, <2>2, OwnTurnIsLast
  <2>3. CASE y # r
    <3>1. Turn(c, x) < Turn(c, y) <=> Turn(r, x) < Turn(r, y)
      BY <1>5, <1>10, <2>1, <2>3, TurnsKeepOrder
    <3>2. IF y \in lane.todo
          THEN Turn(lane.from, x) < Turn(lane.from, y) <=> Turn(c, x) < Turn(c, y)
          ELSE Turn(c, x) < Turn(c, y)
      BY <1>1 DEF WalksInv, TurnInv
    <3> QED BY <2>3, <3>1, <3>2
  <2> QED BY <2>2, <2>3
<1>12. AheadInv'
  <2> SUFFICES ASSUME ahead'
               PROVE  /\ watched.waiter \in wroots
                      /\ Turn(cursorFile'[watched.family], watched.waiter)
                           < Turn(cursorFile'[watched.family], watched.other)
                      /\ cursors'[watched.family] = cursorFile'[watched.family]
                      /\ lane.family = watched.family => watched.waiter \in lane.seen
    BY <1>1 DEF AheadInv
  <2>1. watched.waiter \in WRoots /\ watched.other \in WRoots /\ watched.waiter # watched.other
        /\ watched.family \in Families
    BY <1>0 DEF WTypeOK
  <2>2. ahead => /\ watched.waiter \in wroots
                 /\ Turn(cursorFile[watched.family], watched.waiter)
                      < Turn(cursorFile[watched.family], watched.other)
                 /\ cursors[watched.family] = cursorFile[watched.family]
                 /\ lane.family = watched.family => watched.waiter \in lane.seen
    BY <1>1 DEF WalksInv, AheadInv
  <2>3. CASE lane.family # watched.family
    <3>1. ahead
      BY <1>2, <2>3 DEF Overtakes
    <3>2. cursorFile'[watched.family] = cursorFile[watched.family]
      BY <1>2, <1>9, <2>2, <2>3, <3>1
    <3> QED BY <1>9, <2>2, <2>3, <3>1, <3>2
  <2>4. CASE lane.family = watched.family
    <3>1. /\ saved /\ lane.rotated /\ watched.waiter \in wroots \cap lane.seen
          /\ r # watched.waiter /\ (ahead \/ r = watched.other)
      BY <1>2, <2>4 DEF Overtakes
    <3>2. cursorFile' = cursors' /\ cursors'[watched.family] = r
      BY <1>2, <1>9, <2>4, <3>1
    <3>3. CASE r = watched.other
      BY <2>1, <3>1, <3>2, <3>3, OwnTurnIsLast
    <3>4. CASE r # watched.other /\ ahead
      <4>1. Turn(c, r) < Turn(c, watched.waiter)
        BY <1>10, <3>1
      <4>2. Turn(c, watched.waiter) < Turn(c, watched.other)
        BY <2>2, <2>4, <3>4
      <4>3. Turn(c, r) < Turn(c, watched.other)
        <5>1. /\ Turn(c, r) \in Nat /\ Turn(c, watched.waiter) \in Nat
              /\ Turn(c, watched.other) \in Nat
          BY <1>5, <2>1, <3>4, TurnsDiffer
        <5> QED BY <4>1, <4>2, <5>1
      <4>4. Turn(r, watched.waiter) < Turn(r, watched.other)
        BY <1>5, <2>1, <4>1, <4>2, <4>3, TurnsKeepOrder
      <4> QED BY <3>1, <3>2, <4>4
    <3> QED BY <3>1, <3>3, <3>4
  <2> QED BY <2>3, <2>4
<1>13. lane'.todo \subseteq lane'.seen
  BY <1>1 DEF WalksInv
<1> QED BY <1>7, <1>8, <1>11, <1>12, <1>13 DEF WalksInv

\* The steps of a pass between the walks, its end and a stop of the daemon.
LEMMA PassStepInv ==
  ASSUME WalksInv,
         \/ WStart \/ TempLanes \/ SharedLanes \/ FamilyDone \/ AfterLanes
         \/ GlobalCaches \/ WalksEnded \/ WalksCrash
  PROVE  WalksInv'
<1>0. WTypeOK /\ UNCHANGED <<wroots, cursorFile, watched>>
  BY DEF WalksInv, WStart, TempLanes, SharedLanes, FamilyDone, AfterLanes, GlobalCaches,
     WalksEnded, WalksCrash
<1>1. /\ cursors' \in [Families -> 0..NRoots] /\ ahead' \in BOOLEAN
      /\ ahead' => /\ ahead
                   /\ \/ lane'.phase = "idle" \/ cursors' = cursorFile
                      \/ lane.phase # "idle" /\ cursors' = cursors
  <2>0. /\ NoCursors \in [Families -> 0..NRoots] /\ cursors \in [Families -> 0..NRoots]
        /\ cursorFile \in [Families -> 0..NRoots] /\ ahead \in BOOLEAN
    BY <1>0, WalksAssumption DEF NoCursors, WTypeOK
  <2>1. CASE WStart
    <3>1. CASE cursors' = cursorFile /\ ahead' = ahead
      BY <2>0, <3>1
    <3>2. CASE cursors' = NoCursors /\ ahead' = FALSE
      BY <2>0, <3>2
    <3> QED BY <2>1, <3>1, <3>2 DEF WStart
  <2>2. CASE GlobalCaches \/ WalksCrash
    BY <2>0, <2>2 DEF GlobalCaches, WalksCrash, LaneIdle
  <2>3. CASE TempLanes \/ SharedLanes \/ FamilyDone \/ AfterLanes \/ WalksEnded
    <3>1. cursors' = cursors /\ ahead' = ahead
      BY <2>3 DEF TempLanes, SharedLanes, FamilyDone, AfterLanes, WalksEnded
    <3>2. lane.phase # "idle"
      BY <2>3 DEF TempLanes, SharedLanes, FamilyDone, AfterLanes, WalksEnded
    <3> QED BY <2>0, <3>1, <3>2
  <2> QED BY <2>1, <2>2, <2>3
<1> DEFINE T == [phase : {"idle", "temp", "shared", "family", "roots", "after", "global"},
                 family : 0..NFamilies, todo : SUBSET WRoots, from : 0..NRoots,
                 seen : SUBSET WRoots, left : Nat, rotated : BOOLEAN, cut : SUBSET WRoots]
<1>2. \/ \E ph \in {"idle", "temp", "after", "global"} : lane' = [LaneIdle EXCEPT !.phase = ph]
      \/ lane' = [lane EXCEPT !.phase = "shared"]
      \/ \E ph \in {"global", "family"}, f \in Families, l \in {lane, LaneIdle} :
           lane' = [l EXCEPT !.phase = ph, !.family = f]
  <2>1. LaneIdle = [LaneIdle EXCEPT !.phase = "idle"]
    BY DEF LaneIdle
  <2>2. CASE FamilyDone
    <3>1. lane.family \in Families
      BY <1>0, <2>2 DEF FamilyDone, WTypeOK
    <3>2. lane.family # NFamilies => lane.family + 1 \in Families
      BY <3>1, WalksAssumption DEF Families
    <3> QED BY <2>2, <3>2 DEF FamilyDone
  <2>3. CASE SharedLanes
    <3>1. 1 \in Families
      BY WalksAssumption DEF Families
    <3>2. PICK ph \in {"global", "family"} : lane' = [lane EXCEPT !.phase = ph, !.family = 1]
      BY <2>3 DEF SharedLanes
    <3> QED BY <3>1, <3>2
  <2>4. CASE WStart \/ TempLanes \/ AfterLanes \/ GlobalCaches \/ WalksEnded \/ WalksCrash
    BY <2>1, <2>4 DEF WStart, TempLanes, AfterLanes, GlobalCaches, WalksEnded, WalksCrash
  <2> QED BY <2>2, <2>3, <2>4
<1>3. /\ lane' \in T /\ lane'.phase # "roots"
      /\ lane'.phase = "family" => lane'.family \in Families
      /\ lane'.todo \subseteq lane'.seen /\ lane'.cut \subseteq lane.cut
  <2>1. LaneIdle \in T /\ LaneIdle.todo = {} /\ LaneIdle.seen = {} /\ LaneIdle.cut = {}
    BY WalksAssumption DEF LaneIdle
  <2>2. lane \in T /\ lane.todo \subseteq lane.seen /\ Families \subseteq 0..NFamilies
    BY <1>0, WalksAssumption DEF WalksInv, WTypeOK, Families
  <2>3. CASE \E ph \in {"idle", "temp", "after", "global"} : lane' = [LaneIdle EXCEPT !.phase = ph]
    BY <2>1, <2>3
  <2>4. CASE lane' = [lane EXCEPT !.phase = "shared"]
    BY <2>2, <2>4
  <2>5. CASE \E ph \in {"global", "family"}, f \in Families, l \in {lane, LaneIdle} :
               lane' = [l EXCEPT !.phase = ph, !.family = f]
    <3>1. PICK ph \in {"global", "family"}, f \in Families, l \in {lane, LaneIdle} :
            lane' = [l EXCEPT !.phase = ph, !.family = f]
      BY <2>5
    <3>2. l \in T /\ l.todo \subseteq l.seen /\ l.cut \subseteq lane.cut /\ f \in 0..NFamilies
      BY <2>1, <2>2
    <3> QED BY <3>1, <3>2
  <2> QED BY <1>2, <2>3, <2>4, <2>5
<1>4. WTypeOK'
  BY <1>0, <1>1, <1>3 DEF WTypeOK
<1>5. PoolInv' /\ TurnInv'
  BY <1>3 DEF PoolInv, TurnInv
<1>6. EvenShare'
  BY <1>3 DEF WalksInv, EvenShare
<1>7. AheadInv'
  BY <1>0, <1>1, <1>3 DEF WalksInv, AheadInv
<1> QED BY <1>3, <1>4, <1>5, <1>6, <1>7 DEF WalksInv

LEMMA RootsChangeInv ==
  ASSUME WalksInv, NEW r \in WRoots, RootsChange(r)
  PROVE  WalksInv'
<1>0. WTypeOK /\ UNCHANGED <<cursorFile, cursors, lane, sharedUsed, watched>>
  BY DEF WalksInv, RootsChange
<1>1. wroots' \subseteq WRoots /\ ahead' \in BOOLEAN
      /\ (ahead' => ahead /\ watched.waiter \in wroots')
  BY <1>0 DEF RootsChange, WTypeOK
<1>2. WTypeOK'
  BY <1>0, <1>1 DEF WTypeOK
<1>3. AheadInv'
  BY <1>0, <1>1 DEF WalksInv, AheadInv
<1> QED BY <1>0, <1>2, <1>3 DEF WalksInv, PoolInv, EvenShare, TurnInv

LEMMA WalksInvStep == WalksInv /\ [WNext]_wvars => WalksInv'
<1> SUFFICES ASSUME WalksInv, [WNext]_wvars PROVE WalksInv'
  OBVIOUS
<1>1. CASE UNCHANGED wvars
  BY <1>1 DEF wvars, WalksInv, WTypeOK, PoolInv, EvenShare, TurnInv, AheadInv
<1> QED BY <1>1, PassStepInv, BeginFamilyInv, WalkRootInv, RootsChangeInv DEF WNext

\* The inductive invariant of the rotation and of the pool of entries.
THEOREM WalksInvariant == WSpec => []WalksInv
BY WalksInvInit, WalksInvStep, PTL DEF WSpec

\* For any number of roots and families and any budgets, across passes that are cut
\* off, crashes, failed saves of the cursor and roots that come and go: no root of a
\* family that rotates is walked twice while another waits, and none is cut short that
\* asks for no more than an even share (selectWorkspaceRoots, entryShare).
THEOREM WalksAreFair == WSpec => WalksFair
<1>1. WalksInv /\ [WNext]_wvars
        => [lane.rotated /\ WalksNow(watched.family, watched.other) => ~ ahead]_wvars
  <2> SUFFICES ASSUME WalksInv, [WNext]_wvars, lane.rotated,
                      WalksNow(watched.family, watched.other), ahead
               PROVE  FALSE
    OBVIOUS
  <2> DEFINE o == watched.other
             w == watched.waiter
             c == cursors[lane.family]
  <2>1. /\ lane.phase = "roots" /\ lane'.phase = "roots" /\ lane.family = watched.family
        /\ o \in lane.todo /\ lane'.todo = lane.todo \ {o}
    BY DEF WalksNow
  <2>2. WalkRoot(o)
    <3>1. lane'.todo # lane.todo
      BY <2>1
    <3>2. PICK r \in WRoots : WalkRoot(r)
      <4>1. ~ (WStart \/ TempLanes \/ SharedLanes \/ BeginFamily \/ AfterLanes \/ GlobalCaches)
        BY <2>1 DEF WStart, TempLanes, SharedLanes, BeginFamily, AfterLanes, GlobalCaches
      <4>2. ~ FamilyDone
        BY <2>1 DEF FamilyDone
      <4>3. ~ (WalksEnded \/ WalksCrash)
        <5>1. LaneIdle.phase # "roots" /\ [LaneIdle EXCEPT !.phase = "global"].phase # "roots"
          BY DEF LaneIdle
        <5> QED BY <2>1, <5>1 DEF WalksEnded, WalksCrash
      <4>4. ASSUME NEW r \in WRoots PROVE ~ RootsChange(r)
        BY <3>1 DEF RootsChange
      <4>5. ~ UNCHANGED wvars
        BY <3>1 DEF wvars
      <4> QED BY <4>1, <4>2, <4>3, <4>4, <4>5 DEF WNext
    <3>3. r \in lane.todo /\ lane'.todo = lane.todo \ {r}
      BY <3>2, WalkEffect DEF WalksInv
    <3> QED BY <2>1, <3>2, <3>3
  <2>3. /\ o \in WRoots /\ w \in WRoots /\ w # o /\ c \in 0..NRoots
    BY <2>1 DEF WalksInv, WTypeOK
  <2>4. w \in lane.seen /\ Turn(c, w) < Turn(c, o)
    BY <2>1 DEF WalksInv, AheadInv
  <2>5. Turn(c, o) < Turn(c, w)
    BY <2>1, <2>2, <2>3, <2>4, NextIsFirst DEF WalkRoot
  <2>6. Turn(c, o) \in Nat /\ Turn(c, w) \in Nat
    BY <2>3, TurnsDiffer
  <2> QED BY <2>4, <2>5, <2>6
<1>2. WalksInv => EvenShare
  BY DEF WalksInv
<1> QED BY <1>1, <1>2, WalksInvariant, PTL DEF WSpec, WalksFair, NoneOvertaken
=============================================================================
