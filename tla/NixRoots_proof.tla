--------------------------- MODULE NixRoots_proof ---------------------------
(***************************************************************************)
(* What keeps store paths alive, for any number of links, generations,     *)
(* hooks and sessions: the indirect roots that the root job unregisters,   *)
(* the generations that profile-prune deletes and the pins of hooks that   *)
(* live sessions rely on.                                                  *)
(***************************************************************************)
EXTENDS NixRoots, ProfilePrune, NixHookPins, FiniteSetTheorems, TLAPS
-----------------------------------------------------------------------------
(* Stale indirect roots: the daemon's list and the root job (NixRoots). *)

Draft == [waits: BOOLEAN, lines: SUBSET Links]
List == [there: BOOLEAN, age: Nat, lines: SUBSET Links, newer: SUBSET Links]
RootJob == [phase: {"idle", "lines", "remove"}, todo: SUBSET Links, at: Links \cup {"none"},
            newer: SUBSET Links, settled: SUBSET AgentLinks]

GTypeOK ==
  /\ link \in [Links -> Nat] /\ auto \subseteq Links /\ stay \in [AgentLinks -> Nat]
  /\ drafted \in Draft /\ list \in List /\ ujob \in RootJob

\* The entry at hand: its link was old enough when the line was checked, and is, unless
\* it changed since or is gone.
AgeInv ==
  ujob.phase = "remove" =>
    ujob.at \in Links /\ (AtLeast(ujob.at, MinLinkAge) \/ lateLink \/ link[ujob.at] = NoLink)

\* A session whose link is on a list came after the list was written: the daemon keeps
\* the links of a tree in which someone works.
ListInv ==
  /\ drafted.waits => \A l \in AgentLinks \cap drafted.lines : stay[l] \in {0, Nobody}
  /\ list.there => \A l \in AgentLinks \cap list.lines : stay[l] = Nobody \/ stay[l] <= list.age

\* What the job still has to do spares the sessions that had settled when it began.
SettledInv ==
  /\ ujob.settled \cap ujob.todo = {}
  /\ ujob.phase = "remove" => ujob.at \notin ujob.settled

RootsInv == GTypeOK /\ AgeInv /\ ListInv /\ SettledInv

LEMMA RootsInvInit == GInit => RootsInv
<1> SUFFICES ASSUME GInit PROVE RootsInv
  OBVIOUS
<1>1. GTypeOK
  BY RootsAssumption DEF GInit, GTypeOK, Draft, NoDraft, List, NoList, RootJob, JobIdle, Links, Nobody
<1>. QED  BY <1>1 DEF GInit, RootsInv, AgeInv, ListInv, SettledInv, NoDraft, NoList, JobIdle

\* The daemon: who works in a tree keeps its links out of the draft.
LEMMA DaemonInv == ASSUME RootsInv, Classify \/ Publish PROVE RootsInv'
<1> USE DEF RootsInv
<1>1. CASE Classify
  <2>1. PICK kept \in {{}, AgentLinks, DirenvLinks} : drafted' = [waits |-> TRUE, lines |-> StaleRoots \ kept]
    BY <1>1 DEF Classify
  <2>2. UNCHANGED <<link, auto, stay, list, ujob, lateLink>>
    BY <1>1 DEF Classify
  <2>3. StaleRoots \subseteq Links /\ \A l \in AgentLinks \cap StaleRoots : stay[l] = Nobody
    BY RootsAssumption DEF StaleRoots, Registered, GTypeOK
  <2>4. drafted' \in Draft /\ drafted'.lines \subseteq StaleRoots
    BY <2>1, <2>3 DEF Draft
  <2>. QED  BY <2>2, <2>3, <2>4 DEF GTypeOK, AgeInv, AtLeast, ListInv, SettledInv
<1>2. CASE Publish
  <2>1. /\ drafted.waits /\ drafted' = NoDraft /\ UNCHANGED <<link, auto, stay, ujob, lateLink>>
        /\ \/ list' = [there |-> TRUE, age |-> 0, lines |-> drafted.lines, newer |-> {}]
           \/ UNCHANGED list
    BY <1>2 DEF Publish
  <2>2. drafted' \in Draft /\ ~ drafted'.waits
    BY <2>1 DEF NoDraft, Draft
  <2>3. list' \in List
    <3>1. drafted.lines \in SUBSET Links /\ {} \in SUBSET Links /\ list \in List
      BY DEF GTypeOK, Draft
    <3>2. \A L \in SUBSET Links : [there |-> TRUE, age |-> 0, lines |-> L, newer |-> {}] \in List
      BY DEF List
    <3>. QED  BY <2>1, <3>1, <3>2
  <2>4. list'.there => \A l \in AgentLinks \cap list'.lines : stay[l] = Nobody \/ stay[l] <= list'.age
    BY <2>1 DEF ListInv
  <2>. QED  BY <2>1, <2>2, <2>3, <2>4 DEF GTypeOK, AgeInv, AtLeast, ListInv, SettledInv
<1>. QED  BY <1>1, <1>2

\* The root job: a list it accepts is younger than the stay of a settled session.
LEMMA JobInv ==
  ASSUME RootsInv, OpenList \/ Unregister \/ JobEnds \/ \E l \in Links : CheckLine(l)
  PROVE  RootsInv'
<1> USE DEF RootsInv
<1>0. UNCHANGED <<link, stay, drafted, list>> /\ auto' \subseteq auto
  BY DEF OpenList, Unregister, JobEnds, CheckLine
<1>1. CASE OpenList
  <2>1. /\ list.there /\ list.age <= MaxListAge /\ UNCHANGED lateLink
        /\ ujob' = [phase |-> "lines", todo |-> list.lines, at |-> "none", newer |-> list.newer,
                    settled |-> {l \in AgentLinks : stay[l] # Nobody /\ stay[l] > MaxListAge}]
    BY <1>1 DEF OpenList
  <2>2. ujob' \in RootJob /\ ujob'.phase = "lines"
    BY <2>1 DEF GTypeOK, RootJob, List
  <2>3. \A l \in list.lines : l \in AgentLinks => stay[l] = Nobody \/ ~ (stay[l] > MaxListAge)
    BY <2>1, RootsAssumption DEF GTypeOK, List, ListInv
  <2>. QED  BY <1>0, <2>1, <2>2, <2>3 DEF GTypeOK, AgeInv, ListInv, SettledInv
<1>2. ASSUME NEW l \in Links, CheckLine(l) PROVE RootsInv'
  <2>1. l \in ujob.todo /\ ujob.phase = "lines"
    BY <1>2 DEF CheckLine
  <2>2. \/ /\ EntryHolds(l)
           /\ ujob' = [ujob EXCEPT !.todo = ujob.todo \ {l}, !.newer = ujob.newer \ {l}, !.phase = "remove", !.at = l]
        \/ ujob' = [ujob EXCEPT !.todo = ujob.todo \ {l}, !.newer = ujob.newer \ {l}, !.phase = "lines", !.at = "none"]
    BY <1>2 DEF CheckLine
  <2>3. /\ ujob' \in RootJob /\ ujob'.todo = ujob.todo \ {l} /\ ujob'.settled = ujob.settled
        /\ ujob'.phase = "remove" => EntryHolds(l) /\ ujob'.at = l
    <3>1. ujob \in RootJob /\ ujob.todo \ {l} \in SUBSET Links /\ ujob.newer \ {l} \in SUBSET Links
      BY DEF GTypeOK, RootJob
    <3>2. CASE EntryHolds(l) /\ ujob' = [ujob EXCEPT !.todo = ujob.todo \ {l}, !.newer = ujob.newer \ {l},
                                           !.phase = "remove", !.at = l]
      BY <3>1, <3>2 DEF RootJob
    <3>3. CASE ujob' = [ujob EXCEPT !.todo = ujob.todo \ {l}, !.newer = ujob.newer \ {l},
                          !.phase = "lines", !.at = "none"]
      BY <3>1, <3>3 DEF RootJob
    <3>. QED  BY <2>2, <3>2, <3>3
  <2>. QED  BY <1>0, <2>1, <2>3 DEF GTypeOK, AgeInv, EntryHolds, AtLeast, ListInv, SettledInv
<1>3. CASE Unregister \/ JobEnds
  <2>1. ujob' \in RootJob /\ ujob'.phase # "remove" /\ ujob'.settled \cap ujob'.todo = {}
    <3>1. ujob \in RootJob
      BY DEF GTypeOK
    <3>2. CASE Unregister
      BY <3>1, <3>2 DEF Unregister, RootJob, SettledInv
    <3>3. CASE JobEnds
      BY <3>3 DEF JobEnds, JobIdle, RootJob
    <3>. QED  BY <1>3, <3>2, <3>3
  <2>. QED  BY <1>0, <2>1 DEF GTypeOK, AgeInv, ListInv, SettledInv
<1>. QED  BY <1>1, <1>2, <1>3

\* Shells and builds: a change of the link at hand is known to be late.
LEMMA LinkInv ==
  ASSUME RootsInv, NEW l \in Links, TouchLink(l) \/ Rebuild(l) \/ DeleteLink(l)
  PROVE  RootsInv'
<1> USE DEF RootsInv
<1>1. /\ UNCHANGED <<stay, drafted>> /\ auto' \subseteq Links /\ link' \in [Links -> Nat]
      /\ \A k \in Links : k # l => link'[k] = link[k]
      /\ lateLink => lateLink'
      /\ link'[l] = NoLink \/ (ujob.at = l => lateLink')
  <2>1. Changed(l) => (lateLink => lateLink') /\ (ujob.at = l => lateLink')
    BY Zenon DEF Changed
  <2>2. link \in [Links -> Nat] /\ auto \subseteq Links /\ NoLink \in Nat /\ 0 \in Nat
    BY RootsAssumption DEF GTypeOK, NoLink
  <2>3. CASE TouchLink(l)
    BY <2>1, <2>2, <2>3 DEF TouchLink
  <2>4. CASE Rebuild(l)
    BY <2>1, <2>2, <2>4 DEF Rebuild
  <2>5. CASE DeleteLink(l)
    BY <2>2, <2>5 DEF DeleteLink
  <2>. QED  BY <2>3, <2>4, <2>5
<1>2. /\ list' \in List /\ list'.lines = list.lines /\ list'.age = list.age
      /\ list'.there <=> list.there
  BY DEF TouchLink, Rebuild, DeleteLink, GTypeOK, List
<1>3. /\ ujob' \in RootJob /\ ujob'.todo = ujob.todo /\ ujob'.settled = ujob.settled
      /\ ujob'.phase = ujob.phase /\ ujob'.at = ujob.at
  BY DEF TouchLink, Rebuild, DeleteLink, GTypeOK, RootJob
<1>4. AgeInv'
  BY <1>1, <1>3 DEF AgeInv, AtLeast, GTypeOK
<1>. QED  BY <1>1, <1>2, <1>3, <1>4 DEF GTypeOK, ListInv, SettledInv

\* Sessions: one that comes has been there for no time.
LEMMA SessionInv ==
  ASSUME RootsInv, NEW l \in AgentLinks, EnterTree(l) \/ LeaveTree(l)
  PROVE  RootsInv'
<1> USE DEF RootsInv
<1>1. /\ UNCHANGED <<link, auto, drafted, list, lateLink>> /\ stay' \in [AgentLinks -> Nat]
      /\ stay'[l] \in {0, Nobody} /\ \A k \in AgentLinks : k # l => stay'[k] = stay[k]
  BY RootsAssumption DEF EnterTree, LeaveTree, GTypeOK, Nobody
<1>2. /\ ujob' \in RootJob /\ ujob'.todo = ujob.todo /\ ujob'.settled \subseteq ujob.settled
      /\ ujob'.phase = ujob.phase /\ ujob'.at = ujob.at
  BY DEF EnterTree, LeaveTree, GTypeOK, RootJob
<1>3. ListInv'
  BY <1>1 DEF ListInv, GTypeOK, List
<1>. QED  BY <1>1, <1>2, <1>3 DEF GTypeOK, AgeInv, AtLeast, SettledInv

\* Links, stays and the list grow old together.
LEMMA TickInv == ASSUME RootsInv, GTick PROVE RootsInv'
<1> USE DEF RootsInv
<1>1. /\ ~ drafted.waits /\ UNCHANGED <<auto, drafted, ujob, lateLink>>
      /\ link' \in [Links -> Nat] /\ stay' \in [AgentLinks -> Nat]
  BY RootsAssumption DEF GTick, GTypeOK, NoLink, Nobody
<1>2. \A l \in Links : /\ link[l] = NoLink => link'[l] = NoLink
                       /\ link[l] # NoLink => link'[l] # NoLink /\ link'[l] >= link[l]
  BY RootsAssumption DEF GTick, GTypeOK, NoLink
<1>3. \A l \in AgentLinks :
        /\ stay[l] = Nobody => stay'[l] = Nobody
        /\ stay[l] # Nobody => stay'[l] = IF stay[l] < MaxListAge + 1 THEN stay[l] + 1 ELSE stay[l]
  BY DEF GTick
<1>4. /\ list' \in List /\ list'.lines = list.lines /\ (list'.there <=> list.there)
      /\ list.there => list'.age = IF list.age < MaxListAge + 1 THEN list.age + 1 ELSE list.age
  <2> DEFINE older == IF list.there THEN (IF list.age < MaxListAge + 1 THEN list.age + 1 ELSE list.age) ELSE 0
  <2>1. list' = [list EXCEPT !.age = older] /\ older \in Nat /\ list \in List
    BY RootsAssumption DEF GTick, GTypeOK, List
  <2>2. list'.age = older /\ list' \in List /\ list'.lines = list.lines /\ (list'.there <=> list.there)
    <3> HIDE DEF older
    <3>. QED  BY <2>1 DEF List
  <2>. QED  BY <2>2
<1>5. AgeInv'
  BY <1>1, <1>2, RootsAssumption DEF AgeInv, AtLeast, GTypeOK
<1>6. ListInv'
  <2> SUFFICES ASSUME list.there, NEW l \in AgentLinks \cap list.lines
               PROVE  stay'[l] = Nobody \/ stay'[l] <= list'.age
    BY <1>1, <1>4 DEF ListInv
  <2>1. stay[l] \in Nat /\ list.age \in Nat /\ (stay[l] = Nobody \/ stay[l] <= list.age)
    BY DEF GTypeOK, List, ListInv
  <2>. QED  BY <1>3, <1>4, <2>1, RootsAssumption
<1>. QED  BY <1>1, <1>4, <1>5, <1>6 DEF GTypeOK, SettledInv

LEMMA RootsInvStep == RootsInv /\ [GNext]_gvars => RootsInv'
<1> SUFFICES ASSUME RootsInv, [GNext]_gvars PROVE RootsInv'
  OBVIOUS
<1>1. CASE UNCHANGED gvars
  BY <1>1 DEF gvars, RootsInv, GTypeOK, AgeInv, AtLeast, ListInv, SettledInv
<1>. QED  BY <1>1, DaemonInv, JobInv, LinkInv, SessionInv, TickInv DEF GNext

\* The inductive invariant of the list and the job.
THEOREM RootsInvariant == GSpec => []RootsInv
  BY RootsInvInit, RootsInvStep, PTL DEF GSpec

\* For any number of links and any ages: the root job removes no entry of a link that
\* changed within MinLinkAge, but for a change after its check, and none of a session
\* that had settled in its tree.
THEOREM RootsAreKept == GSpec => RootsKept
<1>1. RootsInv /\ [GNext]_gvars =>
        [\A l \in auto \ auto' : AtLeast(l, MinLinkAge) \/ lateLink \/ link[l] = NoLink]_gvars
  BY DEF RootsInv, AgeInv, GNext, gvars, Classify, Publish, OpenList, Unregister, JobEnds, GTick, CheckLine,
         TouchLink, Rebuild, DeleteLink, EnterTree, LeaveTree
<1>2. RootsInv /\ [GNext]_gvars => [\A l \in auto \ auto' : l \notin ujob.settled]_gvars
  BY DEF RootsInv, SettledInv, GNext, gvars, Classify, Publish, OpenList, Unregister, JobEnds, GTick, CheckLine,
         TouchLink, Rebuild, DeleteLink, EnterTree, LeaveTree
<1>. QED  BY <1>1, <1>2, RootsInvariant, PTL DEF GSpec, RootsKept, RecentLinkKept, SettledSessionKept
-----------------------------------------------------------------------------
(* profile-prune against unfinished activations (ProfilePrune). *)

\* The selected generation exists at every moment: the pruning keeps it.
SelectedInv ==
  /\ generations \subseteq Numbers /\ selected \in generations /\ homeOf \in [Numbers -> Homes]
  /\ prune \in [at: {"idle", "before", "delete", "after", "agree"}, keep: 0..1,
                before: Homes \cup {"none"}, good: BOOLEAN]

LEMMA PrunelessFacts ==
  Pruneless \in [at: {"idle", "before", "delete", "after", "agree"}, keep: 0..1,
                 before: Homes \cup {"none"}, good: BOOLEAN]
  BY DEF Pruneless

LEMMA SelectedInit == PInit => SelectedInv
  BY PruneAssumption, PrunelessFacts DEF PInit, SelectedInv, Numbers

\* nix-env --delete-generations never deletes the selected one.
LEMMA PrunedKeeps == ASSUME SelectedInv, NEW keep \in 0..1 PROVE selected \in Pruned(keep)
<1>1. {o \in generations : selected < o /\ o <= selected} = {}
  <2>1. \A o \in generations : o \in Int /\ selected \in Int
    BY PruneAssumption DEF SelectedInv, Numbers
  <2>2. \A o \in generations : ~ (selected < o /\ o <= selected)
    BY <2>1
  <2>. QED  BY <2>2
<1>2. Cardinality({o \in generations : selected < o /\ o <= selected}) <= 1
  BY <1>1, FS_EmptySet
<1>. QED  BY <1>2 DEF SelectedInv, Pruned

LEMMA SelectedStep == SelectedInv /\ [PNext]_pvars => SelectedInv'
<1> SUFFICES ASSUME SelectedInv, [PNext]_pvars PROVE SelectedInv'
  OBVIOUS
<1>1. CASE DeleteGenerations
  <2>1. prune.keep \in 0..1
    BY DEF SelectedInv
  <2>2. generations' \in {Pruned(prune.keep), generations} /\ UNCHANGED <<homeOf, selected>>
    BY <1>1 DEF DeleteGenerations
  <2>3. Pruned(prune.keep) \subseteq generations
    BY DEF Pruned
  <2>4. prune' \in [at: {"idle", "before", "delete", "after", "agree"}, keep: 0..1,
                    before: Homes \cup {"none"}, good: BOOLEAN]
    BY <1>1, PrunelessFacts DEF DeleteGenerations, Continue, SelectedInv
  <2>. QED  BY <2>1, <2>2, <2>3, <2>4, PrunedKeeps DEF SelectedInv
<1>2. CASE BeginPrune \/ TargetBefore \/ TargetAfter \/ AgreeAgain
  <2>1. prune' \in [at: {"idle", "before", "delete", "after", "agree"}, keep: 0..1,
                    before: Homes \cup {"none"}, good: BOOLEAN]
    <3>1. homeOf[selected] \in Homes
      BY DEF SelectedInv
    <3>2. RootsAgree \in BOOLEAN
      BY DEF RootsAgree
    <3>. QED  BY <1>2, <3>1, <3>2, PrunelessFacts, ZenonT(30)
         DEF BeginPrune, TargetBefore, TargetAfter, AgreeAgain, Continue, SelectedInv, Pruneless
  <2>2. UNCHANGED <<generations, homeOf, selected>>
    BY <1>2 DEF BeginPrune, TargetBefore, TargetAfter, AgreeAgain
  <2>. QED  BY <2>1, <2>2 DEF SelectedInv
<1>3. ASSUME NEW h \in Homes, Activate(h) PROVE SelectedInv'
  BY <1>3 DEF Activate, SelectedInv
<1>4. ASSUME NEW g \in generations, RollBack(g) PROVE SelectedInv'
  BY <1>4 DEF RollBack, SelectedInv
<1>5. CASE FinishActivation \/ UNCHANGED pvars
  BY <1>5 DEF FinishActivation, pvars, SelectedInv
<1>. QED  BY <1>1, <1>2, <1>3, <1>4, <1>5 DEF PNext

\* For any number of generations, and activations and rollbacks left unfinished at any
\* moment: a run of profile-prune that reports success leaves a generation for what
\* current-home selects.
THEOREM HomeIsHeld == PSpec => HomeHeld
<1>1. SelectedInv /\ [PNext]_pvars =>
        [prune'.good /\ ~ prune.good => currentHome \in {homeOf[g] : g \in generations}]_pvars
  <2> SUFFICES ASSUME SelectedInv, [PNext]_pvars, prune'.good, ~ prune.good
               PROVE  currentHome \in {homeOf[g] : g \in generations}
    OBVIOUS
  <2>1. AgreeAgain /\ RootsAgree
    <3>1. ~ Pruneless.good
      BY DEF Pruneless
    <3>2. CASE AgreeAgain
      BY <3>2 DEF AgreeAgain, Pruneless
    <3>3. CASE BeginPrune \/ TargetBefore \/ DeleteGenerations \/ TargetAfter
      BY <3>1, <3>3 DEF BeginPrune, TargetBefore, DeleteGenerations, TargetAfter, Continue, SelectedInv, Pruneless
    <3>. QED  BY <3>2, <3>3 DEF PNext, pvars, Activate, RollBack, FinishActivation
  <2>. QED  BY <2>1 DEF RootsAgree, SelectedInv
<1>2. PSpec => []SelectedInv
  BY SelectedInit, SelectedStep, PTL DEF PSpec
<1>. QED  BY <1>1, <1>2, PTL DEF PSpec, HomeHeld
-----------------------------------------------------------------------------
(* A live session keeps the hooks it relies on (NixHookPins). *)

USE PinsAssumption DEF Time

\* The invariant holds before the first refresh.
LEMMA PinInit == Init => PinInv
  BY DEF Init, PinInv, TypeOK, Times, SeenRooted, RefreshSound, NoSession, NoRefresh, NoPins,
         Pin, Referenced, NoPin, Session, Refresh

\* refresh reads a clock that is later than every start.
LEMMA PinBegin == PinInv /\ BeginRefresh => PinInv'
  BY DEF BeginRefresh, PinInv, TypeOK, Times, SeenRooted, RefreshSound, ReliedOn, Keeps, NoRefresh,
         NoPins, Pin, Referenced, NoPin, Session, Refresh

\* An error leaves only what is on disk.
LEMMA PinFail == PinInv /\ Fail => PinInv'
  BY DEF Fail, PinInv, TypeOK, Times, SeenRooted, RefreshSound, ReliedOn, Keeps, NoRefresh,
         NoPins, Pin, Referenced, NoPin, Session, Refresh

\* What is read is undated; what is not was on disk, or is not tracked.
LEMMA PinRead == ASSUME PinInv, NEW readable \in BOOLEAN, ReadConfig(readable) PROVE PinInv'
<1> DEFINE loaded == IF readable THEN pins ELSE NoPins
<1>1. loaded \in [Hooks -> Pin] /\ \A h \in Hooks : loaded[h] \in {pins[h], NoPin}
  BY DEF PinInv, TypeOK, NoPins, Pin
<1>2. /\ ref' = [ref EXCEPT !.refs = conf, !.steady = conf, !.todo = conf,
                            !.st = Rereferenced(loaded, conf)]
      /\ pc = "read" /\ pc' = "pin"
      /\ UNCHANGED <<clock, conf, store, roots, pins, sessions, seen>>
  BY DEF ReadConfig
<1> HIDE DEF loaded
<1>3. /\ Rereferenced(loaded, conf) \in [Hooks -> Pin]
      /\ \A h \in conf : Rereferenced(loaded, conf)[h] = Referenced
      /\ \A h \in Hooks \ conf : Rereferenced(loaded, conf)[h] \in {pins[h], NoPin}
  BY <1>1 DEF Rereferenced, Pin, PinInv, TypeOK
<1>4. TypeOK' /\ Times' /\ SeenRooted' /\ RefreshSound'
  BY <1>2, <1>3 DEF PinInv, TypeOK, Times, SeenRooted, RefreshSound, Refresh
<1>5. \A s \in Sessions : \A h \in sessions[s].sure : ReliedOn(s, h)'
  BY <1>2, <1>3 DEF PinInv, TypeOK, Times, ReliedOn, Keeps, Pin, Referenced, NoPin, Session, Refresh
<1> QED
  BY <1>2, <1>4, <1>5 DEF PinInv

\* A root is only added, and not always.
LEMMA PinAdd == ASSUME PinInv, NEW h \in Hooks, NEW answers \in BOOLEAN, PinRef(h, answers) PROVE PinInv'
  BY DEF PinRef, PinInv, TypeOK, Times, SeenRooted, RefreshSound, ReliedOn, Keeps,
         Pin, Referenced, NoPin, Session, Refresh

\* The date given is later than the start of every session that relies on it.
LEMMA PinMark == PinInv /\ MarkUnreferenced => PinInv'
  BY DEF MarkUnreferenced, Unreferenced, PinInv, TypeOK, Times, SeenRooted, RefreshSound, ReliedOn,
         Keeps, Pin, Referenced, NoPin, Session, Refresh

\* A session that relies on a path holds it.
LEMMA PinList == ASSUME PinInv, NEW inspected \in BOOLEAN, ListSessions(inspected) PROVE PinInv'
  BY DEF ListSessions, Released, Held, PinInv, TypeOK, Times, SeenRooted, RefreshSound, ReliedOn,
         Keeps, Pin, Referenced, NoPin, Session, Refresh

\* Nothing that is relied on, or seen, is released.
LEMMA PinRelease == ASSUME PinInv, NEW h \in Hooks, ReleasePin(h) PROVE PinInv'
<1> USE DEF Pin, Referenced, NoPin, Session, Refresh
<1>1. /\ pc = "release" /\ h \in ref.drop /\ roots' = roots \ {h}
      /\ ref' = [ref EXCEPT !.drop = @ \ {h}, !.st = [ref.st EXCEPT ![h] = NoPin]]
      /\ UNCHANGED <<clock, conf, store, pins, sessions, pc, seen>>
  BY DEF ReleasePin
<1>2. ref.st \in [Hooks -> Pin] /\ h \notin ref.refs
  BY <1>1 DEF PinInv, TypeOK, RefreshSound
<1>3. TypeOK'
  BY <1>1, <1>2 DEF PinInv, TypeOK
<1>4. Times' /\ SeenRooted' /\ RefreshSound'
  BY <1>1, <1>2 DEF PinInv, TypeOK, Times, SeenRooted, RefreshSound
<1>5. ASSUME NEW s \in Sessions, NEW g \in sessions[s].sure PROVE ReliedOn(s, g)'
  BY <1>1, <1>2 DEF PinInv, TypeOK, ReliedOn, Keeps
<1> QED
  BY <1>1, <1>3, <1>4, <1>5 DEF PinInv

\* A save makes known what refresh read; what it adds for a session is rooted and
\* undated.
LEMMA PinSave == PinInv /\ SaveState => PinInv'
<1> SUFFICES ASSUME PinInv, SaveState PROVE PinInv'
  OBVIOUS
<1> USE DEF Pin, Referenced, NoPin, Session, Refresh
<1>1. /\ pins' = ref.st /\ pc = "release" /\ pc' = "idle" /\ ref' = NoRefresh
      /\ seen' = seen \cup (ref.steady \cap (ref.refs \cap roots))
      /\ UNCHANGED <<clock, conf, store, roots>>
  BY DEF SaveState
<1>2. \A s \in Sessions :
        /\ sessions'[s] \in Session
        /\ sessions'[s].start = sessions[s].start /\ sessions'[s].alive = sessions[s].alive
        /\ ~ sessions[s].alive => sessions'[s].sure = {}
        /\ sessions'[s].sure \subseteq sessions[s].sure \cup (ref.refs \cap roots)
  <2> SUFFICES ASSUME NEW s \in Sessions
               PROVE  /\ sessions'[s] \in Session
                      /\ sessions'[s].start = sessions[s].start
                      /\ sessions'[s].alive = sessions[s].alive
                      /\ ~ sessions[s].alive => sessions'[s].sure = {}
                      /\ sessions'[s].sure \subseteq sessions[s].sure \cup (ref.refs \cap roots)
    OBVIOUS
  <2>1. sessions[s] \in Session /\ (~ sessions[s].alive => sessions[s].sure = {})
    BY DEF PinInv, TypeOK
  <2>2. CASE sessions[s].alive
    <3>1. sessions'[s] = [sessions[s] EXCEPT
                            !.sure = @ \cup (sessions[s].hooks \cap (ref.refs \cap roots))]
      BY <2>2 DEF SaveState
    <3>2. sessions[s].hooks \subseteq Hooks /\ sessions[s].sure \subseteq Hooks
      BY <2>1
    <3> QED
      BY <2>1, <2>2, <3>1, <3>2
  <2>3. CASE ~ sessions[s].alive
    <3>1. sessions'[s] = sessions[s]
      BY <2>3 DEF SaveState
    <3> QED
      BY <2>1, <2>3, <3>1
  <2> QED
    BY <2>2, <2>3
<1>3. TypeOK'
  <2>1. sessions' \in [Sessions -> Session]
    <3>1. sessions' = [s \in Sessions |-> sessions'[s]]
      BY DEF SaveState
    <3> HIDE DEF Session
    <3> QED
      BY <1>2, <3>1
  <2>2. NoRefresh \in Refresh
    BY DEF NoRefresh, NoPins
  <2> QED
    BY <1>1, <2>1, <2>2 DEF PinInv, TypeOK
<1>4. Times' /\ SeenRooted' /\ RefreshSound'
  BY <1>1, <1>2 DEF PinInv, TypeOK, Times, SeenRooted, RefreshSound, NoRefresh
<1>5. ASSUME NEW s \in Sessions, NEW h \in sessions'[s].sure PROVE ReliedOn(s, h)'
  BY <1>1, <1>2 DEF PinInv, TypeOK, RefreshSound, ReliedOn, Keeps
<1> QED
  BY <1>1, <1>2, <1>3, <1>4, <1>5 DEF PinInv

\* A switch only breaks what is seen.
LEMMA PinSwitch == ASSUME PinInv, NEW new \in SUBSET Hooks, Switch(new) PROVE PinInv'
  BY DEF Switch, PinInv, TypeOK, Times, SeenRooted, RefreshSound, ReliedOn, Keeps,
         Pin, Referenced, NoPin, Session, Refresh

\* A new session relies on what is seen, unless a refresh is about to read.
LEMMA PinStart ==
  ASSUME PinInv, NEW s \in Sessions, NEW start \in 0 .. MaxClock, StartSession(s, start)
  PROVE  PinInv'
<1> USE DEF Pin, Referenced, NoPin, Session, Refresh
<1>1. /\ clock' = clock + 1 /\ start <= clock'
      /\ UNCHANGED <<conf, store, roots, pins, pc, ref, seen>>
      /\ \A t \in Sessions \ {s} : sessions'[t] = sessions[t]
      /\ sessions'[s] = [alive |-> TRUE, start |-> start, hooks |-> conf,
                         sure |-> IF pc = "read" THEN {} ELSE seen]
  BY DEF StartSession, PinInv, TypeOK
<1>2. TypeOK'
  BY DEF StartSession, PinInv, TypeOK
<1>3. Times' /\ SeenRooted' /\ RefreshSound'
  BY <1>1 DEF PinInv, TypeOK, Times, SeenRooted, RefreshSound
<1>4. ASSUME NEW t \in Sessions, NEW h \in sessions'[t].sure PROVE ReliedOn(t, h)'
  BY <1>1 DEF PinInv, TypeOK, SeenRooted, RefreshSound, ReliedOn, Keeps
<1> QED
  BY <1>1, <1>2, <1>3, <1>4 DEF PinInv

\* Nothing is relied on by a session that has ended.
LEMMA PinEnd == ASSUME PinInv, NEW s \in Sessions, EndSession(s) PROVE PinInv'
<1> USE DEF Pin, Referenced, NoPin, Session, Refresh
<1>1. /\ UNCHANGED <<clock, conf, store, roots, pins, pc, ref, seen>>
      /\ \A t \in Sessions \ {s} : sessions'[t] = sessions[t]
      /\ sessions'[s] = NoSession
  BY DEF EndSession, PinInv, TypeOK
<1>2. TypeOK'
  BY DEF EndSession, NoSession, PinInv, TypeOK
<1>3. Times' /\ SeenRooted' /\ RefreshSound'
  BY <1>1 DEF NoSession, PinInv, TypeOK, Times, SeenRooted, RefreshSound
<1>4. ASSUME NEW t \in Sessions, NEW h \in sessions'[t].sure PROVE ReliedOn(t, h)'
  BY <1>1 DEF NoSession, PinInv, TypeOK, ReliedOn, Keeps
<1> QED
  BY <1>1, <1>2, <1>3, <1>4 DEF PinInv, NoSession

\* The collector leaves what is rooted.
LEMMA PinCollect == PinInv /\ CollectGarbage => PinInv'
  BY DEF CollectGarbage, PinInv, TypeOK, Times, SeenRooted, RefreshSound, ReliedOn, Keeps,
         Pin, Referenced, NoPin, Session, Refresh

\* Every step of refresh, of a switch, of a session and of the collector keeps the
\* invariant.
LEMMA PinStep == PinInv /\ [Next]_vars => PinInv'
<1> SUFFICES ASSUME PinInv, [Next]_vars PROVE PinInv'
  OBVIOUS
<1>1. CASE UNCHANGED vars
  BY <1>1 DEF vars, PinInv, TypeOK, Times, SeenRooted, RefreshSound, ReliedOn, Keeps
<1>2. CASE Next
  BY <1>2, PinBegin, PinFail, PinRead, PinAdd, PinMark, PinList, PinRelease, PinSave, PinSwitch,
     PinStart, PinEnd, PinCollect
     DEF Next
<1> QED
  BY <1>1, <1>2

\* The inductive invariant of refresh and its environment holds always.
THEOREM PinInvariant == Spec => []PinInv
  BY PinInit, PinStep, PTL DEF Spec

\* A live session keeps the hooks it relies on, those a successful refresh rooted,
\* whatever switches, failures of refresh, unanswered queries, losses of its state and
\* collections happen (nixHookPinner.refresh).
THEOREM HooksKept == Spec => []SessionsKeepHooks
<1>1. PinInv => SessionsKeepHooks
  BY DEF PinInv, SeenRooted, ReliedOn, SessionsKeepHooks
<1> QED
  BY <1>1, PinInvariant, PTL
=============================================================================
