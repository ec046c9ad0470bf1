------------------------------ MODULE DevWalks ------------------------------
(***************************************************************************)
(* The walks of a dev_artifacts pass: the lanes of                         *)
(* plugins/devartifacts.go in their order, the budgets and the workspace   *)
(* cursor of plugins/scan_budget.go.  Each artifact family walks the roots *)
(* after its cursor, no more than workspace_scan_max_roots of them, each   *)
(* on a share of the entries the family has left; the cursor file is       *)
(* written after every root, when the write succeeds.                      *)
(*                                                                         *)
(* Roots are numbered in the order of their names, 0 is no cursor.  What   *)
(* is found in a root and removed is left to DevLanes.                     *)
(***************************************************************************)
EXTENDS Naturals, FiniteSets

CONSTANTS NRoots,            \* top-level directories that may be under the scan path
          NFamilies,         \* families of artifacts (for every scan path), in order
          EntriesOf,         \* entries a whole walk of each root visits
          WorkspaceMaxRoots, \* workspace_scan_max_roots
          ScanMaxEntries,    \* scan_max_entries
          TranscriptEntries  \* entries of the lanes that walk on the shared budget

\* A scan_max_entries of 0, which bounds nothing, is left out.
ASSUME WalksAssumption ==
  /\ NRoots \in Nat /\ NFamilies \in Nat \ {0} /\ EntriesOf \in [1..NRoots -> Nat \ {0}]
  /\ WorkspaceMaxRoots \in Nat /\ ScanMaxEntries \in Nat \ {0} /\ TranscriptEntries \in Nat

VARIABLES wroots,     \* the roots that exist
          cursorFile, \* [family -> root] as saved, 0 for none
          cursors,    \* the same in the pass at hand
          lane,       \* [phase, family, todo, from, seen, left, rotated, cut]
          sharedUsed, \* entries charged to the shared budget
          watched,    \* a family and two of its roots, see NoneOvertaken
          ahead       \* the other root was walked since the waiter was

wvars == <<wroots, cursorFile, cursors, lane, sharedUsed, watched, ahead>>

WRoots == 1..NRoots
Families == 1..NFamilies

NoCursors == [f \in Families |-> 0]

LaneIdle == [phase |-> "idle", family |-> 0, todo |-> {}, from |-> 0, seen |-> {}, left |-> 0,
             rotated |-> FALSE, cut |-> {}]

WInit ==
  /\ wroots = WRoots
  /\ cursorFile = NoCursors
  /\ cursors = NoCursors
  /\ lane = LaneIdle
  /\ sharedUsed = 0
  /\ watched \in [family : Families, waiter : WRoots, other : WRoots]
  /\ watched.waiter # watched.other
  /\ ahead = FALSE
-----------------------------------------------------------------------------
\* Mutant: the rotation starts at the cursor.
Turn_AtCursor(cursor, r) == IF r >= cursor THEN r ELSE r + NRoots

\* rotateWorkspaceRootsAfterCursor: the turn of a root, those after the cursor first.
\* With no cursor, and with one that no root comes after, this is the order of the names.
Turn(cursor, r) == IF r > cursor THEN r ELSE r + NRoots

\* selectWorkspaceRoots: when there are too many, the first ones by their turn.
TooMany == WorkspaceMaxRoots > 0 /\ Cardinality(wroots) > WorkspaceMaxRoots

Selects(roots, cursor) ==
  IF TooMany
  THEN /\ Cardinality(roots) = WorkspaceMaxRoots
       /\ \A r \in roots, s \in wroots \ roots : Turn(cursor, r) < Turn(cursor, s)
  ELSE roots = wroots

\* The selected roots are walked in the order of their turns.
IsNext(r) == r \in lane.todo /\ \A s \in lane.todo : Turn(lane.from, r) <= Turn(lane.from, s)

AtLeastOne(n) == IF n < 1 THEN 1 ELSE n

\* entryShare: what is left by the roots to come, rounded up.
EntryShare(left, roots) == AtLeastOne((left + roots - 1) \div roots)

\* The pass loads the cursors, or none when the file cannot be read.
WStart ==
  /\ lane.phase = "idle"
  /\ lane' = [LaneIdle EXCEPT !.phase = "temp"]
  /\ sharedUsed' = 0
  /\ \/ cursors' = cursorFile /\ UNCHANGED ahead
     \/ cursors' = NoCursors /\ ahead' = FALSE
  /\ UNCHANGED <<wroots, cursorFile, watched>>

\* The temp paths walk on shares of their own, charged to the shared budget.
TempLanes ==
  /\ lane.phase = "temp"
  /\ sharedUsed' \in 0..ScanMaxEntries
  /\ lane' = [lane EXCEPT !.phase = "shared"]
  /\ UNCHANGED <<wroots, cursorFile, cursors, watched, ahead>>

\* Transcripts and agent worktrees; when the shared entries or the shared
\* deadline run out, only the global cache lanes follow.  (What the families
\* charge to it afterwards stops no lane but the last one, AfterLanes.)
SharedLanes ==
  /\ lane.phase = "shared"
  /\ sharedUsed' = 0
  /\ \E timedOut \in BOOLEAN :
       lane' = [lane EXCEPT !.phase = IF timedOut \/ sharedUsed + TranscriptEntries > ScanMaxEntries
                                      THEN "global" ELSE "family", !.family = 1]
  /\ UNCHANGED <<wroots, cursorFile, cursors, watched, ahead>>

\* A family selects its roots, unless a tool of it is active somewhere.
BeginFamily ==
  /\ lane.phase = "family"
  /\ \/ \E roots \in SUBSET wroots :
          /\ Selects(roots, cursors[lane.family])
          /\ lane' = [lane EXCEPT !.phase = "roots", !.todo = roots, !.seen = wroots, !.cut = {},
                       !.from = IF TooMany THEN cursors[lane.family] ELSE 0,
                       !.left = ScanMaxEntries, !.rotated = TooMany]
     \/ lane' = [lane EXCEPT !.phase = "roots", !.todo = {}, !.seen = {}, !.cut = {}]
  /\ UNCHANGED <<wroots, cursorFile, cursors, sharedUsed, watched, ahead>>

\* The other root comes ahead of the waiter; the count starts again with a cursor
\* that was not saved, a waiter that was not there to be selected, or a lane
\* that took all roots.
Overtakes(f, r, saved) ==
  IF f # watched.family THEN ahead
  ELSE /\ saved /\ lane.rotated /\ watched.waiter \in wroots \cap lane.seen
       /\ r # watched.waiter /\ (ahead \/ r = watched.other)

\* One root on its share: walked whole, or cut by its entries or its time. The
\* cursor moves past it and is saved with those of the other families.
WalkRoot(r) ==
  /\ lane.phase = "roots"
  /\ IsNext(r)
  /\ LET share == EntryShare(lane.left, Cardinality(lane.todo))
         short == EntriesOf[r] > share
     IN  \E used \in 1..(IF short THEN share ELSE EntriesOf[r]) :
           /\ lane' = [lane EXCEPT !.todo = @ \ {r}, !.left = IF used > @ THEN 0 ELSE @ - used,
                         !.cut = IF short /\ used = share THEN @ \cup {r} ELSE @]
           /\ cursors' = [cursors EXCEPT ![lane.family] = r]
           /\ \E saved \in BOOLEAN :
                /\ cursorFile' = IF saved THEN cursors' ELSE cursorFile
                /\ ahead' = Overtakes(lane.family, r, saved)
  /\ UNCHANGED <<wroots, sharedUsed, watched>>

FamilyDone ==
  /\ lane.phase = "roots"
  /\ lane.todo = {}
  /\ lane' = IF lane.family = NFamilies
             THEN [LaneIdle EXCEPT !.phase = "after"]
             ELSE [LaneIdle EXCEPT !.phase = "family", !.family = lane.family + 1]
  /\ UNCHANGED <<wroots, cursorFile, cursors, sharedUsed, watched, ahead>>

\* Target directories of agent worktrees and shared Rust caches; stopped by the
\* shared budget or not, the global lanes follow.
AfterLanes ==
  /\ lane.phase = "after"
  /\ lane' = [LaneIdle EXCEPT !.phase = "global"]
  /\ UNCHANGED <<wroots, cursorFile, cursors, sharedUsed, watched, ahead>>

\* cleanGlobalDevCaches: no walk, no budget.
GlobalCaches ==
  /\ lane.phase = "global"
  /\ lane' = LaneIdle
  /\ cursors' = NoCursors
  /\ UNCHANGED <<wroots, cursorFile, sharedUsed, watched, ahead>>

\* The deadline of the run, or a shutdown: the roots to come are not walked.
WalksEnded ==
  /\ lane.phase = "roots"
  /\ lane.todo # {}
  /\ lane' = [LaneIdle EXCEPT !.phase = "global"]
  /\ UNCHANGED <<wroots, cursorFile, cursors, sharedUsed, watched, ahead>>

\* The daemon stops anywhere.
WalksCrash ==
  /\ lane.phase # "idle"
  /\ lane' = LaneIdle
  /\ cursors' = NoCursors
  /\ sharedUsed' = 0
  /\ UNCHANGED <<wroots, cursorFile, watched, ahead>>

\* A root is created or deleted; an empty scan path is not walked by roots.
RootsChange(r) ==
  /\ wroots' = IF r \in wroots THEN wroots \ {r} ELSE wroots \cup {r}
  /\ wroots' # {}
  /\ ahead' = (ahead /\ watched.waiter \in wroots')
  /\ UNCHANGED <<cursorFile, cursors, lane, sharedUsed, watched>>

WNext ==
  \/ WStart \/ TempLanes \/ SharedLanes \/ BeginFamily \/ FamilyDone
  \/ AfterLanes \/ GlobalCaches \/ WalksEnded \/ WalksCrash
  \/ \E r \in WRoots : WalkRoot(r) \/ RootsChange(r)

WSpec == WInit /\ [][WNext]_wvars
-----------------------------------------------------------------------------
WalksNow(f, r) ==
  /\ lane.phase = "roots" /\ lane'.phase = "roots"
  /\ lane.family = f /\ r \in lane.todo /\ lane'.todo = lane.todo \ {r}

\* Selects and WalkRoot let no root of a family be walked twice while another
\* one that is there all the time waits, across passes, crashes and roots that
\* come and go, as long as the saves of the cursor succeed.  (A family that
\* selects all its roots does not rotate: cut off by its deadline, it starts
\* again with the first.)
NoneOvertaken ==
  [][lane.rotated /\ WalksNow(watched.family, watched.other) => ~ ahead]_wvars

\* EntryShare cuts no root short that asks for no more than an even share of
\* the family's entries, whatever the roots before it took.
EvenShare ==
  WorkspaceMaxRoots > 0 =>
    \A r \in lane.cut : EntriesOf[r] > ScanMaxEntries \div WorkspaceMaxRoots

\* What findArtifactDirsOutside owes the roots of a family: their turn, and their
\* share when it comes.
WalksFair == []EvenShare /\ NoneOvertaken
-----------------------------------------------------------------------------
(* The inductive invariant behind WalksFair. *)

WTypeOK ==
  /\ wroots \subseteq WRoots
  /\ cursorFile \in [Families -> 0..NRoots] /\ cursors \in [Families -> 0..NRoots]
  /\ lane \in [phase : {"idle", "temp", "shared", "family", "roots", "after", "global"},
               family : 0..NFamilies, todo : SUBSET WRoots, from : 0..NRoots,
               seen : SUBSET WRoots, left : Nat, rotated : BOOLEAN, cut : SUBSET WRoots]
  /\ lane.phase \in {"family", "roots"} => lane.family \in Families
  /\ watched \in [family : Families, waiter : WRoots, other : WRoots]
  /\ watched.waiter # watched.other
  /\ ahead \in BOOLEAN

\* The pool has an even share left for every root to come.
PoolInv ==
  lane.phase = "roots" /\ WorkspaceMaxRoots > 0 =>
    lane.left >= Cardinality(lane.todo) * (ScanMaxEntries \div WorkspaceMaxRoots)

\* In a lane that rotates, seen from the moving cursor, the roots to come have
\* their turn before those the lane does not walk, and among themselves in the
\* order in which they were selected.
TurnInv ==
  lane.phase = "roots" /\ lane.rotated =>
    \A r \in lane.todo, s \in lane.seen :
      IF s \in lane.todo
      THEN Turn(lane.from, r) < Turn(lane.from, s)
             <=> Turn(cursors[lane.family], r) < Turn(cursors[lane.family], s)
      ELSE Turn(cursors[lane.family], r) < Turn(cursors[lane.family], s)

\* Once the other root was walked the waiter's turn comes before it, by the cursor
\* on disk and by the one in memory, and the lane at hand knows the waiter.
AheadInv ==
  ahead =>
    /\ watched.waiter \in wroots
    /\ Turn(cursorFile[watched.family], watched.waiter) < Turn(cursorFile[watched.family], watched.other)
    /\ lane.phase # "idle" => cursors[watched.family] = cursorFile[watched.family]
    /\ lane.phase = "roots" /\ lane.family = watched.family /\ lane.todo # {}
         => watched.waiter \in lane.seen

WalksInv == WTypeOK /\ lane.todo \subseteq lane.seen /\ PoolInv /\ EvenShare /\ TurnInv /\ AheadInv
=============================================================================
