------------------------------- MODULE NixRoots -------------------------------
(***************************************************************************)
(* Stale indirect Nix roots.  The daemon (plugins/nix_gcroots.go) classes  *)
(* the out-links registered under gcroots/auto and publishes the stale     *)
(* ones in a list; a root job (rootjobs/gcroot_unregister.go) reads the    *)
(* list at its own time, checks each line again and removes the entry.     *)
(* Shells and builds touch, rebuild and register links all the while.      *)
(***************************************************************************)
EXTENDS Naturals

CONSTANTS DirenvLinks,   \* links of one .direnv directory
          TempLinks,     \* out-links under a temporary directory
          AgentLinks,    \* the same, in the tree of an agent session
          PinnedLinks,   \* links under gcroots/ or profiles/, or of another user
          StaleAfter,    \* age at which each link counts as stale, in ticks
          MinLinkAge,    \* the job refuses a link changed more recently
          MaxListAge,    \* the job refuses a list written longer ago
          OldestAge      \* ages are counted up to this one

VARIABLES link,      \* age of each out-link, or NoLink
          auto,      \* links with an entry under gcroots/auto
          stay,      \* ticks since a process works in the agent tree, or Nobody
          drafted,   \* what the daemon classed stale: [waits, lines]
          list,      \* the candidates file, with the lines whose entry is newer: [there, age, lines, newer]
          ujob,       \* the root job: [phase, todo, at, newer, settled]
          lateLink   \* the link at hand changed since it was checked

gvars == <<link, auto, stay, drafted, list, ujob, lateLink>>

NoLink == OldestAge + 1
Nobody == MaxListAge + 2

Links == DirenvLinks \cup TempLinks \cup AgentLinks \cup PinnedLinks

ASSUME RootsAssumption ==
  /\ OldestAge \in Nat /\ MinLinkAge \in Nat /\ MaxListAge \in Nat /\ StaleAfter \in [Links -> Nat]
  /\ AgentLinks \cap (DirenvLinks \cup TempLinks) = {}

NoDraft == [waits |-> FALSE, lines |-> {}]

NoList == [there |-> FALSE, age |-> 0, lines |-> {}, newer |-> {}]

JobIdle == [phase |-> "idle", todo |-> {}, at |-> "none", newer |-> {}, settled |-> {}]

GInit ==
  /\ link = [l \in Links |-> OldestAge]
  /\ auto = Links
  /\ stay = [l \in AgentLinks |-> Nobody]
  /\ drafted = NoDraft
  /\ list = NoList
  /\ ujob = JobIdle
  /\ lateLink = FALSE
-----------------------------------------------------------------------------
(* The daemon.                                                             *)

Registered == {l \in auto : link[l] # NoLink}

AtLeast(l, age) == link[l] # NoLink /\ link[l] >= age

\* collect: a temporary link by its own age, a session's only when no process
\* works in its tree, the links of a .direnv by the newest one of them.
StaleRoots ==
  {l \in Registered \cap TempLinks : AtLeast(l, StaleAfter[l])}
  \cup {l \in Registered \cap AgentLinks : AtLeast(l, StaleAfter[l]) /\ stay[l] = Nobody}
  \cup {l \in Registered \cap DirenvLinks :
          \A k \in Registered \cap DirenvLinks : AtLeast(k, StaleAfter[k])}

\* A poll classes the roots; processes or a checkout that cannot be inspected
\* keep theirs.
Classify ==
  /\ ~ drafted.waits
  /\ \E kept \in {{}, AgentLinks, DirenvLinks} : drafted' = [waits |-> TRUE, lines |-> StaleRoots \ kept]
  /\ UNCHANGED <<link, auto, stay, list, ujob, lateLink>>

\* The list is replaced whole, or the write fails and the old one stays.
Publish ==
  /\ drafted.waits
  /\ drafted' = NoDraft
  /\ \/ list' = [there |-> TRUE, age |-> 0, lines |-> drafted.lines, newer |-> {}]
     \/ UNCHANGED list
  /\ UNCHANGED <<link, auto, stay, ujob, lateLink>>
-----------------------------------------------------------------------------
(* The root job.                                                           *)

\* processList; the open file stays the old one when the daemon replaces it.
OpenList ==
  /\ ujob.phase = "idle" /\ list.there
  /\ list.age <= MaxListAge
  /\ ujob' = [phase |-> "lines", todo |-> list.lines, at |-> "none", newer |-> list.newer,
             settled |-> {l \in AgentLinks : stay[l] # Nobody /\ stay[l] > MaxListAge}]
  /\ UNCHANGED <<link, auto, stay, drafted, list, lateLink>>

\* Mutant: the daemon has looked at the age of the link.
EntryHolds_AnyAge(l) ==
  /\ l \in auto /\ l \notin ujob.newer
  /\ link[l] # NoLink /\ l \notin PinnedLinks

\* checkEntry: registered before the list was written, the link still there,
\* the list owner's, old enough, and no named pin.
EntryHolds(l) ==
  /\ l \in auto /\ l \notin ujob.newer
  /\ AtLeast(l, MinLinkAge)
  /\ l \notin PinnedLinks

CheckLine(l) ==
  /\ ujob.phase = "lines" /\ l \in ujob.todo
  /\ ujob' = [ujob EXCEPT !.todo = @ \ {l}, !.newer = @ \ {l},
               !.phase = IF EntryHolds(l) THEN "remove" ELSE "lines",
               !.at = IF EntryHolds(l) THEN l ELSE "none"]
  /\ lateLink' = FALSE
  /\ UNCHANGED <<link, auto, stay, drafted, list>>

\* os.Remove of the entry, whatever became of the link since.
Unregister ==
  /\ ujob.phase = "remove"
  /\ ujob' = [ujob EXCEPT !.phase = "lines", !.at = "none"]
  /\ auto' \in {auto, auto \ {ujob.at}}
  /\ lateLink' = FALSE
  /\ UNCHANGED <<link, stay, drafted, list>>

JobEnds ==
  /\ ujob.phase = "lines"
  /\ ujob' = JobIdle
  /\ UNCHANGED <<link, auto, stay, drafted, list, lateLink>>
-----------------------------------------------------------------------------
(* Shells, builds and sessions.                                            *)

Changed(l) == lateLink' = (lateLink \/ ujob.at = l)

\* nix-direnv touches its links when a shell loads.
TouchLink(l) ==
  /\ link[l] # NoLink
  /\ link' = [link EXCEPT ![l] = 0]
  /\ Changed(l)
  /\ UNCHANGED <<auto, stay, drafted, list, ujob>>

\* A build makes the link anew and registers it under the same name.
Rebuild(l) ==
  /\ link' = [link EXCEPT ![l] = 0]
  /\ auto' = auto \cup {l}
  /\ list' = [list EXCEPT !.newer = @ \cup ({l} \cap list.lines)]
  /\ ujob' = [ujob EXCEPT !.newer = @ \cup ({l} \cap ujob.todo)]
  /\ Changed(l)
  /\ UNCHANGED <<stay, drafted>>

DeleteLink(l) ==
  /\ link[l] # NoLink
  /\ link' = [link EXCEPT ![l] = NoLink]
  /\ UNCHANGED <<auto, stay, drafted, list, ujob, lateLink>>

EnterTree(l) ==
  /\ stay[l] = Nobody
  /\ stay' = [stay EXCEPT ![l] = 0]
  /\ UNCHANGED <<link, auto, drafted, list, ujob, lateLink>>

LeaveTree(l) ==
  /\ stay[l] # Nobody
  /\ stay' = [stay EXCEPT ![l] = Nobody]
  /\ ujob' = [ujob EXCEPT !.settled = @ \ {l}]
  /\ UNCHANGED <<link, auto, drafted, list, lateLink>>

\* A poll publishes what it classed within the tick.
GTick ==
  LET older(age, cap) == IF age < cap THEN age + 1 ELSE age
  IN  /\ ~ drafted.waits
      /\ link' = [l \in Links |-> IF link[l] = NoLink THEN NoLink ELSE older(link[l], OldestAge)]
      /\ stay' = [l \in AgentLinks |-> IF stay[l] = Nobody THEN Nobody ELSE older(stay[l], MaxListAge + 1)]
      /\ list' = [list EXCEPT !.age = IF list.there THEN older(@, MaxListAge + 1) ELSE 0]
      /\ UNCHANGED <<auto, drafted, ujob, lateLink>>

GNext ==
  \/ Classify \/ Publish \/ OpenList \/ Unregister \/ JobEnds \/ GTick
  \/ \E l \in Links : CheckLine(l) \/ TouchLink(l) \/ Rebuild(l) \/ DeleteLink(l)
  \/ \E l \in AgentLinks : EnterTree(l) \/ LeaveTree(l)

GSpec == GInit /\ [][GNext]_gvars
-----------------------------------------------------------------------------
\* Unregister removes no entry whose link was touched or rebuilt within
\* MinLinkAge, whatever the list says and however old it is, but for a change
\* between the check of the line and the removal.
RecentLinkKept ==
  [][\A l \in auto \ auto' : AtLeast(l, MinLinkAge) \/ lateLink \/ link[l] = NoLink]_gvars

\* A session that works in its tree since longer than a list may be old, as the
\* job starts, and goes on working there keeps its roots: every list the job
\* accepts was written by a daemon that saw the session.
SettledSessionKept == [][\A l \in auto \ auto' : l \notin ujob.settled]_gvars

\* The two promises of gcroot_unregister.go about the entries that stay.
RootsKept == RecentLinkKept /\ SettledSessionKept
=============================================================================
