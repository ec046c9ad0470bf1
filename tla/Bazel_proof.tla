---------------------------- MODULE Bazel_proof ----------------------------
(***************************************************************************)
(* The output-base reaper deletes nothing that is in use, and no           *)
(* agent-session data its scans could meet, for any number of bases and    *)
(* clients (BazelBases); its walks thin out when they find nothing         *)
(* (BazelWalks).  The older plugin deletes what its plan may, and nothing  *)
(* that is in use since before its last look (BazelPlan).                  *)
(***************************************************************************)
EXTENDS BazelBases, BazelWalks, BazelPlan, NatRecursion, FiniteSetTheorems, TLAPS

Phase == {"idle", "asides", "purge", "rows", "check", "lock", "rename", "late", "undo", "delete",
          "done"}

Trees == Tree \cup {NoTree}

SurveyType ==
  [rows: SUBSET Paths, press: BOOLEAN, relieved: BOOLEAN, over: SUBSET Paths,
   measured: SUBSET Paths, sibling: BOOLEAN, asides: SUBSET Names]

BBTypeOK ==
  /\ tree \in [Place -> Trees]
  /\ client \in [Clients -> {"off", "waiting", "running", "server"}]
  /\ bclock \in 0 .. MaxBaseClock /\ usage \in Nat
  /\ bpc \in Phase /\ job \in Names /\ survey \in SurveyType
  /\ pressured \in BOOLEAN /\ crashed \in BOOLEAN

\* A client that holds a lock is running, has the tree open, and holds no other lock.
HolderInv ==
  \A pl \in Place : tree[pl].lock \in Clients =>
    /\ client[tree[pl].lock] = "running"
    /\ tree[pl].lock \in tree[pl].fds
    /\ \A q \in Place : tree[q].lock = tree[pl].lock => q = pl

\* The reaper's lock, where there is a file to lock, goes with the base it works on and is
\* held until that is back or gone.
ReaperInv ==
  /\ \A pl \in Place : tree[pl].lock = NoFile => pl[1] \in NoLockFile
  /\ \A pl \in Place : tree[pl].lock = Reaper =>
       \/ bpc = "rename" /\ pl = Base(job)
       \/ bpc \in {"late", "undo", "delete"} /\ pl = Aside(job)
  /\ bpc = "rename" /\ job \in Paths \ NoLockFile => tree[Base(job)].lock = Reaper
  /\ bpc \in {"late", "undo", "delete"} /\ job \in Paths \ NoLockFile => tree[Aside(job)].lock = Reaper

\* What is about to be deleted is open nowhere.
QuietInv == bpc \in {"purge", "delete"} => tree[Aside(job)].fds = {}

\* No aside holds agent-session data that a scan could have met, nor does a tree on its
\* way to become one.
AgentInv ==
  /\ \A n \in Names : tree[Aside(n)].agent # "seen"
  /\ bpc \in {"check", "lock", "rename"} => tree[Base(job)].agent # "seen"
  /\ survey.sibling /\ job = SibBase /\ bpc \in {"check", "lock", "rename", "late", "undo", "delete"} =>
       tree[Base(Sib)].agent # "seen"
  /\ \A p \in survey.measured : p \in survey.rows => tree[Base(p)].agent # "seen"
  /\ survey.sibling /\ SibBase \in survey.measured /\ SibBase \in survey.rows =>
       tree[Base(Sib)].agent # "seen"

\* A base that was moved aside, and that a client may still lock, has a successor in place,
\* or was moved without a lock and is about to go back.
MovedInv ==
  ~ crashed => \A p \in Paths :
    \/ tree[Aside(p)].lock = Reaper \/ tree[Aside(p)].fds = {}
    \/ Exists(Base(p))
    \/ p \in NoLockFile /\ p = job /\ bpc \in {"late", "undo"}

BBInv == BBTypeOK /\ HolderInv /\ ReaperInv /\ QuietInv /\ AgentInv /\ MovedInv

-----------------------------------------------------------------------------
(* Places and trees. *)

LEMMA Places ==
  /\ \A n \in Names : Base(n) \in Place /\ Aside(n) \in Place
  /\ \A n, m \in Names : Base(n) # Aside(m) /\ (Base(n) = Base(m) => n = m) /\ (Aside(n) = Aside(m) => n = m)
  /\ \A pl \in Place : pl[1] \in Names /\ (pl = Base(pl[1]) \/ pl = Aside(pl[1]))
  /\ Paths \subseteq Names /\ Sib \in Names /\ SibBase \in Names /\ SibBase \in Paths /\ Sib \notin Paths
<1>1. \A pl \in Place : pl[1] \in Names /\ (pl = Base(pl[1]) \/ pl = Aside(pl[1]))
  BY DEF Place, Base, Aside
<1>. QED  BY <1>1, BasesAssumption DEF Place, Base, Aside, Names

LEMMA TreeFields ==
  /\ \A t \in Tree : /\ t.fds \subseteq Clients /\ t.agent \in {"none", "seen", "unseen"}
                     /\ t.lock \in Clients \cup {Free, Reaper, NoFile}
  /\ NoTree.lock = "none" /\ NoTree.fds = {} /\ NoTree.agent = "none"
  /\ NoTree \notin Tree /\ NoTree \in Trees
  /\ \A t \in Trees : t # NoTree => t \in Tree
<1>1. \A t \in Tree : /\ t.fds \subseteq Clients /\ t.agent \in {"none", "seen", "unseen"}
                      /\ t.lock \in Clients \cup {Free, Reaper, NoFile}
  BY DEF Tree
<1>2. NoTree.lock = "none" /\ NoTree.fds = {} /\ NoTree.agent = "none"
  BY DEF NoTree
<1>3. "none" \notin Clients \cup {Free, Reaper, NoFile}
  BY BasesAssumption, <1>2 DEF Free, Reaper, NoFile
<1>. QED  BY <1>1, <1>2, <1>3 DEF Trees

LEMMA Locks ==
  /\ Free # Reaper /\ Free # "none" /\ Reaper # "none"
  /\ NoFile # Free /\ NoFile # Reaper /\ NoFile # "none"
  /\ Clients \cap {Free, Reaper, NoFile, "none"} = {}
  BY BasesAssumption DEF Free, Reaper, NoFile, NoTree

\* A client opens or closes a file below.
LEMMA WithFds ==
  ASSUME NEW t \in Trees, NEW F \in SUBSET Clients, t = NoTree => F = {}
  PROVE  /\ [t EXCEPT !.fds = F] \in Trees
         /\ [t EXCEPT !.fds = F].fds = F
         /\ [t EXCEPT !.fds = F].lock = t.lock
         /\ [t EXCEPT !.fds = F].agent = t.agent
         /\ [t EXCEPT !.fds = F] = NoTree <=> t = NoTree
<1>1. CASE t \in Tree
  <2>1. [t EXCEPT !.fds = F] \in Tree
    BY <1>1 DEF Tree
  <2>2. NoTree \notin Tree
    BY BasesAssumption DEF Tree, NoTree, Free, Reaper, NoFile
  <2>. QED  BY <1>1, <2>1, <2>2 DEF Trees, Tree
<1>2. CASE t = NoTree
  <2>1. [t EXCEPT !.fds = F] = NoTree
    BY <1>2 DEF NoTree
  <2>. QED  BY <1>2, <2>1 DEF Trees, NoTree
<1>. QED  BY <1>1, <1>2 DEF Trees

LEMMA ReleasedTree ==
  ASSUME NEW t \in Trees
  PROVE  /\ ReleasedNow(t) \in Trees
         /\ ReleasedNow(t).fds = t.fds
         /\ ReleasedNow(t).lock = IF t.lock = Reaper THEN Free ELSE t.lock
         /\ ReleasedNow(t).agent = t.agent
         /\ ReleasedNow(t) = NoTree <=> t = NoTree
<1>1. CASE t \in Tree
  <2>1. ReleasedNow(t) \in Tree
    BY <1>1 DEF Tree, ReleasedNow
  <2>2. NoTree \notin Tree
    BY BasesAssumption DEF Tree, NoTree, Free, Reaper, NoFile
  <2>. QED  BY <1>1, <2>1, <2>2 DEF Trees, Tree, ReleasedNow
<1>2. CASE t = NoTree
  <2>1. ReleasedNow(t) = NoTree
    BY <1>2 DEF NoTree, ReleasedNow, Reaper
  <2>. QED  BY <1>2, <2>1 DEF Trees, NoTree, Reaper
<1>. QED  BY <1>1, <1>2 DEF Trees

LEMMA FreshTree ==
  ASSUME BBTypeOK, NEW c \in Clients
  PROVE  /\ NewTree(c) \in Tree /\ NewTree(c).fds = {c}
         /\ NewTree(c).lock = Free /\ NewTree(c).agent = "none"
  BY DEF BBTypeOK, NewTree, Tree
-----------------------------------------------------------------------------
(* Each step keeps the invariant. *)

\* What ClientOpens and a server's start make of a tree.
LEMMA OpenedTree ==
  ASSUME BBTypeOK, NEW c \in Clients, NEW pl \in Place
  PROVE  /\ Opened(pl, c) \in Tree
         /\ tree[pl].fds \subseteq Opened(pl, c).fds
         /\ \/ Opened(pl, c).lock = tree[pl].lock
            \/ tree[pl].lock \in {"none", NoFile} /\ Opened(pl, c).lock = Free
         /\ Opened(pl, c).agent \in {tree[pl].agent, "none"}
<1>0. tree[pl] \in Trees
  BY DEF BBTypeOK
<1>1. CASE Exists(pl)
  <2> DEFINE l == IF tree[pl].lock = NoFile THEN Free ELSE tree[pl].lock
             F == tree[pl].fds \cup {c}
  <2>1. F \in SUBSET Clients /\ tree[pl] \in Tree /\ l \in Clients \cup {Free, Reaper, NoFile}
    BY <1>0, <1>1, TreeFields DEF Exists
  <2>2. Opened(pl, c) = [tree[pl] EXCEPT !.fds = F, !.lock = l]
    BY <1>1 DEF Opened
  <2>3. l = tree[pl].lock \/ (tree[pl].lock = NoFile /\ l = Free)
    OBVIOUS
  <2>4. tree[pl].fds \subseteq F
    OBVIOUS
  <2> HIDE DEF l, F
  <2>5. /\ Opened(pl, c) \in Tree /\ Opened(pl, c).fds = F /\ Opened(pl, c).lock = l
        /\ Opened(pl, c).agent = tree[pl].agent
    BY <2>1, <2>2 DEF Tree
  <2>. QED  BY <2>3, <2>4, <2>5
<1>2. CASE ~ Exists(pl)
  <2>1. Opened(pl, c) = NewTree(c) /\ tree[pl] = NoTree
    BY <1>2 DEF Opened, Exists
  <2>. QED  BY <2>1, FreshTree, TreeFields
<1>. QED  BY <1>1, <1>2
-----------------------------------------------------------------------------
(* Each step keeps the invariant. *)

\* A client opens a base, or makes a new one where there is none.
LEMMA OpensInv == ASSUME BBInv, NEW c \in Clients, NEW p \in Paths, ClientOpens(c, p) PROVE BBInv'
<1> USE DEF BBInv
<1>0. /\ tree \in [Place -> Trees] /\ client[c] = "off" /\ client' = [client EXCEPT ![c] = "waiting"]
      /\ tree' = [tree EXCEPT ![Base(p)] = Opened(Base(p), c)]
      /\ UNCHANGED <<bclock, usage, bpc, job, survey, pressured, crashed>>
  BY DEF ClientOpens, BBTypeOK
<1>1. p \in Names /\ Base(p) \in Place
  BY Places
<1> DEFINE t == Opened(Base(p), c)
<1>2. /\ t \in Tree /\ tree[Base(p)].fds \subseteq t.fds /\ t.agent \in {tree[Base(p)].agent, "none"}
      /\ t.lock = tree[Base(p)].lock \/ (tree[Base(p)].lock \in {"none", NoFile} /\ t.lock = Free)
  BY <1>1, OpenedTree
<1> HIDE DEF t
<1>3. tree' \in [Place -> Trees] /\ tree'[Base(p)] = t /\ \A q \in Place : q # Base(p) => tree'[q] = tree[q]
  BY <1>0, <1>1, <1>2 DEF Trees, t
<1>4. BBTypeOK'
  BY <1>0, <1>3 DEF BBTypeOK
<1>5. HolderInv'
  BY <1>0, <1>1, <1>2, <1>3, Locks DEF HolderInv, BBTypeOK
<1>6. ReaperInv'
  BY <1>0, <1>1, <1>2, <1>3, Locks, Places, TreeFields DEF ReaperInv, BBTypeOK
<1>7. QuietInv'
  BY <1>0, <1>1, <1>3, Places DEF QuietInv, BBTypeOK
<1>8. AgentInv'
  BY <1>0, <1>1, <1>2, <1>3, Places DEF AgentInv, BBTypeOK, SurveyType
<1>9. MovedInv'
  BY <1>0, <1>1, <1>2, <1>3, Places, TreeFields DEF MovedInv, Exists
<1>. QED  BY <1>4, <1>5, <1>6, <1>7, <1>8, <1>9

\* A waiting client gets the lock, and its server opens the sibling.
LEMMA LocksInv == ASSUME BBInv, NEW c \in Clients, NEW pl \in Place, ClientLocks(c, pl) PROVE BBInv'
<1> USE DEF BBInv
<1>0. /\ tree \in [Place -> Trees] /\ client[c] = "waiting" /\ client' = [client EXCEPT ![c] = "running"]
      /\ pl[1] \in Paths /\ c \in tree[pl].fds /\ tree[pl].lock = Free
      /\ UNCHANGED <<bclock, usage, bpc, job, survey, pressured, crashed>>
      /\ bclock \in 0 .. MaxBaseClock
  BY DEF ClientLocks, BBTypeOK
<1>1. Base(Sib) \in Place /\ pl # Base(Sib)
  BY <1>0, Places DEF Base
<1>2. tree[pl] \in Tree
  BY <1>0, TreeFields, Locks
<1> DEFINE l == [tree[pl] EXCEPT !.lock = c, !.use = bclock]
           u == IF pl[1] \in SibUsers THEN Opened(Base(Sib), c) ELSE tree[Base(Sib)]
<1>3. l \in Tree /\ l.fds = tree[pl].fds /\ l.lock = c /\ (l.agent = tree[pl].agent)
  <2>1. c \in Clients \cup {Free, Reaper, NoFile} /\ bclock \in 0 .. MaxBaseClock
    BY <1>0
  <2>. QED  BY ONLY <1>2, <2>1 DEF Tree
<1>4. /\ u \in Trees /\ tree[Base(Sib)].fds \subseteq u.fds /\ u.agent \in {tree[Base(Sib)].agent, "none"}
      /\ u.lock = tree[Base(Sib)].lock \/ (tree[Base(Sib)].lock \in {"none", NoFile} /\ u.lock = Free)
      /\ tree[Base(Sib)] # NoTree => u # NoTree
  BY <1>0, <1>1, OpenedTree, TreeFields DEF Trees
<1>5. tree' = [tree EXCEPT ![pl] = l, ![Base(Sib)] = u]
  BY <1>0, <1>1 DEF ClientLocks
<1> HIDE DEF l, u
<1>6. /\ tree' \in [Place -> Trees] /\ tree'[pl] = l /\ tree'[Base(Sib)] = u
      /\ \A q \in Place : q # pl /\ q # Base(Sib) => tree'[q] = tree[q]
  BY <1>0, <1>1, <1>3, <1>4, <1>5 DEF Trees
<1>7. BBTypeOK'
  BY <1>0, <1>6 DEF BBTypeOK
<1>8. HolderInv'
  <2>1. \A q \in Place : tree[q].lock # c
    BY <1>0 DEF HolderInv
  <2>. QED  BY <1>0, <1>1, <1>3, <1>4, <1>6, <2>1, Locks DEF HolderInv, BBTypeOK
<1>9. ReaperInv'
  <2>1. ASSUME NEW q \in Place
        PROVE  tree'[q].lock = Reaper <=> tree[q].lock = Reaper
    <3>1. CASE q = pl
      BY <1>0, <1>3, <1>6, <3>1, Locks
    <3>2. CASE q = Base(Sib)
      BY <1>4, <1>6, <3>2, Locks
    <3>3. CASE q # pl /\ q # Base(Sib)
      BY <1>6, <3>3
    <3>. QED  BY <3>1, <3>2, <3>3
  <2>2. ASSUME NEW q \in Place
        PROVE  tree'[q].lock = NoFile => tree[q].lock = NoFile
    <3>1. CASE q = pl
      BY <1>0, <1>3, <1>6, <3>1, Locks
    <3>2. CASE q = Base(Sib)
      BY <1>4, <1>6, <3>2, Locks
    <3>3. CASE q # pl /\ q # Base(Sib)
      BY <1>6, <3>3
    <3>. QED  BY <3>1, <3>2, <3>3
  <2>3. \A p \in Paths : Base(p) \in Place /\ Aside(p) \in Place
    BY Places
  <2>4. Base(job)' = Base(job) /\ Aside(job)' = Aside(job)
    BY <1>0 DEF Base, Aside
  <2>. QED  BY <1>0, <2>1, <2>2, <2>3, <2>4 DEF ReaperInv
<1>10. QuietInv'
  BY <1>0, <1>1, <1>3, <1>6, Places DEF QuietInv, BBTypeOK
<1>11. AgentInv'
  BY <1>0, <1>1, <1>3, <1>4, <1>6, Places DEF AgentInv, BBTypeOK, SurveyType
<1>12. MovedInv'
  <2>1. ASSUME NEW q \in Place
        PROVE  /\ tree[q] # NoTree => tree'[q] # NoTree
               /\ tree[q].lock = Reaper => tree'[q].lock = Reaper
               /\ q # Base(Sib) => tree'[q].fds = tree[q].fds
    BY <1>0, <1>2, <1>3, <1>4, <1>6, TreeFields, Locks
  <2>. QED  BY <1>0, <2>1, Places DEF MovedInv, Exists
<1>. QED  BY <1>7, <1>8, <1>9, <1>10, <1>11, <1>12

\* The command ends and its lock is free; no other lock was the client's.
LEMMA UnlocksInv == ASSUME BBInv, NEW c \in Clients, NEW pl \in Place, ClientUnlocks(c, pl) PROVE BBInv'
<1> USE DEF BBInv
<1>0. /\ tree \in [Place -> Trees] /\ client' = [client EXCEPT ![c] = "server"]
      /\ tree[pl].lock = c /\ bclock \in 0 .. MaxBaseClock
      /\ UNCHANGED <<bclock, usage, bpc, job, survey, pressured, crashed>>
  BY DEF ClientUnlocks, BBTypeOK
<1>1. tree[pl] \in Tree
  BY <1>0, TreeFields, Locks
<1> DEFINE l == [tree[pl] EXCEPT !.lock = Free, !.use = bclock]
<1>2. l \in Tree /\ l.fds = tree[pl].fds /\ l.lock = Free /\ (l.agent = tree[pl].agent)
  <2>1. Free \in Clients \cup {Free, Reaper, NoFile} /\ bclock \in 0 .. MaxBaseClock
    BY <1>0
  <2>. QED  BY ONLY <1>1, <2>1 DEF Tree
<1>3. tree' = [tree EXCEPT ![pl] = l]
  BY DEF ClientUnlocks
<1> HIDE DEF l
<1>4. tree' \in [Place -> Trees] /\ tree'[pl] = l /\ \A q \in Place : q # pl => tree'[q] = tree[q]
  BY <1>0, <1>2, <1>3 DEF Trees
<1>5. BBTypeOK'
  BY <1>0, <1>4 DEF BBTypeOK
<1>6. HolderInv'
  <2>1. \A q \in Place : tree[q].lock = c => q = pl
    BY <1>0 DEF HolderInv
  <2>. QED  BY <1>0, <1>2, <1>4, <2>1, Locks DEF HolderInv, BBTypeOK
<1>7. ReaperInv'
  BY <1>0, <1>2, <1>4, Locks, Places DEF ReaperInv, BBTypeOK
<1>8. QuietInv' /\ AgentInv'
  BY <1>0, <1>2, <1>4, Places DEF QuietInv, AgentInv, BBTypeOK, SurveyType
<1>9. MovedInv'
  BY <1>0, <1>1, <1>2, <1>4, Places, TreeFields, Locks DEF MovedInv, Exists
<1>. QED  BY <1>5, <1>6, <1>7, <1>8, <1>9

\* A client that holds no lock closes what it has open.
LEMMA ExitsInv == ASSUME BBInv, NEW c \in Clients, ClientExits(c) PROVE BBInv'
<1> USE DEF BBInv
<1>0. /\ tree \in [Place -> Trees] /\ client' = [client EXCEPT ![c] = "off"] /\ client[c] # "running"
      /\ tree' = [pl \in Place |-> [tree[pl] EXCEPT !.fds = tree[pl].fds \ {c}]]
      /\ UNCHANGED <<bclock, usage, bpc, job, survey, pressured, crashed>>
  BY DEF ClientExits, BBTypeOK
<1>1. ASSUME NEW q \in Place
      PROVE  /\ tree'[q] \in Trees /\ tree'[q].fds = tree[q].fds \ {c} /\ tree'[q].lock = tree[q].lock
             /\ (tree'[q].agent = tree[q].agent) /\ (tree'[q] = NoTree <=> tree[q] = NoTree)
  <2>1. tree[q] \in Trees /\ tree[q].fds \ {c} \in SUBSET Clients /\ (tree[q] = NoTree => tree[q].fds \ {c} = {})
    BY <1>0, TreeFields
  <2>. QED  BY <1>0, <2>1, WithFds, ZenonT(30)
<1>2. BBTypeOK'
  BY <1>0, <1>1 DEF BBTypeOK
<1>3. HolderInv'
  <2>1. \A q \in Place : tree[q].lock # c
    BY <1>0 DEF HolderInv
  <2>2. \A q \in Place : tree'[q].lock \in Clients => client'[tree'[q].lock] = client[tree[q].lock]
    BY <1>0, <1>1, <2>1 DEF BBTypeOK
  <2> SUFFICES ASSUME NEW q \in Place, tree'[q].lock \in Clients
               PROVE  /\ client'[tree'[q].lock] = "running"
                      /\ tree'[q].lock \in tree'[q].fds
                      /\ \A r \in Place : tree'[r].lock = tree'[q].lock => r = q
    BY DEF HolderInv
  <2>3. tree'[q].lock = tree[q].lock /\ tree'[q].fds = tree[q].fds \ {c}
    BY <1>1
  <2>4. \A r \in Place : tree'[r].lock = tree[r].lock
    BY <1>1
  <2>. QED  BY <2>1, <2>2, <2>3, <2>4 DEF HolderInv
<1>4. ReaperInv'
  BY <1>0, <1>1, Places, ZenonT(30) DEF ReaperInv, BBTypeOK
<1>5. QuietInv'
  BY <1>0, <1>1, Places DEF QuietInv, BBTypeOK
<1>6. AgentInv'
  <2>1. \A n \in Names : (tree'[Base(n)].agent = tree[Base(n)].agent) /\ (tree'[Aside(n)].agent = tree[Aside(n)].agent)
    BY <1>1, Places
  <2>. QED  BY <1>0, <2>1, Places DEF AgentInv, BBTypeOK, SurveyType
<1>7. MovedInv'
  BY <1>0, <1>1, Places DEF MovedInv, Exists
<1>. QED  BY <1>2, <1>3, <1>4, <1>5, <1>6, <1>7

\* Time passes, or others fill the disk.
LEMMA OutsideInv == ASSUME BBInv, BaseTick \/ OthersWrite PROVE BBInv'
<1>1. BBTypeOK'
  BY BasesAssumption DEF BBInv, BBTypeOK, BaseTick, OthersWrite
<1>2. UNCHANGED <<tree, client, bpc, job, survey, crashed>>
  BY DEF BaseTick, OthersWrite
<1>. QED
  BY <1>1, <1>2 DEF BBInv, HolderInv, ReaperInv, QuietInv, AgentInv, MovedInv, Exists

\* A step of the pass that moves no tree keeps what is said of trees alone; the reaper
\* holds no lock before and after it.
LEMMA PassSteps ==
  ASSUME BBInv, UNCHANGED <<tree, client, bclock, usage, crashed>>,
         bpc \notin {"rename", "late", "undo", "delete"},
         bpc' \notin {"late", "undo", "delete"}, ~ (bpc' = "rename" /\ job' \in Paths)
  PROVE  HolderInv' /\ ReaperInv' /\ MovedInv'
<1>1. HolderInv'
  BY DEF BBInv, HolderInv
<1>2. ReaperInv'
  BY DEF BBInv, ReaperInv
<1>3. MovedInv'
  BY DEF BBInv, MovedInv, Exists
<1>. QED  BY <1>1, <1>2, <1>3

\* The survey keeps no row that it measured and found agent-session data in; what earlier
\* passes did not see is there to be seen.
LEMMA SurveyInv ==
  ASSUME BBInv, NEW found \in SUBSET Paths, NEW measured \in SUBSET Paths, NEW complete \in BOOLEAN,
         Survey(found, measured, complete)
  PROVE  BBInv'
<1> USE DEF BBInv
<1>1. /\ UNCHANGED <<client, bclock, usage, job, pressured, crashed>>
      /\ bpc = "idle" /\ bpc' \in {"asides", "done"}
      /\ tree' = [pl \in Place |-> Rescanned(pl)] /\ tree \in [Place -> Trees]
  BY DEF Survey, BBTypeOK
<1>2. ASSUME NEW q \in Place
      PROVE  /\ tree'[q] \in Trees /\ tree'[q].fds = tree[q].fds /\ tree'[q].lock = tree[q].lock
             /\ tree'[q] = NoTree <=> tree[q] = NoTree
             /\ tree[q].agent = "none" => tree'[q].agent = "none"
             /\ q[2] = "aside" => tree'[q].agent = tree[q].agent
  <2> DEFINE a == IF q[2] = "base" /\ tree[q].agent = "unseen" THEN "seen" ELSE tree[q].agent
  <2>1. tree'[q] = [tree[q] EXCEPT !.agent = a]
    BY <1>1 DEF Rescanned
  <2>2. CASE tree[q] \in Tree
    <3>1. a \in {"none", "seen", "unseen"} /\ (tree[q].agent = "none" => a = "none")
          /\ (q[2] = "aside" => a = tree[q].agent)
      BY <2>2, TreeFields
    <3> HIDE DEF a
    <3>2. tree'[q] \in Tree /\ tree'[q].fds = tree[q].fds /\ tree'[q].lock = tree[q].lock /\ tree'[q].agent = a
      BY <2>1, <2>2, <3>1 DEF Tree
    <3>. QED  BY <2>2, <3>1, <3>2, TreeFields DEF Trees
  <2>3. CASE tree[q] = NoTree
    <3>1. a = "none"
      BY <2>3, TreeFields
    <3> HIDE DEF a
    <3>2. tree'[q] = NoTree
      BY <2>1, <2>3, <3>1 DEF NoTree
    <3>. QED  BY <2>3, <3>2, TreeFields
  <2>. QED  BY <1>1, <2>2, <2>3 DEF Trees
<1> DEFINE due == {p \in found : Removable(p, PressureState)}
           past == {p \in due : Idle(p) > IdleWindow(p)}
           rows == {p \in due : p \in measured => ~ HoldsAgentData(p)}
           sib == SiblingFree(found) /\ (SibBase \in measured => ~ HoldsAgentData(Sib))
           asides == IF Listed = Paths THEN {n \in Names : Exists(Aside(n))} ELSE {}
<1>3. survey' = [rows |-> rows, press |-> PressureState, relieved |-> FALSE, over |-> past,
                 measured |-> measured, sibling |-> sib, asides |-> asides]
  BY Zenon DEF Survey, NoSurvey
<1>4. /\ rows \in SUBSET Paths /\ past \in SUBSET Paths /\ asides \in SUBSET Names
      /\ PressureState \in BOOLEAN /\ sib \in BOOLEAN
  BY DEF PressureState
<1>5. /\ \A p \in measured : p \in rows => tree[Base(p)].agent = "none"
      /\ sib /\ SibBase \in measured => tree[Base(Sib)].agent = "none"
  BY DEF HoldsAgentData
<1> HIDE DEF due, past, rows, sib, asides
<1>6. survey' \in SurveyType /\ survey'.measured = measured /\ survey'.rows = rows /\ survey'.sibling = sib
  BY <1>3, <1>4 DEF SurveyType
<1>7. BBTypeOK'
  BY <1>1, <1>2, <1>6 DEF BBTypeOK, Phase
<1>8. HolderInv' /\ ReaperInv'
  BY <1>1, <1>2 DEF HolderInv, ReaperInv
<1>9. QuietInv'
  BY <1>1 DEF QuietInv
<1>10. AgentInv'
  <2>1. \A n \in Names : tree'[Aside(n)].agent = tree[Aside(n)].agent
    BY <1>2, Places DEF Aside
  <2>2. \A n \in Names : tree[Base(n)].agent = "none" => tree'[Base(n)].agent = "none"
    BY <1>2, Places
  <2>3. \A q \in survey'.measured : q \in survey'.rows => tree'[Base(q)].agent # "seen"
    BY <1>5, <1>6, <2>2, Places
  <2>4. survey'.sibling /\ SibBase \in survey'.measured => tree'[Base(Sib)].agent # "seen"
    BY <1>5, <1>6, <2>2, Places
  <2>. QED  BY <1>1, <2>1, <2>3, <2>4 DEF AgentInv
<1>11. MovedInv'
  BY <1>1, <1>2, Places DEF MovedInv, Exists
<1>. QED  BY <1>7, <1>8, <1>9, <1>10, <1>11

\* removeAside looks at a leftover, which no client can open by name.
LEMMA CheckAsideInv ==
  ASSUME BBInv, NEW n \in Names, NEW complete \in BOOLEAN, CheckAside(n, complete)
  PROVE  BBInv'
<1>1. /\ UNCHANGED <<tree, client, bclock, usage, pressured, crashed>> /\ bpc = "asides"
      /\ survey' = [survey EXCEPT !.asides = survey.asides \ {n}]
      /\ \/ UNCHANGED <<bpc, job>>
         \/ bpc' = "purge" /\ job' = n /\ tree[Aside(n)].fds = {}
  BY DEF CheckAside, Live, HoldsFiles
<1>2. /\ survey' \in SurveyType /\ survey'.rows = survey.rows /\ survey'.measured = survey.measured
      /\ survey'.sibling = survey.sibling
  BY <1>1 DEF BBInv, BBTypeOK, SurveyType
<1>3. BBTypeOK'
  BY <1>1, <1>2 DEF BBInv, BBTypeOK, Phase
<1>4. QuietInv' /\ AgentInv'
  BY <1>1, <1>2 DEF BBInv, QuietInv, AgentInv
<1>. QED  BY <1>1, <1>3, <1>4, PassSteps DEF BBInv

\* A row that is done with changes nothing else of the survey.
LEMMA WithoutSurvey ==
  ASSUME BBTypeOK, NEW p \in Names
  PROVE  /\ Without(p) \in SurveyType /\ Without(p).measured = survey.measured
         /\ Without(p).sibling = survey.sibling /\ Without(p).rows \subseteq survey.rows
<1>1. survey.rows \ {p} \in SUBSET Paths /\ survey \in SurveyType
  BY DEF BBTypeOK, SurveyType
<1>. QED  BY <1>1 DEF Without, SurveyType

LEMMA KeptSurvey ==
  ASSUME BBTypeOK
  PROVE  /\ Kept \in SurveyType /\ Kept.measured = survey.measured
         /\ (Kept.sibling => survey.sibling) /\ Kept.rows \subseteq survey.rows
<1>1. CASE job \in Paths
  BY <1>1, Places, WithoutSurvey DEF Kept
<1>2. CASE job \notin Paths
  BY <1>2 DEF Kept, BBTypeOK, SurveyType
<1>. QED  BY <1>1, <1>2

\* Rows that stay, pass to the next or end the pass.
LEMMA RowsInv == ASSUME BBInv, AsidesDone \/ Defer \/ RowsDone \/ Finish PROVE BBInv'
<1>1. /\ UNCHANGED <<tree, client, bclock, usage, crashed>> /\ job' \in Names
      /\ bpc \in {"asides", "rows", "done"} /\ bpc' \in {"rows", "done", "idle"} /\ pressured' \in BOOLEAN
  BY Places DEF AsidesDone, Defer, RowsDone, Finish, BBInv, BBTypeOK, PressureState
<1>2. /\ survey' \in SurveyType /\ survey'.rows \subseteq survey.rows
      /\ survey'.rows # {} => survey' = survey
  <2>1. survey \in SurveyType
    BY DEF BBInv, BBTypeOK
  <2>2. CASE Defer
    BY <2>1, <2>2 DEF Defer, SurveyType
  <2>3. CASE Finish
    BY <2>3 DEF Finish, NoSurvey, SurveyType
  <2>4. CASE survey' = survey
    BY <2>1, <2>4
  <2>. QED  BY <2>2, <2>3, <2>4 DEF AsidesDone, RowsDone
<1>3. BBTypeOK'
  BY <1>1, <1>2 DEF BBInv, BBTypeOK, Phase
<1>4. QuietInv' /\ AgentInv'
  BY <1>1, <1>2 DEF BBInv, QuietInv, AgentInv
<1>. QED  BY <1>1, <1>3, <1>4, PassSteps DEF BBInv

\* A row is taken only when its base, and its sibling's, were scanned.
LEMMA TakeRowInv == ASSUME BBInv, NEW p \in Paths, NEW ok \in BOOLEAN, TakeRow(p, ok) PROVE BBInv'
<1> DEFINE relieved == survey.press /\ (survey.relieved \/ usage < WideStop)
           limit == WindowOf(p, survey.press /\ ~ relieved)
           keep == \/ relieved /\ p \notin survey.over
                   \/ ~ Exists(Base(p)) \/ Idle(p) <= limit
                   \/ ~ LateMeasure(p, ok)
           sib == p = SibBase /\ ~ keep => p \in survey.measured \/ ~ HoldsAgentData(Sib)
           base == IF keep THEN Without(p) ELSE survey
<1>1. /\ UNCHANGED <<tree, client, bclock, usage, pressured, crashed>> /\ bpc = "rows" /\ p \in survey.rows
      /\ bpc' = (IF keep THEN "rows" ELSE "check") /\ job' = (IF keep THEN job ELSE p)
      /\ survey' = [base EXCEPT !.relieved = relieved, !.sibling = base.sibling /\ sib]
  BY Zenon DEF TakeRow
<1>2. ~ keep => LateMeasure(p, ok)
  OBVIOUS
<1>3. /\ base \in SurveyType /\ base.measured = survey.measured /\ base.sibling = survey.sibling
      /\ base.rows \subseteq survey.rows
  BY WithoutSurvey, Places DEF BBInv, BBTypeOK
<1>4. relieved \in BOOLEAN /\ sib \in BOOLEAN
  BY DEF BBInv, BBTypeOK, SurveyType
<1>5. sib /\ p = SibBase /\ ~ keep => p \in survey.measured \/ tree[Base(Sib)].agent = "none"
  BY DEF HoldsAgentData
<1> HIDE DEF relieved, limit, keep, base, sib
<1>6. /\ survey' \in SurveyType /\ survey'.measured = survey.measured /\ survey'.rows \subseteq survey.rows
      /\ survey'.sibling => survey.sibling /\ sib
  BY <1>1, <1>3, <1>4 DEF SurveyType
<1>7. BBTypeOK'
  BY <1>1, <1>6, Places DEF BBInv, BBTypeOK, Phase
<1>8. ~ keep => tree[Base(p)].agent # "seen"
  BY <1>1, <1>2 DEF LateMeasure, HoldsAgentData, BBInv, AgentInv
<1>9. ~ keep /\ p = SibBase /\ survey'.sibling => tree[Base(Sib)].agent # "seen"
  BY <1>1, <1>5, <1>6 DEF BBInv, AgentInv
<1>10. AgentInv'
  BY <1>1, <1>6, <1>8, <1>9 DEF BBInv, AgentInv
<1>11. QuietInv'
  BY <1>1 DEF QuietInv
<1>. QED  BY <1>1, <1>7, <1>10, <1>11, PassSteps DEF BBInv

\* The look before the lock.
LEMMA CheckInv == ASSUME BBInv, NEW complete \in BOOLEAN, Check(complete) PROVE BBInv'
<1>1. /\ UNCHANGED <<tree, client, bclock, usage, job, pressured, crashed>> /\ bpc = "check"
      /\ \/ bpc' = (IF job \in Paths THEN "lock" ELSE "rename") /\ survey' = survey
         \/ bpc' = "rows" /\ survey' = Kept
  BY DEF Check, NextRow
<1>2. /\ survey' \in SurveyType /\ survey'.measured = survey.measured
      /\ (survey'.sibling => survey.sibling) /\ survey'.rows \subseteq survey.rows
  BY <1>1, KeptSurvey DEF BBInv, BBTypeOK
<1>3. BBTypeOK'
  BY <1>1, <1>2 DEF BBInv, BBTypeOK, Phase
<1>4. AgentInv'
  BY <1>1, <1>2 DEF BBInv, AgentInv
<1>5. QuietInv'
  BY <1>1 DEF QuietInv
<1>. QED  BY <1>1, <1>3, <1>4, <1>5, PassSteps DEF BBInv

\* A pass that gives up a row: the survey as it was, less that row.
LEMMA SurveyLess ==
  ASSUME BBInv, survey' \in {survey, Kept, Without(job)}
  PROVE  /\ survey' \in SurveyType /\ (survey'.sibling => survey.sibling)
         /\ \A q \in survey'.measured : q \in survey'.rows => q \in Paths /\ tree[Base(q)].agent # "seen"
         /\ survey'.sibling /\ SibBase \in survey'.measured /\ SibBase \in survey'.rows =>
              tree[Base(Sib)].agent # "seen"
<1>1. /\ survey' \in SurveyType /\ survey'.measured = survey.measured /\ survey.measured \subseteq Paths
      /\ (survey'.sibling => survey.sibling) /\ survey'.rows \subseteq survey.rows
  BY KeptSurvey, WithoutSurvey DEF BBInv, BBTypeOK, SurveyType
<1>. QED  BY <1>1 DEF BBInv, AgentInv

\* The reaper takes the lock of a base when it is free, and none when there is no file.
LEMMA TakeLockInv == ASSUME BBInv, TakeLock PROVE BBInv'
<1> USE DEF BBInv
<1>0. /\ tree \in [Place -> Trees] /\ job \in Names /\ Base(job) \in Place
      /\ UNCHANGED <<client, bclock, usage, job, pressured, crashed>> /\ bpc = "lock"
  BY Places DEF TakeLock, BBTypeOK
<1>1. CASE tree[Base(job)].lock \in {Free, NoFile}
  <2>1. tree[Base(job)] \in Tree
    BY <1>0, <1>1, TreeFields, Locks
  <2> DEFINE k == IF tree[Base(job)].lock = Free THEN Reaper ELSE tree[Base(job)].lock
             l == [tree[Base(job)] EXCEPT !.lock = k]
  <2>2. k \in {Reaper, NoFile} /\ (k = NoFile => tree[Base(job)].lock = NoFile)
    BY <1>1, Locks
  <2>3. tree' = [tree EXCEPT ![Base(job)] = l] /\ bpc' = "rename" /\ survey' = survey
    BY <1>1 DEF TakeLock
  <2> HIDE DEF k
  <2>4. l \in Tree /\ l.fds = tree[Base(job)].fds /\ l.lock = k /\ l.agent = tree[Base(job)].agent
    BY <2>1, <2>2 DEF Tree
  <2> HIDE DEF l
  <2>5. /\ tree' \in [Place -> Trees] /\ tree'[Base(job)] = l
        /\ \A q \in Place : q # Base(job) => tree'[q] = tree[q]
    BY <1>0, <2>3, <2>4 DEF Trees
  <2>6. BBTypeOK'
    BY <1>0, <2>3, <2>5 DEF BBTypeOK, Phase
  <2>7. HolderInv'
    BY <1>0, <2>2, <2>4, <2>5, Locks DEF HolderInv
  <2>8. ReaperInv'
    <3>1. k = NoFile => job \in NoLockFile
      BY <1>0, <2>2 DEF ReaperInv, Base
    <3>2. \A q \in Place : tree[q].lock # Reaper
      BY <1>0 DEF ReaperInv
    <3>. QED  BY <1>0, <2>2, <2>3, <2>4, <2>5, <3>1, <3>2, Locks DEF ReaperInv, Base
  <2>9. QuietInv' /\ AgentInv'
    BY <1>0, <2>3, <2>4, <2>5, Places DEF QuietInv, AgentInv, BBTypeOK, SurveyType
  <2>10. MovedInv'
    BY <1>0, <2>1, <2>4, <2>5, Places, TreeFields DEF MovedInv, Exists
  <2>. QED  BY <2>6, <2>7, <2>8, <2>9, <2>10
<1>2. CASE tree[Base(job)].lock \notin {Free, NoFile}
  <2>1. bpc' = "rows" /\ survey' = Kept /\ tree' = tree
    BY <1>2 DEF TakeLock, NextRow
  <2>2. BBTypeOK' /\ AgentInv' /\ QuietInv'
    BY <1>0, <2>1, SurveyLess DEF BBTypeOK, Phase, AgentInv, QuietInv
  <2>. QED  BY <1>0, <2>1, <2>2, PassSteps
<1>. QED  BY <1>1, <1>2

\* The base is renamed with its lock, unless an older aside is in the way.
LEMMA RenameAsideInv == ASSUME BBInv, RenameAside PROVE BBInv'
<1> USE DEF BBInv
<1>0. /\ tree \in [Place -> Trees] /\ job \in Names /\ Base(job) \in Place /\ Aside(job) \in Place
      /\ Base(job) # Aside(job)
      /\ UNCHANGED <<client, bclock, usage, job, pressured, crashed>> /\ bpc = "rename"
  BY Places DEF RenameAside, BBTypeOK
<1>1. CASE Exists(Aside(job))
  <2> DEFINE l == ReleasedNow(tree[Base(job)])
  <2>1. tree' = [tree EXCEPT ![Base(job)] = l] /\ bpc' = "rows" /\ survey' = Kept
    BY <1>1 DEF RenameAside, NextRow
  <2>2. /\ l \in Trees /\ l.fds = tree[Base(job)].fds /\ (l.agent = tree[Base(job)].agent)
        /\ l.lock = IF tree[Base(job)].lock = Reaper THEN Free ELSE tree[Base(job)].lock
        /\ l = NoTree <=> tree[Base(job)] = NoTree
    BY <1>0, ReleasedTree
  <2> HIDE DEF l
  <2>3. /\ tree' \in [Place -> Trees] /\ tree'[Base(job)] = l
        /\ \A q \in Place : q # Base(job) => tree'[q] = tree[q]
    BY <1>0, <2>1, <2>2
  <2>4. BBTypeOK'
    BY <1>0, <2>1, <2>3, SurveyLess DEF BBTypeOK, Phase
  <2>5. HolderInv'
    BY <1>0, <2>2, <2>3, Locks DEF HolderInv
  <2>6. ReaperInv'
    BY <1>0, <2>1, <2>2, <2>3, Locks DEF ReaperInv
  <2>7. QuietInv' /\ AgentInv'
    BY <1>0, <2>1, <2>2, <2>3, SurveyLess, Places DEF QuietInv, AgentInv
  <2>8. MovedInv'
    BY <1>0, <2>2, <2>3, Places DEF MovedInv, Exists
  <2>. QED  BY <2>4, <2>5, <2>6, <2>7, <2>8
<1>2. CASE ~ Exists(Aside(job))
  <2>1. /\ tree' = [tree EXCEPT ![Aside(job)] = tree[Base(job)], ![Base(job)] = NoTree]
        /\ bpc' = "late" /\ survey' = survey /\ tree[Aside(job)] = NoTree
    BY <1>2 DEF RenameAside, Exists
  <2>2. /\ tree' \in [Place -> Trees] /\ tree'[Base(job)] = NoTree /\ tree'[Aside(job)] = tree[Base(job)]
        /\ \A q \in Place : q # Base(job) /\ q # Aside(job) => tree'[q] = tree[q]
    BY <1>0, <2>1, TreeFields
  <2>3. BBTypeOK'
    BY <1>0, <2>1, <2>2 DEF BBTypeOK, Phase
  <2>4. HolderInv'
    BY <1>0, <2>2, Locks, TreeFields DEF HolderInv
  <2>5. ReaperInv'
    BY <1>0, <2>1, <2>2, Locks, TreeFields, Places DEF ReaperInv, Base, Aside
  <2>6. QuietInv' /\ AgentInv'
    BY <1>0, <2>1, <2>2, TreeFields, Places DEF QuietInv, AgentInv, BBTypeOK, SurveyType
  <2>7. MovedInv'
    BY <1>0, <2>1, <2>2, Places DEF MovedInv, Exists, ReaperInv
  <2>. QED  BY <2>3, <2>4, <2>5, <2>6, <2>7
<1>. QED  BY <1>1, <1>2

\* The second look: nothing that is open is deleted.
LEMMA LateLookInv == ASSUME BBInv, NEW complete \in BOOLEAN, LateLook(complete) PROVE BBInv'
<1> USE DEF BBInv
<1>1. /\ UNCHANGED <<tree, client, bclock, usage, job, survey, pressured, crashed>> /\ bpc = "late"
      /\ bpc' = "undo" \/ (bpc' = "delete" /\ tree[Aside(job)].fds = {})
  BY DEF LateLook, HoldsFiles
<1>2. BBTypeOK' /\ HolderInv' /\ MovedInv'
  BY <1>1 DEF BBTypeOK, Phase, HolderInv, MovedInv, Exists
<1>3. ReaperInv' /\ QuietInv' /\ AgentInv'
  BY <1>1 DEF ReaperInv, QuietInv, AgentInv
<1>. QED  BY <1>2, <1>3

\* The base goes back, or stays aside behind a new one; its lock is free after it.
LEMMA RenameBackInv == ASSUME BBInv, RenameBack PROVE BBInv'
<1> USE DEF BBInv
<1>0. /\ tree \in [Place -> Trees] /\ job \in Names /\ Base(job) \in Place /\ Aside(job) \in Place
      /\ Base(job) # Aside(job) /\ bpc' = "rows" /\ survey' = Kept
      /\ UNCHANGED <<client, bclock, usage, job, pressured, crashed>> /\ bpc = "undo"
  BY Places DEF RenameBack, NextRow, BBTypeOK
<1> DEFINE l == ReleasedNow(tree[Aside(job)])
<1>1. /\ l \in Trees /\ l.fds = tree[Aside(job)].fds /\ (l.agent = tree[Aside(job)].agent)
      /\ l.lock = IF tree[Aside(job)].lock = Reaper THEN Free ELSE tree[Aside(job)].lock
      /\ l = NoTree <=> tree[Aside(job)] = NoTree
  BY <1>0, ReleasedTree
<1>2. \A q \in Place : tree[q].lock = Reaper => q = Aside(job)
  BY <1>0 DEF ReaperInv
<1>3. CASE Exists(Base(job))
  <2>1. tree' = [tree EXCEPT ![Aside(job)] = l]
    BY <1>3 DEF RenameBack
  <2> HIDE DEF l
  <2>2. /\ tree' \in [Place -> Trees] /\ tree'[Aside(job)] = l
        /\ \A q \in Place : q # Aside(job) => tree'[q] = tree[q]
    BY <1>0, <1>1, <2>1
  <2>3. BBTypeOK'
    BY <1>0, <2>2, SurveyLess DEF BBTypeOK, Phase
  <2>4. HolderInv'
    BY <1>0, <1>1, <2>2, Locks DEF HolderInv
  <2>5. ReaperInv'
    BY <1>0, <1>1, <1>2, <2>2, Locks DEF ReaperInv
  <2>6. QuietInv' /\ AgentInv'
    BY <1>0, <1>1, <2>2, SurveyLess, Places DEF QuietInv, AgentInv
  <2>7. MovedInv'
    BY <1>0, <1>1, <1>3, <2>2, Places DEF MovedInv, Exists
  <2>. QED  BY <2>3, <2>4, <2>5, <2>6, <2>7
<1>4. CASE ~ Exists(Base(job))
  <2>1. tree' = [tree EXCEPT ![Base(job)] = l, ![Aside(job)] = NoTree]
    BY <1>4 DEF RenameBack
  <2> HIDE DEF l
  <2>2. /\ tree' \in [Place -> Trees] /\ tree'[Base(job)] = l /\ tree'[Aside(job)] = NoTree
        /\ \A q \in Place : q # Base(job) /\ q # Aside(job) => tree'[q] = tree[q]
    BY <1>0, <1>1, <2>1, TreeFields
  <2>3. BBTypeOK'
    BY <1>0, <2>2, SurveyLess DEF BBTypeOK, Phase
  <2>4. HolderInv'
    BY <1>0, <1>1, <2>2, Locks, TreeFields DEF HolderInv
  <2>5. ReaperInv'
    BY <1>0, <1>1, <1>2, <2>2, Locks, TreeFields DEF ReaperInv, Base, Aside
  <2>6. QuietInv' /\ AgentInv'
    BY <1>0, <1>1, <2>2, SurveyLess, TreeFields, Places DEF QuietInv, AgentInv
  <2>7. MovedInv'
    BY <1>0, <1>1, <2>2, TreeFields, Places DEF MovedInv, Exists
  <2>. QED  BY <2>3, <2>4, <2>5, <2>6, <2>7
<1>. QED  BY <1>3, <1>4

\* A leftover goes, or its deletion fails.
LEMMA PurgeInv == ASSUME BBInv, NEW deleted \in BOOLEAN, PurgeAside(deleted) PROVE BBInv'
<1> USE DEF BBInv
<1>0. /\ tree \in [Place -> Trees] /\ job \in Names /\ Aside(job) \in Place
      /\ UNCHANGED <<client, bclock, usage, job, survey, pressured, crashed>>
      /\ bpc = "purge" /\ bpc' = "asides"
  BY Places DEF PurgeAside, BBTypeOK
<1>1. PICK t \in {NoTree, tree[Aside(job)]} : tree' = [tree EXCEPT ![Aside(job)] = t]
  BY <1>0 DEF PurgeAside
<1>2. /\ tree' \in [Place -> Trees] /\ tree'[Aside(job)] = t
      /\ \A q \in Place : q # Aside(job) => tree'[q] = tree[q]
  BY <1>0, <1>1, TreeFields
<1>3. BBTypeOK'
  BY <1>0, <1>2 DEF BBTypeOK, Phase
<1>4. HolderInv'
  BY <1>0, <1>1, <1>2, Locks, TreeFields DEF HolderInv
<1>5. ReaperInv'
  BY <1>0, <1>1, <1>2, Locks, TreeFields DEF ReaperInv
<1>6. QuietInv' /\ AgentInv'
  BY <1>0, <1>1, <1>2, TreeFields, Places DEF QuietInv, AgentInv, BBTypeOK, SurveyType
<1>7. MovedInv'
  BY <1>0, <1>1, <1>2, TreeFields, Places DEF MovedInv, Exists
<1>. QED  BY <1>3, <1>4, <1>5, <1>6, <1>7

\* The aside goes, or its deletion fails; the sibling comes next.
LEMMA DeleteInv == ASSUME BBInv, NEW deleted \in BOOLEAN, DeleteAside(deleted) PROVE BBInv'
<1> USE DEF BBInv
<1>0. /\ tree \in [Place -> Trees] /\ job \in Names /\ Aside(job) \in Place
      /\ UNCHANGED <<client, bclock, pressured, crashed>> /\ bpc = "delete"
      /\ tree[Aside(job)].fds = {}
  BY Places DEF DeleteAside, BBTypeOK, QuietInv
<1> DEFINE t == IF deleted THEN NoTree ELSE ReleasedNow(tree[Aside(job)])
<1>1. /\ t \in Trees /\ t.fds = {} /\ t.agent # "seen" /\ t.lock # Reaper
      /\ t.lock = NoFile => tree[Aside(job)].lock = NoFile
      /\ t.lock \notin Clients
  <2>1. tree[Aside(job)].lock \notin Clients /\ tree[Aside(job)].agent # "seen"
    BY <1>0 DEF HolderInv, AgentInv
  <2>. QED  BY <1>0, <2>1, ReleasedTree, TreeFields, Locks
<1>2. tree' = [tree EXCEPT ![Aside(job)] = t]
  BY DEF DeleteAside
<1> HIDE DEF t
<1>3. /\ tree' \in [Place -> Trees] /\ tree'[Aside(job)] = t
      /\ \A q \in Place : q # Aside(job) => tree'[q] = tree[q]
  BY <1>0, <1>1, <1>2
<1>4. /\ bpc' \in {"check", "rows"} /\ job' \in Names
      /\ bpc' = "check" => survey.sibling /\ job = SibBase /\ job' = Sib
  BY <1>0, Places DEF DeleteAside, NextRow
<1>5. survey' \in {survey, Kept, Without(job)}
  BY DEF DeleteAside, NextRow
<1>6. BBTypeOK'
  <2>1. usage' \in Nat
    BY DEF DeleteAside, BBTypeOK
  <2>. QED  BY <1>0, <1>3, <1>4, <1>5, <2>1, SurveyLess DEF BBTypeOK, Phase
<1>7. HolderInv'
  BY <1>0, <1>1, <1>3 DEF HolderInv
<1>8. ReaperInv'
  BY <1>0, <1>1, <1>3, <1>4 DEF ReaperInv
<1>9. QuietInv' /\ AgentInv'
  BY <1>0, <1>1, <1>3, <1>4, <1>5, SurveyLess, Places DEF QuietInv, AgentInv
<1>10. MovedInv'
  BY <1>0, <1>1, <1>3, Places DEF MovedInv, Exists
<1>. QED  BY <1>6, <1>7, <1>8, <1>9, <1>10

\* A crash frees the reaper's lock and forgets the pass.
LEMMA CrashInv == ASSUME BBInv, Crash PROVE BBInv'
<1> USE DEF BBInv
<1>0. /\ tree \in [Place -> Trees] /\ tree' = [pl \in Place |-> ReleasedNow(tree[pl])]
      /\ bpc' = "idle" /\ survey' = NoSurvey /\ pressured' = FALSE
      /\ crashed' = (crashed \/ bpc \in {"late", "undo", "delete"})
      /\ UNCHANGED <<client, bclock, usage>> /\ job' \in Names
  BY Places DEF Crash, BBTypeOK
<1>1. ASSUME NEW q \in Place
      PROVE  /\ tree'[q] \in Trees /\ tree'[q].fds = tree[q].fds
             /\ tree'[q].lock = IF tree[q].lock = Reaper THEN Free ELSE tree[q].lock
             /\ (tree'[q].agent = tree[q].agent) /\ (tree'[q] = NoTree <=> tree[q] = NoTree)
  BY <1>0, ReleasedTree
<1>2. NoSurvey \in SurveyType /\ NoSurvey.measured = {} /\ ~ NoSurvey.sibling
  BY DEF NoSurvey, SurveyType
<1>3. BBTypeOK'
  BY <1>0, <1>1, <1>2 DEF BBTypeOK, Phase
<1>4. HolderInv'
  <2>1. \A q \in Place : tree'[q].fds = tree[q].fds /\ (tree'[q].lock \in Clients => tree'[q].lock = tree[q].lock)
    BY <1>1, Locks
  <2>. QED  BY <1>0, <2>1 DEF HolderInv
<1>5. ReaperInv'
  BY <1>0, <1>1, Locks DEF ReaperInv
<1>6. QuietInv' /\ AgentInv'
  <2>1. \A n \in Names : tree'[Aside(n)].agent # "seen"
    BY <1>1, Places DEF AgentInv
  <2>. QED  BY <1>0, <1>2, <2>1 DEF QuietInv, AgentInv
<1>7. MovedInv'
  <2>1. ~ crashed' => /\ ~ crashed /\ bpc \notin {"late", "undo"}
                      /\ \A p \in Paths : tree[Aside(p)].lock # Reaper
    <3>1. ~ crashed' => ~ crashed /\ bpc \notin {"late", "undo", "delete"}
      BY <1>0 DEF BBTypeOK
    <3>2. \A p \in Paths : Aside(p) \in Place /\ Aside(p) # Base(job)
      BY Places DEF BBTypeOK
    <3>. QED  BY <3>1, <3>2 DEF ReaperInv
  <2>. QED  BY <1>0, <1>1, <2>1, Places DEF MovedInv, Exists
<1>. QED  BY <1>3, <1>4, <1>5, <1>6, <1>7

\* A session writes: seen only where a scan is still to come.
LEMMA AgentWritesInv == ASSUME BBInv, NEW pl \in Place, AgentWrites(pl) PROVE BBInv'
<1> USE DEF BBInv
<1> DEFINE a == IF pl[2] = "aside" \/ Scanned(pl[1]) THEN "unseen" ELSE "seen"
           l == [tree[pl] EXCEPT !.agent = a]
<1>0. /\ tree \in [Place -> Trees] /\ tree[pl] \in Tree
      /\ tree' = [tree EXCEPT ![pl] = l]
      /\ UNCHANGED <<client, bclock, usage, bpc, job, survey, pressured, crashed>>
  BY TreeFields DEF AgentWrites, BBTypeOK, Exists
<1>1. /\ a \in {"none", "seen", "unseen"}
      /\ a = "seen" => pl[2] # "aside" /\ ~ Scanned(pl[1])
  OBVIOUS
<1> HIDE DEF a
<1>2. l \in Tree /\ l.fds = tree[pl].fds /\ l.lock = tree[pl].lock /\ l.agent = a
  BY <1>0, <1>1 DEF Tree
<1> HIDE DEF l
<1>3. /\ tree' \in [Place -> Trees] /\ tree'[pl] = l
      /\ \A q \in Place : q # pl => tree'[q] = tree[q]
  BY <1>0, <1>2 DEF Trees
<1>4. \A q \in Place : /\ tree'[q].fds = tree[q].fds /\ tree'[q].lock = tree[q].lock
                       /\ tree'[q] = NoTree <=> tree[q] = NoTree
  BY <1>0, <1>2, <1>3, TreeFields
<1>5. BBTypeOK' /\ HolderInv' /\ ReaperInv'
  BY <1>0, <1>3, <1>4 DEF BBTypeOK, HolderInv, ReaperInv
<1>6. QuietInv' /\ MovedInv'
  BY <1>0, <1>4, Places DEF QuietInv, MovedInv, Exists, BBTypeOK
<1>7. AgentInv'
  <2>1. \A n \in Names : tree'[Aside(n)].agent # "seen"
    <3>1. \A n \in Names : Aside(n) \in Place /\ Aside(n)[2] = "aside" /\ tree[Aside(n)].agent # "seen"
      BY Places DEF AgentInv, Aside
    <3>. QED  BY <1>1, <1>2, <1>3, <3>1
  <2>2. \A n \in Names : tree[Base(n)].agent # "seen" /\ Scanned(n) => tree'[Base(n)].agent # "seen"
    BY <1>1, <1>2, <1>3, Places DEF Base
  <2>3. bpc \in {"check", "lock", "rename"} => Scanned(job)
    BY DEF Scanned
  <2>4. job = SibBase /\ bpc \in {"check", "lock", "rename", "late", "undo", "delete"} => Scanned(Sib)
    BY DEF Scanned
  <2>5. /\ \A p \in survey.measured : p \in Paths /\ Scanned(p)
        /\ SibBase \in survey.measured => Scanned(Sib)
    BY BasesAssumption DEF Scanned, BBTypeOK, SurveyType
  <2>. QED  BY <1>0, <2>1, <2>2, <2>3, <2>4, <2>5, Places DEF AgentInv, BBTypeOK
<1>. QED  BY <1>5, <1>6, <1>7
-----------------------------------------------------------------------------
(* The theorems. *)

\* The invariant holds before the first pass, with no client and nothing aside.
LEMMA BBInvInit == BBInit => BBInv
<1> SUFFICES ASSUME BBInit PROVE BBInv
  OBVIOUS
<1>1. ASSUME NEW n \in Names
      PROVE  /\ tree[Aside(n)] = NoTree
             /\ tree[Base(n)] \in Tree /\ tree[Base(n)].fds = {} /\ tree[Base(n)].agent = "none"
             /\ tree[Base(n)].lock = Free \/ (tree[Base(n)].lock = NoFile /\ n \in NoLockFile)
  <2>1. tree[Aside(n)] = NoTree
    BY DEF BBInit, Place, Aside
  <2>2. tree[Base(n)] = [use |-> 0, fds |-> {}, lock |-> IF n \in NoLockFile THEN NoFile ELSE Free,
                         agent |-> "none"]
    BY DEF BBInit, Place, Base
  <2>3. 0 \in 0 .. MaxBaseClock
    BY BasesAssumption
  <2>. QED  BY <2>1, <2>2, <2>3 DEF Tree
<1>2. tree \in [Place -> Trees]
  <2>1. \A pl \in Place : tree[pl] \in Trees
    BY <1>1, Places, TreeFields DEF Trees
  <2>2. tree = [pl \in Place |-> tree[pl]]
    BY DEF BBInit
  <2>. QED  BY <2>1, <2>2
<1>3. NoSurvey \in SurveyType /\ NoSurvey.measured = {} /\ ~ NoSurvey.sibling
  BY DEF NoSurvey, SurveyType
<1>4. BBTypeOK
  <2>1. bclock \in 0 .. MaxBaseClock /\ usage \in Nat
    BY BasesAssumption DEF BBInit
  <2>2. bpc \in Phase /\ job \in Names /\ client \in [Clients -> {"off", "waiting", "running", "server"}]
    BY Places DEF BBInit, Phase
  <2>. QED  BY <1>2, <1>3, <2>1, <2>2 DEF BBInit, BBTypeOK
<1>5. \A pl \in Place : tree[pl].lock \in {Free, NoFile, "none"} /\ (tree[pl].lock = NoFile => pl[1] \in NoLockFile)
  <2>1. \A n \in Names : Base(n)[1] = n
    BY DEF Base
  <2>. QED  BY <1>1, <2>1, Places, TreeFields, Locks
<1>6. HolderInv /\ ReaperInv /\ QuietInv
  BY <1>5, Locks DEF BBInit, HolderInv, ReaperInv, QuietInv
<1>7. AgentInv /\ MovedInv
  BY <1>1, <1>3, TreeFields, Places DEF BBInit, AgentInv, MovedInv
<1>. QED  BY <1>4, <1>6, <1>7 DEF BBInv

LEMMA BBInvStep == BBInv /\ [BBNext]_bbVars => BBInv'
<1> SUFFICES ASSUME BBInv, [BBNext]_bbVars PROVE BBInv'
  OBVIOUS
<1>1. CASE UNCHANGED bbVars
  BY <1>1 DEF bbVars, BBInv, BBTypeOK, HolderInv, ReaperInv, QuietInv, AgentInv, MovedInv, Exists
<1>2. CASE BBNext
  BY <1>2, OpensInv, LocksInv, UnlocksInv, ExitsInv, OutsideInv, SurveyInv, CheckAsideInv, PurgeInv,
     DeleteInv, RowsInv, TakeRowInv, CheckInv, LateLookInv, TakeLockInv, RenameAsideInv, RenameBackInv,
     CrashInv, AgentWritesInv DEF BBNext
<1>. QED  BY <1>1, <1>2

\* The inductive invariant: a lock belongs to one running client that has the tree open, the
\* reaper's, where there is a file to lock, goes with its base, and what is aside holds no
\* agent-session data that a scan could have met.
THEOREM BasesInvariant == BBSpec => []BBInv
  BY BBInvInit, BBInvStep, PTL DEF BBSpec

\* Only the two deletions make an aside disappear, and both of what the pass works on.
LEMMA OnlyDeletions ==
  ASSUME BBInv, [BBNext]_bbVars, NEW n \in Names, Deleted(n)
  PROVE  bpc \in {"purge", "delete"} /\ n = job
<1>0. /\ tree \in [Place -> Trees] /\ Base(n) \in Place /\ Aside(n) \in Place /\ job \in Names
      /\ tree[Aside(n)] # NoTree /\ tree'[Aside(n)] = NoTree
      /\ tree[Base(n)] # NoTree \/ tree'[Base(n)] = NoTree
      /\ Base(job) \in Place /\ Aside(job) \in Place /\ Aside(n) # Base(job)
      /\ n = job \/ Aside(n) # Aside(job)
  BY Places DEF Deleted, Exists, BBInv, BBTypeOK
<1>1. CASE UNCHANGED tree
  BY <1>0, <1>1
<1>2. ASSUME NEW c \in Clients, NEW p \in Paths, ClientOpens(c, p) PROVE FALSE
  BY <1>0, <1>2, Places DEF ClientOpens
<1>3. ASSUME NEW c \in Clients, NEW pl \in Place, ClientLocks(c, pl) \/ ClientUnlocks(c, pl) PROVE FALSE
  <2>1. tree'[pl] # NoTree
    <3>1. tree[pl] \in Tree
      BY <1>0, <1>3, Locks, TreeFields DEF ClientLocks, ClientUnlocks
    <3>2. tree'[pl].lock \in Clients \cup {Free}
      <4>1. CASE ClientLocks(c, pl)
        BY <1>0, <3>1, <4>1, Places DEF ClientLocks, Base, Tree
      <4>2. CASE ClientUnlocks(c, pl)
        BY <1>0, <3>1, <4>2 DEF ClientUnlocks, Tree
      <4>. QED  BY <1>3, <4>1, <4>2
    <3>. QED  BY <3>2, Locks, TreeFields
  <2>2. pl # Aside(n) => tree'[Aside(n)] = tree[Aside(n)]
    BY <1>0, <1>3, Places DEF ClientLocks, ClientUnlocks
  <2>. QED  BY <1>0, <2>1, <2>2
<1>4. ASSUME NEW c \in Clients, ClientExits(c) PROVE FALSE
  <2>1. tree[Aside(n)] \in Trees /\ tree[Aside(n)].fds \ {c} \in SUBSET Clients
    BY <1>0, TreeFields
  <2>2. tree'[Aside(n)] = [tree[Aside(n)] EXCEPT !.fds = tree[Aside(n)].fds \ {c}]
    BY <1>0, <1>4 DEF ClientExits
  <2>. QED  BY <1>0, <2>1, <2>2, WithFds
<1>9. ASSUME NEW found \in SUBSET Paths, NEW measured \in SUBSET Paths, NEW complete \in BOOLEAN,
             Survey(found, measured, complete)
      PROVE  FALSE
  <2>1. tree[Aside(n)] \in Tree
    BY <1>0, TreeFields
  <2>2. tree'[Aside(n)] = [tree[Aside(n)] EXCEPT !.agent = tree[Aside(n)].agent]
    BY <1>0, <1>9 DEF Survey, Rescanned, Aside
  <2>3. tree'[Aside(n)] \in Tree
    BY <2>1, <2>2 DEF Tree
  <2>. QED  BY <1>0, <2>3, TreeFields
<1>10. ASSUME NEW pl \in Place, AgentWrites(pl) PROVE FALSE
  <2>1. tree[pl] \in Tree
    BY <1>0, <1>10, TreeFields DEF AgentWrites, Exists
  <2>2. \E a \in {"seen", "unseen"} : tree' = [tree EXCEPT ![pl] = [tree[pl] EXCEPT !.agent = a]]
    BY <1>10 DEF AgentWrites
  <2>3. tree'[pl] \in Tree
    BY <1>0, <2>1, <2>2 DEF Tree
  <2>. QED  BY <1>0, <2>2, <2>3, TreeFields
<1>5. CASE TakeLock \/ RenameAside
  BY <1>0, <1>5 DEF TakeLock, RenameAside, Exists
<1>6. CASE RenameBack
  <2>1. tree[Aside(job)] # NoTree => ReleasedNow(tree[Aside(job)]) # NoTree
    BY <1>0, ReleasedTree
  <2>. QED  BY <1>0, <1>6, <2>1, Places DEF RenameBack, Exists
<1>7. CASE Crash
  BY <1>0, <1>7, ReleasedTree DEF Crash
<1>8. ASSUME NEW deleted \in BOOLEAN, PurgeAside(deleted) \/ DeleteAside(deleted)
      PROVE  bpc \in {"purge", "delete"} /\ n = job
  BY <1>0, <1>8 DEF PurgeAside, DeleteAside
<1>. QED
  BY <1>1, <1>2, <1>3, <1>4, <1>5, <1>6, <1>7, <1>8, <1>9, <1>10
  DEF BBNext, bbVars, BaseTick, OthersWrite, CheckAside, AsidesDone, Defer, TakeRow, RowsDone,
      Finish, Check, LateLook

\* For any number of bases and clients, and whatever crashes left aside, no tree is
\* deleted while a client has a file open in it or holds its lock (removeTree, removeAside).
THEOREM NeverDeletedInUse == BBSpec => NothingDeletedInUse
<1>1. BBInv /\ [BBNext]_bbVars => [\A n \in Names : Deleted(n) => ~ Live(Aside(n))]_bbVars
  <2> SUFFICES ASSUME BBInv, [BBNext]_bbVars, NEW n \in Names, Deleted(n)
               PROVE  ~ Live(Aside(n))
    OBVIOUS
  <2>1. tree[Aside(n)].fds = {} /\ Aside(n) \in Place
    BY OnlyDeletions, Places DEF BBInv, QuietInv
  <2>. QED  BY <2>1 DEF BBInv, HolderInv, Live, HoldsFiles, LockHeld
<1>. QED  BY <1>1, BasesInvariant, PTL DEF BBSpec, NothingDeletedInUse

\* For any number of bases and clients, no tree is deleted that held agent-session data when
\* it was last scanned, also by a pass that measured only some of the bases in its survey
\* and one that cleans up after a crash.
THEOREM AgentDataIsKept == BBSpec => AgentDataKept
<1>1. BBInv /\ [BBNext]_bbVars => [\A n \in Names : Deleted(n) => tree[Aside(n)].agent # "seen"]_bbVars
  BY DEF BBInv, AgentInv
<1>. QED  BY <1>1, BasesInvariant, PTL DEF BBSpec, AgentDataKept

\* For any number of bases and clients, a client runs in a base that was moved away only
\* after a crash in the middle of a removal, behind a new base at the path, or, where the
\* base had no lock file to take, until the second look.
THEOREM ClientsRunInPlace == BBSpec => []RunsInPlace
<1>1. BBInv => RunsInPlace
  <2> SUFFICES ASSUME BBInv, NEW p \in Paths, tree[Aside(p)].lock \in Clients, ~ crashed
               PROVE  Exists(Base(p)) \/ (p \in NoLockFile /\ p = job /\ bpc \in {"late", "undo"})
    BY DEF RunsInPlace
  <2>1. Aside(p) \in Place
    BY Places
  <2>. QED  BY <2>1, Locks DEF BBInv, HolderInv, MovedInv
<1>. QED  BY <1>1, BasesInvariant, PTL
-----------------------------------------------------------------------------
(* The bazel plugin's plan and what apply makes of it (BazelPlan). *)

Target == [action: {"none", "keep", "review", "delete", "orphan", "stop"},
           protected: BOOLEAN, active: BOOLEAN]

PlanTypeOK ==
  /\ level \in 1 .. 4 /\ opts \in Options /\ over \in BOOLEAN
  /\ left \subseteq Items \cup Entries /\ age \in [Items \cup Entries -> Ages]
  /\ proc \in [Bases -> Use] /\ fresh \subseteq Bases /\ ws \in [Bases -> Workspace]
  /\ at \in {"idle", "targets", "remove", "stopped", "age", "entries", "unlink", "end"}
  /\ target \in [Items -> Target] /\ look \in [ps : BOOLEAN, due : BOOLEAN]
  /\ since \subseteq Items \cup Entries

\* What a target that may go is, wherever the pass is.
TargetsSound ==
  \A i \in Items :
    /\ target[i].action \in {"orphan", "stop"} => i \in Bases
    /\ target[i].action = "stop" => opts.stopIdle
    /\ ForDeletion(i) => /\ i \notin ProtectedBases \cup DeniedItems
                         /\ level >= 2 /\ ~ (opts.owned /\ i \in Bases)

\* What a look finds idle, and is not used since, is idle still.
Unused(b) == b \in Pidless \/ proc[b] = "none"

\* The plan's look at the plain targets.
PlainInv ==
  \A i \in Items : (ForDeletion(i) /\ target[i].action = "delete" /\ i \notin since) =>
    /\ i \in Bases => Unused(i)
    /\ (i \in Caches /\ look.ps) => \A b \in Bases : proc[b] \notin Clienting

\* The look that put a target or an entry in hand.
HandInv ==
  /\ at \in {"remove", "stopped"} => hand \in Items /\ ForDeletion(hand)
  /\ at = "stopped" => target[hand].action = "stop"
  /\ (at = "remove" /\ hand \notin since) =>
       /\ target[hand].action = "orphan" => ws[hand] = "gone" /\ (Unused(hand) \/ opts.deleteActive)
       /\ target[hand].action = "stop" => Unused(hand)
  /\ at = "unlink" => hand \in Entries /\ (hand \notin since => age[hand] = StaleAge)

PlanInv == PlanTypeOK /\ TargetsSound /\ PlainInv /\ HandInv

LEMMA NoTargetFacts == NoTarget \in Target /\ NoTarget.protected /\ NoTarget.action = "none"
  BY DEF NoTarget, Target

\* bazelTargetForCandidate on a base: only what is not protected may go, at moderate and above.
LEMMA BaseTargets ==
  ASSUME PlanTypeOK, NEW b \in Bases, NEW ps \in BOOLEAN, NEW recent
  PROVE  LET t == BaseTarget(b, ps, recent)
         IN  /\ t \in Target
             /\ t.action = "stop" => opts.stopIdle
             /\ t.action \in {"delete", "orphan", "stop"} => b \notin ProtectedBases /\ level >= 2
             /\ ~ t.active => ~ LocalActive(b)
<1> DEFINE active == PsClient(b, ps) \/ PsServer(b, ps) \/ LocalActive(b)
           guarded == b \in recent \/ (active /\ ~ opts.deleteActive)
           T(action, protected) == [action |-> action, protected |-> protected, active |-> active]
<1>1. /\ \A a \in {"keep", "review", "delete", "orphan", "stop"}, p \in BOOLEAN :
           T(a, p) \in Target /\ T(a, p).action = a /\ (~ T(a, p).active => ~ LocalActive(b))
      /\ guarded \in BOOLEAN
  BY DEF Target, PlanTypeOK, Options
<1>2. OrphanEligible(b, active) => level >= 2
  BY DEF OrphanEligible
<1>3. \/ BaseTarget(b, ps, recent) = T("keep", TRUE)
      \/ BaseTarget(b, ps, recent) = T("review", guarded)
      \/ BaseTarget(b, ps, recent) = T("orphan", FALSE) /\ b \notin ProtectedBases /\ level >= 2
      \/ BaseTarget(b, ps, recent) = T("stop", FALSE) /\ b \notin ProtectedBases /\ level >= 2 /\ opts.stopIdle
      \/ BaseTarget(b, ps, recent) = T("delete", guarded) /\ b \notin ProtectedBases /\ level >= 2
  BY <1>2 DEF BaseTarget, PlanTypeOK
<1>4. ASSUME NEW a \in {"keep", "review", "delete", "orphan", "stop"}, NEW p \in BOOLEAN,
             BaseTarget(b, ps, recent) = T(a, p),
             a = "stop" => opts.stopIdle, a \in {"delete", "orphan", "stop"} => b \notin ProtectedBases /\ level >= 2
      PROVE  LET t == BaseTarget(b, ps, recent)
             IN  /\ t \in Target
                 /\ t.action = "stop" => opts.stopIdle
                 /\ t.action \in {"delete", "orphan", "stop"} => b \notin ProtectedBases /\ level >= 2
                 /\ ~ t.active => ~ LocalActive(b)
  <2>1. T(a, p) \in Target /\ T(a, p).action = a /\ (~ T(a, p).active => ~ LocalActive(b))
    BY <1>1
  <2> HIDE DEF T
  <2>. QED  BY <1>4, <2>1
<1>. QED
  <2> HIDE DEF T, active, guarded
  <2>. QED  BY <1>1, <1>3, <1>4

LEMMA CacheTargets ==
  ASSUME PlanTypeOK, NEW c \in Caches, NEW ps \in BOOLEAN
  PROVE  LET t == CacheTarget(c, ps)
         IN  /\ t \in Target
             /\ t.action \in {"keep", "review", "delete"}
             /\ t.action = "delete" => level >= 2
             /\ ~ t.active => ~ GlobalActive(ps)
<1> DEFINE active == GlobalActive(ps)
           guarded == active /\ ~ opts.deleteActive
           T(action, protected) == [action |-> action, protected |-> protected, active |-> active]
<1>1. /\ \A a \in {"keep", "review", "delete"}, p \in BOOLEAN :
           T(a, p) \in Target /\ T(a, p).action = a /\ (~ T(a, p).active => ~ GlobalActive(ps))
      /\ guarded \in BOOLEAN
  BY DEF Target, PlanTypeOK, Options, GlobalActive
<1>2. \/ CacheTarget(c, ps) = T("keep", TRUE)
      \/ CacheTarget(c, ps) = T("review", guarded)
      \/ CacheTarget(c, ps) = T("delete", guarded) /\ level >= 2
  BY DEF CacheTarget, PlanTypeOK
<1>3. ASSUME NEW a \in {"keep", "review", "delete"}, NEW p \in BOOLEAN,
             CacheTarget(c, ps) = T(a, p), a = "delete" => level >= 2
      PROVE  LET t == CacheTarget(c, ps)
             IN  /\ t \in Target
                 /\ t.action \in {"keep", "review", "delete"}
                 /\ t.action = "delete" => level >= 2
                 /\ ~ t.active => ~ GlobalActive(ps)
  <2>1. T(a, p) \in Target /\ T(a, p).action = a /\ (~ T(a, p).active => ~ GlobalActive(ps))
    BY <1>1
  <2> HIDE DEF T
  <2>. QED  BY <1>3, <2>1
<1>. QED
  <2> HIDE DEF T, active, guarded
  <2>. QED  BY <1>1, <1>2, <1>3

\* The hand-off leaves a target alone, or keeps it.
LEMMA HandedOff ==
  ASSUME NEW i \in Items, NEW t \in Target
  PROVE  /\ HandOff(i, t) \in Target
         /\ \/ HandOff(i, t).protected /\ HandOff(i, t).action = "keep"
            \/ HandOff(i, t) = t /\ i \notin DeniedItems /\ ~ (opts.owned /\ i \in Bases)
  BY DEF HandOff, Target

LEMMA BuildPlanInv ==
  ASSUME PlanInv, NEW ps \in BOOLEAN, NEW recent \in SUBSET Bases, BuildPlan(ps, recent) PROVE PlanInv'
<1>1. /\ UNCHANGED <<level, opts, left, age, proc, fresh, ws, over, hand>> /\ at = "idle" /\ at' \in {"age", "targets"}
      /\ since' = {} /\ look' \in [ps : BOOLEAN, due : BOOLEAN] /\ look'.ps = ps
  BY DEF BuildPlan, AgeDue, PlanInv, PlanTypeOK, Options, GlobalActive
<1>2. ASSUME NEW i \in Items
      PROVE  /\ target'[i] \in Target
             /\ target'[i].action \in {"orphan", "stop"} => i \in Bases
             /\ target'[i].action = "stop" => opts.stopIdle
             /\ ~ target'[i].protected /\ target'[i].action \in {"delete", "orphan", "stop"} =>
                  /\ i \notin ProtectedBases \cup DeniedItems
                  /\ level >= 2 /\ ~ (opts.owned /\ i \in Bases)
                  /\ ~ target'[i].active => /\ i \in Bases => ~ LocalActive(i)
                                            /\ i \in Caches => ~ GlobalActive(ps)
  <2>1. CASE i \notin left
    <3>1. target'[i] = NoTarget
      BY <2>1 DEF BuildPlan
    <3>. QED  BY <3>1, NoTargetFacts
  <2>2. CASE i \in left /\ i \in Bases
    <3>1. target'[i] = HandOff(i, BaseTarget(i, ps, recent))
      BY <2>2 DEF BuildPlan
    <3>2. i \notin Caches
      BY <2>2, PlanAssumption
    <3>. QED  BY <2>2, <3>1, <3>2, BaseTargets, HandedOff DEF PlanInv
  <2>3. CASE i \in left /\ i \notin Bases
    <3>1. target'[i] = HandOff(i, CacheTarget(i, ps)) /\ i \in Caches
      BY <2>3 DEF BuildPlan, Items
    <3>. QED  BY <2>3, <3>1, CacheTargets, HandedOff, PlanAssumption DEF PlanInv
  <2>. QED  BY <2>1, <2>2, <2>3
<1>3. target' \in [Items -> Target]
  <2>1. target' = [i \in Items |-> target'[i]]
    BY DEF BuildPlan
  <2>. QED  BY <1>2, <2>1
<1>4. PlanTypeOK'
  BY <1>1, <1>3 DEF PlanInv, PlanTypeOK
<1>5. TargetsSound'
  BY <1>1, <1>2 DEF TargetsSound, ForDeletion
<1>6. PlainInv'
  <2> SUFFICES ASSUME NEW i \in Items, ForDeletion(i)', target'[i].action = "delete"
               PROVE  /\ i \in Bases => Unused(i)'
                      /\ (i \in Caches /\ look'.ps) => \A b \in Bases : proc'[b] \notin Clienting
    BY DEF PlainInv
  <2>1. ~ target'[i].active /\ ~ target'[i].protected
    BY DEF ForDeletion
  <2>2. /\ i \in Bases => ~ LocalActive(i)
        /\ i \in Caches => ~ GlobalActive(ps)
    BY <1>2, <2>1
  <2>. QED  BY <1>1, <2>2 DEF LocalActive, GlobalActive, Unused
<1>7. HandInv'
  BY <1>1 DEF HandInv
<1>. QED  BY <1>4, <1>5, <1>6, <1>7 DEF PlanInv

\* A target that was dealt with is no target; nothing else about the targets changes.
LEMMA DoneInv ==
  ASSUME PlanInv, NEW i \in Items, Done(i), UNCHANGED <<level, opts>>
  PROVE  /\ target' \in [Items -> Target] /\ TargetsSound'
         /\ \A j \in Items : ForDeletion(j)' => ForDeletion(j) /\ target'[j] = target[j]
<1>1. /\ target' = [target EXCEPT ![i] = NoTarget] /\ target \in [Items -> Target]
  BY DEF Done, PlanInv, PlanTypeOK
<1>2. /\ target' \in [Items -> Target] /\ target'[i] = NoTarget
      /\ \A j \in Items : j # i => target'[j] = target[j]
  BY <1>1, NoTargetFacts
<1>3. TargetsSound'
  BY <1>2, NoTargetFacts DEF PlanInv, TargetsSound, ForDeletion
<1>. QED  BY <1>2, <1>3, NoTargetFacts DEF ForDeletion

\* A step of the world: what it does to a look's findings, unless it counts as a use.
LEMMA WorldInv ==
  ASSUME PlanInv, UNCHANGED <<opts, at, target, hand, look>>, since \subseteq since',
         \A b \in Bases \ since' : /\ proc[b] = "none" => proc'[b] = "none"
                                 /\ ws'[b] = ws[b],
         \A e \in Entries \ since' : age'[e] = age[e],
         \/ Caches \subseteq since'
         \/ \A b \in Bases : proc[b] \notin Clienting => proc'[b] \notin Clienting
  PROVE  PlainInv' /\ HandInv'
<1>1. \A i \in Items : ForDeletion(i)' <=> ForDeletion(i)
  BY DEF ForDeletion
<1>2. \A b \in Bases \ since' : Unused(b) => Unused(b)'
  BY DEF Unused
<1>3. PlainInv'
  <2> SUFFICES ASSUME NEW i \in Items, ForDeletion(i), target[i].action = "delete", i \notin since'
               PROVE  /\ i \in Bases => Unused(i)'
                      /\ (i \in Caches /\ look.ps) => \A b \in Bases : proc'[b] \notin Clienting
    BY <1>1 DEF PlainInv
  <2>1. i \notin since
    OBVIOUS
  <2>2. i \in Bases => Unused(i)
    BY <2>1 DEF PlanInv, PlainInv
  <2>3. (i \in Caches /\ look.ps) => \A b \in Bases : proc[b] \notin Clienting
    BY <2>1 DEF PlanInv, PlainInv
  <2>. QED  BY <1>2, <2>2, <2>3
<1>4. HandInv'
  <2>1. at \in {"remove", "stopped"} => hand \in Items /\ ForDeletion(hand)
    BY DEF PlanInv, HandInv
  <2>2. (at = "remove" /\ target[hand].action \in {"orphan", "stop"}) => hand \in Bases
    BY <2>1 DEF PlanInv, TargetsSound
  <2>. QED  BY <1>1, <1>2, <2>1, <2>2 DEF PlanInv, HandInv
<1>. QED  BY <1>3, <1>4

\* A step that takes or ends a turn: the plain targets that are left were there before.
LEMMA TurnInv ==
  ASSUME PlanInv, UNCHANGED look, \A b \in Bases : proc'[b] \in {proc[b], "none"},
         \A j \in Items : ForDeletion(j)' => ForDeletion(j) /\ target'[j] = target[j],
         \A j \in since \ since' : j \in Items => target[j].action # "delete"
  PROVE  PlainInv'
<1> SUFFICES ASSUME NEW i \in Items, ForDeletion(i)', target'[i].action = "delete", i \notin since'
             PROVE  /\ i \in Bases => Unused(i)'
                    /\ (i \in Caches /\ look.ps) => \A b \in Bases : proc'[b] \notin Clienting
  BY DEF PlainInv
<1>1. ForDeletion(i) /\ target[i].action = "delete" /\ i \notin since
  OBVIOUS
<1>2. /\ i \in Bases => Unused(i)
      /\ (i \in Caches /\ look.ps) => \A b \in Bases : proc[b] \notin Clienting
  BY <1>1 DEF PlanInv, PlainInv
<1>. QED  BY <1>2 DEF Unused, Clienting

LEMMA PlanInvStep == PlanInv /\ [PlanNext]_planVars => PlanInv'
<1> SUFFICES ASSUME PlanInv, [PlanNext]_planVars PROVE PlanInv'
  OBVIOUS
<1> USE DEF PlanInv
<1>1. ASSUME NEW b \in Bases, NEW u \in Clienting, NEW e \in Entries, ClientRuns(b, u, e) PROVE PlanInv'
  <2>1. PlanTypeOK'
    BY <1>1 DEF ClientRuns, planPass, PlanTypeOK, Use, Ages, Young, StaleAge, Items
  <2>2. \A c \in Bases \ since' : proc'[c] = proc[c]
    BY <1>1 DEF ClientRuns, PlanTypeOK
  <2>3. \A f \in Entries \ since' : age'[f] = age[f]
    <3>1. \A f \in Entries : f # b
      BY PlanAssumption DEF Items
    <3>. QED  BY <1>1, <3>1 DEF ClientRuns, PlanTypeOK
  <2>4. UNCHANGED <<level, opts, at, target, hand, look, ws>> /\ since \subseteq since' /\ Caches \subseteq since'
    BY <1>1 DEF ClientRuns, planPass
  <2>5. PlainInv' /\ HandInv'
    BY <2>2, <2>3, <2>4, WorldInv
  <2>. QED  BY <2>1, <2>4, <2>5 DEF TargetsSound, ForDeletion
<1>2. ASSUME NEW b \in Bases, UseEnds(b) PROVE PlanInv'
  <2>1. PlanTypeOK'
    BY <1>2 DEF UseEnds, planPass, PlanTypeOK, Use
  <2>2. /\ \A c \in Bases : proc[c] = "none" => proc'[c] = "none"
        /\ \A c \in Bases : proc[c] \notin Clienting => proc'[c] \notin Clienting
    BY <1>2 DEF UseEnds, PlanTypeOK, Use, Clienting
  <2>3. UNCHANGED <<level, opts, at, target, hand, look, ws, age, since>>
    BY <1>2 DEF UseEnds, planPass
  <2>4. PlainInv' /\ HandInv'
    BY <2>2, <2>3, WorldInv
  <2>. QED  BY <2>1, <2>3, <2>4 DEF TargetsSound, ForDeletion
<1>3. ASSUME NEW b \in Bases, LockAges(b) PROVE PlanInv'
  <2>1. PlanTypeOK' /\ UNCHANGED <<level, opts, at, target, hand, look, ws, age, proc, since>>
    BY <1>3 DEF LockAges, planPass, PlanTypeOK
  <2>2. PlainInv' /\ HandInv'
    BY <2>1, WorldInv
  <2>. QED  BY <2>1, <2>2 DEF TargetsSound, ForDeletion
<1>4. ASSUME NEW b \in Bases, WorkspaceReturns(b) PROVE PlanInv'
  <2>1. PlanTypeOK'
    BY <1>4 DEF WorkspaceReturns, planPass, PlanTypeOK, Workspace, Items
  <2>2. \A c \in Bases \ since' : ws'[c] = ws[c]
    BY <1>4 DEF WorkspaceReturns, PlanTypeOK
  <2>3. UNCHANGED <<level, opts, at, target, hand, look, age, proc>> /\ since \subseteq since'
    BY <1>4 DEF WorkspaceReturns, planPass
  <2>4. PlainInv' /\ HandInv'
    BY <2>2, <2>3, WorldInv
  <2>. QED  BY <2>1, <2>3, <2>4 DEF TargetsSound, ForDeletion
<1>5. ASSUME NEW i \in Items, TakeTarget(i) PROVE PlanInv'
  <2>1. UNCHANGED <<world, left, proc>> /\ at = "targets" /\ ForDeletion(i) /\ target[i].action # "stop"
    BY <1>5 DEF TakeTarget
  <2>2. CASE target[i].action = "orphan" /\ ~ OrphanStill(i)
    <3>1. Done(i) /\ UNCHANGED <<at, hand, since>>
      BY <1>5, <2>2 DEF TakeTarget
    <3>2. PlainInv'
      BY <2>1, <3>1, DoneInv, TurnInv DEF world
    <3>. QED  BY <2>1, <3>1, <3>2, DoneInv DEF world, PlanTypeOK, HandInv
  <2>3. CASE ~ (target[i].action = "orphan" /\ ~ OrphanStill(i))
    <3>1. /\ at' = "remove" /\ hand' = i /\ UNCHANGED target
          /\ since' = IF target[i].action = "orphan" THEN since \ {i} ELSE since
      BY <1>5, <2>3 DEF TakeTarget
    <3>2. PlanTypeOK' /\ TargetsSound'
      BY <2>1, <3>1 DEF world, PlanTypeOK, TargetsSound, ForDeletion
    <3>3. PlainInv'
      BY <2>1, <3>1, TurnInv DEF world, ForDeletion
    <3>4. target[i].action = "orphan" => ws[i] = "gone" /\ (Unused(i) \/ opts.deleteActive)
      <4>1. target[i].action = "orphan" => i \in Bases /\ OrphanStill(i)
        BY <2>3 DEF TargetsSound
      <4>. QED  BY <4>1 DEF OrphanStill, WorkspaceClaim, LocalActive, Unused, PlanTypeOK, Workspace
    <3>5. HandInv'
      BY <2>1, <3>1, <3>4 DEF HandInv, world, ForDeletion, Unused
    <3>. QED  BY <3>2, <3>3, <3>5
  <2>. QED  BY <2>2, <2>3
<1>6. ASSUME NEW ok \in BOOLEAN, RemoveTarget(ok) PROVE PlanInv'
  <2>1. /\ UNCHANGED <<world, proc, since>> /\ Done(hand) /\ hand \in Items /\ at' = "targets"
        /\ left' \subseteq left
    BY <1>6 DEF RemoveTarget, HandInv
  <2>2. PlainInv'
    BY <2>1, DoneInv, TurnInv DEF world
  <2>. QED  BY <2>1, <2>2, DoneInv DEF world, PlanTypeOK, HandInv
<1>7. ASSUME NEW i \in Items, NEW ok \in BOOLEAN, StopServer(i, ok) PROVE PlanInv'
  <2>1. /\ UNCHANGED <<world, left, since>> /\ i \in Bases /\ ForDeletion(i) /\ target[i].action = "stop"
        /\ at = "targets"
    BY <1>7 DEF StopServer
  <2>2. proc' \in [Bases -> Use] /\ \A b \in Bases : proc'[b] \in {proc[b], "none"}
    BY <1>7 DEF StopServer, PlanTypeOK, Use
  <2>3. CASE ok
    <3>1. at' = "stopped" /\ hand' = i /\ UNCHANGED target
      BY <1>7, <2>3 DEF StopServer
    <3>2. PlainInv'
      BY <2>1, <2>2, <3>1, TurnInv DEF world, ForDeletion
    <3>. QED  BY <2>1, <2>2, <3>1, <3>2 DEF world, PlanTypeOK, TargetsSound, HandInv, ForDeletion
  <2>4. CASE ~ ok
    <3>1. Done(i) /\ UNCHANGED <<at, hand>>
      BY <1>7, <2>4 DEF StopServer
    <3>2. PlainInv'
      BY <2>1, <2>2, <3>1, DoneInv, TurnInv DEF world
    <3>. QED  BY <2>1, <2>2, <3>1, <3>2, DoneInv DEF world, PlanTypeOK, HandInv
  <2>. QED  BY <2>3, <2>4
<1>8. ASSUME NEW ps \in BOOLEAN, PostShutdown(ps) PROVE PlanInv'
  <2>1. /\ UNCHANGED <<world, left, proc>> /\ hand \in Items /\ ForDeletion(hand) /\ target[hand].action = "stop"
        /\ at = "stopped"
    BY <1>8 DEF PostShutdown, HandInv
  <2>2. CASE ps /\ proc[hand] = "none"
    <3>1. at' = "remove" /\ since' = since \ {hand} /\ UNCHANGED <<target, hand>>
      BY <1>8, <2>2 DEF PostShutdown
    <3>2. PlainInv'
      BY <2>1, <3>1, TurnInv DEF world, ForDeletion
    <3>. QED  BY <2>1, <2>2, <3>1, <3>2 DEF world, PlanTypeOK, TargetsSound, HandInv, ForDeletion, Unused
  <2>3. CASE ~ (ps /\ proc[hand] = "none")
    <3>1. at' = "targets" /\ Done(hand) /\ UNCHANGED since
      BY <1>8, <2>3 DEF PostShutdown
    <3>2. PlainInv'
      BY <2>1, <3>1, DoneInv, TurnInv DEF world
    <3>. QED  BY <2>1, <3>1, <3>2, DoneInv DEF world, PlanTypeOK, HandInv
  <2>. QED  BY <2>2, <2>3
<1>9. ASSUME NEW ps \in BOOLEAN, NEW ok \in BOOLEAN, BeginAge(ps) \/ TargetsDone(ok) \/ EndPass \/ RemoveEntry(ok)
      PROVE PlanInv'
  <2>1. /\ UNCHANGED <<world, proc, target, since>> /\ left' \subseteq left
        /\ at' \in {"age", "entries", "end"}
    BY <1>9 DEF BeginAge, TargetsDone, EndPass, RemoveEntry
  <2>2. PlainInv'
    BY <2>1, TurnInv DEF world, ForDeletion
  <2>. QED  BY <2>1, <2>2 DEF world, PlanTypeOK, TargetsSound, HandInv, ForDeletion
<1>10. ASSUME NEW e \in Entries, LookAtEntry(e) PROVE PlanInv'
  <2>1. /\ UNCHANGED <<world, left, proc, target>> /\ since' = since \ {e} /\ at' = "unlink" /\ hand' = e
        /\ age[e] = StaleAge /\ e \notin Items
    BY <1>10, PlanAssumption DEF LookAtEntry
  <2>2. PlainInv'
    BY <2>1, TurnInv DEF world, ForDeletion
  <2>. QED  BY <2>1, <2>2 DEF world, PlanTypeOK, TargetsSound, HandInv, ForDeletion
<1>11. CASE UNCHANGED planVars
  BY <1>11 DEF planVars, PlanTypeOK, TargetsSound, PlainInv, HandInv, ForDeletion, Unused
<1>. QED
  BY <1>1, <1>2, <1>3, <1>4, <1>5, <1>6, <1>7, <1>8, <1>9, <1>10, <1>11, BuildPlanInv DEF PlanNext

LEMMA PlanInvInit == PlanInit => PlanInv
<1> SUFFICES ASSUME PlanInit PROVE PlanInv
  OBVIOUS
<1>1. PlanTypeOK
  BY PlanAssumption, NoTargetFacts DEF PlanInit, PlanTypeOK, NoPlan
<1>2. TargetsSound
  BY NoTargetFacts DEF PlanInit, NoPlan, TargetsSound, ForDeletion
<1>3. PlainInv /\ HandInv
  BY NoTargetFacts DEF PlanInit, NoPlan, PlainInv, HandInv, ForDeletion
<1>. QED  BY <1>1, <1>2, <1>3 DEF PlanInv

\* The inductive invariant: a target that may go was never protected, denied or handed
\* over, and what its last look found idle is idle, unless it was used since.
THEOREM PlanInvariant == PlanSpec => []PlanInv
  BY PlanInvInit, PlanInvStep, PTL DEF PlanSpec

\* For any number of bases and caches, every level and every set of options, nothing due
\* for deletion is protected, agent-session data, owned by bazel_bases or in visible use.
THEOREM PlanIsSound == PlanSpec => []PlanSound
<1>1. PlanInv => PlanSound
  BY DEF PlanInv, PlanTypeOK, TargetsSound, PlanSound, ForDeletion
<1>. QED  BY <1>1, PlanInvariant, PTL

\* For any number of bases, caches and entries: what is in use goes only if the use began
\* after the last look at it, whatever clients, servers and worktrees do in between.
THEOREM UsedStays == PlanSpec => UsedIsKept
<1> DEFINE Spared(i) ==
      /\ (i \in Bases \ Pidless /\ proc[i] # "none") =>
           target[i].action = "orphan" /\ opts.deleteActive
      /\ (i \in Bases /\ target[i].action = "orphan") => ws[i] = "gone"
      /\ (i \in Caches /\ look.ps) => \A b \in Bases : proc[b] \notin Clienting
      /\ i \in Entries => age[i] = StaleAge
<1>1. PlanInv /\ [PlanNext]_planVars => [\A i \in (left \ left') \ since : Spared(i)]_planVars
  <2> SUFFICES ASSUME PlanInv, [PlanNext]_planVars, NEW i \in (left \ left') \ since
               PROVE  Spared(i)
    OBVIOUS
  <2>1. ASSUME NEW ok \in BOOLEAN, RemoveTarget(ok) PROVE Spared(i)
    <3>1. i = hand /\ at = "remove" /\ i \in Items /\ ForDeletion(i) /\ i \notin Entries
      BY <2>1, PlanAssumption DEF RemoveTarget, PlanInv, HandInv
    <3>2. target[i].action \in {"delete", "orphan", "stop"}
      BY <3>1 DEF ForDeletion
    <3>3. CASE target[i].action = "delete"
      BY <3>1, <3>3 DEF PlanInv, PlainInv, Unused
    <3>4. CASE target[i].action \in {"orphan", "stop"}
      <4>1. i \in Bases /\ i \notin Caches
        BY <3>1, <3>4, PlanAssumption DEF PlanInv, TargetsSound
      <4>. QED  BY <3>1, <3>4, <4>1 DEF PlanInv, HandInv, Unused
    <3>. QED  BY <3>2, <3>3, <3>4
  <2>2. ASSUME NEW ok \in BOOLEAN, RemoveEntry(ok) PROVE Spared(i)
    <3>1. i = hand /\ i \in Entries /\ age[i] = StaleAge
      BY <2>2 DEF RemoveEntry, PlanInv, HandInv
    <3>. QED  BY <3>1, PlanAssumption DEF Items
  <2>. QED
    BY <2>1, <2>2 DEF PlanNext, planVars, planPass, ClientRuns, UseEnds, LockAges, WorkspaceReturns, BuildPlan,
       TakeTarget, StopServer, PostShutdown, BeginAge, TargetsDone, LookAtEntry, EndPass
<1>. QED  BY <1>1, PlanInvariant, PTL DEF PlanSpec, UsedIsKept
-----------------------------------------------------------------------------
(* The gaps between walks that double (BazelWalks).                        *)

\* What Doubled computes: it doubles until the interval is full.
LEMMA DoubledIs ==
  \A n \in Nat :
    /\ Doubled[n] \in Nat
    /\ Doubled[n] = IF n = 0 THEN MinInterval
                    ELSE IF Doubled[n - 1] < Interval THEN 2 * Doubled[n - 1] ELSE Doubled[n - 1]
<1>. DEFINE F == [v \in Nat |-> IF v < Interval THEN 2 * v ELSE v]
            Rec(f) == f = [n \in Nat |-> IF n = 0 THEN MinInterval
                             ELSE IF f[n - 1] < Interval THEN 2 * f[n - 1] ELSE f[n - 1]]
<1>1. F \in [Nat -> Nat] /\ MinInterval \in Nat
  BY EarlyWalksAssumption
<1>2. \A v \in Nat : F[v] = IF v < Interval THEN 2 * v ELSE v
  OBVIOUS
<1>. HIDE DEF F
<1>3. PICK f : f \in [Nat -> Nat] /\ f = [n \in Nat |-> IF n = 0 THEN MinInterval ELSE F[f[n - 1]]]
  BY <1>1, Recursion
<1>4. \A n \in Nat : n # 0 => F[f[n - 1]] = IF f[n - 1] < Interval THEN 2 * f[n - 1] ELSE f[n - 1]
  <2>1. \A n \in Nat : n # 0 => n - 1 \in Nat
    OBVIOUS
  <2>2. \A n \in Nat : n # 0 => f[n - 1] \in Nat
    BY <1>3, <2>1
  <2>. QED  BY <1>2, <2>2
<1>5. Rec(f)
  BY <1>3, <1>4
<1>. HIDE DEF Rec
<1>6. Rec(CHOOSE g : Rec(g))
  BY <1>5, Zenon
<1>7. Rec(Doubled)
  BY <1>6 DEF Doubled, Rec
<1>8. \A n \in Nat : Doubled[n] = IF n = 0 THEN MinInterval
                    ELSE IF Doubled[n - 1] < Interval THEN 2 * Doubled[n - 1] ELSE Doubled[n - 1]
  BY <1>7, Zenon DEF Rec
<1>. DEFINE T == {n \in Nat : Doubled[n] \in Nat}
<1>9. 0 \in T
  BY <1>1, <1>8
<1>10. ASSUME NEW n \in Nat, n \in T PROVE n + 1 \in T
  <2>1. n + 1 \in Nat /\ n + 1 # 0 /\ (n + 1) - 1 = n
    OBVIOUS
  <2>2. Doubled[n + 1] = IF Doubled[n] < Interval THEN 2 * Doubled[n] ELSE Doubled[n]
    BY <1>8, <2>1
  <2>3. Doubled[n + 1] \in Nat
    BY <1>10, <2>2
  <2>. QED  BY <2>1, <2>3
<1>. HIDE DEF T
<1>11. \A n \in Nat : n \in T
  BY <1>9, <1>10, SetInduction
<1>. QED  BY <1>8, <1>11 DEF T

\* What Waits computes.
LEMMA WaitsIs ==
  \A k \in Nat :
    /\ Waits[k] \in Nat
    /\ Waits[k] = IF k = 0 THEN 0 ELSE 2 * (Waits[k - 1] + MinInterval)
<1>. DEFINE F == [v \in Nat |-> 2 * (v + MinInterval)]
            Rec(f) == f = [k \in Nat |-> IF k = 0 THEN 0 ELSE 2 * (f[k - 1] + MinInterval)]
<1>1. F \in [Nat -> Nat] /\ MinInterval \in Nat /\ 0 \in Nat
  BY EarlyWalksAssumption
<1>2. \A v \in Nat : F[v] = 2 * (v + MinInterval)
  OBVIOUS
<1>. HIDE DEF F
<1>3. PICK f : f \in [Nat -> Nat] /\ f = [k \in Nat |-> IF k = 0 THEN 0 ELSE F[f[k - 1]]]
  BY <1>1, Recursion
<1>4. \A k \in Nat : k # 0 => F[f[k - 1]] = 2 * (f[k - 1] + MinInterval)
  <2>1. \A k \in Nat : k # 0 => k - 1 \in Nat
    OBVIOUS
  <2>2. \A k \in Nat : k # 0 => f[k - 1] \in Nat
    BY <1>3, <2>1
  <2>. QED  BY <1>2, <2>2
<1>5. Rec(f)
  BY <1>3, <1>4
<1>. HIDE DEF Rec
<1>6. Rec(CHOOSE g : Rec(g))
  BY <1>5, Zenon
<1>7. Rec(Waits)
  BY <1>6 DEF Waits, Rec
<1>8. \A k \in Nat : Waits[k] = IF k = 0 THEN 0 ELSE 2 * (Waits[k - 1] + MinInterval)
  BY <1>7, Zenon DEF Rec
<1>. DEFINE T == {k \in Nat : Waits[k] \in Nat}
<1>9. 0 \in T
  BY <1>8
<1>10. ASSUME NEW k \in Nat, k \in T PROVE k + 1 \in T
  <2>1. k + 1 \in Nat /\ k + 1 # 0 /\ (k + 1) - 1 = k
    OBVIOUS
  <2>2. Waits[k + 1] = 2 * (Waits[k] + MinInterval)
    BY <1>8, <2>1
  <2>3. Waits[k + 1] \in Nat
    BY <1>1, <1>10, <2>2
  <2>. QED  BY <2>1, <2>3
<1>. HIDE DEF T
<1>11. \A k \in Nat : k \in T
  BY <1>9, <1>10, SetInduction
<1>. QED  BY <1>8, <1>11 DEF T

\* The next of each.
LEMMA NextGap ==
  \A n \in Nat :
    /\ Doubled[n + 1] = IF Doubled[n] < Interval THEN 2 * Doubled[n] ELSE Doubled[n]
    /\ Waits[n + 1] = 2 * (Waits[n] + MinInterval)
<1>. SUFFICES ASSUME NEW n \in Nat
              PROVE  /\ Doubled[n + 1] = IF Doubled[n] < Interval THEN 2 * Doubled[n] ELSE Doubled[n]
                     /\ Waits[n + 1] = 2 * (Waits[n] + MinInterval)
  OBVIOUS
<1>1. n + 1 \in Nat /\ n + 1 # 0 /\ (n + 1) - 1 = n
  OBVIOUS
<1>. QED  BY <1>1, DoubledIs, WaitsIs

\* The gap never shrinks as empty walks add up.
LEMMA DoubledGrows ==
  ASSUME NEW m \in Nat, NEW n \in Nat, m <= n PROVE Doubled[m] <= Doubled[n]
<1>. DEFINE T == {k \in Nat : Doubled[m] <= Doubled[m + k]}
<1>1. 0 \in T
  <2>1. m + 0 = m /\ Doubled[m] \in Nat
    BY DoubledIs
  <2>. QED  BY <2>1
<1>2. ASSUME NEW k \in Nat, k \in T PROVE k + 1 \in T
  <2>1. m + k \in Nat /\ m + (k + 1) = (m + k) + 1
    OBVIOUS
  <2>2. Doubled[m + k] \in Nat /\ Doubled[(m + k) + 1] \in Nat /\ Doubled[m] \in Nat
    BY <2>1, DoubledIs
  <2>3. Doubled[m + k] <= Doubled[(m + k) + 1]
    BY <2>1, <2>2, NextGap
  <2>. QED  BY <1>2, <2>1, <2>2, <2>3
<1>. HIDE DEF T
<1>3. n - m \in Nat /\ m + (n - m) = n
  OBVIOUS
<1>4. n - m \in T
  BY <1>1, <1>2, <1>3, SetInduction
<1>. QED  BY <1>3, <1>4 DEF T

\* While the gap can still double, it is the next of the waits.
LEMMA GapIsNextWait ==
  \A k \in Nat : Doubled[k] < Interval => Doubled[k + 1] = Waits[k + 1] - Waits[k]
<1>. DEFINE T == {k \in Nat : Doubled[k] < Interval => Doubled[k + 1] = Waits[k + 1] - Waits[k]}
<1>1. 0 \in T
  <2>1. Doubled[0] = MinInterval /\ Waits[0] = 0
    BY DoubledIs, WaitsIs
  <2>2. Doubled[0] < Interval => Doubled[0 + 1] = 2 * Doubled[0]
    BY NextGap
  <2>3. Waits[0 + 1] = 2 * (Waits[0] + MinInterval)
    BY NextGap
  <2>4. Doubled[0] < Interval => Doubled[0 + 1] = Waits[0 + 1] - Waits[0]
    BY <2>1, <2>2, <2>3, EarlyWalksAssumption
  <2>. QED  BY <2>4
<1>2. ASSUME NEW k \in Nat, k \in T PROVE k + 1 \in T
  <2>. SUFFICES ASSUME Doubled[k + 1] < Interval
                PROVE  Doubled[(k + 1) + 1] = Waits[(k + 1) + 1] - Waits[k + 1]
    OBVIOUS
  <2>1. /\ Doubled[k] \in Nat /\ Doubled[k + 1] \in Nat /\ Waits[k] \in Nat
        /\ Waits[k + 1] \in Nat /\ Doubled[k] <= Doubled[k + 1]
    BY DoubledIs, WaitsIs, DoubledGrows
  <2>2. Doubled[k + 1] = Waits[k + 1] - Waits[k]
    BY <1>2, <2>1, EarlyWalksAssumption
  <2>3. Doubled[(k + 1) + 1] = 2 * Doubled[k + 1]
    BY NextGap
  <2>4. Waits[(k + 1) + 1] = 2 * (Waits[k + 1] + MinInterval) /\ Waits[k + 1] = 2 * (Waits[k] + MinInterval)
    BY NextGap
  <2>. QED  BY <2>1, <2>2, <2>3, <2>4, EarlyWalksAssumption
<1>. HIDE DEF T
<1>3. \A k \in Nat : k \in T
  BY <1>1, <1>2, SetInduction
<1>. QED  BY <1>3 DEF T

\* k waits in a row take more and more, and at least k.
LEMMA WaitsGrow ==
  ASSUME NEW m \in Nat, NEW n \in Nat, m <= n PROVE Waits[m] <= Waits[n] /\ n <= Waits[n]
<1>. DEFINE T == {k \in Nat : Waits[m] <= Waits[m + k]}
            U == {k \in Nat : k <= Waits[k]}
<1>1. 0 \in T
  <2>1. m + 0 = m /\ Waits[m] \in Nat
    BY WaitsIs
  <2>. QED  BY <2>1
<1>2. ASSUME NEW k \in Nat, k \in T PROVE k + 1 \in T
  <2>1. m + k \in Nat /\ m + (k + 1) = (m + k) + 1
    OBVIOUS
  <2>2. Waits[m + k] \in Nat /\ Waits[m] \in Nat
    BY <2>1, WaitsIs
  <2>3. Waits[(m + k) + 1] = 2 * (Waits[m + k] + MinInterval)
    BY <2>1, NextGap
  <2>4. Waits[m] <= Waits[(m + k) + 1]
    BY <1>2, <2>2, <2>3, EarlyWalksAssumption
  <2>. QED  BY <2>1, <2>4
<1>3. 0 \in U
  BY WaitsIs
<1>4. ASSUME NEW k \in Nat, k \in U PROVE k + 1 \in U
  <2>1. Waits[k] \in Nat /\ Waits[k + 1] = 2 * (Waits[k] + MinInterval)
    BY WaitsIs, NextGap
  <2>2. k + 1 <= Waits[k + 1]
    BY <1>4, <2>1, EarlyWalksAssumption
  <2>. QED  BY <2>2
<1>. HIDE DEF T, U
<1>5. n - m \in Nat /\ m + (n - m) = n
  OBVIOUS
<1>6. n - m \in T
  BY <1>1, <1>2, <1>5, SetInduction
<1>7. n \in U
  BY <1>3, <1>4, SetInduction
<1>. QED  BY <1>5, <1>6, <1>7 DEF T, U

\* The walks that fit into an interval: k + 1 do when k waits fit.
LEMMA AllowedIs ==
  /\ AllowedBarren \in Nat
  /\ AllowedBarren >= 1
  /\ \A k \in Nat : Waits[k] < Interval => k + 1 <= AllowedBarren
<1>. DEFINE A == {k \in 1 .. Interval : Waits[k] < Interval}
<1>1. IsFiniteSet(A) /\ Cardinality(A) \in Nat
  <2>1. IsFiniteSet(1 .. Interval) /\ A \in SUBSET (1 .. Interval)
    BY FS_Interval, EarlyWalksAssumption
  <2>. QED  BY <2>1, FS_Subset, FS_CardinalityType
<1>2. AllowedBarren = 1 + Cardinality(A)
  BY DEF AllowedBarren
<1>3. ASSUME NEW k \in Nat, Waits[k] < Interval PROVE k <= Cardinality(A)
  <2>1. ASSUME NEW i \in 1 .. k PROVE i \in A
    <3>1. i \in Nat /\ i <= k
      OBVIOUS
    <3>2. Waits[i] <= Waits[k] /\ i <= Waits[i] /\ Waits[i] \in Nat /\ Waits[k] \in Nat
      BY <3>1, WaitsGrow, WaitsIs
    <3>3. Waits[i] < Interval /\ i \in 1 .. Interval
      BY <1>3, <3>1, <3>2, EarlyWalksAssumption
    <3>. QED  BY <3>3
  <2>2. 1 .. k \in SUBSET A
    BY <2>1
  <2>3. Cardinality(1 .. k) <= Cardinality(A)
    BY <1>1, <2>2, FS_Subset
  <2>4. Cardinality(1 .. k) = k
    BY FS_Interval
  <2>. QED  BY <2>3, <2>4
<1>. HIDE DEF A
<1>. QED  BY <1>1, <1>2, <1>3
-----------------------------------------------------------------------------
\* A walk that starts early has waited out the gap.
LEMMA EarlyGapIs == ASSUME BarrenInv PROVE EarlyGap \in Int /\ EarlyGap >= Doubled[emptyWalks]
<1>. DEFINE share == IF Duty < 100 THEN (lastWalk * (100 - Duty)) \div Duty ELSE 0
<1>1. Doubled[emptyWalks] \in Nat
  BY DoubledIs DEF BarrenInv, WalkTimesOK
<1>2. share \in Int
  BY EarlyWalksAssumption DEF BarrenInv, WalkTimesOK
<1>3. EarlyGap = IF share > Doubled[emptyWalks] THEN share ELSE Doubled[emptyWalks]
  BY DEF EarlyGap
<1>. HIDE DEF share
<1>. QED  BY <1>1, <1>2, <1>3

\* The barren walks are finitely many.
LEMMA BarrenFinite ==
  ASSUME BarrenInv, NEW S \in SUBSET barren
  PROVE  IsFiniteSet(S) /\ Cardinality(S) \in Nat /\ Cardinality(S) <= emptyWalks
<1>1. barren \in SUBSET (0 .. now)
  BY DEF BarrenInv, WalkTimesOK, BarrenCounted, Never
<1>2. IsFiniteSet(0 .. now)
  BY FS_Interval DEF BarrenInv, WalkTimesOK
<1>3. IsFiniteSet(barren)
  BY <1>1, <1>2, FS_Subset
<1>4. Cardinality(barren) \in Nat /\ Cardinality(barren) <= emptyWalks
  BY <1>3, FS_CardinalityType DEF BarrenInv, BarrenCounted
<1>5. IsFiniteSet(S) /\ Cardinality(S) <= Cardinality(barren)
  BY <1>3, FS_Subset
<1>6. Cardinality(S) \in Nat
  BY <1>5, FS_CardinalityType
<1>. QED  BY <1>4, <1>5, <1>6 DEF BarrenInv, WalkTimesOK

\* When a walk takes place within an interval of a barren one, the gap was waited out.
LEMMA WalkWaited ==
  ASSUME BarrenInv, NEW found, NEW rest, NEW partial, NEW removed, NEW enough,
         NEW time \in 0 .. MaxWalkTime, Walk(found, rest, partial, removed, enough, time),
         lastDiscovery # Never
  PROVE  /\ now + time >= lastDiscovery
         /\ now + time > lastDiscovery \/ now + time >= lastDiscovery + Interval
         /\ \/ now + time >= lastDiscovery + Interval
            \/ now + time >= lastDiscovery + Doubled[emptyWalks]
<1>1. lastDiscovery \in 0 .. now /\ now \in Nat /\ time \in Nat
  BY EarlyWalksAssumption DEF BarrenInv, WalkTimesOK
<1>2. now - lastDiscovery >= Interval \/ now - lastDiscovery >= EarlyGap
  BY DEF Walk, Due
<1>3. EarlyGap \in Int /\ EarlyGap >= Doubled[emptyWalks] /\ Doubled[emptyWalks] \in Nat
      /\ Doubled[0] = MinInterval /\ Doubled[0] <= Doubled[emptyWalks]
  BY EarlyGapIs, DoubledIs, DoubledGrows DEF BarrenInv, WalkTimesOK
<1>. QED  BY <1>1, <1>2, <1>3, EarlyWalksAssumption

\* A walk keeps the invariant.
LEMMA WalkKeepsBarren ==
  ASSUME BarrenInv, NEW found, NEW rest, NEW partial, NEW removed, NEW enough \in BOOLEAN,
         NEW time \in 0 .. MaxWalkTime, Walk(found, rest, partial, removed, enough, time)
  PROVE  BarrenInv'
<1>. DEFINE end == now + time
<1>1. end \in Nat /\ now <= end
  BY EarlyWalksAssumption DEF BarrenInv, WalkTimesOK
<1>2. now' = end /\ lastDiscovery' = end /\ lastWalk' = time /\ mode' = mode
  BY DEF Walk
<1>3. /\ emptyWalks' = IF mode = "apply" /\ ~ enough THEN emptyWalks + 1 ELSE 0
      /\ barren' = IF enough \/ mode = "report" THEN {} ELSE barren \cup {end}
  BY DEF Walk, NoteYield
<1>. HIDE DEF end
<1>4. WalkTimesOK'
  BY <1>1, <1>2, <1>3, EarlyWalksAssumption DEF BarrenInv, WalkTimesOK
<1>5. CASE barren' = {}
  <2>1. Cardinality(barren') = 0
    BY <1>5, FS_EmptySet
  <2>. QED  BY <1>4, <1>5, <2>1 DEF BarrenInv, WalkTimesOK, BarrenCounted, BarrenSpaced, BarrenWalksThinOut
<1>6. CASE barren' # {}
  <2>1. mode = "apply" /\ barren' = barren \cup {end} /\ emptyWalks' = emptyWalks + 1
    BY <1>3, <1>6 DEF BarrenInv, WalkTimesOK
  <2>2. IsFiniteSet(barren) /\ Cardinality(barren) \in Nat /\ Cardinality(barren) <= emptyWalks
    BY BarrenFinite
  <2>3. \A u \in barren : u \in Nat /\ u <= lastDiscovery /\ lastDiscovery \in Nat /\ lastDiscovery <= end
    BY <1>1 DEF BarrenInv, BarrenCounted, WalkTimesOK, Never
  <2>4. BarrenCounted'
    <3>1. /\ IsFiniteSet(barren \cup {end})
          /\ Cardinality(barren \cup {end}) = IF end \in barren THEN Cardinality(barren)
                                              ELSE Cardinality(barren) + 1
      BY <2>2, FS_AddElement
    <3>2. Cardinality(barren \cup {end}) \in Nat
      BY <3>1, FS_CardinalityType
    <3>3. Cardinality(barren') <= emptyWalks'
      BY <2>1, <2>2, <3>1, <3>2 DEF BarrenInv, WalkTimesOK
    <3>4. \A u \in barren' : u \in Nat /\ u <= lastDiscovery'
      BY <1>1, <1>2, <2>1, <2>3
    <3>. QED  BY <1>2, <2>1, <3>3, <3>4 DEF BarrenCounted
  <2>. DEFINE later(t) == {u \in barren : t <= u}
              window(t) == {u \in barren : t <= u /\ u < t + Interval}
  <2>5. ASSUME NEW t \in barren
        PROVE  /\ \/ end >= t + Interval
                  \/ end >= t + Waits[Cardinality({u \in barren' : t <= u}) - 1]
               /\ Cardinality({u \in barren' : t <= u /\ u < t + Interval}) <= AllowedBarren
    <3>1. t \in Nat /\ lastDiscovery \in Nat /\ t <= lastDiscovery /\ lastDiscovery <= end
          /\ t <= end /\ lastDiscovery # Never /\ Interval \in Nat
      BY <1>1, <2>3, EarlyWalksAssumption DEF Never
    <3>2. CASE end >= t + Interval
      <4>1. {u \in barren' : t <= u /\ u < t + Interval} = window(t)
        BY <1>1, <2>1, <3>1, <3>2
      <4>2. Cardinality(window(t)) <= AllowedBarren
        BY DEF BarrenInv, BarrenWalksThinOut
      <4>. QED  BY <3>2, <4>1, <4>2
    <3>3. CASE end < t + Interval
      <4>. DEFINE c == Cardinality(later(t))
      <4>1. later(t) \in SUBSET barren /\ t \in later(t)
        BY <3>1
      <4>2. IsFiniteSet(later(t)) /\ c \in Nat /\ c <= emptyWalks
        BY <4>1, BarrenFinite
      <4>3. c >= 1
        BY <4>1, <4>2, FS_EmptySet
      <4>4. lastDiscovery < t + Interval /\ end < lastDiscovery + Interval
        BY <1>1, <3>1, <3>3
      <4>5. lastDiscovery >= t + Waits[c - 1]
        BY <3>1, <4>4 DEF BarrenInv, BarrenSpaced
      <4>6. end > lastDiscovery /\ end >= lastDiscovery + Doubled[emptyWalks]
        <5>1. /\ end > lastDiscovery \/ end >= lastDiscovery + Interval
              /\ \/ end >= lastDiscovery + Interval
                 \/ end >= lastDiscovery + Doubled[emptyWalks]
          BY <3>1, WalkWaited DEF end
        <5>. QED  BY <1>1, <3>1, <4>4, <5>1
      <4>. HIDE DEF c
      <4>7. /\ Waits[c - 1] \in Nat /\ Waits[c] \in Nat /\ Doubled[c] \in Nat
            /\ Doubled[c - 1] \in Nat /\ Doubled[emptyWalks] \in Nat
            /\ Doubled[c - 1] <= Doubled[c] /\ Doubled[c] <= Doubled[emptyWalks]
        <5>1. c - 1 \in Nat /\ c - 1 <= c /\ emptyWalks \in Nat
          BY <4>2, <4>3 DEF BarrenInv, WalkTimesOK
        <5>. QED  BY <4>2, <5>1, DoubledIs, WaitsIs, DoubledGrows
      <4>8. Doubled[c] = Waits[c] - Waits[c - 1]
        <5>1. Doubled[c - 1] < Interval
          BY <1>1, <3>1, <4>4, <4>6, <4>7
        <5>2. c - 1 \in Nat /\ (c - 1) + 1 = c
          BY <4>2, <4>3
        <5>. QED  BY <5>1, <5>2, GapIsNextWait
      <4>9. end >= t + Waits[c] /\ Waits[c] < Interval
        BY <1>1, <3>1, <3>3, <4>5, <4>6, <4>7, <4>8
      <4>10. /\ {u \in barren' : t <= u} = later(t) \cup {end}
             /\ {u \in barren' : t <= u /\ u < t + Interval} = later(t) \cup {end}
             /\ end \notin later(t)
        <5>1. \A u \in barren : u \in Nat /\ u < end /\ u < t + Interval
          BY <1>1, <2>3, <3>1, <4>4, <4>6
        <5>2. t <= end /\ end < t + Interval /\ ~ (end < end)
          BY <1>1, <3>1, <3>3
        <5>3. {u \in barren' : t <= u} = later(t) \cup {end}
          BY <2>1, <5>2
        <5>4. {u \in barren' : t <= u /\ u < t + Interval} = later(t) \cup {end}
          BY <2>1, <5>1, <5>2
        <5>. QED  BY <5>1, <5>2, <5>3, <5>4
      <4>11. Cardinality(later(t) \cup {end}) = c + 1
        BY <4>2, <4>10, FS_AddElement DEF c
      <4>12. c + 1 <= AllowedBarren
        BY <4>2, <4>9, AllowedIs
      <4>13. (c + 1) - 1 = c
        BY <4>2
      <4>. QED  BY <4>9, <4>10, <4>11, <4>12, <4>13
    <3>. QED  BY <1>1, <3>1, <3>2, <3>3
  <2>6. /\ end >= end + Waits[Cardinality({u \in barren' : end <= u}) - 1] \/ end >= end + Interval
        /\ Cardinality({u \in barren' : end <= u /\ u < end + Interval}) <= AllowedBarren
    <3>1. CASE barren = {} \/ \A u \in barren : u < end
      <4>1. {u \in barren' : end <= u} = {end}
        BY <1>1, <2>1, <2>3, <3>1
      <4>2. {u \in barren' : end <= u /\ u < end + Interval} \in SUBSET {end}
        BY <1>1, <2>1, <2>3, <3>1
      <4>3. Cardinality({end}) = 1 /\ IsFiniteSet({end})
        BY FS_Singleton
      <4>4. Cardinality({u \in barren' : end <= u /\ u < end + Interval}) <= 1
        BY <4>2, <4>3, FS_Subset
      <4>5. Cardinality({u \in barren' : end <= u /\ u < end + Interval}) \in Nat
        BY <4>2, <4>3, FS_Subset, FS_CardinalityType
      <4>6. 1 <= AllowedBarren /\ AllowedBarren \in Nat /\ Waits[0] = 0
        BY AllowedIs, WaitsIs
      <4>7. Cardinality({u \in barren' : end <= u}) - 1 = 0
        BY <4>1, <4>3
      <4>8. end >= end + Waits[0]
        BY <1>1, <4>6
      <4>9. Cardinality({u \in barren' : end <= u /\ u < end + Interval}) <= AllowedBarren
        BY <4>4, <4>5, <4>6
      <4>. QED  BY <4>7, <4>8, <4>9
    <3>2. CASE \E u \in barren : ~ (u < end)
      <4>1. lastDiscovery = end /\ end \in Nat /\ lastDiscovery # Never
        BY <1>1, <2>3, <3>2 DEF Never
      <4>2. end > lastDiscovery \/ end >= lastDiscovery + Interval
        BY <4>1, WalkWaited DEF end
      <4>3. Interval = 0
        BY <4>1, <4>2, EarlyWalksAssumption
      <4>4. {u \in barren' : end <= u /\ u < end + Interval} = {}
        BY <1>1, <2>1, <2>3, <4>3
      <4>5. Cardinality({}) = 0 /\ 0 <= AllowedBarren
        BY FS_EmptySet, AllowedIs
      <4>6. end >= end + Interval
        BY <4>1, <4>3
      <4>. QED  BY <4>4, <4>5, <4>6
    <3>. QED  BY <3>1, <3>2
  <2>7. BarrenSpaced'
    BY <1>2, <2>1, <2>5, <2>6 DEF BarrenSpaced
  <2>8. BarrenWalksThinOut'
    <3>1. AllowedBarren' = AllowedBarren
      BY DEF AllowedBarren
    <3>. QED  BY <2>1, <2>5, <2>6 DEF BarrenWalksThinOut
  <2>. QED  BY <1>4, <2>4, <2>7, <2>8 DEF BarrenInv
<1>. QED  BY <1>5, <1>6

LEMMA BarrenInvStep == BarrenInv /\ [WalksNext]_walkVars => BarrenInv'
<1>. SUFFICES ASSUME BarrenInv, [WalksNext]_walkVars PROVE BarrenInv'
  OBVIOUS
<1>1. ASSUME NEW found \in SUBSET Devs, NEW rest \in [Devs -> {Never, 0, now + 1}],
             NEW time \in 0 .. MaxWalkTime, NEW partial \in BOOLEAN, NEW removed \in BOOLEAN,
             NEW enough \in BOOLEAN, Walk(found, rest, partial, removed, enough, time)
      PROVE  BarrenInv'
  BY <1>1, WalkKeepsBarren
<1>2. ASSUME NEW l \in [Devs -> Load], WalkTick(l) PROVE BarrenInv'
  <2>1. now' = now + 1 /\ UNCHANGED <<mode, lastDiscovery, lastWalk, emptyWalks, barren>>
    BY <1>2 DEF WalkTick
  <2>. QED  BY <2>1 DEF BarrenInv, WalkTimesOK, BarrenCounted, BarrenSpaced, BarrenWalksThinOut
<1>3. CASE WalkRestart
  <2>1. /\ UNCHANGED <<now, mode>> /\ lastDiscovery' = Never /\ lastWalk' = 0 /\ emptyWalks' = 0
        /\ barren' = {}
    BY <1>3 DEF WalkRestart, Forgotten
  <2>2. Cardinality({}) = 0
    BY FS_EmptySet
  <2>. QED  BY <2>1, <2>2 DEF BarrenInv, WalkTimesOK, BarrenCounted, BarrenSpaced, BarrenWalksThinOut
<1>4. CASE UNCHANGED walkVars
  BY <1>4 DEF walkVars, BarrenInv, WalkTimesOK, BarrenCounted, BarrenSpaced, BarrenWalksThinOut
<1>. QED  BY <1>1, <1>2, <1>3, <1>4 DEF WalksNext

LEMMA BarrenInvInit == WalksInit => BarrenInv
<1>1. Cardinality({}) = 0
  BY FS_EmptySet
<1>. QED  BY <1>1 DEF WalksInit, BarrenInv, WalkTimesOK, BarrenCounted, BarrenSpaced, BarrenWalksThinOut

\* The inductive invariant: until an interval has passed, barren walks are as far
\* apart as the waits, and there are no more of them than empty walks.
THEOREM BarrenInvariant == WalksSpec => []BarrenInv
  BY BarrenInvInit, BarrenInvStep, PTL DEF WalksSpec

\* For any interval and duty share, however long walks take and whatever mounts and
\* bases do, only so many walks without a yield fall into any stretch as long as the
\* discovery interval (due, earlyGap).
THEOREM WalksThinOut == WalksSpec => []BarrenWalksThinOut
<1>1. BarrenInv => BarrenWalksThinOut
  BY DEF BarrenInv
<1>. QED  BY <1>1, BarrenInvariant, PTL
=============================================================================
