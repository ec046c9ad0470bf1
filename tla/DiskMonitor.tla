---------------------------- MODULE DiskMonitor ----------------------------
(***************************************************************************)
(* The pressure ladder: monitor/disk.go and the per-mount monitors that    *)
(* main.go derives from the configuration.  Everything here is a pure      *)
(* operator; percentages are integers, since every threshold is one and    *)
(* only comparisons with thresholds matter.                                *)
(***************************************************************************)
EXTENDS Integers

LevelNone == 0
LevelWarning == 1
LevelModerate == 2
LevelAggressive == 3
LevelCritical == 4

\* type CleanupLevel: the constants are ordered, and compared as integers.
CleanupLevel == LevelNone .. LevelCritical

\* A ladder is a record of four used-percentage thresholds, as in DiskMonitor.
Ladder(Percent) ==
  [warning: Percent, moderate: Percent, aggressive: Percent, critical: Percent]

\* Mutant: the thresholds are tried from warning up.
levelForPercent_WarningFirst(usedPercent, t) ==
  IF usedPercent >= t.warning THEN LevelWarning
  ELSE IF usedPercent >= t.moderate THEN LevelModerate
  ELSE IF usedPercent >= t.aggressive THEN LevelAggressive
  ELSE IF usedPercent >= t.critical THEN LevelCritical
  ELSE LevelNone

(***************************************************************************)
(* levelForPercent: the thresholds are tried from critical down, so the    *)
(* first one reached wins even when the ladder is not ascending.           *)
(***************************************************************************)
levelForPercent(usedPercent, t) ==
  IF usedPercent >= t.critical THEN LevelCritical
  ELSE IF usedPercent >= t.aggressive THEN LevelAggressive
  ELSE IF usedPercent >= t.moderate THEN LevelModerate
  ELSE IF usedPercent >= t.warning THEN LevelWarning
  ELSE LevelNone

(***************************************************************************)
(* CheckInodeLevel.  A filesystem that reports no inode total never        *)
(* escalates; an absolute floor replaces the ladder; a filesystem that     *)
(* allocates inodes on demand has no ladder.                               *)
(*   i: [total, free, usedPercent, dynamic],  m: [inode, floor]            *)
(***************************************************************************)
CheckInodeLevel(i, m) ==
  IF i.total = 0 THEN LevelNone
  ELSE IF m.floor > 0 THEN IF i.free < m.floor THEN LevelCritical ELSE LevelNone
  ELSE IF i.dynamic THEN LevelNone
  ELSE levelForPercent(i.usedPercent, m.inode)

\* Mutant: a global step applies to every mount.
withinMountBand_Keeps(step, low, critical) == step

(***************************************************************************)
(* withinMountBand: a global step outside a mount's own band is moved to   *)
(* critical, where levelForPercent never reports it.                       *)
(***************************************************************************)
withinMountBand(step, low, critical) ==
  IF step < low \/ step > critical THEN critical ELSE step

\* "Set on the mount" means a positive value; otherwise the global one stays.
Override(own, global) == IF own > 0 THEN own ELSE global

(***************************************************************************)
(* monitorForMount, byte ladder: a mount's own thresholds replace the      *)
(* global ones and the steps it does not set are kept within its band.     *)
(***************************************************************************)
mountByteLadder(own, global) ==
  LET w == Override(own.warning, global.warning)
      c == Override(own.critical, global.critical)
      m == IF own.moderate > 0 THEN own.moderate
           ELSE withinMountBand(global.moderate, w, c)
      a == IF own.aggressive > 0 THEN own.aggressive
           ELSE withinMountBand(global.aggressive, m, c)
  IN  [warning |-> w, moderate |-> m, aggressive |-> a, critical |-> c]

(***************************************************************************)
(* NewDiskMonitorWithInodeThresholds: an inode threshold that is not set   *)
(* falls back to the byte threshold of the same step.                      *)
(***************************************************************************)
inodeLadder(inode, bytes) ==
  [s \in {"warning", "moderate", "aggressive", "critical"} |->
      IF inode[s] <= 0 THEN bytes[s] ELSE inode[s]]

(***************************************************************************)
(* monitorForMount, inode ladder: a mount may set only the warning and the *)
(* critical step; moderate and aggressive stay the global ones.            *)
(***************************************************************************)
mountInodeLadder(ownWarning, ownCritical, global, bytes) ==
  inodeLadder([global EXCEPT !.warning = Override(ownWarning, @),
                             !.critical = Override(ownCritical, @)], bytes)
=============================================================================
