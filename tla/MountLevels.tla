---------------------------- MODULE MountLevels ---------------------------
(***************************************************************************)
(* The levels of one monitored mount: MountConfig.Validate of              *)
(* config/config.go, monitorForMount of main.go and the ladder of          *)
(* DiskMonitor.  A configuration is loaded, then the mount fills and       *)
(* drains, in bytes and in inodes.                                         *)
(***************************************************************************)
EXTENDS DiskMonitor

CONSTANTS
  Global,         \* the global byte thresholds
  GlobalInode,    \* the global inode thresholds; 0: the byte threshold
  GlobalFloor,    \* the global inode_free_floor, 0 for none
  Settings,       \* values a mount gives its byte thresholds, 0 for not set
  InodeSettings,  \* values a mount gives its inode thresholds, 0 for not set
  Floors,         \* values of inode_free_floor, 0 for not set
  Points          \* used percentages, of bytes and of inodes

ASSUME MountLevelsAssumption ==
  /\ Global \in Ladder(1 .. 100) /\ GlobalInode \in Ladder(0 .. 100)
  /\ Settings \subseteq 0 .. 100 /\ InodeSettings \subseteq 0 .. 100
  /\ Floors \subseteq Nat /\ GlobalFloor \in Nat
  /\ Points \subseteq 0 .. 100

VARIABLES
  loaded,   \* LoadConfig has accepted a configuration
  mount,    \* the mount's own settings
  used,     \* used percentage of bytes
  inodes    \* used percentage of inodes

levelVars == <<loaded, mount, used, inodes>>

Unset == [warning |-> 0, moderate |-> 0, aggressive |-> 0, critical |-> 0,
          inodeWarning |-> 0, inodeCritical |-> 0, floor |-> 0, dynamic |-> FALSE]

MountConfig ==
  [warning: Settings, moderate: Settings, aggressive: Settings, critical: Settings,
   inodeWarning: InodeSettings, inodeCritical: InodeSettings, floor: Floors, dynamic: BOOLEAN]

\* Validate: the byte thresholds that are set ascend.
Ascends(a, b) == a = 0 \/ b = 0 \/ a <= b

Validate(m) ==
  /\ Ascends(m.warning, m.moderate) /\ Ascends(m.warning, m.aggressive)
  /\ Ascends(m.warning, m.critical) /\ Ascends(m.moderate, m.aggressive)
  /\ Ascends(m.moderate, m.critical) /\ Ascends(m.aggressive, m.critical)

\* monitorForMount: the ladders of a mount.  (With nothing set it returns the
\* global monitor, which has the same ladders.)
byteLadder(m) ==
  IF m.warning = 0 /\ m.moderate = 0 /\ m.aggressive = 0 /\ m.critical = 0
     /\ m.inodeWarning = 0 /\ m.inodeCritical = 0 /\ m.floor = 0
  THEN Global ELSE mountByteLadder(m, Global)

monitorForMount(m) ==
  [bytes |-> byteLadder(m),
   inode |-> mountInodeLadder(m.inodeWarning, m.inodeCritical, GlobalInode, byteLadder(m)),
   floor |-> Override(m.floor, GlobalFloor)]

\* The inode total is 100, so that percentages are counts.
inodeStats(n, dynamic) == [total |-> 100, free |-> 100 - n, usedPercent |-> n, dynamic |-> dynamic]

byteLevel(m, u) == levelForPercent(u, monitorForMount(m).bytes)
inodeLevel(m, n) == CheckInodeLevel(inodeStats(n, m.dynamic), monitorForMount(m))

\* CheckLevel: the worse of the two.
CheckLevel(m, u, n) ==
  IF inodeLevel(m, n) > byteLevel(m, u) THEN inodeLevel(m, n) ELSE byteLevel(m, u)
-----------------------------------------------------------------------------
LevelsInit ==
  /\ loaded = FALSE /\ mount = Unset
  /\ used = 0 /\ inodes = 0

LoadConfig(m) ==
  /\ ~ loaded /\ Validate(m)
  /\ loaded' = TRUE /\ mount' = m
  /\ UNCHANGED <<used, inodes>>

BytesChange(u) == loaded /\ used' = u /\ UNCHANGED <<loaded, mount, inodes>>

InodesChange(n) == loaded /\ inodes' = n /\ UNCHANGED <<loaded, mount, used>>

LevelsNext ==
  \/ \E m \in MountConfig : LoadConfig(m)
  \/ \E u \in Points : BytesChange(u)
  \/ \E n \in Points : InodesChange(n)

LevelsSpec == LevelsInit /\ [][LevelsNext]_levelVars
-----------------------------------------------------------------------------
(* Properties. *)

\* The mount's settings and its usage have their types.
LevelsTypeOK ==
  /\ loaded \in BOOLEAN /\ mount \in MountConfig \cup {Unset}
  /\ used \in 0 .. 100 /\ inodes \in 0 .. 100

\* A fuller mount is never at a lower level (levelForPercent, CheckLevel),
\* whichever thresholds it sets and whether or not its ladder ascends.
LevelFollowsUsage ==
  [][loaded /\ used <= used' /\ inodes <= inodes'
       => CheckLevel(mount, used, inodes) <= CheckLevel(mount, used', inodes')]_levelVars

\* "No action below its own warning line" (critical_bound_test.go): a mount that
\* sets its warning and its critical threshold has no byte level below warning,
\* whatever the global steps are (monitorForMount, withinMountBand, Validate).
QuietBelowWarning ==
  loaded /\ mount.warning > 0 /\ mount.critical > 0 /\ used < mount.warning
    => byteLevel(mount, used) = LevelNone
=============================================================================
