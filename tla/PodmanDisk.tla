---------------------------- MODULE PodmanDisk ----------------------------
(***************************************************************************)
(* Offline compaction of the Podman machine's disk: compactRawDisk and its *)
(* preflight in plugins/podman.go.                                         *)
(*                                                                         *)
(* The machine is stopped, its disk converted into a sparse copy, the copy *)
(* put in place of the disk and the machine started again.  Any command    *)
(* and any rename may fail, the watchdog may end the context, a conversion *)
(* may report success on an image that does not boot, and the daemon may   *)
(* stop between any two steps.  After the stop nothing looks at the        *)
(* machine again: a user may start it while its disk is replaced, and a    *)
(* start that is killed at its deadline may leave it up, so that renames   *)
(* and removals reach the image a running machine has open.  An image is a *)
(* version of the machine's data, which grows while the machine runs;      *)
(* podman and qemu-img are external.                                       *)
(***************************************************************************)
EXTENDS Integers

CONSTANTS
  Setups,        \* configurations: cross device, backup kept, qcow2, idle required
  Faults,        \* commands and renames fail, machine and daemon stop, of themselves
  Intrusions,    \* users start the machine while a compaction replaces its disk
  SilentDamage,  \* files a conversion may damage without an error
  MaxData        \* bound on the writes of the machine

VARIABLES
  setup,
  file,       \* the image at each path
  data,       \* the newest version the machine wrote
  vm,         \* the path of the image the running machine has open, or "gone", or "off"
  busy,       \* containers are active in it
  vmRunning,  \* environment.VMRunning, detected once per process
  step,       \* where compactRawDisk is
  cut,        \* the context of the run has ended
  gaps        \* what the code does not guard against and has happened, for the properties

diskVars == <<setup, file, data, vm, busy, vmRunning, step, cut, gaps>>

Setup == [cross: BOOLEAN, keep: BOOLEAN, qcow2: BOOLEAN, needIdle: BOOLEAN]
File == {"disk", "temp", "backup", "failed"}

ASSUME PodmanAssumption ==
  /\ Setups \subseteq Setup
  /\ Faults \in BOOLEAN /\ Intrusions \in BOOLEAN
  /\ SilentDamage \subseteq File
  /\ MaxData \in Nat

NoImage == [ver |-> -1, good |-> FALSE]
Image == [ver: 0 .. MaxData, good: BOOLEAN] \cup {NoImage}
Torn == [ver |-> 0, good |-> FALSE]
Present(f) == file[f] # NoImage

DiskInit ==
  /\ setup \in Setups
  /\ file = [f \in File |-> IF f = "disk" THEN [ver |-> 0, good |-> TRUE] ELSE NoImage]
  /\ data = 0 /\ vm = "disk" /\ busy = FALSE /\ vmRunning = TRUE
  /\ step = "idle" /\ cut = FALSE /\ gaps = {}

Go(s) == step' = s
Up == vm # "off"

\* A running machine keeps the image it has open, whatever becomes of the path.
Unlinked(f) == IF vm = f THEN "gone" ELSE vm
Renamed(f, g) == IF vm = f THEN g ELSE Unlinked(g)

\* How a command of the run's context, and a call outside of it, may end.
CommandEnds(ok) == IF ok THEN ~ cut ELSE cut \/ Faults
CallEnds(ok) == ok \/ Faults
Gone(f) == [file EXCEPT ![f] = NoImage]
-----------------------------------------------------------------------------
(* The machine and its users. *)

MachineWrites ==
  /\ Up /\ data < MaxData
  /\ data' = data + 1
  /\ file' = IF vm \in File THEN [file EXCEPT ![vm].ver = data + 1] ELSE file
  /\ UNCHANGED <<setup, vm, busy, vmRunning, step, cut, gaps>>

ContainersChange ==
  /\ Up /\ busy' = ~ busy
  /\ UNCHANGED <<setup, file, data, vm, vmRunning, step, cut, gaps>>

\* The machine is stopped and its disk is in the hands of the compaction.
Replacing == {"convert", "verify", "backup", "remove", "write", "check", "undo", "replace", "swap",
              "start", "rollback"}

\* Somebody starts the machine; nothing keeps a user from it during a compaction.
UserStarts ==
  /\ ~ Up /\ file["disk"].good /\ (step \in Replacing => Intrusions)
  /\ vm' = "disk"
  /\ gaps' = IF step \in Replacing THEN gaps \cup {"up"} ELSE gaps
  /\ UNCHANGED <<setup, file, data, busy, vmRunning, step, cut>>

\* Somebody stops the machine, or it ends.
MachineEnds ==
  /\ Faults /\ Up
  /\ vm' = "off" /\ busy' = FALSE
  /\ UNCHANGED <<setup, file, data, vmRunning, step, cut, gaps>>

\* The watchdog, or a shutdown, ends the context of the run.
ContextEnds ==
  /\ step # "idle" /\ ~ cut /\ cut' = TRUE
  /\ UNCHANGED <<setup, file, data, vm, busy, vmRunning, step, gaps>>
-----------------------------------------------------------------------------
(* compactRawDisk *)

\* buildPodmanCompactionPlan, as far as its answer can change.
CanCompact ==
  /\ vmRunning /\ Present("disk") /\ ~ Present("backup")
  /\ setup.needIdle => Up /\ ~ busy
  /\ setup.cross => setup.keep

BeginCompaction ==
  /\ step = "idle" /\ CanCompact
  /\ Go("stop") /\ cut' = FALSE
  /\ UNCHANGED <<setup, file, data, vm, busy, vmRunning, gaps>>

\* Mutant: an error of "podman machine stop" is only logged.
StopMachine_Ignored(ok, stopped) ==
  /\ step = "stop"
  /\ vm' = (IF stopped THEN "off" ELSE vm) /\ busy' = (busy /\ ~ stopped) /\ vmRunning' = FALSE /\ Go("convert")
  /\ UNCHANGED <<setup, file, data, cut, gaps>>

\* A stop that fails ends the compaction; the machine may be down all the same.
StopMachine(ok, stopped) ==
  /\ step = "stop" /\ CommandEnds(ok) /\ (ok \/ ~ Up => stopped)
  /\ stopped => ok \/ ~ Up \/ Faults
  /\ vm' = (IF stopped THEN "off" ELSE vm) /\ busy' = (busy /\ ~ stopped)
  /\ IF ok THEN vmRunning' = FALSE /\ Go("convert") ELSE UNCHANGED vmRunning /\ Go("idle")
  /\ UNCHANGED <<setup, file, data, cut, gaps>>

\* What a conversion makes of an image.
Copied(i, harm) == [i EXCEPT !.good = @ /\ ~ harm]

\* convertPodmanDiskImage: an error removes a destination that was not there before.
\* An image the machine is writing is not copied whole either.
Convert(src, dst, ok, harm) ==
  /\ CommandEnds(ok) /\ (harm => ok /\ (dst \in SilentDamage \/ Up))
  /\ file' = [file EXCEPT ![dst] = IF ok THEN Copied(file[src], harm)
                                   ELSE IF @ = NoImage THEN @ ELSE Torn]

\* The conversion into the scratch copy: a failure drops the copy in any case.
ConvertToTemp(ok, harm) ==
  /\ step = "convert"
  /\ IF ok THEN Convert("disk", "temp", ok, harm) /\ Go("verify")
           ELSE ~ harm /\ CommandEnds(ok) /\ file' = Gone("temp") /\ Go("restart")
  /\ UNCHANGED <<setup, data, vm, busy, vmRunning, cut, gaps>>

\* verifyPodmanDiskImage: qemu-img check, for qcow2 only.
Verified(f) == setup.qcow2 => file[f].good /\ ~ cut

VerifyTemp ==
  /\ step = "verify"
  /\ IF Verified("temp") THEN UNCHANGED file /\ Go(IF setup.cross THEN "backup" ELSE "replace")
                         ELSE file' = Gone("temp") /\ Go("restart")
  /\ UNCHANGED <<setup, data, vm, busy, vmRunning, cut, gaps>>

\* Across devices the backup is a copy nothing verifies, and the disk is removed after it.
ConvertToBackup(ok, harm) ==
  /\ step = "backup"
  /\ IF ok THEN Convert("disk", "backup", ok, harm) /\ Go("remove")
           ELSE ~ harm /\ CommandEnds(ok) /\ file' = Gone("temp") /\ Go("restart")
  /\ gaps' = IF harm THEN gaps \cup {"backup"} ELSE gaps
  /\ UNCHANGED <<setup, data, vm, busy, vmRunning, cut>>

RemoveDisk(ok) ==
  /\ step = "remove" /\ CallEnds(ok)
  /\ IF ok THEN file' = Gone("disk") /\ vm' = Unlinked("disk") /\ Go("write")
           ELSE file' = Gone("temp") /\ UNCHANGED vm /\ Go("restart")
  /\ UNCHANGED <<setup, data, busy, vmRunning, cut, gaps>>

WriteBack(ok, harm) ==
  /\ step = "write"
  /\ Convert("temp", "disk", ok, harm)
  /\ Go(IF ok THEN "check" ELSE "undo")
  /\ UNCHANGED <<setup, data, vm, busy, vmRunning, cut, gaps>>

CheckDisk ==
  /\ step = "check"
  /\ IF Verified("disk") THEN file' = Gone("temp") /\ Go("start") ELSE UNCHANGED file /\ Go("undo")
  /\ UNCHANGED <<setup, data, vm, busy, vmRunning, cut, gaps>>

\* restorePodmanDiskBackupCopy: the disk goes first, then the backup is copied.
RestoreCopy(ok, harm, removed) ==
  /\ CallEnds(removed) /\ (IF removed THEN CommandEnds(ok) ELSE ~ ok)
  /\ harm => ok /\ "disk" \in SilentDamage
  /\ vm' = IF removed THEN Unlinked("disk") ELSE vm
  /\ file' = [file EXCEPT !["temp"] = NoImage,
                !["disk"] = IF ok THEN Copied(file["backup"], harm)
                            ELSE IF removed THEN NoImage ELSE @]

UndoCopy(ok, harm, removed) ==
  /\ step = "undo"
  /\ RestoreCopy(ok, harm, removed) /\ Go("restart")
  /\ UNCHANGED <<setup, data, busy, vmRunning, cut, gaps>>

\* On one device the files are renamed, the disk to its backup first when one is kept.
RenameToBackup(ok) ==
  /\ step = "replace" /\ setup.keep /\ CallEnds(ok)
  /\ IF ok THEN /\ file' = [Gone("disk") EXCEPT !["backup"] = file["disk"]]
                /\ vm' = Renamed("disk", "backup") /\ Go("swap")
           ELSE file' = Gone("temp") /\ UNCHANGED vm /\ Go("restart")
  /\ UNCHANGED <<setup, data, busy, vmRunning, cut, gaps>>

RenameIntoPlace(ok, restored) ==
  /\ step = "swap" \/ (step = "replace" /\ ~ setup.keep)
  /\ CallEnds(ok) /\ CallEnds(restored)
  /\ IF ok THEN /\ file' = [Gone("temp") EXCEPT !["disk"] = file["temp"]]
                /\ vm' = Renamed("temp", "disk") /\ Go("start")
     ELSE /\ IF step = "swap" /\ restored
             THEN /\ file' = [file EXCEPT !["disk"] = file["backup"], !["backup"] = NoImage,
                                          !["temp"] = NoImage]
                  /\ vm' = Renamed("backup", "disk")
             ELSE file' = Gone("temp") /\ UNCHANGED vm
          /\ Go("restart")
  /\ UNCHANGED <<setup, data, busy, vmRunning, cut, gaps>>

\* podman machine start, detached from the context.  It succeeds on a disk that boots,
\* refuses a machine that runs, and a start killed at its deadline may leave it up.
Starts(ok, up) ==
  /\ IF Up THEN ~ ok /\ up
           ELSE (ok => up) /\ (up => file["disk"].good) /\ (ok \/ Faults \/ ~ file["disk"].good)
  /\ vm' = IF up /\ ~ Up THEN "disk" ELSE vm

\* A failure was cleaned up and the machine is started, whatever comes of it.
RestartMachine(ok, up) ==
  /\ step = "restart" /\ Starts(ok, up)
  /\ vmRunning' = TRUE /\ Go("idle")
  /\ UNCHANGED <<setup, file, data, busy, cut, gaps>>

StartMachine(ok, up) ==
  /\ step = "start" /\ Starts(ok, up)
  /\ vmRunning' = (ok \/ ~ setup.keep)
  /\ Go(IF ~ setup.keep THEN "idle" ELSE IF ok THEN "drop" ELSE "rollback")
  /\ gaps' = IF up /\ ~ ok /\ setup.keep THEN gaps \cup {"up"} ELSE gaps
  /\ UNCHANGED <<setup, file, data, busy, cut>>

\* Mutant: the backup is dropped although the restore failed.
Rollback_Tidy(ok, harm, removed) ==
  /\ step = "rollback"
  /\ file' = IF ok THEN [file EXCEPT !["disk"] = file["backup"], !["backup"] = NoImage]
             ELSE Gone("backup")
  /\ Go(IF ok THEN "restart" ELSE "idle")
  /\ UNCHANGED <<setup, data, vm, busy, vmRunning, cut, gaps>>

\* The start failed.  A copy is restored by copying, a renamed backup by renaming it
\* back behind the image that failed; a failure of that ends the compaction.
Rollback(ok, harm, removed) ==
  /\ step = "rollback"
  /\ IF setup.cross THEN RestoreCopy(ok, harm, removed)
     ELSE /\ ~ harm /\ CallEnds(ok) /\ CallEnds(removed)
          /\ \/ /\ ok
                /\ file' = [file EXCEPT !["failed"] = file["disk"], !["disk"] = file["backup"],
                                        !["backup"] = NoImage]
                /\ vm' = IF vm = "backup" THEN "disk" ELSE Renamed("disk", "failed")
             \/ /\ ~ ok /\ removed
                /\ file' = [Gone("disk") EXCEPT !["failed"] = file["disk"]]
                /\ vm' = Renamed("disk", "failed")
             \/ ~ ok /\ ~ removed /\ UNCHANGED <<file, vm>>
  /\ Go(IF ok THEN "restart" ELSE "idle")
  /\ UNCHANGED <<setup, data, busy, vmRunning, cut, gaps>>

DropBackup(ok) ==
  /\ step = "drop" /\ CallEnds(ok)
  /\ IF ok THEN file' = Gone("backup") /\ vm' = Unlinked("backup") ELSE UNCHANGED <<file, vm>>
  /\ Go("idle")
  /\ UNCHANGED <<setup, data, busy, vmRunning, cut, gaps>>

\* The file a step is writing.
Writing == CASE step = "convert" -> "temp" [] step = "backup" -> "backup"
             [] step \in {"write", "undo"} -> "disk" [] OTHER -> "none"

\* The daemon stops, perhaps with a file half written; the next one looks for the machine.
DaemonStops(torn) ==
  /\ Faults /\ step # "idle" /\ (torn => Writing # "none")
  /\ file' = IF torn THEN [file EXCEPT ![Writing] = Torn] ELSE file
  /\ Go("idle") /\ vmRunning' = Up
  /\ UNCHANGED <<setup, data, vm, busy, cut, gaps>>

DaemonRestarts ==
  /\ step = "idle" /\ vmRunning' = Up
  /\ UNCHANGED <<setup, file, data, vm, busy, step, cut, gaps>>

DiskNext ==
  \/ MachineWrites \/ ContainersChange \/ UserStarts \/ MachineEnds \/ ContextEnds
  \/ BeginCompaction
  \/ VerifyTemp \/ CheckDisk
  \/ \E ok, b \in BOOLEAN : StopMachine(ok, b) \/ ConvertToTemp(ok, b) \/ ConvertToBackup(ok, b)
                              \/ WriteBack(ok, b) \/ RenameIntoPlace(ok, b)
                              \/ RestartMachine(ok, b) \/ StartMachine(ok, b)
  \/ \E ok, harm, removed \in BOOLEAN : UndoCopy(ok, harm, removed) \/ Rollback(ok, harm, removed)
  \/ \E ok \in BOOLEAN : RemoveDisk(ok) \/ RenameToBackup(ok) \/ DropBackup(ok)
  \/ \E torn \in BOOLEAN : DaemonStops(torn)
  \/ DaemonRestarts

DiskSpec == DiskInit /\ [][DiskNext]_diskVars
-----------------------------------------------------------------------------
(* Properties. *)

\* "The daemon preserves the original disk image as a .backup file until the
\* compacted image starts successfully" (docs/podman-darwin-compaction.md): with a
\* backup kept, or an image that can be checked, a complete image of the newest
\* data exists at every moment, through failed commands, failed renames, damaged
\* copies and a daemon that stops anywhere.  Excepted are a machine that was up
\* while its disk was replaced (after a start that was killed at its deadline,
\* podman.go:2041, or one by a user), and a copied backup that is damaged in silence:
\* the disk is removed "after rollback backup is verified" (podman.go:1748), and
\* nothing verifies that copy (podman.go:1986).
DataKept ==
  (setup.keep \/ setup.qcow2) /\ gaps = {}
     => \E f \in File \ {"failed"} : file[f].good /\ file[f].ver = data

\* The machine never runs on older data than it last wrote: neither a compacted copy
\* made too early nor a stale backup comes back, as long as the machine was down
\* whenever its disk was replaced.
NoRollback == Up /\ "up" \notin gaps => vm = "disk" /\ file["disk"] = [ver |-> data, good |-> TRUE]

\* restartCommandContext: "It must run even when the plugin's own deadline has already
\* passed, or a compaction cut short would leave the VM down."  When nothing fails
\* but the context ends, the machine is up again after the compaction.
CutShortComesBack == (step = "idle" /\ cut /\ ~ Faults) => Up
=============================================================================
