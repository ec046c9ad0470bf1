----------------------------- MODULE StateFile ----------------------------
(***************************************************************************)
(* The state file on a real file system: loadCleanupState, saveCleanupState*)
(* and quarantineCleanupState of state.go, one action per system call that *)
(* can fail or be the last one before a crash.                             *)
(*                                                                         *)
(* The content of a file is abstracted to the number of saves it accounts  *)
(* for, or Torn if it does not decode.  The process dies (Crash) or the    *)
(* power fails (PowerLoss) between any two calls.  What a loss of power    *)
(* leaves: the directory as it was at some moment since its last sync, and *)
(* of a file that was not synced, anything.                                *)
(***************************************************************************)
EXTENDS Integers, Sequences, FiniteSets

CONSTANTS
  Temps,            \* bound: names of temporary files
  NamesPerSecond,   \* quarantine names that one second has (101 in the code)
  MaxSaves,         \* bound: saves
  MaxCrashes,       \* bound: crashes, losses of power and failed removals
  MaxErrors         \* bound: failed calls, and damage done by others

ASSUME StateFileAssumption ==
  /\ NamesPerSecond \in Nat \ {0} /\ IsFiniteSet(Temps)
  /\ MaxSaves \in Nat /\ MaxCrashes \in Nat /\ MaxErrors \in Nat

Torn == -1

File == [present: BOOLEAN, data: Nat \cup {Torn}, synced: BOOLEAN]
Absent == [present |-> FALSE, data |-> 0, synced |-> TRUE]

VARIABLES
  dir,      \* the directory: the state file, temporary and quarantined files
  old,      \* the directory at earlier moments since its last sync
  pc,       \* the call the process is about to make
  memory,      \* the state in memory: the saves it accounts for
  tmp,      \* the temporary file of the running save
  crashes, errors

fileVars == <<dir, old, pc, memory, tmp, crashes, errors>>

FileInit ==
  /\ dir = [state |-> Absent, temps |-> [t \in Temps |-> Absent], corrupt |-> <<>>]
  /\ old = {}
  /\ pc = "load" /\ memory = 0
  /\ tmp \in Temps
  /\ crashes = 0 /\ errors = 0

\* A directory changes in memory; a loss of power may still undo the change.
DirBecomes(d) == dir' = d /\ old' = old \cup {dir}

\* A directory whose temporary file t is f.
WithTemp(d, t, f) == [d EXCEPT !.temps = [@ EXCEPT ![t] = f]]

Fails == errors < MaxErrors /\ errors' = errors + 1
Works == UNCHANGED errors
-----------------------------------------------------------------------------
(* loadCleanupState *)

\* A missing or an empty file is fresh state; what does not decode is to be
\* quarantined; without a readable file the cycle goes on with no state.
Load ==
  /\ pc = "load"
  /\ \/ /\ Works
        /\ dir.state.data # Torn
        /\ pc' = "loaded" /\ memory' = dir.state.data
     \/ /\ Works
        /\ dir.state.data = Torn
        /\ pc' = "quarantine" /\ UNCHANGED memory
     \/ /\ Fails
        /\ UNCHANGED <<pc, memory>>
  /\ UNCHANGED <<dir, old, tmp, crashes>>

\* Mutant: an undecodable file is an error of the cycle, and stays.
Quarantine_Error ==
  /\ pc = "quarantine"
  /\ pc' = "load"
  /\ UNCHANGED <<dir, old, memory, tmp, crashes, errors>>

(***************************************************************************)
(* quarantineCleanupState takes the first free name of this second.  If    *)
(* there is none, or the rename fails, the load fails.                     *)
(***************************************************************************)
Quarantine ==
  /\ pc = "quarantine"
  /\ \/ /\ Works
        /\ DirBecomes([dir EXCEPT !.state = Absent, !.corrupt = Append(@, dir.state)])
        /\ pc' = "loaded" /\ memory' = 0
     \/ /\ Fails
        /\ pc' = "load" /\ UNCHANGED <<dir, old, memory>>
  /\ UNCHANGED <<tmp, crashes>>

\* The names of the second in which the cycle began are used up.
QuarantineFull ==
  /\ pc = "quarantine" /\ Len(dir.corrupt) >= NamesPerSecond
  /\ Fails
  /\ pc' = "load"
  /\ UNCHANGED <<dir, old, memory, tmp, crashes>>

\* A cycle that has nothing to record does not save.
SkipSave ==
  /\ pc = "loaded"
  /\ pc' = "load"
  /\ UNCHANGED <<dir, old, memory, tmp, crashes, errors>>
-----------------------------------------------------------------------------
(* saveCleanupState *)

CreateTemp(t) ==
  /\ pc = "loaded" /\ memory < MaxSaves
  /\ ~ dir.temps[t].present
  /\ tmp' = t
  /\ \/ /\ Works
        /\ DirBecomes(WithTemp(dir, t, [present |-> TRUE, data |-> 0, synced |-> FALSE]))
        /\ pc' = "write"
     \/ /\ Fails
        /\ pc' = "load" /\ UNCHANGED <<dir, old>>
  /\ UNCHANGED <<memory, crashes>>

\* Mutant: the temporary file of a failed save is left behind.
FailSave_Leaves ==
  /\ Fails
  /\ pc' = "load"
  /\ UNCHANGED <<dir, old, memory, tmp, crashes>>

\* A failed call ends the save; the deferred function removes the temporary
\* file, unless that fails as well.
FailSave ==
  /\ Fails
  /\ pc' = "load"
  /\ \/ DirBecomes(WithTemp(dir, tmp, Absent)) /\ UNCHANGED crashes
     \/ crashes < MaxCrashes /\ crashes' = crashes + 1 /\ UNCHANGED <<dir, old>>
  /\ UNCHANGED <<memory, tmp>>

WriteTemp ==
  /\ pc = "write"
  /\ \/ /\ Works
        /\ dir' = WithTemp(dir, tmp, [dir.temps[tmp] EXCEPT !.data = memory + 1])
        /\ pc' = "sync" /\ UNCHANGED <<old, memory, tmp, crashes>>
     \/ FailSave

\* Mutant: the temporary file is not synced.
SyncTemp_Not ==
  /\ pc = "sync"
  /\ pc' = "rename"
  /\ UNCHANGED <<dir, old, memory, tmp, crashes, errors>>

SyncTemp ==
  /\ pc = "sync"
  /\ \/ /\ Works
        /\ dir' = WithTemp(dir, tmp, [dir.temps[tmp] EXCEPT !.synced = TRUE])
        /\ pc' = "rename" /\ UNCHANGED <<old, memory, tmp, crashes>>
     \/ FailSave

\* Chmod, Close and Rename.
RenameTemp ==
  /\ pc = "rename"
  /\ \/ /\ Works
        /\ DirBecomes([WithTemp(dir, tmp, Absent) EXCEPT !.state = dir.temps[tmp]])
        /\ pc' = "syncdir" /\ UNCHANGED <<memory, tmp, crashes>>
     \/ FailSave

\* Best effort: the save has succeeded either way.
syncDir ==
  /\ pc = "syncdir"
  /\ pc' = "load"
  /\ old' = {} \/ UNCHANGED old
  /\ UNCHANGED <<dir, memory, tmp, crashes, errors>>
-----------------------------------------------------------------------------
(* What happens to the process and to the file. *)

Crash ==
  /\ crashes < MaxCrashes /\ crashes' = crashes + 1
  /\ pc # "load" /\ pc' = "load"
  /\ UNCHANGED <<dir, old, memory, tmp, errors>>

\* What is left of a file: all of it if it was synced, else any part.
Remains(f) ==
  IF f.synced THEN {f} ELSE {[f EXCEPT !.data = n, !.synced = TRUE] : n \in {0, Torn, f.data}}

PowerLoss ==
  /\ crashes < MaxCrashes /\ crashes' = crashes + 1
  /\ \E d \in old \cup {dir} :
       \E s \in Remains(d.state), f \in [Temps -> UNION {Remains(d.temps[t]) : t \in Temps}] :
         /\ \A t \in Temps : f[t] \in Remains(d.temps[t])
         /\ dir' = [d EXCEPT !.state = s, !.temps = f]
  /\ old' = {}
  /\ pc' = "load"
  /\ UNCHANGED <<memory, tmp, errors>>

\* Another program, or a failing disk, damages the file for good.
Damage ==
  /\ Fails
  /\ dir' = [dir EXCEPT !.state = [present |-> TRUE, data |-> Torn, synced |-> TRUE]]
  /\ old' = {}
  /\ UNCHANGED <<pc, memory, tmp, crashes>>

Step ==
  \/ Load
  \/ Quarantine
  \/ QuarantineFull
  \/ SkipSave
  \/ \E t \in Temps : CreateTemp(t)
  \/ WriteTemp
  \/ SyncTemp
  \/ RenameTemp
  \/ syncDir

FileNext == Step \/ Crash \/ PowerLoss \/ Damage

FileSpec == FileInit /\ [][FileNext]_fileVars

\* The process keeps running its cycles.
FileFairSpec == FileSpec /\ WF_fileVars(Step)
-----------------------------------------------------------------------------
(* Properties. *)

Directory == [state: File, temps: [Temps -> File], corrupt: Seq(File)]

\* The values of the directory, past and present, and of the process.
FileTypeOK ==
  /\ dir \in Directory /\ old \subseteq Directory
  /\ pc \in {"load", "quarantine", "loaded", "write", "sync", "rename", "syncdir"}
  /\ memory \in Nat /\ tmp \in Temps
  /\ crashes \in Nat /\ errors \in Nat

\* The inductive invariant behind Refines: whatever directory a loss of power
\* brings back has a synced state file, and what is about to be saved is whole
\* and adds one save to the file that it replaces.
FileInv ==
  /\ FileTypeOK
  /\ \A d \in old \cup {dir} : d.state.synced
  /\ pc \in {"sync", "rename"} => dir.temps[tmp].data = memory + 1
  /\ pc = "rename" => dir.temps[tmp].synced
  /\ pc \in {"loaded", "write", "sync", "rename"} => dir.state.data \in {Torn, memory}
  /\ pc = "quarantine" => dir.state.data = Torn

Saving == pc \in {"write", "sync", "rename"}

\* saveCleanupState removes its temporary file on every error path: one is left
\* behind only by a crash, a loss of power or a removal that failed.
LitterBounded ==
  Cardinality({t \in Temps : dir.temps[t].present /\ ~ (Saving /\ t = tmp)}) <= crashes

\* "One bad write cannot disable cooldown and backoff accounting for every later
\* cycle" (loadCleanupState): a damaged file does not stay the state file.
Recovers == (dir.state.data = Torn) ~> (dir.state.data # Torn)

\* "A crash or restart mid-write leaves either the old state or the new one,
\* never a truncated file" (saveCleanupState): the file is an atomic register.
Register == INSTANCE StateRegister
              WITH value <- dir.state.data,
                   undo <- {d.state.data : d \in old \cup {dir}}

Refines == Register!Spec
=============================================================================
