---------------------------- MODULE Daemon_proof ----------------------------
(***************************************************************************)
(* The parts around the daemon's cycle: the state file is an atomic        *)
(* register and leaves no litter, the level of a mount follows its usage,  *)
(* the throttled log is truthful, and Nix collections keep their distance. *)
(***************************************************************************)
EXTENDS StateFile, MountLevels, LogThrottle, NixGC, FiniteSetTheorems, TLAPS
-----------------------------------------------------------------------------
(* The state file implements an atomic register, for any number of saves,  *)
(* crashes, losses of power and failed calls (StateFile).                  *)

\* What a reader finds, and what it may find after a loss of power.
Value == dir.state.data
Undo == {d.state.data : d \in old \cup {dir}}

\* The absent file is a file.
LEMMA AbsentFile == Absent \in File
BY DEF Absent, File

\* The fields of a directory have their types.
LEMMA DirectoryFields ==
  ASSUME NEW d \in Directory
  PROVE  d.state \in File /\ d.temps \in [Temps -> File] /\ d.corrupt \in Seq(File)
BY DEF Directory

\* Putting a temporary file into a directory gives a directory.
LEMMA TempUpdate ==
  ASSUME NEW d \in Directory, NEW f \in File, NEW t \in Temps
  PROVE  /\ WithTemp(d, t, f) \in Directory
         /\ WithTemp(d, t, f).state = d.state
         /\ WithTemp(d, t, f).temps[t] = f
BY DEF Directory, WithTemp

\* Putting a state file into a directory gives a directory.
LEMMA StateUpdate ==
  ASSUME NEW d \in Directory, NEW f \in File
  PROVE  /\ [d EXCEPT !.state = f] \in Directory
         /\ [d EXCEPT !.state = f].state = f
         /\ [d EXCEPT !.state = f].temps = d.temps
BY DEF Directory

\* The initial state.
LEMMA FileInvInit == FileInit => FileInv
<1> SUFFICES ASSUME FileInit PROVE FileInv
    OBVIOUS
<1>1. dir \in Directory
    BY AbsentFile DEF FileInit, Directory
<1>2. dir.state = Absent /\ Absent.synced
    BY DEF FileInit, Absent
<1> QED
    BY <1>1, <1>2 DEF FileInit, FileInv, FileTypeOK

\* A step that leaves the state file alone keeps the register's value.
LEMMA StateKept ==
  ASSUME FileInv, dir' \in Directory, dir'.state = dir.state, old' = old \/ old' = old \cup {dir}
  PROVE  /\ old' \subseteq Directory
         /\ \A d \in old' \cup {dir'} : d.state.synced
         /\ Value' = Value /\ Undo' = Undo
<1>1. dir \in Directory /\ old \subseteq Directory /\ \A d \in old \cup {dir} : d.state.synced
    BY DEF FileInv, FileTypeOK
<1>2. Undo' = Undo
    BY DEF Undo
<1> QED
    BY <1>1, <1>2 DEF Value

\* A failed save leaves the state file alone.
LEMMA FailedSave ==
  ASSUME FileInv, FailSave
  PROVE  FileInv' /\ Value' = Value /\ Undo' = Undo
<1>1. dir \in Directory /\ tmp \in Temps
    BY DEF FileInv, FileTypeOK
<1>2. dir' \in Directory /\ dir'.state = dir.state /\ (old' = old \/ old' = old \cup {dir})
    BY <1>1, TempUpdate, AbsentFile DEF FailSave, DirBecomes
<1>3. /\ old' \subseteq Directory
      /\ \A d \in old' \cup {dir'} : d.state.synced
      /\ Value' = Value /\ Undo' = Undo
    BY <1>2, StateKept
<1>4. crashes' \in Nat /\ errors' \in Nat /\ pc' = "load" /\ memory' = memory /\ tmp' = tmp
    BY DEF FailSave, Fails, FileInv, FileTypeOK
<1> QED
    BY <1>2, <1>3, <1>4 DEF FileInv, FileTypeOK

\* Every step keeps the invariant, and is a step of the register or none.
LEMMA FileStep ==
  ASSUME FileInv, [FileNext]_fileVars
  PROVE  FileInv' /\ [Register!Next]_<<Value, Undo>>
<1>0. /\ FileTypeOK /\ dir \in Directory /\ tmp \in Temps /\ memory \in Nat
      /\ dir.state \in File /\ dir.temps \in [Temps -> File] /\ dir.corrupt \in Seq(File)
      /\ \A d \in old \cup {dir} : d \in Directory /\ d.state.synced
    BY DirectoryFields DEF FileInv, FileTypeOK
<1>1. CASE UNCHANGED fileVars
  <2>1. Value' = Value /\ Undo' = Undo
      BY <1>1 DEF fileVars, Value, Undo
  <2> QED
      BY <1>1, <2>1 DEF fileVars, FileInv, FileTypeOK
<1>2. CASE Load
  <2>1. Value' = Value /\ Undo' = Undo
      BY <1>2 DEF Load, Value, Undo
  <2>2. dir.state.data \in Nat \cup {Torn}
      BY <1>0 DEF File
  <2>3. errors' \in Nat
      BY <1>0, <1>2 DEF Load, Works, Fails, FileTypeOK
  <2>4. memory' \in Nat /\ pc' \in {"load", "loaded", "quarantine"}
        /\ (pc' = "loaded" => dir.state.data = memory') /\ (pc' = "quarantine" => dir.state.data = Torn)
      BY <1>0, <1>2, <2>2 DEF Load
  <2>5. FileInv'
      BY <1>0, <1>2, <2>3, <2>4 DEF Load, FileInv, FileTypeOK
  <2> QED
      BY <2>1, <2>5
<1>3. CASE Quarantine
  <2>1. CASE pc' = "load" /\ UNCHANGED <<dir, old, memory>> /\ Fails
    <3>1. Value' = Value /\ Undo' = Undo
        BY <2>1 DEF Value, Undo
    <3>2. FileInv'
        BY <1>0, <1>3, <2>1 DEF Quarantine, Fails, FileInv, FileTypeOK
    <3> QED
        BY <3>1, <3>2
  <2>2. CASE /\ Works /\ pc' = "loaded" /\ memory' = 0
             /\ DirBecomes([dir EXCEPT !.state = Absent, !.corrupt = Append(@, dir.state)])
    <3>0. Append(dir.corrupt, dir.state) \in Seq(File)
        BY <1>0
    <3>1. dir' \in Directory /\ dir'.state = Absent
        BY <1>0, <2>2, <3>0, AbsentFile DEF DirBecomes, Directory
    <3>2. Absent.data = 0 /\ Absent.synced
        BY DEF Absent
    <3>3. old' = old \cup {dir}
        BY <2>2 DEF DirBecomes
    <3>4. FileInv'
        BY <1>0, <1>3, <2>2, <3>1, <3>2, <3>3 DEF Quarantine, Works, FileInv, FileTypeOK
    <3>5. Value = Torn /\ Value' = 0
        BY <1>3, <3>1, <3>2 DEF Quarantine, FileInv, Value
    <3>6. Undo' = Undo \cup {0}
        BY <3>1, <3>2, <3>3 DEF Undo
    <3>7. Register!Quarantine
        BY <3>5, <3>6 DEF Register!Quarantine, Register!Torn, Torn, Value, Undo
    <3> QED
        BY <3>4, <3>7 DEF Register!Next
  <2> QED
      BY <1>3, <2>1, <2>2 DEF Quarantine
<1>4. CASE QuarantineFull \/ SkipSave \/ Crash
  <2>1. Value' = Value /\ Undo' = Undo
      BY <1>4 DEF QuarantineFull, SkipSave, Crash, Value, Undo
  <2>2. FileInv'
      BY <1>0, <1>4 DEF QuarantineFull, SkipSave, Crash, Fails, FileInv, FileTypeOK
  <2> QED
      BY <2>1, <2>2
<1>5. ASSUME NEW t \in Temps, CreateTemp(t) PROVE FileInv' /\ [Register!Next]_<<Value, Undo>>
  <2> DEFINE f == [present |-> TRUE, data |-> 0, synced |-> FALSE]
  <2>0. f \in File
      BY DEF File
  <2> HIDE DEF f
  <2>1. dir' \in Directory /\ dir'.state = dir.state /\ (old' = old \/ old' = old \cup {dir})
      BY <1>0, <1>5, <2>0, TempUpdate, SMTT(30) DEF CreateTemp, DirBecomes, f
  <2>2. /\ old' \subseteq Directory
        /\ \A d \in old' \cup {dir'} : d.state.synced
        /\ Value' = Value /\ Undo' = Undo
      BY <2>1, StateKept
  <2>3. FileInv'
      BY <1>0, <1>5, <2>1, <2>2 DEF CreateTemp, Works, Fails, FileInv, FileTypeOK
  <2> QED
      BY <2>2, <2>3
<1>6. CASE WriteTemp
  <2>1. CASE FailSave
      BY <2>1, FailedSave
  <2>2. CASE /\ Works /\ pc' = "sync" /\ dir' = WithTemp(dir, tmp, [dir.temps[tmp] EXCEPT !.data = memory + 1])
             /\ UNCHANGED <<old, memory, tmp, crashes>>
    <3> DEFINE f == [dir.temps[tmp] EXCEPT !.data = memory + 1]
    <3>1. f \in File /\ f.data = memory + 1
        BY <1>0 DEF File
    <3>2. dir' = WithTemp(dir, tmp, f)
        BY <2>2
    <3> HIDE DEF f
    <3>3. dir' \in Directory /\ dir'.state = dir.state /\ dir'.temps[tmp] = f
        BY <1>0, <3>1, <3>2, TempUpdate
    <3>4. /\ old' \subseteq Directory
          /\ \A d \in old' \cup {dir'} : d.state.synced
          /\ Value' = Value /\ Undo' = Undo
        BY <2>2, <3>3, StateKept
    <3>5. FileInv'
        BY <1>0, <1>6, <2>2, <3>1, <3>3, <3>4 DEF WriteTemp, Works, FileInv, FileTypeOK
    <3> QED
        BY <3>4, <3>5
  <2> QED
      BY <1>6, <2>1, <2>2 DEF WriteTemp
<1>7. CASE SyncTemp
  <2>1. CASE FailSave
      BY <2>1, FailedSave
  <2>2. CASE /\ Works /\ pc' = "rename" /\ dir' = WithTemp(dir, tmp, [dir.temps[tmp] EXCEPT !.synced = TRUE])
             /\ UNCHANGED <<old, memory, tmp, crashes>>
    <3> DEFINE f == [dir.temps[tmp] EXCEPT !.synced = TRUE]
    <3>1. f \in File /\ f.data = dir.temps[tmp].data /\ f.synced
        BY <1>0 DEF File
    <3>2. dir' = WithTemp(dir, tmp, f)
        BY <2>2
    <3> HIDE DEF f
    <3>3. dir' \in Directory /\ dir'.state = dir.state /\ dir'.temps[tmp] = f
        BY <1>0, <3>1, <3>2, TempUpdate
    <3>4. /\ old' \subseteq Directory
          /\ \A d \in old' \cup {dir'} : d.state.synced
          /\ Value' = Value /\ Undo' = Undo
        BY <2>2, <3>3, StateKept
    <3>5. FileInv'
        BY <1>0, <1>7, <2>2, <3>1, <3>3, <3>4 DEF SyncTemp, Works, FileInv, FileTypeOK
    <3> QED
        BY <3>4, <3>5
  <2> QED
      BY <1>7, <2>1, <2>2 DEF SyncTemp
<1>8. CASE RenameTemp
  <2>1. CASE FailSave
      BY <2>1, FailedSave
  <2>2. CASE /\ Works /\ pc' = "syncdir" /\ UNCHANGED <<memory, tmp, crashes>>
             /\ DirBecomes([WithTemp(dir, tmp, Absent) EXCEPT !.state = dir.temps[tmp]])
    <3>1. /\ dir.temps[tmp] \in File /\ dir.temps[tmp].synced /\ dir.temps[tmp].data = memory + 1
          /\ dir.state.data \in {Torn, memory}
        BY <1>0, <1>8 DEF RenameTemp, FileInv
    <3>2. dir' \in Directory /\ dir'.state = dir.temps[tmp]
      <4>1. WithTemp(dir, tmp, Absent) \in Directory
          BY <1>0, AbsentFile, TempUpdate
      <4> QED
          BY <1>0, <2>2, <3>1, <4>1, StateUpdate DEF DirBecomes
    <3>3. old' = old \cup {dir}
        BY <2>2 DEF DirBecomes
    <3>4. FileInv'
        BY <1>0, <2>2, <3>1, <3>2, <3>3 DEF Works, FileInv, FileTypeOK
    <3>5. Value' = memory + 1 /\ Value \in {Torn, memory}
        BY <3>1, <3>2 DEF Value
    <3>6. Undo' = Undo \cup {Value'}
        BY <3>3 DEF Undo, Value
    <3>7. Register!Save
      <4>1. Value' \in Nat \ {0} /\ (Value # -1 => Value' = Value + 1)
          BY <1>0, <3>5 DEF Torn
      <4> QED
          BY <3>6, <4>1 DEF Register!Save, Register!Torn, Value, Undo
    <3> QED
        BY <3>4, <3>7 DEF Register!Next
  <2> QED
      BY <1>8, <2>1, <2>2 DEF RenameTemp
<1>9. CASE syncDir
  <2>1. Value' = Value
      BY <1>9 DEF syncDir, Value
  <2>2. FileInv'
      BY <1>0, <1>9 DEF syncDir, FileInv, FileTypeOK
  <2>3. CASE old' = {}
    <3>1. Undo' = {Value}
        BY <1>9, <2>3 DEF syncDir, Undo, Value
    <3>2. Register!Settle
        BY <2>1, <3>1 DEF Register!Settle, Value, Undo
    <3> QED
        BY <2>2, <3>2 DEF Register!Next
  <2>4. CASE old' = old
    <3>1. Undo' = Undo
        BY <1>9, <2>4 DEF syncDir, Undo
    <3> QED
        BY <2>1, <2>2, <3>1
  <2> QED
      BY <1>9, <2>3, <2>4 DEF syncDir
<1>10. CASE PowerLoss
  <2>0. PICK d \in old \cup {dir} :
          \E s \in Remains(d.state), f \in [Temps -> UNION {Remains(d.temps[t]) : t \in Temps}] :
            /\ \A t \in Temps : f[t] \in Remains(d.temps[t])
            /\ dir' = [d EXCEPT !.state = s, !.temps = f]
      BY <1>10 DEF PowerLoss
  <2>1. PICK x \in Remains(d.state),
             f \in [Temps -> UNION {Remains(d.temps[t]) : t \in Temps}] :
               /\ \A t \in Temps : f[t] \in Remains(d.temps[t])
               /\ dir' = [d EXCEPT !.state = x, !.temps = f]
      BY <2>0
  <2>2. d \in Directory /\ d.state.synced
      BY <1>0
  <2>3. x = d.state
      BY <2>1, <2>2 DEF Remains
  <2>4. \A t \in Temps : f[t] \in File
    <3> TAKE t \in Temps
    <3>1. d.temps[t] \in File /\ f[t] \in Remains(d.temps[t])
        BY <2>1, <2>2, DirectoryFields
    <3>2. CASE d.temps[t].synced
        BY <3>1, <3>2 DEF Remains
    <3>3. CASE ~ d.temps[t].synced
      <4>1. PICK n \in {0, Torn, d.temps[t].data} :
              f[t] = [d.temps[t] EXCEPT !.data = n, !.synced = TRUE]
          BY <3>1, <3>3 DEF Remains
      <4>2. n \in Nat \cup {Torn}
          BY <3>1 DEF File
      <4> QED
          BY <3>1, <4>1, <4>2 DEF File
    <3> QED
        BY <3>2, <3>3
  <2>5. f \in [Temps -> File]
      BY <2>1, <2>4
  <2>6. dir' \in Directory /\ dir'.state = d.state
      BY <2>1, <2>2, <2>3, <2>5 DEF Directory
  <2>7. FileInv'
      BY <1>0, <1>10, <2>2, <2>6 DEF PowerLoss, FileInv, FileTypeOK
  <2>8. Value' \in Undo /\ Undo' = {Value'}
      BY <1>10, <2>6 DEF PowerLoss, Value, Undo
  <2>9. Register!PowerLoss
      BY <2>8 DEF Register!PowerLoss, Value, Undo
  <2> QED
      BY <2>7, <2>9 DEF Register!Next
<1>11. CASE Damage
  <2> DEFINE f == [present |-> TRUE, data |-> Torn, synced |-> TRUE]
  <2>1. f \in File /\ f.data = Torn /\ f.synced
      BY DEF File
  <2>2. dir' = [dir EXCEPT !.state = f]
      BY <1>11 DEF Damage
  <2> HIDE DEF f
  <2>3. dir' \in Directory /\ dir'.state = f /\ dir'.temps = dir.temps
      BY <1>0, <2>1, <2>2, StateUpdate
  <2>4. FileInv'
      BY <1>0, <1>11, <2>1, <2>3 DEF Damage, Fails, FileInv, FileTypeOK
  <2>5. Value' = Torn /\ Undo' = {Torn}
      BY <1>11, <2>1, <2>3 DEF Damage, Value, Undo
  <2>6. Register!Damage
      BY <2>5 DEF Register!Damage, Register!Torn, Torn, Value, Undo
  <2> QED
      BY <2>4, <2>6 DEF Register!Next
<1> QED
    BY <1>1, <1>2, <1>3, <1>4, <1>5, <1>6, <1>7, <1>8, <1>9, <1>10, <1>11 DEF FileNext, Step

\* Whatever crashes, losses of power and failed calls come, a state file that a
\* loss of power may bring back is whole (saveCleanupState).
THEOREM FileInvariant == FileSpec => []FileInv
<1>1. FileInv /\ [FileNext]_fileVars => FileInv'
    BY FileStep
<1> QED
    BY <1>1, FileInvInit, PTL DEF FileSpec

\* The state file implements an atomic register: a crash or a loss of power at
\* any call leaves the old state or the new one (loadCleanupState,
\* saveCleanupState, quarantineCleanupState).
THEOREM StateFileIsRegister == FileSpec => Refines
<1>1. FileInit => Register!Init
    BY DEF FileInit, Register!Init, Absent
<1>2. FileInv /\ [FileNext]_fileVars => [Register!Next]_<<dir.state.data, {d.state.data : d \in old \cup {dir}}>>
    BY FileStep DEF Value, Undo
<1> QED
    BY <1>1, <1>2, FileInvariant, PTL DEF FileSpec, Refines, Register!Spec

\* Temporary files in a directory, and those of them that no save is about to remove.
Litter(d) == {t \in Temps : d.temps[t].present}
Loose == {t \in Temps : dir.temps[t].present /\ ~ (Saving /\ t = tmp)}

\* A loss of power may bring back a directory with one more than crashes have left.
LitterInv ==
  /\ Cardinality(Loose) <= crashes
  /\ \A d \in old : Cardinality(Litter(d)) <= crashes + 1

\* Cardinalities of sets of temporary files.
LEMMA TempsFinite ==
  /\ \A S \in SUBSET Temps : IsFiniteSet(S) /\ Cardinality(S) \in Nat
  /\ \A S \in SUBSET Temps, T \in SUBSET Temps : S \subseteq T => Cardinality(S) <= Cardinality(T)
  /\ \A S \in SUBSET Temps, T \in SUBSET Temps, t \in Temps :
       S \subseteq T \cup {t} => Cardinality(S) <= Cardinality(T) + 1
<1>1. \A S \in SUBSET Temps : IsFiniteSet(S) /\ Cardinality(S) \in Nat
  BY StateFileAssumption, FS_Subset, FS_CardinalityType
<1>2. ASSUME NEW S \in SUBSET Temps, NEW T \in SUBSET Temps, S \subseteq T
      PROVE  Cardinality(S) <= Cardinality(T)
  BY <1>1, <1>2, FS_Subset
<1>3. ASSUME NEW S \in SUBSET Temps, NEW T \in SUBSET Temps, NEW t \in Temps, S \subseteq T \cup {t}
      PROVE  Cardinality(S) <= Cardinality(T) + 1
  <2>1. T \cup {t} \in SUBSET Temps
    OBVIOUS
  <2>2. Cardinality(S) <= Cardinality(T \cup {t})
    BY <1>2, <1>3, <2>1
  <2>3. Cardinality(T \cup {t}) <= Cardinality(T) + 1
    BY <1>1, FS_AddElement
  <2>. QED  BY <1>1, <2>1, <2>2, <2>3
<1>. QED  BY <1>1, <1>2, <1>3

\* Every directory a loss of power may bring back has one loose file more, at most.
LEMMA LitterOfPast ==
  ASSUME FileInv, LitterInv
  PROVE  \A d \in old \cup {dir} : Litter(d) \in SUBSET Temps /\ Cardinality(Litter(d)) <= crashes + 1
<1>1. Loose \in SUBSET Temps /\ Litter(dir) \in SUBSET Temps /\ Litter(dir) \subseteq Loose \cup {tmp}
  BY DEF Loose, Litter
<1>2. tmp \in Temps /\ crashes \in Nat
  BY DEF FileInv, FileTypeOK
<1>3. Cardinality(Litter(dir)) <= Cardinality(Loose) + 1 /\ Cardinality(Litter(dir)) \in Nat /\ Cardinality(Loose) \in Nat
  BY <1>1, <1>2, TempsFinite
<1>4. Cardinality(Litter(dir)) <= crashes + 1
  BY <1>2, <1>3 DEF LitterInv
<1>5. \A d : Litter(d) \in SUBSET Temps
  BY DEF Litter
<1>. QED  BY <1>4, <1>5 DEF LitterInv

\* A step that leaves no file behind.
LEMMA NothingLeft ==
  ASSUME FileInv, LitterInv, Loose' \subseteq Loose, crashes' = crashes, old' \subseteq old \cup {dir}
  PROVE  LitterInv'
<1>1. Loose \in SUBSET Temps /\ Loose' \in SUBSET Temps
  BY DEF Loose
<1>2. Cardinality(Loose') <= Cardinality(Loose) /\ Cardinality(Loose) \in Nat /\ Cardinality(Loose') \in Nat
  BY <1>1, TempsFinite
<1>3. crashes \in Nat
  BY DEF FileInv, FileTypeOK
<1>. QED  BY <1>2, <1>3, LitterOfPast DEF LitterInv, Litter

\* A crash, a loss of power or a removal that fails leaves what some directory holds.
LEMMA OneLeft ==
  ASSUME FileInv, LitterInv, NEW d \in old \cup {dir}, Loose' \subseteq Litter(d),
         crashes' = crashes + 1, old' \subseteq old \cup {dir}
  PROVE  LitterInv'
<1>1. Litter(d) \in SUBSET Temps /\ Cardinality(Litter(d)) <= crashes + 1
  BY LitterOfPast
<1>2. Cardinality(Loose') <= Cardinality(Litter(d)) /\ Cardinality(Litter(d)) \in Nat /\ Cardinality(Loose') \in Nat
  <2>1. Loose' \in SUBSET Temps
    BY DEF Loose
  <2>. QED  BY <1>1, <2>1, TempsFinite
<1>3. crashes \in Nat
  BY DEF FileInv, FileTypeOK
<1>4. \A e \in old \cup {dir} : Cardinality(Litter(e)) \in Nat /\ Cardinality(Litter(e)) <= crashes + 1
  BY LitterOfPast, TempsFinite
<1>5. \A e \in old' : Cardinality(Litter(e)) <= crashes' + 1
  BY <1>3, <1>4
<1>. QED  BY <1>1, <1>2, <1>3, <1>5 DEF LitterInv, Litter

\* A failed save removes its temporary file, or the removal fails.
LEMMA FailSaveLitter == ASSUME FileInv, LitterInv, Saving, FailSave PROVE LitterInv'
<1>0. dir \in Directory /\ tmp \in Temps /\ ~ Absent.present
  BY DEF FileInv, FileTypeOK, Absent
<1>1. ~ Saving' /\ UNCHANGED tmp
  BY DEF FailSave, Saving
<1>2. CASE DirBecomes(WithTemp(dir, tmp, Absent)) /\ UNCHANGED crashes
  <2>1. dir' = WithTemp(dir, tmp, Absent) /\ old' = old \cup {dir}
    BY <1>2 DEF DirBecomes
  <2>2. dir'.temps = [dir.temps EXCEPT ![tmp] = Absent] /\ dir.temps \in [Temps -> File]
    BY <1>0, <2>1 DEF WithTemp, Directory
  <2>3. Loose' \subseteq Loose
    BY <1>0, <1>1, <2>2 DEF Loose
  <2>. QED  BY <1>2, <2>1, <2>3, NothingLeft
<1>3. CASE crashes' = crashes + 1 /\ UNCHANGED <<dir, old>>
  <2>1. Loose' \subseteq Litter(dir)
    BY <1>3 DEF Loose, Litter
  <2>. QED  BY <1>3, <2>1, OneLeft
<1>. QED  BY <1>2, <1>3 DEF FailSave

LEMMA LitterStep == ASSUME FileInv, LitterInv, [FileNext]_fileVars PROVE LitterInv'
<1>0. dir \in Directory /\ dir.temps \in [Temps -> File] /\ tmp \in Temps /\ ~ Absent.present
  BY DirectoryFields DEF FileInv, FileTypeOK, Absent
<1>1. CASE UNCHANGED fileVars \/ Load \/ QuarantineFull \/ SkipSave \/ syncDir
  <2>1. UNCHANGED <<dir, tmp, crashes>> /\ old' \subseteq old
    BY <1>1 DEF fileVars, Load, QuarantineFull, SkipSave, syncDir
  <2>2. Saving' <=> Saving
    BY <1>1 DEF fileVars, Load, QuarantineFull, SkipSave, syncDir, Saving
  <2>3. Loose' \subseteq Loose
    BY <2>1, <2>2 DEF Loose
  <2>. QED  BY <2>1, <2>3, NothingLeft
<1>2. CASE Quarantine
  <2>1. UNCHANGED <<tmp, crashes>> /\ old' \subseteq old \cup {dir} /\ ~ Saving /\ ~ Saving'
    BY <1>2 DEF Quarantine, DirBecomes, Saving
  <2>2. dir'.temps = dir.temps
    BY <1>0, <1>2 DEF Quarantine, DirBecomes, Directory
  <2>. QED  BY <2>1, <2>2, NothingLeft DEF Loose
<1>3. ASSUME NEW t \in Temps, CreateTemp(t) PROVE LitterInv'
  <2>1. UNCHANGED crashes /\ tmp' = t /\ old' \subseteq old \cup {dir} /\ ~ Saving
    BY <1>3 DEF CreateTemp, DirBecomes, Saving
  <2>2. CASE UNCHANGED dir
    BY <2>1, <2>2, NothingLeft DEF Loose
  <2>3. CASE pc' = "write" /\ DirBecomes(WithTemp(dir, t, [present |-> TRUE, data |-> 0, synced |-> FALSE]))
    <3> DEFINE f == [present |-> TRUE, data |-> 0, synced |-> FALSE]
    <3>1. dir'.temps = [dir.temps EXCEPT ![t] = f]
      BY <1>0, <2>3 DEF DirBecomes, WithTemp, Directory
    <3>2. Saving'
      BY <2>3 DEF Saving
    <3> HIDE DEF f
    <3>3. Loose' \subseteq Loose
      BY <1>0, <2>1, <3>1, <3>2 DEF Loose
    <3>. QED  BY <2>1, <3>3, NothingLeft
  <2>. QED  BY <1>3, <2>2, <2>3 DEF CreateTemp
<1>4. CASE WriteTemp \/ SyncTemp
  <2>1. Saving
    BY <1>4 DEF WriteTemp, SyncTemp, Saving
  <2>2. CASE FailSave
    BY <2>1, <2>2, FailSaveLitter
  <2>3. CASE ~ FailSave
    <3>1. UNCHANGED <<old, tmp, crashes>> /\ Saving'
      BY <1>4, <2>3 DEF WriteTemp, SyncTemp, Saving
    <3>2. PICK f : dir' = WithTemp(dir, tmp, f)
      BY <1>4, <2>3 DEF WriteTemp, SyncTemp
    <3>3. dir'.temps = [dir.temps EXCEPT ![tmp] = f]
      BY <1>0, <3>2 DEF WithTemp, Directory
    <3>4. Loose' \subseteq Loose
      BY <1>0, <2>1, <3>1, <3>3 DEF Loose
    <3>. QED  BY <3>1, <3>4, NothingLeft
  <2>. QED  BY <2>2, <2>3
<1>5. CASE RenameTemp
  <2>1. Saving
    BY <1>5 DEF RenameTemp, Saving
  <2>2. CASE FailSave
    BY <2>1, <2>2, FailSaveLitter
  <2>3. CASE ~ FailSave
    <3>1. UNCHANGED <<tmp, crashes>> /\ old' = old \cup {dir} /\ ~ Saving'
      BY <1>5, <2>3 DEF RenameTemp, Saving, DirBecomes
    <3>2. dir' = [WithTemp(dir, tmp, Absent) EXCEPT !.state = dir.temps[tmp]]
      BY <1>5, <2>3 DEF RenameTemp, DirBecomes
    <3>3. dir'.temps = [dir.temps EXCEPT ![tmp] = Absent]
      BY <1>0, <3>2 DEF WithTemp, Directory
    <3>4. Loose' \subseteq Loose
      BY <1>0, <3>1, <3>3 DEF Loose
    <3>. QED  BY <3>1, <3>4, NothingLeft
  <2>. QED  BY <2>2, <2>3
<1>6. CASE Crash
  <2>1. UNCHANGED <<dir, old, tmp>> /\ crashes' = crashes + 1
    BY <1>6 DEF Crash
  <2>2. Loose' \subseteq Litter(dir)
    BY <2>1 DEF Loose, Litter
  <2>. QED  BY <2>1, <2>2, OneLeft
<1>7. CASE PowerLoss
  <2>1. PICK d \in old \cup {dir} :
          \E s \in Remains(d.state), f \in [Temps -> UNION {Remains(d.temps[t]) : t \in Temps}] :
            /\ \A t \in Temps : f[t] \in Remains(d.temps[t])
            /\ dir' = [d EXCEPT !.state = s, !.temps = f]
    BY <1>7 DEF PowerLoss
  <2>2. PICK s \in Remains(d.state), f \in [Temps -> UNION {Remains(d.temps[t]) : t \in Temps}] :
          /\ \A t \in Temps : f[t] \in Remains(d.temps[t])
          /\ dir' = [d EXCEPT !.state = s, !.temps = f]
    BY <2>1
  <2>3. d \in Directory /\ dir'.temps = f
    BY <1>0, <2>2 DEF FileInv, FileTypeOK, Directory
  <2>4. ASSUME NEW t \in Temps, f[t].present PROVE d.temps[t].present
    <3>1. d.temps[t] \in File /\ f[t] \in Remains(d.temps[t])
      BY <2>2, <2>3, DirectoryFields
    <3>. QED  BY <2>4, <3>1 DEF Remains, File
  <2>5. Loose' \subseteq Litter(d)
    BY <2>3, <2>4 DEF Loose, Litter
  <2>6. crashes' = crashes + 1 /\ old' = {}
    BY <1>7 DEF PowerLoss
  <2>. QED  BY <2>5, <2>6, OneLeft
<1>8. CASE Damage
  <2>1. UNCHANGED <<pc, tmp, crashes>> /\ old' = {} /\ dir'.temps = dir.temps
    BY <1>0, <1>8 DEF Damage, Directory
  <2>. QED  BY <2>1, NothingLeft DEF Loose, Saving
<1>. QED
  BY <1>1, <1>2, <1>3, <1>4, <1>5, <1>6, <1>7, <1>8 DEF FileNext, Step

\* For any number of saves and failed calls: there are never more forgotten temporary
\* files than crashes, losses of power and failed removals (saveCleanupState).
THEOREM LitterIsBounded == FileSpec => []LitterBounded
<1>1. FileInit => LitterInv
  <2> SUFFICES ASSUME FileInit PROVE LitterInv
    OBVIOUS
  <2>1. Loose = {}
    BY DEF FileInit, Loose, Absent
  <2>. QED  BY <2>1, FS_EmptySet DEF FileInit, LitterInv
<1>2. FileInv /\ LitterInv /\ [FileNext]_fileVars => LitterInv'
  BY LitterStep
<1>3. LitterInv => LitterBounded
  BY DEF LitterInv, LitterBounded, Loose
<1>. QED  BY <1>1, <1>2, <1>3, FileInvariant, PTL DEF FileSpec
-----------------------------------------------------------------------------
(* The thresholds of the mounts (MountLevels). *)

\* The ladder is monotone, even one that does not ascend.
LEMMA LadderMonotone ==
  ASSUME NEW t \in Ladder(Int), NEW a \in Int, NEW b \in Int, a <= b
  PROVE  /\ levelForPercent(a, t) <= levelForPercent(b, t)
         /\ levelForPercent(a, t) \in CleanupLevel
BY DEF levelForPercent, Ladder, CleanupLevel, LevelNone, LevelWarning, LevelModerate,
       LevelAggressive, LevelCritical

\* The fields of a configuration are natural numbers.
LEMMA MountFields ==
  ASSUME NEW m \in MountConfig \cup {Unset}
  PROVE  /\ m.warning \in Nat /\ m.moderate \in Nat /\ m.aggressive \in Nat /\ m.critical \in Nat
         /\ m.inodeWarning \in Nat /\ m.inodeCritical \in Nat /\ m.floor \in Nat
<1>1. CASE m = Unset
    BY <1>1 DEF Unset
<1>2. CASE m \in MountConfig
  <2>1. Settings \subseteq Nat /\ InodeSettings \subseteq Nat /\ Floors \subseteq Nat
      BY MountLevelsAssumption
  <2>2. /\ m.warning \in Settings /\ m.moderate \in Settings /\ m.aggressive \in Settings
        /\ m.critical \in Settings /\ m.inodeWarning \in InodeSettings
        /\ m.inodeCritical \in InodeSettings /\ m.floor \in Floors
      BY <1>2 DEF MountConfig
  <2> QED
      BY <2>1, <2>2
<1> QED
    BY <1>1, <1>2

\* Every mount configuration gets ladders of integers.
LEMMA LaddersAreIntegers ==
  ASSUME NEW m \in MountConfig \cup {Unset}
  PROVE  /\ monitorForMount(m).bytes \in Ladder(Int)
         /\ monitorForMount(m).inode \in Ladder(Int)
         /\ monitorForMount(m).floor \in Int
<1> USE MountLevelsAssumption
<1>1. /\ m.warning \in Int /\ m.moderate \in Int /\ m.aggressive \in Int /\ m.critical \in Int
      /\ m.inodeWarning \in Int /\ m.inodeCritical \in Int /\ m.floor \in Int
    BY MountFields
<1>2. Global \in Ladder(Int) /\ GlobalInode \in Ladder(Int)
    BY DEF Ladder
<1>3. byteLadder(m) \in Ladder(Int)
    BY <1>1, <1>2 DEF byteLadder, mountByteLadder, Ladder, Override, withinMountBand
<1>4. mountInodeLadder(m.inodeWarning, m.inodeCritical, GlobalInode, byteLadder(m)) \in Ladder(Int)
  <2> DEFINE g == [GlobalInode EXCEPT !.warning = Override(m.inodeWarning, @),
                                      !.critical = Override(m.inodeCritical, @)]
             l == inodeLadder(g, byteLadder(m))
  <2>1. g \in Ladder(Int)
      BY <1>1, <1>2 DEF Ladder, Override
  <2> HIDE DEF g
  <2>2. /\ l.warning \in Int /\ l.moderate \in Int /\ l.aggressive \in Int /\ l.critical \in Int
        /\ l = [warning |-> l.warning, moderate |-> l.moderate, aggressive |-> l.aggressive,
                critical |-> l.critical]
      BY <1>3, <2>1 DEF inodeLadder, Ladder
  <2>3. l \in Ladder(Int)
      BY <2>2 DEF Ladder
  <2> QED
      BY <2>3 DEF mountInodeLadder, g
<1> QED
    BY <1>1, <1>3, <1>4 DEF monitorForMount, Override

\* The inode level is monotone in the inodes used.
LEMMA InodeMonotone ==
  ASSUME NEW m \in MountConfig \cup {Unset}, NEW a \in 0 .. 100, NEW b \in 0 .. 100, a <= b
  PROVE  /\ inodeLevel(m, a) <= inodeLevel(m, b)
         /\ inodeLevel(m, a) \in CleanupLevel
<1>1. /\ monitorForMount(m).inode \in Ladder(Int) /\ monitorForMount(m).floor \in Int
    BY LaddersAreIntegers
<1>2. /\ levelForPercent(a, monitorForMount(m).inode) <= levelForPercent(b, monitorForMount(m).inode)
      /\ levelForPercent(a, monitorForMount(m).inode) \in CleanupLevel
    BY <1>1, LadderMonotone
<1> QED
    BY <1>1, <1>2 DEF inodeLevel, CheckInodeLevel, inodeStats, CleanupLevel, LevelNone, LevelCritical

\* A mount's settings and usage keep their types.
LEMMA MountTypes == LevelsSpec => []LevelsTypeOK
<1>1. LevelsInit => LevelsTypeOK
  <2> SUFFICES ASSUME LevelsInit PROVE LevelsTypeOK
      OBVIOUS
  <2>1. loaded \in BOOLEAN /\ mount \in MountConfig \cup {Unset}
      BY Zenon DEF LevelsInit
  <2>2. used \in 0 .. 100 /\ inodes \in 0 .. 100
      BY DEF LevelsInit
  <2> QED
      BY <2>1, <2>2 DEF LevelsTypeOK
<1>2. LevelsTypeOK /\ [LevelsNext]_levelVars => LevelsTypeOK'
  <2> SUFFICES ASSUME LevelsTypeOK, [LevelsNext]_levelVars PROVE LevelsTypeOK'
      OBVIOUS
  <2>0. \A n \in Points : n \in 0 .. 100
      BY MountLevelsAssumption
  <2>1. ASSUME NEW m \in MountConfig, LoadConfig(m) PROVE LevelsTypeOK'
      BY <2>1 DEF LevelsTypeOK, LoadConfig
  <2>2. ASSUME NEW u \in Points, BytesChange(u) PROVE LevelsTypeOK'
      BY <2>0, <2>2 DEF LevelsTypeOK, BytesChange
  <2>3. ASSUME NEW n \in Points, InodesChange(n) PROVE LevelsTypeOK'
      BY <2>0, <2>3 DEF LevelsTypeOK, InodesChange
  <2>4. CASE UNCHANGED levelVars
      BY <2>4 DEF LevelsTypeOK, levelVars
  <2> QED
      BY <2>1, <2>2, <2>3, <2>4 DEF LevelsNext
<1> QED
    BY <1>1, <1>2, PTL DEF LevelsSpec

\* A fuller mount is never at a lower level, for all thresholds, global and own
\* (levelForPercent, CheckLevel).
THEOREM FullerIsNotLower == LevelsSpec => LevelFollowsUsage
<1>1. ASSUME LevelsTypeOK, LevelsTypeOK', loaded, used <= used', inodes <= inodes'
      PROVE  CheckLevel(mount, used, inodes) <= CheckLevel(mount, used', inodes')
  <2>1. used \in Int /\ used' \in Int /\ inodes \in 0 .. 100 /\ inodes' \in 0 .. 100
      BY <1>1 DEF LevelsTypeOK
  <2>2. mount \in MountConfig \cup {Unset}
      BY <1>1 DEF LevelsTypeOK
  <2>3. /\ byteLevel(mount, used) <= byteLevel(mount, used')
        /\ byteLevel(mount, used) \in CleanupLevel /\ byteLevel(mount, used') \in CleanupLevel
    <3>1. monitorForMount(mount).bytes \in Ladder(Int)
        BY <2>2, LaddersAreIntegers
    <3> QED
        BY <1>1, <2>1, <3>1, LadderMonotone DEF byteLevel
  <2>4. /\ inodeLevel(mount, inodes) <= inodeLevel(mount, inodes')
        /\ inodeLevel(mount, inodes) \in CleanupLevel /\ inodeLevel(mount, inodes') \in CleanupLevel
    <3>1. /\ inodeLevel(mount, inodes) <= inodeLevel(mount, inodes')
          /\ inodeLevel(mount, inodes) \in CleanupLevel
        BY <1>1, <2>1, <2>2, InodeMonotone
    <3>2. inodes' <= inodes'
        BY <2>1
    <3>3. inodeLevel(mount, inodes') \in CleanupLevel
        BY <2>1, <2>2, <3>2, InodeMonotone
    <3> QED
        BY <3>1, <3>3
  <2> QED
      BY <2>3, <2>4 DEF CheckLevel, CleanupLevel, LevelNone, LevelCritical
<1>2. LevelsTypeOK /\ LevelsTypeOK'
        => [loaded /\ used <= used' /\ inodes <= inodes'
              => CheckLevel(mount, used, inodes) <= CheckLevel(mount, used', inodes')]_levelVars
    BY <1>1
<1> QED
    BY <1>2, MountTypes, PTL DEF LevelsSpec, LevelFollowsUsage

\* What LoadConfig accepts passes Validate.
LoadedIsValid == loaded => mount \in MountConfig /\ Validate(mount)

\* A mount that sets its warning and its critical line is quiet below warning,
\* whatever the global ladder is (monitorForMount, Validate).
THEOREM QuietBelow == LevelsSpec => []QuietBelowWarning
<1>1. LevelsInit => LoadedIsValid
    BY DEF LevelsInit, LoadedIsValid
<1>2. LoadedIsValid /\ [LevelsNext]_levelVars => LoadedIsValid'
    BY DEF LoadedIsValid, LevelsNext, levelVars, LoadConfig, BytesChange, InodesChange
<1>3. LevelsTypeOK /\ LoadedIsValid => QuietBelowWarning
  <2> SUFFICES ASSUME LevelsTypeOK, LoadedIsValid, loaded,
                      mount.warning > 0, mount.critical > 0, used < mount.warning
               PROVE  byteLevel(mount, used) = LevelNone
      BY DEF QuietBelowWarning
  <2> DEFINE m == mount
  <2>1. /\ m.warning \in Int /\ m.moderate \in Int /\ m.aggressive \in Int /\ m.critical \in Int
        /\ m.moderate >= 0 /\ m.aggressive >= 0 /\ used \in Int
      BY MountFields DEF LevelsTypeOK
  <2>2. /\ m.warning <= m.critical
        /\ m.moderate > 0 => m.warning <= m.moderate /\ m.moderate <= m.critical
        /\ m.aggressive > 0 => m.warning <= m.aggressive
      BY <2>1 DEF LoadedIsValid, Validate, Ascends
  <2>3. Global \in Ladder(Int)
      BY MountLevelsAssumption DEF Ladder
  <2>4. byteLadder(m) = mountByteLadder(m, Global)
      BY <2>1 DEF byteLadder
  <2>5. /\ mountByteLadder(m, Global).warning = m.warning
        /\ mountByteLadder(m, Global).critical = m.critical
        /\ mountByteLadder(m, Global).moderate >= m.warning
        /\ mountByteLadder(m, Global).aggressive >= m.warning
      BY <2>1, <2>2, <2>3 DEF mountByteLadder, Override, withinMountBand, Ladder
  <2>6. mountByteLadder(m, Global) \in Ladder(Int)
      BY <2>4, LaddersAreIntegers DEF LoadedIsValid, monitorForMount
  <2> HIDE DEF m
  <2>7. levelForPercent(used, mountByteLadder(m, Global)) = LevelNone
      BY <2>1, <2>2, <2>5, <2>6 DEF levelForPercent, Ladder, m
  <2> QED
      BY <2>4, <2>7 DEF byteLevel, monitorForMount, m
<1> QED
    BY <1>1, <1>2, <1>3, MountTypes, PTL DEF LevelsSpec
-----------------------------------------------------------------------------
(* Bounded duplicate log emission (LogThrottle). *)

LogTypeOK ==
  /\ logClock \in Nat /\ entries \in [Keys -> Entry] /\ shown \in [Keys -> Entry]
  /\ full \in Entry /\ wrote \in Entry

\* An entry is what its line showed last, with the copies held back since.
EntryInv ==
  /\ \A k \in Keys : entries[k] # NoEntry => entries[k] = shown[k] /\ entries[k].content \in Contents
  /\ \A k \in Keys : shown[k] # NoEntry => shown[k].emit <= logClock

\* The lines emitted since line k was.
Since(k) == {o \in Keys \ {k} : shown[o] # NoEntry /\ shown[o].emit >= shown[k].emit}

\* A line without an entry was evicted, after MaxKeys others were emitted.
EvictedInv ==
  \A k \in Keys : shown[k] # NoEntry /\ entries[k] = NoEntry => Cardinality(Since(k)) >= MaxKeys

\* The report throttle holds the last full report.
ReportInv == wrote # NoEntry => full # NoEntry /\ full.content = wrote.content /\ full.emit = wrote.emit

LogInv == LogTypeOK /\ EntryInv /\ EvictedInv /\ ReportInv

\* The entry for a line that is emitted now.
Fresh(content) == [content |-> content, emit |-> logClock, held |-> 0]

LEMMA EntryFacts ==
  /\ NoEntry \in Entry /\ NoEntry.content \notin Contents
  /\ \A c \in Contents : logClock \in Nat =>
       Fresh(c) \in Entry /\ Fresh(c) # NoEntry /\ Fresh(c).content = c /\ Fresh(c).emit = logClock /\ Fresh(c).held = 0
  BY ThrottleAssumption DEF NoEntry, Entry, NoContent, Fresh

LEMMA LogInvInit == ThrottleInit => LogInv
  BY EntryFacts DEF ThrottleInit, LogInv, LogTypeOK, EntryInv, EvictedInv, ReportInv

\* Emissions only add to the lines emitted since a line was.
LEMMA SinceGrows ==
  ASSUME LogTypeOK, LogTypeOK', NEW j \in Keys, shown'[j].emit = shown[j].emit,
         \A o \in Keys : shown[o] # NoEntry => shown'[o] # NoEntry /\ shown'[o].emit >= shown[o].emit
  PROVE  Cardinality(Since(j)) <= Cardinality(Since(j)')
<1>1. \A o \in Keys : shown[o].emit \in Nat /\ shown'[o].emit \in Nat
  BY DEF LogTypeOK, Entry
<1>2. Since(j) \subseteq Since(j)'
  BY <1>1 DEF Since
<1>3. IsFiniteSet(Since(j)')
  <2>1. Since(j)' \subseteq Keys
    BY DEF Since
  <2>. QED  BY <2>1, ThrottleAssumption, FS_Subset
<1>. QED  BY <1>2, <1>3, FS_Subset

\* decide on the first record of a line: an entry that goes to make room is the oldest,
\* so that every other entry, and the new one, was emitted since.
LEMMA EmitNewInv ==
  ASSUME LogInv, NEW k \in Keys, NEW content \in Contents, EmitNew(k, content)
  PROVE  LogInv'
<1> USE DEF LogInv
<1>1. PICK kept \in Evictions : entries' = [kept EXCEPT ![k] = Fresh(content)]
  BY DEF EmitNew, Fresh
<1>2. /\ entries[k] = NoEntry /\ shown' = [shown EXCEPT ![k] = Fresh(content)]
      /\ UNCHANGED <<logClock, full, wrote>>
  BY DEF EmitNew, Emitted, HeldKeys, Fresh
<1>3. /\ Fresh(content) \in Entry /\ Fresh(content) # NoEntry /\ Fresh(content).content = content
      /\ Fresh(content).emit = logClock /\ logClock \in Nat /\ NoEntry \in Entry
  BY EntryFacts DEF LogTypeOK
<1>4. kept \in [Keys -> Entry] /\ \A j \in Keys : kept[j] \in {entries[j], NoEntry}
  BY <1>1, <1>3 DEF Evictions, LogTypeOK
<1>5. /\ LogTypeOK' /\ shown'[k] = Fresh(content) /\ entries'[k] = Fresh(content)
      /\ \A j \in Keys : j # k => shown'[j] = shown[j] /\ entries'[j] = kept[j]
  BY <1>1, <1>2, <1>3, <1>4 DEF LogTypeOK
<1>6. EntryInv'
  BY <1>2, <1>3, <1>4, <1>5 DEF EntryInv
<1>7. \A o \in Keys : shown[o] # NoEntry => shown'[o] # NoEntry /\ shown'[o].emit >= shown[o].emit
  BY <1>3, <1>5 DEF EntryInv, LogTypeOK, Entry
<1>8. ASSUME NEW j \in Keys, shown'[j] # NoEntry, entries'[j] = NoEntry
      PROVE  Cardinality(Since(j)') >= MaxKeys
  <2>0. j # k /\ shown[j] # NoEntry /\ shown'[j] = shown[j] /\ kept[j] = NoEntry
    BY <1>3, <1>5, <1>8
  <2>1. IsFiniteSet(Since(j)) /\ IsFiniteSet(Since(j)')
    <3>1. Since(j)' \subseteq Keys /\ Since(j) \subseteq Keys
      BY DEF Since
    <3>. QED  BY <3>1, ThrottleAssumption, FS_Subset
  <2>2. Cardinality(Since(j)) \in Nat /\ Cardinality(Since(j)') \in Nat /\ MaxKeys \in Nat
    BY <2>1, FS_CardinalityType, ThrottleAssumption
  <2>3. CASE entries[j] = NoEntry
    <3>1. Cardinality(Since(j)) >= MaxKeys
      BY <2>0, <2>3 DEF EvictedInv
    <3>2. Cardinality(Since(j)) <= Cardinality(Since(j)')
      BY <1>5, <1>7, <2>0, SinceGrows
    <3>. QED  BY <2>2, <3>1, <3>2
  <2>4. CASE entries[j] # NoEntry
    <3>1. /\ ~ (Cardinality(HeldKeys) < MaxKeys)
          /\ j \in HeldKeys /\ \A h \in HeldKeys : entries[j].emit <= entries[h].emit
      <4>1. kept # entries
        BY <2>0, <2>4
      <4>2. ~ (Cardinality(HeldKeys) < MaxKeys)
        BY <1>1, <4>1 DEF Evictions
      <4>3. PICK e \in HeldKeys : /\ \A h \in HeldKeys : entries[e].emit <= entries[h].emit
                                  /\ kept = [entries EXCEPT ![e] = NoEntry]
        BY <1>1, <4>2 DEF Evictions
      <4>4. e = j
        BY <2>0, <2>4, <4>3 DEF LogTypeOK, HeldKeys
      <4>. QED  BY <4>2, <4>3, <4>4
    <3> DEFINE rest == HeldKeys \ {j}
    <3>2. IsFiniteSet(HeldKeys) /\ k \notin HeldKeys
      <4>1. HeldKeys \subseteq Keys
        BY DEF HeldKeys
      <4>. QED  BY <1>2, <4>1, ThrottleAssumption, FS_Subset DEF HeldKeys
    <3>3. IsFiniteSet(rest) /\ Cardinality(rest) = Cardinality(HeldKeys) - 1
      BY <3>1, <3>2, FS_RemoveElement
    <3>4. IsFiniteSet(rest \cup {k}) /\ Cardinality(rest \cup {k}) = Cardinality(HeldKeys)
      <4>1. k \notin rest
        BY <3>2
      <4>2. IsFiniteSet(rest \cup {k}) /\ Cardinality(rest \cup {k}) = Cardinality(rest) + 1
        BY <3>3, <4>1, FS_AddElement
      <4>3. Cardinality(HeldKeys) \in Nat
        BY <3>2, FS_CardinalityType
      <4>. QED  BY <3>3, <4>2, <4>3
    <3>5. \A h \in rest : h \in Since(j)'
      BY <1>5, <2>0, <2>4, <3>1, <3>2 DEF Since, HeldKeys, EntryInv
    <3>6. k \in Since(j)'
      BY <1>3, <1>5, <2>0 DEF Since, EntryInv, LogTypeOK, Entry
    <3>7. rest \cup {k} \subseteq Since(j)'
      BY <3>5, <3>6
    <3>8. Cardinality(HeldKeys) <= Cardinality(Since(j)') /\ Cardinality(HeldKeys) \in Nat
      BY <2>1, <3>2, <3>4, <3>7, FS_Subset, FS_CardinalityType
    <3>. QED  BY <2>2, <3>1, <3>8
  <2>. QED  BY <2>3, <2>4
<1>. QED  BY <1>2, <1>5, <1>6, <1>8 DEF EvictedInv, ReportInv

\* Records of a line that has an entry: it and what was shown change alike.
LEMMA EmitAgainInv ==
  ASSUME LogInv, NEW k \in Keys, NEW content \in Contents, EmitAgain(k, content) \/ HoldBack(k, content)
  PROVE  LogInv'
<1> USE DEF LogInv
<1>0. entries[k] # NoEntry /\ entries[k] = shown[k] /\ entries[k].content \in Contents /\ entries[k] \in Entry
  BY DEF EmitAgain, HoldBack, Repeats, HeldKeys, EntryInv, LogTypeOK
<1>1. PICK e \in Entry : /\ e # NoEntry /\ e.content \in Contents /\ e.emit >= shown[k].emit /\ e.emit <= logClock
                         /\ entries' = [entries EXCEPT ![k] = e] /\ shown' = [shown EXCEPT ![k] = e]
  <2>1. CASE EmitAgain(k, content)
    <3>1. Fresh(content) \in Entry /\ Fresh(content) # NoEntry /\ Fresh(content).content = content /\ Fresh(content).emit = logClock
      BY EntryFacts DEF LogTypeOK
    <3>2. entries' = [entries EXCEPT ![k] = Fresh(content)] /\ shown' = [shown EXCEPT ![k] = Fresh(content)]
      BY <2>1 DEF EmitAgain, Emitted, Fresh
    <3>3. shown[k].emit <= logClock /\ logClock <= logClock
      BY <1>0 DEF EntryInv, LogTypeOK
    <3>. QED  BY <3>1, <3>2, <3>3
  <2>2. CASE HoldBack(k, content)
    <3> DEFINE e == [entries[k] EXCEPT !.held = entries[k].held + 1]
    <3>1. e \in Entry /\ e.content = entries[k].content /\ e.emit = entries[k].emit
      BY <1>0 DEF Entry
    <3>2. entries' = [entries EXCEPT ![k] = e] /\ shown' = [shown EXCEPT ![k] = e]
      BY <1>0, <2>2 DEF HoldBack, LogTypeOK
    <3>3. entries[k].emit \in Nat /\ logClock \in Nat /\ shown[k].emit <= logClock
      BY <1>0 DEF EntryInv, LogTypeOK, Entry
    <3> HIDE DEF e
    <3>4. e # NoEntry
      BY <1>0, <3>1, EntryFacts
    <3>5. e.content \in Contents /\ e.emit >= shown[k].emit /\ e.emit <= logClock
      BY <1>0, <3>1, <3>3
    <3>. QED  BY <3>1, <3>2, <3>4, <3>5
  <2>. QED  BY <2>1, <2>2
<1>2. UNCHANGED <<logClock, full, wrote>>
  BY DEF EmitAgain, HoldBack
<1>3. /\ LogTypeOK' /\ shown'[k] = e /\ entries'[k] = e
      /\ \A j \in Keys : j # k => shown'[j] = shown[j] /\ entries'[j] = entries[j]
  BY <1>1, <1>2 DEF LogTypeOK
<1>4. EntryInv'
  BY <1>1, <1>2, <1>3 DEF EntryInv
<1>5. \A o \in Keys : shown[o] # NoEntry => shown'[o] # NoEntry /\ shown'[o].emit >= shown[o].emit
  BY <1>1, <1>3 DEF LogTypeOK, Entry
<1>6. ASSUME NEW j \in Keys, shown'[j] # NoEntry, entries'[j] = NoEntry
      PROVE  Cardinality(Since(j)') >= MaxKeys
  <2>1. j # k /\ Cardinality(Since(j)) >= MaxKeys /\ shown'[j] = shown[j]
    BY <1>1, <1>3, <1>6 DEF EvictedInv
  <2>2. Cardinality(Since(j)) <= Cardinality(Since(j)')
    BY <1>3, <1>5, <2>1, SinceGrows
  <2>3. Cardinality(Since(j)) \in Nat /\ Cardinality(Since(j)') \in Nat /\ MaxKeys \in Nat
    <3>1. Since(j)' \subseteq Keys /\ Since(j) \subseteq Keys
      BY DEF Since
    <3>. QED  BY <3>1, ThrottleAssumption, FS_Subset, FS_CardinalityType
  <2>. QED  BY <2>1, <2>2, <2>3
<1>. QED  BY <1>2, <1>3, <1>4, <1>6 DEF EvictedInv, ReportInv

\* Reports and the clock leave the lines alone.
LEMMA ReportStepInv ==
  ASSUME LogInv, Tick \/ UNCHANGED throttleVars \/ \E content \in Contents : FullReport(content) \/ CompactReport(content)
  PROVE  LogInv'
<1> USE DEF LogInv
<1>1. /\ UNCHANGED <<entries, shown>> /\ logClock' \in Nat /\ logClock' >= logClock
  BY DEF Tick, throttleVars, FullReport, CompactReport, LogTypeOK
<1> DEFINE Reported == full' \in Entry /\ wrote' \in Entry /\ ReportInv'
<1>2. Reported
  <2>1. ASSUME NEW content \in Contents, FullReport(content) PROVE Reported
    <3>1. full' = Fresh(content) /\ wrote' = Fresh(content)
      BY <2>1 DEF FullReport, Fresh
    <3>. QED  BY <3>1, EntryFacts DEF ReportInv, LogTypeOK
  <2>2. ASSUME NEW content \in Contents, CompactReport(content) PROVE Reported
    <3> DEFINE e == [full EXCEPT !.held = full.held + 1]
    <3>1. e \in Entry /\ e.content = full.content /\ e.emit = full.emit
      BY DEF LogTypeOK, Entry
    <3>2. full' = e /\ UNCHANGED wrote /\ full.content \in Contents
      BY <2>2 DEF CompactReport
    <3> HIDE DEF e
    <3>3. e # NoEntry
      BY <3>1, <3>2, EntryFacts
    <3>. QED  BY <3>1, <3>2, <3>3 DEF ReportInv, LogTypeOK
  <2>3. CASE Tick \/ UNCHANGED throttleVars
    BY <2>3 DEF Tick, throttleVars, LogTypeOK, ReportInv
  <2>. QED  BY <2>1, <2>2, <2>3
<1>3. EntryInv'
  BY <1>1 DEF EntryInv, LogTypeOK, Entry
<1>. QED  BY <1>1, <1>2, <1>3 DEF LogTypeOK, EvictedInv, Since

LEMMA LogInvStep == LogInv /\ [ThrottleNext]_throttleVars => LogInv'
  BY EmitNewInv, EmitAgainInv, ReportStepInv DEF ThrottleNext

\* The inductive invariant of both throttles.
THEOREM LogInvariant == ThrottleSpec => []LogInv
  BY LogInvInit, LogInvStep, PTL DEF ThrottleSpec

\* What decide says of a record, by the action that took it.
LEMMA Decisions ==
  ASSUME LogInv, ThrottleNext
  PROVE  /\ latest'.did = "emit" => \E k \in Keys, content \in Contents :
              EmitNew(k, content) \/ EmitAgain(k, content)
         /\ latest'.did = "hold" => \E k \in Keys, content \in Contents : HoldBack(k, content)
         /\ latest'.did = "full" => \E content \in Contents : FullReport(content)
<1>1. \A did, k, content, held : Decision(did, k, content, held).did = did
  BY DEF Decision
<1>2. \A k, content : EmitNew(k, content) \/ EmitAgain(k, content) => latest'.did = "emit"
  BY <1>1 DEF EmitNew, EmitAgain, Emitted
<1>3. \A k, content : HoldBack(k, content) => latest'.did = "hold"
  BY <1>1 DEF HoldBack
<1>4. \A content : FullReport(content) => latest'.did = "full"
  BY <1>1 DEF FullReport
<1>5. \A content : CompactReport(content) => latest'.did = "compact"
  BY <1>1 DEF CompactReport
<1>6. Tick => latest'.did = "none"
  BY <1>1 DEF Tick, Quiet
<1>. QED  BY <1>2, <1>3, <1>4, <1>5, <1>6 DEF ThrottleNext

\* For any number of lines, any windows and any capacity of the throttle: a line repeats
\* within its window only after MaxKeys others were emitted, the count it carries is
\* exact, a change is never held back, and full reports are spaced.
THEOREM LogIsTruthful == ThrottleSpec => LogTruthful
<1> DEFINE Spaced ==
      \A k \in Keys :
        latest'.did = "emit" /\ latest'.key = k
        /\ shown[k] # NoEntry /\ latest'.content = shown[k].content
        /\ logClock - shown[k].emit < windowFor(k)
          => Cardinality({o \in Keys \ {k} : shown[o] # NoEntry /\ shown[o].emit >= shown[k].emit}) >= MaxKeys
           Counted ==
      \A k \in HeldKeys : latest'.did = "emit" /\ latest'.key = k => latest'.held = shown[k].held
           Shown == latest'.did = "hold" => shown[latest'.key].content = latest'.content
           Reports ==
      latest'.did = "full" /\ wrote # NoEntry /\ wrote.content = latest'.content
        => logClock - wrote.emit >= Window
<1>1. LogInv /\ ThrottleNext => Spaced /\ Counted /\ Shown /\ Reports
  <2> SUFFICES ASSUME LogInv, ThrottleNext PROVE Spaced /\ Counted /\ Shown /\ Reports
    OBVIOUS
  <2>0. \A did, key, content, held :
          /\ Decision(did, key, content, held).key = key /\ Decision(did, key, content, held).content = content
          /\ Decision(did, key, content, held).held = held
    BY DEF Decision
  <2>1. ASSUME NEW k \in Keys, NEW content \in Contents, EmitNew(k, content) PROVE Spaced /\ Counted
    <3>1. latest'.key = k /\ entries[k] = NoEntry
      BY <2>0, <2>1 DEF EmitNew, Emitted, HeldKeys
    <3>2. Spaced
      BY <3>1 DEF LogInv, EvictedInv, Since
    <3>3. Counted
      BY <3>1 DEF HeldKeys
    <3>. QED  BY <3>2, <3>3
  <2>2. ASSUME NEW k \in Keys, NEW content \in Contents, EmitAgain(k, content) PROVE Spaced /\ Counted
    <3>1. /\ latest'.key = k /\ latest'.content = content /\ latest'.held = entries[k].held
          /\ entries[k] = shown[k] /\ ~ Repeats(k, content) /\ k \in HeldKeys
      BY <2>0, <2>2 DEF EmitAgain, Emitted, HeldKeys, LogInv, EntryInv
    <3>2. Spaced
      BY <3>1 DEF Repeats
    <3>3. Counted
      BY <3>1
    <3>. QED  BY <3>2, <3>3
  <2>3. ASSUME NEW k \in Keys, NEW content \in Contents, HoldBack(k, content) PROVE Shown
    <3>1. latest'.key = k /\ latest'.content = content
      BY <2>0, <2>3 DEF HoldBack
    <3>2. shown[k].content = content
      BY <2>3 DEF HoldBack, Repeats, HeldKeys, LogInv, EntryInv
    <3>. QED  BY <3>1, <3>2
  <2>4. ASSUME NEW content \in Contents, FullReport(content) PROVE Reports
    <3>1. latest'.content = content
      BY <2>0, <2>4 DEF FullReport
    <3>. QED  BY <2>4, <3>1 DEF FullReport, LogInv, ReportInv
  <2>5. Spaced /\ Counted
    BY <2>1, <2>2, Decisions
  <2>6. Shown /\ Reports
    BY <2>3, <2>4, Decisions
  <2>. QED  BY <2>5, <2>6
<1>. QED
  BY <1>1, LogInvariant, PTL
  DEF ThrottleSpec, LogTruthful, RepeatsAreSpaced, CountIsExact, ChangesAreShown, FullReportsAreSpaced
-----------------------------------------------------------------------------
(***************************************************************************)
(* The Nix collection (NixGC): no pass runs without the serialization lock *)
(* and the required hook pins, and min_gc_interval is kept between the     *)
(* passes that are on record, for every set of configurations, every       *)
(* horizon and every cap.                                                  *)
(***************************************************************************)

LEMMA ZeroStateType == ZeroState \in nixGCState
BY NixAssumption DEF ZeroState, nixGCState, MaybeAge, Age, Never

LEMMA NoPassType == NoPass \in Pass
BY ZeroStateType DEF NoPass, Pass, LevelNone, LevelCritical

LEMMA OlderType ==
  ASSUME NEW a \in MaybeAge
  PROVE  /\ Older(a) \in MaybeAge
         /\ Older(a) = Never <=> a = Never
         /\ \A b \in MaybeAge : a <= b => Older(a) <= Older(b)
BY NixAssumption DEF Older, MaybeAge, Age, Never

\* Counting a deferral leaves the date of the last attempt alone.
LEMMA DeferralType ==
  ASSUME NEW st \in nixGCState
  PROVE  recordDeferral(st) \in nixGCState /\ recordDeferral(st).attempt = st.attempt
<1> DEFINE f == IF st.deferred = 0 \/ st.first = Never THEN 0 ELSE st.first
           d == IF st.deferred < DeferralCap THEN st.deferred + 1 ELSE st.deferred
<1>1. f \in MaybeAge
  BY NixAssumption DEF nixGCState, MaybeAge, Age, Never
<1>2. d \in 0 .. DeferralCap
  BY NixAssumption DEF nixGCState
<1>3. recordDeferral(st) = [st EXCEPT !.first = f, !.deferred = d]
  BY DEF recordDeferral, nixGCState
<1> HIDE DEF f, d
<1> QED BY <1>1, <1>2, <1>3 DEF nixGCState

LEMMA AttemptType ==
  ASSUME NEW st
  PROVE  recordAttempt(st) \in nixGCState /\ recordAttempt(st).attempt = 0
BY NixAssumption DEF recordAttempt, nixGCState, MaybeAge, Age, Never

LEMMA DueType ==
  ASSUME NEW level \in Levels, NEW st
  PROVE  nixGCDue(level, st) \in LevelNone .. LevelCritical
BY NixAssumption DEF nixGCDue, LevelNone, LevelWarning, LevelCritical

\* A due pass is min_gc_interval away from the attempt its state tells of.
LEMMA DueKeepsGap ==
  ASSUME NEW level \in Levels, NEW st \in nixGCState, cfg \in NixConfig,
         nixGCDue(level, st) # LevelNone, st.attempt # Never
  PROVE  st.attempt >= cfg.minGap
BY DEF nixGCDue, nixGCState, NixConfig, MaybeAge, Age, Never

\* What a poll starts from is never ahead of the last attempt, and tells of it
\* when the process or a file it could read does.
LEMMA LoadSound ==
  ASSUME NixTypeOK, RecordsSound, NEW readable \in BOOLEAN
  PROVE  LET st == loadNixGCState(readable)
         IN  /\ st \in nixGCState
             /\ st.attempt # Never => hist.age # Never /\ hist.age <= st.attempt
             /\ hist.inMemory \/ (cfg.stateFile /\ readable /\ hist.onDisk) => st.attempt = hist.age
<1> DEFINE base == IF ~ cfg.stateFile THEN mem ELSE IF readable THEN file ELSE ZeroState
<1>1. /\ base \in nixGCState
      /\ base.attempt # Never => hist.age # Never /\ hist.age <= base.attempt
      /\ cfg.stateFile /\ readable /\ hist.onDisk => base.attempt = hist.age
  BY ZeroStateType DEF NixTypeOK, RecordsSound, ZeroState
<1>2. last \in MaybeAge /\ hist.age \in MaybeAge /\ base.attempt \in MaybeAge
  BY <1>1 DEF NixTypeOK, nixGCState
<1>3. last = IF hist.inMemory THEN hist.age ELSE Never
  BY DEF RecordsSound
<1>4. loadNixGCState(readable) = IF After(last, base.attempt) THEN [base EXCEPT !.attempt = last] ELSE base
  BY DEF loadNixGCState
<1> HIDE DEF base
<1>5. After(last, base.attempt) <=> last # Never /\ (base.attempt = Never \/ last < base.attempt)
  BY DEF After
<1>6. CASE After(last, base.attempt)
  <2>1. loadNixGCState(readable) \in nixGCState /\ loadNixGCState(readable).attempt = last
    BY <1>1, <1>2, <1>4, <1>6 DEF nixGCState
  <2>2. last = hist.age /\ hist.age # Never
    BY <1>3, <1>5, <1>6
  <2>3. last <= last
    BY <1>2, NixAssumption DEF MaybeAge, Age, Never
  <2> QED BY <2>1, <2>2, <2>3
<1>7. CASE ~ After(last, base.attempt)
  <2>1. loadNixGCState(readable) = base
    BY <1>4, <1>7
  <2>2. hist.inMemory => base.attempt = hist.age
    <3> SUFFICES ASSUME hist.inMemory PROVE base.attempt = hist.age
      OBVIOUS
    <3>1. last = hist.age
      BY <1>3
    <3>2. CASE hist.age = Never
      BY <1>1, <3>2
    <3>3. CASE hist.age # Never
      <4>1. base.attempt # Never /\ ~ (hist.age < base.attempt)
        BY <1>5, <1>7, <3>1, <3>3
      <4>2. hist.age <= base.attempt
        BY <1>1, <4>1
      <4> QED BY <1>2, <4>1, <4>2, NixAssumption DEF MaybeAge, Age, Never
    <3> QED BY <3>2, <3>3
  <2> QED BY <1>1, <2>1, <2>2
<1> QED BY <1>6, <1>7
-----------------------------------------------------------------------------
(* The steps of a pass keep the invariant. *)

\* A step that moves a pass on, or ends it, and leaves the records alone.
LEMMA QuietStep ==
  ASSUME NixInv, UNCHANGED <<cfg, file, mem, last, trouble, hist>>, marker' \in BOOLEAN,
         phase' \in Phases, pass' \in Pass, lock' \in {"free", "daemon", "other"},
         pass'.known => pass'.st.attempt = hist.age,
         pass'.st.attempt # Never => hist.age # Never /\ hist.age <= pass'.st.attempt,
         phase' \in Serialized /\ cfg.lockFile => lock' = "daemon",
         phase' \in Serialized \cup {"lock"} /\ cfg.pinsRequired => ~ pass'.pinErr,
         lock' = "daemon" => phase' \in Serialized
  PROVE  NixInv'
<1>1. NixTypeOK'
  BY DEF NixInv, NixTypeOK
<1>2. PassGuarded'
  BY DEF PassGuarded
<1>3. RecordsSound'
  BY DEF NixInv, RecordsSound
<1>4. LockHeldByPass'
  BY DEF LockHeldByPass
<1> QED BY <1>1, <1>2, <1>3, <1>4 DEF NixInv

LEMMA ReleasedType ==
  ASSUME NixTypeOK
  PROVE  Released \in {"free", "other"}
BY DEF NixTypeOK, Released

LEMMA PollInv ==
  ASSUME NixInv, NEW level \in Levels, NEW pinned \in BOOLEAN, NEW readable \in BOOLEAN,
         Poll(level, pinned, readable)
  PROVE  NixInv'
<1> DEFINE st == loadNixGCState(readable)
           due == nixGCDue(level, st)
           known == hist.inMemory \/ (cfg.stateFile /\ readable /\ hist.onDisk)
<1>1. /\ st \in nixGCState
      /\ known => st.attempt = hist.age
      /\ st.attempt # Never => hist.age # Never /\ hist.age <= st.attempt
  BY LoadSound DEF NixInv
<1>2. due \in LevelNone .. LevelCritical
  BY DueType
<1>3. known \in BOOLEAN
  BY DEF NixInv, NixTypeOK
<1>4. /\ UNCHANGED <<cfg, file, mem, last, lock, marker, trouble, hist>> /\ phase = "idle"
      /\ phase' = IF due = LevelNone THEN "idle" ELSE "checks"
      /\ pass' = IF due = LevelNone THEN NoPass
                 ELSE [NoPass EXCEPT !.st = st, !.level = due, !.pinErr = ~ pinned, !.known = known]
  BY DEF Poll
<1> HIDE DEF st, due, known
<1>5. /\ pass' \in Pass /\ (pass'.known => pass'.st.attempt = hist.age)
      /\ pass'.st.attempt # Never => hist.age # Never /\ hist.age <= pass'.st.attempt
  <2>1. CASE due = LevelNone
    BY <1>4, <2>1, NoPassType DEF NoPass, ZeroState
  <2>2. CASE due # LevelNone
    BY <1>1, <1>2, <1>3, <1>4, <2>2, NoPassType DEF Pass
  <2> QED BY <2>1, <2>2
<1>6. phase' \in Phases /\ phase' \notin Serialized \cup {"lock"}
  BY <1>4 DEF Phases, Serialized
<1>7. lock # "daemon"
  BY <1>4 DEF NixInv, LockHeldByPass, Serialized
<1> QED BY <1>4, <1>5, <1>6, <1>7, QuietStep DEF NixInv, NixTypeOK

\* A deferral may write the state it started from, with the count advanced.
LEMMA DeferralInv ==
  ASSUME NixInv, NEW written \in BOOLEAN, Deferral(written)
  PROVE  NixInv'
<1> DEFINE st == recordDeferral(pass.st)
<1>1. pass \in Pass /\ pass.st \in nixGCState
  BY DEF NixInv, NixTypeOK, Pass
<1>2. st \in nixGCState /\ st.attempt = pass.st.attempt
  BY <1>1, DeferralType
<1>3. /\ mem' = st /\ file' = IF cfg.stateFile /\ written THEN st ELSE file
      /\ phase' = "idle" /\ pass' = NoPass /\ lock' = Released
      /\ UNCHANGED <<cfg, last, marker, trouble>>
      /\ hist' = [hist EXCEPT !.onDisk = IF cfg.stateFile /\ written THEN pass.known ELSE hist.onDisk]
  BY DEF Deferral, saveState, HistoryAfterSave
<1> HIDE DEF st
<1>4. /\ hist' \in [age: MaybeAge, inMemory: BOOLEAN, onDisk: BOOLEAN]
      /\ hist'.age = hist.age /\ hist'.inMemory = hist.inMemory
      /\ hist'.onDisk = IF cfg.stateFile /\ written THEN pass.known ELSE hist.onDisk
  BY <1>1, <1>3 DEF NixInv, NixTypeOK, Pass
<1>5. lock' \in {"free", "other"}
  BY <1>3, ReleasedType DEF NixInv
<1>6. NixTypeOK'
  BY <1>2, <1>3, <1>4, <1>5, NoPassType DEF NixInv, NixTypeOK, Phases
<1>7. RecordsSound'
  <2>1. last' = IF hist'.inMemory THEN hist'.age ELSE Never
    BY <1>3, <1>4 DEF NixInv, RecordsSound
  <2>2. pass.known => pass.st.attempt = hist.age
    BY DEF NixInv, RecordsSound
  <2>3. hist'.onDisk => file'.attempt = hist'.age
    BY <1>2, <1>3, <1>4, <2>2 DEF NixInv, RecordsSound
  <2>4. \A s \in {file', mem'} : s.attempt # Never => hist'.age # Never /\ hist'.age <= s.attempt
    BY <1>2, <1>3, <1>4 DEF NixInv, RecordsSound
  <2>5. ~ pass'.known /\ pass'.st.attempt = Never
    BY <1>3 DEF NoPass, ZeroState
  <2> QED BY <1>3, <2>1, <2>3, <2>4, <2>5 DEF RecordsSound
<1>8. PassGuarded' /\ LockHeldByPass'
  BY <1>3, <1>5 DEF PassGuarded, LockHeldByPass, Serialized
<1> QED BY <1>6, <1>7, <1>8 DEF NixInv

LEMMA RecordAttemptInv ==
  ASSUME NixInv, NEW written \in BOOLEAN, RecordAttempt(written)
  PROVE  NixInv'
<1> DEFINE st == recordAttempt(pass.st)
<1>1. st \in nixGCState /\ st.attempt = 0
  BY AttemptType
<1>2. 0 \in MaybeAge /\ 0 # Never
  BY NixAssumption DEF MaybeAge, Age, Never
<1>3. /\ mem' = st /\ file' = (IF cfg.stateFile /\ written THEN st ELSE file) /\ last' = 0
      /\ phase' = "idle" /\ pass' = NoPass /\ lock' = Released
      /\ UNCHANGED <<cfg, marker, trouble>>
      /\ hist' = [age |-> 0, inMemory |-> TRUE, onDisk |-> cfg.stateFile /\ written]
  BY DEF RecordAttempt, saveState
<1> HIDE DEF st
<1>4. cfg.stateFile \in BOOLEAN
  BY NixAssumption DEF NixInv, NixTypeOK, NixConfig
<1>5. /\ hist' \in [age: MaybeAge, inMemory: BOOLEAN, onDisk: BOOLEAN]
      /\ hist'.age = 0 /\ hist'.inMemory /\ (hist'.onDisk <=> cfg.stateFile /\ written)
  BY <1>2, <1>3, <1>4
<1>6. lock' \in {"free", "other"}
  BY <1>3, ReleasedType DEF NixInv
<1>7. NixTypeOK'
  BY <1>1, <1>2, <1>3, <1>5, <1>6, NoPassType DEF NixInv, NixTypeOK, Phases
<1>8. RecordsSound'
  <2>1. file'.attempt \in MaybeAge
    BY <1>7 DEF NixTypeOK, nixGCState
  <2>2. \A a \in MaybeAge : a # Never => 0 <= a
    BY NixAssumption DEF MaybeAge, Age, Never
  <2>3. ~ pass'.known /\ pass'.st.attempt = Never
    BY <1>3 DEF NoPass, ZeroState
  <2>4. hist'.onDisk => file'.attempt = 0
    BY <1>1, <1>3, <1>5
  <2>5. \A s \in {file', mem', pass'.st} : s.attempt # Never => hist'.age # Never /\ hist'.age <= s.attempt
    BY <1>1, <1>2, <1>3, <1>5, <2>1, <2>2, <2>3
  <2> QED BY <1>3, <1>5, <2>3, <2>4, <2>5 DEF RecordsSound
<1>9. PassGuarded' /\ LockHeldByPass'
  BY <1>3, <1>6 DEF PassGuarded, LockHeldByPass, Serialized
<1> QED BY <1>7, <1>8, <1>9 DEF NixInv

\* The other steps of a pass neither read nor write the records.
LEMMA QuietPassInv ==
  ASSUME NixInv,
         \/ PassChecks \/ AcquireGCLock \/ GCNotAttempted \/ Recheck \/ Optimize
         \/ \E available, idle \in BOOLEAN : BusyGateOpens(available, idle)
         \/ \E deleted \in BOOLEAN : DeleteGenerations(deleted)
         \/ \E outcome \in {"work", "no work", "contention", "failed"} : Preflight(outcome)
         \/ \E ok \in BOOLEAN : Collect(ok)
  PROVE  NixInv'
<1>1. pass \in Pass /\ marker \in BOOLEAN /\ lock \in {"free", "daemon", "other"}
      /\ (pass.known => pass.st.attempt = hist.age)
      /\ (pass.st.attempt # Never => hist.age # Never /\ hist.age <= pass.st.attempt)
      /\ phase \in Phases
  BY DEF NixInv, NixTypeOK, RecordsSound
<1>2. ASSUME PassChecks PROVE NixInv'
  <2>1. lock # "daemon"
    BY <1>2 DEF PassChecks, NixInv, LockHeldByPass, Serialized
  <2>2. phase' = "lock" /\ UNCHANGED <<cfg, file, mem, last, pass, lock, marker, trouble, hist>>
    BY <1>2 DEF PassChecks
  <2>3. cfg.pinsRequired => ~ pass.pinErr
    BY <1>2 DEF PassChecks, Unbypassable
  <2> QED BY <1>1, <2>1, <2>2, <2>3, QuietStep DEF Phases, Serialized
<1>3. ASSUME AcquireGCLock PROVE NixInv'
  <2>1. lock # "daemon"
    BY <1>3 DEF AcquireGCLock, NixInv, LockHeldByPass, Serialized
  <2>2. /\ phase' = "gate" /\ lock' = (IF cfg.lockFile THEN "daemon" ELSE lock)
        /\ UNCHANGED <<cfg, file, mem, last, pass, marker, trouble, hist>>
    BY <1>3 DEF AcquireGCLock
  <2>3. cfg.pinsRequired => ~ pass.pinErr
    BY <1>3 DEF AcquireGCLock, NixInv, PassGuarded
  <2> QED BY <1>1, <2>1, <2>2, <2>3, QuietStep DEF Phases, Serialized
<1>4. ASSUME GCNotAttempted PROVE NixInv'
  <2>1. phase' = "idle" /\ pass' = NoPass /\ lock' = Released
        /\ UNCHANGED <<cfg, file, mem, last, marker, trouble, hist>>
    BY <1>4 DEF GCNotAttempted, Abandon
  <2>2. lock' \in {"free", "other"}
    BY <2>1, ReleasedType DEF NixInv
  <2>3. ~ NoPass.known /\ NoPass.st.attempt = Never
    BY DEF NoPass, ZeroState
  <2> QED BY <1>1, <2>1, <2>2, <2>3, NoPassType, QuietStep DEF Phases, Serialized
\* A step from one phase under the lock to another that keeps the pass's state.
<1>5. ASSUME phase \in Serialized, phase' \in Serialized, pass' \in Pass,
             pass'.st = pass.st, pass'.known = pass.known, pass'.pinErr = pass.pinErr,
             UNCHANGED <<cfg, file, mem, last, lock, marker, trouble, hist>>
      PROVE  NixInv'
  <2>1. (cfg.lockFile => lock = "daemon") /\ (cfg.pinsRequired => ~ pass.pinErr)
    BY <1>5 DEF NixInv, PassGuarded
  <2>2. phase' \in Phases
    BY <1>5 DEF Phases
  <2> QED BY <1>1, <1>5, <2>1, <2>2, QuietStep
<1>6. ASSUME Recheck PROVE NixInv'
  <2>1. /\ phase \in Serialized /\ phase' \in Serialized
        /\ UNCHANGED <<cfg, file, mem, last, pass, lock, marker, trouble, hist>>
    BY <1>6 DEF Recheck, Serialized
  <2> QED BY <1>1, <1>5, <2>1
<1>7. ASSUME NEW deleted \in BOOLEAN, DeleteGenerations(deleted) PROVE NixInv'
  <2>1. /\ phase \in Serialized /\ phase' \in Serialized
        /\ pass' = [pass EXCEPT !.deleted = deleted]
        /\ UNCHANGED <<cfg, file, mem, last, lock, marker, trouble, hist>>
    BY <1>7 DEF DeleteGenerations, Serialized
  <2>2. pass' \in Pass /\ pass'.st = pass.st /\ pass'.known = pass.known /\ pass'.pinErr = pass.pinErr
    BY <1>1, <2>1 DEF Pass
  <2> QED BY <1>5, <2>1, <2>2
<1>8. ASSUME \/ Optimize
             \/ \E available, idle \in BOOLEAN : BusyGateOpens(available, idle)
             \/ \E outcome \in {"work", "no work", "contention", "failed"} : Preflight(outcome)
             \/ \E ok \in BOOLEAN : Collect(ok)
      PROVE  NixInv'
  <2>1. phase \in Serialized /\ phase' \in Serialized
        /\ UNCHANGED <<cfg, file, mem, last, pass, lock, marker, trouble, hist>>
    BY <1>8 DEF Optimize, BusyGateOpens, Preflight, Collect, Serialized
  <2> QED BY <1>1, <1>5, <2>1
<1> QED BY <1>2, <1>3, <1>4, <1>6, <1>7, <1>8
-----------------------------------------------------------------------------
(* The environment keeps the invariant. *)

LEMMA RestartInv ==
  ASSUME NixInv, Restart
  PROVE  NixInv'
<1>1. /\ cfg' \in Configs /\ mem' = ZeroState /\ last' = Never
      /\ phase' = "idle" /\ pass' = NoPass /\ lock' = Released
      /\ hist' = [hist EXCEPT !.inMemory = FALSE]
      /\ UNCHANGED <<file, marker, trouble>>
  BY DEF Restart
<1>2. /\ hist' \in [age: MaybeAge, inMemory: BOOLEAN, onDisk: BOOLEAN]
      /\ hist'.age = hist.age /\ ~ hist'.inMemory /\ hist'.onDisk = hist.onDisk
  BY <1>1 DEF NixInv, NixTypeOK
<1>3. lock' \in {"free", "other"} /\ Never \in MaybeAge
  BY <1>1, ReleasedType DEF NixInv, MaybeAge
<1>4. NixTypeOK'
  BY <1>1, <1>2, <1>3, ZeroStateType, NoPassType DEF NixInv, NixTypeOK, Phases
<1>5. RecordsSound'
  <2>1. ~ pass'.known /\ pass'.st.attempt = Never /\ mem'.attempt = Never
    BY <1>1 DEF NoPass, ZeroState
  <2> QED BY <1>1, <1>2, <2>1 DEF NixInv, RecordsSound
<1>6. PassGuarded' /\ LockHeldByPass'
  BY <1>1, <1>3 DEF PassGuarded, LockHeldByPass, Serialized
<1> QED BY <1>4, <1>5, <1>6 DEF NixInv

LEMMA NeighboursInv ==
  ASSUME NixInv, OtherCollector \/ Switch \/ TroubleEnds
  PROVE  NixInv'
<1>1. /\ UNCHANGED <<cfg, file, mem, last, phase, pass, hist>>
      /\ lock' \in {"free", "daemon", "other"} /\ marker' \in BOOLEAN /\ trouble' \in BOOLEAN
      /\ lock' = "daemon" <=> lock = "daemon"
  BY DEF OtherCollector, Switch, TroubleEnds, NixInv, NixTypeOK
<1>2. NixTypeOK'
  BY <1>1 DEF NixInv, NixTypeOK
<1>3. PassGuarded' /\ LockHeldByPass'
  BY <1>1 DEF NixInv, PassGuarded, LockHeldByPass
<1>4. RecordsSound'
  BY <1>1 DEF NixInv, RecordsSound
<1> QED BY <1>2, <1>3, <1>4 DEF NixInv

\* The passing of time ages every record and the history alike.
LEMMA ElapseInv ==
  ASSUME NixInv, Elapse
  PROVE  NixInv'
<1> DEFINE Grown(st) == [st EXCEPT !.attempt = Older(st.attempt), !.first = Older(st.first)]
<1>1. /\ file' = Grown(file) /\ mem' = Grown(mem) /\ last' = Older(last)
      /\ pass' = [pass EXCEPT !.st = Grown(pass.st)]
      /\ hist' = [hist EXCEPT !.age = Older(hist.age)]
      /\ UNCHANGED <<cfg, phase, lock, marker, trouble>>
  BY DEF Elapse
<1>2. ASSUME NEW st \in nixGCState
      PROVE  Grown(st) \in nixGCState /\ Grown(st).attempt = Older(st.attempt)
  BY OlderType DEF nixGCState
<1> HIDE DEF Grown
<1>3. /\ file \in nixGCState /\ mem \in nixGCState /\ pass \in Pass /\ pass.st \in nixGCState
      /\ last \in MaybeAge /\ hist.age \in MaybeAge
      /\ hist \in [age: MaybeAge, inMemory: BOOLEAN, onDisk: BOOLEAN]
  BY DEF NixInv, NixTypeOK, Pass
<1>4. /\ pass' \in Pass /\ pass'.st = Grown(pass.st)
      /\ pass'.known = pass.known /\ pass'.pinErr = pass.pinErr
  BY <1>1, <1>2, <1>3 DEF Pass
<1>5. /\ hist' \in [age: MaybeAge, inMemory: BOOLEAN, onDisk: BOOLEAN]
      /\ hist'.age = Older(hist.age) /\ hist'.inMemory = hist.inMemory /\ hist'.onDisk = hist.onDisk
  BY <1>1, <1>3, OlderType
<1>6. NixTypeOK'
  BY <1>1, <1>2, <1>3, <1>4, <1>5, OlderType DEF NixInv, NixTypeOK
<1>7. PassGuarded' /\ LockHeldByPass'
  BY <1>1, <1>4 DEF NixInv, PassGuarded, LockHeldByPass
<1>8. RecordsSound'
  <2>1. last' = IF hist'.inMemory THEN hist'.age ELSE Never
    BY <1>1, <1>3, <1>5, OlderType DEF NixInv, RecordsSound
  <2>2. hist'.onDisk => file'.attempt = hist'.age
    BY <1>1, <1>2, <1>3, <1>5 DEF NixInv, RecordsSound
  <2>3. pass'.known => pass'.st.attempt = hist'.age
    BY <1>2, <1>3, <1>4, <1>5 DEF NixInv, RecordsSound
  <2>4. ASSUME NEW st \in nixGCState, st.attempt # Never => hist.age # Never /\ hist.age <= st.attempt
        PROVE  Grown(st).attempt # Never => hist'.age # Never /\ hist'.age <= Grown(st).attempt
    <3>1. st.attempt \in MaybeAge
      BY DEF nixGCState
    <3> QED BY <1>2, <1>3, <1>5, <2>4, <3>1, OlderType
  <2>5. \A st \in {file', mem', pass'.st} : st.attempt # Never => hist'.age # Never /\ hist'.age <= st.attempt
    BY <1>1, <1>3, <1>4, <2>4 DEF NixInv, RecordsSound
  <2> QED BY <2>1, <2>2, <2>3, <2>5 DEF RecordsSound
<1> QED BY <1>6, <1>7, <1>8 DEF NixInv
-----------------------------------------------------------------------------
(* The theorems. *)

LEMMA InitInv ==
  ASSUME NixInit
  PROVE  NixInv
<1>1. NixTypeOK
  BY ZeroStateType, NoPassType DEF NixInit, NixTypeOK, Phases, MaybeAge
<1>2. PassGuarded /\ RecordsSound /\ LockHeldByPass
  BY DEF NixInit, PassGuarded, RecordsSound, LockHeldByPass, Serialized, NoPass, ZeroState
<1> QED BY <1>1, <1>2 DEF NixInv

LEMMA NextInv ==
  ASSUME NixInv, [NixNext]_nixVars
  PROVE  NixInv'
<1>1. ASSUME PassStep PROVE NixInv'
  <2>1. ASSUME NEW level \in Levels, NEW pinned \in BOOLEAN, NEW readable \in BOOLEAN,
               Poll(level, pinned, readable)
        PROVE  NixInv'
    BY <2>1, PollInv
  <2>2. ASSUME NEW written \in BOOLEAN, Deferral(written) PROVE NixInv'
    BY <2>2, DeferralInv
  <2>3. ASSUME NEW written \in BOOLEAN, RecordAttempt(written) PROVE NixInv'
    BY <2>3, RecordAttemptInv
  <2> QED BY <1>1, <2>1, <2>2, <2>3, QuietPassInv DEF PassStep, DeferUnbypassable, DeferLock, BusyGateHolds
<1>2. ASSUME UNCHANGED nixVars PROVE NixInv'
  BY <1>2 DEF nixVars, NixInv, NixTypeOK, PassGuarded, RecordsSound, LockHeldByPass
<1> QED BY <1>1, <1>2, RestartInv, NeighboursInv, ElapseInv DEF NixNext

\* NixInv holds in every state of the plugin: the daemon collects only under the
\* serialization lock and the required pins, and no record of the last attempt,
\* in memory, in the file or in a running pass, is ahead of the real one.
THEOREM NixInvariant == NixSpec => []NixInv
<1>1. NixInit => NixInv
  BY InitInv
<1>2. NixInv /\ [NixNext]_nixVars => NixInv'
  BY NextInv
<1> QED BY <1>1, <1>2, PTL DEF NixSpec

\* nixGCDue keeps min_gc_interval between the passes on record, whatever the
\* level and through every failed save, unreadable file, deferral and restart.
THEOREM MinGap == NixSpec => MinGapKept
<1> DEFINE Gap == phase = "idle" /\ phase' = "checks" /\ pass'.known
                    => hist.age = Never \/ hist.age >= cfg.minGap
<1>1. NixInv /\ [NixNext]_nixVars => [Gap]_nixVars
  <2> SUFFICES ASSUME NixInv, NixNext, phase = "idle", phase' = "checks", pass'.known
               PROVE  hist.age = Never \/ hist.age >= cfg.minGap
    OBVIOUS
  <2>1. PICK level \in Levels, pinned \in BOOLEAN, readable \in BOOLEAN : Poll(level, pinned, readable)
    BY DEF NixNext, PassStep, DeferUnbypassable, PassChecks, AcquireGCLock, DeferLock, BusyGateHolds,
           BusyGateOpens, GCNotAttempted, DeleteGenerations, Preflight, Recheck, Collect, Optimize,
           RecordAttempt, Restart, OtherCollector, Switch, Elapse, TroubleEnds, Deferral, Abandon
  <2> DEFINE st == loadNixGCState(readable)
             known == hist.inMemory \/ (cfg.stateFile /\ readable /\ hist.onDisk)
  <2>2. st \in nixGCState /\ (known => st.attempt = hist.age)
    BY LoadSound DEF NixInv
  <2>3. nixGCDue(level, st) # LevelNone
    BY <2>1 DEF Poll
  <2>4. pass' = [NoPass EXCEPT !.st = st, !.level = nixGCDue(level, st), !.pinErr = ~ pinned,
                               !.known = known]
    BY <2>1, <2>3 DEF Poll
  <2>5. known
    BY <2>4 DEF NoPass
  <2>6. cfg \in NixConfig
    BY NixAssumption DEF NixInv, NixTypeOK
  <2> HIDE DEF st, known
  <2> QED BY <2>2, <2>3, <2>5, <2>6, DueKeepsGap
<1> QED BY <1>1, NixInvariant, PTL DEF NixSpec, MinGapKept
=============================================================================
