--------------------------- MODULE SnapshotsProofs ---------------------------
(***************************************************************************)
(* What holds of the autosave for every value of the constants: types,     *)
(* NothingLost, OneWriter, RetentionOvershoot, and, when no stored file is *)
(* cut to zero bytes, the promise of DurableGraph.                         *)
(***************************************************************************)
EXTENDS Snapshots, TLAPS, FiniteSetTheorems, WellFoundedInduction

-----------------------------------------------------------------------------
(* The inductive invariant behind NothingLost and OneWriter. *)

(* Names are never reused: stamps order the files. *)
StampsOK ==
  /\ IsFiniteSet(files)
  /\ \A f \in files : f.stamp <= stamps
  /\ \A f, g \in files : f.stamp = g.stamp => f = g
  /\ \A s \in Savers : Busy(s) => \A f \in files : f.stamp # thread[s].stamp
  /\ \A s, t \in Savers : s # t /\ Busy(s) /\ Busy(t) => thread[s].stamp # thread[t].stamp

(* Who holds the lock has the latest stamp, and finds its file on disk. *)
LockOK ==
  /\ \A s, t \in Savers : saver[s] = "write" /\ saver[t] = "write" => s = t
  /\ \A s \in Savers : thread[s].stamp <= stamps
  /\ \A s \in Savers : saver[s] = "write" =>
       /\ thread[s].st # "none"
       /\ thread[s].stamp = stamps
       /\ thread[s].st = "done" =>
            [stamp |-> stamps, version |-> thread[s].version,
             mixed |-> thread[s].mixed, kind |-> "ok"] \in files

(* Only a cancelled task leaves a thread nobody waits for; no process, no threads. *)
PhaseOK ==
  /\ phase = "open" => \A s \in Savers : thread[s].st # "none" => saver[s] = "write"
  /\ phase = "down" =>
       /\ task = "done" /\ ~pending
       /\ \A s \in Savers : saver[s] = "out" /\ thread[s] = NoThread

CoveredOK ==
  /\ heard <= graph
  /\ phase = "open" /\ ~pending =>
       \/ LockFree /\ Disk >= heard
       \/ \E s \in Savers : saver[s] = "write" /\ thread[s].version >= heard

(* The task is inside save_now() only where _run() called it, and holds the    *)
(* loop only while the manager is open.                                        *)
TaskOK ==
  /\ saver["task"] # "out" => task = "saving"
  /\ task = "loop" => phase = "open"

IInv == TypeOK /\ TaskOK /\ StampsOK /\ LockOK /\ PhaseOK /\ CoveredOK

(* For DurablePromise: every intact file, written or still being written, holds *)
(* a version that was live, and later names hold later versions.                *)
Candidates ==
  Intact(files) \cup
  {[stamp |-> thread[s].stamp, version |-> thread[s].version,
   mixed |-> thread[s].mixed, kind |-> "ok"] :
     s \in {t \in Savers : Busy(t)}}

Chronological ==
  /\ \A f, g \in Candidates : f.stamp <= g.stamp => f.version <= g.version
  /\ phase # "down" => \A f \in Candidates : f.version <= graph

-----------------------------------------------------------------------------
(* Newest files. *)

LEMMA NewestExists ==
  ASSUME NEW fs, IsFiniteSet(fs), fs # {}, \A f \in fs : f.stamp \in Nat
  PROVE  \E f \in fs : IsNewest(f, fs)
<1> DEFINE Above(f) == {g \in fs : g.stamp > f.stamp}
           Tops == {Above(f) : f \in fs}
<1>1. IsWellFoundedOn(StrictSubsetOrdering(fs), SUBSET fs)
  BY FS_StrictSubsetOrderingWellFounded, FS_FiniteSubsetsOfFinite
<1>2. Tops \subseteq SUBSET fs /\ Tops # {}
  OBVIOUS
<1>3. PICK top \in Tops : \A t \in Tops : ~(<<t, top>> \in StrictSubsetOrdering(fs))
  <2> HIDE DEF Tops
  <2> QED BY <1>1, <1>2, WFMin
<1>4. PICK f \in fs : top = Above(f)
  BY <1>3
<1>5. ASSUME NEW g \in fs, ~(g.stamp <= f.stamp)
      PROVE  FALSE
  <2>1. Above(g) \in Tops /\ Above(g) \subseteq top /\ g \in top /\ g \notin Above(g)
    BY <1>4, <1>5
  <2>2. <<Above(g), top>> \in StrictSubsetOrdering(fs)
    BY <2>1, <1>2, <1>3 DEF StrictSubsetOrdering
  <2> QED BY <2>1, <2>2, <1>3
<1> QED BY <1>5 DEF IsNewest

(* With distinct stamps the newest file is unique, and NewestVersion is its version. *)
LEMMA NewestIs ==
  ASSUME NEW fs, NEW f \in fs, IsNewest(f, fs),
         \A g \in fs : g.stamp \in Nat,
         \A g, h \in fs : g.stamp = h.stamp => g = h
  PROVE  NewestVersion(fs) = f.version
<1>1. \A g \in fs : IsNewest(g, fs) => g = f
  BY DEF IsNewest
<1> QED BY <1>1 DEF NewestVersion

LEMMA FileFacts ==
  ASSUME files \in SUBSET File, IsFiniteSet(files)
  PROVE  /\ \A f \in files : /\ f.stamp \in Nat
                            /\ f.version \in 0..MaxChanges
                            /\ f.kind \in FileKinds
         /\ Intact(files) \subseteq files
         /\ IsFiniteSet(Intact(files))
<1>1. Intact(files) \subseteq files
  BY DEF Intact
<1>2. IsFiniteSet(Intact(files))
  BY <1>1, FS_Subset
<1> QED BY <1>1, <1>2, BoundAssumption DEF File

LEMMA DiskType ==
  ASSUME files \in SUBSET File, StampsOK
  PROVE  Disk \in 0..MaxChanges /\ Restored(files) \in 0..MaxChanges
<1> USE FileFacts, BoundAssumption DEF StampsOK
<1>1. ASSUME NEW fs, fs \subseteq files
      PROVE  NewestVersion(fs) \in 0..MaxChanges
  <2>1. CASE fs = {}
    BY <2>1 DEF NewestVersion
  <2>2. CASE fs # {}
    <3>1. IsFiniteSet(fs)
      BY <1>1, FS_Subset
    <3>2. PICK f \in fs : IsNewest(f, fs)
      BY <1>1, <2>2, <3>1, NewestExists
    <3>3. NewestVersion(fs) = f.version
      BY <1>1, <3>2, NewestIs
    <3> QED BY <1>1, <3>3
  <2> QED BY <2>1, <2>2
<1>2. {f \in Served(files) : f.kind = "ok"} \subseteq files
  BY DEF Served
<1> QED BY <1>1, <1>2 DEF Disk, Restored

(* The intact file that no other outranks is what Disk reads. *)
LEMMA DiskIs ==
  ASSUME files \in SUBSET File, StampsOK, NEW f \in Intact(files),
         \A g \in Intact(files) : g.stamp <= f.stamp
  PROVE  Disk = f.version
<1>1. IsNewest(f, Intact(files))
  BY DEF IsNewest
<1>2. \A g \in Intact(files) : g \in files /\ g.stamp \in Nat
  BY FileFacts DEF StampsOK
<1>3. \A g, h \in Intact(files) : g.stamp = h.stamp => g = h
  BY <1>2 DEF StampsOK
<1>4. NewestVersion(Intact(files)) = f.version
  BY <1>1, <1>2, <1>3, NewestIs
<1> QED BY <1>4 DEF Disk

(* A restart comes back with the newest intact file, unless it stops at an      *)
(* emptied one.                                                                *)
LEMMA RestoredCases ==
  ASSUME files \in SUBSET File, StampsOK
  PROVE  \/ Restored(files) = Disk
         \/ Restored(files) = 0 /\ \E f \in files : f.kind = "empty"
<1> DEFINE readable == {f \in files : Loads(f)}
           good == {f \in Served(files) : f.kind = "ok"}
<1>1. readable \subseteq files /\ Intact(files) \subseteq readable
  BY DEF Intact, Loads
<1>2. CASE readable = {}
  <2>1. Intact(files) = {} /\ good = {}
    BY <1>1, <1>2 DEF Served
  <2> QED BY <2>1 DEF Restored, Disk
<1>3. CASE readable # {}
  <2>1. IsFiniteSet(readable)
    BY <1>1, FS_Subset DEF StampsOK
  <2>2. \A f \in files : f.stamp \in Nat /\ f.kind \in FileKinds
    BY FileFacts DEF StampsOK
  <2>3. \A f \in readable : f \in files /\ f.stamp \in Nat /\ Loads(f)
    BY <2>2
  <2>4. PICK f \in readable : IsNewest(f, readable)
    <3> HIDE DEF readable
    <3> QED BY <1>3, <2>1, <2>3, NewestExists
  <2>5. f \in Served(files) /\ \A g \in Served(files) : g = f
    <3>1. \A g \in files : Loads(g) => g.stamp <= f.stamp
      BY <2>4 DEF IsNewest
    <3>2. f \in files /\ Loads(f)
      BY <2>3, <2>4
    <3>3. ASSUME NEW g \in Served(files) PROVE g = f
      <4>1. g \in files /\ Loads(g) /\ f.stamp <= g.stamp
        BY <3>2 DEF Served
      <4>2. g.stamp <= f.stamp /\ g.stamp \in Nat /\ f.stamp \in Nat
        BY <2>2, <3>1, <3>2, <4>1
      <4>3. g.stamp = f.stamp
        BY <4>1, <4>2
      <4> QED BY <3>2, <4>1, <4>3 DEF StampsOK
    <3> QED BY <3>1, <3>2, <3>3 DEF Served
  <2>6. CASE f.kind = "empty"
    <3>1. good = {}
      BY <2>5, <2>6
    <3> QED BY <2>3, <2>4, <2>6, <3>1 DEF Restored, NewestVersion
  <2>7. CASE f.kind # "empty"
    <3>1. f.kind = "ok" /\ f \in files
      BY <2>3, <2>4, <2>7 DEF Loads
    <3>2. good = {f}
      BY <2>5, <3>1
    <3>3. f.stamp \in Nat
      BY <2>2, <3>1
    <3>4. NewestVersion(good) = f.version
      <4>1. f \in good /\ IsNewest(f, good) /\ \A g \in good : g = f
        BY <3>2, <3>3 DEF IsNewest
      <4> HIDE DEF good
      <4> QED BY <3>3, <4>1, NewestIs
    <3>5. Disk = f.version
      <4>1. f \in Intact(files) /\ \A g \in Intact(files) : g.stamp <= f.stamp
        BY <1>1, <2>4, <3>1 DEF Intact, IsNewest
      <4> QED BY <4>1, DiskIs
    <3> QED BY <3>4, <3>5 DEF Restored
  <2> QED BY <2>6, <2>7
<1> QED BY <1>2, <1>3

-----------------------------------------------------------------------------
(* Type correctness.  StampsOK is needed for the version a restart restores. *)

LEMMA InitInv == Init => IInv
<1> SUFFICES ASSUME Init PROVE IInv
  OBVIOUS
<1>1. TypeOK
  <2>1. saver \in [Savers -> SaverStates] /\ thread \in [Savers -> Thread]
    BY DEF Init, SaverStates, Thread
  <2>2. pending \in BOOLEAN /\ activity \in BOOLEAN /\ mixed \in BOOLEAN
    BY DEF Init
  <2> QED BY <2>1, <2>2, ParameterAssumption, BoundAssumption
          DEF Init, TypeOK, Phases, TaskStates
<1>2. StampsOK
  BY FS_EmptySet DEF Init, StampsOK, Busy, NoThread
<1>3. TaskOK /\ LockOK /\ PhaseOK /\ CoveredOK
  BY BoundAssumption DEF Init, Savers, TaskOK, LockOK, PhaseOK, CoveredOK, NoThread
<1> QED BY <1>1, <1>2, <1>3 DEF IInv

LEMMA TypeStep ==
  ASSUME TypeOK, StampsOK, [Next]_vars
  PROVE  TypeOK'
<1> USE ParameterAssumption, BoundAssumption
    DEF TypeOK, Phases, TaskStates, SaverStates
<1> DEFINE NewThread == [st |-> "queued", stamp |-> stamps + 1, version |-> graph, mixed |-> mixed]
<1>1. stamps < MaxSaves => NewThread \in Thread
  BY DEF Thread
<1>2. NoThread \in Thread
  BY DEF Thread
<1>3. ASSUME NEW s \in Savers, Begin(s)
      PROVE  stamps' \in 0..MaxSaves /\ saver' \in [Savers -> SaverStates]
             /\ thread' \in [Savers -> Thread] /\ pending' \in BOOLEAN
  <2>1. stamps' \in 0..MaxSaves
    BY <1>3 DEF Begin
  <2>2. saver' \in [Savers -> SaverStates]
    BY <1>3 DEF Begin
  <2>3. thread' \in [Savers -> Thread]
    BY <1>1, <1>3 DEF Begin
  <2>4. pending' \in BOOLEAN
    BY <1>3 DEF Begin
  <2> QED BY <2>1, <2>2, <2>3, <2>4
<1>4. ASSUME NEW s \in Savers, Enter(s)
      PROVE  stamps' \in 0..MaxSaves /\ saver' \in [Savers -> SaverStates]
             /\ thread' \in [Savers -> Thread] /\ pending' \in BOOLEAN
  BY <1>3, <1>4 DEF Enter
<1>5. ASSUME NEW s \in Savers, NEW next \in TaskStates, Resume(s, next)
      PROVE  saver' \in [Savers -> SaverStates] /\ thread' \in [Savers -> Thread]
             /\ task' \in TaskStates /\ phase' \in Phases
  BY <1>2, <1>5 DEF Resume
<1>6. Dirty => pending' \in BOOLEAN /\ activity' \in BOOLEAN
               /\ quiet' \in 0..QuietPeriod /\ stale' \in 0..MaxStaleness
  BY DEF Dirty
<1>7. {"task", "aclose", "caller"} = Savers
  BY DEF Savers
<1>8. CASE Mutate
  BY <1>6, <1>8 DEF Mutate, dirtyVars, boundVars
<1>9. CASE MarkDirty
  BY <1>6, <1>9 DEF MarkDirty, graphVars, boundVars
<1>10. CASE Tick
  BY <1>10 DEF Tick, graphVars, boundVars
<1>11. CASE TaskStep
  BY <1>4, <1>7, <1>11
     DEF TaskStep, TaskWake, TaskSleep, TaskArmTimer, TaskSave, graphVars, boundVars
<1>12. CASE SaveNow
  BY <1>4, <1>7, <1>12 DEF SaveNow, graphVars, boundVars
<1>13. ASSUME NEW s \in Savers, AcquireLock(s)
       PROVE  TypeOK'
  BY <1>3, <1>13 DEF AcquireLock, graphVars, boundVars
<1>14. ASSUME NEW s \in Savers, SaveDone(s)
       PROVE  TypeOK'
  <2>1. PICK stuck \in SUBSET (files \ Prune(files)) :
          /\ ioErrors + Cardinality(stuck) <= MaxIOErrors
          /\ ioErrors' = ioErrors + Cardinality(stuck)
          /\ files' = Prune(files) \cup stuck
    BY <1>14 DEF SaveDone
  <2>2. files' \in SUBSET File
    BY <2>1 DEF Prune
  <2>3. Cardinality(stuck) \in Nat
    BY <2>1, FS_Subset, FS_CardinalityType DEF StampsOK
  <2>4. ioErrors' \in 0..MaxIOErrors
    BY <2>1, <2>3
  <2>5. Resume(s, "loop")
    BY <1>14 DEF SaveDone
  <2> QED BY <1>5, <1>14, <2>2, <2>4, <2>5 DEF SaveDone, graphVars, dirtyVars
<1>15. ASSUME NEW s \in Savers, SaveFailed(s)
       PROVE  TypeOK'
  <2>1. Resume(s, "backoff")
    BY <1>15 DEF SaveFailed
  <2> QED BY <1>5, <1>15, <2>1 DEF SaveFailed, graphVars, boundVars
<1>16. ASSUME NEW s \in Savers, ThreadStart(s)
       PROVE  TypeOK'
  BY <1>16 DEF ThreadStart, Thread, NoThread, graphVars, dirtyVars, boundVars
<1>17. ASSUME NEW s \in Savers, ThreadReplace(s)
       PROVE  TypeOK'
  <2>1. [stamp |-> thread[s].stamp, version |-> thread[s].version,
         mixed |-> thread[s].mixed, kind |-> "ok"] \in File
    BY <1>17 DEF ThreadReplace, Thread, NoThread, File, FileKinds
  <2> QED BY <1>17, <2>1 DEF ThreadReplace, Thread, NoThread, graphVars, dirtyVars, boundVars
<1>18. ASSUME NEW s \in Savers, ThreadFail(s)
       PROVE  TypeOK'
  BY <1>18 DEF ThreadFail, Thread, NoThread, graphVars, dirtyVars
<1>19. CASE AcloseCancel
  BY <1>19 DEF AcloseCancel, graphVars, dirtyVars, boundVars
<1>20. CASE TaskCancelled
  BY <1>2, <1>7, <1>20 DEF TaskCancelled, graphVars, dirtyVars, boundVars
<1>21. CASE AcloseFlush
  BY <1>4, <1>7, <1>21 DEF AcloseFlush, graphVars, boundVars
<1>22. CASE Crash \/ Exit
  <2>1. GoDown
    BY <1>22 DEF Crash, Exit
  <2>2. saver' \in [Savers -> SaverStates] /\ thread' \in [Savers -> Thread]
    BY <1>2, <2>1 DEF GoDown
  <2>3. pending' \in BOOLEAN /\ activity' \in BOOLEAN /\ mixed' \in BOOLEAN
    BY <2>1 DEF GoDown
  <2> QED BY <2>1, <2>2, <2>3 DEF GoDown
<1>23. CASE Start
  <2>1. mixed' \in BOOLEAN
    BY <1>23 DEF Start, Mixes
  <2> QED BY <1>23, <2>1, DiskType DEF Start, dirtyVars, boundVars
<1>24. CASE Damage
  BY <1>24, DamageAssumption
     DEF Damage, Intact, File, FileKinds, graphVars, dirtyVars
<1>25. CASE UNCHANGED vars
  BY <1>25 DEF vars, graphVars, dirtyVars, boundVars
<1> QED
  BY <1>8, <1>9, <1>10, <1>11, <1>12, <1>13, <1>14, <1>15, <1>16, <1>17, <1>18, <1>19, <1>20,
     <1>21, <1>22, <1>23, <1>24, <1>25 DEF Next, SaverStep, ThreadStep, AcloseStep

-----------------------------------------------------------------------------
(* What the operations do to the records of savers and threads. *)

LEMMA ThreadFacts ==
  ASSUME TypeOK
  PROVE  \A s \in Savers : /\ thread[s].stamp \in 0..MaxSaves
                          /\ thread[s].version \in 0..MaxChanges
                          /\ (thread[s].st = "none") <=> (thread[s] = NoThread)
BY BoundAssumption DEF TypeOK, Thread, NoThread

LEMMA BeginEffect ==
  ASSUME TypeOK, NEW s \in Savers, Begin(s)
  PROVE  /\ stamps < MaxSaves /\ stamps' = stamps + 1 /\ stamps \in Nat
         /\ LockFree /\ ~pending'
         /\ saver'[s] = "write"
         /\ thread'[s] = [st |-> "queued", stamp |-> stamps + 1, version |-> graph, mixed |-> mixed]
         /\ \A t \in Savers \ {s} : saver'[t] = saver[t] /\ thread'[t] = thread[t]
BY BoundAssumption DEF TypeOK, Begin

LEMMA ResumeEffect ==
  ASSUME TypeOK, NEW s \in Savers, NEW next, Resume(s, next)
  PROVE  /\ saver'[s] = "out" /\ thread'[s] = NoThread
         /\ \A t \in Savers \ {s} : saver'[t] = saver[t] /\ thread'[t] = thread[t]
         /\ phase' = phase \/ phase' = "closed"
BY DEF TypeOK, Resume

LEMMA ThreadEffect ==
  ASSUME TypeOK, NEW s \in Savers, ThreadStep(s)
  PROVE  /\ \A t \in Savers \ {s} : thread'[t] = thread[t]
         /\ thread'[s].stamp = thread[s].stamp /\ thread'[s].version = thread[s].version
         /\ thread'[s].mixed = thread[s].mixed
         /\ Busy(s) /\ thread'[s].st \in {"writing", "done", "failed"}
         /\ thread[s].st = "writing" => thread'[s].st \in {"done", "failed"}
         /\ thread'[s].st = "done" => ThreadReplace(s)
         /\ UNCHANGED <<graph, heard, stamps, phase, task, saver, pending>>
<1>1. thread[s] \in Thread /\ thread \in [Savers -> Thread]
  BY DEF TypeOK
<1>2. CASE ThreadStart(s)
  BY <1>1, <1>2 DEF ThreadStart, Thread, NoThread, Busy, graphVars, dirtyVars
<1>3. CASE ThreadReplace(s)
  BY <1>1, <1>3 DEF ThreadReplace, Thread, NoThread, Busy, graphVars, dirtyVars
<1>4. CASE ThreadFail(s)
  BY <1>1, <1>4 DEF ThreadFail, Thread, NoThread, Busy, graphVars, dirtyVars
<1> QED BY <1>2, <1>3, <1>4 DEF ThreadStep

LEMMA TaskStepOK ==
  ASSUME TypeOK, TaskOK, PhaseOK, [Next]_vars
  PROVE  TaskOK'
<1> USE DEF TaskOK
<1>1. {"task", "aclose", "caller"} = Savers
  BY DEF Savers
<1>2. ASSUME NEW s \in Savers, Enter(s) \/ Begin(s), s # "task", UNCHANGED <<task, phase>>
      PROVE  TaskOK'
  BY <1>1, <1>2 DEF Enter, Begin, TypeOK
<1>3. ASSUME NEW s \in Savers, NEW next, Resume(s, next), Holds(s)
      PROVE  TaskOK'
  BY <1>1, <1>3 DEF Resume, Holds, LoopFree, TypeOK
<1>4. CASE Mutate \/ MarkDirty \/ Tick \/ AcloseCancel \/ Start \/ Damage
  BY <1>1, <1>4 DEF Mutate, MarkDirty, Tick, AcloseCancel, Start, Damage, PhaseOK, LoopFree
<1>5. CASE TaskWake \/ TaskSleep \/ TaskArmTimer \/ TaskSave
  BY <1>5 DEF TaskWake, TaskSleep, TaskArmTimer, TaskSave
<1>6. CASE SaveNow
  BY <1>1, <1>2, <1>6 DEF SaveNow
<1>7. ASSUME NEW s \in Savers, AcquireLock(s)
      PROVE  TaskOK'
  <2>1. CASE s = "task"
    BY <1>7, <2>1 DEF AcquireLock
  <2> QED BY <1>2, <1>7, <2>1 DEF AcquireLock
<1>8. ASSUME NEW s \in Savers, SaveDone(s) \/ SaveFailed(s)
      PROVE  TaskOK'
  BY <1>3, <1>8 DEF SaveDone, SaveFailed
<1>9. ASSUME NEW s \in Savers, ThreadStep(s)
      PROVE  TaskOK'
  BY <1>9, ThreadEffect
<1>10. CASE AcloseFlush
  BY <1>1, <1>2, <1>10 DEF AcloseFlush
<1>11. CASE TaskCancelled \/ Crash \/ Exit
  BY <1>1, <1>11 DEF TaskCancelled, Crash, Exit, GoDown, TypeOK
<1>12. CASE UNCHANGED vars
  BY <1>12 DEF vars
<1> QED
  BY <1>4, <1>5, <1>6, <1>7, <1>8, <1>9, <1>10, <1>11, <1>12
     DEF Next, TaskStep, SaverStep, AcloseStep

(* Where a save begins, and what the step that begins it leaves alone. *)
Begins(s) ==
  /\ phase # "down"
  /\ s = "task" => phase = "open"
  /\ Begin(s)
  /\ UNCHANGED <<graph, heard, files, phase>>

(* Steps that move neither files nor threads nor the lock. *)
Quiet ==
  /\ UNCHANGED <<files, stamps, thread>>
  /\ UNCHANGED <<graph, heard, phase, pending>>
  /\ \A s \in Savers : (saver'[s] = "write") <=> (saver[s] = "write")
  /\ phase = "down" => UNCHANGED <<saver, task>>

(* Every step, sorted by what it does to the parts the invariant speaks of. *)
LEMMA StepKinds ==
  ASSUME TypeOK, TaskOK, PhaseOK, [Next]_vars
  PROVE  \/ Mutate \/ MarkDirty \/ Quiet
         \/ \E s \in Savers : Begins(s) \/ SaveDone(s) \/ SaveFailed(s) \/ ThreadStep(s)
         \/ AcloseCancel \/ TaskCancelled
         \/ phase = "flushing" /\ phase' = "closed"
               /\ UNCHANGED <<graph, heard, files, stamps, saver, thread, pending>>
         \/ Crash \/ Exit \/ Start \/ Damage
<1>1. {"task", "aclose", "caller"} = Savers
  BY DEF Savers
<1>2. ASSUME NEW s \in Savers, Enter(s), UNCHANGED <<graph, heard, files, phase>>,
             phase # "down", s = "task" => phase = "open"
      PROVE  Begins(s) \/ (Quiet /\ saver'[s] = "lock") \/ saver[s] = "write"
  BY <1>2 DEF Enter, Begins, Quiet, TypeOK
<1>3. CASE Tick
  BY <1>3 DEF Tick, Quiet, graphVars
<1>4. CASE TaskWake \/ TaskSleep \/ TaskArmTimer
  BY <1>4 DEF TaskWake, TaskSleep, TaskArmTimer, Quiet, PhaseOK, graphVars
<1>5. CASE TaskSave
  <2>1. saver["task"] = "out"
    BY <1>5 DEF TaskSave, TaskOK
  <2>2. phase = "open"
    BY <1>5 DEF TaskSave, TaskOK
  <2> QED BY <1>1, <1>2, <1>5, <2>1, <2>2 DEF TaskSave, graphVars
<1>6. CASE SaveNow
  BY <1>1, <1>2, <1>6 DEF SaveNow, LoopFree, graphVars
<1>7. ASSUME NEW s \in Savers, AcquireLock(s)
      PROVE  Begins(s)
  BY <1>7 DEF AcquireLock, LoopFree, Begins, graphVars
<1>8. CASE AcloseFlush
  BY <1>1, <1>2, <1>8 DEF AcloseFlush, graphVars
<1>9. CASE UNCHANGED vars
  BY <1>9 DEF vars, Quiet, graphVars, dirtyVars
<1> QED
  BY <1>3, <1>4, <1>5, <1>6, <1>7, <1>8, <1>9
     DEF Next, TaskStep, SaverStep, AcloseStep

-----------------------------------------------------------------------------

(* What a save leaves: the files it keeps and those it could not unlink. *)
LEMMA SaveDoneFiles ==
  ASSUME IInv, NEW s \in Savers, SaveDone(s)
  PROVE  /\ Prune(files) \subseteq files' /\ files' \subseteq files
         /\ ioErrors <= ioErrors'
         /\ \E stuck \in SUBSET files :
              /\ files' = Prune(files) \cup stuck
              /\ ioErrors' = ioErrors + Cardinality(stuck)
<1>1. PICK stuck \in SUBSET (files \ Prune(files)) :
        files' = Prune(files) \cup stuck /\ ioErrors' = ioErrors + Cardinality(stuck)
  BY DEF SaveDone
<1>2. Prune(files) \subseteq files /\ stuck \subseteq files
  BY DEF Prune
<1>3. Cardinality(stuck) \in Nat
  BY <1>2, FS_Subset, FS_CardinalityType DEF IInv, StampsOK
<1>4. ioErrors \in Nat
  BY BoundAssumption DEF IInv, TypeOK
<1>5. ioErrors <= ioErrors'
  BY <1>1, <1>3, <1>4
<1> QED BY <1>1, <1>2, <1>5

LEMMA StampsStep ==
  ASSUME IInv, [Next]_vars
  PROVE  StampsOK'
<1> USE DEF IInv
<1>1. ASSUME UNCHANGED <<files, stamps, thread>>
      PROVE  StampsOK'
  BY <1>1 DEF StampsOK, Busy
<1>2. CASE Mutate \/ MarkDirty \/ Quiet \/ AcloseCancel \/ Start
  BY <1>1, <1>2 DEF Mutate, MarkDirty, Quiet, AcloseCancel, Start
<1>3. ASSUME UNCHANGED <<files, stamps>>,
             \A s \in Savers : thread'[s] = thread[s] \/ thread'[s] = NoThread
      PROVE  StampsOK'
  BY <1>3 DEF StampsOK, Busy, NoThread
<1>4. ASSUME NEW s \in Savers, Begins(s)
      PROVE  StampsOK'
  <2>1. \A t \in Savers : thread[t].stamp <= stamps
    BY DEF LockOK
  <2>2. \A f \in files : f.stamp \in Nat
    BY FileFacts DEF TypeOK, StampsOK
  <2> QED BY <1>4, <2>1, <2>2, BeginEffect, ThreadFacts DEF Begins, StampsOK, Busy
<1>5. ASSUME NEW s \in Savers, SaveDone(s)
      PROVE  StampsOK'
  <2>1. files' \subseteq files /\ UNCHANGED stamps /\ Resume(s, "loop")
    BY <1>5, SaveDoneFiles DEF SaveDone
  <2>2. IsFiniteSet(files')
    BY <2>1, FS_Subset DEF StampsOK
  <2>3. \A t \in Savers : thread'[t] = thread[t] \/ thread'[t] = NoThread
    BY <2>1, ResumeEffect
  <2> QED BY <2>1, <2>2, <2>3 DEF StampsOK, Busy, NoThread
<1>6. ASSUME NEW s \in Savers, SaveFailed(s)
      PROVE  StampsOK'
  BY <1>3, <1>6, ResumeEffect DEF SaveFailed
<1>7. ASSUME NEW s \in Savers, ThreadStep(s), ~ThreadReplace(s)
      PROVE  StampsOK'
  <2>1. UNCHANGED files
    BY <1>7 DEF ThreadStep, ThreadStart, ThreadFail
  <2> QED BY <1>7, <2>1, ThreadEffect DEF StampsOK, Busy
<1>8. ASSUME NEW s \in Savers, ThreadReplace(s)
      PROVE  StampsOK'
  <2>1. thread'[s].st = "done" /\ ThreadStep(s)
    BY <1>8 DEF ThreadReplace, ThreadStep, TypeOK, Thread, NoThread
  <2> DEFINE x == [stamp |-> thread[s].stamp, version |-> thread[s].version,
                  mixed |-> thread[s].mixed, kind |-> "ok"]
  <2>2. files' = files \cup {x} /\ x.stamp = thread[s].stamp
    BY <1>8 DEF ThreadReplace
  <2> HIDE DEF x
  <2>3. IsFiniteSet(files')
    BY <2>2, FS_AddElement DEF StampsOK
  <2> QED BY <2>1, <2>2, <2>3, ThreadEffect DEF StampsOK, Busy, LockOK
<1>9. CASE TaskCancelled
  BY <1>3, <1>9 DEF TaskCancelled, TypeOK
<1>10. CASE Crash \/ Exit
  BY <1>3, <1>10 DEF Crash, Exit, GoDown
<1>11. CASE Damage
  <2>1. UNCHANGED <<stamps, thread>>
    BY <1>11 DEF Damage
  <2>a. PICK f \in Intact(files), kind \in DamageKinds :
               files' = (files \ {f}) \cup {[f EXCEPT !.kind = kind]}
    BY <1>11 DEF Damage
  <2> DEFINE x == [f EXCEPT !.kind = kind]
  <2>2. f \in files /\ files' = (files \ {f}) \cup {x} /\ x.stamp = f.stamp
    BY <2>a DEF Intact, TypeOK, File
  <2> HIDE DEF x
  <2>3. IsFiniteSet(files')
    BY <2>2, FS_AddElement, FS_RemoveElement DEF StampsOK
  <2> QED BY <2>1, <2>2, <2>3 DEF StampsOK, Busy
<1>12. CASE phase = "flushing" /\ phase' = "closed"
              /\ UNCHANGED <<graph, heard, files, stamps, saver, thread, pending>>
  BY <1>1, <1>12
<1> QED
  BY StepKinds, <1>2, <1>4, <1>5, <1>6, <1>7, <1>8, <1>9, <1>10, <1>11, <1>12

LEMMA LockStep ==
  ASSUME IInv, [Next]_vars
  PROVE  LockOK'
<1> USE DEF IInv
<1>1. ASSUME UNCHANGED <<files, stamps, thread>>,
             \A s \in Savers : (saver'[s] = "write") <=> (saver[s] = "write")
      PROVE  LockOK'
  BY <1>1 DEF LockOK
<1>2. CASE Mutate \/ MarkDirty \/ Quiet \/ AcloseCancel \/ Start
  BY <1>1, <1>2 DEF Mutate, MarkDirty, Quiet, AcloseCancel, Start
<1>3. CASE phase = "flushing" /\ phase' = "closed"
             /\ UNCHANGED <<graph, heard, files, stamps, saver, thread, pending>>
  BY <1>1, <1>3
<1>4. ASSUME NEW s \in Savers, Begins(s)
      PROVE  LockOK'
  <2>1. \A t \in Savers : saver'[t] = "write" <=> t = s
    BY <1>4, BeginEffect DEF Begins, LockFree
  <2>2. stamps' = stamps + 1 /\ stamps \in Nat
    BY <1>4, BeginEffect DEF Begins
  <2>3. thread'[s] = [st |-> "queued", stamp |-> stamps + 1, version |-> graph, mixed |-> mixed]
    BY <1>4, BeginEffect DEF Begins
  <2>4. ASSUME NEW t \in Savers PROVE thread'[t].stamp <= stamps'
    <3>0. thread[t] \in Thread /\ thread[t].stamp <= stamps
      BY DEF TypeOK, LockOK
    <3>1. thread[t].stamp \in Nat /\ thread[t].stamp <= stamps
      BY <3>0, BoundAssumption DEF Thread, NoThread
    <3>2. t # s => thread'[t] = thread[t]
      BY <1>4, BeginEffect DEF Begins
    <3> QED BY <2>2, <2>3, <3>1, <3>2
  <2> QED BY <2>1, <2>2, <2>3, <2>4 DEF LockOK
<1>5. ASSUME NEW s \in Savers, SaveDone(s) \/ SaveFailed(s)
      PROVE  LockOK'
  <2>1. PICK next : Resume(s, next)
    BY <1>5 DEF SaveDone, SaveFailed
  <2>2. UNCHANGED stamps /\ saver[s] = "write"
    BY <1>5 DEF SaveDone, SaveFailed, Holds
  <2>3. \A t \in Savers : saver'[t] # "write"
    BY <2>1, <2>2, ResumeEffect DEF LockOK
  <2>4. \A t \in Savers : thread'[t].stamp <= stamps
    BY <2>1, ResumeEffect, BoundAssumption DEF LockOK, NoThread, TypeOK
  <2> QED BY <2>2, <2>3, <2>4 DEF LockOK
<1>6. ASSUME NEW s \in Savers, ThreadStep(s)
      PROVE  LockOK'
  <2>1. files \subseteq files'
    BY <1>6 DEF ThreadStep, ThreadStart, ThreadReplace, ThreadFail
  <2>2. ThreadReplace(s) =>
          [stamp |-> thread[s].stamp, version |-> thread[s].version,
           mixed |-> thread[s].mixed, kind |-> "ok"] \in files'
    BY DEF ThreadReplace
  <2> QED BY <1>6, <2>1, <2>2, ThreadEffect DEF LockOK
<1>7. CASE TaskCancelled
  <2>1. \A t \in Savers : saver'[t] = "write" => saver[t] = "write" /\ t # "task"
    BY <1>7 DEF TaskCancelled, TypeOK
  <2>2. \A t \in Savers : thread'[t] = thread[t] \/ thread'[t] = NoThread
    BY <1>7 DEF TaskCancelled, TypeOK
  <2>3. \A t \in Savers : t # "task" => thread'[t] = thread[t]
    BY <1>7 DEF TaskCancelled, TypeOK
  <2>4. UNCHANGED <<files, stamps>>
    BY <1>7 DEF TaskCancelled
  <2>5. \A t \in Savers : thread'[t].stamp <= stamps
    BY <2>2, BoundAssumption DEF LockOK, NoThread, TypeOK
  <2>6. \A s, t \in Savers : saver'[s] = "write" /\ saver'[t] = "write" => s = t
    BY <2>1 DEF LockOK
  <2>7. \A s \in Savers : saver'[s] = "write" => saver[s] = "write" /\ thread'[s] = thread[s]
    BY <2>1, <2>3
  <2> QED BY <2>4, <2>5, <2>6, <2>7 DEF LockOK
<1>8. CASE Crash \/ Exit
  BY <1>8, BoundAssumption DEF Crash, Exit, GoDown, LockOK, NoThread, TypeOK
<1>9. CASE Damage
  <2>1. \A s \in Savers : saver'[s] = "out"
    BY <1>9 DEF Damage, PhaseOK
  <2> QED BY <1>9, <2>1 DEF Damage, LockOK
<1> QED
  BY StepKinds, <1>2, <1>3, <1>4, <1>5, <1>6, <1>7, <1>8, <1>9

LEMMA PhaseStep ==
  ASSUME IInv, [Next]_vars
  PROVE  PhaseOK'
<1> USE DEF IInv
<1>1. CASE Mutate \/ MarkDirty \/ AcloseCancel
  BY <1>1 DEF Mutate, MarkDirty, AcloseCancel, PhaseOK, LoopFree
<1>2. CASE Quiet
  BY <1>2 DEF Quiet, PhaseOK
<1>3. CASE phase = "flushing" /\ phase' = "closed"
  BY <1>3 DEF PhaseOK
<1>4. ASSUME NEW s \in Savers, Begins(s)
      PROVE  PhaseOK'
  BY <1>4, BeginEffect DEF Begins, PhaseOK
<1>5. ASSUME NEW s \in Savers, SaveDone(s) \/ SaveFailed(s)
      PROVE  PhaseOK'
  <2>1. PICK next : Resume(s, next)
    BY <1>5 DEF SaveDone, SaveFailed
  <2>2. phase # "down"
    BY <1>5 DEF SaveDone, SaveFailed, Holds, LoopFree
  <2> QED BY <2>1, <2>2, ResumeEffect DEF PhaseOK, NoThread
<1>6. ASSUME NEW s \in Savers, ThreadStep(s)
      PROVE  PhaseOK'
  BY <1>6, ThreadEffect DEF PhaseOK, Busy, NoThread
<1>7. CASE TaskCancelled
  BY <1>7 DEF TaskCancelled, PhaseOK
<1>8. CASE Crash \/ Exit
  BY <1>8 DEF Crash, Exit, GoDown, PhaseOK
<1>9. CASE Start
  BY <1>9 DEF Start, PhaseOK, NoThread
<1>10. CASE Damage
  BY <1>10 DEF Damage, PhaseOK, dirtyVars
<1> QED
  BY StepKinds, <1>1, <1>2, <1>3, <1>4, <1>5, <1>6, <1>7, <1>8, <1>9, <1>10

(* The file of the lock's holder survives the pruning and is then the newest. *)
LEMMA HolderOnDisk ==
  ASSUME IInv, NEW s \in Savers, SaveDone(s), StampsOK', TypeOK'
  PROVE  Disk' = thread[s].version
<1> USE DEF IInv
<1> DEFINE f == [stamp |-> stamps, version |-> thread[s].version,
             mixed |-> thread[s].mixed, kind |-> "ok"]
<1>1. f \in files
  BY DEF SaveDone, Holds, LockOK
<1>2. f.stamp = stamps /\ f.version = thread[s].version /\ f.kind = "ok"
  OBVIOUS
<1> HIDE DEF f
<1>3. Prune(files) \subseteq files' /\ files' \subseteq files /\ stamps' = stamps
  BY SaveDoneFiles DEF SaveDone
<1>4. {g \in files : g.stamp > f.stamp} = {}
  <2>1. \A g \in files : g.stamp <= stamps /\ g.stamp \in Nat
    BY FileFacts DEF StampsOK, TypeOK
  <2>2. stamps \in Nat
    BY BoundAssumption DEF TypeOK
  <2> QED BY <1>2, <2>1, <2>2
<1>5. f \in files'
  BY <1>1, <1>3, <1>4, FS_EmptySet, ParameterAssumption DEF Prune
<1>6. f \in Intact(files')
  BY <1>2, <1>5 DEF Intact
<1>7. \A g \in Intact(files') : g.stamp <= f.stamp
  BY <1>2, <1>3 DEF Intact, StampsOK
<1>8. files' \in SUBSET File /\ IsFiniteSet(files')
  BY DEF TypeOK, StampsOK
<1>9. \A g \in Intact(files') : g \in files' /\ g.stamp \in Nat
  BY <1>8, BoundAssumption DEF Intact, File
<1>10. \A g, h \in Intact(files') : g.stamp = h.stamp => g = h
  BY <1>9 DEF StampsOK
<1>11. NewestVersion(Intact(files')) = f.version
  BY <1>6, <1>7, <1>9, <1>10, NewestIs DEF IsNewest
<1> QED BY <1>2, <1>11 DEF Disk

LEMMA CoveredStep ==
  ASSUME IInv, [Next]_vars, TypeOK', StampsOK'
  PROVE  CoveredOK'
<1> USE DEF IInv
<1>0. graph \in Nat /\ heard \in Nat /\ Disk \in Nat
  BY DiskType, BoundAssumption DEF TypeOK
<1>1. CASE Mutate
  BY <1>0, <1>1 DEF Mutate, Dirty, CoveredOK
<1>2. CASE MarkDirty
  BY <1>2 DEF MarkDirty, Dirty, CoveredOK, graphVars
<1>3. CASE Quiet
  <2>1. LockFree' <=> LockFree
    BY <1>3 DEF Quiet, LockFree
  <2>2. Disk' = Disk
    BY <1>3 DEF Quiet, Disk
  <2> QED BY <1>3, <2>1, <2>2 DEF Quiet, CoveredOK
<1>4. CASE phase' # "open" /\ UNCHANGED <<graph, heard>>
  BY <1>4 DEF CoveredOK
<1>5. CASE AcloseCancel \/ TaskCancelled \/ Damage
  BY <1>4, <1>5 DEF AcloseCancel, TaskCancelled, Damage, graphVars
<1>6. CASE Crash \/ Exit
  BY <1>6 DEF Crash, Exit, GoDown, CoveredOK
<1>7. ASSUME NEW s \in Savers, Begins(s)
      PROVE  CoveredOK'
  <2>1. saver'[s] = "write" /\ thread'[s].version = graph
    BY <1>7, BeginEffect DEF Begins
  <2>2. UNCHANGED <<graph, heard>>
    BY <1>7 DEF Begins
  <2> QED BY <1>0, <2>1, <2>2 DEF CoveredOK
<1>8. ASSUME NEW s \in Savers, SaveFailed(s)
      PROVE  CoveredOK'
  BY <1>8 DEF SaveFailed, CoveredOK, graphVars
<1>9. ASSUME NEW s \in Savers, SaveDone(s)
      PROVE  CoveredOK'
  <2>1. Disk' = thread[s].version
    BY <1>9, HolderOnDisk
  <2>2. Resume(s, "loop") /\ UNCHANGED <<graph, heard, pending>> /\ saver[s] = "write"
    BY <1>9 DEF SaveDone, Holds, graphVars, dirtyVars
  <2>3. LockFree'
    BY <2>2, ResumeEffect DEF LockOK, LockFree
  <2>4. phase' = "open" => phase = "open"
    BY <2>2, ResumeEffect
  <2>5. phase = "open" /\ ~pending => thread[s].version >= heard
    BY <2>2 DEF CoveredOK, LockFree, LockOK
  <2> QED BY <2>1, <2>2, <2>3, <2>4, <2>5 DEF CoveredOK
<1>10. ASSUME NEW s \in Savers, ThreadStep(s)
       PROVE  CoveredOK'
  <2>1. UNCHANGED <<graph, heard, phase, pending, saver>> /\ Busy(s)
    BY <1>10, ThreadEffect
  <2>2. \A t \in Savers : thread'[t].version = thread[t].version
    BY <1>10, ThreadEffect
  <2>3. phase = "open" => ~LockFree
    BY <2>1 DEF PhaseOK, Busy, LockFree
  <2> QED BY <2>1, <2>2, <2>3 DEF CoveredOK
<1>11. CASE Start
  <2>1. heard' = Restored(files) /\ graph' = Restored(files) /\ Disk' = Disk
    BY <1>11 DEF Start, Disk
  <2>2. LockFree'
    BY <1>11 DEF Start, PhaseOK, LockFree
  <2>3. Restored(files) \in Nat /\ Restored(files) <= Disk
    BY <1>0, RestoredCases, DiskType, BoundAssumption DEF TypeOK
  <2> QED BY <1>0, <2>1, <2>2, <2>3 DEF CoveredOK
<1>12. CASE phase = "flushing" /\ phase' = "closed"
              /\ UNCHANGED <<graph, heard, files, stamps, saver, thread, pending>>
  BY <1>4, <1>12
<1> QED
  BY StepKinds, <1>1, <1>2, <1>3, <1>5, <1>6, <1>7, <1>8, <1>9, <1>10, <1>11, <1>12

LEMMA Inductive == IInv /\ [Next]_vars => IInv'
<1> SUFFICES ASSUME IInv, [Next]_vars PROVE IInv'
  OBVIOUS
<1>1. TypeOK' /\ TaskOK'
  BY TypeStep, TaskStepOK DEF IInv
<1>2. StampsOK' /\ LockOK' /\ PhaseOK'
  BY StampsStep, LockStep, PhaseStep
<1>3. CoveredOK'
  BY <1>1, <1>2, CoveredStep
<1> QED BY <1>1, <1>2, <1>3 DEF IInv

LEMMA Invariance == Spec => []IInv
BY InitInv, Inductive, PTL DEF Spec

-----------------------------------------------------------------------------
(* The theorems. *)

(* The types of snapshots.py's state are kept by every coroutine and thread. *)
THEOREM TypeCorrect == Spec => []TypeOK
<1>1. IInv => TypeOK
  BY DEF IInv
<1> QED BY <1>1, Invariance, PTL

(* While the manager is open, a clear _pending flag never hides a change that  *)
(* is neither on disk nor in the hands of the save that holds the lock.        *)
THEOREM NothingLostAlways == Spec => []NothingLost
<1>1. IInv => NothingLost
  BY DEF IInv, CoveredOK, NothingLost
<1> QED BY <1>1, Invariance, PTL

(* Until aclose() cancels the task, two threads never write at the same time.  *)
THEOREM OneWriterAlways == Spec => []OneWriter
<1>1. ASSUME IInv, phase = "open"
      PROVE  Cardinality({s \in Savers : Busy(s)}) <= 1
  <2>1. \A s, t \in Savers : Busy(s) /\ Busy(t) => s = t
    BY <1>1 DEF IInv, PhaseOK, LockOK, Busy
  <2>2. CASE {s \in Savers : Busy(s)} = {}
    BY <2>2, FS_EmptySet
  <2>3. ASSUME NEW s \in Savers, Busy(s)
        PROVE  Cardinality({t \in Savers : Busy(t)}) <= 1
    <3>1. {t \in Savers : Busy(t)} = {s}
      BY <2>1, <2>3
    <3> QED BY <3>1, FS_Singleton
  <2> QED BY <2>2, <2>3
<1>2. IInv => OneWriter
  BY <1>1 DEF OneWriter
<1> QED BY <1>2, Invariance, PTL

(* No stored file is a valid empty database. *)
NoEmpties == \A f \in files : f.kind # "empty"

LEMMA NoEmptiesStep ==
  ASSUME "empty" \notin DamageKinds, IInv, NoEmpties, [Next]_vars
  PROVE  NoEmpties'
<1> USE DEF IInv, NoEmpties
<1>1. CASE files' \subseteq files
  BY <1>1
<1>2. ASSUME NEW s \in Savers, ThreadReplace(s)
      PROVE  NoEmpties'
  BY <1>2 DEF ThreadReplace
<1>3. CASE Damage
  BY <1>3, DamageAssumption DEF Damage, Intact, TypeOK, File
<1>4. \/ files' \subseteq files \/ Damage \/ \E s \in Savers : ThreadReplace(s)
  BY StepKinds DEF Mutate, MarkDirty, Quiet, Begins, SaveDone, SaveFailed, Prune, ThreadStep,
     ThreadStart, ThreadFail, AcloseCancel, TaskCancelled, Crash, Exit, GoDown, Start
<1> QED BY <1>1, <1>2, <1>3, <1>4

-----------------------------------------------------------------------------
(* How far retention is overshot. *)

LEMMA Least ==
  ASSUME NEW T \in SUBSET Nat, T # {}
  PROVE  \E x \in T : \A y \in T : x <= y
<1> DEFINE R == OpToRel(<, Nat)
<1>1. IsWellFoundedOn(R, Nat)
  BY NatLessThanWellFounded
<1>2. PICK x \in T : \A y \in T : ~(<<y, x>> \in R)
  <2> HIDE DEF R
  <2> QED BY <1>1, WFMin
<1>3. ASSUME NEW y \in T PROVE x <= y
  <2>1. x \in Nat /\ y \in Nat
    OBVIOUS
  <2>2. y < x => <<y, x>> \in R
    BY <2>1 DEF OpToRel
  <2>3. ~(y < x)
    <3> HIDE DEF R
    <3> QED BY <1>2, <2>2
  <2> HIDE DEF R
  <2> QED BY <2>1, <2>3, SMT
<1> QED BY <1>3

(* The files that outlive _prune() all name newer ones than the oldest of them *)
(* but itself, so there are no more than it keeps.                             *)
LEMMA PruneBounds ==
  ASSUME NEW fs, IsFiniteSet(fs), \A f \in fs : f.stamp \in Nat,
         \A f, g \in fs : f.stamp = g.stamp => f = g
  PROVE  Cardinality(Prune(fs)) <= Retention
<1> DEFINE newer(f) == {g \in fs : g.stamp > f.stamp}
           K == {f \in fs : Cardinality(newer(f)) < Retention}
<1> SUFFICES Cardinality(K) <= Retention
  BY DEF Prune
<1>1. K \subseteq fs
  OBVIOUS
<1>2. IsFiniteSet(K) /\ Cardinality(K) \in Nat
  <2> HIDE DEF K
  <2> QED BY <1>1, FS_Subset, FS_CardinalityType
<1>3. CASE K = {}
  <2> HIDE DEF K
  <2> QED BY <1>3, FS_EmptySet, ParameterAssumption
<1>4. CASE K # {}
  <2> DEFINE T == {f.stamp : f \in K}
  <2>1. T \in SUBSET Nat /\ T # {}
    BY <1>4
  <2>2. PICK x \in T : \A y \in T : x <= y
    <3> HIDE DEF T
    <3> QED BY <2>1, Least
  <2>3. PICK f \in K : f.stamp = x
    OBVIOUS
  <2>4. ASSUME NEW g \in K PROVE f.stamp <= g.stamp
    <3> HIDE DEF K
    <3>1. g.stamp \in T
      OBVIOUS
    <3> HIDE DEF T
    <3> QED BY <2>2, <2>3, <3>1
  <2>5. K \ {f} \subseteq newer(f)
    <3> SUFFICES ASSUME NEW g \in K, g # f PROVE g \in newer(f)
      OBVIOUS
    <3>1. g.stamp # f.stamp /\ g.stamp \in Nat /\ f.stamp \in Nat
      BY <1>1
    <3> QED BY <2>4, <3>1
  <2>6. Cardinality(newer(f)) < Retention
    OBVIOUS
  <2>7. IsFiniteSet(newer(f)) /\ Cardinality(newer(f)) \in Nat
    <3>1. newer(f) \subseteq fs
      OBVIOUS
    <3> HIDE DEF newer
    <3> QED BY <3>1, FS_Subset, FS_CardinalityType
  <2>8. Cardinality(K \ {f}) <= Cardinality(newer(f))
    <3> HIDE DEF newer, K
    <3> QED BY <2>5, <2>7, FS_Subset
  <2>9. Cardinality(K) = Cardinality(K \ {f}) + 1 /\ Cardinality(K \ {f}) \in Nat
    <3> HIDE DEF K
    <3>1. IsFiniteSet(K \ {f}) /\ Cardinality(K \ {f}) = Cardinality(K) - 1
      BY <1>2, <2>3, FS_RemoveElement
    <3>2. Cardinality(K \ {f}) \in Nat
      BY <3>1, FS_CardinalityType
    <3> QED BY <1>2, <3>1, <3>2
  <2> HIDE DEF K, newer
  <2> QED BY <1>2, <2>6, <2>7, <2>8, <2>9, ParameterAssumption
<1> QED BY <1>3, <1>4

(* The saves between os.replace and _prune. *)
Unpruned == {s \in Savers : thread[s].st = "done"}

(* Only the cancelled task leaves a thread whose caller has let go of the lock. *)
AbandonedOK ==
  \A s \in Savers : thread[s].st # "none" =>
    saver[s] = "write" \/ (s = "task" /\ phase \notin {"open", "down"})

(* Every file past the cap is one that a save is about to prune, one of the two *)
(* at most that a process which went away had left, or one not unlinked.        *)
RoomOK == Cardinality(files) <= Retention + 2 * outages + ioErrors + Cardinality(Unpruned)

LEMMA ErrorsGrow ==
  ASSUME IInv, [Next]_vars
  PROVE  ioErrors <= ioErrors'
<1>1. ioErrors \in Nat
  BY BoundAssumption DEF IInv, TypeOK
<1>2. ASSUME NEW s \in Savers, AcquireLock(s) \/ SaveFailed(s) \/ ThreadStep(s)
      PROVE  ioErrors <= ioErrors'
  BY <1>1, <1>2 DEF AcquireLock, SaveFailed, ThreadStep, ThreadStart, ThreadReplace, ThreadFail,
     boundVars
<1>3. ASSUME NEW s \in Savers, SaveDone(s)
      PROVE  ioErrors <= ioErrors'
  BY <1>3, SaveDoneFiles
<1>4. CASE TaskStep \/ AcloseStep \/ AcloseCancel \/ SaveNow
  BY <1>1, <1>4 DEF TaskStep, TaskWake, TaskSleep, TaskArmTimer, TaskSave, AcloseStep,
     TaskCancelled, AcloseFlush, AcloseCancel, SaveNow, boundVars
<1>5. CASE Mutate \/ MarkDirty \/ Tick \/ Crash \/ Exit \/ Start \/ Damage \/ UNCHANGED vars
  BY <1>1, <1>5 DEF Mutate, MarkDirty, Tick, Crash, Exit, GoDown, Start, Damage, vars, boundVars
<1> QED BY <1>2, <1>3, <1>4, <1>5 DEF Next, SaverStep

LEMMA UnprunedFacts ==
  ASSUME IInv, AbandonedOK
  PROVE  /\ IsFiniteSet(Savers) /\ IsFiniteSet(Unpruned)
         /\ Cardinality(Unpruned) \in Nat /\ Cardinality(Unpruned) <= 2
         /\ phase = "open" => Cardinality(Unpruned) <= 1
         /\ phase = "down" => Cardinality(Unpruned) = 0
         /\ IsFiniteSet(files) /\ Cardinality(files) \in Nat
         /\ outages \in Nat
<1> USE DEF IInv
<1>1. IsFiniteSet(Savers)
  <2>1. Savers = ({"task"} \cup {"aclose"}) \cup {"caller"}
    BY DEF Savers
  <2>2. IsFiniteSet({"task"} \cup {"aclose"})
    BY FS_Singleton, FS_AddElement
  <2> QED BY <2>1, <2>2, FS_AddElement
<1>2. Unpruned \subseteq Savers
  BY DEF Unpruned
<1>3. IsFiniteSet(Unpruned) /\ Cardinality(Unpruned) \in Nat
  BY <1>1, <1>2, FS_Subset, FS_CardinalityType
<1>4. IsFiniteSet(files) /\ Cardinality(files) \in Nat /\ outages \in Nat
  BY FS_CardinalityType, BoundAssumption DEF StampsOK, TypeOK
<1>5. PICK h \in Savers : \A s \in Savers : saver[s] = "write" => s = h
  BY DEF LockOK, Savers
<1>6. Unpruned \subseteq {"task", h}
  BY <1>5 DEF Unpruned, AbandonedOK
<1>7. Cardinality(Unpruned) <= 2
  <2>1. IsFiniteSet({h}) /\ Cardinality({h}) = 1
    BY FS_Singleton
  <2>2. {"task", h} = {h} \cup {"task"}
    OBVIOUS
  <2>3. IsFiniteSet({"task", h}) /\ Cardinality({"task", h}) \in {1, 2}
    BY <2>1, <2>2, FS_AddElement
  <2>4. Cardinality(Unpruned) <= Cardinality({"task", h})
    BY <1>6, <2>3, FS_Subset
  <2> QED BY <1>3, <2>3, <2>4
<1>8. ASSUME phase = "open"
      PROVE  Cardinality(Unpruned) <= 1
  <2>1. Unpruned \subseteq {h}
    BY <1>5, <1>8 DEF Unpruned, AbandonedOK
  <2>2. IsFiniteSet({h}) /\ Cardinality({h}) = 1
    BY FS_Singleton
  <2>3. Cardinality(Unpruned) <= Cardinality({h})
    BY <2>1, <2>2, FS_Subset
  <2> QED BY <2>2, <2>3
<1>9. phase = "down" => Unpruned = {}
  BY DEF PhaseOK, Unpruned, NoThread
<1> QED BY <1>1, <1>3, <1>4, <1>7, <1>8, <1>9, FS_EmptySet, BoundAssumption

LEMMA AbandonedStep ==
  ASSUME IInv, AbandonedOK, [Next]_vars
  PROVE  AbandonedOK'
<1> USE DEF IInv, AbandonedOK
<1>1. CASE Mutate \/ MarkDirty \/ AcloseCancel
  BY <1>1 DEF Mutate, MarkDirty, AcloseCancel
<1>2. CASE Quiet
  BY <1>2 DEF Quiet
<1>3. CASE phase = "flushing" /\ phase' = "closed"
             /\ UNCHANGED <<graph, heard, files, stamps, saver, thread, pending>>
  BY <1>3
<1>4. ASSUME NEW s \in Savers, Begins(s)
      PROVE  AbandonedOK'
  BY <1>4, BeginEffect DEF Begins
<1>5. ASSUME NEW s \in Savers, SaveDone(s) \/ SaveFailed(s)
      PROVE  AbandonedOK'
  <2>1. PICK next : Resume(s, next)
    BY <1>5 DEF SaveDone, SaveFailed
  <2> QED BY <2>1, ResumeEffect DEF NoThread
<1>6. ASSUME NEW s \in Savers, ThreadStep(s)
      PROVE  AbandonedOK'
  BY <1>6, ThreadEffect DEF Busy
<1>7. CASE TaskCancelled
  BY <1>7 DEF TaskCancelled, TypeOK
<1>8. CASE Crash \/ Exit
  BY <1>8 DEF Crash, Exit, GoDown, NoThread
<1>9. CASE Start
  BY <1>9 DEF Start, PhaseOK, NoThread
<1>10. CASE Damage
  BY <1>10 DEF Damage
<1> QED
  BY StepKinds, <1>1, <1>2, <1>3, <1>4, <1>5, <1>6, <1>7, <1>8, <1>9, <1>10

LEMMA RoomStep ==
  ASSUME IInv, AbandonedOK, RoomOK, [Next]_vars, IInv', AbandonedOK'
  PROVE  RoomOK'
<1> USE DEF IInv
<1>0. /\ Retention \in Nat /\ outages \in Nat /\ outages' \in Nat
      /\ ioErrors \in Nat /\ ioErrors' \in Nat /\ ioErrors <= ioErrors'
      /\ IsFiniteSet(files) /\ Cardinality(files) \in Nat
      /\ IsFiniteSet(files') /\ Cardinality(files') \in Nat
      /\ IsFiniteSet(Unpruned) /\ Cardinality(Unpruned) \in Nat /\ Cardinality(Unpruned) <= 2
      /\ IsFiniteSet(Unpruned') /\ Cardinality(Unpruned') \in Nat
  <2>1. IsFiniteSet(Savers) /\ Unpruned' \subseteq Savers
    BY UnprunedFacts DEF Unpruned
  <2>2. IsFiniteSet(Unpruned') /\ Cardinality(Unpruned') \in Nat
    BY <2>1, FS_Subset, FS_CardinalityType
  <2>3. IsFiniteSet(files') /\ Cardinality(files') \in Nat
    BY FS_CardinalityType DEF StampsOK
  <2>4. ioErrors \in Nat /\ ioErrors' \in Nat
    BY BoundAssumption DEF TypeOK
  <2> QED BY <2>2, <2>3, <2>4, ErrorsGrow, UnprunedFacts, ParameterAssumption, BoundAssumption
          DEF TypeOK
<1>1. ASSUME UNCHANGED <<files, outages>>, Unpruned' = Unpruned
      PROVE  RoomOK'
  BY <1>0, <1>1 DEF RoomOK
<1>2. ASSUME UNCHANGED thread PROVE Unpruned' = Unpruned
  BY <1>2 DEF Unpruned
<1>3. CASE outages' = outages
  <2>1. CASE Mutate \/ MarkDirty \/ Quiet \/ AcloseCancel \/ Start
    BY <1>1, <1>2, <1>3, <2>1 DEF Mutate, MarkDirty, Quiet, AcloseCancel, Start
  <2>2. CASE phase = "flushing" /\ phase' = "closed"
               /\ UNCHANGED <<graph, heard, files, stamps, saver, thread, pending>>
    BY <1>1, <1>2, <1>3, <2>2
  <2>3. ASSUME NEW s \in Savers, Begins(s) PROVE RoomOK'
    <3>1. thread[s].st = "none"
      BY <2>3 DEF Begins, Begin, LockFree, AbandonedOK
    <3>2. Unpruned' = Unpruned
      BY <2>3, <3>1, BeginEffect DEF Begins, Unpruned
    <3> QED BY <1>1, <1>3, <2>3, <3>2 DEF Begins
  <2>4. ASSUME NEW s \in Savers, SaveDone(s) PROVE RoomOK'
    <3>1. PICK stuck \in SUBSET files :
            files' = Prune(files) \cup stuck /\ ioErrors' = ioErrors + Cardinality(stuck)
      BY <2>4, SaveDoneFiles
    <3>2. Cardinality(Prune(files)) <= Retention
      BY PruneBounds, FileFacts DEF StampsOK, TypeOK
    <3>3. IsFiniteSet(Prune(files)) /\ IsFiniteSet(stuck)
      <4>1. Prune(files) \subseteq files
        BY DEF Prune
      <4> QED BY <1>0, <4>1, FS_Subset
    <3>4. Cardinality(Prune(files)) \in Nat /\ Cardinality(stuck) \in Nat
      BY <3>3, FS_CardinalityType
    <3>5. Cardinality(files') <= Cardinality(Prune(files)) + Cardinality(stuck)
      <4>1. IsFiniteSet(Prune(files) \cap stuck)
        BY <3>3, FS_Intersection
      <4>2. Cardinality(Prune(files) \cap stuck) \in Nat
        BY <4>1, FS_CardinalityType
      <4>3. Cardinality(Prune(files) \cup stuck) = Cardinality(Prune(files))
              + Cardinality(stuck) - Cardinality(Prune(files) \cap stuck)
        BY <3>3, FS_Union
      <4> QED BY <3>1, <3>4, <4>2, <4>3
    <3> QED BY <1>0, <3>1, <3>2, <3>4, <3>5 DEF RoomOK
  <2>5. ASSUME NEW s \in Savers, SaveFailed(s) PROVE RoomOK'
    <3>1. Resume(s, "backoff") /\ thread[s].st = "failed" /\ UNCHANGED files
      BY <2>5 DEF SaveFailed
    <3>2. Unpruned' = Unpruned
      BY <3>1, ResumeEffect DEF Unpruned, NoThread
    <3> QED BY <1>1, <1>3, <3>1, <3>2
  <2>6. ASSUME NEW s \in Savers, ThreadReplace(s) PROVE RoomOK'
    <3>1. thread[s].st = "writing" /\ ThreadStep(s)
      BY <2>6 DEF ThreadReplace, ThreadStep
    <3>2. thread'[s].st = "done" /\ \A t \in Savers \ {s} : thread'[t] = thread[t]
      BY <2>6 DEF ThreadReplace, TypeOK, Thread, NoThread
    <3>3. Unpruned' = Unpruned \cup {s} /\ s \notin Unpruned
      BY <3>1, <3>2 DEF Unpruned
    <3>4. Cardinality(Unpruned') = Cardinality(Unpruned) + 1
      BY <1>0, <3>3, FS_AddElement
    <3>5. PICK x : files' = files \cup {x}
      BY <2>6 DEF ThreadReplace
    <3>6. Cardinality(files') <= Cardinality(files) + 1
      BY <1>0, <3>5, FS_AddElement
    <3> QED BY <1>0, <1>3, <3>4, <3>6 DEF RoomOK
  <2>7. ASSUME NEW s \in Savers, ThreadStep(s), ~ThreadReplace(s) PROVE RoomOK'
    <3>1. UNCHANGED files
      BY <2>7 DEF ThreadStep, ThreadStart, ThreadFail
    <3>2. \A t \in Savers : (thread'[t].st = "done") <=> (thread[t].st = "done")
      BY <2>7, ThreadEffect DEF Busy
    <3> QED BY <1>1, <1>3, <3>1, <3>2 DEF Unpruned
  <2>8. CASE TaskCancelled
    <3>1. \A t \in Savers : (thread'[t].st = "done") <=> (thread[t].st = "done")
      BY <2>8 DEF TaskCancelled, TypeOK, NoThread
    <3> QED BY <1>1, <1>3, <2>8, <3>1 DEF TaskCancelled, Unpruned
  <2>9. CASE Damage
    <3>a. PICK f \in files : \E x : files' = (files \ {f}) \cup {x}
      BY <2>9 DEF Damage, Intact
    <3>1. PICK x : files' = (files \ {f}) \cup {x}
      BY <3>a
    <3>2. IsFiniteSet(files \ {f}) /\ Cardinality(files \ {f}) = Cardinality(files) - 1
      BY <1>0, <3>1, FS_RemoveElement
    <3>3. Cardinality(files') <= Cardinality(files)
      BY SMTT(30), <1>0, <3>1, <3>2, FS_AddElement
    <3>4. Unpruned' = Unpruned
      BY <1>2, <2>9 DEF Damage
    <3> QED BY <1>0, <1>3, <3>3, <3>4 DEF RoomOK
  <2>10. ~(Crash \/ Exit)
    BY <1>0, <1>3 DEF Crash, Exit, GoDown
  <2> QED BY StepKinds, <2>1, <2>2, <2>3, <2>4, <2>5, <2>6, <2>7, <2>8, <2>9, <2>10
<1>4. CASE Crash \/ Exit
  <2>1. files' = files /\ outages' = outages + 1
    BY <1>4 DEF Crash, Exit, GoDown
  <2> QED BY <1>0, <2>1 DEF RoomOK
<1>5. outages' = outages \/ Crash \/ Exit
  <2>1. ASSUME NEW s \in Savers, SaverStep(s) \/ ThreadStep(s) PROVE outages' = outages
    BY <2>1 DEF SaverStep, ThreadStep, AcquireLock, SaveDone, SaveFailed, ThreadStart,
       ThreadReplace, ThreadFail, boundVars
  <2>2. CASE TaskStep \/ AcloseStep \/ AcloseCancel
    BY <2>2 DEF TaskStep, TaskWake, TaskSleep, TaskArmTimer, TaskSave, AcloseStep,
       TaskCancelled, AcloseFlush, AcloseCancel, boundVars
  <2> QED BY <2>1, <2>2
          DEF Next, Mutate, MarkDirty, Tick, SaveNow, Start, Damage, vars, boundVars
<1> QED BY <1>3, <1>4, <1>5

(* Whatever saves die, are cancelled or outlive their process, the directory   *)
(* holds no more than the retained files, the one or two the living process is *)
(* about to prune, two for each process that went away, and one for each write  *)
(* or unlink that failed.                                                       *)
THEOREM RetentionOvershootBounded == Spec => []RetentionOvershoot
<1> DEFINE All == AbandonedOK /\ RoomOK
<1>1. Init => All
  <2> SUFFICES ASSUME Init PROVE AbandonedOK /\ RoomOK
    OBVIOUS
  <2>1. AbandonedOK
    BY DEF Init, AbandonedOK, NoThread
  <2>2. files = {} /\ Unpruned = {} /\ outages = 0 /\ ioErrors = 0
    BY DEF Init, Unpruned, NoThread
  <2> QED BY <2>1, <2>2, FS_EmptySet, ParameterAssumption DEF RoomOK
<1>2. IInv /\ IInv' /\ All /\ [Next]_vars => All'
  BY AbandonedStep, RoomStep
<1>3. IInv /\ All => RetentionOvershoot
  <2> SUFFICES ASSUME IInv, AbandonedOK, RoomOK PROVE RetentionOvershoot
    OBVIOUS
  <2> DEFINE c == Cardinality(files)
             u == Cardinality(Unpruned)
  <2>1. /\ c \in Nat /\ u \in Nat /\ outages \in Nat /\ Retention \in Nat /\ ioErrors \in Nat
        /\ u <= 2
        /\ phase = "open" => u <= 1
        /\ phase = "down" => u = 0
    BY UnprunedFacts, ParameterAssumption, BoundAssumption DEF IInv, TypeOK
  <2>2. c <= Retention + 2 * outages + ioErrors + u
    BY DEF RoomOK
  <2> HIDE DEF c, u
  <2>3. c <= Retention + 2 * outages + ioErrors
               + (IF phase = "down" THEN 0 ELSE IF phase = "open" THEN 1 ELSE 2)
    BY <2>1, <2>2
  <2> QED BY <2>3 DEF RetentionOvershoot, c
<1> QED BY <1>1, <1>2, <1>3, Invariance, PTL DEF Spec

-----------------------------------------------------------------------------
(* The refinement of DurableGraph. *)

LEMMA NewestBounds ==
  ASSUME NEW fs, IsFiniteSet(fs),
         \A f \in fs : f.stamp \in Nat,
         \A f, g \in fs : f.stamp = g.stamp => f = g,
         \A f, g \in fs : f.stamp <= g.stamp => f.version <= g.version
  PROVE  /\ \/ NewestVersion(fs) = 0 /\ fs = {}
            \/ \E f \in fs : NewestVersion(fs) = f.version
         /\ \A f \in fs : f.version <= NewestVersion(fs)
<1>1. CASE fs = {}
  BY <1>1 DEF NewestVersion
<1>2. CASE fs # {}
  <2>1. PICK f \in fs : IsNewest(f, fs)
    BY <1>2, NewestExists
  <2>2. NewestVersion(fs) = f.version
    BY <2>1, NewestIs
  <2> QED BY <2>1, <2>2 DEF IsNewest
<1> QED BY <1>1, <1>2

(* Disk is 0 or the version of an intact file, and bounds them all. *)
LEMMA DiskBounds ==
  ASSUME IInv, Chronological
  PROVE  /\ Disk = 0 \/ \E f \in Intact(files) : Disk = f.version
         /\ \A f \in Intact(files) : f.version <= Disk
<1>1. /\ IsFiniteSet(Intact(files))
      /\ \A f \in Intact(files) : f \in files /\ f.stamp \in Nat
  BY FileFacts DEF IInv, StampsOK, TypeOK
<1>2. \A f, g \in Intact(files) : f.stamp = g.stamp => f = g
  BY <1>1 DEF IInv, StampsOK
<1>3. \A f, g \in Intact(files) : f.stamp <= g.stamp => f.version <= g.version
  BY DEF Chronological, Candidates
<1> QED BY <1>1, <1>2, <1>3, NewestBounds DEF Disk

LEMMA DiskBoundsPrime ==
  ASSUME IInv', Chronological'
  PROVE  /\ Disk' = 0 \/ \E f \in Intact(files') : Disk' = f.version
         /\ \A f \in Intact(files') : f.version <= Disk'
<1>1. Intact(files') \subseteq files' /\ IsFiniteSet(files') /\ files' \in SUBSET File
  BY DEF IInv, StampsOK, TypeOK, Intact
<1>2. /\ IsFiniteSet(Intact(files'))
      /\ \A f \in Intact(files') : f \in files' /\ f.stamp \in Nat
  BY <1>1, FS_Subset, BoundAssumption DEF File
<1>3. \A f, g \in Intact(files') : f.stamp = g.stamp => f = g
  BY <1>2 DEF IInv, StampsOK
<1>4. \A f, g \in Intact(files') : f.stamp <= g.stamp => f.version <= g.version
  BY DEF Chronological, Candidates
<1> QED BY <1>2, <1>3, <1>4, NewestBounds DEF Disk

(* What a candidate is, for the steps that follow. *)
LEMMA CandidateFacts ==
  ASSUME IInv
  PROVE  \A f \in Candidates : f.stamp \in Nat /\ f.version \in Nat /\ f.stamp <= stamps
<1> USE BoundAssumption DEF IInv
<1>1. \A f \in Intact(files) : f.stamp \in Nat /\ f.version \in Nat /\ f.stamp <= stamps
  BY FileFacts DEF StampsOK, TypeOK
<1>2. ASSUME NEW s \in Savers
      PROVE  thread[s].stamp \in Nat /\ thread[s].version \in Nat /\ thread[s].stamp <= stamps
  <2>1. thread[s] \in Thread /\ thread[s].stamp <= stamps
    BY DEF TypeOK, LockOK
  <2> QED BY <2>1 DEF Thread, NoThread
<1> QED BY <1>1, <1>2 DEF Candidates

LEMMA ChronologicalStep ==
  ASSUME "empty" \notin DamageKinds, IInv, NoEmpties, Chronological, [Next]_vars, IInv'
  PROVE  Chronological'
<1> USE DEF IInv
<1>1. ASSUME Candidates' \subseteq Candidates,
             phase' # "down" => phase # "down" /\ graph <= graph'
      PROVE  Chronological'
  <2>1. graph \in Nat /\ graph' \in Nat
    BY BoundAssumption DEF TypeOK
  <2> QED BY <1>1, <2>1, CandidateFacts DEF Chronological
<1>2. ASSUME Intact(files') \subseteq Intact(files),
             \A s \in Savers : thread'[s] = thread[s] \/ ~Busy(s)'
      PROVE  Candidates' \subseteq Candidates
  BY <1>2 DEF Candidates, Busy
<1>3. graph \in Nat
  BY BoundAssumption DEF TypeOK
<1>4. CASE Mutate
  BY <1>1, <1>2, <1>3, <1>4 DEF Mutate, LoopFree
<1>5. CASE MarkDirty \/ AcloseCancel
  BY <1>1, <1>2, <1>3, <1>5 DEF MarkDirty, AcloseCancel, LoopFree, graphVars
<1>6. CASE Quiet
  BY <1>1, <1>2, <1>3, <1>6 DEF Quiet
<1>7. CASE phase = "flushing" /\ phase' = "closed"
             /\ UNCHANGED <<graph, heard, files, stamps, saver, thread, pending>>
  BY <1>1, <1>2, <1>3, <1>7
<1>8. ASSUME NEW s \in Savers, Begins(s)
      PROVE  Chronological'
  <2> DEFINE x == [stamp |-> stamps + 1, version |-> graph, mixed |-> mixed, kind |-> "ok"]
  <2>1. x.stamp = stamps + 1 /\ x.version = graph
    OBVIOUS
  <2>2. Candidates' \subseteq Candidates \cup {x}
    <3>1. \A t \in Savers \ {s} : thread'[t] = thread[t]
      BY <1>8, BeginEffect DEF Begins
    <3>2. /\ thread'[s].stamp = stamps + 1 /\ thread'[s].version = graph
          /\ thread'[s].mixed = mixed
      BY <1>8, BeginEffect DEF Begins
    <3> QED BY <1>8, <3>1, <3>2 DEF Candidates, Begins, Busy
  <2> HIDE DEF x
  <2>3. \A f \in Candidates : f.version <= graph /\ f.stamp < stamps + 1 /\ f.stamp \in Nat
    BY <1>8, CandidateFacts, BoundAssumption DEF Begins, Chronological, TypeOK
  <2>4. graph' = graph /\ stamps \in Nat
    BY <1>8, BeginEffect DEF Begins
  <2> QED BY <1>3, <2>1, <2>2, <2>3, <2>4 DEF Chronological
<1>9. ASSUME NEW s \in Savers, SaveDone(s) \/ SaveFailed(s)
      PROVE  Chronological'
  <2>1. PICK next : Resume(s, next)
    BY <1>9 DEF SaveDone, SaveFailed
  <2>2. files' \subseteq files /\ phase # "down" /\ graph' = graph
    BY <1>9 DEF SaveDone, SaveFailed, Prune, Holds, LoopFree, graphVars
  <2>3. \A t \in Savers : thread'[t] = thread[t] \/ ~Busy(t)'
    BY <2>1, ResumeEffect DEF Busy, NoThread
  <2> QED BY <1>1, <1>2, <1>3, <2>2, <2>3 DEF Intact
<1>10. ASSUME NEW s \in Savers, ThreadStep(s)
       PROVE  Chronological'
  <2>1. Busy(s) /\ UNCHANGED <<graph, phase>>
    BY <1>10, ThreadEffect
  <2>2. \A t \in Savers : /\ thread'[t].stamp = thread[t].stamp
                          /\ thread'[t].version = thread[t].version
                          /\ thread'[t].mixed = thread[t].mixed
                          /\ Busy(t)' => Busy(t)
    BY <1>10, ThreadEffect DEF Busy
  <2>3. \A f \in Intact(files') : f \in Candidates
    <3>1. CASE UNCHANGED files
      BY <3>1 DEF Candidates
    <3>2. CASE ThreadReplace(s)
      BY <2>1, <3>2 DEF ThreadReplace, Candidates, Intact
    <3> QED BY <1>10, <3>1, <3>2 DEF ThreadStep, ThreadStart, ThreadFail
  <2>4. Candidates' \subseteq Candidates
    BY <2>2, <2>3 DEF Candidates
  <2> QED BY <1>1, <1>3, <2>1, <2>4
<1>11. CASE TaskCancelled
  BY <1>1, <1>2, <1>3, <1>11 DEF TaskCancelled, TypeOK, Busy, NoThread, graphVars
<1>12. CASE Crash \/ Exit
  BY <1>1, <1>2, <1>12 DEF Crash, Exit, GoDown, Busy, NoThread
<1>13. CASE Start
  <2>1. UNCHANGED <<files, thread>> /\ graph' = Restored(files) /\ phase = "down"
    BY <1>13 DEF Start
  <2>2. Candidates' = Candidates /\ Candidates = Intact(files)
    BY <2>1 DEF PhaseOK, Candidates, Busy, NoThread
  <2>3. graph' = Disk
    BY <2>1, RestoredCases DEF NoEmpties, TypeOK
  <2> QED BY <2>2, <2>3, DiskBounds DEF Chronological
<1>14. CASE Damage
  <2>1. UNCHANGED <<thread, phase>> /\ phase = "down"
    BY <1>14 DEF Damage
  <2>2. Intact(files') \subseteq Intact(files)
    BY <1>14, DamageAssumption DEF Damage, Intact, TypeOK, File
  <2> QED BY <1>1, <1>2, <2>1, <2>2
<1> QED
  BY StepKinds, <1>4, <1>5, <1>6, <1>7, <1>8, <1>9, <1>10, <1>11, <1>12, <1>13, <1>14

(* Every step of the autosave is a step of DurableGraph or leaves it alone. *)
LEMMA StepImplements ==
  ASSUME "empty" \notin DamageKinds, IInv, NoEmpties, Chronological, [Next]_vars,
         IInv', Chronological'
  PROVE  [Promise!Next]_(Promise!vars)
<1> USE DEF IInv
<1> DEFINE mem == IF phase = "down" THEN Disk ELSE graph
<1>1. Disk \in Nat /\ Disk' \in Nat /\ graph \in Nat
  <2>1. Disk \in Nat /\ graph \in Nat
    BY DiskType, BoundAssumption DEF TypeOK
  <2>2. \A f \in Intact(files') : f.version \in Nat
    BY BoundAssumption DEF TypeOK, Intact, File
  <2> QED BY <2>1, <2>2, DiskBoundsPrime
<1>2. ASSUME UNCHANGED <<files, graph>>, phase # "down", phase' # "down"
      PROVE  UNCHANGED Promise!vars
  BY <1>2 DEF Promise!vars, Disk
<1>3. CASE Mutate
  BY <1>3 DEF Mutate, LoopFree, Promise!Next, Promise!Change, Disk
<1>4. CASE MarkDirty \/ AcloseCancel \/ TaskCancelled
  BY <1>2, <1>4 DEF MarkDirty, AcloseCancel, TaskCancelled, LoopFree, graphVars
<1>5. CASE Quiet
  BY <1>5 DEF Quiet, Promise!vars, Disk
<1>6. CASE phase = "flushing" /\ phase' = "closed"
             /\ UNCHANGED <<graph, heard, files, stamps, saver, thread, pending>>
  BY <1>2, <1>6
<1>7. ASSUME NEW s \in Savers, Begins(s) \/ SaveFailed(s)
      PROVE  UNCHANGED Promise!vars
  <2>1. CASE Begins(s)
    BY <1>2, <2>1 DEF Begins
  <2>2. CASE SaveFailed(s)
    BY <1>2, <2>2, ResumeEffect DEF SaveFailed, Holds, LoopFree, graphVars
  <2> QED BY <1>7, <2>1, <2>2
<1>8. ASSUME NEW s \in Savers, SaveDone(s)
      PROVE  UNCHANGED Promise!vars
  <2>1. Disk' = thread[s].version
    BY <1>8, HolderOnDisk
  <2>2. PICK f \in files : f.kind = "ok" /\ f.stamp = stamps /\ f.version = thread[s].version
    BY <1>8 DEF SaveDone, Holds, LockOK
  <2>3. Disk = thread[s].version
    BY <2>2, DiskIs DEF StampsOK, Intact, TypeOK
  <2>4. phase # "down" /\ phase' # "down" /\ graph' = graph
    BY <1>8, ResumeEffect DEF SaveDone, Holds, LoopFree, graphVars
  <2> QED BY <2>1, <2>3, <2>4 DEF Promise!vars
<1>9. ASSUME NEW s \in Savers, ThreadStep(s)
      PROVE  [Promise!Next]_(Promise!vars)
  <2>1. phase # "down" /\ UNCHANGED <<phase, graph>>
    BY <1>9, ThreadEffect DEF PhaseOK, Busy, NoThread
  <2>2. CASE UNCHANGED files
    BY <1>2, <2>1, <2>2
  <2>3. CASE ThreadReplace(s)
    <3>1. Intact(files) \subseteq Intact(files')
      BY <2>3 DEF ThreadReplace, Intact
    <3>2. Disk <= Disk'
      BY <1>1, <3>1, DiskBounds, DiskBoundsPrime
    <3>3. Disk' <= graph
      BY <1>1, <2>1, DiskBoundsPrime DEF Chronological, Candidates
    <3> QED BY <1>1, <2>1, <3>2, <3>3 DEF Promise!Next, Promise!Persist, Promise!vars
  <2> QED BY <1>9, <2>2, <2>3 DEF ThreadStep, ThreadStart, ThreadFail
<1>10. CASE Crash \/ Exit
  BY <1>10 DEF Crash, Exit, GoDown, Promise!Next, Promise!Stop, Disk
<1>11. CASE Start
  <2>1. graph' = Disk
    BY <1>11, RestoredCases DEF Start, NoEmpties, TypeOK
  <2> QED BY <1>11, <2>1 DEF Start, Promise!vars, Disk
<1>12. CASE Damage
  <2>1. phase = "down" /\ phase' = "down"
    BY <1>12 DEF Damage
  <2>2. Intact(files') \subseteq Intact(files)
    BY <1>12, DamageAssumption DEF Damage, Intact, TypeOK, File
  <2>3. Disk' <= Disk
    BY <1>1, <2>2, DiskBounds, DiskBoundsPrime
  <2> QED BY <1>1, <2>1, <2>3 DEF Promise!Next, Promise!Rot, Promise!vars
<1> QED
  BY StepKinds, <1>3, <1>4, <1>5, <1>6, <1>7, <1>8, <1>9, <1>10, <1>11, <1>12

(* The autosave implements DurableGraph when no stored file is cut to zero     *)
(* bytes: what becomes durable was live and is never older than what it        *)
(* replaces, and a restart comes back with it.                                 *)
THEOREM DurablePromiseKept ==
  ASSUME "empty" \notin DamageKinds
  PROVE  Spec => DurablePromise
<1> DEFINE All == IInv /\ NoEmpties /\ Chronological
<1>1. Init => All
  BY InitInv DEF Init, NoEmpties, Chronological, Candidates, Intact, Busy, NoThread
<1>2. All /\ [Next]_vars => All'
  BY Inductive, NoEmptiesStep, ChronologicalStep
<1>3. Init => Promise!Init
  BY DEF Init, Promise!Init, Disk, NewestVersion, Intact
<1>4. All /\ [Next]_vars /\ All' => [Promise!Next]_(Promise!vars)
  BY StepImplements
<1> QED BY <1>1, <1>2, <1>3, <1>4, PTL DEF Spec, DurablePromise, Promise!Spec
=============================================================================
