------------------------------ MODULE Snapshots ------------------------------
(***************************************************************************)
(* reconkg/snapshots.py: SnapshotManager, the autosave that makes the      *)
(* in-memory graph survive a restart, with the parts of store.py and       *)
(* persistence.py it stands on.                                            *)
(*                                                                         *)
(* The graph is its version: the number of mutations it contains.          *)
(* _detach() copies it between two awaits, so a snapshot holds exactly one *)
(* version.  Coroutines of the event loop interleave at their awaits only: *)
(* while the autosave task holds the loop (task = "loop") no other         *)
(* coroutine moves.  The worker thread of a save, the clock, a crash and   *)
(* the decay of stored files are not bound by that.                        *)
(*                                                                         *)
(* Snapshot names are <timestamp>-<sequence>; here the stamp of a file is  *)
(* the rank of the save that named it, which is the lexical order of the   *)
(* names as long as the wall clock is not set back.                        *)
(***************************************************************************)
EXTENDS Naturals, FiniteSets

CONSTANTS
  Retention,      (* snapshot files kept by _prune                         *)
  QuietPeriod,    (* quiet_period, in ticks                                *)
  MaxStaleness,   (* max_staleness, in ticks                               *)
  DamageKinds,    (* how a stored file may rot while no process runs       *)
  MaxChanges,     (* bound: mutations of the graph                         *)
  MaxSaves,       (* bound: saves begun                                    *)
  MaxIOErrors,    (* bound: writes and unlinks that fail                   *)
  MaxOutages,     (* bound: times the process goes away                    *)
  MaxDamage       (* bound: files that rot                                 *)

ASSUME ParameterAssumption ==
  /\ Retention \in Nat \ {0}
  /\ QuietPeriod \in Nat \ {0}
  /\ MaxStaleness \in Nat
  /\ QuietPeriod <= MaxStaleness

ASSUME DamageAssumption == DamageKinds \subseteq {"garbage", "half", "empty"}

ASSUME BoundAssumption ==
  /\ MaxChanges \in Nat
  /\ MaxSaves \in Nat
  /\ MaxIOErrors \in Nat
  /\ MaxOutages \in Nat
  /\ MaxDamage \in Nat

VARIABLES
  graph,      (* version of the live graph                                  *)
  heard,      (* version of the graph at the last ChangeEvent delivered     *)
  mixed,      (* the graph holds hosts of a later snapshot, read only in part *)
  files,      (* snapshot files in the directory                            *)
  stamps,     (* names handed out so far                                    *)
  phase,      (* the manager's life: see Phases                             *)
  task,       (* where the autosave task is suspended: see TaskStates       *)
  saver,      (* where each caller of save_now() is: see SaverStates        *)
  thread,     (* the worker thread each caller started                      *)
  pending,    (* _pending                                                   *)
  activity,   (* _activity.is_set()                                         *)
  quiet,      (* ticks since _last_event_at, saturated at QuietPeriod       *)
  stale,      (* ticks since _first_dirty_at, saturated at MaxStaleness     *)
  ioErrors, outages, damage   (* what the bounds count                      *)

graphVars == <<graph, heard, mixed>>
dirtyVars == <<pending, activity, quiet, stale>>
boundVars == <<ioErrors, outages, damage>>
vars == <<graphVars, files, stamps, phase, task, saver, thread, dirtyVars, boundVars>>

-----------------------------------------------------------------------------

(* The callers of save_now(): the autosave task, aclose()'s final flush, and *)
(* whoever forces a save through the public method.                          *)
Savers == {"task", "aclose", "caller"}

Phases == {"down", "open", "cancelling", "flushing", "closed"}
TaskStates == {"loop", "idle", "timer", "saving", "backoff", "done"}
SaverStates == {"out", "lock", "write"}
FileKinds == {"ok", "garbage", "half", "empty"}

File == [stamp : 1..MaxSaves, version : 0..MaxChanges, mixed : BOOLEAN, kind : FileKinds]
NoThread == [st |-> "none", stamp |-> 0, version |-> 0, mixed |-> FALSE]
Thread ==
  {NoThread} \cup
  [st : {"queued", "writing", "done", "failed"}, stamp : 1..MaxSaves, version : 0..MaxChanges,
   mixed : BOOLEAN]

TypeOK ==
  /\ graph \in 0..MaxChanges
  /\ heard \in 0..MaxChanges
  /\ mixed \in BOOLEAN
  /\ files \in SUBSET File
  /\ stamps \in 0..MaxSaves
  /\ phase \in Phases
  /\ task \in TaskStates
  /\ saver \in [Savers -> SaverStates]
  /\ thread \in [Savers -> Thread]
  /\ pending \in BOOLEAN
  /\ activity \in BOOLEAN
  /\ quiet \in 0..QuietPeriod
  /\ stale \in 0..MaxStaleness
  /\ ioErrors \in 0..MaxIOErrors
  /\ outages \in 0..MaxOutages
  /\ damage \in 0..MaxDamage

-----------------------------------------------------------------------------
(* The snapshot directory. *)

(* snapshot_files(newest_first=True) over a set of files: the first one. *)
IsNewest(f, fs) == f \in fs /\ \A g \in fs : g.stamp <= f.stamp

NewestVersion(fs) ==
  IF fs = {} THEN 0 ELSE (CHOOSE f \in fs : IsNewest(f, fs)).version

(* The version a restart ought to come back with: the newest undamaged file. *)
Intact(fs) == {f \in fs : f.kind = "ok"}
Disk == NewestVersion(Intact(files))

(* load() gets to the end of the file.  It raises before the first row of a  *)
(* "garbage" file (no database, or another schema version), and between two  *)
(* rows of a "half" one (a page that cannot be read).  A file cut to zero    *)
(* bytes is a valid empty database to SQLite.                                *)
Loads(f) == f.kind \in {"ok", "empty"}

(* The file restore_into() stops at, newest first. *)
Served(fs) == {f \in fs : Loads(f) /\ \A g \in fs : Loads(g) => g.stamp <= f.stamp}

Restored(fs) == NewestVersion({f \in Served(fs) : f.kind = "ok"})

(* The files given up half-way before that one.  load() fills the caller's   *)
(* store row by row, and nothing takes the rows back: a host the served file *)
(* has too is overwritten by it, any other host stays.                       *)
GivenUp(fs) == {f \in fs : f.kind = "half" /\ \A g \in Served(fs) : g.stamp < f.stamp}

(* May hosts that are not of the restored version be in the store? *)
Mixes(fs) ==
  IF \E f \in Served(fs) : f.kind = "ok" /\ f.mixed THEN {TRUE}
  ELSE IF \E f \in GivenUp(fs) : f.version > Restored(fs) \/ f.mixed THEN BOOLEAN
  ELSE {FALSE}

(* Mutant: files past the cap are never unlinked. *)
Prune_Never(fs) == fs

(* Mutant: the list is sorted newest first, so the newest files are doomed. *)
Prune_WrongEnd(fs) ==
  {f \in fs : Cardinality({g \in fs : g.stamp < f.stamp}) < Retention}

(* _prune(): what is left of the files when all but the Retention newest     *)
(* names, readable or not, can be unlinked.                                  *)
Prune(fs) ==
  {f \in fs : Cardinality({g \in fs : g.stamp > f.stamp}) < Retention}

-----------------------------------------------------------------------------

Init ==
  /\ graph = 0
  /\ heard = 0
  /\ mixed = FALSE
  /\ files = {}
  /\ stamps = 0
  /\ phase = "down"
  /\ task = "done"
  /\ saver = [s \in Savers |-> "out"]
  /\ thread = [s \in Savers |-> NoThread]
  /\ pending = FALSE
  /\ activity = FALSE
  /\ quiet = 0
  /\ stale = 0
  /\ ioErrors = 0
  /\ outages = 0
  /\ damage = 0

(* Another coroutine may run. *)
LoopFree == phase # "down" /\ task # "loop"

(* Mutant: saves are not serialised. *)
LockFree_Always == TRUE

LockFree == \A s \in Savers : saver[s] # "write"

(* mark_dirty(), which is also all that _on_event() does to the state. *)
Dirty ==
  /\ pending' = TRUE
  /\ activity' = TRUE
  /\ quiet' = 0
  /\ stale' = IF pending THEN stale ELSE 0

(* A TargetStore mutation and the event it emits: nothing suspends between   *)
(* the two, since no subscriber of the store awaits anything that blocks.    *)
(* Once aclose() has unsubscribed, the manager no longer hears of it.        *)
Mutate ==
  /\ LoopFree
  /\ graph < MaxChanges
  /\ graph' = graph + 1
  /\ IF phase = "open"
       THEN heard' = graph + 1 /\ Dirty
       ELSE UNCHANGED <<heard, dirtyVars>>
  /\ UNCHANGED <<mixed, files, stamps, phase, task, saver, thread, boundVars>>

(* mark_dirty() from put_evidence: nothing in the graph changed. *)
MarkDirty ==
  /\ LoopFree
  /\ Dirty
  /\ UNCHANGED <<graphVars, files, stamps, phase, task, saver, thread, boundVars>>

(* Mutant: a clock in another unit than the periods it is compared with. *)
Tick_Unsaturated ==
  /\ phase = "open"
  /\ quiet' = quiet + 1
  /\ stale' = stale + 1
  /\ UNCHANGED <<graphVars, files, stamps, phase, task, saver, thread,
                 pending, activity, boundVars>>

(* Time passes.  Only the task reads the clock, so it stops with the task.   *)
Tick ==
  /\ phase = "open"
  /\ quiet < QuietPeriod \/ stale < MaxStaleness
  /\ quiet' = IF quiet < QuietPeriod THEN quiet + 1 ELSE quiet
  /\ stale' = IF stale < MaxStaleness THEN stale + 1 ELSE stale
  /\ UNCHANGED <<graphVars, files, stamps, phase, task, saver, thread,
                 pending, activity, boundVars>>

-----------------------------------------------------------------------------
(* save_now().  Its caller holds _save_lock from Begin until it resumes with *)
(* the outcome of the thread, or is cancelled.                               *)

Begin(s) ==
  /\ LockFree
  /\ stamps < MaxSaves
  /\ stamps' = stamps + 1
  /\ saver' = [saver EXCEPT ![s] = "write"]
  /\ thread' = [thread EXCEPT ![s] =
                  [st |-> "queued", stamp |-> stamps + 1, version |-> graph, mixed |-> mixed]]
  /\ pending' = FALSE

(* asyncio.Lock serves its waiters first: nobody takes a free lock over them. *)
Enter(s) ==
  LET wait == ~LockFree \/ \E t \in Savers : saver[t] = "lock" IN
  \/ ~wait /\ Begin(s)
  \/ /\ wait
     /\ saver' = [saver EXCEPT ![s] = "lock"]
     /\ UNCHANGED <<stamps, thread, pending>>

AcquireLock(s) ==
  /\ LoopFree
  /\ saver[s] = "lock"
  /\ s = "task" => phase = "open"
  /\ Begin(s)
  /\ UNCHANGED <<graphVars, files, phase, task, activity, quiet, stale, boundVars>>

(* Where the caller goes on to once save_now() has returned or raised. *)
Resume(s, next) ==
  /\ saver' = [saver EXCEPT ![s] = "out"]
  /\ thread' = [thread EXCEPT ![s] = NoThread]
  /\ task' = IF s = "task" THEN next ELSE task
  /\ phase' = IF s = "aclose" THEN "closed" ELSE phase

Holds(s) ==
  /\ LoopFree
  /\ saver[s] = "write"
  /\ s = "task" => phase = "open"     \* a cancelled task is thrown CancelledError instead

(* A doomed file whose unlink fails is logged and stays for the next _prune().  *)
SaveDone(s) ==
  /\ Holds(s)
  /\ thread[s].st = "done"
  /\ \E stuck \in SUBSET (files \ Prune(files)) :
       /\ ioErrors + Cardinality(stuck) <= MaxIOErrors
       /\ ioErrors' = ioErrors + Cardinality(stuck)
       /\ files' = Prune(files) \cup stuck
  /\ Resume(s, "loop")
  /\ UNCHANGED <<graphVars, stamps, dirtyVars, outages, damage>>

(* Mutant: the except arm counts the failure but does not raise _pending again. *)
SaveFailed_Forgets(s) ==
  /\ Holds(s)
  /\ thread[s].st = "failed"
  /\ Resume(s, "backoff")
  /\ UNCHANGED <<graphVars, files, stamps, dirtyVars, boundVars>>

SaveFailed(s) ==
  /\ Holds(s)
  /\ thread[s].st = "failed"
  /\ pending' = TRUE
  /\ Resume(s, "backoff")
  /\ UNCHANGED <<graphVars, files, stamps, activity, quiet, stale, boundVars>>

(* Someone forces a save, regardless of the debounce. *)
SaveNow ==
  /\ LoopFree
  /\ phase = "open"
  /\ saver["caller"] = "out"
  /\ Enter("caller")
  /\ UNCHANGED <<graphVars, files, phase, task, activity, quiet, stale, boundVars>>

-----------------------------------------------------------------------------
(* _write_atomically(), in its worker thread.  The temporary file is not a   *)
(* snapshot until os.replace, and is unlinked on failure.                    *)

ThreadStart(s) ==
  /\ thread[s].st = "queued"
  /\ thread' = [thread EXCEPT ![s].st = "writing"]
  /\ UNCHANGED <<graphVars, files, stamps, phase, task, saver, dirtyVars, boundVars>>

ThreadReplace(s) ==
  /\ thread[s].st = "writing"
  /\ files' = files \cup {[stamp |-> thread[s].stamp, version |-> thread[s].version,
                           mixed |-> thread[s].mixed, kind |-> "ok"]}
  /\ thread' = [thread EXCEPT ![s].st = "done"]
  /\ UNCHANGED <<graphVars, stamps, phase, task, saver, dirtyVars, boundVars>>

ThreadFail(s) ==
  /\ thread[s].st = "writing"
  /\ ioErrors < MaxIOErrors
  /\ ioErrors' = ioErrors + 1
  /\ thread' = [thread EXCEPT ![s].st = "failed"]
  /\ UNCHANGED <<graphVars, files, stamps, phase, task, saver, dirtyVars, outages, damage>>

-----------------------------------------------------------------------------
(* _run(), the autosave task. *)

(* Mutant: quiet_period alone, without the staleness ceiling. *)
Due_NoCeiling == quiet = QuietPeriod

(* min(quiet_left, stale_left) <= 0. *)
Due == quiet = QuietPeriod \/ stale = MaxStaleness

TaskWake ==
  /\ phase = "open"
  /\ \/ /\ task = "idle"
        /\ activity
        /\ activity' = FALSE
     \/ /\ task = "timer"
        /\ activity \/ Due
        /\ UNCHANGED activity
     \/ /\ task = "backoff"
        /\ UNCHANGED activity
  /\ task' = "loop"
  /\ UNCHANGED <<graphVars, files, stamps, phase, saver, thread,
                 pending, quiet, stale, boundVars>>

TaskSleep ==
  /\ task = "loop"
  /\ ~pending
  /\ task' = "idle"
  /\ activity' = FALSE
  /\ UNCHANGED <<graphVars, files, stamps, phase, saver, thread,
                 pending, quiet, stale, boundVars>>

TaskArmTimer ==
  /\ task = "loop"
  /\ pending
  /\ ~Due
  /\ task' = "timer"
  /\ activity' = FALSE
  /\ UNCHANGED <<graphVars, files, stamps, phase, saver, thread,
                 pending, quiet, stale, boundVars>>

TaskSave ==
  /\ task = "loop"
  /\ pending
  /\ Due
  /\ task' = "saving"
  /\ Enter("task")
  /\ UNCHANGED <<graphVars, files, phase, activity, quiet, stale, boundVars>>

-----------------------------------------------------------------------------
(* aclose(). *)

AcloseCancel ==
  /\ LoopFree
  /\ phase = "open"
  /\ phase' = "cancelling"
  /\ UNCHANGED <<graphVars, files, stamps, task, saver, thread, dirtyVars, boundVars>>

(* Mutant: _save_lock taken without a context manager, so cancellation keeps it. *)
TaskCancelled_KeepsLock ==
  /\ phase = "cancelling"
  /\ phase' = "flushing"
  /\ task' = "done"
  /\ UNCHANGED <<graphVars, files, stamps, saver, thread, dirtyVars, boundVars>>

(* CancelledError reaches the task at whatever it awaits.  Inside save_now() *)
(* it is not an Exception: the lock is released, _pending stays as it is.  A *)
(* thread that already runs goes on; a job still queued is withdrawn.        *)
TaskCancelled ==
  /\ phase = "cancelling"
  /\ phase' = "flushing"
  /\ task' = "done"
  /\ saver' = [saver EXCEPT !["task"] = "out"]
  /\ thread' = IF thread["task"].st = "queued"
                 THEN [thread EXCEPT !["task"] = NoThread]
                 ELSE thread
  /\ UNCHANGED <<graphVars, files, stamps, dirtyVars, boundVars>>

AcloseFlush ==
  /\ phase = "flushing"
  /\ saver["aclose"] = "out"
  /\ \/ /\ pending
        /\ Enter("aclose")
        /\ UNCHANGED phase
     \/ /\ ~pending
        /\ phase' = "closed"
        /\ UNCHANGED <<stamps, saver, thread, pending>>
  /\ UNCHANGED <<graphVars, files, task, activity, quiet, stale, boundVars>>

-----------------------------------------------------------------------------
(* The process. *)

GoDown ==
  /\ outages < MaxOutages
  /\ outages' = outages + 1
  /\ phase' = "down"
  /\ graph' = 0
  /\ heard' = 0
  /\ mixed' = FALSE
  /\ task' = "done"
  /\ saver' = [s \in Savers |-> "out"]
  /\ thread' = [s \in Savers |-> NoThread]
  /\ pending' = FALSE
  /\ activity' = FALSE
  /\ quiet' = 0
  /\ stale' = 0
  /\ UNCHANGED <<files, stamps, ioErrors, damage>>

(* kill -9: memory and unfinished writes are gone. *)
Crash == phase # "down" /\ GoDown

(* An orderly exit waits for the executor's threads. *)
Exit ==
  /\ phase = "closed"
  /\ \A s \in Savers : saver[s] = "out" /\ thread[s].st \notin {"queued", "writing"}
  /\ GoDown

(* lifespan(): restore_into() before anything is served, then start(). *)
Start ==
  /\ phase = "down"
  /\ phase' = "open"
  /\ graph' = Restored(files)
  /\ heard' = Restored(files)
  /\ mixed' \in Mixes(files)
  /\ task' = "loop"
  /\ UNCHANGED <<files, stamps, saver, thread, dirtyVars, boundVars>>

(* A stored snapshot is unreadable when the process comes back. *)
Damage ==
  /\ phase = "down"
  /\ damage < MaxDamage
  /\ damage' = damage + 1
  /\ \E f \in Intact(files), kind \in DamageKinds :
       files' = (files \ {f}) \cup {[f EXCEPT !.kind = kind]}
  /\ UNCHANGED <<graphVars, stamps, phase, task, saver, thread, dirtyVars, ioErrors, outages>>

-----------------------------------------------------------------------------

TaskStep == TaskWake \/ TaskSleep \/ TaskArmTimer \/ TaskSave

SaverStep(s) == AcquireLock(s) \/ SaveDone(s) \/ SaveFailed(s)

ThreadStep(s) == ThreadStart(s) \/ ThreadReplace(s) \/ ThreadFail(s)

AcloseStep == TaskCancelled \/ AcloseFlush

Next ==
  \/ Mutate \/ MarkDirty \/ Tick
  \/ TaskStep \/ SaveNow
  \/ \E s \in Savers : SaverStep(s) \/ ThreadStep(s)
  \/ AcloseCancel \/ AcloseStep
  \/ Crash \/ Exit \/ Start \/ Damage

Spec == Init /\ [][Next]_vars

(* Coroutines that can run do run, threads finish one way or the other, and  *)
(* time passes.  Nobody is obliged to change the graph, close the manager or *)
(* keep the process up.                                                      *)
Fairness ==
  /\ WF_vars(TaskStep)
  /\ WF_vars(Tick)
  /\ WF_vars(AcloseStep)
  /\ WF_vars(\E s \in Savers : SaverStep(s))
  /\ WF_vars(\E s \in Savers : ThreadStep(s))

FairSpec == Spec /\ Fairness

-----------------------------------------------------------------------------
(* Properties. *)

(* The thread of save_now() has yet to finish. *)
Busy(s) == thread[s].st \in {"queued", "writing"}

(* While the manager is open, a clear _pending flag means that every change  *)
(* it has heard of is in the newest intact snapshot, or in a save whose      *)
(* caller still holds the lock: that caller either makes it durable or       *)
(* raises the flag again (save_now's clear-before-copy and its except arm).  *)
NothingLost ==
  phase = "open" /\ ~pending =>
    \/ Disk >= heard
    \/ \E s \in Savers : saver[s] = "write" /\ thread[s].version >= heard

(* Until aclose() cancels the task, _save_lock keeps at most one thread at   *)
(* work in the snapshot directory.                                           *)
OneWriter ==
  phase = "open" =>
    Cardinality({s \in Savers : Busy(s)}) <= 1

(* Retention can be overshot, since a save that dies or is cancelled between *)
(* os.replace and _prune leaves its file behind.  A process adds at most the *)
(* file it is about to prune, and one more once aclose() has let go of a     *)
(* running thread; those two are all it can leave to its successor.  A file  *)
(* that could not be unlinked counts until a later _prune() takes it.        *)
RetentionOvershoot ==
  Cardinality(files) <=
    Retention + 2 * outages + ioErrors
      + (IF phase = "down" THEN 0 ELSE IF phase = "open" THEN 1 ELSE 2)

(* The autosave implements the promise of DurableGraph: what becomes durable *)
(* was live, is never older than what it replaces, and is the version a      *)
(* restart restores, past files that fail before or between their rows.      *)
Promise == INSTANCE DurableGraph WITH
  mem <- (IF phase = "down" THEN Disk ELSE graph), disk <- Disk
DurablePromise == Promise!Spec

(* A failed save raises _pending again but not _activity.  When it was not   *)
(* the task's own save, and the task is asleep, nobody wakes it up.          *)
Forgotten == task = "idle" /\ pending /\ ~activity

(* Every change the manager heard of reaches the disk while it stays open,   *)
(* however busy the store is (max_staleness) and although a write may fail   *)
(* (the back-off retries), unless a forced save failed while the task slept. *)
(* MaxSaves bounds the model, not the program.                               *)
EventuallySaved ==
  \A v \in 1..MaxChanges :
    (phase = "open" /\ heard >= v) ~>
      (Disk >= v \/ phase # "open" \/ Forgotten \/ stamps = MaxSaves)

(* aclose() finishes, whatever the task was doing when it was cancelled and  *)
(* whoever holds the lock.                                                   *)
CloseFinishes == phase = "cancelling" ~> (phase \in {"closed", "down"} \/ stamps = MaxSaves)

(* aclose()'s comment: "A shutdown that discards the last burst is a         *)
(* shutdown that loses the run you just did."  When the manager has closed   *)
(* without a write error and its threads are done, every change it heard of  *)
(* is on disk.                                                               *)
CleanShutdown ==
  phase = "closed" /\ ioErrors = 0
    /\ (\A s \in Savers : ~Busy(s))
  => Disk >= heard

(* "max_staleness is the ceiling: once the oldest un-saved change is that    *)
(* old, we save": the task never sleeps on without a deadline over changes   *)
(* that reached the ceiling.                                                 *)
CeilingHonoured == ~(Forgotten /\ stale = MaxStaleness)

(* "Load the newest readable snapshot": the graph is that of one snapshot and *)
(* of the changes made to it, never a mix of two.  save()'s docstring calls a *)
(* half-updated graph "worse than a stale one".                               *)
OneSnapshot == ~mixed
=============================================================================
