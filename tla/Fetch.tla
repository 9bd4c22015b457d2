-------------------------------- MODULE Fetch --------------------------------
(***************************************************************************)
(* reconkg/fetch.py: the NVD puller (fetch_nvd), one page per request into *)
(* one file per page with a checkpoint after each, run again and again by  *)
(* its operator; and what builddb.py and vulndb.py make of the page files. *)
(*                                                                         *)
(* NVD answers with a page of the records that match the query at that     *)
(* moment, in a fixed order, and modifies and publishes records meanwhile. *)
(* A run may end anywhere: on a FetchError, or killed.  Page file and      *)
(* checkpoint are written in place, so a kill may leave either torn.       *)
(***************************************************************************)
EXTENDS Integers, Sequences, FiniteSets

CONSTANTS
  Requests,    (* the ways the operator starts a run: --since, --no-resume   *)
  PageSize,    (* NVD_PAGE                                                   *)
  MaxWindow,   (* NVD_MAX_WINDOW_DAYS                                        *)
  MaxClock,    (* bounds: moments of time,                                   *)
  MaxRecords,  (* records in the feed                                        *)
  MaxTears     (* and writes a kill leaves torn                              *)

(* A run asks for everything, for what changed since the last pull, or for   *)
(* what changed since a given time; and resumes or does not.                 *)
Request == [since : {"none", "auto", "given"}, at : 0..MaxClock, resume : BOOLEAN]

ASSUME FetchAssumption ==
  /\ PageSize \in Nat \ {0} /\ MaxWindow \in Nat
  /\ MaxClock \in Nat \ {0} /\ MaxRecords \in Nat /\ MaxTears \in Nat
  /\ Requests \subseteq Request

VARIABLES
  clock,
  feed,        (* NVD: when each record was last modified, in feed order     *)
  pages,       (* the page files                                             *)
  checkpoint,  (* _checkpoint.json                                           *)
  run,         (* the run in progress                                        *)
  began,       (* no state of the program: when the pull of the run, and the *)
               (* pull of the checkpoint, asked for its first page           *)
  tears

vars == <<clock, feed, pages, checkpoint, run, began, tears>>

Never == 0
Time == 1..MaxClock
Moment == {Never} \cup Time

(* nvd-<index> and nvd-delta-<stamp>-<index>; a full page has no stamp.      *)
Name == Moment \X (0..MaxRecords)

Page == [st : {"none", "torn", "whole"}, of : SUBSET ((1..MaxRecords) \X Time)]

Checkpoint ==
  [mode : {"none", "full", "delta"}, next : 0..MaxRecords, from : Moment, to : Moment,
   last : Moment, complete : BOOLEAN]

(* There is no checkpoint, or it cannot be read. *)
Blank == [mode |-> "none", next |-> 0, from |-> Never, to |-> Never, last |-> Never,
          complete |-> FALSE]

Run == [st : {"off", "asking", "saving", "finishing"}, mode : {"full", "delta"},
        next : 0..MaxRecords, from : Moment, to : Moment, now : Moment, more : BOOLEAN]

(* What is left of a run that started at a moment. *)
Ended(now) == [st |-> "off", mode |-> "full", next |-> 0, from |-> Never, to |-> Never,
               now |-> now, more |-> FALSE]

TypeOK ==
  /\ clock \in Time
  /\ feed \in Seq(Time) /\ Len(feed) <= MaxRecords
  /\ pages \in [Name -> Page]
  /\ checkpoint \in Checkpoint
  /\ run \in Run
  /\ began \in [run : Moment, cursor : Moment]
  /\ tears \in 0..MaxTears

Init ==
  /\ clock = 1
  /\ \E n \in 0..MaxRecords : feed = [r \in 1..n |-> 1]
  /\ pages = [n \in Name |-> [st |-> "none", of |-> {}]]
  /\ checkpoint = Blank
  /\ run = Ended(Never)
  /\ began = [run |-> Never, cursor |-> Never]
  /\ tears = 0

-----------------------------------------------------------------------------
(* NVD. *)

Tick ==
  /\ clock < MaxClock
  /\ clock' = clock + 1
  /\ UNCHANGED <<feed, pages, checkpoint, run, began, tears>>

Modify(r) ==
  /\ feed' = [feed EXCEPT ![r] = clock]
  /\ UNCHANGED <<clock, pages, checkpoint, run, began, tears>>

Publish ==
  /\ Len(feed) < MaxRecords
  /\ feed' = Append(feed, clock)
  /\ UNCHANGED <<clock, pages, checkpoint, run, began, tears>>

(* The records a query matches, and the page of them it is answered with.    *)
Matching == {r \in DOMAIN feed : run.mode = "full" \/ feed[r] \in run.from..run.to}
Batch ==
  {r \in Matching :
     Cardinality({q \in Matching : q < r}) \in run.next..(run.next + PageSize - 1)}

-----------------------------------------------------------------------------
(* The puller. *)

(* The start of the window asked for, and whether it can be asked for. *)
Anchor(req) == IF req.since = "auto" THEN checkpoint.last ELSE req.at
Incremental(req) ==
  /\ req.since # "none"
  /\ Anchor(req) # Never
  /\ Anchor(req) <= clock /\ clock - Anchor(req) <= MaxWindow

ModeOf(req) == IF Incremental(req) THEN "delta" ELSE "full"

(* Mutant: the mode is no part of the check. *)
Resumes_AnyMode(req) == req.resume /\ checkpoint.next > 0

Resumes(req) == req.resume /\ checkpoint.next > 0 /\ checkpoint.mode = ModeOf(req)

(* No two runs start in the same second: the stamp of a window is a second.  *)
Start(req) ==
  LET fresh == [st |-> "asking", mode |-> ModeOf(req), next |-> 0,
                from |-> IF Incremental(req) THEN Anchor(req) ELSE Never,
                to |-> IF Incremental(req) THEN clock ELSE Never,
                now |-> clock, more |-> FALSE]
  IN
  /\ run.st = "off"
  /\ run.now < clock
  /\ run' = IF Resumes(req)
              THEN [fresh EXCEPT !.next = checkpoint.next, !.from = checkpoint.from,
                                 !.to = checkpoint.to]
              ELSE fresh
  /\ began' = [began EXCEPT !.run = IF Resumes(req) THEN began.cursor ELSE clock]
  /\ UNCHANGED <<clock, feed, pages, checkpoint, tears>>

PageName == <<run.to, run.next>>

(* Mutant: the cursor advances by what was asked for. *)
Cursor_ByPage == run.next + PageSize

(* Mutant: the cursor does not advance. *)
Cursor_Stuck == run.next

Cursor == run.next + Cardinality(Batch)

(* A page comes and is written whole. *)
Answer ==
  /\ run.st = "asking"
  /\ Batch # {}
  /\ pages' = [pages EXCEPT ![PageName] =
                 [st |-> "whole", of |-> {<<r, feed[r]>> : r \in Batch}]]
  /\ run' = [run EXCEPT !.st = "saving", !.next = Cursor,
                        !.more = Cursor < Cardinality(Matching)]
  /\ UNCHANGED <<clock, feed, checkpoint, began, tears>>

NothingLeft ==
  /\ run.st = "asking"
  /\ Batch = {}
  /\ run' = [run EXCEPT !.st = "finishing"]
  /\ UNCHANGED <<clock, feed, pages, checkpoint, began, tears>>

SaveCursor ==
  /\ run.st = "saving"
  /\ checkpoint' = [mode |-> run.mode, next |-> run.next, from |-> run.from, to |-> run.to,
                    last |-> checkpoint.last, complete |-> FALSE]
  /\ run' = [run EXCEPT !.st = IF run.more THEN "asking" ELSE "finishing"]
  /\ began' = [began EXCEPT !.cursor = began.run]
  /\ UNCHANGED <<clock, feed, pages, tears>>

Finish ==
  /\ run.st = "finishing"
  /\ checkpoint' = [mode |-> run.mode, next |-> 0, from |-> Never, to |-> Never,
                    last |-> IF run.mode = "delta" THEN run.to ELSE run.now,
                    complete |-> TRUE]
  /\ run' = Ended(run.now)
  /\ began' = [run |-> Never, cursor |-> began.run]
  /\ UNCHANGED <<clock, feed, pages, tears>>

(* A FetchError, or the process is killed between two writes. *)
Interrupted ==
  /\ run.st # "off"
  /\ run' = Ended(run.now)
  /\ began' = [began EXCEPT !.run = Never]
  /\ UNCHANGED <<clock, feed, pages, checkpoint, tears>>

(* It is killed in the middle of one. *)
TearPage ==
  /\ run.st = "asking"
  /\ Batch # {}
  /\ tears < MaxTears
  /\ pages' = [pages EXCEPT ![PageName] = [st |-> "torn", of |-> {}]]
  /\ run' = Ended(run.now)
  /\ tears' = tears + 1
  /\ began' = [began EXCEPT !.run = Never]
  /\ UNCHANGED <<clock, feed, checkpoint>>

TearCheckpoint ==
  /\ run.st \in {"saving", "finishing"}
  /\ tears < MaxTears
  /\ checkpoint' = Blank
  /\ run' = Ended(run.now)
  /\ tears' = tears + 1
  /\ began' = [began EXCEPT !.run = Never]
  /\ UNCHANGED <<clock, feed, pages>>

Proceed == Answer \/ NothingLeft \/ SaveCursor \/ Finish

Next ==
  \/ Tick \/ Publish
  \/ \E r \in DOMAIN feed : Modify(r)
  \/ \E req \in Requests : Start(req)
  \/ Proceed \/ Interrupted \/ TearPage \/ TearCheckpoint

Spec == Init /\ [][Next]_vars

(* A request ends, its retries are bounded, and a run does not rest.         *)
FairSpec == Spec /\ WF_vars(Proceed)

-----------------------------------------------------------------------------
(* The build. *)

(* Mutant: full pages come last. *)
Before_FullLast(m, n) == m[1] > n[1] \/ (m[1] = n[1] /\ m[2] < n[2])

(* The order of the names. *)
Before(m, n) == m[1] < n[1] \/ (m[1] = n[1] /\ m[2] < n[2])

(* The version of a record that a build leaves in the database: pages are    *)
(* read in name order, unreadable ones skipped, and the last one that has    *)
(* the record wins.                                                          *)
Holding(r) == {n \in Name : \E c \in pages[n].of : c[1] = r}
Ingested(r) ==
  IF Holding(r) = {} THEN Never
  ELSE LET last == CHOOSE n \in Holding(r) : \A m \in Holding(r) : m = n \/ Before(m, n)
       IN (CHOOSE c \in pages[last].of : c[1] = r)[2]

-----------------------------------------------------------------------------
(* Properties. *)

FullPullDone == checkpoint.complete /\ checkpoint.mode = "full"

(* A full pull that completes has everything, over however many interrupted, *)
(* abandoned and restarted runs it took: a record that NVD has not touched   *)
(* since the pull asked for its first page is on disk in its current         *)
(* version, or the page that should have it is one the build reports.        *)
CompletePullIsCurrent ==
  FullPullDone =>
    \A r \in DOMAIN feed : feed[r] < began.cursor =>
      \E n \in Name :
        \/ <<r, feed[r]>> \in pages[n].of
        \/ n[1] = Never /\ pages[n].st = "torn" /\ r \in (n[2] + 1)..(n[2] + PageSize)

(* Deltas supersede what was pulled before them, and each other, in order:   *)
(* a build never leaves a record older than a delta page has it.             *)
DeltasSupersede ==
  \A r \in DOMAIN feed :
    LET built == Ingested(r) IN
    \A n \in Name : n[1] # Never => \A c \in pages[n].of : c[1] = r => c[2] <= built

(* A run ends, however many pages it takes.                                  *)
EveryRunEnds == run.st = "asking" ~> run.st = "off"

(* "re-ingesting a refreshed feed must update a CVE whose CVSS or            *)
(* applicability has changed": after a full pull a build leaves every record *)
(* that NVD has not touched since in its current version.                    *)
RefreshUpdates ==
  FullPullDone => \A r \in DOMAIN feed : feed[r] < began.cursor => Ingested(r) = feed[r]
=============================================================================
