------------------------------ MODULE FeedProofs ------------------------------
(***************************************************************************)
(* What holds of the way from a feed to a lead. Of the puller, for every   *)
(* page size, window, request and feed: types, CompletePullIsCurrent and   *)
(* DeltasSupersede. Of the corpus and its lookup, for every record,        *)
(* version, fingerprint, batch and limit: LookupIsExact,                   *)
(* NoLeadsIsExplained, ExploitedIsKept and, as far as it holds,            *)
(* NeverTooStrict. The two share lemmas, and no state.                     *)
(***************************************************************************)
EXTENDS Fetch, Matching, TLAPS, FiniteSetTheorems, SequenceTheorems, WellFoundedInduction

(* The name of a page of a full pull.                                        *)
Full(n) == n[1] = Never

(* The parameters of a pull: what is full has no window, and no window,      *)
(* beginning or modification lies in the future.                             *)
ModesOK ==
  /\ \A r \in DOMAIN feed : feed[r] <= clock
  /\ run.now <= clock
  /\ began.run <= clock /\ began.cursor <= clock
  /\ run.st # "off" => (run.mode = "full" <=> run.to = Never) /\ run.to <= run.now
  /\ checkpoint.next > 0 =>
       /\ checkpoint.mode # "none"
       /\ checkpoint.mode = "full" <=> checkpoint.to = Never
       /\ checkpoint.to <= run.now

(* A page holds a record once, in a version the feed had; a full page holds  *)
(* the records of its place, and a delta page no version past its stamp.     *)
CopiesOK ==
  \A n \in Name : \A c \in pages[n].of :
    /\ c[1] \in DOMAIN feed /\ c[2] <= feed[c[1]]
    /\ \A d \in pages[n].of : c[1] = d[1] => c = d
    /\ Full(n) => c[1] \in (n[2] + 1)..(n[2] + PageSize)
    /\ ~Full(n) => c[2] <= n[1] /\ n[1] <= run.now

(* The full page of a record holds its current version, or is torn.          *)
Got(r) ==
  \E n \in Name :
    /\ Full(n)
    /\ \/ <<r, feed[r]>> \in pages[n].of
       \/ pages[n].st = "torn" /\ r \in (n[2] + 1)..(n[2] + PageSize)

Current(k, b) == \A r \in DOMAIN feed : r <= k /\ feed[r] < b => Got(r)

(* A cursor is backed by pages.                                              *)
CursorsOK ==
  /\ checkpoint.mode = "full" => Current(checkpoint.next, began.cursor)
  /\ FullPullDone => Current(MaxRecords, began.cursor)
  /\ run.st # "off" /\ run.mode = "full" => Current(run.next, began.run)
  /\ run.mode = "full" /\ (run.st = "finishing" \/ (run.st = "saving" /\ ~run.more)) =>
       Current(MaxRecords, began.run)

(* The pages of a window are written in the order of their indices.          *)
IndicesOK ==
  \A n \in Name : ~Full(n) /\ pages[n].of # {} =>
    /\ run.st # "off" /\ n[1] = run.to => n[2] <= run.next
    /\ checkpoint.next > 0 /\ n[1] = checkpoint.to => n[2] <= checkpoint.next

ResumedOK ==
  run.st = "asking" /\ run.mode = "delta" /\ checkpoint.next > 0 /\ checkpoint.to = run.to =>
    run.next = checkpoint.next

(* A delta page was current when its window ended, so that pages of later    *)
(* windows, and later pages of the same one, hold versions as late.          *)
DeltasOK ==
  \A n \in Name : ~Full(n) => \A d \in pages[n].of :
    /\ d[2] = feed[d[1]] \/ feed[d[1]] >= n[1]
    /\ \A m \in Name : ~Full(m) /\ Before(m, n) =>
         \A c \in pages[m].of : c[1] = d[1] => c[2] <= d[2]

IInv ==
  TypeOK /\ ModesOK /\ CopiesOK /\ CursorsOK /\ IndicesOK /\ ResumedOK /\ DeltasOK

-----------------------------------------------------------------------------
(* Numbers. *)

LEMMA Least ==
  ASSUME NEW T \in SUBSET Nat, T # {}
  PROVE  \E x \in T : \A y \in T : x <= y
<1> DEFINE R == OpToRel(<, Nat)
<1>1. PICK x \in T : \A y \in T : ~(<<y, x>> \in R)
  <2>1. IsWellFoundedOn(R, Nat)
    BY NatLessThanWellFounded
  <2> HIDE DEF R
  <2> QED BY <2>1, WFMin
<1>2. ASSUME NEW y \in T PROVE x <= y
  <2>1. y < x => <<y, x>> \in R
    BY DEF OpToRel
  <2> HIDE DEF R
  <2> QED BY <1>1, <2>1, SMT
<1> QED BY <1>2

LEMMA Greatest ==
  ASSUME NEW T \in SUBSET Nat, T # {}, NEW b \in Nat, \A x \in T : x <= b
  PROVE  \E x \in T : \A y \in T : y <= x
<1> DEFINE S == {z \in Nat : b - z \in T}
<1>1. \A x \in T : b - x \in S
  OBVIOUS
<1>2. S \in SUBSET Nat /\ S # {}
  BY <1>1
<1>3. PICK z \in S : \A y \in S : z <= y
  <2> HIDE DEF S
  <2> QED BY <1>2, Least
<1>4. b - z \in T /\ z \in Nat
  BY <1>3
<1>5. ASSUME NEW y \in T PROVE y <= b - z
  BY <1>1, <1>3, <1>4
<1> QED BY <1>4, <1>5

-----------------------------------------------------------------------------
(* The answer to a request. *)

LEMMA MatchingFinite ==
  ASSUME TypeOK
  PROVE  /\ DOMAIN feed = 1..Len(feed) /\ Len(feed) \in 0..MaxRecords
         /\ Matching \subseteq DOMAIN feed /\ Matching \subseteq 1..MaxRecords
         /\ \A S : S \subseteq Matching => IsFiniteSet(S) /\ Cardinality(S) \in 0..MaxRecords
<1>1. DOMAIN feed = 1..Len(feed) /\ Len(feed) \in 0..MaxRecords
  BY FetchAssumption DEF TypeOK
<1>2. Matching \subseteq DOMAIN feed /\ Matching \subseteq 1..MaxRecords
  BY <1>1, FetchAssumption DEF Matching
<1>3. IsFiniteSet(1..MaxRecords) /\ Cardinality(1..MaxRecords) = MaxRecords
  BY FS_Interval, FetchAssumption
<1>4. ASSUME NEW S, S \subseteq Matching
      PROVE  IsFiniteSet(S) /\ Cardinality(S) \in 0..MaxRecords
  <2>1. S \in SUBSET (1..MaxRecords)
    BY <1>2, <1>4
  <2>2. IsFiniteSet(S) /\ Cardinality(S) <= MaxRecords
    BY <1>3, <2>1, FS_Subset
  <2> QED BY <2>2, FS_CardinalityType, FetchAssumption
<1> QED BY <1>1, <1>2, <1>4

(* A page never takes the cursor past the end of the feed.                   *)
LEMMA CursorFits ==
  ASSUME TypeOK, Batch # {}
  PROVE  Cursor \in 0..MaxRecords /\ run.next <= Cursor
<1> DEFINE Below(r) == {q \in Matching : q < r}
<1>0. run.next \in 0..MaxRecords
  BY DEF TypeOK, Run
<1>1. Batch \subseteq Matching
  BY DEF Batch
<1>2. PICK r \in Batch : \A q \in Batch : r <= q
  BY <1>1, MatchingFinite, Least, FetchAssumption
<1>3. Cardinality(Below(r)) >= run.next
  <2>1. Cardinality({q \in Matching : q < r}) \in run.next..(run.next + PageSize - 1)
    BY <1>2 DEF Batch
  <2> QED BY <1>0, <2>1, FetchAssumption
<1>4. Below(r) \subseteq Matching /\ Below(r) \cap Batch = {}
  BY <1>1, <1>2, MatchingFinite, FetchAssumption
<1>5. Below(r) \cup Batch \subseteq Matching
  BY <1>1, <1>4
<1> HIDE DEF Below
<1>6. /\ IsFiniteSet(Below(r)) /\ Cardinality(Below(r)) \in 0..MaxRecords
      /\ IsFiniteSet(Batch) /\ Cardinality(Batch) \in 0..MaxRecords
      /\ Cardinality(Below(r) \cup Batch) \in 0..MaxRecords
  BY <1>1, <1>4, <1>5, MatchingFinite
<1>7. Cardinality(Below(r) \cup Batch) = Cardinality(Below(r)) + Cardinality(Batch)
  <2>1. Cardinality(Below(r) \cup Batch)
          = Cardinality(Below(r)) + Cardinality(Batch) - Cardinality(Below(r) \cap Batch)
    BY <1>6, FS_Union
  <2> QED BY <1>4, <1>6, <2>1, FS_EmptySet, FetchAssumption
<1> QED BY <1>0, <1>3, <1>6, <1>7, FetchAssumption DEF Cursor

(* A full pull is answered with the records of its place.                    *)
LEMMA FullBatch ==
  ASSUME TypeOK, run.mode = "full"
  PROVE  /\ Batch = {r \in DOMAIN feed : r \in (run.next + 1)..(run.next + PageSize)}
         /\ Cardinality(Batch) \in 0..PageSize
         /\ Cardinality(Matching) = Len(feed)
<1>0. run.next \in Nat /\ PageSize \in Nat \ {0}
  BY FetchAssumption DEF TypeOK, Run
<1>1. Matching = 1..Len(feed) /\ DOMAIN feed = 1..Len(feed) /\ Len(feed) \in Nat
  BY MatchingFinite, FetchAssumption DEF Matching
<1>2. ASSUME NEW r \in Matching PROVE Cardinality({q \in Matching : q < r}) = r - 1
  <2>1. {q \in Matching : q < r} = 1..(r - 1)
    BY <1>1
  <2>2. 1 \in Int /\ r \in Int /\ r - 1 \in Int /\ r >= 1
    BY <1>1
  <2>3. Cardinality(1..(r - 1)) = r - 1
    <3>1. Cardinality(1..(r - 1)) = IF 1 > r - 1 THEN 0 ELSE (r - 1) - 1 + 1
      BY <2>2, FS_Interval
    <3> QED BY <2>2, <3>1
  <2> QED BY <2>1, <2>3
<1>3. ASSUME NEW r \in Matching
      PROVE  r \in Batch <=> r \in (run.next + 1)..(run.next + PageSize)
  <2>1. r \in Batch <=> r - 1 \in run.next..(run.next + PageSize - 1)
    BY <1>2 DEF Batch
  <2>2. r \in Nat
    BY <1>1
  <2> QED BY ONLY <1>0, <2>1, <2>2
<1>4. Batch = {r \in DOMAIN feed : r \in (run.next + 1)..(run.next + PageSize)}
  BY <1>1, <1>3 DEF Batch
<1>5. Cardinality(Batch) \in 0..PageSize
  <2>1. IsFiniteSet((run.next + 1)..(run.next + PageSize))
          /\ Cardinality((run.next + 1)..(run.next + PageSize)) = PageSize
    <3>1. PICK a \in Int, b \in Int : a = run.next + 1 /\ b = run.next + PageSize
      BY <1>0
    <3>2. /\ IsFiniteSet(a..b)
          /\ Cardinality(a..b) = IF a > b THEN 0 ELSE b - a + 1
      BY FS_Interval
    <3>3. ~(a > b) /\ b - a + 1 = PageSize
      BY <1>0, <3>1
    <3> QED BY <3>1, <3>2, <3>3
  <2>2. Batch \in SUBSET ((run.next + 1)..(run.next + PageSize))
    BY <1>4
  <2>3. IsFiniteSet(Batch) /\ Cardinality(Batch) <= PageSize
    BY <2>1, <2>2, FS_Subset
  <2> QED BY <1>0, <2>3, FS_CardinalityType
<1>6. Cardinality(Matching) = Len(feed)
  <2>1. Cardinality(1..Len(feed)) = IF 1 > Len(feed) THEN 0 ELSE Len(feed) - 1 + 1
    BY <1>1, FS_Interval, 1 \in Int, Len(feed) \in Int
  <2> QED BY <1>1, <2>1
<1> QED BY <1>4, <1>5, <1>6

-----------------------------------------------------------------------------
(* Types. *)

LEMMA InitInv == Init => IInv
<1> SUFFICES ASSUME Init PROVE IInv
  OBVIOUS
<1>1. TypeOK
  <2>1. PICK n \in 0..MaxRecords : feed = [r \in 1..n |-> 1]
    BY DEF Init
  <2>2. 1 \in Time /\ n \in Nat /\ n <= MaxRecords
    BY FetchAssumption DEF Time
  <2>3. feed \in Seq(Time) /\ Len(feed) = n
    BY <2>1, <2>2
  <2>4. pages \in [Name -> Page]
    BY DEF Init, Page
  <2>5. checkpoint \in Checkpoint
    BY FetchAssumption DEF Init, Blank, Checkpoint, Moment
  <2>6. run \in Run
    BY FetchAssumption DEF Init, Ended, Run, Moment
  <2>7. began \in [run : Moment, cursor : Moment] /\ tears \in 0..MaxTears
    BY FetchAssumption DEF Init, Moment
  <2>8. clock \in Time
    BY <2>2 DEF Init
  <2> QED BY <2>2, <2>3, <2>4, <2>5, <2>6, <2>7, <2>8 DEF TypeOK
<1>2. \A n \in Name : pages[n].of = {}
  BY DEF Init
<1>3. ModesOK
  <2>1. \A r \in DOMAIN feed : feed[r] = 1
    BY DEF Init
  <2> QED BY <2>1 DEF Init, ModesOK, Never, Ended, Blank
<1>4. CopiesOK /\ IndicesOK /\ DeltasOK
  BY <1>2 DEF CopiesOK, IndicesOK, DeltasOK
<1>5. CursorsOK /\ ResumedOK
  BY DEF Init, CursorsOK, ResumedOK, FullPullDone, Ended, Blank
<1> QED BY <1>1, <1>3, <1>4, <1>5 DEF IInv

LEMMA StartInv ==
  ASSUME TypeOK, NEW req \in Requests, Start(req)
  PROVE  /\ run' \in Run /\ run'.st = "asking" /\ run'.now = clock
         /\ began'.cursor = began.cursor /\ began' \in [run : Moment, cursor : Moment]
         /\ \/ /\ run'.next = 0 /\ began'.run = clock
               /\ \/ run'.mode = "full" /\ run'.to = Never
                  \/ run'.mode = "delta" /\ run'.to = clock
            \/ /\ checkpoint.next > 0 /\ run'.next = checkpoint.next
               /\ run'.mode = checkpoint.mode /\ run'.to = checkpoint.to
               /\ began'.run = began.cursor
<1> DEFINE fresh == [st |-> "asking", mode |-> ModeOf(req), next |-> 0,
                     from |-> IF Incremental(req) THEN Anchor(req) ELSE Never,
                     to |-> IF Incremental(req) THEN clock ELSE Never,
                     now |-> clock, more |-> FALSE]
<1>1. clock \in Moment /\ Never \in Moment /\ Anchor(req) \in Moment /\ 0 \in 0..MaxRecords
  <2>1. req \in Request
    BY FetchAssumption
  <2>2. checkpoint.last \in Moment /\ req.at \in Moment
    BY <2>1, FetchAssumption DEF TypeOK, Checkpoint, Request, Moment, Time, Never
  <2> QED BY <2>2, FetchAssumption DEF TypeOK, Moment, Anchor
<1>2. fresh \in Run
  BY <1>1 DEF Run, ModeOf
<1>3. CASE ~Resumes(req)
  <2>1. run' = fresh /\ began' = [began EXCEPT !.run = clock]
    BY <1>3 DEF Start
  <2>2. \/ ModeOf(req) = "full" /\ ~Incremental(req)
        \/ ModeOf(req) = "delta" /\ Incremental(req)
    BY DEF ModeOf
  <2> QED BY <1>1, <1>2, <2>1, <2>2 DEF TypeOK
<1>4. CASE Resumes(req)
  <2>1. /\ run' = [fresh EXCEPT !.next = checkpoint.next, !.from = checkpoint.from,
                                !.to = checkpoint.to]
        /\ began' = [began EXCEPT !.run = began.cursor]
    BY <1>4 DEF Start
  <2>2. /\ checkpoint.next \in 0..MaxRecords /\ checkpoint.from \in Moment
        /\ checkpoint.to \in Moment
    BY DEF TypeOK, Checkpoint
  <2>3. checkpoint.next > 0 /\ checkpoint.mode = ModeOf(req)
    BY <1>4 DEF Resumes
  <2> QED BY <1>1, <1>2, <2>1, <2>2, <2>3 DEF TypeOK, Run
<1> QED BY <1>3, <1>4

(* What an answer, or a page torn in its place, does to the page files.      *)
LEMMA AnswerShape ==
  ASSUME TypeOK, Answer \/ TearPage
  PROVE  /\ PageName \in Name /\ Batch # {} /\ run.st = "asking"
         /\ pages' \in [Name -> Page]
         /\ \A n \in Name : n # PageName => pages'[n] = pages[n]
         /\ \/ pages'[PageName].of = {<<r, feed[r]>> : r \in Batch}
            \/ pages'[PageName].of = {} /\ pages'[PageName].st = "torn"
<1>1. PageName \in Name
  BY DEF TypeOK, Run, PageName, Name
<1>2. {<<r, feed[r]>> : r \in Batch} \in SUBSET ((1..MaxRecords) \X Time)
  <2>1. \A r \in Batch : r \in 1..MaxRecords /\ r \in DOMAIN feed
    BY MatchingFinite DEF Batch
  <2>2. \A r \in DOMAIN feed : feed[r] \in Time
    BY DEF TypeOK
  <2> QED BY <2>1, <2>2
<1>3. /\ [st |-> "whole", of |-> {<<r, feed[r]>> : r \in Batch}] \in Page
      /\ [st |-> "torn", of |-> {}] \in Page
  BY <1>2 DEF Page
<1>4. pages \in [Name -> Page]
  BY DEF TypeOK
<1>5. CASE Answer
  <2> DEFINE new == [st |-> "whole", of |-> {<<r, feed[r]>> : r \in Batch}]
  <2>1. pages' = [pages EXCEPT ![PageName] = new] /\ Batch # {} /\ run.st = "asking"
    BY <1>5 DEF Answer
  <2>2. new.of = {<<r, feed[r]>> : r \in Batch} /\ new \in Page
    BY <1>3
  <2> HIDE DEF new
  <2> QED BY <1>1, <1>4, <2>1, <2>2
<1>6. CASE TearPage
  <2>1. /\ pages' = [pages EXCEPT ![PageName] = [st |-> "torn", of |-> {}]]
        /\ Batch # {} /\ run.st = "asking"
    BY <1>6 DEF TearPage
  <2> QED BY <1>1, <1>3, <1>4, <2>1
<1> QED BY <1>5, <1>6

(* The NVD's steps, and those that end a run. *)
World == Tick \/ Publish \/ \E r \in DOMAIN feed : Modify(r)
Stops == Interrupted \/ TearPage \/ TearCheckpoint

LEMMA EndedInRun == ASSUME NEW now \in Moment PROVE Ended(now) \in Run
BY FetchAssumption DEF Ended, Run, Moment

LEMMA TypeInv == TypeOK /\ Next => TypeOK'
<1> SUFFICES ASSUME TypeOK, Next PROVE TypeOK'
  OBVIOUS
<1>0. run.now \in Moment /\ Never \in Moment /\ began.run \in Moment /\ began.cursor \in Moment
  BY DEF TypeOK, Run, Moment
<1>1. CASE Tick
  BY <1>1, FetchAssumption DEF TypeOK, Tick, Time
<1>2. CASE Publish
  <2>1. Len(feed) \in Nat /\ Len(feed) < MaxRecords /\ feed' = Append(feed, clock)
    BY <1>2 DEF TypeOK, Publish
  <2>2. feed' \in Seq(Time) /\ Len(feed') <= MaxRecords
    BY <2>1, FetchAssumption DEF TypeOK
  <2> QED BY <1>2, <2>2 DEF TypeOK, Publish
<1>3. CASE \E r \in DOMAIN feed : Modify(r)
  <2>1. PICK r \in DOMAIN feed : Modify(r)
    BY <1>3
  <2>2. feed' \in Seq(Time) /\ Len(feed') = Len(feed)
    BY <2>1 DEF TypeOK, Modify
  <2> QED BY <2>1, <2>2 DEF TypeOK, Modify
<1>4. CASE \E req \in Requests : Start(req)
  <2>1. PICK req \in Requests : Start(req)
    BY <1>4
  <2>2. run' \in Run /\ began' \in [run : Moment, cursor : Moment]
    BY <2>1, StartInv
  <2>3. UNCHANGED <<clock, feed, pages, checkpoint, tears>>
    BY <2>1 DEF Start
  <2> QED BY <2>2, <2>3 DEF TypeOK
<1>5. CASE Answer
  <2>1. pages' \in [Name -> Page]
    BY <1>5, AnswerShape
  <2>2. Cursor \in 0..MaxRecords
    BY <1>5, CursorFits DEF Answer
  <2> DEFINE more == Cursor < Cardinality(Matching)
  <2>3. run' = [run EXCEPT !.st = "saving", !.next = Cursor, !.more = more]
    BY <1>5 DEF Answer
  <2>4. more \in BOOLEAN /\ run \in Run
    BY DEF TypeOK
  <2>5. run' \in Run
    <3> HIDE DEF more
    <3> QED BY <2>2, <2>3, <2>4 DEF Run
  <2> QED BY <1>5, <2>1, <2>5 DEF Answer, TypeOK
<1>6. CASE NothingLeft
  BY <1>6 DEF NothingLeft, TypeOK, Run
<1>7. CASE SaveCursor
  <2>1. run' \in Run
    BY <1>7 DEF SaveCursor, TypeOK, Run
  <2>2. checkpoint' \in Checkpoint
    BY <1>7 DEF SaveCursor, TypeOK, Run, Checkpoint
  <2> QED BY <1>0, <1>7, <2>1, <2>2 DEF SaveCursor, TypeOK
<1>8. CASE Finish
  <2>1. run.to \in Moment /\ run.mode \in {"full", "delta"} /\ 0 \in 0..MaxRecords
    BY FetchAssumption DEF TypeOK, Run
  <2>2. checkpoint' \in Checkpoint
    BY <1>0, <1>8, <2>1 DEF Finish, Checkpoint
  <2>3. run' \in Run
    BY <1>0, <1>8, EndedInRun DEF Finish
  <2> QED BY <1>0, <1>8, <2>2, <2>3 DEF Finish, TypeOK
<1>9. CASE Stops
  <2>1. run' \in Run
    BY <1>0, <1>9, EndedInRun DEF Stops, Interrupted, TearPage, TearCheckpoint
  <2>2. pages' \in [Name -> Page]
    BY <1>9, AnswerShape DEF TypeOK, Stops, Interrupted, TearCheckpoint
  <2>3. checkpoint' \in Checkpoint
    <3>1. Blank \in Checkpoint
      BY <1>0, FetchAssumption DEF Blank, Checkpoint
    <3> QED BY <1>9, <3>1 DEF TypeOK, Stops, Interrupted, TearPage, TearCheckpoint
  <2>4. began' \in [run : Moment, cursor : Moment]
    BY <1>0, <1>9 DEF TypeOK, Stops, Interrupted, TearPage, TearCheckpoint
  <2>5. tears' \in 0..MaxTears /\ clock' = clock /\ feed' = feed
    BY <1>9, FetchAssumption DEF TypeOK, Stops, Interrupted, TearPage, TearCheckpoint
  <2> QED BY <2>1, <2>2, <2>3, <2>4, <2>5 DEF TypeOK
<1> QED BY <1>1, <1>2, <1>3, <1>4, <1>5, <1>6, <1>7, <1>8, <1>9 DEF Next, Proceed, Stops

(* The feed only moves on: a record keeps its version or gets the latest.    *)
LEMMA FeedMoves ==
  ASSUME TypeOK, ModesOK, World
  PROVE  /\ DOMAIN feed \subseteq DOMAIN feed'
         /\ \A r \in DOMAIN feed : feed[r] \in Time /\ feed[r] <= clock
         /\ \A r \in DOMAIN feed' : feed'[r] = clock \/ (r \in DOMAIN feed /\ feed'[r] = feed[r])
         /\ clock \in Time /\ clock' \in Time /\ clock <= clock'
         /\ UNCHANGED <<pages, checkpoint, run, began, tears>>
<1>0. clock \in Time /\ feed \in Seq(Time)
  BY DEF TypeOK
<1>1. \A r \in DOMAIN feed : feed[r] \in Time /\ feed[r] <= clock
  BY <1>0 DEF ModesOK
<1>2. UNCHANGED <<pages, checkpoint, run, began, tears>>
  BY DEF World, Tick, Publish, Modify
<1>3. clock' \in Time /\ clock <= clock'
  BY <1>0, FetchAssumption DEF World, Tick, Publish, Modify, Time
<1>4. /\ DOMAIN feed \subseteq DOMAIN feed'
      /\ \A r \in DOMAIN feed' : feed'[r] = clock \/ (r \in DOMAIN feed /\ feed'[r] = feed[r])
  <2>1. CASE Tick
    BY <2>1 DEF Tick
  <2>2. CASE Publish
    <3>1. feed' = Append(feed, clock)
      BY <2>2 DEF Publish
    <3>2. /\ DOMAIN feed' = 1..(Len(feed) + 1) /\ DOMAIN feed = 1..Len(feed) /\ Len(feed) \in Nat
          /\ feed'[Len(feed) + 1] = clock /\ \A r \in 1..Len(feed) : feed'[r] = feed[r]
      BY <1>0, <3>1
    <3> QED BY <3>2
  <2>3. CASE \E r \in DOMAIN feed : Modify(r)
    BY <1>0, <2>3 DEF Modify
  <2> QED BY <2>1, <2>2, <2>3 DEF World
<1> QED BY <1>0, <1>1, <1>2, <1>3, <1>4

LEMMA ModesInv == TypeOK /\ ModesOK /\ Next => ModesOK'
<1> SUFFICES ASSUME TypeOK, ModesOK, Next PROVE ModesOK'
  OBVIOUS
<1>0. /\ clock \in Time /\ run.now \in 0..MaxClock /\ run.to \in 0..MaxClock
      /\ checkpoint.to \in 0..MaxClock /\ checkpoint.next \in Nat /\ run.next \in Nat
      /\ began.run \in 0..MaxClock /\ began.cursor \in 0..MaxClock
      /\ run.mode \in {"full", "delta"}
  BY SMTT(30), FetchAssumption DEF TypeOK, Run, Checkpoint, Moment, Time, Never
<1>1. CASE World
  <2>1. \A r \in DOMAIN feed' : feed'[r] <= clock'
    BY <1>0, <1>1, FeedMoves, FetchAssumption DEF Time
  <2>2. clock <= clock' /\ clock' \in Nat /\ UNCHANGED <<checkpoint, run, began>>
    BY <1>1, FeedMoves, FetchAssumption DEF Time
  <2> QED BY <1>0, <2>1, <2>2, FetchAssumption DEF ModesOK, Time
<1>2. CASE \E req \in Requests : Start(req)
  <2>1. PICK req \in Requests : Start(req)
    BY <1>2
  <2>2. /\ run'.now = clock /\ run.now < clock
        /\ UNCHANGED <<clock, feed, checkpoint>> /\ clock # Never
    <3>1. run'.now = clock
      BY <2>1, StartInv
    <3>2. run.now < clock /\ UNCHANGED <<clock, feed, checkpoint>>
      BY <2>1 DEF Start
    <3>3. clock # Never
      BY <1>0, FetchAssumption DEF Time, Never
    <3> QED BY <3>1, <3>2, <3>3
  <2>3. (run'.mode = "full" <=> run'.to = Never) /\ run'.to <= clock
    BY <1>0, <2>1, <2>2, StartInv, FetchAssumption DEF ModesOK, Time, Never
  <2>4. began'.run <= clock /\ began'.cursor <= clock
    BY <1>0, <2>1, StartInv, FetchAssumption DEF ModesOK, Time
  <2>5. checkpoint.next > 0 => checkpoint.to <= clock
    BY <1>0, <2>2, FetchAssumption DEF ModesOK, Time
  <2> QED BY <1>0, <2>2, <2>3, <2>4, <2>5 DEF ModesOK, Time
<1>3. CASE Answer \/ NothingLeft \/ SaveCursor
  <2>1. run.st # "off" /\ run'.mode = run.mode /\ run'.to = run.to /\ run'.now = run.now
    BY <1>3 DEF Answer, NothingLeft, SaveCursor, TypeOK, Run
  <2>2. clock' = clock /\ feed' = feed /\ began'.run = began.run
    BY <1>3 DEF Answer, NothingLeft, SaveCursor, TypeOK
  <2>3. \/ checkpoint' = checkpoint /\ began'.cursor = began.cursor
        \/ /\ checkpoint'.mode = run.mode /\ checkpoint'.to = run.to
           /\ began'.cursor = began.run
    BY <1>3 DEF Answer, NothingLeft, SaveCursor, TypeOK
  <2>4. (run.mode = "full" <=> run.to = Never) /\ run.to <= run.now
    BY <2>1 DEF ModesOK
  <2>5. checkpoint'.next > 0 =>
          /\ checkpoint'.mode # "none"
          /\ checkpoint'.mode = "full" <=> checkpoint'.to = Never
          /\ checkpoint'.to <= run'.now
    BY <1>0, <2>1, <2>3, <2>4 DEF ModesOK
  <2>6. began'.run <= clock' /\ began'.cursor <= clock'
    BY <2>2, <2>3 DEF ModesOK
  <2> QED BY <2>1, <2>2, <2>4, <2>5, <2>6 DEF ModesOK
<1>5. CASE Finish
  <2>1. run'.st = "off" /\ run'.now = run.now
    BY <1>5 DEF Finish, Ended
  <2>2. /\ clock' = clock /\ feed' = feed /\ checkpoint'.next = 0
        /\ began'.run = Never /\ began'.cursor = began.run
    BY <1>5 DEF Finish
  <2> QED BY <1>0, <2>1, <2>2, FetchAssumption DEF ModesOK, Never, Time
<1>6. CASE Stops
  <2>1. run'.st = "off" /\ run'.now = run.now
    BY <1>6 DEF Stops, Interrupted, TearPage, TearCheckpoint, Ended
  <2>2. checkpoint' = checkpoint \/ checkpoint'.next = 0
    BY <1>6 DEF Stops, Interrupted, TearPage, TearCheckpoint, Blank
  <2>3. began'.run = Never /\ began'.cursor = began.cursor /\ clock' = clock /\ feed' = feed
    BY <1>6 DEF Stops, Interrupted, TearPage, TearCheckpoint, TypeOK
  <2> QED BY <1>0, <2>1, <2>2, <2>3, FetchAssumption DEF ModesOK, Never, Time
<1> QED BY <1>1, <1>2, <1>3, <1>5, <1>6 DEF Next, Proceed, Stops, World

-----------------------------------------------------------------------------
(* The copies on disk. *)

(* What a step leaves of the copies of records: those it had, and one of     *)
(* each record of the batch in the page it wrote.                            *)
LEMMA CopiesAfter ==
  ASSUME TypeOK, Answer \/ TearPage, NEW n \in Name, NEW c \in pages'[n].of
  PROVE  \/ n # PageName /\ c \in pages[n].of
         \/ n = PageName /\ c[1] \in Batch /\ c[2] = feed[c[1]]
BY AnswerShape

(* A batch holds records of the feed, those of a window in versions of it.   *)
LEMMA BatchInScope ==
  ASSUME TypeOK, ModesOK, run.st = "asking", NEW r \in Batch
  PROVE  /\ r \in DOMAIN feed /\ feed[r] \in Time
         /\ Full(PageName) <=> run.mode = "full"
         /\ Full(PageName) => r \in (run.next + 1)..(run.next + PageSize)
         /\ ~Full(PageName) => feed[r] <= run.to
<1>1. r \in DOMAIN feed /\ feed[r] \in Time
  BY MatchingFinite DEF Batch, TypeOK
<1>2. Full(PageName) <=> run.mode = "full"
  BY DEF ModesOK, Full, PageName
<1>3. run.mode = "full" => r \in (run.next + 1)..(run.next + PageSize)
  BY FullBatch
<1>4. run.mode # "full" => feed[r] <= run.to
  <2>1. run.from \in 0..MaxClock /\ run.to \in 0..MaxClock
    BY FetchAssumption DEF TypeOK, Run, Moment, Time, Never
  <2>2. run.mode # "full" => feed[r] \in run.from..run.to
    BY DEF Batch, Matching
  <2> QED BY <2>1, <2>2, FetchAssumption
<1> QED BY <1>1, <1>2, <1>3, <1>4

LEMMA CopiesInv == TypeOK /\ ModesOK /\ CopiesOK /\ Next => CopiesOK'
<1> SUFFICES ASSUME TypeOK, ModesOK, CopiesOK, Next PROVE CopiesOK'
  OBVIOUS
<1>0. /\ run.now \in 0..MaxClock /\ clock \in Time /\ run.next \in Nat
      /\ \A n \in Name : n[1] \in 0..MaxClock /\ n[2] \in 0..MaxRecords
  BY FetchAssumption DEF TypeOK, Run, Name, Moment, Time, Never
<1>a. \A n \in Name : \A c \in pages[n].of : c[1] \in 1..MaxRecords /\ c[2] \in Time
  BY DEF TypeOK, Page
<1>1. CASE World
  <2>1. pages' = pages /\ run' = run
    BY <1>1, FeedMoves
  <2>2. ASSUME NEW n \in Name, NEW c \in pages[n].of
        PROVE  c[1] \in DOMAIN feed' /\ c[2] <= feed'[c[1]]
    <3>1. c[1] \in DOMAIN feed /\ c[2] <= feed[c[1]]
      BY DEF CopiesOK
    <3>2. /\ c[1] \in DOMAIN feed' /\ feed[c[1]] <= clock /\ feed[c[1]] \in Time
          /\ feed'[c[1]] = clock \/ feed'[c[1]] = feed[c[1]]
      BY <1>1, <3>1, FeedMoves
    <3> QED BY <1>0, <1>a, <3>1, <3>2, FetchAssumption DEF Time
  <2> QED BY <2>1, <2>2 DEF CopiesOK
<1>2. CASE \E req \in Requests : Start(req)
  <2>1. PICK req \in Requests : Start(req)
    BY <1>2
  <2>2. run'.now = clock /\ run.now < clock /\ pages' = pages /\ feed' = feed
    BY <2>1, StartInv DEF Start
  <2>3. \A n \in Name : n[1] <= run.now => n[1] <= run'.now
    BY <1>0, <2>2, FetchAssumption DEF Time
  <2> QED BY <2>2, <2>3 DEF CopiesOK
<1>3. CASE Answer \/ TearPage
  <2>0. run'.now = run.now /\ feed' = feed /\ run.st = "asking"
    <3>1. CASE Answer
      BY <3>1 DEF Answer, TypeOK, Run
    <3>2. CASE TearPage
      BY <3>2 DEF TearPage, Ended
    <3> QED BY <1>3, <3>1, <3>2
  <2>1. PageName \in Name /\ PageName[2] = run.next /\ PageName[1] = run.to
    BY <1>3, AnswerShape DEF PageName
  <2>2. ASSUME NEW n \in Name, NEW c \in pages'[n].of
        PROVE  /\ c[1] \in DOMAIN feed /\ c[2] <= feed[c[1]]
               /\ \A d \in pages'[n].of : c[1] = d[1] => c = d
               /\ Full(n) => c[1] \in (n[2] + 1)..(n[2] + PageSize)
               /\ ~Full(n) => c[2] <= n[1] /\ n[1] <= run.now
    <3>1. CASE n # PageName
      <4>1. pages'[n] = pages[n]
        BY <1>3, <3>1, AnswerShape
      <4> QED BY <4>1 DEF CopiesOK
    <3>2. CASE n = PageName
      <4>1. pages'[n].of = {<<r, feed[r]>> : r \in Batch}
        BY <1>3, <3>2, AnswerShape
      <4>2. PICK r \in Batch : c = <<r, feed[r]>>
        BY <4>1
      <4>3. \A d \in pages'[n].of : c[1] = d[1] => c = d
        BY <4>1, <4>2
      <4>4. /\ r \in DOMAIN feed /\ feed[r] \in Time
            /\ Full(n) => r \in (n[2] + 1)..(n[2] + PageSize)
            /\ ~Full(n) => feed[r] <= n[1] /\ n[1] <= run.now
        BY <2>0, <2>1, <3>2, BatchInScope DEF ModesOK, Full
      <4>5. feed[r] <= feed[r]
        BY <4>4, FetchAssumption DEF Time
      <4> QED BY <4>2, <4>3, <4>4, <4>5
    <3> QED BY <3>1, <3>2
  <2> QED BY <2>0, <2>2 DEF CopiesOK
<1>4. CASE NothingLeft \/ SaveCursor \/ Finish \/ Interrupted \/ TearCheckpoint
  <2>1. run'.now = run.now /\ feed' = feed /\ pages' = pages
    BY <1>4 DEF NothingLeft, SaveCursor, Finish, Interrupted, TearCheckpoint, Ended, TypeOK, Run
  <2> QED BY <2>1 DEF CopiesOK
<1> QED BY <1>1, <1>2, <1>3, <1>4 DEF Next, Proceed, World

-----------------------------------------------------------------------------
(* Cursors. *)

(* A full page is only overwritten by one that has the same records, or by a *)
(* torn one: what a step does not modify stays on disk, if it was.           *)
LEMMA GotKept ==
  ASSUME TypeOK, ModesOK, CopiesOK, Next
  PROVE  \A r \in DOMAIN feed' :
           \/ feed'[r] = clock
           \/ r \in DOMAIN feed /\ feed'[r] = feed[r] /\ (Got(r) => Got(r)')
<1>1. CASE World
  <2>1. pages' = pages
    BY <1>1, FeedMoves
  <2>2. \A r \in DOMAIN feed' : feed'[r] = clock \/ (r \in DOMAIN feed /\ feed'[r] = feed[r])
    BY <1>1, FeedMoves
  <2> QED BY <2>1, <2>2 DEF Got
<1>2. CASE Answer \/ TearPage
  <2>0. feed' = feed /\ run.st = "asking"
    BY <1>2 DEF Answer, TearPage
  <2>1. SUFFICES ASSUME NEW r \in DOMAIN feed, Got(r) PROVE Got(r)'
    BY <2>0
  <2>2. PICK n \in Name :
          /\ Full(n)
          /\ \/ <<r, feed[r]>> \in pages[n].of
             \/ pages[n].st = "torn" /\ r \in (n[2] + 1)..(n[2] + PageSize)
    BY <2>1 DEF Got
  <2>3. CASE n # PageName
    <3>1. pages'[n] = pages[n]
      BY <1>2, <2>3, AnswerShape
    <3> QED BY <2>0, <2>2, <3>1 DEF Got
  <2>4. CASE n = PageName
    <3>1. r \in (n[2] + 1)..(n[2] + PageSize)
      <4>1. <<r, feed[r]>> \in pages[n].of => <<r, feed[r]>>[1] \in (n[2] + 1)..(n[2] + PageSize)
        BY <2>2 DEF CopiesOK
      <4> QED BY <2>2, <4>1
    <3>2. run.mode = "full" /\ n[2] = run.next
      BY <2>0, <2>2, <2>4 DEF ModesOK, Full, PageName
    <3>3. r \in Batch
      BY <3>1, <3>2, FullBatch
    <3>4. \/ pages'[n].of = {<<q, feed[q]>> : q \in Batch}
          \/ pages'[n].of = {} /\ pages'[n].st = "torn"
      BY <1>2, <2>4, AnswerShape
    <3> QED BY <2>0, <2>2, <3>1, <3>3, <3>4 DEF Got
  <2> QED BY <2>3, <2>4
<1>3. CASE \/ \E req \in Requests : Start(req)
           \/ NothingLeft \/ SaveCursor \/ Finish \/ Interrupted \/ TearCheckpoint
  <2>1. feed' = feed /\ pages' = pages
    BY <1>3 DEF Start, NothingLeft, SaveCursor, Finish, Interrupted, TearCheckpoint
  <2> QED BY <2>1 DEF Got
<1> QED BY <1>1, <1>2, <1>3 DEF Next, Proceed, World

LEMMA CursorsInv == TypeOK /\ ModesOK /\ CopiesOK /\ CursorsOK /\ Next => CursorsOK'
<1> SUFFICES ASSUME TypeOK, ModesOK, CopiesOK, CursorsOK, Next PROVE CursorsOK'
  OBVIOUS
<1> DEFINE Later(k, b) == \A r \in DOMAIN feed' : r <= k /\ feed'[r] < b => Got(r)'
<1>0. /\ clock \in Nat /\ began.run \in Nat /\ began.cursor \in Nat
      /\ began.run <= clock /\ began.cursor <= clock
      /\ run.next \in Nat /\ checkpoint.next \in Nat
      /\ DOMAIN feed = 1..Len(feed) /\ Len(feed) \in 0..MaxRecords
      /\ \A r \in DOMAIN feed : feed[r] \in Nat
  BY MatchingFinite, FetchAssumption DEF TypeOK, ModesOK, Run, Checkpoint, Moment, Time, Never
<1>1. ASSUME NEW k, NEW b \in Nat, b <= clock, Current(k, b) PROVE Later(k, b)
  BY <1>0, <1>1, GotKept DEF Current
<1>2. ASSUME /\ checkpoint'.mode = "full" => Later(checkpoint'.next, began'.cursor)
             /\ checkpoint'.complete /\ checkpoint'.mode = "full" =>
                  Later(MaxRecords, began'.cursor)
             /\ run'.st # "off" /\ run'.mode = "full" => Later(run'.next, began'.run)
             /\ run'.mode = "full" /\ (run'.st = "finishing" \/ (run'.st = "saving" /\ ~run'.more)) =>
                  Later(MaxRecords, began'.run)
      PROVE  CursorsOK'
  BY <1>2 DEF CursorsOK, Current, FullPullDone
<1>3. /\ checkpoint.mode = "full" => Later(checkpoint.next, began.cursor)
      /\ checkpoint.complete /\ checkpoint.mode = "full" => Later(MaxRecords, began.cursor)
      /\ run.st # "off" /\ run.mode = "full" => Later(run.next, began.run)
      /\ run.mode = "full" /\ (run.st = "finishing" \/ (run.st = "saving" /\ ~run.more)) =>
           Later(MaxRecords, began.run)
  <2> HIDE DEF Later
  <2> QED BY <1>0, <1>1 DEF CursorsOK, FullPullDone
<1>4. CASE World
  <2>1. UNCHANGED <<checkpoint, run, began>>
    BY <1>4, FeedMoves
  <2> HIDE DEF Later
  <2> QED BY <1>2, <1>3, <2>1
<1>5. CASE \E req \in Requests : Start(req)
  <2>1. PICK req \in Requests : Start(req)
    BY <1>5
  <2>2. feed' = feed /\ checkpoint' = checkpoint
    BY <2>1 DEF Start
  <2>3. Later(0, began'.run)
    BY <1>0, <2>2
  <2> HIDE DEF Later
  <2> QED BY <1>2, <1>3, <2>1, <2>2, <2>3, StartInv
<1>6. CASE Answer
  <2>0. /\ run.st = "asking" /\ Batch # {} /\ run.mode \in {"full", "delta"}
        /\ UNCHANGED <<clock, feed, checkpoint, began>>
    BY <1>6 DEF Answer, TypeOK, Run
  <2>1. /\ run'.mode = run.mode /\ run'.next = Cursor /\ run'.st = "saving"
        /\ ~run'.more => ~(Cursor < Cardinality(Matching))
    BY <1>6 DEF Answer, TypeOK, Run
  <2>2. ASSUME run.mode = "full" PROVE Later(Cursor, began.run)
    <3>1. ASSUME NEW r \in Batch PROVE Got(r)'
      <4>1. PageName \in Name /\ Full(PageName)
        BY <1>6, <2>0, <2>2, AnswerShape DEF ModesOK, Full, PageName
      <4>2. pages'[PageName] = [st |-> "whole", of |-> {<<q, feed[q]>> : q \in Batch}]
        BY <1>6, <4>1 DEF Answer, TypeOK
      <4>3. <<r, feed[r]>> \in pages'[PageName].of
        BY <4>2
      <4> QED BY <2>0, <4>1, <4>3 DEF Got
    <3>2. Cursor = run.next + Cardinality(Batch) /\ Cardinality(Batch) \in 0..PageSize
      BY <2>2, FullBatch DEF Cursor
    <3>3. \A r \in DOMAIN feed : r <= Cursor => r <= run.next \/ r \in Batch
      <4>1. Batch = {r \in DOMAIN feed : r \in (run.next + 1)..(run.next + PageSize)}
        BY <2>2, FullBatch
      <4>2. Cursor \in Nat /\ Cursor <= run.next + PageSize
        BY SMTT(30), <1>0, <3>2, FetchAssumption
      <4>3. ASSUME NEW r \in DOMAIN feed, r <= Cursor, ~(r <= run.next) PROVE r \in Batch
        <5>1. r \in Nat /\ r \in (run.next + 1)..(run.next + PageSize)
          BY SMTT(30), <1>0, <4>2, <4>3, FetchAssumption
        <5> QED BY <4>1, <5>1
      <4> QED BY <4>3
    <3>4. Later(run.next, began.run)
      <4> HIDE DEF Later
      <4> QED BY <1>3, <2>0, <2>2
    <3> QED BY <2>0, <3>1, <3>3, <3>4
  <2>3. ASSUME run.mode = "full", ~(Cursor < Cardinality(Matching)) PROVE Later(MaxRecords, began.run)
    <3>1. Cursor \in Nat /\ Cardinality(Matching) = Len(feed)
      BY <1>6, <2>0, <2>3, CursorFits, FullBatch, FetchAssumption
    <3>2. \A r \in DOMAIN feed : r <= Cursor
      BY <1>0, <2>3, <3>1, FetchAssumption
    <3> QED BY <2>0, <2>2, <2>3, <3>2
  <2> HIDE DEF Later
  <2> QED BY <1>2, <1>3, <2>0, <2>1, <2>2, <2>3
<1>7. CASE NothingLeft
  <2>0. /\ run.st = "asking" /\ Batch = {} /\ UNCHANGED <<clock, feed, checkpoint, began>>
        /\ run'.mode = run.mode /\ run'.next = run.next /\ run'.st = "finishing"
    BY <1>7 DEF NothingLeft, TypeOK, Run
  <2>1. ASSUME run.mode = "full" PROVE Later(MaxRecords, began.run)
    <3>1. \A r \in DOMAIN feed : ~(r \in (run.next + 1)..(run.next + PageSize))
      BY <2>0, <2>1, FullBatch
    <3>2. ~(run.next + 1 \in DOMAIN feed)
      BY <1>0, <3>1, FetchAssumption
    <3>3. \A r \in DOMAIN feed : r <= run.next
      BY <1>0, <3>2, FetchAssumption
    <3>4. Later(run.next, began.run)
      <4> HIDE DEF Later
      <4> QED BY <1>3, <2>0, <2>1
    <3> QED BY <2>0, <3>3, <3>4
  <2> HIDE DEF Later
  <2> QED BY <1>2, <1>3, <2>0, <2>1
<1>8. CASE SaveCursor
  <2>1. /\ run.st = "saving" /\ checkpoint'.mode = run.mode /\ checkpoint'.next = run.next
        /\ ~checkpoint'.complete /\ began'.cursor = began.run /\ began'.run = began.run
        /\ run'.mode = run.mode /\ run'.next = run.next
        /\ run'.st = "asking" \/ (run'.st = "finishing" /\ ~run.more)
    BY <1>8 DEF SaveCursor, TypeOK, Run
  <2> HIDE DEF Later
  <2> QED BY <1>2, <1>3, <2>1
<1>9. CASE Finish
  <2>1. /\ run.st = "finishing" /\ checkpoint'.mode = run.mode /\ checkpoint'.next = 0
        /\ began'.cursor = began.run /\ run'.st = "off" /\ feed' = feed
    BY <1>9 DEF Finish, Ended
  <2>2. Later(0, began.run)
    BY <1>0, <2>1
  <2> HIDE DEF Later
  <2> QED BY <1>2, <1>3, <2>1, <2>2
<1>10. CASE Stops
  <2>1. /\ run'.st = "off" /\ began'.cursor = began.cursor
        /\ checkpoint' = checkpoint \/ checkpoint'.mode = "none"
    BY <1>10 DEF Stops, Interrupted, TearPage, TearCheckpoint, Ended, Blank, TypeOK
  <2> HIDE DEF Later
  <2> QED BY <1>2, <1>3, <2>1
<1> QED BY <1>4, <1>5, <1>6, <1>7, <1>8, <1>9, <1>10 DEF Next, Proceed, Stops, World

-----------------------------------------------------------------------------
(* Delta pages. *)

LEMMA IndicesInv ==
  TypeOK /\ ModesOK /\ CopiesOK /\ IndicesOK /\ ResumedOK /\ Next => IndicesOK' /\ ResumedOK'
<1> SUFFICES ASSUME TypeOK, ModesOK, CopiesOK, IndicesOK, ResumedOK, Next
             PROVE  IndicesOK' /\ ResumedOK'
  OBVIOUS
<1>0. /\ clock \in Nat /\ run.now \in Nat /\ run.to \in Nat /\ checkpoint.to \in Nat
      /\ run.next \in Nat /\ checkpoint.next \in Nat /\ run.mode \in {"full", "delta"}
      /\ \A n \in Name : n[1] \in Nat /\ n[2] \in Nat
  BY FetchAssumption DEF TypeOK, Run, Checkpoint, Name, Moment, Time, Never
<1>1. \A n \in Name : ~Full(n) /\ pages[n].of # {} => n[1] <= run.now
  BY DEF CopiesOK
<1>2. CASE World
  BY <1>2, FeedMoves DEF IndicesOK, ResumedOK
<1>3. CASE \E req \in Requests : Start(req)
  <2>1. PICK req \in Requests : Start(req)
    BY <1>3
  <2>2. run.now < clock /\ UNCHANGED <<pages, checkpoint>>
    BY <2>1 DEF Start
  <2>3. CASE /\ run'.next = 0
             /\ \/ run'.mode = "full" /\ run'.to = Never
                \/ run'.mode = "delta" /\ run'.to = clock
    <3>1. \A n \in Name : ~Full(n) /\ pages[n].of # {} => n[1] # run'.to
      BY <1>0, <1>1, <2>2, <2>3 DEF Full
    <3>2. run'.mode = "delta" /\ checkpoint.next > 0 => checkpoint.to # run'.to
      BY <1>0, <2>2, <2>3 DEF ModesOK
    <3> QED BY <2>2, <3>1, <3>2 DEF IndicesOK, ResumedOK
  <2>4. CASE checkpoint.next > 0 /\ run'.next = checkpoint.next /\ run'.to = checkpoint.to
    BY <2>2, <2>4 DEF IndicesOK, ResumedOK
  <2> QED BY <2>1, <2>3, <2>4, StartInv
<1>4. CASE Answer
  <2>0. /\ run.st = "asking" /\ checkpoint' = checkpoint
        /\ run'.st = "saving" /\ run'.next = Cursor /\ run'.to = run.to
    BY <1>4 DEF Answer, TypeOK, Run
  <2>1. Cursor \in Nat /\ run.next <= Cursor
    BY <1>4, CursorFits, FetchAssumption DEF Answer
  <2>2. ASSUME NEW n \in Name, ~Full(n), pages'[n].of # {}
        PROVE  /\ n[1] = run.to => n[2] <= Cursor
               /\ checkpoint.next > 0 /\ n[1] = checkpoint.to => n[2] <= checkpoint.next
    <3>1. CASE n # PageName
      <4>1. pages'[n] = pages[n]
        BY <1>4, <3>1, AnswerShape
      <4>2. /\ n[1] = run.to => n[2] <= run.next
            /\ checkpoint.next > 0 /\ n[1] = checkpoint.to => n[2] <= checkpoint.next
        BY <2>0, <2>2, <4>1 DEF IndicesOK
      <4> QED BY <1>0, <2>1, <4>2
    <3>2. CASE n = PageName
      <4>1. n[1] = run.to /\ n[2] = run.next
        BY <3>2 DEF PageName
      <4>2. run.mode = "delta"
        BY <1>0, <2>0, <2>2, <4>1 DEF ModesOK, Full
      <4>3. checkpoint.next > 0 /\ n[1] = checkpoint.to => n[2] = checkpoint.next
        BY <2>0, <4>1, <4>2 DEF ResumedOK
      <4> QED BY <1>0, <2>1, <4>1, <4>3
    <3> QED BY <3>1, <3>2
  <2> QED BY <2>0, <2>2 DEF IndicesOK, ResumedOK
<1>5. CASE NothingLeft
  <2>1. /\ run.st = "asking" /\ run'.st = "finishing" /\ run'.next = run.next /\ run'.to = run.to
        /\ UNCHANGED <<pages, checkpoint>>
    BY <1>5 DEF NothingLeft, TypeOK, Run
  <2> QED BY <2>1 DEF IndicesOK, ResumedOK
<1>6. CASE SaveCursor
  <2>1. /\ run.st = "saving" /\ run'.st # "off" /\ run'.next = run.next /\ run'.to = run.to
        /\ checkpoint'.next = run.next /\ checkpoint'.to = run.to /\ pages' = pages
    BY <1>6 DEF SaveCursor, TypeOK, Run
  <2> QED BY <2>1 DEF IndicesOK, ResumedOK
<1>7. CASE Finish
  <2>1. run'.st = "off" /\ checkpoint'.next = 0 /\ pages' = pages
    BY <1>7 DEF Finish, Ended
  <2> QED BY <2>1 DEF IndicesOK, ResumedOK
<1>8. CASE Stops
  <2>1. /\ run'.st = "off"
        /\ checkpoint' = checkpoint \/ checkpoint'.next = 0
    BY <1>8 DEF Stops, Interrupted, TearPage, TearCheckpoint, Ended, Blank
  <2>2. \A n \in Name : pages'[n] = pages[n] \/ pages'[n].of = {}
    <3>1. CASE TearPage
      BY <3>1 DEF TearPage, TypeOK
    <3>2. CASE Interrupted \/ TearCheckpoint
      BY <3>2 DEF Interrupted, TearCheckpoint
    <3> QED BY <1>8, <3>1, <3>2 DEF Stops
  <2> QED BY <2>1, <2>2 DEF IndicesOK, ResumedOK
<1> QED BY <1>2, <1>3, <1>4, <1>5, <1>6, <1>7, <1>8 DEF Next, Proceed, Stops, World

LEMMA DeltasInv ==
  TypeOK /\ ModesOK /\ CopiesOK /\ IndicesOK /\ DeltasOK /\ Next => DeltasOK'
<1> SUFFICES ASSUME TypeOK, ModesOK, CopiesOK, IndicesOK, DeltasOK, Next PROVE DeltasOK'
  OBVIOUS
<1>0. /\ clock \in Nat /\ run.now \in Nat /\ run.now <= clock
      /\ run.to \in Nat /\ run.next \in Nat
      /\ \A n \in Name : n[1] \in Nat /\ n[2] \in Nat
      /\ \A r \in DOMAIN feed : feed[r] \in Nat
  BY FetchAssumption DEF TypeOK, ModesOK, Run, Name, Moment, Time, Never
<1>1. \A n \in Name : \A c \in pages[n].of :
        c[2] \in Nat /\ c[1] \in DOMAIN feed /\ c[2] <= feed[c[1]]
  <2>1. \A n \in Name : \A c \in pages[n].of : c[2] \in Nat
    BY FetchAssumption DEF TypeOK, Page, Time
  <2> QED BY <2>1 DEF CopiesOK
<1>2. CASE World
  <2>1. pages' = pages
    BY <1>2, FeedMoves
  <2>2. ASSUME NEW n \in Name, ~Full(n), NEW d \in pages[n].of
        PROVE  d[2] = feed'[d[1]] \/ feed'[d[1]] >= n[1]
    <3>1. d[1] \in DOMAIN feed /\ (d[2] = feed[d[1]] \/ feed[d[1]] >= n[1]) /\ n[1] <= run.now
      BY <1>1, <2>2 DEF DeltasOK, CopiesOK
    <3>2. feed'[d[1]] = clock \/ feed'[d[1]] = feed[d[1]]
      BY <1>2, <3>1, FeedMoves
    <3> QED BY <1>0, <3>1, <3>2
  <2> QED BY <2>1, <2>2 DEF DeltasOK
<1>3. CASE Answer \/ TearPage
  <2>0. run.st = "asking" /\ feed' = feed
    BY <1>3 DEF Answer, TearPage
  <2>1. \A n \in Name : \A c \in pages'[n].of :
          \/ n # PageName /\ c \in pages[n].of
          \/ n = PageName /\ c[1] \in Batch /\ c[2] = feed[c[1]]
    BY <1>3, CopiesAfter
  <2>2. PageName \in Name /\ PageName[1] = run.to /\ PageName[2] = run.next
    BY <1>3, AnswerShape DEF PageName
  <2>3. ASSUME NEW n \in Name, ~Full(n), NEW d \in pages'[n].of
        PROVE  d[2] = feed[d[1]] \/ feed[d[1]] >= n[1]
    BY <2>1, <2>3 DEF DeltasOK
  <2>4. ASSUME NEW n \in Name, ~Full(n), NEW d \in pages'[n].of,
               NEW m \in Name, ~Full(m), Before(m, n), NEW c \in pages'[m].of, c[1] = d[1]
        PROVE  c[2] <= d[2]
    <3>1. CASE n # PageName /\ m # PageName
      BY <2>1, <2>4, <3>1 DEF DeltasOK
    <3>2. CASE n = PageName
      <4>1. d[2] = feed[d[1]] /\ d[1] \in Batch
        BY <2>1, <3>2
      <4>2. d[1] \in DOMAIN feed
        BY <2>0, <4>1, BatchInScope
      <4>3. m # PageName
        BY <1>0, <2>4, <3>2 DEF Before
      <4> QED BY <1>1, <2>1, <2>4, <4>1, <4>3
    <3>3. CASE n # PageName /\ m = PageName
      <4>1. c[2] = feed[c[1]] /\ c[1] \in Batch /\ d \in pages[n].of
        BY <2>1, <3>3
      <4>2. c[1] \in DOMAIN feed /\ feed[c[1]] <= run.to
        BY <2>0, <2>4, <3>3, <4>1, BatchInScope
      <4>3. n[1] = run.to => n[2] <= run.next
        BY <2>0, <2>4, <4>1 DEF IndicesOK
      <4>4. run.to < n[1]
        BY <1>0, <2>2, <2>4, <3>3, <4>3 DEF Before
      <4>5. d[2] = feed[d[1]] \/ feed[d[1]] >= n[1]
        BY <2>4, <4>1 DEF DeltasOK
      <4>6. d[2] = c[2]
        BY <1>0, <2>2, <2>4, <4>1, <4>2, <4>4, <4>5
      <4> QED BY <1>0, <4>1, <4>2, <4>6
    <3> QED BY <3>1, <3>2, <3>3
  <2> QED BY <2>0, <2>3, <2>4 DEF DeltasOK
<1>4. CASE \/ \E req \in Requests : Start(req)
           \/ NothingLeft \/ SaveCursor \/ Finish \/ Interrupted \/ TearCheckpoint
  <2>1. feed' = feed /\ pages' = pages
    BY <1>4 DEF Start, NothingLeft, SaveCursor, Finish, Interrupted, TearCheckpoint
  <2> QED BY <2>1 DEF DeltasOK
<1> QED BY <1>2, <1>3, <1>4 DEF Next, Proceed, World

LEMMA Inductive == IInv /\ [Next]_vars => IInv'
<1>1. IInv /\ Next => IInv'
  BY TypeInv, ModesInv, CopiesInv, CursorsInv, IndicesInv, DeltasInv DEF IInv
<1>2. IInv /\ UNCHANGED vars => IInv'
  BY DEF vars, IInv, TypeOK, ModesOK, CopiesOK, CursorsOK, Current, Got, FullPullDone,
         IndicesOK, ResumedOK, DeltasOK
<1> QED BY <1>1, <1>2

-----------------------------------------------------------------------------
(* The build. *)

(* Among the pages that hold a record one has the last name.                 *)
LEMMA LastName ==
  ASSUME NEW T \in SUBSET Name, T # {}
  PROVE  \E n \in T : \A m \in T : m = n \/ Before(m, n)
<1> DEFINE Stamps == {n[1] : n \in T}
<1>0. \A n \in Name : /\ n = <<n[1], n[2]>> /\ n[1] \in Nat /\ n[1] <= MaxClock
                      /\ n[2] \in Nat /\ n[2] <= MaxRecords
  BY FetchAssumption DEF Name, Moment, Time, Never
<1>1. PICK s \in Stamps : \A t \in Stamps : t <= s
  <2>1. Stamps \in SUBSET Nat /\ Stamps # {} /\ \A t \in Stamps : t <= MaxClock
    BY <1>0
  <2> HIDE DEF Stamps
  <2> QED BY <2>1, Greatest, FetchAssumption
<1> DEFINE Indices == {n[2] : n \in {l \in T : l[1] = s}}
<1>2. PICK i \in Indices : \A j \in Indices : j <= i
  <2>1. Indices \in SUBSET Nat /\ Indices # {} /\ \A j \in Indices : j <= MaxRecords
    BY <1>0, <1>1
  <2> HIDE DEF Indices
  <2> QED BY <2>1, Greatest, FetchAssumption
<1>3. PICK n \in T : n[1] = s /\ n[2] = i
  BY <1>2
<1>4. ASSUME NEW m \in T PROVE m = n \/ Before(m, n)
  <2>1. m[1] <= s /\ (m[1] = s => m[2] <= i)
    BY <1>1, <1>2
  <2>2. m[1] = s /\ m[2] = i => m = n
    BY <1>0, <1>3
  <2> QED BY <1>0, <1>3, <2>1, <2>2 DEF Before
<1> QED BY <1>4

LEMMA IngestedIsLast ==
  ASSUME NEW r, NEW k \in Name, NEW c \in pages[k].of, c[1] = r
  PROVE  \E n \in Name : \E d \in pages[n].of :
           /\ d[1] = r /\ Ingested(r) = d[2]
           /\ k = n \/ Before(k, n)
<1> DEFINE last == CHOOSE n \in Holding(r) : \A m \in Holding(r) : m = n \/ Before(m, n)
<1>1. k \in Holding(r) /\ Holding(r) \in SUBSET Name
  BY DEF Holding
<1>2. last \in Holding(r) /\ \A m \in Holding(r) : m = last \/ Before(m, last)
  <2>1. \E n \in Holding(r) : \A m \in Holding(r) : m = n \/ Before(m, n)
    BY <1>1, LastName
  <2> QED BY <2>1
<1> DEFINE copy == CHOOSE d \in pages[last].of : d[1] = r
<1>3. copy \in pages[last].of /\ copy[1] = r
  <2>1. \E d \in pages[last].of : d[1] = r
    BY <1>2 DEF Holding
  <2> HIDE DEF last
  <2> QED BY <2>1
<1>4. Ingested(r) = copy[2]
  BY <1>1 DEF Ingested
<1> HIDE DEF last, copy
<1> QED BY <1>1, <1>2, <1>3, <1>4

-----------------------------------------------------------------------------
(* The theorems. *)

(* The state of the puller has its types; the cursor stays within the feed.  *)
THEOREM TypeCorrect == Spec => []TypeOK
<1>1. IInv => TypeOK
  BY DEF IInv
<1> QED BY <1>1, InitInv, Inductive, PTL DEF Spec

(* A full pull that completes has everything, however many runs it took:     *)
(* fetch_nvd() and its checkpoint.                                           *)
THEOREM CompletePullIsCurrentAlways == Spec => []CompletePullIsCurrent
<1>1. IInv => CompletePullIsCurrent
  <2> SUFFICES ASSUME IInv, FullPullDone, NEW r \in DOMAIN feed, feed[r] < began.cursor
               PROVE  \E n \in Name :
                        \/ <<r, feed[r]>> \in pages[n].of
                        \/ n[1] = Never /\ pages[n].st = "torn" /\ r \in (n[2] + 1)..(n[2] + PageSize)
    BY DEF CompletePullIsCurrent
  <2>1. r <= MaxRecords
    BY MatchingFinite, FetchAssumption DEF IInv
  <2>2. Got(r)
    BY <2>1 DEF IInv, CursorsOK, Current
  <2> QED BY <2>2 DEF Got, Full
<1> QED BY <1>1, InitInv, Inductive, PTL DEF Spec

(* Deltas supersede what was pulled before them, and each other, in order:   *)
(* iter_nvd_entries() over the pages fetch_nvd() left.                       *)
THEOREM DeltasSupersedeAlways == Spec => []DeltasSupersede
<1>1. IInv => DeltasSupersede
  <2> SUFFICES ASSUME IInv, NEW r \in DOMAIN feed, NEW n \in Name, n[1] # Never,
                      NEW c \in pages[n].of, c[1] = r
               PROVE  c[2] <= Ingested(r)
    BY DEF DeltasSupersede
  <2>1. PICK l \in Name : \E d \in pages[l].of :
               d[1] = r /\ Ingested(r) = d[2] /\ (n = l \/ Before(n, l))
    BY IngestedIsLast
  <2>2. PICK d \in pages[l].of : d[1] = r /\ Ingested(r) = d[2] /\ (n = l \/ Before(n, l))
    BY <2>1
  <2>3. c[2] \in Nat /\ n[1] \in Nat /\ l[1] \in Nat
    BY SMTT(30), FetchAssumption DEF IInv, TypeOK, Page, Name, Moment, Time, Never
  <2>4. CASE n = l
    <3>1. c = d
      BY <2>2, <2>4 DEF IInv, CopiesOK
    <3> QED BY <2>2, <2>3, <3>1
  <2>5. CASE Before(n, l)
    <3>1. l[1] # Never
      BY <2>3, <2>5 DEF Before, Never
    <3> QED BY <2>2, <2>5, <3>1 DEF IInv, DeltasOK, Full
  <2> QED BY <2>2, <2>4, <2>5
<1> QED BY <1>1, InitInv, Inductive, PTL DEF Spec

-------------------------------------------------------------------------------
(* The invariant of the corpus.                                               *)

Entries == {EntryAt(p) : p \in Usable}

Directory == Seq([at : Nat \ {0}, records : Files])

(* What was fetched, and when.                                                *)
FilesOK ==
  /\ day \in Nat \ {0} /\ fetched_at \in Nat /\ fetched_at < day
  /\ files \in Directory
  /\ \A i \in DOMAIN files : files[i].at < day

(* What a build has left comes from the files.                                *)
LeftOK ==
  /\ building \in BOOLEAN
  /\ left \in Seq(Entries)
  /\ IF building THEN files # <<>> ELSE left = <<>>

(* So does what is fed, each to its CVE.                                      *)
FedOK ==
  \A c \in CVEs : fed[c] # <<>> => \E e \in Entries : fed[c] = <<e>> /\ e.cve = c

(* The tables hold what was fed, and nothing else.                            *)
Held == {c \in CVEs : fed[c] # <<>>}
TablesOK ==
  /\ \A c \in CVEs :
       IF c \in Held
       THEN cve[c].in /\ cve[c].cvss = fed[c][1].cvss /\ cve[c].product = fed[c][1].product
       ELSE cve[c] = Absent
  /\ applicability = UNION {RowsOf(fed[c][1]) : c \in Held}
  /\ product_alias =
       {[cve |-> c, alias |-> fed[c][1].product] : c \in {d \in Held : fed[d][1].product # ""}}

(* What a build has read, and what was in the directory at the end of a       *)
(* build, is in the corpus.                                                   *)
BuiltOK ==
  /\ building => \A p \in Usable : fed[EntryAt(p).cve] # <<>> \/ EntryAt(p) \in Range(left)
  /\ fetched_at # 0 =>
       \A p \in Usable : files[p[1]].at <= fetched_at => fed[EntryAt(p).cve] # <<>>

CorpusInv == FilesOK /\ LeftOK /\ FedOK /\ TablesOK /\ BuiltOK

(* Smallest and largest. *)
LEMMA MinOf ==
  ASSUME NEW T \in SUBSET Nat, T # {}
  PROVE  Min(T) \in T /\ \A y \in T : Min(T) <= y
BY Least DEF Min

LEMMA MinOfTwo ==
  ASSUME NEW m \in Int, NEW n \in Int
  PROVE  /\ Min({m, n}) \in {m, n} /\ Min({m, n}) <= m /\ Min({m, n}) <= n
<1>1. \E x \in {m, n} : \A y \in {m, n} : x <= y
  BY SMT
<1> QED BY <1>1 DEF Min

LEMMA MaxOfTwo ==
  ASSUME NEW m \in Int, NEW n \in Int
  PROVE  /\ Max({m, n}) \in {m, n} /\ Max({m, n}) >= m /\ Max({m, n}) >= n
<1>1. \E x \in {m, n} : \A y \in {m, n} : x >= y
  BY SMT
<1> QED BY <1>1 DEF Max

-------------------------------------------------------------------------------
(* Versions in the order of compare_versions().                               *)

Token == {0, 1} \X Nat

LEMMA TokensInOrder ==
  ASSUME NEW s \in Token, NEW t \in Token, NEW r \in Token
  PROVE  /\ ~TokenLess(s, s)
         /\ TokenLess(s, t) /\ TokenLess(t, r) => TokenLess(s, r)
         /\ s = t \/ TokenLess(s, t) \/ TokenLess(t, s)
<1>1. /\ s = <<s[1], s[2]>> /\ s[1] \in {0, 1} /\ s[2] \in Nat
      /\ t = <<t[1], t[2]>> /\ t[1] \in {0, 1} /\ t[2] \in Nat
      /\ r[1] \in {0, 1} /\ r[2] \in Nat
  BY DEF Token
<1> QED BY <1>1 DEF TokenLess

LEMMA PaddedToken ==
  ASSUME NEW v \in Version, NEW i
  PROVE  Padded(v, i) \in Token
<1>1. v \in Seq(Token)
  BY DEF Version, Token
<1>2. i \in DOMAIN v => v[i] \in Token
  BY <1>1
<1> QED BY <1>2 DEF Padded, Token

(* The width up to which two versions are compared is of no consequence.      *)
LEMMA LessIs ==
  ASSUME NEW u \in Version, NEW v \in Version
  PROVE  Less(u, v) <=>
           \E i \in Nat \ {0} :
             /\ TokenLess(Padded(u, i), Padded(v, i))
             /\ \A j \in 1..(i - 1) : Padded(u, j) = Padded(v, j)
<1> DEFINE w == Max({Len(u), Len(v)})
<1>1. Len(u) \in Nat /\ Len(v) \in Nat /\ DOMAIN u = 1..Len(u) /\ DOMAIN v = 1..Len(v)
  BY DEF Version
<1>2. w \in Nat /\ Len(u) <= w /\ Len(v) <= w
  <2>1. Len(u) \in Int /\ Len(v) \in Int
    BY <1>1
  <2>2. w \in {Len(u), Len(v)} /\ w >= Len(u) /\ w >= Len(v)
    BY <2>1, MaxOfTwo
  <2> HIDE DEF w
  <2> QED BY <1>1, <2>2
<1>3. ASSUME NEW i \in Nat \ {0}, TokenLess(Padded(u, i), Padded(v, i)) PROVE i \in 1..w
  <2>1. CASE i > w
    <3>1. i \notin DOMAIN u /\ i \notin DOMAIN v
      BY <1>1, <1>2, <2>1
    <3>2. Padded(u, i) = Padded(v, i)
      BY <3>1 DEF Padded
    <3> QED BY <1>3, <3>2, PaddedToken, TokensInOrder
  <2> QED BY <1>2, <2>1
<1>4. \A i \in 1..w : i \in Nat \ {0}
  BY <1>2
<1> HIDE DEF w
<1> QED BY <1>3, <1>4 DEF Less, w

LEMMA LessIrreflexive ==
  ASSUME NEW u \in Version
  PROVE  ~Less(u, u)
BY LessIs, PaddedToken, TokensInOrder

LEMMA LessTransitive ==
  ASSUME NEW u \in Version, NEW v \in Version, NEW w \in Version, Less(u, v), Less(v, w)
  PROVE  Less(u, w)
<1>1. PICK i \in Nat \ {0} :
        /\ TokenLess(Padded(u, i), Padded(v, i))
        /\ \A j \in 1..(i - 1) : Padded(u, j) = Padded(v, j)
  BY LessIs
<1>2. PICK k \in Nat \ {0} :
        /\ TokenLess(Padded(v, k), Padded(w, k))
        /\ \A j \in 1..(k - 1) : Padded(v, j) = Padded(w, j)
  BY LessIs
<1>3. CASE i < k
  <2>1. i \in 1..(k - 1) /\ \A j \in 1..(i - 1) : j \in 1..(k - 1)
    BY <1>3
  <2>2. Padded(v, i) = Padded(w, i) /\ \A j \in 1..(i - 1) : Padded(u, j) = Padded(w, j)
    BY <1>1, <1>2, <2>1
  <2> QED BY <1>1, <2>2, LessIs
<1>4. CASE k < i
  <2>1. k \in 1..(i - 1) /\ \A j \in 1..(k - 1) : j \in 1..(i - 1)
    BY <1>4
  <2>2. Padded(u, k) = Padded(v, k) /\ \A j \in 1..(k - 1) : Padded(u, j) = Padded(w, j)
    BY <1>1, <1>2, <2>1
  <2> QED BY <1>2, <2>2, LessIs
<1>5. CASE i = k
  <2>1. TokenLess(Padded(u, i), Padded(w, i))
    BY <1>1, <1>2, <1>5, PaddedToken, TokensInOrder
  <2>2. \A j \in 1..(i - 1) : Padded(u, j) = Padded(w, j)
    BY <1>1, <1>2, <1>5
  <2> QED BY <2>1, <2>2, LessIs
<1> QED BY <1>3, <1>4, <1>5

(* A version between two others is told from one of them: where the first two *)
(* or the last two part.                                                      *)
LEMMA LessOrLess ==
  ASSUME NEW u \in Version, NEW v \in Version, NEW w \in Version, Less(u, w)
  PROVE  Less(u, v) \/ Less(v, w)
<1>1. PICK i \in Nat \ {0} :
        /\ TokenLess(Padded(u, i), Padded(w, i))
        /\ \A j \in 1..(i - 1) : Padded(u, j) = Padded(w, j)
  BY LessIs
<1> DEFINE T == {k \in Nat \ {0} : Padded(u, k) # Padded(v, k) \/ Padded(v, k) # Padded(w, k)}
<1>2. T \in SUBSET Nat /\ i \in T
  <2>1. Padded(u, i) # Padded(w, i)
    BY <1>1, PaddedToken, TokensInOrder
  <2> QED BY <2>1
<1>3. PICK k \in T : \A j \in T : k <= j
  <2> HIDE DEF T
  <2> QED BY <1>2, Least
<1>4. k \in Nat \ {0} /\ k <= i
  BY <1>2, <1>3
<1>5. ASSUME NEW j \in 1..(k - 1)
      PROVE  Padded(u, j) = Padded(v, j) /\ Padded(v, j) = Padded(w, j)
  <2>1. j \in Nat \ {0} /\ ~(k <= j)
    BY <1>4
  <2>2. j \notin T
    BY <1>3, <2>1
  <2> QED BY <2>1, <2>2
<1>6. TokenLess(Padded(u, k), Padded(v, k)) \/ TokenLess(Padded(v, k), Padded(w, k))
  <2>1. Padded(u, k) = Padded(w, k) \/ TokenLess(Padded(u, k), Padded(w, k))
    <3>1. CASE k = i
      BY <1>1, <3>1
    <3>2. CASE k < i
      <4>1. k \in 1..(i - 1)
        BY <1>4, <3>2
      <4> QED BY <1>1, <4>1
    <3> QED BY <1>4, <3>1, <3>2
  <2>2. Padded(u, k) # Padded(v, k) \/ Padded(v, k) # Padded(w, k)
    BY <1>3
  <2>3. Padded(u, k) \in Token /\ Padded(v, k) \in Token /\ Padded(w, k) \in Token
    BY PaddedToken
  <2> QED BY <2>1, <2>2, <2>3, TokensInOrder
<1>7. /\ \A j \in 1..(k - 1) : Padded(u, j) = Padded(v, j)
      /\ \A j \in 1..(k - 1) : Padded(v, j) = Padded(w, j)
  BY <1>5
<1> QED BY <1>4, <1>6, <1>7, LessIs

(* RankAssumption asks nothing of the versions there are: any finite set of   *)
(* them can be numbered in the order of compare_versions(), equal versions    *)
(* alike, so that the comparison is an order. Its irregular parts are the     *)
(* padding and the words below every number.                                  *)
THEOREM VersionsCanBeRanked ==
  ASSUME NEW V \in SUBSET Version, IsFiniteSet(V)
  PROVE  \E rank \in [V -> Nat] : \A u, v \in V : rank[u] < rank[v] <=> Less(u, v)
<1> DEFINE Below(v) == {u \in V : Less(u, v)}
           rank == [v \in V |-> Cardinality(Below(v))]
<1>1. \A v : IsFiniteSet(Below(v)) /\ Cardinality(Below(v)) \in Nat
  <2>1. ASSUME NEW v PROVE IsFiniteSet(Below(v)) /\ Cardinality(Below(v)) \in Nat
    <3>1. Below(v) \in SUBSET V
      OBVIOUS
    <3> HIDE DEF Below
    <3> QED BY <3>1, FS_Subset, FS_CardinalityType
  <2> QED BY <2>1
<1>2. rank \in [V -> Nat]
  <2> HIDE DEF Below
  <2> QED BY <1>1
<1>3. ASSUME NEW u \in V, NEW v \in V, Less(u, v) PROVE rank[u] < rank[v]
  <2>1. Below(u) \in SUBSET Below(v)
    BY <1>3, LessTransitive
  <2>2. u \in Below(v) /\ u \notin Below(u)
    BY <1>3, LessIrreflexive
  <2> HIDE DEF Below
  <2>3. Cardinality(Below(u)) <= Cardinality(Below(v)) /\ Cardinality(Below(v)) # Cardinality(Below(u))
    BY <1>1, <2>1, <2>2, FS_Subset
  <2> QED BY <1>1, <2>3
<1>4. ASSUME NEW u \in V, NEW v \in V, ~Less(u, v) PROVE ~(rank[u] < rank[v])
  <2>1. Below(v) \in SUBSET Below(u)
    BY <1>4, LessOrLess
  <2> HIDE DEF Below
  <2>2. Cardinality(Below(v)) <= Cardinality(Below(u))
    BY <1>1, <2>1, FS_Subset
  <2> QED BY <1>1, <2>2
<1> HIDE DEF rank
<1> QED BY <1>2, <1>3, <1>4

-------------------------------------------------------------------------------
(* Finite sets, and what lists one in an order, which is a set of pairs here. *)

LEMMA ImageFinite ==
  ASSUME NEW S, IsFiniteSet(S), NEW f
  PROVE  IsFiniteSet({f[x] : x \in S})
<1> DEFINE g == [x \in S |-> f[x]]
<1>1. g \in Surjection(S, {f[x] : x \in S})
  BY DEF Surjection
<1> HIDE DEF g
<1> QED BY <1>1, FS_Surjection

LEMMA IndicesFinite ==
  ASSUME NEW n \in Nat
  PROVE  IsFiniteSet(1..n) /\ Cardinality(1..n) = n
BY FS_Interval

Preceding(S, R, x) == {y \in S : <<y, x>> \in R}

Irreflexive(S, R) == \A x \in S : <<x, x>> \notin R
Transitive(S, R) == \A x, y, z \in S : <<x, y>> \in R /\ <<y, z>> \in R => <<x, z>> \in R
Total(S, R) == \A x, y \in S : x = y \/ <<x, y>> \in R \/ <<y, x>> \in R

StrictOrder(S, R) == Irreflexive(S, R) /\ Transitive(S, R) /\ Total(S, R)

LEMMA PrecedingFinite ==
  ASSUME NEW S, IsFiniteSet(S), NEW R, NEW x
  PROVE  /\ IsFiniteSet(Preceding(S, R, x))
         /\ Cardinality(Preceding(S, R, x)) \in Nat
<1>1. Preceding(S, R, x) \in SUBSET S
  BY DEF Preceding
<1> HIDE DEF Preceding
<1> QED BY <1>1, FS_Subset, FS_CardinalityType

LEMMA FewerPreceding ==
  ASSUME NEW S, IsFiniteSet(S), NEW R, Irreflexive(S, R), NEW x \in S
  PROVE  Cardinality(Preceding(S, R, x)) \in 0..(Cardinality(S) - 1)
<1>1. Preceding(S, R, x) \in SUBSET S /\ Preceding(S, R, x) # S
  BY DEF Preceding, Irreflexive
<1> HIDE DEF Preceding
<1>2. Cardinality(Preceding(S, R, x)) <= Cardinality(S) /\ Cardinality(S) # Cardinality(Preceding(S, R, x))
  BY <1>1, FS_Subset
<1> QED BY <1>2, PrecedingFinite, FS_CardinalityType

LEMMA MorePreceding ==
  ASSUME NEW S, IsFiniteSet(S), NEW R, Irreflexive(S, R), Transitive(S, R),
         NEW x \in S, NEW y \in S, <<x, y>> \in R
  PROVE  Cardinality(Preceding(S, R, x)) < Cardinality(Preceding(S, R, y))
<1>1. /\ Preceding(S, R, x) \in SUBSET Preceding(S, R, y)
      /\ x \in Preceding(S, R, y) /\ x \notin Preceding(S, R, x)
  BY DEF Preceding, Transitive, Irreflexive
<1> HIDE DEF Preceding
<1>2. /\ Cardinality(Preceding(S, R, x)) <= Cardinality(Preceding(S, R, y))
      /\ Cardinality(Preceding(S, R, y)) # Cardinality(Preceding(S, R, x))
  BY <1>1, PrecedingFinite, FS_Subset
<1> QED BY <1>2, PrecedingFinite

(* Every number below the size of a set is had by the member that has as many *)
(* before it: no two have equally many.                                       *)
LEMMA EveryPlaceIsTaken ==
  ASSUME NEW S, IsFiniteSet(S), NEW R, StrictOrder(S, R), NEW k \in 1..Cardinality(S)
  PROVE  \E x \in S : Cardinality(Preceding(S, R, x)) = k - 1
<1> DEFINE n == Cardinality(S)
           g == [x \in S |-> Cardinality(Preceding(S, R, x))]
<1>1. n \in Nat
  BY FS_CardinalityType
<1>2. \A x \in S : Cardinality(Preceding(S, R, x)) \in 0..(n - 1)
  BY FewerPreceding DEF StrictOrder
<1>3. ASSUME NEW x \in S, NEW y \in S, x # y
      PROVE  Cardinality(Preceding(S, R, x)) # Cardinality(Preceding(S, R, y))
  <2>1. <<x, y>> \in R \/ <<y, x>> \in R
    BY <1>3 DEF StrictOrder, Total
  <2> QED BY <2>1, MorePreceding, PrecedingFinite DEF StrictOrder
<1>4. g \in Injection(S, 0..(n - 1))
  BY <1>2, <1>3 DEF Injection, IsInjective
<1>5. IsFiniteSet(0..(n - 1)) /\ Cardinality(0..(n - 1)) = n
  <2> HIDE DEF n, g
  <2>1. n - 1 \in Int /\ 0 \in Int
    BY <1>1
  <2> QED BY <1>1, <2>1, FS_Interval
<1>6. g \in Surjection(S, 0..(n - 1))
  <2> HIDE DEF g
  <2> QED BY <1>4, <1>5, FS_Injection
<1>7. k - 1 \in 0..(n - 1)
  BY <1>1
<1>8. \E x \in S : g[x] = k - 1
  <2> HIDE DEF g
  <2> QED BY <1>6, <1>7 DEF Surjection
<1> QED BY <1>8

(* A list of the members of a set.                                            *)
Lists(f, S) ==
  /\ Len(f) = Cardinality(S) /\ Cardinality(S) \in Nat
  /\ f \in [1..Len(f) -> S]
  /\ \A x \in S : \E k \in 1..Len(f) : f[k] = x

(* What is taken for a place has as many before it, if any member has.        *)
Places(f, S, R) ==
  /\ f = [k \in 1..Cardinality(S) |-> f[k]]
  /\ \A k \in 1..Cardinality(S) :
       (\E x \in S : Cardinality(Preceding(S, R, x)) = k - 1)
         => f[k] \in S /\ Cardinality(Preceding(S, R, f[k])) = k - 1

LEMMA PlacesList ==
  ASSUME NEW S, IsFiniteSet(S), NEW R, StrictOrder(S, R), NEW f, Places(f, S, R)
  PROVE  Lists(f, S)
<1> DEFINE rank(x) == Cardinality(Preceding(S, R, x))
           n == Cardinality(S)
<1>1. n \in Nat
  BY FS_CardinalityType
<1>2. \A k \in 1..n : f[k] \in S /\ rank(f[k]) = k - 1
  BY EveryPlaceIsTaken DEF Places
<1>3. f = [k \in 1..n |-> f[k]]
  BY DEF Places
<1>4. f \in [1..n -> S]
  <2> HIDE DEF n, rank
  <2> QED BY <1>2, <1>3
<1>5. Len(f) = n
  <2> HIDE DEF n
  <2>1. f \in Seq(S)
    BY <1>1, <1>4
  <2> QED BY <1>1, <1>4, <2>1
<1>6. ASSUME NEW x \in S PROVE \E k \in 1..n : f[k] = x
  <2>1. rank(x) \in 0..(n - 1)
    BY FewerPreceding DEF StrictOrder
  <2>2. rank(x) + 1 \in 1..n /\ (rank(x) + 1) - 1 = rank(x)
    <3> HIDE DEF rank, n
    <3> QED BY <1>1, <2>1
  <2>3. f[rank(x) + 1] \in S /\ rank(f[rank(x) + 1]) = rank(x)
    <3> HIDE DEF rank, n
    <3> QED BY <1>2, <2>2
  <2>4. f[rank(x) + 1] = x
    <3>1. CASE <<f[rank(x) + 1], x>> \in R
      BY <2>3, <3>1, MorePreceding, PrecedingFinite DEF StrictOrder
    <3>2. CASE <<x, f[rank(x) + 1]>> \in R
      BY <2>3, <3>2, MorePreceding, PrecedingFinite DEF StrictOrder
    <3> HIDE DEF rank
    <3> QED BY <2>3, <3>1, <3>2 DEF StrictOrder, Total
  <2> QED BY <2>2, <2>4
<1> HIDE DEF n
<1> QED BY <1>1, <1>4, <1>5, <1>6 DEF Lists, n

-------------------------------------------------------------------------------
(* What is read from a file.                                                  *)

LEMMA Elements ==
  ASSUME NEW S, NEW s \in Seq(S)
  PROVE  Len(s) \in Nat /\ DOMAIN s = 1..Len(s) /\ \A i \in DOMAIN s : s[i] \in S
OBVIOUS

LEMMA CpeRangesIs ==
  ASSUME NEW record \in Record
  PROVE  CpeRanges(record) \in Seq(Statement)
<1> DEFINE S == {i \in DOMAIN record.matches : ~record.matches[i].negate /\ record.matches[i].parses}
           R == {p \in S \X S : p[1] < p[2]}
           f == Sorted(S, LAMBDA i, j : i < j)
           n == Min({MaxStatements, Len(f)})
           g == [k \in 1..n |-> record.matches[f[k]].statement]
<1>1. /\ Len(record.matches) \in Nat /\ DOMAIN record.matches = 1..Len(record.matches)
      /\ \A i \in DOMAIN record.matches : record.matches[i].statement \in Statement
  <2>1. record.matches \in Seq(Match)
    BY DEF Record
  <2>2. \A i \in DOMAIN record.matches : record.matches[i] \in Match
    BY <2>1, Elements
  <2> QED BY <2>1, <2>2, Elements DEF Match
<1>2. S \in SUBSET (1..Len(record.matches)) /\ S \subseteq Nat
  BY <1>1
<1>3. IsFiniteSet(S)
  <2> HIDE DEF S
  <2>1. IsFiniteSet(1..Len(record.matches))
    BY <1>1, IndicesFinite
  <2> QED BY <1>2, <2>1, FS_Subset
<1>4. \A i \in S : record.matches[i].statement \in Statement
  BY <1>1
<1>5. CpeRanges(record) = g
  BY DEF CpeRanges
<1>6. \A x, y \in S : <<x, y>> \in R <=> x < y
  OBVIOUS
<1>7. f = [k \in 1..Cardinality(S) |-> CHOOSE x \in S : Cardinality({y \in S : y < x}) = k - 1]
  <2> HIDE DEF S
  <2> QED BY DEF Sorted
<1> HIDE DEF S, R, f
<1>8. StrictOrder(S, R)
  <2>1. Irreflexive(S, R)
    BY <1>2, <1>6 DEF Irreflexive
  <2>2. Transitive(S, R)
    BY <1>2, <1>6 DEF Transitive
  <2>3. ASSUME NEW x \in S, NEW y \in S, x # y PROVE <<x, y>> \in R \/ <<y, x>> \in R
    BY <1>2, <1>6, <2>3
  <2>4. Total(S, R)
    BY <2>3 DEF Total
  <2> QED BY <2>1, <2>2, <2>4 DEF StrictOrder
<1>9. Places(f, S, R)
  <2>1. \A x \in S : Preceding(S, R, x) = {y \in S : y < x}
    BY <1>6 DEF Preceding
  <2>2. ASSUME NEW k \in 1..Cardinality(S), NEW x \in S, Cardinality(Preceding(S, R, x)) = k - 1
        PROVE  f[k] \in S /\ Cardinality(Preceding(S, R, f[k])) = k - 1
    <3>1. Cardinality({y \in S : y < x}) = k - 1
      BY <2>1, <2>2
    <3>2. f[k] \in S /\ Cardinality({y \in S : y < f[k]}) = k - 1
      BY <1>7, <3>1
    <3> QED BY <2>1, <3>2
  <2>3. f = [k \in 1..Cardinality(S) |-> f[k]]
    <3> DEFINE At(k) == CHOOSE x \in S : Cardinality({y \in S : y < x}) = k - 1
    <3>1. f = [k \in 1..Cardinality(S) |-> At(k)]
      BY <1>7
    <3> HIDE DEF At
    <3> QED BY <3>1
  <2> QED BY <2>2, <2>3 DEF Places
<1>10. Lists(f, S)
  BY <1>3, <1>8, <1>9, PlacesList
<1>11. n \in Nat /\ 1..n \subseteq 1..Len(f)
  <2>1. Len(f) \in Nat /\ MaxStatements \in Nat
    BY <1>10, MatchingAssumption DEF Lists
  <2>2. n \in {MaxStatements, Len(f)} /\ n <= Len(f)
    <3>1. MaxStatements \in Int /\ Len(f) \in Int
      BY <2>1
    <3> QED BY <3>1, MinOfTwo
  <2> HIDE DEF n
  <2> QED BY <2>1, <2>2
<1> HIDE DEF n
<1>12. \A k \in 1..n : record.matches[f[k]].statement \in Statement
  BY <1>4, <1>10, <1>11 DEF Lists
<1>13. g \in Seq(Statement)
  BY <1>11, <1>12
<1> QED BY <1>5, <1>13

LEMMA NvdEntryIs ==
  ASSUME NEW record \in Record
  PROVE  /\ NvdEntry(record).cve \in CVEs
         /\ NvdEntry(record).cvss \in 0..100
         /\ NvdEntry(record).maturity = 50
         /\ NvdEntry(record).statements \in Seq(Statement)
BY CpeRangesIs DEF NvdEntry, Record

LEMMA UsableIs ==
  ASSUME files \in Directory
  PROVE  /\ IsFiniteSet(Usable)
         /\ \A p \in Usable :
              /\ p = <<p[1], p[2]>>
              /\ p[1] \in DOMAIN files /\ p[2] \in DOMAIN files[p[1]].records
              /\ p[1] \in Nat /\ p[2] \in Nat
              /\ files[p[1]].records[p[2]] \in Record
<1> DEFINE In(i) == {m \in DOMAIN files[i].records : files[i].records[m].usable}
           f == [i \in DOMAIN files |-> {i} \X In(i)]
<1>1. /\ Len(files) \in Nat /\ DOMAIN files = 1..Len(files)
      /\ \A i \in DOMAIN files : files[i] \in [at : Nat \ {0}, records : Files]
  BY Elements DEF Directory
<1>2. \A i \in DOMAIN files : files[i].records \in Seq(Record)
  BY <1>1, MatchingAssumption
<1>3. ASSUME NEW i \in DOMAIN files PROVE IsFiniteSet(f[i])
  <2>1. /\ Len(files[i].records) \in Nat
        /\ In(i) \in SUBSET (1..Len(files[i].records))
    BY <1>2
  <2>2. IsFiniteSet(In(i))
    <3> HIDE DEF In
    <3> QED BY <2>1, IndicesFinite, FS_Subset
  <2>3. IsFiniteSet({i})
    BY FS_Singleton
  <2>4. IsFiniteSet({i} \X In(i))
    <3> HIDE DEF In
    <3> QED BY <2>2, <2>3, FS_Product
  <2> HIDE DEF In
  <2> QED BY <2>4
<1>4. Usable = UNION {f[i] : i \in DOMAIN files}
  BY DEF Usable
<1>5. IsFiniteSet({f[i] : i \in DOMAIN files})
  <2> HIDE DEF f
  <2>1. IsFiniteSet(DOMAIN files)
    BY <1>1, IndicesFinite
  <2> QED BY <2>1, ImageFinite
<1>6. IsFiniteSet(UNION {f[i] : i \in DOMAIN files})
  <2> DEFINE T == {f[i] : i \in DOMAIN files}
  <2>1. \A t \in T : IsFiniteSet(t)
    <3> HIDE DEF f
    <3> QED BY <1>3
  <2>2. IsFiniteSet(T)
    BY <1>5
  <2> HIDE DEF T, f
  <2>3. IsFiniteSet(UNION T)
    BY <2>1, <2>2, FS_UNION
  <2> QED BY <2>3 DEF T
<1>7. \A p \in Usable : \E i \in DOMAIN files : p \in {i} \X In(i)
  BY DEF Usable
<1>8. \A i \in DOMAIN files : \A m \in In(i) : m \in Nat /\ files[i].records[m] \in Record
  BY <1>2
<1>9. ASSUME NEW p \in Usable
      PROVE  /\ p = <<p[1], p[2]>> /\ p[1] \in DOMAIN files /\ p[2] \in In(p[1])
  <2>1. PICK i \in DOMAIN files : p \in {i} \X In(i)
    BY <1>7
  <2> HIDE DEF In
  <2> QED BY <2>1
<1>10. \A p \in Usable :
         /\ p = <<p[1], p[2]>>
         /\ p[1] \in DOMAIN files /\ p[2] \in DOMAIN files[p[1]].records
         /\ p[1] \in Nat /\ p[2] \in Nat
         /\ files[p[1]].records[p[2]] \in Record
  BY <1>1, <1>8, <1>9
<1> QED BY <1>4, <1>6, <1>10

(* A build starts with every entry there is.                                  *)
LEMMA NvdEntriesIs ==
  ASSUME files \in Directory
  PROVE  NvdEntries \in Seq(Entries) /\ Range(NvdEntries) = Entries
<1> DEFINE Ahead(p, q) == p[1] < q[1] \/ (p[1] = q[1] /\ p[2] < q[2])
           R == {pq \in Usable \X Usable : Ahead(pq[1], pq[2])}
           f == Sorted(Usable, Ahead)
           g == [k \in DOMAIN f |-> EntryAt(f[k])]
<1>1. /\ IsFiniteSet(Usable)
      /\ \A p \in Usable : p = <<p[1], p[2]>> /\ p[1] \in Nat /\ p[2] \in Nat
  BY UsableIs
<1>2. NvdEntries = g
  BY DEF NvdEntries
<1>3. \A x, y \in Usable : <<x, y>> \in R <=> Ahead(x, y)
  OBVIOUS
<1>4. f = [k \in 1..Cardinality(Usable) |->
             CHOOSE x \in Usable : Cardinality({y \in Usable : Ahead(y, x)}) = k - 1]
  BY DEF Sorted
<1> HIDE DEF R, f
<1>5. StrictOrder(Usable, R)
  <2>1. Irreflexive(Usable, R)
    BY <1>1, <1>3 DEF Irreflexive
  <2>2. Transitive(Usable, R)
    BY <1>1, <1>3 DEF Transitive
  <2>3. ASSUME NEW x \in Usable, NEW y \in Usable, x # y PROVE <<x, y>> \in R \/ <<y, x>> \in R
    <3>1. x[1] # y[1] \/ x[2] # y[2]
      BY <1>1, <2>3
    <3> QED BY <1>1, <1>3, <3>1
  <2>4. Total(Usable, R)
    BY <2>3 DEF Total
  <2> QED BY <2>1, <2>2, <2>4 DEF StrictOrder
<1>6. Places(f, Usable, R)
  <2>1. \A x \in Usable : Preceding(Usable, R, x) = {y \in Usable : Ahead(y, x)}
    BY <1>3 DEF Preceding
  <2>2. ASSUME NEW k \in 1..Cardinality(Usable), NEW x \in Usable,
               Cardinality(Preceding(Usable, R, x)) = k - 1
        PROVE  f[k] \in Usable /\ Cardinality(Preceding(Usable, R, f[k])) = k - 1
    <3>1. Cardinality({y \in Usable : Ahead(y, x)}) = k - 1
      BY <2>1, <2>2
    <3>2. f[k] \in Usable /\ Cardinality({y \in Usable : Ahead(y, f[k])}) = k - 1
      BY <1>4, <3>1
    <3> QED BY <2>1, <3>2
  <2>3. f = [k \in 1..Cardinality(Usable) |-> f[k]]
    <3> DEFINE At(k) == CHOOSE x \in Usable : Cardinality({y \in Usable : Ahead(y, x)}) = k - 1
    <3>1. f = [k \in 1..Cardinality(Usable) |-> At(k)]
      BY <1>4
    <3> HIDE DEF At
    <3> QED BY <3>1
  <2> QED BY <2>2, <2>3 DEF Places
<1>7. Lists(f, Usable)
  BY <1>1, <1>5, <1>6, PlacesList
<1>8. DOMAIN f = 1..Len(f) /\ Len(f) \in Nat /\ \A k \in 1..Len(f) : f[k] \in Usable
  BY <1>7 DEF Lists
<1>9. g \in Seq(Entries) /\ DOMAIN g = 1..Len(f)
  <2>1. \A k \in 1..Len(f) : EntryAt(f[k]) \in Entries
    BY <1>8 DEF Entries
  <2> QED BY <1>8, <2>1
<1>10. \A e \in Entries : \E k \in 1..Len(f) : g[k] = e
  <2>1. ASSUME NEW p \in Usable PROVE \E k \in 1..Len(f) : g[k] = EntryAt(p)
    BY <1>7, <1>8 DEF Lists
  <2> HIDE DEF g
  <2> QED BY <2>1 DEF Entries
<1>11. Range(g) = Entries
  <2> HIDE DEF g
  <2> QED BY <1>9, <1>10 DEF Range
<1> HIDE DEF g
<1> QED BY <1>2, <1>9, <1>11

-------------------------------------------------------------------------------
(* The steps of a corpus.                                                     *)

LEMMA EntryIs ==
  ASSUME files \in Directory, NEW e \in Entries
  PROVE  /\ e.cve \in CVEs /\ e.cvss \in 0..100 /\ e.maturity = 50
         /\ e.statements \in Seq(Statement)
<1>1. PICK p \in Usable : e = EntryAt(p)
  BY DEF Entries
<1>2. files[p[1]].records[p[2]] \in Record
  BY UsableIs
<1> QED BY <1>1, <1>2, NvdEntryIs DEF EntryAt

LEMMA CorpusInit == InitMatching => CorpusInv
<1> SUFFICES ASSUME InitMatching PROVE CorpusInv
  OBVIOUS
<1>1. files = <<>> /\ left = <<>> /\ DOMAIN files = {} /\ Held = {}
  BY DEF InitMatching, Held
<1>2. Usable = {}
  BY <1>1 DEF Usable
<1>3. FilesOK
  BY <1>1 DEF InitMatching, FilesOK, Directory
<1>4. LeftOK /\ FedOK
  <2>1. <<>> \in Seq(Entries)
    OBVIOUS
  <2>2. LeftOK
    BY <1>1, <2>1 DEF InitMatching, LeftOK
  <2>3. \A c \in CVEs : fed[c] = <<>>
    BY DEF InitMatching
  <2> QED BY <2>2, <2>3 DEF FedOK
<1>5. TablesOK
  <2>1. UNION {RowsOf(fed[c][1]) : c \in Held} = {}
    BY <1>1
  <2>2. {[cve |-> c, alias |-> fed[c][1].product] : c \in {d \in Held : fed[d][1].product # ""}} = {}
    BY <1>1
  <2> QED BY <1>1, <2>1, <2>2 DEF InitMatching, TablesOK
<1>6. BuiltOK
  BY <1>2 DEF InitMatching, BuiltOK
<1> QED BY <1>3, <1>4, <1>5, <1>6 DEF CorpusInv

(* While the directory stays as it is, so do its entries.                     *)
LEMMA SameFiles ==
  ASSUME files' = files
  PROVE  /\ Usable' = Usable /\ Entries' = Entries
         /\ \A p : EntryAt(p)' = EntryAt(p)
<1>1. Usable' = Usable
  BY DEF Usable
<1>2. \A p : EntryAt(p)' = EntryAt(p)
  BY DEF EntryAt
<1> QED BY <1>1, <1>2 DEF Entries

LEMMA SameTables ==
  ASSUME TablesOK, UNCHANGED <<cve, applicability, product_alias, fed>>
  PROVE  TablesOK'
BY DEF TablesOK, Held

(* What is written of a batch: every CVE of it, each once.                    *)
LEMMA WrittenIs ==
  ASSUME NEW S, NEW batch \in Seq(S)
  PROVE  /\ Written(batch) \subseteq Range(batch) /\ Range(batch) \subseteq S
         /\ \A d, e \in Written(batch) : d.cve = e.cve => d = e
         /\ \A e \in Range(batch) : \E d \in Written(batch) : d.cve = e.cve
<1>1. Len(batch) \in Nat /\ DOMAIN batch = 1..Len(batch) /\ \A i \in DOMAIN batch : batch[i] \in S
  BY Elements
<1>2. Written(batch) \subseteq Range(batch) /\ Range(batch) \subseteq S
  BY <1>1 DEF Written, Range
<1>3. ASSUME NEW i \in DOMAIN batch, Survives(batch, i), NEW j \in DOMAIN batch, Survives(batch, j),
             batch[i].cve = batch[j].cve
      PROVE  i = j
  <2>1. CASE i < j
    BY <1>1, <1>3, <2>1 DEF Survives
  <2>2. CASE j < i
    BY <1>1, <1>3, <2>2 DEF Survives
  <2> QED BY <1>1, <2>1, <2>2
<1>4. \A d, e \in Written(batch) : d.cve = e.cve => d = e
  BY <1>3 DEF Written
<1>5. ASSUME NEW k \in DOMAIN batch PROVE \E d \in Written(batch) : d.cve = batch[k].cve
  <2> DEFINE T == {i \in DOMAIN batch : batch[i].cve = batch[k].cve}
  <2>1. T \in SUBSET Nat /\ T # {} /\ \A i \in T : i <= Len(batch)
    BY <1>1
  <2>2. PICK i \in T : \A j \in T : j <= i
    <3> HIDE DEF T
    <3> QED BY <1>1, <2>1, Greatest
  <2>3. i \in DOMAIN batch /\ batch[i].cve = batch[k].cve
    OBVIOUS
  <2>4. Survives(batch, i)
    <3>1. ASSUME NEW j \in (i + 1)..Len(batch) PROVE batch[j].cve # batch[i].cve
      <4>1. j \in DOMAIN batch /\ ~(j <= i)
        BY <1>1
      <4> QED BY <2>2, <2>3, <4>1
    <3> QED BY <3>1 DEF Survives
  <2> QED BY <2>3, <2>4 DEF Written
<1>6. \A e \in Range(batch) : \E d \in Written(batch) : d.cve = e.cve
  BY <1>5 DEF Range
<1> QED BY <1>2, <1>4, <1>6

LEMMA Slice ==
  ASSUME NEW S, NEW s, NEW a \in Int, NEW n \in Int, \A i \in a..n : s[i] \in S, a <= n + 1
  PROVE  /\ SubSeq(s, a, n) \in Seq(S) /\ DOMAIN SubSeq(s, a, n) = 1..(n - a + 1)
         /\ \A i \in 1..(n - a + 1) : SubSeq(s, a, n)[i] = s[a + i - 1]
<1>1. /\ SubSeq(s, a, n) \in Seq(S)
      /\ Len(SubSeq(s, a, n)) = IF a <= n THEN n - a + 1 ELSE 0
      /\ \A i \in 1..(n - a + 1) : SubSeq(s, a, n)[i] = s[a + i - 1]
  BY SubSeqProperties
<1> DEFINE t == SubSeq(s, a, n)
<1> HIDE DEF t
<1>2. t \in Seq(S) /\ Len(t) = n - a + 1
  BY <1>1 DEF t
<1>3. DOMAIN t = 1..(n - a + 1)
  BY <1>2, Elements
<1> QED BY <1>1, <1>3 DEF t

(* A batch and what is left after it.                                         *)
LEMMA BatchIs ==
  ASSUME NEW S, NEW s \in Seq(S), s # <<>>, NEW n, n = Min({BatchSize, Len(s)})
  PROVE  /\ SubSeq(s, 1, n) \in Seq(S) /\ SubSeq(s, n + 1, Len(s)) \in Seq(S)
         /\ Range(s) \subseteq Range(SubSeq(s, 1, n)) \cup Range(SubSeq(s, n + 1, Len(s)))
<1>1. Len(s) \in Nat /\ DOMAIN s = 1..Len(s) /\ \A i \in DOMAIN s : s[i] \in S
  BY Elements
<1>2. n \in Nat /\ n <= Len(s)
  <2>1. BatchSize \in Int /\ BatchSize \in Nat /\ Len(s) \in Int
    BY <1>1, MatchingAssumption
  <2>2. n \in {BatchSize, Len(s)} /\ n <= Len(s)
    BY <2>1, MinOfTwo
  <2> QED BY <1>1, <2>1, <2>2
<1> DEFINE b == SubSeq(s, 1, n)
           r == SubSeq(s, n + 1, Len(s))
<1>3. b \in Seq(S) /\ \A i \in 1..n : i \in DOMAIN b /\ b[i] = s[i]
  <2> HIDE DEF b
  <2> DEFINE a == 1
  <2>1. \A i \in a..n : i \in 1..Len(s) /\ i \in 1..(n - a + 1) /\ a + i - 1 = i
    BY <1>1, <1>2
  <2>2. a \in Int /\ n \in Int /\ a <= n + 1
    BY <1>2
  <2>3. \A i \in a..n : s[i] \in S
    BY <1>1, <2>1
  <2>4. b = SubSeq(s, a, n)
    BY DEF b
  <2>5. 1..n = a..n
    OBVIOUS
  <2> HIDE DEF a
  <2>6. /\ b \in Seq(S) /\ DOMAIN b = 1..(n - a + 1)
        /\ \A i \in 1..(n - a + 1) : b[i] = s[a + i - 1]
    BY ONLY <2>2, <2>3, <2>4, Slice
  <2> QED BY <2>1, <2>5, <2>6
<1>4. r \in Seq(S) /\ \A i \in 1..(Len(s) - n) : i \in DOMAIN r /\ r[i] = s[n + i]
  <2> HIDE DEF r
  <2> DEFINE a == n + 1
             m == Len(s)
  <2>1. \A i \in a..m : i \in 1..Len(s)
    BY <1>1, <1>2
  <2>2. a \in Int /\ m \in Int /\ a <= m + 1
    BY <1>1, <1>2
  <2>3. \A i \in a..m : s[i] \in S
    BY <1>1, <2>1
  <2>4. r = SubSeq(s, a, m)
    BY DEF r
  <2>5. \A i \in 1..(Len(s) - n) : i \in 1..(m - a + 1) /\ a + i - 1 = n + i
    BY <1>1, <1>2
  <2> HIDE DEF a, m
  <2>6. /\ r \in Seq(S) /\ DOMAIN r = 1..(m - a + 1)
        /\ \A i \in 1..(m - a + 1) : r[i] = s[a + i - 1]
    BY <2>2, <2>4, <2>3, Slice
  <2> QED BY <2>5, <2>6
<1> HIDE DEF b, r
<1>5. ASSUME NEW i \in DOMAIN s PROVE s[i] \in Range(b) \cup Range(r)
  <2>1. CASE i <= n
    <3>1. i \in 1..n
      BY <1>1, <1>2, <2>1
    <3>2. b[i] = s[i] /\ i \in DOMAIN b
      BY <1>3, <3>1
    <3> QED BY <3>2 DEF Range
  <2>2. CASE i > n
    <3>1. i - n \in 1..(Len(s) - n) /\ n + (i - n) = i
      BY <1>1, <1>2, <2>2
    <3>2. r[i - n] = s[i] /\ i - n \in DOMAIN r
      BY <1>4, <3>1
    <3> QED BY <3>2 DEF Range
  <2> QED BY <1>1, <1>2, <2>1, <2>2
<1>6. Range(s) \subseteq Range(b) \cup Range(r)
  BY <1>5 DEF Range
<1> QED BY <1>3, <1>4, <1>6 DEF b, r

LEMMA RowIsOf ==
  ASSUME NEW e, NEW r \in RowsOf(e)
  PROVE  r.cve = e.cve
BY DEF RowsOf, RowOf

LEMMA FetchFileKeeps == CorpusInv /\ FetchFile => CorpusInv'
<1> SUFFICES ASSUME CorpusInv, FetchFile PROVE CorpusInv'
  OBVIOUS
<1>1. PICK records \in Files : files' = Append(files, [at |-> day, records |-> records])
  BY DEF FetchFile
<1> DEFINE new == [at |-> day, records |-> records]
<1>2. /\ Len(files) \in Nat /\ DOMAIN files = 1..Len(files)
      /\ day \in Nat \ {0} /\ files \in Directory
      /\ \A i \in DOMAIN files : files[i].at < day
  BY Elements DEF CorpusInv, FilesOK, Directory
<1>3. /\ files' \in Directory /\ DOMAIN files' = 1..(Len(files) + 1)
      /\ \A i \in DOMAIN files : files'[i] = files[i]
      /\ files'[Len(files) + 1] = new
  <2> HIDE DEF new
  <2>1. new \in [at : Nat \ {0}, records : Files]
    BY <1>2 DEF new
  <2> QED BY <1>1, <1>2, <2>1 DEF Directory, new
<1>4. /\ day' = day + 1 /\ building' = FALSE /\ building = FALSE
      /\ UNCHANGED <<left, cve, applicability, product_alias, fetched_at, fed>>
  BY DEF FetchFile, CorpusInv, LeftOK
<1>5. FilesOK'
  <2>1. fetched_at' \in Nat /\ fetched_at' < day' /\ day' \in Nat \ {0}
    BY <1>2, <1>4 DEF CorpusInv, FilesOK
  <2>2. ASSUME NEW i \in DOMAIN files' PROVE files'[i].at < day'
    <3>1. CASE i = Len(files) + 1
      BY <1>2, <1>3, <1>4, <3>1
    <3>2. CASE i \in DOMAIN files
      <4>1. /\ files[i].at \in Nat /\ files[i].at < day
        <5>1. files[i] \in [at : Nat \ {0}, records : Files]
          BY <1>2, <3>2, Elements DEF Directory
        <5> QED BY <1>2, <3>2, <5>1
      <4> QED BY <1>2, <1>3, <1>4, <3>2, <4>1
    <3>3. i = Len(files) + 1 \/ i \in DOMAIN files
      BY <1>2, <1>3
    <3> QED BY <3>1, <3>2, <3>3
  <2> QED BY <1>3, <2>1, <2>2 DEF FilesOK
<1>6. \A p \in Usable : p \in Usable' /\ EntryAt(p)' = EntryAt(p)
  <2>1. ASSUME NEW i \in DOMAIN files
        PROVE  i \in DOMAIN files' /\ files'[i] = files[i]
    BY <1>2, <1>3
  <2>2. \A p \in Usable : p[1] \in DOMAIN files
    BY <1>2, UsableIs
  <2>3. Usable \subseteq Usable'
    BY <2>1 DEF Usable
  <2> QED BY <2>1, <2>2, <2>3 DEF EntryAt
<1>7. Entries \subseteq Entries'
  BY <1>6 DEF Entries
<1>8. LeftOK'
  <2>1. left' = <<>>
    BY <1>4 DEF CorpusInv, LeftOK
  <2>2. <<>> \in Seq(Entries')
    OBVIOUS
  <2> QED BY <1>4, <2>1, <2>2 DEF LeftOK
<1>9. FedOK'
  BY <1>4, <1>7 DEF CorpusInv, FedOK
<1>10. TablesOK'
  BY <1>4, SameTables DEF CorpusInv
<1>11. ASSUME NEW p \in Usable', files'[p[1]].at <= fetched_at', fetched_at' # 0
       PROVE  fed'[EntryAt(p)'.cve] # <<>>
  <2>1. p[1] \in DOMAIN files' /\ p = <<p[1], p[2]>> /\ p[2] \in DOMAIN files'[p[1]].records
        /\ files'[p[1]].records[p[2]].usable
    BY DEF Usable
  <2>2. p[1] # Len(files) + 1
    BY <1>3, <1>4, <1>11, <1>2 DEF CorpusInv, FilesOK
  <2>3. p[1] \in DOMAIN files
    BY <1>2, <1>3, <2>1, <2>2
  <2>4. p \in Usable
    BY <1>3, <2>1, <2>3 DEF Usable
  <2>5. files[p[1]].at <= fetched_at /\ fetched_at # 0
    BY <1>3, <1>4, <1>11, <2>3
  <2>6. fed[EntryAt(p).cve] # <<>>
    BY <2>4, <2>5 DEF CorpusInv, BuiltOK
  <2> QED BY <1>4, <1>6, <2>4, <2>6
<1>12. BuiltOK'
  BY <1>4, <1>11 DEF BuiltOK
<1> QED BY <1>5, <1>8, <1>9, <1>10, <1>12 DEF CorpusInv

LEMMA BuildKeeps == CorpusInv /\ Build => CorpusInv'
<1> SUFFICES ASSUME CorpusInv, Build PROVE CorpusInv'
  OBVIOUS
<1>1. /\ building' = TRUE /\ left' = NvdEntries /\ files # <<>> /\ files \in Directory
      /\ UNCHANGED <<day, files, cve, applicability, product_alias, fetched_at, fed>>
  BY DEF Build, CorpusInv, FilesOK
<1>2. /\ Usable' = Usable /\ Entries' = Entries /\ \A p : EntryAt(p)' = EntryAt(p)
  BY <1>1, SameFiles
<1>3. left' \in Seq(Entries) /\ Range(left') = Entries
  BY <1>1, NvdEntriesIs
<1>4. FilesOK'
  BY <1>1 DEF FilesOK, CorpusInv
<1>5. LeftOK'
  BY <1>1, <1>2, <1>3 DEF LeftOK
<1>6. FedOK'
  BY <1>1, <1>2 DEF FedOK, CorpusInv
<1>7. TablesOK'
  BY <1>1, SameTables DEF CorpusInv
<1>8. BuiltOK'
  <2>1. \A p \in Usable : EntryAt(p) \in Range(left')
    BY <1>3 DEF Entries
  <2> QED BY <1>1, <1>2, <2>1 DEF BuiltOK, CorpusInv
<1> QED BY <1>4, <1>5, <1>6, <1>7, <1>8 DEF CorpusInv


LEMMA WriteBatchKeeps == CorpusInv /\ WriteBatch => CorpusInv'
<1> SUFFICES ASSUME CorpusInv, WriteBatch PROVE CorpusInv'
  OBVIOUS
<1> DEFINE n == Min({BatchSize, Len(left)})
           batch == SubSeq(left, 1, n)
           W == Written(batch)
           ids == {e.cve : e \in W}
           Of(c) == CHOOSE e \in W : e.cve = c
<1>1. /\ building /\ left # <<>> /\ left \in Seq(Entries) /\ files \in Directory
      /\ UNCHANGED <<day, files, building, fetched_at>>
      /\ left' = SubSeq(left, n + 1, Len(left))
  BY DEF WriteBatch, CorpusInv, LeftOK, FilesOK
<1>2. /\ cve' = [c \in CVEs |->
                   IF c \in ids THEN [in |-> TRUE, cvss |-> Of(c).cvss, product |-> Of(c).product]
                   ELSE cve[c]]
      /\ applicability' =
           {r \in applicability : r.cve \notin ids} \cup UNION {RowsOf(e) : e \in W}
      /\ product_alias' =
           {a \in product_alias : a.cve \notin ids}
             \cup {[cve |-> e.cve, alias |-> e.product] : e \in {x \in W : x.product # ""}}
      /\ fed' = [c \in CVEs |-> IF c \in ids THEN <<Of(c)>> ELSE fed[c]]
  BY DEF WriteBatch, Write
<1>3. /\ Usable' = Usable /\ Entries' = Entries /\ \A p : EntryAt(p)' = EntryAt(p)
  BY <1>1, SameFiles
<1>4. /\ batch \in Seq(Entries) /\ left' \in Seq(Entries)
      /\ Range(left) \subseteq Range(batch) \cup Range(left')
  <2>1. PICK k : k = n
    OBVIOUS
  <2>2. k = Min({BatchSize, Len(left)})
    BY <2>1
  <2> HIDE DEF n
  <2>3. /\ SubSeq(left, 1, k) \in Seq(Entries) /\ SubSeq(left, k + 1, Len(left)) \in Seq(Entries)
        /\ Range(left) \subseteq Range(SubSeq(left, 1, k)) \cup Range(SubSeq(left, k + 1, Len(left)))
    BY ONLY <1>1, <2>2, BatchIs
  <2> QED BY <1>1, <2>1, <2>3
<1> HIDE DEF n, batch
<1>5. /\ W \subseteq Entries
      /\ \A d, e \in W : d.cve = e.cve => d = e
      /\ \A e \in Range(batch) : e.cve \in ids
  BY <1>4, WrittenIs
<1> HIDE DEF W
<1>6. \A c \in ids : Of(c) \in W /\ Of(c).cve = c
  OBVIOUS
<1>7. \A e \in W : e.cve \in ids /\ e.cve \in CVEs /\ Of(e.cve) = e
  <2>1. \A e \in W : e.cve \in CVEs
    BY <1>1, <1>5, EntryIs
  <2>2. \A e \in W : e.cve \in ids
    OBVIOUS
  <2> HIDE DEF Of, ids
  <2> QED BY <1>5, <1>6, <2>1, <2>2
<1>8. ids \subseteq CVEs
  BY <1>7
<1> HIDE DEF Of, ids
<1>9. /\ \A c \in ids : fed'[c] = <<Of(c)>> /\ fed'[c] # <<>> /\ fed'[c][1] = Of(c)
      /\ \A c \in CVEs \ ids : fed'[c] = fed[c]
      /\ Held' = Held \cup ids
  <2>1. \A c \in ids : fed'[c] = <<Of(c)>> /\ fed'[c] # <<>> /\ fed'[c][1] = Of(c)
    BY <1>2, <1>8
  <2>2. \A c \in CVEs \ ids : fed'[c] = fed[c]
    BY <1>2
  <2>3. Held' = Held \cup ids
    BY <1>8, <2>1, <2>2 DEF Held
  <2> QED BY <2>1, <2>2, <2>3
<1>10. Held \subseteq CVEs /\ \A c \in Held \ ids : fed'[c] = fed[c]
  BY <1>9 DEF Held
<1>11. FilesOK'
  BY <1>1 DEF FilesOK, CorpusInv
<1>12. LeftOK'
  BY <1>1, <1>3, <1>4 DEF LeftOK, CorpusInv
<1>13. FedOK'
  <2>1. ASSUME NEW c \in CVEs, fed'[c] # <<>>
        PROVE  \E e \in Entries : fed'[c] = <<e>> /\ e.cve = c
    <3>1. CASE c \in ids
      BY <1>5, <1>6, <1>9, <3>1
    <3>2. CASE c \notin ids
      BY <1>9, <2>1, <3>2 DEF CorpusInv, FedOK
    <3> QED BY <3>1, <3>2
  <2> QED BY <1>3, <2>1 DEF FedOK
<1>14. \A c \in CVEs :
         IF c \in Held'
         THEN cve'[c].in /\ cve'[c].cvss = fed'[c][1].cvss /\ cve'[c].product = fed'[c][1].product
         ELSE cve'[c] = Absent
  <2>1. ASSUME NEW c \in ids
        PROVE  cve'[c].in /\ cve'[c].cvss = fed'[c][1].cvss /\ cve'[c].product = fed'[c][1].product
    <3>1. cve'[c] = [in |-> TRUE, cvss |-> Of(c).cvss, product |-> Of(c).product]
      BY <1>2, <1>8
    <3> QED BY <1>9, <3>1
  <2>2. ASSUME NEW c \in CVEs \ ids PROVE cve'[c] = cve[c] /\ fed'[c] = fed[c]
    BY <1>2, <1>9
  <2> QED BY <1>8, <1>9, <2>1, <2>2 DEF CorpusInv, TablesOK
<1>15. applicability' = UNION {RowsOf(fed'[c][1]) : c \in Held'}
  <2>1. \A r : r \in applicability <=> \E c \in Held : r \in RowsOf(fed[c][1])
    BY DEF CorpusInv, TablesOK
  <2>2. \A c \in Held : \A r \in RowsOf(fed[c][1]) : r.cve = c
    BY RowIsOf DEF CorpusInv, FedOK, Held
  <2>3. ASSUME NEW r, r \in applicability'
        PROVE  \E c \in Held' : r \in RowsOf(fed'[c][1])
    <3>1. CASE r \in applicability /\ r.cve \notin ids
      BY <1>9, <1>10, <2>1, <2>2, <3>1
    <3>2. CASE \E e \in W : r \in RowsOf(e)
      BY <1>7, <1>9, <3>2
    <3> QED BY <1>2, <2>3, <3>1, <3>2
  <2>4. ASSUME NEW c \in Held', NEW r \in RowsOf(fed'[c][1])
        PROVE  r \in applicability'
    <3>1. CASE c \in ids
      BY <1>2, <1>6, <1>9, <3>1
    <3>2. CASE c \notin ids
      <4>1. c \in Held /\ r \in RowsOf(fed[c][1])
        BY <1>9, <1>10, <3>2
      <4> QED BY <1>2, <2>1, <2>2, <3>2, <4>1
    <3> QED BY <3>1, <3>2
  <2> QED BY <2>3, <2>4
<1>16. product_alias' =
         {[cve |-> c, alias |-> fed'[c][1].product] : c \in {d \in Held' : fed'[d][1].product # ""}}
  <2> DEFINE Row(c, e) == [cve |-> c, alias |-> e.product]
  <2>1. \A a : a \in product_alias <=>
               \E c \in Held : fed[c][1].product # "" /\ a = Row(c, fed[c][1])
    BY DEF CorpusInv, TablesOK
  <2>2. \A c, e : Row(c, e).cve = c
    OBVIOUS
  <2>3. \A a : a \in product_alias' <=>
               \/ a \in product_alias /\ a.cve \notin ids
               \/ \E e \in W : e.product # "" /\ a = Row(e.cve, e)
    BY <1>2
  <2> SUFFICES \A a : a \in product_alias' <=>
                      \E c \in Held' : fed'[c][1].product # "" /\ a = Row(c, fed'[c][1])
    OBVIOUS
  <2> HIDE DEF Row
  <2>4. ASSUME NEW a, a \in product_alias'
        PROVE  \E c \in Held' : fed'[c][1].product # "" /\ a = Row(c, fed'[c][1])
    <3>1. CASE a \in product_alias /\ a.cve \notin ids
      <4>1. PICK c \in Held : fed[c][1].product # "" /\ a = Row(c, fed[c][1])
        BY <2>1, <3>1
      <4>2. c \notin ids /\ c \in Held' /\ fed'[c] = fed[c]
        BY ZenonT(30), <1>9, <1>10, <2>2, <3>1, <4>1
      <4> QED BY <4>1, <4>2
    <3>2. CASE \E e \in W : e.product # "" /\ a = Row(e.cve, e)
      <4>1. PICK e \in W : e.product # "" /\ a = Row(e.cve, e)
        BY <3>2
      <4>2. e.cve \in Held' /\ fed'[e.cve][1] = e
        BY <1>7, <1>9
      <4> QED BY <4>1, <4>2
    <3> QED BY <2>3, <2>4, <3>1, <3>2
  <2>5. ASSUME NEW c \in Held', fed'[c][1].product # "", NEW a, a = Row(c, fed'[c][1])
        PROVE  a \in product_alias'
    <3>1. CASE c \in ids
      BY <1>6, <1>9, <2>3, <2>5, <3>1
    <3>2. CASE c \notin ids
      BY ZenonT(30), <1>9, <1>10, <2>1, <2>2, <2>3, <2>5, <3>2
    <3> QED BY <3>1, <3>2
  <2> QED BY <2>4, <2>5
<1>17. TablesOK'
  BY <1>14, <1>15, <1>16 DEF TablesOK
<1>18. \A c \in CVEs : fed[c] # <<>> => fed'[c] # <<>>
  BY <1>9
<1>19. ASSUME NEW p \in Usable, fed[EntryAt(p).cve] # <<>> PROVE fed'[EntryAt(p).cve] # <<>>
  BY <1>1, <1>18, <1>19, EntryIs DEF Entries
<1>20. BuiltOK'
  <2>1. ASSUME NEW p \in Usable
        PROVE  fed'[EntryAt(p).cve] # <<>> \/ EntryAt(p) \in Range(left')
    <3>1. CASE fed[EntryAt(p).cve] # <<>>
      BY <1>19, <3>1
    <3>2. CASE EntryAt(p) \in Range(left)
      BY <1>4, <1>5, <1>9, <3>2
    <3> QED BY <1>1, <3>1, <3>2 DEF CorpusInv, BuiltOK
  <2>2. ASSUME NEW p \in Usable, files[p[1]].at <= fetched_at, fetched_at # 0
        PROVE  fed'[EntryAt(p).cve] # <<>>
    BY <1>19, <2>2 DEF CorpusInv, BuiltOK
  <2> QED BY <1>1, <1>3, <2>1, <2>2 DEF BuiltOK
<1> QED BY <1>11, <1>12, <1>13, <1>17, <1>20 DEF CorpusInv

(* What is recorded of the last file is true of every file: none is later.    *)
LEMMA RecordProvenanceKeeps == CorpusInv /\ RecordProvenance => CorpusInv'
<1> SUFFICES ASSUME CorpusInv, RecordProvenance PROVE CorpusInv'
  OBVIOUS
<1>1. /\ building /\ left = <<>> /\ building' = FALSE /\ fetched_at' = files[Len(files)].at
      /\ UNCHANGED <<day, files, left, cve, applicability, product_alias, fed>>
  BY DEF RecordProvenance, Last
<1>2. /\ Usable' = Usable /\ Entries' = Entries /\ \A p : EntryAt(p)' = EntryAt(p)
  BY <1>1, SameFiles
<1>3. Len(files) \in DOMAIN files /\ files[Len(files)].at \in Nat
  <2>1. files # <<>> /\ files \in Directory
    BY <1>1 DEF CorpusInv, LeftOK, FilesOK
  <2>2. Len(files) \in DOMAIN files
    BY <2>1, EmptySeq, Elements DEF Directory
  <2>3. files[Len(files)] \in [at : Nat \ {0}, records : Files]
    BY <2>1, <2>2, Elements DEF Directory
  <2> QED BY <2>2, <2>3
<1>4. FilesOK'
  BY <1>1, <1>3 DEF CorpusInv, FilesOK
<1>5. LeftOK' /\ FedOK'
  BY <1>1, <1>2 DEF CorpusInv, LeftOK, FedOK
<1>6. TablesOK'
  BY <1>1, SameTables DEF CorpusInv
<1>7. BuiltOK'
  <2>1. \A e : e \notin Range(left)
    BY <1>1 DEF Range
  <2>2. \A p \in Usable : fed[EntryAt(p).cve] # <<>>
    BY <1>1, <2>1 DEF CorpusInv, BuiltOK
  <2> QED BY <1>1, <1>2, <2>2 DEF BuiltOK
<1> QED BY <1>4, <1>5, <1>6, <1>7 DEF CorpusInv

LEMMA OtherStepsKeep ==
  CorpusInv /\ (BuildInterrupted \/ NextDay \/ FromEnv \/ UNCHANGED matchingVars) => CorpusInv'
<1> SUFFICES ASSUME CorpusInv, BuildInterrupted \/ NextDay \/ FromEnv \/ UNCHANGED matchingVars
             PROVE  CorpusInv'
  OBVIOUS
<1>1. /\ UNCHANGED <<files, cve, applicability, product_alias, fetched_at, fed>>
      /\ day' \in {day, day + 1}
      /\ UNCHANGED <<left, building>> \/ (left' = <<>> /\ building' = FALSE)
  BY DEF BuildInterrupted, NextDay, FromEnv, matchingVars
<1>2. /\ Usable' = Usable /\ Entries' = Entries /\ \A p : EntryAt(p)' = EntryAt(p)
  BY <1>1, SameFiles
<1>3. FilesOK'
  <2>1. /\ day' \in Nat \ {0} /\ fetched_at' \in Nat /\ fetched_at' < day' /\ files' \in Directory
    BY <1>1 DEF CorpusInv, FilesOK
  <2>2. ASSUME NEW i \in DOMAIN files PROVE files[i].at < day'
    <3>1. files[i] \in [at : Nat \ {0}, records : Files]
      BY Elements DEF CorpusInv, FilesOK, Directory
    <3>2. files[i].at < day /\ files[i].at \in Nat /\ day \in Nat
      BY <3>1 DEF CorpusInv, FilesOK
    <3> QED BY <1>1, <3>2
  <2> QED BY <1>1, <2>1, <2>2 DEF FilesOK
<1>4. LeftOK'
  <2>1. <<>> \in Seq(Entries)
    OBVIOUS
  <2>2. CASE UNCHANGED <<left, building>>
    BY <1>1, <1>2, <2>2 DEF CorpusInv, LeftOK
  <2>3. CASE left' = <<>> /\ building' = FALSE
    BY <1>2, <2>1, <2>3 DEF LeftOK
  <2> QED BY <1>1, <2>2, <2>3
<1>5. FedOK'
  BY <1>1, <1>2 DEF CorpusInv, FedOK
<1>6. TablesOK'
  BY <1>1, SameTables DEF CorpusInv
<1>7. BuiltOK'
  BY <1>1, <1>2 DEF CorpusInv, BuiltOK
<1> QED BY <1>3, <1>4, <1>5, <1>6, <1>7 DEF CorpusInv

LEMMA CorpusInvariance == SpecMatching => []CorpusInv
<1>1. CorpusInv /\ [NextMatching]_matchingVars => CorpusInv'
  BY FetchFileKeeps, BuildKeeps, WriteBatchKeeps, RecordProvenanceKeeps, OtherStepsKeep
     DEF NextMatching
<1> QED BY <1>1, CorpusInit, PTL DEF SpecMatching

-------------------------------------------------------------------------------
(* What a lookup finds.                                                       *)

LEMMA RowsAre ==
  ASSUME CorpusInv
  PROVE  /\ Held \subseteq CVEs
         /\ \A r \in applicability : r.cve \in Held /\ r \in RowsOf(fed[r.cve][1])
         /\ \A a \in product_alias : a.cve \in CVEs
         /\ \A c \in Held : fed[c][1] \in Entries /\ fed[c][1].cve = c
<1>1. Held \subseteq CVEs /\ \A c \in Held : fed[c][1] \in Entries /\ fed[c][1].cve = c
  BY DEF CorpusInv, FedOK, Held
<1>2. \A r \in applicability : \E c \in Held : r \in RowsOf(fed[c][1])
  BY DEF CorpusInv, TablesOK
<1>3. \A r \in applicability : r.cve \in Held /\ r \in RowsOf(fed[r.cve][1])
  BY <1>1, <1>2, RowIsOf
<1>4. ASSUME NEW a \in product_alias PROVE a.cve \in CVEs
  <2>1. PICK c \in Held : a = [cve |-> c, alias |-> fed[c][1].product]
    BY DEF CorpusInv, TablesOK
  <2> QED BY <1>1, <2>1
<1> QED BY <1>1, <1>3, <1>4

LEMMA ScoresAre ==
  ASSUME CorpusInv, NEW c \in CVEs
  PROVE  cve[c].cvss \in 0..100
<1>1. CASE c \in Held
  <2>1. fed[c][1].cvss \in 0..100
    BY <1>1, RowsAre, EntryIs DEF CorpusInv, FilesOK
  <2>2. cve[c].cvss = fed[c][1].cvss
    BY <1>1 DEF CorpusInv, TablesOK
  <2> QED BY <2>1, <2>2
<1>2. CASE c \notin Held
  <2>1. cve[c] = Absent
    BY <1>2 DEF CorpusInv, TablesOK
  <2>2. Absent.cvss = 0
    BY DEF Absent
  <2> QED BY <2>1, <2>2
<1> QED BY <1>1, <1>2

CandidateOK(e) == e.cve \in CVEs /\ e.cvss \in 0..100 /\ e.maturity \in Maturity

LEMMA ReferenceIs ==
  /\ IsFiniteSet(Range(Reference))
  /\ \A e \in Range(Reference) : e \in Declared
<1>1. /\ Len(Reference) \in Nat /\ DOMAIN Reference = 1..Len(Reference)
      /\ \A i \in DOMAIN Reference : Reference[i] \in Declared
  BY MatchingAssumption, Elements
<1>2. IsFiniteSet({Reference[i] : i \in DOMAIN Reference})
  <2>1. IsFiniteSet(DOMAIN Reference)
    BY <1>1, IndicesFinite
  <2> QED BY <2>1, ImageFinite
<1> QED BY <1>1, <1>2 DEF Range

LEMMA EntriesOf ==
  ASSUME CorpusInv, NEW C \in SUBSET CVEs, NEW f
  PROVE  /\ IsFiniteSet({Entry(c, f[c]) : c \in C})
         /\ \A e \in {Entry(c, f[c]) : c \in C} : CandidateOK(e)
<1>1. IsFiniteSet(C)
  BY MatchingAssumption, FS_Subset
<1> DEFINE g == [c \in C |-> Entry(c, f[c])]
<1>2. {Entry(c, f[c]) : c \in C} = {g[c] : c \in C}
  OBVIOUS
<1>3. IsFiniteSet({g[c] : c \in C})
  <2> HIDE DEF g
  <2> QED BY <1>1, ImageFinite
<1>4. \A c \in C : CandidateOK(Entry(c, f[c]))
  BY ScoresAre DEF CandidateOK, Entry, Maturity
<1> QED BY <1>2, <1>3, <1>4

LEMMA CandidatesAre ==
  ASSUME CorpusInv, NEW fp \in Fingerprints
  PROVE  /\ IsFiniteSet(Candidates(fp))
         /\ \A e \in Candidates(fp) : CandidateOK(e)
<1>1. CASE resolver = "static"
  <2>1. Candidates(fp) = Range(Reference)
    BY <1>1 DEF Candidates
  <2>2. \A e \in Range(Reference) : CandidateOK(e)
    BY ReferenceIs DEF CandidateOK, Declared
  <2> QED BY <2>1, <2>2, ReferenceIs
<1>2. CASE resolver = "corpus" /\ fp.cpe.part # ""
  <2> DEFINE rows == CandidateRows(fp.cpe)
             C == {r.cve : r \in rows}
             Of(c) == Sorted({r \in rows : r.cve = c}, LAMBDA r, s : Precedes(fp.cpe, r, s))
             f == [c \in C |-> [k \in DOMAIN Of(c) |-> Of(c)[k].statement]]
  <2>1. rows \subseteq applicability
    BY DEF CandidateRows, Narrowed
  <2>2. C \in SUBSET CVEs
    <3> HIDE DEF rows
    <3> QED BY <2>1, RowsAre
  <2>3. Candidates(fp) = {Entry(c, f[c]) : c \in C}
    <3>1. Candidates(fp) = CandidatesForCpe(fp.cpe)
      BY <1>2 DEF Candidates
    <3>2. CandidatesForCpe(fp.cpe) = {Entry(c, [k \in DOMAIN Of(c) |-> Of(c)[k].statement]) : c \in C}
      BY DEF CandidatesForCpe
    <3> HIDE DEF C, Of
    <3>3. \A c \in C : f[c] = [k \in DOMAIN Of(c) |-> Of(c)[k].statement]
      OBVIOUS
    <3> QED BY <3>1, <3>2, <3>3
  <2> HIDE DEF C, f
  <2> QED BY <2>2, <2>3, EntriesOf
<1>3. CASE resolver = "corpus" /\ fp.cpe.part = ""
  <2> DEFINE T == {b \in product_alias : fp.product \in Naming[b.alias]}
             C == {a.cve : a \in T}
             f == [c \in C |-> <<>>]
  <2>1. C \in SUBSET CVEs
    BY RowsAre
  <2>2. Candidates(fp) = {Entry(c, f[c]) : c \in C}
    <3>1. Candidates(fp) = {Entry(a.cve, <<>>) : a \in T}
      BY <1>3 DEF Candidates, CandidatesForProduct
    <3> HIDE DEF T
    <3> QED BY <3>1
  <2> HIDE DEF C, f
  <2> QED BY <2>1, <2>2, EntriesOf
<1>4. CASE resolver \notin {"static", "corpus"}
  <2>1. Candidates(fp) = {}
    BY <1>4 DEF Candidates
  <2> QED BY <2>1, FS_EmptySet
<1> QED BY <1>1, <1>2, <1>3, <1>4

-------------------------------------------------------------------------------
(* What makes a lead urgent.                                                  *)

Methods == {"exact", "range", "substring", "product"}

LEMMA MethodIs ==
  ASSUME NEW e, NEW fp
  PROVE  MethodOf(e, fp) \in Methods \cup {"no"}
<1>1. \A s, c : Method(s, c) \in Methods \cup {"no"}
  BY DEF Method, Methods
<1> QED BY <1>1 DEF MethodOf, Methods

LEMMA MaturityIs ==
  ASSUME NEW e, e.maturity \in Maturity
  PROVE  Inferred(e) \in Maturity
<1>1. CASE e.cve \in DOMAIN Indexed
  <2>1. Indexed[e.cve] \in Maturity
    BY <1>1, MatchingAssumption
  <2>2. e.maturity \in Int /\ Indexed[e.cve] \in Int
    BY <2>1 DEF Maturity
  <2>3. Max({e.maturity, Indexed[e.cve]}) \in {e.maturity, Indexed[e.cve]}
    BY <2>2, MaxOfTwo
  <2> QED BY <1>1, <2>1, <2>3 DEF Inferred
<1>2. CASE e.cve \notin DOMAIN Indexed
  BY <1>2 DEF Inferred
<1> QED BY <1>1, <1>2

LEMMA FingerprintIs ==
  ASSUME NEW fp \in Fingerprints
  PROVE  /\ fp.confidence \in 0..100 /\ MinConfidence \in Nat
         /\ fp.version \in Bound /\ fp.cpe \in CPE
<1>1. fp \in Fingerprint /\ MinConfidence \in Nat
  BY MatchingAssumption
<1> QED BY <1>1 DEF Fingerprint

LEMMA BonusIs ==
  ASSUME NEW fp \in Fingerprints
  PROVE  Bonus(fp) \in {8, 9, 10}
<1>1. fp.principals \in Nat
  BY MatchingAssumption DEF Fingerprint
<1>2. CASE fp.principals = 0
  BY <1>2 DEF Bonus
<1>3. CASE fp.principals # 0
  <2> DEFINE b == 7 + fp.principals
  <2>1. b \in Int /\ b >= 8 /\ 10 \in Int
    BY <1>1, <1>3
  <2> HIDE DEF b
  <2>2. Min({b, 10}) \in {b, 10} /\ Min({b, 10}) <= b /\ Min({b, 10}) <= 10
    BY <2>1, MinOfTwo
  <2>3. Min({b, 10}) \in {8, 9, 10}
    BY <2>1, <2>2
  <2> QED BY <1>3, <2>3 DEF Bonus, b
<1> QED BY <1>2, <1>3

(* What the score of a vulnerability is multiplied with.                      *)
Certainty(fp, method, maturity) == fp.confidence * Bonus(fp) * Weight[method] * maturity
Worth(cvss, fp, method, maturity) == cvss * Certainty(fp, method, maturity)

LEMMA CertaintyIs ==
  ASSUME NEW fp \in Fingerprints, NEW method \in Methods, NEW maturity \in Maturity
  PROVE  /\ Certainty(fp, method, maturity) \in Nat
         /\ fp.confidence >= 5 => Certainty(fp, method, maturity) >= 48000
<1>1. PICK c \in 0..100 : c = fp.confidence
  BY MatchingAssumption DEF Fingerprint
<1>2. PICK b \in {8, 9, 10} : b = Bonus(fp)
  BY BonusIs
<1>3. PICK w \in {100, 95, 75, 30} : w = Weight[method]
  BY DEF Weight, Methods
<1>4. /\ c * b \in Nat /\ c >= 5 => c * b >= 40
  BY <1>1, <1>2
<1>5. PICK x \in Nat : x = c * b /\ (c >= 5 => x >= 40)
  BY <1>4
<1>6. x * w \in Nat /\ (x >= 40 => x * w >= 1200)
  BY <1>3, <1>5
<1>7. PICK y \in Nat : y = x * w /\ (x >= 40 => y >= 1200)
  BY <1>6
<1>8. y * maturity \in Nat /\ (y >= 1200 => y * maturity >= 48000)
  BY <1>7 DEF Maturity
<1>9. Certainty(fp, method, maturity) = y * maturity
  BY <1>1, <1>2, <1>3, <1>5, <1>7 DEF Certainty
<1> QED BY <1>1, <1>5, <1>7, <1>8, <1>9

(* Rounded products, and what a factor and the clamp leave of them.           *)
Clamped(n) == IF n <= 10000 THEN n ELSE 10000

LEMMA ClampIs ==
  ASSUME NEW n \in Int
  PROVE  Min({n, 10000}) = Clamped(n)
<1>1. 10000 \in Int
  OBVIOUS
<1>2. Min({n, 10000}) \in {n, 10000} /\ Min({n, 10000}) <= n /\ Min({n, 10000}) <= 10000
  BY <1>1, MinOfTwo
<1> QED BY <1>2 DEF Clamped

Urgency(product, factor) ==
  Clamped((Clamped((product + 40000) \div 80000) * factor + 500) \div 1000)

Factors == 1000..1600
Urgencies == 0..10000

LEMMA ClampedIs == ASSUME NEW n \in Nat PROVE Clamped(n) \in Urgencies
BY DEF Clamped, Urgencies

LEMMA UrgencyIs ==
  ASSUME NEW product \in Nat, NEW factor \in Factors
  PROVE  Urgency(product, factor) \in Urgencies
<1>1. (product + 40000) \div 80000 \in Nat
  OBVIOUS
<1>2. PICK r \in Nat : r = (product + 40000) \div 80000
  BY <1>1
<1>3. PICK s \in Urgencies : s = Clamped(r)
  BY ClampedIs
<1>4. s * factor \in Nat
  BY DEF Factors, Urgencies
<1>5. PICK t \in Nat : t = s * factor
  BY <1>4
<1>6. (t + 500) \div 1000 \in Nat
  OBVIOUS
<1>7. PICK u \in Nat : u = (t + 500) \div 1000
  BY <1>6
<1>8. Urgency(product, factor) = Clamped(u)
  BY <1>2, <1>3, <1>5, <1>7 DEF Urgency
<1> QED BY <1>8, ClampedIs

LEMMA PriorityIs ==
  ASSUME NEW fp \in Fingerprints, NEW method \in Methods, NEW e, CandidateOK(e),
         NEW contradicted \in BOOLEAN
  PROVE  /\ Worth(e.cvss, fp, method, Inferred(e)) \in Nat
         /\ Factor(e.cve) \in 1000..1600
         /\ Priority(e, fp, method, contradicted) =
              Doubted(Urgency(Worth(e.cvss, fp, method, Inferred(e)), Factor(e.cve)), fp, contradicted)
<1>1. PICK x \in Nat : x = Certainty(fp, method, Inferred(e))
  BY MaturityIs, CertaintyIs DEF CandidateOK
<1>2. e.cvss * x \in Nat
  BY <1>1 DEF CandidateOK
<1>3. PICK product \in Nat : product = e.cvss * x
  BY <1>2
<1>4. Factor(e.cve) \in 1000..1600
  <2>1. CASE e.cve \in Exploited
    BY <2>1 DEF Factor
  <2>2. CASE e.cve \notin Exploited /\ e.cve \in DOMAIN Likelihood
    <3>1. Likelihood[e.cve] \in 0..100
      BY <2>2, MatchingAssumption
    <3>2. 1000 + 5 * Likelihood[e.cve] \in 1000..1600
      BY <3>1
    <3> QED BY <2>2, <3>2 DEF Factor
  <2>3. CASE e.cve \notin Exploited /\ e.cve \notin DOMAIN Likelihood
    BY <2>3 DEF Factor
  <2> QED BY <2>1, <2>2, <2>3
<1>5. (product + 40000) \div 80000 \in Int
  OBVIOUS
<1>6. Score(e, fp, method) = Clamped((product + 40000) \div 80000)
  <2>1. Score(e, fp, method) = Min({(product + 40000) \div 80000, 10000})
    BY <1>1, <1>3 DEF Score, Certainty
  <2> QED BY <1>5, <2>1, ClampIs
<1>7. Score(e, fp, method) \in Int
  BY <1>5, <1>6 DEF Clamped
<1>8. PICK t \in Int : t = Score(e, fp, method) * Factor(e.cve)
  <2>1. Score(e, fp, method) * Factor(e.cve) \in Int
    BY <1>4, <1>7
  <2> QED BY <2>1
<1>9. (t + 500) \div 1000 \in Int
  OBVIOUS
<1>10. Priority(e, fp, method, contradicted) = Doubted(Clamped((t + 500) \div 1000), fp, contradicted)
  <2>1. Priority(e, fp, method, contradicted) =
          Doubted(Min({(t + 500) \div 1000, 10000}), fp, contradicted)
    BY <1>8 DEF Priority
  <2> QED BY <1>9, <2>1, ClampIs
<1>11. Worth(e.cvss, fp, method, Inferred(e)) = product
  BY <1>1, <1>3 DEF Worth
<1>12. Urgency(product, Factor(e.cve)) = Clamped((t + 500) \div 1000)
  BY <1>6, <1>8 DEF Urgency
<1> QED BY <1>4, <1>10, <1>11, <1>12

(* Both penalties keep the order of two priorities, and tell apart those that *)
(* are eight apart.                                                           *)
LEMMA DoubtedIs ==
  ASSUME NEW m \in Nat, NEW n \in Nat, NEW fp, NEW contradicted \in BOOLEAN
  PROVE  /\ Doubted(n, fp, contradicted) \in Nat
         /\ m <= n => Doubted(m, fp, contradicted) <= Doubted(n, fp, contradicted)
         /\ m + 8 <= n => Doubted(m, fp, contradicted) < Doubted(n, fp, contradicted)
BY DEF Doubted

(* What makes a lead sure enough for its factor to show, and by how much.     *)
Sure(fp, m, w) == Certainty(fp, m, w) \in Nat /\ Certainty(fp, m, w) >= 48000
Passes(a, b) == a = 10000 \/ b + 8 <= a
Grave == 75..100
Scores == 0..100

LEMMA PassesIs ==
  ASSUME NEW a \in Urgencies, NEW b \in Urgencies, Passes(a, b)
  PROVE  a \in Nat /\ b \in Nat /\ b <= a
BY DEF Urgencies, Passes

LEMMA ExploitedIsUrgent ==
  ASSUME NEW fp, NEW m, NEW w, Sure(fp, m, w), NEW c \in Grave, NEW d \in Scores
  PROVE  Passes(Urgency(Worth(c, fp, m, w), 1600), Urgency(Worth(d, fp, m, w), 1000))
<1>1. PICK x \in Nat : x = Certainty(fp, m, w) /\ x >= 48000
  BY DEF Sure
<1>2. c * x \in Nat /\ d * x \in Nat /\ c * x >= 75 * x /\ d * x <= 100 * x
  BY DEF Grave, Scores
<1>3. PICK p \in Nat : p = c * x
  BY <1>2
<1>4. PICK q \in Nat : q = d * x
  BY <1>2
<1>5. p >= 75 * x /\ q <= 100 * x /\ x >= 48000
  BY <1>1, <1>2, <1>3, <1>4
<1>6. Worth(c, fp, m, w) = p /\ Worth(d, fp, m, w) = q
  BY <1>1, <1>3, <1>4 DEF Worth
<1>7. Passes(Urgency(p, 1600), Urgency(q, 1000))
  BY ONLY x \in Nat, <1>5, p \in Nat, q \in Nat DEF Passes, Urgency, Clamped
<1> QED BY <1>6, <1>7

(* What a lead is made of.                                                    *)
LeadOf(e, fp, contradicted) ==
  LET m == MethodOf(e, fp)
  IN [cve |-> e.cve, cvss |-> e.cvss, maturity |-> Inferred(e), method |-> m,
      priority |-> IF m = "no" THEN 0 ELSE Priority(e, fp, m, contradicted)]

LEMMA LeadsAre ==
  ASSUME CorpusInv, NEW fp \in Fingerprints, NEW contradicted \in BOOLEAN
  PROVE  /\ IsFiniteSet(Matched(fp, contradicted))
         /\ \A l \in Matched(fp, contradicted) :
              /\ fp.confidence >= MinConfidence
              /\ \E e \in Candidates(fp) :
                   l = LeadOf(e, fp, contradicted) /\ l.method \in Methods /\ CandidateOK(e)
<1> DEFINE g == [e \in Candidates(fp) |-> LeadOf(e, fp, contradicted)]
           L == {g[e] : e \in Candidates(fp)}
<1>1. CASE fp.confidence < MinConfidence \/ fp.version = NoVersion
  BY <1>1, FS_EmptySet DEF Matched
<1>2. CASE ~(fp.confidence < MinConfidence \/ fp.version = NoVersion)
  <2>1. Matched(fp, contradicted) = {l \in L : l.method # "no"}
    BY <1>2 DEF Matched, LeadOf
  <2>2. IsFiniteSet(L)
    <3> HIDE DEF g
    <3> QED BY CandidatesAre, ImageFinite
  <2>3. IsFiniteSet(Matched(fp, contradicted))
    <3> HIDE DEF L
    <3>1. Matched(fp, contradicted) \in SUBSET L
      BY <2>1
    <3> QED BY <2>2, <3>1, FS_Subset
  <2>4. fp.confidence >= MinConfidence
    BY <1>2, FingerprintIs
  <2>5. ASSUME NEW l \in Matched(fp, contradicted)
        PROVE  \E e \in Candidates(fp) :
                 l = LeadOf(e, fp, contradicted) /\ l.method \in Methods /\ CandidateOK(e)
    <3>1. PICK e \in Candidates(fp) : l = LeadOf(e, fp, contradicted)
      BY <2>1
    <3>2. l.method = MethodOf(e, fp) /\ l.method # "no"
      BY <2>1, <3>1 DEF LeadOf
    <3>3. l.method \in Methods
      BY <3>2, MethodIs
    <3> QED BY <3>1, <3>3, CandidatesAre
  <2> QED BY <2>3, <2>4, <2>5
<1> QED BY <1>1, <1>2

LeadOK(l, fp, contradicted) ==
  /\ l.cvss \in 0..100 /\ l.method \in Methods /\ l.maturity \in Maturity
  /\ l.priority \in Nat
  /\ Worth(l.cvss, fp, l.method, l.maturity) \in Nat
  /\ l.priority =
       Doubted(Urgency(Worth(l.cvss, fp, l.method, l.maturity), Factor(l.cve)), fp, contradicted)

LEMMA LeadIs ==
  ASSUME CorpusInv, NEW fp \in Fingerprints, NEW contradicted \in BOOLEAN,
         NEW l \in Matched(fp, contradicted)
  PROVE  LeadOK(l, fp, contradicted)
<1>1. PICK e \in Candidates(fp) :
        l = LeadOf(e, fp, contradicted) /\ l.method \in Methods /\ CandidateOK(e)
  BY LeadsAre
<1>2. PICK m : m = MethodOf(e, fp)
  OBVIOUS
<1>3. /\ l.cve = e.cve /\ l.cvss = e.cvss /\ l.maturity = Inferred(e) /\ l.method = m
      /\ l.priority = IF m = "no" THEN 0 ELSE Priority(e, fp, m, contradicted)
  BY <1>1, <1>2 DEF LeadOf
<1>4. m \in Methods /\ m # "no"
  BY <1>1, <1>3 DEF Methods
<1>5. Inferred(e) \in Maturity /\ e.cvss \in 0..100
  BY <1>1, MaturityIs DEF CandidateOK
<1>6. PICK x \in Nat : x = Worth(e.cvss, fp, m, Inferred(e))
  BY <1>1, <1>4, PriorityIs
<1>7. PICK f \in Factors : f = Factor(e.cve)
  BY <1>1, <1>4, PriorityIs DEF Factors
<1>8. Priority(e, fp, m, contradicted) = Doubted(Urgency(x, f), fp, contradicted)
  <2>1. Priority(e, fp, m, contradicted) =
          Doubted(Urgency(Worth(e.cvss, fp, m, Inferred(e)), Factor(e.cve)), fp, contradicted)
    BY <1>1, <1>4, PriorityIs
  <2> QED BY <1>6, <1>7, <2>1
<1>9. Doubted(Urgency(x, f), fp, contradicted) \in Nat
  <2>1. Urgency(x, f) \in Urgencies
    BY UrgencyIs
  <2>2. PICK n \in Urgencies : n = Urgency(x, f)
    BY <2>1
  <2>3. n \in Nat
    BY DEF Urgencies
  <2>4. Doubted(n, fp, contradicted) \in Nat
    BY <2>3, DoubtedIs
  <2> QED BY <2>2, <2>4
<1> QED BY <1>3, <1>4, <1>5, <1>6, <1>7, <1>8, <1>9 DEF LeadOK

LEMMA ReportedIs ==
  ASSUME NEW leads, IsFiniteSet(leads), \A l \in leads : l.priority \in Nat,
         NEW k \in Reported(leads), NEW l \in leads, l.priority >= k.priority
  PROVE  l \in Reported(leads)
<1> DEFINE A(j) == {i \in leads : i.priority > j.priority}
<1>1. k \in leads /\ Cardinality(A(k)) < MaxLeads
  BY DEF Reported
<1>2. A(l) \in SUBSET A(k) /\ A(k) \in SUBSET leads
  BY <1>1
<1>3. Cardinality(A(l)) < MaxLeads
  <2> HIDE DEF A
  <2>1. IsFiniteSet(A(k))
    BY <1>2, FS_Subset
  <2>2. Cardinality(A(l)) <= Cardinality(A(k)) /\ IsFiniteSet(A(l))
    BY <1>2, <2>1, FS_Subset
  <2>3. Cardinality(A(l)) \in Nat /\ Cardinality(A(k)) \in Nat
    BY <2>1, <2>2, FS_CardinalityType
  <2> QED BY <1>1, <2>2, <2>3, MatchingAssumption
<1> QED BY <1>3 DEF Reported

LEMMA ExploitedIsKeptStep ==
  ASSUME CorpusInv, MinConfidence >= 5
  PROVE  ExploitedIsKept
<1> SUFFICES ASSUME NEW fp \in Fingerprints, NEW contradicted \in BOOLEAN,
                    NEW l \in Matched(fp, contradicted),
                    NEW k \in Reported(Matched(fp, contradicted)), Attacked(l, k)
             PROVE  /\ l.priority >= k.priority
                    /\ k.priority < Doubted(10000, fp, contradicted) =>
                         l.priority > k.priority /\ l \in Reported(Matched(fp, contradicted))
  BY DEF ExploitedIsKept
<1>1. k \in Matched(fp, contradicted)
  BY DEF Reported
<1>2. LeadOK(l, fp, contradicted) /\ LeadOK(k, fp, contradicted)
  BY <1>1, LeadIs
<1>3. PICK c \in 0..100 : c = l.cvss
  BY <1>2 DEF LeadOK
<1>4. PICK d \in 0..100 : d = k.cvss
  BY <1>2 DEF LeadOK
<1>5. PICK m \in Methods : m = l.method /\ m = k.method
  BY <1>2 DEF LeadOK, Attacked
<1>6. PICK w \in Maturity : w = l.maturity /\ w = k.maturity
  BY <1>2 DEF LeadOK, Attacked
<1>7. c \in 75..100 /\ Factor(l.cve) = 1600 /\ Factor(k.cve) = 1000
  <2>1. Factor(l.cve) = 1600
    BY DEF Attacked, Factor
  <2>2. Factor(k.cve) = 1000
    BY DEF Attacked, Factor
  <2> QED BY <1>3, <2>1, <2>2 DEF Attacked
<1>8. /\ Urgency(Worth(c, fp, m, w), 1600) \in Urgencies
      /\ Urgency(Worth(d, fp, m, w), 1000) \in Urgencies
  <2>1. PICK x \in Nat : x = Worth(c, fp, m, w)
    BY <1>2, <1>3, <1>5, <1>6 DEF LeadOK
  <2>2. PICK y \in Nat : y = Worth(d, fp, m, w)
    BY <1>2, <1>4, <1>5, <1>6 DEF LeadOK
  <2>3. 1600 \in Factors /\ 1000 \in Factors
    BY DEF Factors
  <2> QED BY <2>1, <2>2, <2>3, UrgencyIs
<1>9. PICK a \in Urgencies, b \in Urgencies :
        /\ a = Urgency(Worth(c, fp, m, w), 1600)
        /\ b = Urgency(Worth(d, fp, m, w), 1000)
  BY <1>8
<1>10. a \in Urgencies /\ b \in Urgencies /\ Passes(a, b)
  <2>1. fp.confidence >= 5
    <3>1. fp.confidence >= MinConfidence
      BY LeadsAre
    <3> QED BY <3>1, FingerprintIs
  <2>2. Sure(fp, m, w)
    BY <2>1, CertaintyIs DEF Sure
  <2>3. c \in Grave /\ d \in Scores
    BY <1>7 DEF Grave, Scores
  <2>4. Passes(Urgency(Worth(c, fp, m, w), 1600), Urgency(Worth(d, fp, m, w), 1000))
    BY <2>2, <2>3, ExploitedIsUrgent
  <2> QED BY <1>9, <2>4
<1>11. l.priority = Doubted(a, fp, contradicted) /\ k.priority = Doubted(b, fp, contradicted)
  BY <1>2, <1>3, <1>4, <1>5, <1>6, <1>7, <1>9 DEF LeadOK
<1>12. l.priority \in Nat /\ k.priority \in Nat
  BY <1>2 DEF LeadOK
<1>13. l.priority >= k.priority
  <2>1. b <= a /\ a \in Nat /\ b \in Nat
    BY <1>10, PassesIs
  <2>2. Doubted(b, fp, contradicted) <= Doubted(a, fp, contradicted)
    BY <2>1, DoubtedIs
  <2> QED BY <1>11, <1>12, <2>2
<1>14. ASSUME k.priority < Doubted(10000, fp, contradicted)
       PROVE  l.priority > k.priority
  <2>1. CASE a = 10000
    BY <1>14, <1>11, <1>12, <2>1
  <2>2. CASE b + 8 <= a
    <3>1. a \in Nat /\ b \in Nat
      BY <1>10, PassesIs
    <3>2. Doubted(b, fp, contradicted) < Doubted(a, fp, contradicted)
      BY <2>2, <3>1, DoubtedIs
    <3> QED BY <1>11, <1>12, <3>2
  <2> QED BY <1>10, <2>1, <2>2 DEF Passes
<1>15. l \in Reported(Matched(fp, contradicted))
  <2> DEFINE leads == Matched(fp, contradicted)
  <2>1. IsFiniteSet(leads)
    BY LeadsAre
  <2>2. \A i \in leads : i.priority \in Nat
    BY LeadIs DEF LeadOK
  <2>3. l \in leads /\ k \in Reported(leads)
    OBVIOUS
  <2> HIDE DEF leads
  <2>4. l \in Reported(leads)
    BY <1>13, <2>1, <2>2, <2>3, ReportedIs
  <2> QED BY <2>4 DEF leads
<1> QED BY <1>13, <1>14, <1>15

(* ExploitedIsKept, whatever the scores, factors, penalties and limits, as    *)
(* long as nothing is matched with a confidence below 0.05: there the         *)
(* rounding to four places (vulnref.py:302) could make two leads equal.       *)
THEOREM ExploitedIsKeptAlways ==
  ASSUME MinConfidence >= 5
  PROVE  SpecMatching => []ExploitedIsKept
BY CorpusInvariance, ExploitedIsKeptStep, PTL

-------------------------------------------------------------------------------
(* The comparison of versions, and the numbers that a lookup narrows by.      *)

LEMMA RankIs ==
  ASSUME NEW u \in DOMAIN Rank, NEW v \in DOMAIN Rank
  PROVE  u \in Version /\ Rank[u] \in Int /\ (Less(u, v) <=> Rank[u] < Rank[v])
BY RankAssumption

(* No version there is has a leading number that is cut.                      *)
ShortMajors ==
  \A v \in DOMAIN Rank : v # NoVersion /\ v[1][1] = 1 => v[1][2] < 10^MajorDigits

LEMMA NothingIsCut ==
  ASSUME NEW n \in Nat, n < 10^MajorDigits
  PROVE  Cut(n) = n
<1> DEFINE T == {e \in 0..9 : n \div 10^e < 10^MajorDigits}
<1>1. n \div 10^0 = n
  <2>1. 10^0 = 1 /\ n \div 1 = n
    OBVIOUS
  <2> QED BY <2>1
<1>2. 0 \in T /\ T \in SUBSET Nat
  BY <1>1
<1>3. Cut(n) = n \div 10^Min(T)
  BY DEF Cut
<1> HIDE DEF T
<1>4. Min(T) \in Nat /\ Min(T) <= 0
  BY <1>2, MinOf
<1>5. Min(T) = 0
  BY <1>4
<1> QED BY <1>1, <1>3, <1>5

LEMMA MajorIs ==
  ASSUME ShortMajors, NEW v \in Bound
  PROVE  /\ v # NoVersion /\ v[1][1] = 1 => Major(v) = v[1][2] /\ v[1] \in {1} \X Nat /\ 1 \in DOMAIN v
         /\ ~(v # NoVersion /\ v[1][1] = 1) => Major(v) = -1
         /\ Major(v) \in Int
<1>1. CASE v # NoVersion /\ v[1][1] = 1
  <2>1. v \in DOMAIN Rank /\ v \in Seq({0, 1} \X Nat) /\ v # <<>>
    BY <1>1, RankAssumption DEF Bound, Version, NoVersion
  <2>2. 1 \in DOMAIN v /\ v[1] \in {0, 1} \X Nat
    BY <2>1, EmptySeq, Elements
  <2>3. v[1] \in {1} \X Nat /\ v[1][2] \in Nat
    BY <1>1, <2>2
  <2>4. v[1][2] < 10^MajorDigits
    BY <1>1, <2>1 DEF ShortMajors
  <2>5. Cut(v[1][2]) = v[1][2]
    BY <2>3, <2>4, NothingIsCut
  <2> QED BY <1>1, <2>2, <2>3, <2>5 DEF Major
<1>2. CASE ~(v # NoVersion /\ v[1][1] = 1)
  BY <1>2 DEF Major
<1> QED BY <1>1, <1>2

(* The numbers of two versions are never in the other order.                  *)
LEMMA MajorsAgree ==
  ASSUME ShortMajors, NEW u \in DOMAIN Rank, NEW v \in DOMAIN Rank, ~Less(v, u),
         Major(u) # -1, Major(v) # -1
  PROVE  Major(u) <= Major(v)
<1>1. u \in Bound /\ v \in Bound /\ u \in Version /\ v \in Version
  BY RankIs DEF Bound
<1>2. /\ Major(u) = u[1][2] /\ u[1] \in {1} \X Nat /\ 1 \in DOMAIN u
      /\ Major(v) = v[1][2] /\ v[1] \in {1} \X Nat /\ 1 \in DOMAIN v
  BY <1>1, MajorIs
<1>3. Padded(u, 1) = u[1] /\ Padded(v, 1) = v[1]
  BY <1>2 DEF Padded
<1>4. ASSUME v[1][2] < u[1][2] PROVE FALSE
  <2>1. TokenLess(Padded(v, 1), Padded(u, 1))
    BY <1>2, <1>3, <1>4 DEF TokenLess
  <2>2. 1 \in Nat \ {0} /\ \A j \in 1..(1 - 1) : Padded(v, j) = Padded(u, j)
    OBVIOUS
  <2>3. Less(v, u)
    BY <1>1, <2>1, <2>2, LessIs
  <2> QED BY <2>3
<1>5. u[1][2] \in Nat /\ v[1][2] \in Nat
  BY <1>2
<1> QED BY <1>2, <1>4, <1>5

-------------------------------------------------------------------------------
(* The matching of a statement.                                               *)

LEMMA StatementIs ==
  ASSUME NEW s \in Statement
  PROVE  /\ s.vsi \in Bound /\ s.vse \in Bound /\ s.vei \in Bound /\ s.vee \in Bound
         /\ s.version \in Bound /\ s.vulnerable \in BOOLEAN
BY DEF Statement

(* What CPERange.matches() computes is what a statement says.                 *)
LEMMA MethodIsExact ==
  ASSUME NEW s \in Statement, NEW cpe, cpe.version \in DOMAIN Rank, cpe.version # NoVersion,
         s.part = cpe.part
  PROVE  Method(s, cpe) # "no" <=> Affects(s, cpe)
<1> DEFINE v == cpe.version
           matching == /\ s.vulnerable
                       /\ s.vendor \in {cpe.vendor, "*"} /\ s.product \in {cpe.product, "*"}
<1>1. \A b \in {s.vsi, s.vse, s.vei, s.vee, s.version} : b # NoVersion => b \in DOMAIN Rank
  BY StatementIs DEF Bound
<1>2. \A b \in DOMAIN Rank :
        /\ Less(v, b) <=> Rank[v] < Rank[b]
        /\ Less(b, v) <=> Rank[b] < Rank[v]
        /\ Rank[b] \in Int /\ Rank[v] \in Int
  BY RankIs
<1>3. WithinWindow(s, v) <=> /\ s.vsi # NoVersion => Rank[v] >= Rank[s.vsi]
                             /\ s.vse # NoVersion => Rank[v] > Rank[s.vse]
                             /\ s.vei # NoVersion => Rank[v] <= Rank[s.vei]
                             /\ s.vee # NoVersion => Rank[v] < Rank[s.vee]
  <2>1. s.vsi # NoVersion => (~Less(v, s.vsi) <=> Rank[v] >= Rank[s.vsi])
    BY <1>1, <1>2
  <2>2. s.vse # NoVersion => (Less(s.vse, v) <=> Rank[v] > Rank[s.vse])
    BY <1>1, <1>2
  <2>3. s.vei # NoVersion => (~Less(s.vei, v) <=> Rank[v] <= Rank[s.vei])
    BY <1>1, <1>2
  <2>4. s.vee # NoVersion => (Less(v, s.vee) <=> Rank[v] < Rank[s.vee])
    BY <1>1, <1>2
  <2> QED BY <2>1, <2>2, <2>3, <2>4 DEF WithinWindow
<1>4. s.version # NoVersion => (Same(v, s.version) <=> Rank[v] = Rank[s.version])
  BY <1>1, <1>2 DEF Same
<1>5. ~HasWindow(s) <=> /\ s.vsi = NoVersion /\ s.vse = NoVersion
                        /\ s.vei = NoVersion /\ s.vee = NoVersion
  BY DEF HasWindow
<1>6. Affects(s, cpe) <=>
        /\ matching /\ WithinWindow(s, v)
        /\ ~HasWindow(s) /\ s.version # NoVersion => Same(v, s.version)
  BY <1>3, <1>4 DEF Affects
<1>7. ~matching => Method(s, cpe) = "no"
  BY DEF Method, AttributeMatches
<1>8. matching /\ HasWindow(s) => (Method(s, cpe) # "no" <=> WithinWindow(s, v))
  BY DEF Method, AttributeMatches
<1>9. matching /\ ~HasWindow(s) /\ s.version # NoVersion =>
        (Method(s, cpe) # "no" <=> Same(v, s.version))
  BY DEF Method, AttributeMatches
<1>10. matching /\ ~HasWindow(s) /\ s.version = NoVersion => Method(s, cpe) # "no"
  BY DEF Method, AttributeMatches
<1>11. ~HasWindow(s) => WithinWindow(s, v)
  BY <1>5 DEF WithinWindow
<1> HIDE DEF matching, v
<1> QED BY <1>6, <1>7, <1>8, <1>9, <1>10, <1>11

(* The narrowing by numbers leaves out no row that applies.                   *)
LEMMA NarrowingKeeps ==
  ASSUME ShortMajors, NEW e, NEW n \in DOMAIN e.statements, e.statements[n] \in Statement,
         NEW cpe, cpe.version \in DOMAIN Rank, cpe.version # NoVersion,
         RowOf(e, n) \in applicability, Affects(e.statements[n], cpe)
  PROVE  RowOf(e, n) \in Narrowed(cpe)
<1> DEFINE s == e.statements[n]
           v == cpe.version
           lo == Major(IF s.vsi # NoVersion THEN s.vsi ELSE s.vse)
           hi == Major(IF s.vei # NoVersion THEN s.vei ELSE s.vee)
           r == RowOf(e, n)
<1>1. r.statement = s /\ r.lo = lo /\ r.hi = hi
  BY DEF RowOf
<1> HIDE DEF s, v, r
<1>2. s \in Statement /\ v \in DOMAIN Rank
  BY DEF s, v
<1>3. /\ s.part = cpe.part /\ s.vendor \in {cpe.vendor, "*"} /\ s.product \in {cpe.product, "*"}
      /\ s.vsi # NoVersion => Rank[v] >= Rank[s.vsi]
      /\ s.vse # NoVersion => Rank[v] > Rank[s.vse]
      /\ s.vei # NoVersion => Rank[v] <= Rank[s.vei]
      /\ s.vee # NoVersion => Rank[v] < Rank[s.vee]
  BY DEF Affects, s, v
<1>4. Major(NoVersion) = -1
  BY DEF Major
<1>5. ASSUME NEW b \in DOMAIN Rank, Rank[b] <= Rank[v], Major(v) # -1, Major(b) # -1
      PROVE  Major(b) <= Major(v)
  BY <1>2, <1>5, RankIs, MajorsAgree
<1>6. ASSUME NEW b \in DOMAIN Rank, Rank[v] <= Rank[b], Major(v) # -1, Major(b) # -1
      PROVE  Major(v) <= Major(b)
  BY <1>2, <1>6, RankIs, MajorsAgree
<1>7. \A b \in {s.vsi, s.vse, s.vei, s.vee} :
        b # NoVersion => b \in DOMAIN Rank /\ Rank[b] \in Int /\ Rank[v] \in Int
  BY <1>2, StatementIs, RankIs DEF Bound
<1>8. Major(v) = -1 \/ lo = -1 \/ lo <= Major(v)
  <2>1. CASE s.vsi # NoVersion
    BY <1>3, <1>5, <1>7, <2>1
  <2>2. CASE s.vsi = NoVersion /\ s.vse # NoVersion
    <3>1. Rank[s.vse] <= Rank[v]
      BY <1>3, <1>7, <2>2
    <3> QED BY <1>5, <1>7, <2>2, <3>1
  <2>3. CASE s.vsi = NoVersion /\ s.vse = NoVersion
    BY <1>4, <2>3
  <2> QED BY <2>1, <2>2, <2>3
<1>9. Major(v) = -1 \/ hi = -1 \/ hi >= Major(v)
  <2>0. Major(v) \in Int
    BY <1>2, MajorIs DEF Bound
  <2>1. CASE s.vei # NoVersion
    BY <1>3, <1>6, <1>7, <2>1, MajorIs DEF Bound
  <2>2. CASE s.vei = NoVersion /\ s.vee # NoVersion
    <3>1. Rank[v] <= Rank[s.vee]
      BY <1>3, <1>7, <2>2
    <3> QED BY <1>6, <1>7, <2>2, <3>1, MajorIs DEF Bound
  <2>3. CASE s.vei = NoVersion /\ s.vee = NoVersion
    BY <1>4, <2>3
  <2> QED BY <2>1, <2>2, <2>3
<1>10. r \in applicability
  BY DEF r
<1> HIDE DEF lo, hi
<1>11. r \in Narrowed(cpe)
  BY <1>1, <1>3, <1>8, <1>9, <1>10 DEF Narrowed, v
<1> QED BY <1>11 DEF r

-------------------------------------------------------------------------------
(* The rows of a lookup.                                                      *)

LEMMA RowsFinite ==
  ASSUME CorpusInv
  PROVE  IsFiniteSet(applicability)
<1> DEFINE f == [c \in Held |-> RowsOf(fed[c][1])]
           T == {f[c] : c \in Held}
<1>1. IsFiniteSet(Held) /\ files \in Directory
  <2>1. Held \in SUBSET CVEs
    BY RowsAre
  <2> QED BY <2>1, MatchingAssumption, FS_Subset DEF CorpusInv, FilesOK
<1>2. ASSUME NEW c \in Held PROVE IsFiniteSet(f[c])
  <2> DEFINE e == fed[c][1]
             g == [n \in DOMAIN e.statements |-> RowOf(e, n)]
  <2>1. e.statements \in Seq(Statement)
    BY <1>1, RowsAre, EntryIs
  <2>2. IsFiniteSet(DOMAIN e.statements)
    BY <2>1, Elements, IndicesFinite
  <2>3. IsFiniteSet({g[n] : n \in DOMAIN e.statements})
    <3> HIDE DEF g, e
    <3> QED BY <2>2, ImageFinite
  <2> QED BY <2>3 DEF RowsOf
<1>3. IsFiniteSet(T)
  <2> HIDE DEF f
  <2> QED BY <1>1, ImageFinite
<1>4. \A t \in T : IsFiniteSet(t)
  <2> HIDE DEF f
  <2> QED BY <1>2
<1>5. applicability = UNION T
  <2>1. T = {RowsOf(fed[c][1]) : c \in Held}
    OBVIOUS
  <2> QED BY <2>1 DEF CorpusInv, TablesOK
<1> HIDE DEF T
<1>6. IsFiniteSet(UNION T)
  BY <1>3, <1>4, FS_UNION
<1> QED BY <1>5, <1>6

(* A lookup that is not truncated returns every row it was narrowed to.       *)
LEMMA NothingIsTruncated ==
  ASSUME CorpusInv, NEW cpe, ~Truncated(cpe)
  PROVE  CandidateRows(cpe) = Narrowed(cpe)
<1> DEFINE rows == Narrowed(cpe)
           Ahead(r) == {s \in rows : Precedes(cpe, s, r)}
<1>1. rows \in SUBSET applicability
  BY DEF Narrowed
<1>2. CandidateRows(cpe) = {r \in rows : Cardinality(Ahead(r)) <= Limit}
  BY DEF CandidateRows
<1> HIDE DEF rows
<1>3. IsFiniteSet(rows) /\ Cardinality(rows) \in Nat
  BY <1>1, RowsFinite, FS_Subset, FS_CardinalityType
<1>4. ASSUME NEW r \in rows PROVE Cardinality(Ahead(r)) <= Limit
  <2>1. Ahead(r) \in SUBSET rows
    OBVIOUS
  <2> HIDE DEF Ahead
  <2>2. Cardinality(Ahead(r)) <= Cardinality(rows) /\ Cardinality(Ahead(r)) \in Nat
    BY <1>3, <2>1, FS_Subset, FS_CardinalityType
  <2>3. Cardinality(rows) <= Limit /\ Limit \in Nat
    BY <1>3, MatchingAssumption DEF Truncated, rows
  <2> QED BY <1>3, <2>2, <2>3
<1> QED BY <1>2, <1>4 DEF rows

(* What a candidate has of its CVE: the rows that were returned, in an order. *)
LEMMA StatementsAre ==
  ASSUME CorpusInv, NEW cpe, NEW c \in CVEs
  PROVE  LET S == {r \in CandidateRows(cpe) : r.cve = c}
             f == Sorted(S, LAMBDA r, s : Precedes(cpe, r, s))
         IN Lists(f, S)
<1> DEFINE S == {r \in CandidateRows(cpe) : r.cve = c}
           f == Sorted(S, LAMBDA r, s : Precedes(cpe, r, s))
           R == {p \in S \X S : Precedes(cpe, p[1], p[2])}
<1>1. S \in SUBSET applicability /\ \A r \in S : r.cve = c
  BY DEF CandidateRows, Narrowed
<1>2. \A x, y \in S : <<x, y>> \in R <=> Precedes(cpe, x, y)
  OBVIOUS
<1>3. f = [k \in 1..Cardinality(S) |-> CHOOSE x \in S : Cardinality({y \in S : Precedes(cpe, y, x)}) = k - 1]
  <2> HIDE DEF S
  <2> QED BY DEF Sorted
<1> HIDE DEF S, R, f
<1>4. IsFiniteSet(S)
  BY <1>1, RowsFinite, FS_Subset
<1>5. \A r \in S : Order(cpe, r) \in 0..2
  BY DEF Order
<1>6. \A r \in S : /\ c \in Held /\ r.nth \in Nat
                   /\ r = RowOf(fed[c][1], r.nth)
  <2>1. ASSUME NEW r \in S
        PROVE  c \in Held /\ r.nth \in Nat /\ r = RowOf(fed[c][1], r.nth)
    <3>1. c \in Held /\ r \in RowsOf(fed[c][1])
      BY <1>1, RowsAre
    <3>2. PICK n \in DOMAIN fed[c][1].statements : r = RowOf(fed[c][1], n)
      BY <3>1 DEF RowsOf
    <3>3. fed[c][1].statements \in Seq(Statement)
      BY <3>1, RowsAre, EntryIs DEF CorpusInv, FilesOK
    <3>4. n \in Nat
      BY <3>3, Elements
    <3>5. r.nth = n
      BY <3>2 DEF RowOf
    <3> QED BY <3>1, <3>2, <3>4, <3>5
  <2> QED BY <2>1
<1>7. c \in Nat
  BY MatchingAssumption
<1>8. \A x, y \in S :
        Precedes(cpe, x, y) <=> \/ Order(cpe, x) < Order(cpe, y)
                                \/ Order(cpe, x) = Order(cpe, y) /\ x.nth < y.nth
  BY <1>1, <1>7 DEF Precedes
<1>9. StrictOrder(S, R)
  <2>1. Irreflexive(S, R)
    BY <1>2, <1>5, <1>6, <1>8 DEF Irreflexive
  <2>2. Transitive(S, R)
    <3>1. ASSUME NEW x \in S, NEW y \in S, NEW z \in S, <<x, y>> \in R, <<y, z>> \in R
          PROVE  <<x, z>> \in R
      <4>1. Order(cpe, x) \in 0..2 /\ Order(cpe, y) \in 0..2 /\ Order(cpe, z) \in 0..2
        BY <1>5
      <4>2. x.nth \in Nat /\ y.nth \in Nat /\ z.nth \in Nat
        BY <1>6
      <4>3. Precedes(cpe, x, y) /\ Precedes(cpe, y, z)
        BY <1>2, <3>1
      <4>4. Precedes(cpe, x, z)
        BY <1>8, <4>1, <4>2, <4>3
      <4> QED BY <1>2, <4>4
    <3> QED BY <3>1 DEF Transitive
  <2>3. ASSUME NEW x \in S, NEW y \in S, x # y PROVE <<x, y>> \in R \/ <<y, x>> \in R
    <3>1. x.nth # y.nth /\ x.nth \in Nat /\ y.nth \in Nat
      BY <1>6, <2>3
    <3>2. Order(cpe, x) \in 0..2 /\ Order(cpe, y) \in 0..2
      BY <1>5
    <3>3. Precedes(cpe, x, y) \/ Precedes(cpe, y, x)
      BY <1>8, <3>1, <3>2
    <3> QED BY <1>2, <3>3
  <2>4. Total(S, R)
    BY <2>3 DEF Total
  <2> QED BY <2>1, <2>2, <2>4 DEF StrictOrder
<1>10. Places(f, S, R)
  <2>1. \A x \in S : Preceding(S, R, x) = {y \in S : Precedes(cpe, y, x)}
    BY <1>2 DEF Preceding
  <2>2. ASSUME NEW k \in 1..Cardinality(S), NEW x \in S, Cardinality(Preceding(S, R, x)) = k - 1
        PROVE  f[k] \in S /\ Cardinality(Preceding(S, R, f[k])) = k - 1
    <3>1. Cardinality({y \in S : Precedes(cpe, y, x)}) = k - 1
      BY <2>1, <2>2
    <3>2. f[k] \in S /\ Cardinality({y \in S : Precedes(cpe, y, f[k])}) = k - 1
      BY <1>3, <3>1
    <3> QED BY <2>1, <3>2
  <2>3. f = [k \in 1..Cardinality(S) |-> f[k]]
    <3> DEFINE At(k) == CHOOSE x \in S : Cardinality({y \in S : Precedes(cpe, y, x)}) = k - 1
    <3>1. f = [k \in 1..Cardinality(S) |-> At(k)]
      BY <1>3
    <3> HIDE DEF At
    <3> QED BY <3>1
  <2> QED BY <2>2, <2>3 DEF Places
<1>11. Lists(f, S)
  BY <1>4, <1>9, <1>10, PlacesList
<1> QED BY <1>11 DEF f, S

(* The candidates of a CPE are the CVEs of the rows, each with its statements. *)
LEMMA FoundByCpe ==
  ASSUME CorpusInv, NEW cpe
  PROVE  \A e \in CandidatesForCpe(cpe) :
           /\ \E r \in CandidateRows(cpe) : r.cve = e.cve
           /\ e.statements # <<>>
           /\ e.statements \in Seq(Range(e.statements))
           /\ Range(e.statements) = {r.statement : r \in {q \in CandidateRows(cpe) : q.cve = e.cve}}
<1> DEFINE rows == CandidateRows(cpe)
           In(c) == {r \in rows : r.cve = c}
           Of(c) == Sorted(In(c), LAMBDA r, s : Precedes(cpe, r, s))
           St(c) == [k \in DOMAIN Of(c) |-> Of(c)[k].statement]
<1>1. CandidatesForCpe(cpe) = {Entry(c, St(c)) : c \in {r.cve : r \in rows}}
  BY DEF CandidatesForCpe
<1>2. rows \subseteq applicability
  BY DEF CandidateRows, Narrowed
<1>3. ASSUME NEW r \in rows
      PROVE  /\ St(r.cve) # <<>> /\ St(r.cve) \in Seq(Range(St(r.cve)))
             /\ Range(St(r.cve)) = {q.statement : q \in In(r.cve)}
  <2> DEFINE c == r.cve
  <2>1. c \in CVEs
    BY <1>2, RowsAre
  <2>2. Lists(Of(c), In(c))
    BY <2>1, StatementsAre
  <2>3. r \in In(c)
    OBVIOUS
  <2> HIDE DEF c, In, Of
  <2>4. /\ DOMAIN Of(c) = 1..Len(Of(c)) /\ Len(Of(c)) \in Nat
        /\ \A k \in 1..Len(Of(c)) : Of(c)[k] \in In(c)
        /\ \A q \in In(c) : \E k \in 1..Len(Of(c)) : Of(c)[k] = q
    BY <2>2 DEF Lists
  <2>5. /\ DOMAIN St(c) = 1..Len(Of(c))
        /\ \A k \in 1..Len(Of(c)) : St(c)[k] = Of(c)[k].statement
    BY <2>4
  <2>6. St(c) = [k \in 1..Len(Of(c)) |-> St(c)[k]]
    BY <2>4
  <2> HIDE DEF St
  <2>7. St(c) \in Seq(Range(St(c)))
    <3>1. \A k \in 1..Len(Of(c)) : St(c)[k] \in Range(St(c))
      BY <2>5 DEF Range
    <3> HIDE DEF Range
    <3> QED BY <2>4, <2>6, <3>1
  <2>8. Range(St(c)) = {q.statement : q \in In(c)}
    BY <2>4, <2>5 DEF Range
  <2>9. St(c) # <<>>
    <3>1. PICK k \in 1..Len(Of(c)) : Of(c)[k] = r
      BY <2>3, <2>4
    <3>2. k \in DOMAIN St(c)
      BY <2>5
    <3> QED BY <3>2
  <2> QED BY <2>8, <2>9, <2>7 DEF c
<1>4. \A c : Entry(c, St(c)).cve = c /\ Entry(c, St(c)).statements = St(c)
  BY DEF Entry
<1> HIDE DEF St, In
<1>5. ASSUME NEW e \in CandidatesForCpe(cpe)
      PROVE  /\ \E r \in rows : r.cve = e.cve
             /\ e.statements # <<>> /\ e.statements \in Seq(Range(e.statements))
             /\ Range(e.statements) = {q.statement : q \in In(e.cve)}
  <2>1. PICK r \in rows : e = Entry(r.cve, St(r.cve))
    BY <1>1
  <2> QED BY <1>3, <1>4, <2>1
<1> QED BY <1>5 DEF In

LEMMA EveryRowIsFound ==
  ASSUME CorpusInv, NEW cpe, NEW r \in CandidateRows(cpe)
  PROVE  \E e \in CandidatesForCpe(cpe) : e.cve = r.cve
<1> DEFINE rows == CandidateRows(cpe)
           Of(c) == Sorted({q \in rows : q.cve = c}, LAMBDA p, s : Precedes(cpe, p, s))
           St(c) == [k \in DOMAIN Of(c) |-> Of(c)[k].statement]
<1>1. CandidatesForCpe(cpe) = {Entry(c, St(c)) : c \in {q.cve : q \in rows}}
  BY DEF CandidatesForCpe
<1>2. Entry(r.cve, St(r.cve)).cve = r.cve
  BY DEF Entry
<1>3. r \in rows
  OBVIOUS
<1> HIDE DEF St, rows
<1> QED BY <1>1, <1>2, <1>3

-------------------------------------------------------------------------------
(* The leads of a lookup.                                                     *)

LEMMA LeadsOfPrecise ==
  ASSUME NEW fp \in Fingerprints, Precise(fp)
  PROVE  Leads(fp) = {e.cve : e \in {x \in Candidates(fp) : MethodOf(x, fp) # "no"}}
<1>1. ~(fp.confidence < MinConfidence) /\ fp.version # NoVersion
  <2>1. fp.confidence \in 0..100 /\ MinConfidence \in Nat
    BY FingerprintIs
  <2>2. fp.confidence >= MinConfidence /\ fp.version # NoVersion
    BY DEF Precise
  <2> QED BY <2>1, <2>2
<1>2. Matched(fp, FALSE) = {l \in {LeadOf(e, fp, FALSE) : e \in Candidates(fp)} : l.method # "no"}
  BY <1>1 DEF Matched, LeadOf
<1>3. \A e : LeadOf(e, fp, FALSE).method = MethodOf(e, fp) /\ LeadOf(e, fp, FALSE).cve = e.cve
  BY DEF LeadOf
<1>4. \A l : l \in Matched(fp, FALSE) <=>
              \E e \in Candidates(fp) : l = LeadOf(e, fp, FALSE) /\ l.method # "no"
  BY <1>2
<1>5. ASSUME NEW e \in Candidates(fp), MethodOf(e, fp) # "no"
      PROVE  e.cve \in Leads(fp)
  <2>1. LeadOf(e, fp, FALSE) \in Matched(fp, FALSE)
    BY <1>3, <1>4, <1>5
  <2> QED BY <1>3, <2>1 DEF Leads
<1>6. ASSUME NEW c \in Leads(fp)
      PROVE  \E e \in Candidates(fp) : c = e.cve /\ MethodOf(e, fp) # "no"
  <2>1. PICK l \in Matched(fp, FALSE) : c = l.cve
    BY DEF Leads
  <2>2. PICK e \in Candidates(fp) : l = LeadOf(e, fp, FALSE) /\ l.method # "no"
    BY <1>4
  <2> QED BY <1>3, <2>1, <2>2
<1> QED BY <1>5, <1>6

LEMMA MethodOfStatements ==
  ASSUME NEW fp, fp.cpe.part # "", NEW e, e.statements \in Seq(Statement), e.statements # <<>>
  PROVE  MethodOf(e, fp) # "no" <=> \E s \in Range(e.statements) : Method(s, fp.cpe) # "no"
<1> DEFINE T == {i \in DOMAIN e.statements : Method(e.statements[i], fp.cpe) # "no"}
<1>1. \A i \in DOMAIN e.statements : i \in Nat
  <2>1. PICK s \in Seq(Statement) : s = e.statements
    OBVIOUS
  <2>2. Len(s) \in Nat /\ DOMAIN s = 1..Len(s)
    BY Elements
  <2>3. \A i \in DOMAIN s : i \in Nat
    BY ONLY <2>2
  <2> QED BY <2>1, <2>3
<1>2. Observed(fp) = fp.cpe
  BY DEF Observed
<1>3. MethodOf(e, fp) = IF T = {} THEN "no" ELSE Method(e.statements[Min(T)], fp.cpe)
  BY <1>2 DEF MethodOf
<1>4. T # {} => Min(T) \in T
  <2>1. T \in SUBSET Nat
    BY <1>1
  <2> HIDE DEF T
  <2> QED BY <2>1, MinOf
<1>5. T # {} <=> \E s \in Range(e.statements) : Method(s, fp.cpe) # "no"
  BY DEF Range
<1> QED BY <1>3, <1>4, <1>5

(* The records of a corpus that affect what was observed are found, and no    *)
(* others.                                                                    *)
LEMMA CorpusIsExact ==
  ASSUME CorpusInv, ShortMajors, resolver = "corpus",
         NEW fp \in Fingerprints, Precise(fp), ~Truncated(fp.cpe)
  PROVE  Leads(fp) = {c \in CVEs : fed[c] # <<>> /\ AffectedBy(fed[c][1], fp.cpe)}
<1> DEFINE cpe == fp.cpe
<1>1. cpe.part # "" /\ cpe.version # NoVersion /\ cpe.version \in DOMAIN Rank
  <2>1. cpe.version \in Bound
    BY FingerprintIs DEF CPE
  <2> QED BY <2>1 DEF Precise, Bound
<1>2. CandidateRows(cpe) = Narrowed(cpe)
  BY NothingIsTruncated
<1>3. Candidates(fp) = CandidatesForCpe(cpe)
  BY <1>1 DEF Candidates
<1>4. ASSUME NEW r \in applicability
      PROVE  /\ r.cve \in Held /\ r.cve \in CVEs
             /\ r.statement \in Statement /\ r.statement \in Range(fed[r.cve][1].statements)
  <2>1. r.cve \in Held /\ r \in RowsOf(fed[r.cve][1]) /\ r.cve \in CVEs
    BY RowsAre
  <2>2. fed[r.cve][1].statements \in Seq(Statement)
    BY <2>1, RowsAre, EntryIs DEF CorpusInv, FilesOK
  <2>3. PICK n \in DOMAIN fed[r.cve][1].statements : r = RowOf(fed[r.cve][1], n)
    BY <2>1 DEF RowsOf
  <2>4. r.statement = fed[r.cve][1].statements[n]
    BY <2>3 DEF RowOf
  <2> QED BY <2>1, <2>2, <2>3, <2>4, Elements DEF Range
<1>5. ASSUME NEW e \in Candidates(fp)
      PROVE  MethodOf(e, fp) # "no" <=>
               \E r \in Narrowed(cpe) : r.cve = e.cve /\ Affects(r.statement, cpe)
  <2>1. /\ e.statements # <<>>
        /\ Range(e.statements) = {r.statement : r \in {q \in Narrowed(cpe) : q.cve = e.cve}}
    BY ZenonT(30), <1>2, <1>3, FoundByCpe
  <2>2. e.statements \in Seq(Statement)
    <3>1. \A s \in Range(e.statements) : s \in Statement
      BY <1>4, <2>1 DEF Narrowed
    <3>2. e.statements \in Seq(Range(e.statements))
      BY <1>3, FoundByCpe
    <3> QED BY <3>1, <3>2, SeqMonotonic
  <2>3. MethodOf(e, fp) # "no" <=> \E s \in Range(e.statements) : Method(s, cpe) # "no"
    BY <1>1, <2>1, <2>2, MethodOfStatements
  <2>4. \A r \in Narrowed(cpe) : Method(r.statement, cpe) # "no" <=> Affects(r.statement, cpe)
    <3>1. ASSUME NEW r \in Narrowed(cpe)
          PROVE  Method(r.statement, cpe) # "no" <=> Affects(r.statement, cpe)
      <4>1. r.statement \in Statement /\ r.statement.part = cpe.part
        BY <1>4 DEF Narrowed
      <4> QED BY <1>1, <4>1, MethodIsExact
    <3> QED BY <3>1
  <2> QED BY <2>1, <2>3, <2>4
<1>6. ASSUME NEW c
      PROVE  c \in Leads(fp) <=> \E r \in Narrowed(cpe) : r.cve = c /\ Affects(r.statement, cpe)
  <2>1. c \in Leads(fp) <=> \E e \in Candidates(fp) : e.cve = c /\ MethodOf(e, fp) # "no"
    BY LeadsOfPrecise
  <2>2. \A r \in Narrowed(cpe) : \E e \in Candidates(fp) : e.cve = r.cve
    BY <1>2, <1>3, EveryRowIsFound
  <2> QED BY <1>5, <2>1, <2>2
<1>7. ASSUME NEW c \in CVEs, fed[c] # <<>>, AffectedBy(fed[c][1], cpe)
      PROVE  \E r \in Narrowed(cpe) : r.cve = c /\ Affects(r.statement, cpe)
  <2> DEFINE e == fed[c][1]
  <2>1. c \in Held /\ e \in Entries /\ e.cve = c /\ e.statements \in Seq(Statement)
    BY <1>7, RowsAre, EntryIs DEF Held, CorpusInv, FilesOK
  <2>2. RowsOf(e) \subseteq applicability
    BY <2>1 DEF CorpusInv, TablesOK
  <2> HIDE DEF e
  <2>3. PICK n \in DOMAIN e.statements : Affects(e.statements[n], cpe)
    BY <1>7 DEF AffectedBy, Range, e
  <2>4. e.statements[n] \in Statement
    BY <2>1, Elements
  <2>5. RowOf(e, n) \in applicability
    BY <2>2 DEF RowsOf
  <2>6. RowOf(e, n) \in Narrowed(cpe)
    BY <1>1, <2>3, <2>4, <2>5, NarrowingKeeps
  <2>7. RowOf(e, n).cve = c /\ RowOf(e, n).statement = e.statements[n]
    BY <2>1 DEF RowOf
  <2> QED BY <2>3, <2>6, <2>7
<1>8. ASSUME NEW r \in Narrowed(cpe), Affects(r.statement, cpe)
      PROVE  r.cve \in CVEs /\ fed[r.cve] # <<>> /\ AffectedBy(fed[r.cve][1], cpe)
  <2>1. r \in applicability
    BY DEF Narrowed
  <2> QED BY <1>4, <1>8, <2>1 DEF Held, AffectedBy
<1> HIDE DEF cpe
<1>9. Leads(fp) = {c \in CVEs : fed[c] # <<>> /\ AffectedBy(fed[c][1], cpe)}
  BY <1>6, <1>7, <1>8
<1> QED BY <1>9 DEF cpe

(* So are the entries of the built-in reference.                              *)
LEMMA ReferenceIsExact ==
  ASSUME resolver = "static", NEW fp \in Fingerprints, Precise(fp)
  PROVE  Leads(fp) = {e.cve : e \in {x \in Range(Reference) :
                                      /\ fp.product \in Naming[x.product]
                                      /\ HasNumber(fp.version)
                                      /\ \A k \in DOMAIN x.constraints : Meets(fp, x.constraints[k])}}
<1>1. Candidates(fp) = Range(Reference)
  BY DEF Candidates
<1>2. fp.version # NoVersion /\ fp.version \in DOMAIN Rank
  BY FingerprintIs DEF Precise, Bound
<1>3. ASSUME NEW e \in Range(Reference)
      PROVE  MethodOf(e, fp) # "no" <=>
               /\ fp.product \in Naming[e.product]
               /\ HasNumber(fp.version)
               /\ \A k \in DOMAIN e.constraints : Meets(fp, e.constraints[k])
  <2>1. /\ e.statements = <<>> /\ e.product # ""
        /\ e.constraints \in Seq(Constraint) /\ e.constraints # <<>>
    BY ReferenceIs DEF Declared
  <2>2. MethodOf(e, fp) # "no" <=> ProductMatches(e, fp)
    BY <1>2, <2>1 DEF MethodOf
  <2>3. ProductMatches(e, fp) <=>
          /\ fp.product \in Naming[e.product]
          /\ \A k \in DOMAIN e.constraints :
               HasNumber(fp.version) /\ Satisfies(fp.version, e.constraints[k][1], e.constraints[k][2])
    BY <1>2, <2>1 DEF ProductMatches
  <2>4. DOMAIN e.constraints # {} /\ \A k \in DOMAIN e.constraints : e.constraints[k] \in Constraint
    <3>1. /\ DOMAIN e.constraints = 1..Len(e.constraints)
          /\ \A k \in DOMAIN e.constraints : e.constraints[k] \in Constraint
      BY <2>1, Elements
    <3>2. Len(e.constraints) \in Nat \ {0}
      BY <2>1, EmptySeq
    <3>3. 1 \in 1..Len(e.constraints)
      BY <3>2
    <3> QED BY <3>1, <3>3
  <2>5. ASSUME NEW k \in DOMAIN e.constraints
        PROVE  Satisfies(fp.version, e.constraints[k][1], e.constraints[k][2]) <=>
                 Meets(fp, e.constraints[k])
    <3>1. e.constraints[k] \in Constraint
      BY <2>4
    <3>2. /\ e.constraints[k][1] \in {"<", "<=", ">", ">="}
          /\ e.constraints[k][2] \in DOMAIN Rank
      BY <3>1 DEF Constraint
    <3>3. /\ Less(fp.version, e.constraints[k][2]) <=> Rank[fp.version] < Rank[e.constraints[k][2]]
          /\ Less(e.constraints[k][2], fp.version) <=> Rank[e.constraints[k][2]] < Rank[fp.version]
          /\ Rank[fp.version] \in Int /\ Rank[e.constraints[k][2]] \in Int
      BY <1>2, <3>2, RankIs
    <3> QED BY <3>2, <3>3 DEF Satisfies, Meets
  <2> QED BY <2>2, <2>3, <2>4, <2>5
<1>4. Leads(fp) = {e.cve : e \in {x \in Range(Reference) : MethodOf(x, fp) # "no"}}
  BY <1>1, LeadsOfPrecise
<1> QED BY <1>3, <1>4

LEMMA LookupIsExactStep ==
  ASSUME CorpusInv, ShortMajors
  PROVE  LookupIsExact
BY CorpusIsExact, ReferenceIsExact DEF LookupIsExact

(* LookupIsExact for every set of records, versions and fingerprints, every   *)
(* order of fetches, builds and interruptions and every batch size, as long   *)
(* as no leading number of a version is cut (vulndb.py:652): the narrowing,   *)
(* the order, the grouping and the replacement of rows change no answer.      *)
THEOREM LookupIsExactAlways ==
  ASSUME ShortMajors
  PROVE  SpecMatching => []LookupIsExact
BY CorpusInvariance, LookupIsExactStep, PTL

LEMMA NoLeadsIsExplainedStep ==
  ASSUME CorpusInv, ShortMajors
  PROVE  NoLeadsIsExplained
<1> DEFINE Due(p) == /\ day - files[p[1]].at > StaleAfter
                     /\ \A q \in Usable : EntryAt(q).cve = EntryAt(p).cve => q = p
<1> SUFFICES ASSUME resolver = "corpus", Describe = "fresh", NEW p \in Usable, Due(p),
                    NEW fp \in Fingerprints, Precise(fp), ~Truncated(fp.cpe),
                    AffectedBy(EntryAt(p), fp.cpe)
             PROVE  EntryAt(p).cve \in Leads(fp)
  BY DEF NoLeadsIsExplained
<1> DEFINE c == EntryAt(p).cve
<1>1. /\ files \in Directory /\ day \in Nat /\ fetched_at \in Nat /\ StaleAfter \in Nat
      /\ files[p[1]].at \in Nat
  <2>1. /\ files \in Directory /\ day \in Nat /\ fetched_at \in Nat /\ StaleAfter \in Nat
    BY MatchingAssumption DEF CorpusInv, FilesOK
  <2>2. files[p[1]] \in [at : Nat \ {0}, records : Files]
    BY <2>1, UsableIs, Elements DEF Directory
  <2> QED BY <2>1, <2>2
<1>2. EntryAt(p) \in Entries /\ c \in CVEs
  BY <1>1, EntryIs DEF Entries
<1>3. fed[c] # <<>>
  <2>1. CASE \A d \in CVEs : ~cve[d].in
    BY <2>1 DEF Describe
  <2>2. CASE (\E d \in CVEs : cve[d].in) /\ fetched_at = 0
    BY <2>2 DEF Describe
  <2>3. CASE (\E d \in CVEs : cve[d].in) /\ fetched_at # 0 /\ day - fetched_at > StaleAfter
    BY <2>3 DEF Describe
  <2>4. CASE fetched_at # 0 /\ ~(day - fetched_at > StaleAfter)
    <3>1. files[p[1]].at <= fetched_at
      BY <1>1, <2>4
    <3> QED BY <2>4, <3>1 DEF CorpusInv, BuiltOK
  <2> QED BY <2>1, <2>2, <2>3, <2>4
<1>4. fed[c][1] = EntryAt(p)
  <2>1. PICK e \in Entries : fed[c] = <<e>> /\ e.cve = c
    BY <1>2, <1>3 DEF CorpusInv, FedOK
  <2>2. PICK q \in Usable : e = EntryAt(q)
    BY DEF Entries
  <2>3. q = p
    BY <2>1, <2>2
  <2> QED BY <2>1, <2>2, <2>3
<1> HIDE DEF c
<1>5. c \in Leads(fp)
  BY <1>2, <1>3, <1>4, CorpusIsExact
<1> QED BY <1>5 DEF c

(* NoLeadsIsExplained for every directory and refresh window, on the same     *)
(* condition: what describe() calls fresh has every record that is due.       *)
THEOREM NoLeadsIsExplainedAlways ==
  ASSUME ShortMajors
  PROVE  SpecMatching => []NoLeadsIsExplained
BY CorpusInvariance, NoLeadsIsExplainedStep, PTL

LEMMA NeverTooStrictStep ==
  ASSUME CorpusInv, ShortMajors
  PROVE  NeverTooStrict
<1> SUFFICES ASSUME NEW fp \in Fingerprints, NEW r \in applicability,
                    r.statement.part = fp.cpe.part, Method(r.statement, fp.cpe) # "no"
             PROVE  r \in Narrowed(fp.cpe)
  BY DEF NeverTooStrict
<1>1. CASE fp.cpe.version = NoVersion
  <2>1. Major(fp.cpe.version) = -1
    BY <1>1 DEF Major
  <2>2. r.statement.vendor \in {fp.cpe.vendor, "*"} /\ r.statement.product \in {fp.cpe.product, "*"}
    BY DEF Method, AttributeMatches
  <2> QED BY <2>1, <2>2 DEF Narrowed
<1>2. CASE fp.cpe.version # NoVersion
  <2>1. fp.cpe.version \in DOMAIN Rank
    BY <1>2, FingerprintIs DEF CPE, Bound
  <2> DEFINE e == fed[r.cve][1]
  <2>2. r \in RowsOf(e) /\ e.statements \in Seq(Statement)
    BY RowsAre, EntryIs DEF CorpusInv, FilesOK
  <2> HIDE DEF e
  <2>3. PICK n \in DOMAIN e.statements : r = RowOf(e, n)
    BY <2>2 DEF RowsOf
  <2>4. r.statement = e.statements[n] /\ e.statements[n] \in Statement
    BY <2>2, <2>3, Elements DEF RowOf
  <2>5. Affects(e.statements[n], fp.cpe)
    BY <1>2, <2>1, <2>4, MethodIsExact
  <2> QED BY <1>2, <2>1, <2>3, <2>4, <2>5, NarrowingKeeps
<1> QED BY <1>1, <1>2

(* NeverTooStrict, which vulndb.py:639 says of the narrowing, as long as no   *)
(* leading number is cut (vulndb.py:652).                                     *)
THEOREM NarrowingIsNeverTooStrict ==
  ASSUME ShortMajors
  PROVE  SpecMatching => []NeverTooStrict
BY CorpusInvariance, NeverTooStrictStep, PTL

=============================================================================
