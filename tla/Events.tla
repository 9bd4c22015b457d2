-------------------------------- MODULE Events --------------------------------
(***************************************************************************)
(* reconkg/events.py: the fan-out of store changes to analyst windows,     *)
(* with the event log it replays (store.py) and the WebSocket route that   *)
(* opens and closes windows (app.py).                                      *)
(*                                                                         *)
(* The store awaits its subscribers one after the other, and broadcast()   *)
(* never suspends: an event reaches every queue in the step that logs it.  *)
(* connect() suspends in accept() only, before it registers the session.   *)
(* A cancelled pump takes no further step, so stop() is part of the step   *)
(* that pops the session.                                                  *)
(***************************************************************************)
EXTENDS Integers, Sequences, FiniteSets

CONSTANTS
  Windows,     (* WebSocket connections, each opened once                    *)
  Ids,         (* client ids, which windows may share                        *)
  Targets,
  Wanted,      (* Windows -> SUBSET Targets: target filter and scope         *)
  QueueMax,    (* QUEUE_MAX                                                  *)
  Replay,      (* REPLAY_ON_CONNECT, less than QUEUE_MAX                     *)
  MaxEvents    (* bound: events logged                                       *)

ASSUME EventsAssumption ==
  /\ Wanted \in [Windows -> SUBSET Targets]
  /\ Replay \in Nat /\ QueueMax \in Nat /\ Replay < QueueMax
  /\ MaxEvents \in Nat
  /\ "none" \notin Windows \cup Ids

VARIABLES
  log,         (* TargetStore.event_log: the target of each event            *)
  sessions,    (* ConnectionManager.sessions                                 *)
  window,      (* the handler of each window: its progress, its client id,   *)
               (* and whether its peer is gone                               *)
  queue,       (* ClientSession.queue                                        *)
  dropped,     (* ClientSession.dropped                                      *)
  pump,        (* the writer task of each session                            *)
  issued,      (* no state of the program: messages offered to each session, *)
  since,       (* the events logged when its replay began                    *)
  newest       (* and the last window to connect under each id               *)

vars == <<log, sessions, window, queue, dropped, pump, issued, since, newest>>

(* A message is the serial-th offered to its session, and about an event; the *)
(* hello message is about none of them.                                       *)
Hello == 0
Message == [serial : Nat, event : Nat]

Handler ==
  [st : {"new", "accepting", "open", "closed"}, id : Ids \cup {"none"}, gone : BOOLEAN]

(* What a pump is doing, the last message it took, and the _dropped_before    *)
(* it put on it.                                                              *)
Pump == [st : {"none", "idle", "sending", "failed", "stopped"}, serial : Nat, gap : Nat]

TypeOK ==
  /\ log \in Seq(Targets) /\ Len(log) <= MaxEvents
  /\ sessions \in [Ids -> Windows \cup {"none"}]
  /\ window \in [Windows -> Handler]
  /\ queue \in [Windows -> Seq(Message)] /\ \A w \in Windows : Len(queue[w]) <= QueueMax
  /\ dropped \in [Windows -> Nat]
  /\ pump \in [Windows -> Pump]
  /\ issued \in [Windows -> Nat]
  /\ since \in [Windows -> 0..MaxEvents]
  /\ newest \in [Ids -> Windows \cup {"none"}]

Init ==
  /\ log = <<>>
  /\ sessions = [i \in Ids |-> "none"]
  /\ window = [w \in Windows |-> [st |-> "new", id |-> "none", gone |-> FALSE]]
  /\ queue = [w \in Windows |-> <<>>]
  /\ dropped = [w \in Windows |-> 0]
  /\ pump = [w \in Windows |-> [st |-> "none", serial |-> 0, gap |-> 0]]
  /\ issued = [w \in Windows |-> 0]
  /\ since = [w \in Windows |-> 0]
  /\ newest = [i \in Ids |-> "none"]

Registered(w) == window[w].id # "none" /\ sessions[window[w].id] = w

(* Mutant: a full queue grows. *)
Offered_Unbounded(w, event) == Append(queue[w], [serial |-> issued[w] + 1, event |-> event])

(* Mutant: a full queue makes room and does not count it. *)
DroppedBy_Silent(w) == dropped[w]

(* offer(): a full queue gives up its oldest message. *)
DroppedBy(w) == IF Len(queue[w]) = QueueMax THEN dropped[w] + 1 ELSE dropped[w]
Offered(w, event) ==
  Append(IF Len(queue[w]) = QueueMax THEN Tail(queue[w]) ELSE queue[w],
         [serial |-> issued[w] + 1, event |-> event])

(* Mutant: broadcast() looks at no filter. *)
Audience_All(t) == {w \in Windows : Registered(w)}

Audience(t) == {w \in Windows : Registered(w) /\ t \in Wanted[w]}

(* TargetStore.emit() and the subscription of the manager. *)
Emit(t) ==
  LET event == Len(log) + 1 IN
  /\ event <= MaxEvents
  /\ log' = Append(log, t)
  /\ queue' = [w \in Windows |-> IF w \in Audience(t) THEN Offered(w, event) ELSE queue[w]]
  /\ dropped' = [w \in Windows |-> IF w \in Audience(t) THEN DroppedBy(w) ELSE dropped[w]]
  /\ issued' = [w \in Windows |-> IF w \in Audience(t) THEN issued[w] + 1 ELSE issued[w]]
  /\ UNCHANGED <<sessions, window, pump, since, newest>>

(* A window connects under an id: its ticket is good, accept() is awaited. *)
Open(w, i) ==
  /\ window[w].st = "new"
  /\ window' = [window EXCEPT ![w] = [st |-> "accepting", id |-> i, gone |-> FALSE]]
  /\ UNCHANGED <<log, sessions, queue, dropped, pump, issued, since, newest>>

(* The first event of the replay is the one after this. *)
ReplayFrom == IF Len(log) > Replay THEN Len(log) - Replay ELSE 0

(* Mutant: what is replayed is what came before accept(). *)
Recent_Stale(w) == {n \in (ReplayFrom + 1)..(Len(log) - 1) : log[n] \in Wanted[w]}

(* The events of the replay that the window wants, and the i-th of them. *)
Recent(w) == {n \in (ReplayFrom + 1)..Len(log) : log[n] \in Wanted[w]}
Nth(i, S) == CHOOSE n \in S : Cardinality({m \in S : m < n}) = i - 1

(* The queue after connect(): the hello message and the replay, oldest first. *)
Greeting(w) ==
  [i \in 1..(Cardinality(Recent(w)) + 1) |->
     [serial |-> i, event |-> IF i = 1 THEN Hello ELSE Nth(i - 1, Recent(w))]]

(* accept() returns: the session replaces any other of its id. *)
Accept(w) ==
  /\ window[w].st = "accepting"
  /\ window' = [window EXCEPT ![w].st = "open"]
  /\ sessions' = [sessions EXCEPT ![window[w].id] = w]
  /\ newest' = [newest EXCEPT ![window[w].id] = w]
  /\ pump' = [pump EXCEPT ![w].st = "idle"]
  /\ queue' = [queue EXCEPT ![w] = Greeting(w)]
  /\ issued' = [issued EXCEPT ![w] = Cardinality(Recent(w)) + 1]
  /\ since' = [since EXCEPT ![w] = ReplayFrom]
  /\ UNCHANGED <<log, dropped>>

(* The pump takes a message, and marks on it what was dropped before it. *)
Take(w) ==
  /\ pump[w].st = "idle"
  /\ queue[w] # <<>>
  /\ pump' = [pump EXCEPT ![w] =
                [st |-> "sending", serial |-> Head(queue[w]).serial, gap |-> dropped[w]]]
  /\ queue' = [queue EXCEPT ![w] = Tail(@)]
  /\ dropped' = [dropped EXCEPT ![w] = 0]
  /\ UNCHANGED <<log, sessions, window, issued, since, newest>>

(* Mutant: the pump stops after a message. *)
Sent_Once(w) ==
  /\ pump[w].st = "sending"
  /\ pump' = [pump EXCEPT ![w].st = "stopped"]
  /\ UNCHANGED <<log, sessions, window, queue, dropped, issued, since, newest>>

Sent(w) ==
  /\ pump[w].st = "sending"
  /\ pump' = [pump EXCEPT ![w].st = "idle"]
  /\ UNCHANGED <<log, sessions, window, queue, dropped, issued, since, newest>>

(* The peer goes away; from then on a write may fail, which ends the pump. *)
Vanish(w) ==
  /\ window[w].st \in {"accepting", "open"} /\ ~window[w].gone
  /\ window' = [window EXCEPT ![w].gone = TRUE]
  /\ UNCHANGED <<log, sessions, queue, dropped, pump, issued, since, newest>>

SendFails(w) ==
  /\ pump[w].st = "sending"
  /\ window[w].gone
  /\ pump' = [pump EXCEPT ![w].st = "failed"]
  /\ UNCHANGED <<log, sessions, window, queue, dropped, issued, since, newest>>

(* accept() raises: the handler ends before there is a session. *)
Refused(w) ==
  /\ window[w].st = "accepting"
  /\ window[w].gone
  /\ window' = [window EXCEPT ![w].st = "closed"]
  /\ UNCHANGED <<log, sessions, queue, dropped, pump, issued, since, newest>>

(* The handler of a window notices and disconnects its id: the session that  *)
(* is registered under it, whosever it is, is popped and its pump stopped.   *)
Disconnect(w) ==
  LET popped == sessions[window[w].id] IN
  /\ window[w].st = "open"
  /\ window[w].gone
  /\ window' = [window EXCEPT ![w].st = "closed"]
  /\ sessions' = [sessions EXCEPT ![window[w].id] = "none"]
  /\ pump' = [v \in Windows |->
                IF v = popped /\ pump[v].st \in {"idle", "sending"}
                  THEN [pump[v] EXCEPT !.st = "stopped"] ELSE pump[v]]
  /\ UNCHANGED <<log, queue, dropped, issued, since, newest>>

Next ==
  \/ \E t \in Targets : Emit(t)
  \/ \E w \in Windows, i \in Ids : Open(w, i)
  \/ \E w \in Windows :
       Accept(w) \/ Take(w) \/ Sent(w) \/ Vanish(w) \/ SendFails(w) \/ Refused(w)
         \/ Disconnect(w)

Spec == Init /\ [][Next]_vars

(* The pump of a window whose peer is there gets its turn, and its writes end. *)
Fairness == \A w \in Windows : WF_vars(Take(w)) /\ WF_vars(Sent(w))

FairSpec == Spec /\ Fairness

-----------------------------------------------------------------------------
(* Properties. *)

(* A window is told exactly how many messages it missed: the message a pump  *)
(* takes follows the one before by as many as _dropped_before says.          *)
GapsAreMarked ==
  [][\A w \in Windows :
       pump'[w].serial # pump[w].serial => pump'[w].serial = pump[w].serial + pump'[w].gap + 1]_vars

(* No event falls between the replay and the live stream, or comes twice:    *)
(* a registered session was offered its hello and each event it wants since  *)
(* its replay began, and what it has not taken is queued or counted.         *)
EveryEventOffered ==
  \A w \in Windows : Registered(w) =>
    /\ issued[w] = 1 + Cardinality({n \in (since[w] + 1)..Len(log) : log[n] \in Wanted[w]})
    /\ issued[w] = pump[w].serial + dropped[w] + Len(queue[w])

(* Events are queued in the order they happened in, and only for windows     *)
(* that may see them, replayed or live.                                      *)
OrderedAndInScope ==
  \A w \in Windows : \A i \in DOMAIN queue[w] :
    LET event == queue[w][i].event IN
    /\ event # Hello => log[event] \in Wanted[w]
    /\ \A j \in DOMAIN queue[w] : i < j => event < queue[w][j].event

(* A window that stays catches up: its queue drains.                         *)
CatchesUp ==
  \A w \in Windows :
    Registered(w) ~> (queue[w] = <<>> \/ window[w].gone \/ ~Registered(w))

(* "Tracks connected analyst windows": the window that connected last under  *)
(* an id is the one its events go to, for as long as it is open.             *)
NewestWindowServed ==
  \A i \in Ids : newest[i] # "none" /\ window[newest[i]].st = "open" => sessions[i] = newest[i]
=============================================================================
