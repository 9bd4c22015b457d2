--------------------------------- MODULE Gate ---------------------------------
(***************************************************************************)
(* What a request passes before it touches anything: credentials, roles,   *)
(* scopes and WebSocket tickets (reconkg/auth.py), token buckets           *)
(* (ratelimit.py) and the caps of the routes (app.py).                     *)
(*                                                                         *)
(* A route never suspends between its checks and what it changes, so each  *)
(* is one step; a scan is two, since the engine runs in between. A request *)
(* that is refused by its credential, role or scope changes nothing, and   *)
(* is no step. Clocks are one: a tick is the time in which one token is    *)
(* refilled, and it is what tickets and credentials expire by.             *)
(***************************************************************************)
EXTENDS Integers, Sequences, FiniteSets

CONSTANTS
  Tokens,        (* bearer tokens                                            *)
  Names,         (* names of principals; one may have several tokens         *)
  Addresses,
  Patterns,      (* patterns of scopes                                       *)
  Covers,        (* Patterns -> SUBSET Addresses; {} if it cannot be parsed  *)
  Settings,      (* values RECONKG_TOKENS may have: sequences of entries     *)
  Never,         (* the expiry of a credential without one                   *)
  TTL,           (* TICKET_TTL_SECONDS                                       *)
  OwnTickets,    (* MAX_TICKETS_PER_PRINCIPAL                                *)
  AllTickets,    (* MAX_OUTSTANDING_TICKETS                                  *)
  Capacity,      (* of a bucket                                              *)
  ScanCost,
  MaxBuckets,    (* max_principals                                           *)
  MaxTargets,
  MaxReports,
  MaxClock,      (* bound: ticks                                             *)
  MaxRequests    (* bound: requests that get past their credentials          *)

Roles == <<"viewer", "scanner", "operator", "admin">>

(* An entry of RECONKG_TOKENS. role is "" in the two-field form; short is     *)
(* true of a token below MIN_TOKEN_LEN.                                       *)
Entry ==
  [name : Names, token : Tokens, role : {"", "viewer", "scanner", "operator", "admin", "?"},
   scope : SUBSET Patterns, expires : Nat, short : BOOLEAN]

ASSUME GateAssumption ==
  /\ Covers \in [Patterns -> SUBSET Addresses]
  /\ Settings \subseteq Seq(Entry)
  /\ {TTL, OwnTickets, AllTickets, Capacity, ScanCost, MaxBuckets, MaxTargets, MaxReports,
      MaxClock, MaxRequests, Never} \subseteq Nat
  /\ OwnTickets > 0 /\ MaxBuckets > 0 /\ MaxReports > 0
  /\ Never > MaxClock
  /\ "all" \notin Addresses

VARIABLES
  entries,       (* RECONKG_TOKENS                                           *)
  running,       (* "starting", "up", or "refused" by load_principals()      *)
  clock,
  tickets,       (* Authenticator._tickets                                   *)
  minted,        (* serial of the last ticket                                *)
  bucket,        (* RateLimiter._buckets                                     *)
  hosts,         (* the targets of the store                                 *)
  events,        (* how many events of its log name each target              *)
  scanning,      (* how many scan routes await the engine, for each target   *)
  reports,       (* keys of AppState.reports, in the order of the dict       *)
  sockets,       (* handshakes that were accepted, in order                  *)
  requests       (* how many requests there were                             *)

vars == <<entries, running, clock, tickets, minted, bucket, hosts, events, scanning, reports,
          sockets, requests>>

(* A ticket's serial stands for its random text.                              *)
Ticket == [serial : Nat, token : Tokens, expires : Nat]

(* created and admitted are no state of the program: when the bucket was made *)
(* and what was taken from it since.                                          *)
Bucket == [on : BOOLEAN, tokens : Nat, updated : Nat, created : Nat, admitted : Nat]
NoBucket == [on |-> FALSE, tokens |-> 0, updated |-> 0, created |-> 0, admitted |-> 0]

(* ticket is 0 when the handshake carried a bearer header.                    *)
Socket == [token : Tokens, ticket : Nat, issued : Nat, opened : Nat, target : Addresses \cup {"all"}]

Init ==
  /\ entries \in Settings
  /\ running = "starting"
  /\ clock = 0
  /\ tickets = {}
  /\ minted = 0
  /\ bucket = [n \in Names |-> NoBucket]
  /\ hosts = {}
  /\ events = [a \in Addresses |-> 0]
  /\ scanning = [a \in Addresses |-> 0]
  /\ reports = <<>>
  /\ sockets = <<>>
  /\ requests = 0

-------------------------------------------------------------------------------
(* Credentials.                                                               *)

(* load_principals(): one bad entry refuses them all.                         *)
Loads(es) ==
  /\ es # <<>>
  /\ \A i \in 1..Len(es) : es[i].role # "?" /\ ~es[i].short
  /\ \A i, j \in 1..Len(es) : es[i].token = es[j].token => i = j

Principals == {entries[i] : i \in 1..Len(entries)}
PrincipalOf(token) == CHOOSE p \in Principals : p.token = token

(* Two fields grant operator. *)
RoleOf(p) == IF p.role = "" THEN "operator" ELSE p.role
Level(role) == CHOOSE l \in 1..4 : Roles[l] = role

(* Principal.may_touch(): no scope at all is every address, a scope none of   *)
(* whose patterns can be parsed is none.                                      *)
MayTouch(p, a) == p.scope = {} \/ \E s \in p.scope : a \in Covers[s]

(* Authenticator.resolve(): a token that is known and has not expired.        *)
Resolves(token) ==
  /\ running = "up"
  /\ \E p \in Principals : p.token = token /\ clock < p.expires

(* require_role() and require_scope(). *)
Permitted(token, role) ==
  /\ Resolves(token)
  /\ Level(RoleOf(PrincipalOf(token))) >= Level(role)
PermittedOn(token, role, a) == Permitted(token, role) /\ MayTouch(PrincipalOf(token), a)

Configure ==
  /\ running = "starting"
  /\ running' = IF Loads(entries) THEN "up" ELSE "refused"
  /\ UNCHANGED <<entries, clock, tickets, minted, bucket, hosts, events, scanning, reports,
                 sockets, requests>>

Tick ==
  /\ running = "up"
  /\ clock < MaxClock
  /\ clock' = clock + 1
  /\ UNCHANGED <<entries, running, tickets, minted, bucket, hosts, events, scanning, reports,
                 sockets, requests>>

Request == requests < MaxRequests /\ requests' = requests + 1

-------------------------------------------------------------------------------
(* Token buckets.                                                             *)

Held == {n \in Names : bucket[n].on}

Lesser(x, y) == IF x < y THEN x ELSE y

(* _evict() drops the least recently used half, at least one.                 *)
Half(k) == IF k < 2 THEN 1 ELSE k \div 2
Victims(D) ==
  /\ D \subseteq Held /\ Cardinality(D) = Half(Cardinality(Held))
  /\ \A d \in D, s \in Held \ D : bucket[d].updated <= bucket[s].updated

(* The buckets check() finds or makes room among.                             *)
Dropped(n, D) ==
  IF ~bucket[n].on /\ Cardinality(Held) >= MaxBuckets THEN Victims(D) ELSE D = {}

Fresh == [on |-> TRUE, tokens |-> Capacity, updated |-> clock, created |-> clock, admitted |-> 0]
Current(n) == IF bucket[n].on THEN bucket[n] ELSE Fresh

(* Mutant: the time of the last refill is kept when the request is refused.   *)
Refilled_Twice(b, cost) ==
  LET level == Lesser(Capacity, b.tokens + (clock - b.updated)) IN
  IF level < cost
  THEN [b EXCEPT !.tokens = level]
  ELSE [b EXCEPT !.updated = clock, !.tokens = level - cost, !.admitted = @ + cost]

(* Bucket.take(). *)
Refilled(b, cost) ==
  LET level == Lesser(Capacity, b.tokens + (clock - b.updated)) IN
  IF level < cost
  THEN [b EXCEPT !.updated = clock, !.tokens = level]
  ELSE [b EXCEPT !.updated = clock, !.tokens = level - cost, !.admitted = @ + cost]

Admits(n, cost) ==
  Lesser(Capacity, Current(n).tokens + (clock - Current(n).updated)) >= cost

(* RateLimiter.check(): it charges before the route looks at anything else.   *)
Check(n, cost) ==
  \E D \in SUBSET Names :
    /\ Dropped(n, D)
    /\ bucket' = [m \in Names |-> IF m = n THEN Refilled(Current(n), cost)
                                  ELSE IF m \in D THEN NoBucket ELSE bucket[m]]

-------------------------------------------------------------------------------
(* Routes that write.                                                         *)

(* create_target(): a known host is observed again, which is an event too,    *)
(* and is refused with all others once the cap is reached.                    *)
CreateTarget(token, a) ==
  /\ PermittedOn(token, "operator", a)
  /\ LET n == PrincipalOf(token).name IN
     /\ Check(n, 1)
     /\ IF Admits(n, 1) /\ Cardinality(hosts) < MaxTargets
        THEN /\ hosts' = hosts \cup {a}
             /\ events' = [events EXCEPT ![a] = @ + 1]
        ELSE UNCHANGED <<hosts, events>>
  /\ Request
  /\ UNCHANGED <<entries, running, clock, tickets, minted, scanning, reports, sockets>>

(* put_evidence(): what it stores is modelled in Engine.                      *)
PutEvidence(token, a) ==
  /\ PermittedOn(token, "scanner", a)
  /\ Check(PrincipalOf(token).name, 1)
  /\ Request
  /\ UNCHANGED <<entries, running, clock, tickets, minted, hosts, events, scanning, reports, sockets>>

(* scan(), up to the engine. *)
Scan(token, a) ==
  /\ PermittedOn(token, "scanner", a)
  /\ LET n == PrincipalOf(token).name IN
     /\ Check(n, ScanCost)
     /\ scanning' = [scanning EXCEPT ![a] = IF Admits(n, ScanCost) /\ a \in hosts THEN @ + 1 ELSE @]
  /\ Request
  /\ UNCHANGED <<entries, running, clock, tickets, minted, hosts, events, reports, sockets>>

Listed(a) == \E i \in 1..Len(reports) : reports[i] = a

(* Mutant: the latest entry of the dict makes room. *)
Remembered_Latest(a) ==
  LET all == IF Listed(a) THEN reports ELSE Append(reports, a) IN
  IF Len(all) > MaxReports THEN SubSeq(all, 1, MaxReports) ELSE all

(* AppState.remember(): a key that is there keeps its place.                  *)
Remembered(a) ==
  LET all == IF Listed(a) THEN reports ELSE Append(reports, a) IN
  IF Len(all) > MaxReports THEN Tail(all) ELSE all

(* scan(), when the engine has its report. *)
ScanDone(a) ==
  /\ scanning[a] > 0
  /\ scanning' = [scanning EXCEPT ![a] = @ - 1]
  /\ events' = [events EXCEPT ![a] = @ + 1]
  /\ reports' = Remembered(a)
  /\ UNCHANGED <<entries, running, clock, tickets, minted, bucket, hosts, sockets, requests>>

-------------------------------------------------------------------------------
(* WebSocket tickets.                                                         *)

(* _expire_tickets(): the tickets that stay. *)
Live == {t \in tickets : t.expires >= clock}

OwnerOf(t) == PrincipalOf(t.token).name
Own(n) == {t \in Live : OwnerOf(t) = n}

(* Mutant: the oldest ticket of the table makes room, whose ever it is.       *)
Spared_Anyones(n) ==
  IF Cardinality(Own(n)) < OwnTickets THEN Live
  ELSE {t \in Live : \E o \in Live : o.serial < t.serial}

(* Mutant: one too many is kept. *)
Spared_Loose(n) ==
  {t \in Live : OwnerOf(t) = n => Cardinality({o \in Own(n) : o.serial > t.serial}) < OwnTickets}

(* issue_ticket() evicts the principal's own oldest ones at its allowance;    *)
(* serials grow with the expiries it compares.                                *)
Spared(n) ==
  {t \in Live : OwnerOf(t) = n => Cardinality({o \in Own(n) : o.serial > t.serial}) < OwnTickets - 1}

(* issue_ticket(): a table full of other principals' tickets refuses.         *)
IssueTicket(token) ==
  /\ Permitted(token, "viewer")
  /\ LET kept == Spared(PrincipalOf(token).name) IN
     IF Cardinality(kept) >= AllTickets
     THEN tickets' = kept /\ UNCHANGED minted
     ELSE /\ tickets' = kept \cup {[serial |-> minted + 1, token |-> token, expires |-> clock + TTL]}
          /\ minted' = minted + 1
  /\ Request
  /\ UNCHANGED <<entries, running, clock, bucket, hosts, events, scanning, reports, sockets>>

(* The targets a window may ask for: all it may see, or one address.          *)
Admitted(p, target) == target = "all" \/ MayTouch(p, target)

Opened(t, token, issued, target) ==
  IF Admitted(PrincipalOf(token), target)
  THEN sockets' = Append(sockets, [token |-> token, ticket |-> t, issued |-> issued,
                                   opened |-> clock, target |-> target])
  ELSE UNCHANGED sockets

(* Mutant: a ticket is not taken from the table. *)
Redeemed_Kept(t) == Live

Redeemed(t) == Live \ {t}

(* ws() with a ticket. At the instant of its expiry the sweep may still see   *)
(* it and the comparison after it find it expired (late).                     *)
Redeem(serial, target, late) ==
  /\ running = "up"
  /\ IF \E t \in Live : t.serial = serial
     THEN LET t == CHOOSE t \in Live : t.serial = serial IN
          /\ late => clock = t.expires
          /\ tickets' = Redeemed(t)
          /\ IF late THEN UNCHANGED sockets
             ELSE Opened(serial, t.token, t.expires - TTL, target)
     ELSE ~late /\ tickets' = Live /\ UNCHANGED sockets
  /\ Request
  /\ UNCHANGED <<entries, running, clock, minted, bucket, hosts, events, scanning, reports>>

(* ws() with a bearer header. *)
Handshake(token, target) ==
  /\ Resolves(token)
  /\ Opened(0, token, clock, target)
  /\ Request
  /\ UNCHANGED <<entries, running, clock, tickets, minted, bucket, hosts, events, scanning, reports>>

Next ==
  \/ Configure \/ Tick
  \/ \E token \in Tokens, a \in Addresses :
       CreateTarget(token, a) \/ PutEvidence(token, a) \/ Scan(token, a)
  \/ \E a \in Addresses : ScanDone(a)
  \/ \E token \in Tokens : IssueTicket(token)
  \/ \E serial \in 1..minted, target \in Addresses \cup {"all"}, late \in BOOLEAN :
       Redeem(serial, target, late)
  \/ \E token \in Tokens, target \in Addresses \cup {"all"} : Handshake(token, target)

Spec == Init /\ [][Next]_vars

-------------------------------------------------------------------------------
(* Routes that read: what each lets a principal learn.                        *)

(* Mutant: health() counts the whole log. *)
Health_Whole(p, h, ev, windows) ==
  [hosts |-> Cardinality({a \in h : MayTouch(p, a)}), clients |-> windows, events |-> ev]

(* health(): hosts, all the windows that are open, whoever they belong to and *)
(* whatever they watch, and the events of each host (the caller sums those it *)
(* sees).                                                                     *)
Health(p, h, ev, windows) ==
  [hosts |-> Cardinality({a \in h : MayTouch(p, a)}), clients |-> windows,
   events |-> [a \in {b \in Addresses : MayTouch(p, b)} |-> ev[a]]]

(* list_targets() *)
Listing(p, h) == {a \in h : MayTouch(p, a)}

(* get_target() and plan(): the scope is asked before the store. *)
Target(p, a, h) == IF ~MayTouch(p, a) THEN 403 ELSE IF a \in h THEN 200 ELSE 404

(* ledger(), attempts() and handoff(). *)
Ledger(p, a, rep) == IF ~MayTouch(p, a) THEN 403 ELSE IF a \in rep THEN 200 ELSE 404

(* metrics: refused to any scoped principal. *)
Telemetry(p, ev) == IF p.scope # {} THEN [a \in {} |-> 0] ELSE ev

View(p, h, ev, rep, windows) ==
  [health |-> Health(p, h, ev, windows), listing |-> Listing(p, h),
   target |-> [a \in Addresses |-> Target(p, a, h)],
   ledger |-> [a \in Addresses |-> Ledger(p, a, rep)],
   metrics |-> Telemetry(p, ev)]

ReportedOn == {reports[i] : i \in 1..Len(reports)}

-------------------------------------------------------------------------------
(* The types of the state; and the ticket table holds an allowance of each    *)
(* principal and no more than the cap in all.                                 *)
TypeOK ==
  /\ entries \in Seq(Entry)
  /\ running \in {"starting", "up", "refused"}
  /\ clock \in 0..MaxClock
  /\ tickets \in SUBSET Ticket
  /\ minted \in Nat
  /\ bucket \in [Names -> Bucket]
  /\ hosts \in SUBSET Addresses
  /\ events \in [Addresses -> Nat]
  /\ scanning \in [Addresses -> Nat]
  /\ reports \in Seq(Addresses)
  /\ sockets \in Seq(Socket)
  /\ requests \in 0..MaxRequests
  /\ Cardinality(tickets) <= AllTickets
  /\ \A n \in Names : Cardinality({t \in tickets : OwnerOf(t) = n}) <= OwnTickets

(* A principal learns nothing of a host outside its scope: what all reading   *)
(* routes answer is what they would answer if no such host were in the graph  *)
(* and no such host had been scanned. How many of the windows that were ever  *)
(* opened are still open is the one number that every principal is told.      *)
ViewIsScoped ==
  running = "up" =>
  \A p \in Principals : \A windows \in 0..Len(sockets) :
    LET mine == {a \in Addresses : MayTouch(p, a)} IN
    View(p, hosts, events, ReportedOn, windows) =
    View(p, hosts \cap mine, [a \in Addresses |-> IF a \in mine THEN events[a] ELSE 0],
         ReportedOn \cap mine, windows)

(* What a principal was admitted for since its bucket was made is at most the *)
(* bucket's capacity and what was refilled since, however its requests and    *)
(* refusals are spaced.                                                       *)
RateBound ==
  \A n \in Held : bucket[n].admitted <= Capacity + (clock - bucket[n].created)

(* A ticket opens one window at most, within its life, and so no later than   *)
(* that after its credential expired; a window watches what its principal may *)
(* touch.                                                                     *)
WindowsAreBacked ==
  /\ \A i, j \in 1..Len(sockets) :
       sockets[i].ticket = sockets[j].ticket /\ sockets[i].ticket # 0 => i = j
  /\ \A i \in 1..Len(sockets) :
       LET s == sockets[i] IN
       /\ s.opened - s.issued \in 0..TTL
       /\ s.issued < PrincipalOf(s.token).expires
       /\ s.target # "all" => MayTouch(PrincipalOf(s.token), s.target)

(* No caller's tickets push out another's: one that leaves has expired, is    *)
(* redeemed, or makes room for a newer one of the same principal.             *)
OwnFloodOnly ==
  [][\A t \in tickets \ tickets' :
       \/ t.expires < clock
       \/ \E target \in Addresses \cup {"all"}, late \in BOOLEAN : Redeem(t.serial, target, late)
       \/ \E o \in tickets' \ tickets : OwnerOf(o) = OwnerOf(t)]_vars

(* A scan that ends leaves its report to be read, and takes at most one other *)
(* with it.                                                                   *)
ReportSurvives ==
  [][\A a \in Addresses :
       scanning'[a] < scanning[a] =>
         /\ \E i \in 1..Len(reports') : reports'[i] = a
         /\ Cardinality(ReportedOn \ {reports'[i] : i \in 1..Len(reports')}) <= 1]_vars
===============================================================================
