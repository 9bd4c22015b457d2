---------------------------- MODULE DurableGraph ----------------------------
(***************************************************************************)
(* What reconkg's autosave promises, without saying how: a live graph that *)
(* only grows, a durable copy that trails it, and restarts that fall back  *)
(* to the durable copy.  Graphs are compared by version, the number of     *)
(* mutations they contain.                                                 *)
(***************************************************************************)
EXTENDS Naturals

VARIABLES
  mem,   (* version of the graph the process holds, or would hold if it started now *)
  disk   (* version a restart comes back with                                       *)

vars == <<mem, disk>>

Init ==
  /\ mem = 0
  /\ disk = 0

(* A mutation of the live graph. *)
Change ==
  /\ mem' = mem + 1
  /\ UNCHANGED disk

(* A snapshot becomes durable: a graph that was live, never older than the last one. *)
Persist ==
  /\ disk' \in Nat
  /\ disk < disk'
  /\ disk' <= mem
  /\ UNCHANGED mem

(* The process goes away, orderly or not, and its memory with it. *)
Stop ==
  /\ mem' = disk
  /\ UNCHANGED disk

(* A stored file rots while no process runs; an older one takes its place. *)
Rot ==
  /\ mem = disk
  /\ disk' \in Nat
  /\ disk' <= disk
  /\ mem' = disk'

Next == Change \/ Persist \/ Stop \/ Rot

Spec == Init /\ [][Next]_vars
=============================================================================
