------------------------------ MODULE MCRelay ------------------------------
(***************************************************************************)
(* Instances of Relay.  A sends from socket sa; B is the recipient.  In    *)
(* the devices instance B holds sb1 on A's node and sb2 on another; in the *)
(* faults instance B's only socket is on another node than A's.            *)
(***************************************************************************)
EXTENDS Relay, TLC

CONSTANTS a, b, sa, sb1, sb2, n1, n2, m0, m1

MCOwner == [s \in Sockets |-> IF s = sa THEN a ELSE b]
MCFrom == [m \in Messages |-> sa]
MCTo == [m \in Messages |-> b]

DevicesHome == [s \in Sockets |-> IF s = sb2 THEN n2 ELSE n1]
FaultsHome == [s \in Sockets |-> IF s = sa THEN n1 ELSE n2]

(* m0 has been waiting in Redis since before this backend started. *)
OneQueued == [u \in Users |-> IF u = b THEN <<m0>> ELSE << >>]
NothingQueued == [u \in Users |-> << >>]

(* A bound: what follows once the sender of m1 has closed is left out; it  *)
(* is of no consequence to the recipient.                                  *)
SenderStays == wire[sa] # "closed"
============================================================================
