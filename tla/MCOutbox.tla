------------------------------ MODULE MCOutbox ------------------------------
(***************************************************************************)
(* Instances of Outbox: two messages, so that acks can be taken for one    *)
(* another, each sent, retried and relaunched within the stated bounds;    *)
(* their numbers differ, or are the same.  To keep the instance small,     *)
(* only the first is retried in the latter case.                           *)
(***************************************************************************)
EXTENDS Outbox

CONSTANTS m1, m2

MCNumberings == {[m \in Messages |-> IF m = m1 THEN 1 ELSE n] : n \in 1..2}

MCNext ==
  /\ Next
  /\ number[m1] = number[m2] => \A i \in 1..MaxRetries : task'[<<m2, i>>] = "idle"

MCSpec == Init /\ [][MCNext]_vars /\ Fairness
=============================================================================
