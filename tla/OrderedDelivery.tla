--------------------------- MODULE OrderedDelivery ---------------------------
(***************************************************************************)
(* What SortBehaviour::Ordered promises, with the connections, channels    *)
(* and tasks left out: items leave in the order they were submitted, each  *)
(* once, and an item that cannot be delivered is replaced by an error in   *)
(* its own place - never skipped silently, never overtaken.                *)
(***************************************************************************)
EXTENDS Integers, Sequences

VARIABLES
  sent,   \* items submitted so far; item k is the number k, from 0
  out     \* what the consumer has been given

Err == -1

Init == sent = 0 /\ out = <<>>

Submit == sent' = sent + 1 /\ out' = out

Deliver ==
  /\ Len(out) < sent
  /\ out' = Append(out, Len(out))
  /\ sent' = sent

Fail == out' = Append(out, Err) /\ sent' = sent

Next == Submit \/ Deliver \/ Fail

Spec == Init /\ [][Next]_<<sent, out>>
==============================================================================
