---------------------------- MODULE TableDelivery ----------------------------
(***************************************************************************)
(* What a reader of an Arrow IPC stream may rely on, with bytes, buffers   *)
(* and the arena left out: the record batches of the stream come out in    *)
(* order, an error only when something is wrong with the stream or its     *)
(* transport, and the end of the stream only after its last batch.         *)
(***************************************************************************)
EXTENDS Integers, Sequences

VARIABLES
  expected,  \* the batches of the stream, each by its number in it
  whole,     \* the transport carries the stream up to its end marker
  sound,     \* nothing is wrong with the stream, nothing failed so far
  items      \* what the reader has been given

Err == -1
End == 0

Init == sound \in BOOLEAN /\ whole \in BOOLEAN /\ items = <<>>

\* The batches delivered so far, and whether an error was among the items.
Delivered == {items[i] : i \in DOMAIN items} \ {Err, End}
Failed == \E i \in DOMAIN items : items[i] = Err

\* The next batch; one can be missing only after an error.
Deliver ==
  /\ \E b \in expected :
       /\ \A d \in Delivered : d < b
       /\ Failed \/ \A e \in expected : e < b => e \in Delivered
       /\ items' = Append(items, b)
  /\ UNCHANGED <<expected, whole, sound>>

Fail ==
  /\ ~sound
  /\ items' = Append(items, Err)
  /\ UNCHANGED <<expected, whole, sound>>

Finish ==
  /\ Failed \/ (whole /\ expected \subseteq Delivered)
  /\ items' = Append(items, End)
  /\ UNCHANGED <<expected, whole, sound>>

\* A failure of the transport, and the error that reports it.
Break ==
  /\ sound' = FALSE
  /\ items' = Append(items, Err)
  /\ UNCHANGED <<expected, whole>>

Next == Deliver \/ Fail \/ Finish \/ Break

Spec == Init /\ [][Next]_<<expected, whole, sound, items>>
==============================================================================
