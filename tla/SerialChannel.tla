--------------------------- MODULE SerialChannel ---------------------------
(***************************************************************************)
(* What a serial driver promises in one direction: a bounded first-in      *)
(* first-out channel.  Characters are accepted in blocks and received, in  *)
(* blocks again, in the order in which they were accepted, each once, and  *)
(* never more than Capacity of them are under way.                         *)
(***************************************************************************)
EXTENDS Naturals, Sequences, SequencesExt

CONSTANTS Char, Capacity

VARIABLES
  sent,         \* every character accepted so far, in order
  received      \* every character the other end has taken so far, in order

chan == <<sent, received>>

Init ==
  /\ sent = <<>>
  /\ received = <<>>

\* A call accepts a block of characters, whatever they are.
Send ==
  /\ sent' \in Seq(Char)
  /\ IsStrictPrefix(sent, sent')
  /\ Len(sent') <= Len(received) + Capacity
  /\ UNCHANGED received

\* The other end takes the block of characters that is next in line.
Receive ==
  /\ received' \in Seq(Char)
  /\ IsStrictPrefix(received, received')
  /\ IsPrefix(received', sent)
  /\ UNCHANGED sent

Next == Send \/ Receive

Spec == Init /\ [][Next]_chan

=============================================================================
