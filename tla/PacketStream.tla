----------------------------- MODULE PacketStream -----------------------------
(***************************************************************************)
(* What the reader of a connection promises: the packets the server sends, *)
(* each whole, in order and once, until the connection breaks.             *)
(***************************************************************************)
EXTENDS Naturals, Sequences

VARIABLES sent, received, broken

Init == sent = <<>> /\ received = <<>> /\ broken = FALSE

Send ==
    /\ Len(sent') > Len(sent)
    /\ SubSeq(sent', 1, Len(sent)) = sent
    /\ UNCHANGED <<received, broken>>

Receive ==
    /\ ~broken
    /\ Len(received) < Len(sent)
    /\ received' = Append(received, sent[Len(received) + 1])
    /\ UNCHANGED <<sent, broken>>

Break == broken' = TRUE /\ UNCHANGED <<sent, received>>

Next == Send \/ Receive \/ Break

Spec == Init /\ [][Next]_<<sent, received, broken>>
===============================================================================
