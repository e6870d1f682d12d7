---------------------------- MODULE CallContract ----------------------------
(***************************************************************************)
(* What a call promises its PHP application: the messages of the server,   *)
(* in order and one at a time, and then exactly one final status.  A unary *)
(* call hands over its message together with the status OK.                *)
(***************************************************************************)
EXTENDS Sequences, Naturals

VARIABLES messages, delivered, status

Init == delivered = <<>> /\ status = "pending"

Deliver ==
    /\ Len(delivered) < Len(messages)
    /\ delivered' = Append(delivered, messages[Len(delivered) + 1])

\* One more message, by next.
Pull == status = "pending" /\ Deliver /\ UNCHANGED <<messages, status>>

\* The status, after which nothing changes any more.
End ==
    /\ status = "pending" /\ status' # "pending"
    /\ UNCHANGED delivered \/ (delivered = <<>> /\ status' = "OK" /\ Deliver)
    /\ UNCHANGED messages

Next == Pull \/ End

Spec == Init /\ [][Next]_<<messages, delivered, status>>
=============================================================================
