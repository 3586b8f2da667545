----------------------------- MODULE PduChannel -----------------------------
(***************************************************************************)
(* What a connection promises to the handlers at its two ends: the PDUs    *)
(* that one side passes to SendPdu reach HandlePdu on the other side whole,*)
(* once each and in their order; a connection that breaks loses a suffix.  *)
(***************************************************************************)
EXTENDS Naturals, Sequences

VARIABLES
    submitted,  \* the PDUs passed to SendPdu, in order
    delivered   \* the numbers of the PDUs passed to HandlePdu, in order

vars == <<submitted, delivered>>

Init == submitted = <<>> /\ delivered = <<>>

Submit ==
    /\ Len(submitted') > Len(submitted)
    /\ SubSeq(submitted', 1, Len(submitted)) = submitted
    /\ UNCHANGED delivered

Deliver ==
    /\ Len(delivered) < Len(submitted)
    /\ delivered' = Append(delivered, Len(delivered) + 1)
    /\ UNCHANGED submitted

Next == Submit \/ Deliver
Spec == Init /\ [][Next]_vars
=============================================================================
