---------------------------- MODULE MCPduStream -----------------------------
(* PduStream with few values for every field, for TLC.                     *)
EXTENDS PduStream

\* Nothing, and a text that looks like the number of a PDU's bytes.
MCTexts == {<<>>, <<0, 12>>}
=============================================================================
