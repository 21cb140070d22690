------------------------------ MODULE MCChannel ------------------------------
(* Model-checking instances of Channel: threads are model values.          *)
EXTENDS Channel, TLC
CONSTANTS s1, r1
\* A single sender may send any of three values, 0 included.
OneSenderMsgs == s1 :> {0, 1, 2}
=============================================================================
