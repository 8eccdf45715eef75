----------------------------- MODULE MCAccounts -----------------------------
(* Instances of Accounts for TLC.                                          *)
EXTENDS Accounts

CONSTANTS r1, r2, r3, b1, b2, b3, w1, w2, t1, t2, t3, t4

\* Sizes below, at and above a megabyte of 4 bytes, and the whole pool; the
\* largest that 32 bits can check; and those that the sum or the size wraps.
MCSizes == {0, 3, 4, 7, 12, 19, 20, 33}

\* Texts of one and of two characters; t4 is empty.
MCBytes == [t \in Texts |-> CASE t = t1 -> 1 [] t = t4 -> 0 [] OTHER -> 2]
=============================================================================
