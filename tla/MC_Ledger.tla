------------------------------ MODULE MC_Ledger ------------------------------
(* Instantiates Ledger for TLC: two miners and the fee address, one         *)
(* wallet string that is not a valid address.                              *)
EXTENDS Ledger

CONSTANTS m1, m2, fee, bad

MCMiners == {m1, m2}

\* bbolt orders keys bytewise; the fee address sorts between the miners so
\* the batch cut at MAX_WITHDRAW_DESTINATIONS falls on either kind.
MCAddrOrder == <<m1, fee, m2>>

=============================================================================
