---------------------------- MODULE MC_ShareRelay ----------------------------
(* One slave with two miners' wallets on the link to the master.           *)
EXTENDS ShareRelay

CONSTANTS w1, w2

MCWallets == {w1, w2}
==============================================================================
