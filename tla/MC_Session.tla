----------------------------- MODULE MC_Session -----------------------------
(* Two miners on one slave: one XMRig (NiceHash) and one plain miner.     *)
EXTENDS Session

CONSTANTS c1, c2, n1

MCConns == {c1, c2}
MCNicehashConns == {c1}
MCNonces == {n1}
MCForgers == {c2}
MCOneConn == {c1}
MCNoConns == {}
==============================================================================
