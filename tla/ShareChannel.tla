---------------------------- MODULE ShareChannel ----------------------------
(***************************************************************************)
(* What the slave-to-master share relay promises (spec.md, "Slave share   *)
(* relay"): the difficulty a slave's miners submit for a wallet is         *)
(* credited to that wallet on the master, never more than was submitted,  *)
(* in one or more portions, and, while the link holds, eventually all of  *)
(* it.  ShareRelay implements it on a link that does not fail.            *)
(***************************************************************************)
EXTENDS Naturals

CONSTANTS Wallets

VARIABLES submitted, credited

vars == <<submitted, credited>>

Init ==
    /\ submitted = [w \in Wallets |-> 0]
    /\ credited = [w \in Wallets |-> 0]

\* A miner's share of difficulty 1 is accepted for wallet w.
Submit(w) ==
    /\ submitted' = [submitted EXCEPT ![w] = @ + 1]
    /\ UNCHANGED credited

\* The master credits part or all of what is pending for w.
Credit(w) ==
    /\ credited[w] < submitted[w]
    /\ \E n \in 1..(submitted[w] - credited[w]) :
          credited' = [credited EXCEPT ![w] = @ + n]
    /\ UNCHANGED submitted

Next == \E w \in Wallets : Submit(w) \/ Credit(w)

Spec == Init /\ [][Next]_vars /\ \A w \in Wallets : WF_vars(Credit(w))

=============================================================================
