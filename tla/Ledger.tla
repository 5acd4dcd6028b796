------------------------------- MODULE Ledger -------------------------------
(***************************************************************************)
(* What the cash of a shop amounts to: everybody has a balance, a sale      *)
(* moves a price from one of them to the other in one step, and the keeper  *)
(* can be granted more.  No balance is ever lost or overwritten, but the    *)
(* store's, all of it, when the store is deleted.                          *)
(***************************************************************************)
EXTENDS Integers

CONSTANTS Traders, Keeper, Store, Prices

VARIABLES balance, issued, lost

ledgerVars == <<balance, issued, lost>>

Init ==
    /\ balance = [o \in Traders \cup {Store} |-> 0]
    /\ issued = 0 /\ lost = 0

\* a pays b, once and in full.
Transfer(a, b, p) ==
    /\ balance' = [balance EXCEPT ![a] = @ - p, ![b] = @ + p]
    /\ UNCHANGED <<issued, lost>>

Grant ==
    /\ balance' = [balance EXCEPT ![Keeper] = @ + 1]
    /\ issued' = issued + 1 /\ UNCHANGED lost

Forfeit ==
    /\ balance' = [balance EXCEPT ![Store] = 0]
    /\ lost' = lost + balance[Store] /\ UNCHANGED issued

Next ==
    \/ \E t \in Traders, p \in Prices : Transfer(t, Store, p) \/ Transfer(Store, t, p)
    \/ Grant \/ Forfeit

Spec == Init /\ [][Next]_ledgerVars
=============================================================================
