--------------------------- MODULE MCCreditLedger ---------------------------
(* Instances of CreditLedger for TLC. *)
EXTENDS CreditLedger

CONSTANTS s1, s2, pack, subscription

\* The free allowance is smaller than a charge may be, the paid one larger.
SmallAllowance == [p \in Plans |-> IF p = FreePlan THEN 1 ELSE 3]
SmallAmounts == {1, 3}

=============================================================================
