------------------------- MODULE MCBondingCurvePool -------------------------
(* Small instances of BondingCurvePool for TLC.                            *)
EXTENDS BondingCurvePool

CONSTANT b1

MCCoefficient == [b \in Beneficiaries |-> IF b = b1 THEN 70 ELSE 20]
=============================================================================
