------------------------------- MODULE MCArith -------------------------------
(* The arithmetic of the curve's two fields and the addition chains, each on *)
(* its own: part says which.  The field is that of P = 2^22 - 131, in four   *)
(* words of six bits but four in the top one, with room for three more; the  *)
(* order is 4013 in four words of base 8.                                    *)
EXTENDS FieldVal, ModNScalar, FieldChains

VARIABLE part

MCInputs == {0, 1, 2, 63, 64, 1000, 524288, P - 1, P, P + 1, 2^22 - 1, 700001}
MCOperands == {0, 1, 3, 70, P - 1, P - 70, 654321}
MCComplement == <<3, 2>>
MCScalarInputs == 0..4095
MCScalarOperands == {0, 1, 2, 7, 8, 511, 2006, 2007, 4012, 4011, 3141}

IdleField == f = Packed(0) /\ magnitude = 1 /\ normalized = TRUE /\ exact = 0 /\ calls = 0
IdleScalar == scalar = Zero /\ scalarExact = 0
IdleChain == chain = "none" /\ pc = 0 /\ reg = <<>>

Init ==
    \/ part = "field" /\ FieldInit /\ IdleScalar /\ IdleChain
    \/ part = "scalar" /\ ScalarInit /\ IdleField /\ IdleChain
    \/ part = "chain" /\ ChainInit /\ IdleField /\ IdleScalar

Next ==
    /\ \/ part = "field" /\ FieldNext /\ UNCHANGED <<scalarVars, chainVars>>
       \/ part = "scalar" /\ ScalarNext /\ UNCHANGED <<fieldVars, chainVars>>
       \/ part = "chain" /\ ChainStep /\ UNCHANGED <<fieldVars, scalarVars>>
    /\ UNCHANGED part

Spec == Init /\ [][Next]_<<part, fieldVars, scalarVars, chainVars>>
=============================================================================
