--------------------------- MODULE MCVerifyToken ----------------------------
(* Constants of the TLC runs of VerifyToken. *)
EXTENDS VerifyToken

MCWeights == {1, 2}
MCFeedPrices == {4, 25}
MCReferencePrice == 18000

\* 8 and 5 seconds in the code.
MCDeadline == [health |-> 3, price |-> 2]

\* The contract's TokenNotFound as it arrives, and as the controller's tests write it.
Either == {"Error(Contract, #3)", "Error(Contract, #1)"}
=============================================================================
