---------------------------- MODULE MCReconcile -----------------------------
(* Constants of the TLC runs of Reconcile. *)
EXTENDS Reconcile

MCOneWeight == {1}
MCTwoWeights == {1, 2}

\* Records filed as the job writes them.
MCKilograms == {"kg"}
MCMilliseconds == {1000}

\* How the contract's TokenNotFound, its third error, reads in the text of an
\* error; and how the job's own tests write it.
AsDeployed == {"Error(Contract, #3)"}
AsTested == {"Error(Contract, #1)"}
=============================================================================
