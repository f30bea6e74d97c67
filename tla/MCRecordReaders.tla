-------------------------- MODULE MCRecordReaders ---------------------------
(* Constants of the TLC run of RecordReaders. *)
EXTENDS RecordReaders

MCOneWeight == {1}

\* Records filed in kilograms or tonnes, with times in seconds or milliseconds.
MCTwoUnits == {"kg", "t"}
MCTwoScales == {1, 1000}

\* The contract's TokenNotFound as it reads in the text of an error, or as the
\* job's own tests write it.
Either == {"Error(Contract, #3)", "Error(Contract, #1)"}
=============================================================================
