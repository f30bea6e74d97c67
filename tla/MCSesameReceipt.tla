-------------------------- MODULE MCSesameReceipt ---------------------------
(* Constants of the TLC runs of SesameReceipt. *)
EXTENDS SesameReceipt, TLC

MCDeposits == {[bags |-> 3, perBag |-> 1], [bags |-> 0, perBag |-> 1],
               [bags |-> 1, perBag |-> 0], [bags |-> 2, perBag |-> 3]}

MCCommodity == {"SESAME", "MAIZE_WHITE"}

\* The last second of a year and the first of the next.
MCYearEnd == {31535999, 31536000}

StorageAndTime == <<storage, now>>

Symmetry == Permutations(Address)
=============================================================================
