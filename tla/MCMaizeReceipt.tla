--------------------------- MODULE MCMaizeReceipt ---------------------------
(* Constants of the TLC runs of MaizeReceipt. *)
EXTENDS MaizeReceipt, TLC

\* One deposit that is accepted, one of no bags, one of empty bags and one
\* that overflows u32 (MaxU32 = 5) by exactly one.
MCDeposits == {[bags |-> 3, perBag |-> 1], [bags |-> 0, perBag |-> 1],
               [bags |-> 1, perBag |-> 0], [bags |-> 2, perBag |-> 3]}

MCCommodity == {"MAIZE_WHITE", "SESAME"}

\* Two ledger times in one year and one in the next.
MCYearEnd == {0, 31535999, 31536000}

\* The answer to the last call decides nothing later: states that differ in
\* it alone are one.
StorageAndTime == <<storage, now>>

Symmetry == Permutations(Address)
=============================================================================
