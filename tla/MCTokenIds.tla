----------------------------- MODULE MCTokenIds -----------------------------
(***************************************************************************)
(* A contract that mints a receipt every day, beside a Gregorian calendar  *)
(* that shares nothing with year_from_timestamp: it is advanced one day at *)
(* a time.  The calendar repeats after 400 years, which are 146097 days,   *)
(* so a run of 146100 days meets every case there is.                      *)
(***************************************************************************)
EXTENDS TokenIds, SequencesExt

CONSTANTS Starts,        \* the [era, counter] a run begins with: how many
                         \* times 400 years after 1970, after how many mints
          Contracts,     \* their prefixes
          Days,          \* bound: the days of a run
          LastSecondDay  \* bound: seconds are checked up to this day

\* TLC's integers have 32 bits; this is the last day whose seconds fit.
LastWholeDay == 24854

ASSUME RunAssumption ==
  /\ Starts \subseteq [era : Nat, counter : Nat]
  /\ Days \in Nat
  /\ LastSecondDay \in 0..LastWholeDay

VARIABLES start,    \* what the run began with
          day,      \* days since 1970-01-01
          date,     \* what the calendar on the wall shows for it
          counter   \* the contract's token counter

vars == <<start, day, date, counter>>

MCStarts == {[era |-> 0, counter |-> 0], [era |-> 20, counter |-> 999000]}

IsLeap(y) == y % 4 = 0 /\ (y % 100 # 0 \/ y % 400 = 0)

DaysIn(y, m) ==
  IF m = 2 THEN IF IsLeap(y) THEN 29 ELSE 28
  ELSE IF m \in {4, 6, 9, 11} THEN 30 ELSE 31

Init ==
  /\ start \in Starts
  /\ day = start.era * 146097
  /\ date = [y |-> 1970 + 400 * start.era, m |-> 1, d |-> 1]
  /\ counter = start.counter + 1

SameMonth ==
  /\ date.d < DaysIn(date.y, date.m)
  /\ date' = [date EXCEPT !.d = @ + 1]

NextMonth ==
  /\ date.d = DaysIn(date.y, date.m)
  /\ date.m < 12
  /\ date' = [date EXCEPT !.m = @ + 1, !.d = 1]

NewYear ==
  /\ date.d = DaysIn(date.y, date.m)
  /\ date.m = 12
  /\ date' = [y |-> date.y + 1, m |-> 1, d |-> 1]

Next ==
  /\ day < start.era * 146097 + Days
  /\ day' = day + 1
  /\ counter' = counter + 1
  /\ SameMonth \/ NextMonth \/ NewYear
  /\ UNCHANGED start

Spec == Init /\ [][Next]_vars

(***************************************************************************)
(* The year a token id is stamped with is the civil year of the ledger     *)
(* timestamp, on every day of a 400-year cycle, from the first second of   *)
(* the day to the last.  (year_from_timestamp, from which mint and split   *)
(* take YYYY.)                                                             *)
(***************************************************************************)
YearIsCivilYear ==
  /\ year_of_day(day) = date.y
  /\ day <= LastSecondDay =>
       \A second \in {0, 1, SecondsPerDay \div 2, SecondsPerDay - 1} :
         year_from_timestamp(day * SecondsPerDay + second) = date.y

\* The number a figure stands for.
Worth(figure) == CHOOSE n \in 0..9 : Figures[n + 1] = figure

\* The number that the first k digits stand for, for every k.
Reading(ds) ==
  LET read[k \in 0..Len(ds)] == IF k = 0 THEN 0 ELSE 10 * read[k - 1] + Worth(ds[k])
  IN  read

Value(ds) == Reading(ds)[Len(ds)]

LastDash(id) == SelectLastInSeq(id, LAMBDA c : c = "-")

\* What a reader finds in an id, cutting it at its dashes.
ReadBack(id) ==
  LET dash == LastDash(id)
  IN  [prefix |-> id[1], year |-> Value(SubSeq(id, 3, dash - 1)),
       n |-> Value(SubSeq(id, dash + 1, Len(id)))]

(***************************************************************************)
(* The prefix, the year and the number can be read back from every id, so  *)
(* no two mints, of one contract or of both, render to the same id, also   *)
(* where the year or the counter gains a digit and the id outgrows the     *)
(* YYYY-NNNNNN shape.  (generate_token_id and write_padded_number: the id  *)
(* is the storage key under which a contract keeps the receipt.)           *)
(***************************************************************************)
IdReadsBack ==
  \A p \in Contracts :
    ReadBack(generate_token_id(p, date.y, counter))
      = [prefix |-> p, year |-> date.y, n |-> counter]
=============================================================================
