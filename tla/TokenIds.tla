------------------------------ MODULE TokenIds ------------------------------
(***************************************************************************)
(* The pure helpers the two receipt contracts carry a copy of each: the    *)
(* calendar year of a ledger timestamp and the rendering of a token id     *)
(* "<prefix>-YYYY-NNNNNN".  They are constant-level operators; the receipt *)
(* modules use the year, and MCTokenIds checks that the rendering is       *)
(* injective, which is what lets those modules write an id as the record   *)
(* [year, n] instead of a string.                                          *)
(*                                                                         *)
(* Recursion is a recursive function, so that modules with proofs may      *)
(* extend this one.  The final u32 cast of the year is left out: it bites  *)
(* after the year 4294967295.                                              *)
(***************************************************************************)
EXTENDS Integers, Sequences

SecondsPerDay == 86400

\* Mutant: March-based year, without the carry of January and February.
year_without_carry(days) ==
  LET z   == days + 719468
      era == z \div 146097
      doe == z - era * 146097
      yoe == (doe - doe \div 1460 + doe \div 36524 - doe \div 146096) \div 365
  IN  yoe + era * 400

\* The year that day number `days` since 1970-01-01 falls in, counting in
\* 400-year eras of years that begin on the 1st of March.
year_of_day(days) ==
  LET z   == days + 719468
      era == (IF z >= 0 THEN z ELSE z - 146096) \div 146097
      doe == z - era * 146097
      yoe == (doe - doe \div 1460 + doe \div 36524 - doe \div 146096) \div 365
      doy == doe - (365 * yoe + yoe \div 4 - yoe \div 100)
      mp  == (5 * doy + 2) \div 153
      m   == IF mp < 10 THEN mp + 3 ELSE mp - 9
      y   == yoe + era * 400
  IN  IF m <= 2 THEN y + 1 ELSE y

year_from_timestamp(timestamp) == year_of_day(timestamp \div SecondsPerDay)

Figures == <<"0", "1", "2", "3", "4", "5", "6", "7", "8", "9">>

\* The decimal digits of a number, most significant first; 0 has one digit.
digits[value \in Nat] ==
  IF value < 10 THEN <<Figures[value + 1]>>
  ELSE Append(digits[value \div 10], Figures[(value % 10) + 1])

\* Mutant: the last min_width digits of the number, whatever its length.
truncated_number(value, min_width) ==
  [i \in 1..min_width |->
     LET ds == digits[value]
         k  == i + Len(ds) - min_width
     IN  IF k < 1 THEN "0" ELSE ds[k]]

\* Zeros on the left up to min_width, never a digit less than the value has.
write_padded_number(value, min_width) ==
  LET ds    == digits[value]
      zeros == [i \in {k \in 1..min_width : k + Len(ds) <= min_width} |-> "0"]
  IN  zeros \o ds

generate_token_id(prefix, year, counter) ==
  <<prefix, "-">> \o write_padded_number(year, 4)
    \o <<"-">> \o write_padded_number(counter, 6)
=============================================================================
