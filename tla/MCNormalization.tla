---------------------------- MODULE MCNormalization ----------------------------
(***************************************************************************)
(* The salaries of a file, one after the other.                            *)
(***************************************************************************)
EXTENDS Normalization

CONSTANT Amounts     \* numbers of a salary, in tenths

VARIABLE salary      \* the text of a posting's salary, or <<>>

\* What the units of the merged data stand for: no unit, k, thousand, ten thousand.
Worth == [yuan |-> 1, k |-> 1000, qian |-> 1000, wan |-> 10000]
Stated(amount) == amount.tenths * Worth[amount.unit]

Init == salary = <<>>

\* A posting states a range.
Read(low, high, salaries) ==
    /\ Stated(low) <= Stated(high)
    /\ salary' = <<[amounts |-> <<low, high>>, salaries |-> salaries,
                    daily |-> FALSE, blank |-> FALSE]>>

Next ==
    \E low, high \in [tenths : Amounts, unit : DOMAIN Worth], n \in {0, 13} :
        Read(low, high, n)

Spec == Init /\ [][Next]_salary

\* A stated range, low to high, is stored: what normalize_salary makes of it
\* meets the check constraint salary_range (maximum at least minimum).
SalaryRangeAccepted ==
    salary # <<>> => SalaryConstraint(NormalizeSalary(salary[1]))
=============================================================================
