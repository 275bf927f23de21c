---------------------------- MODULE Normalization ----------------------------
(***************************************************************************)
(* What an import makes of one row of a file: the adapter that turns a CSV *)
(* row into a standard one and the normalisation of its salary, date,      *)
(* experience, city and quality.                                           *)
(*                                                                         *)
(* A text is modelled by what the code's patterns find in it: a salary by  *)
(* its numbers and units, a date by its form, a place by the cities named  *)
(* in it.                                                                  *)
(***************************************************************************)
EXTENDS Integers, FiniteSetsExt, SequencesExt

Missing == "missing"       \* an empty text
None == -1                 \* NULL in a numeric column

HalfUp(num, den) == (2 * num + den) \div (2 * den)

-----------------------------------------------------------------------------
(* The adapter.  A CSV row is the set of its columns that hold a value.    *)

\* OPTIONAL_WARNINGS
MissingFlag == [city |-> "missing_city", company_name |-> "missing_company_name",
                issue_date |-> "missing_issue_date",
                skill_requirements |-> "missing_skill_requirements",
                tech_tags |-> "missing_tech_tags"]
Optional == DOMAIN MissingFlag

\* The adapter of a source and the sources its rows may name.
Adapter == [standard       |-> {"standard"},
            liepin         |-> {"liepin"},
            zhilian        |-> {"zhilian", "zhilian_direct"},
            zhilian_direct |-> {"zhilian", "zhilian_direct"}]

\* The warnings of _to_standard_row: what is missing, the name, the source.
ParseWarnings(columns, rowSource, source) ==
    {MissingFlag[c] : c \in Optional \ columns}
      \cup (IF "job_name" \in columns THEN {} ELSE {"missing_job_name"})
      \cup (IF source = "standard" \/ rowSource \in Adapter[source] THEN {}
            ELSE {"source_adapter_mismatch"})

IsRejected(warnings) == "missing_job_name" \in warnings

-----------------------------------------------------------------------------
(* Salary.  A text that is not blank has amounts, each a number in tenths  *)
(* and a unit, perhaps a number of salaries a year and a daily period.     *)

Multiplier(text) ==
    LET units == {a.unit : a \in ToSet(text.amounts)}
    IN  IF "wan" \in units THEN 10000 ELSE IF "k" \in units THEN 1000 ELSE 1

\* One end of the range, n in tenths; 21.75 working days, rounded half up.
Monthly(n, multiplier, daily) ==
    IF daily THEN HalfUp(n * multiplier * 87, 40) ELSE HalfUp(n * multiplier, 10)

\* normalize_salary: every number of the text counts, that of the salaries a
\* year too, and one multiplier is applied to the first two.
NormalizeSalary(text) ==
    IF text.blank
    THEN [min |-> None, max |-> None, flags |-> {"salary_missing"}]
    ELSE LET numbers == [i \in DOMAIN text.amounts |-> text.amounts[i].tenths]
                          \o (IF text.salaries = 0 THEN <<>> ELSE <<10 * text.salaries>>)
             End(k) == Monthly(numbers[k], Multiplier(text), text.daily)
         IN  IF numbers = <<>>
             THEN [min |-> None, max |-> None, flags |-> {"salary_unparsed"}]
             ELSE [min |-> End(1), max |-> IF Len(numbers) > 1 THEN End(2) ELSE End(1),
                   flags |-> IF text.daily THEN {"salary_period_converted"} ELSE {}]

\* CHECK salary_min and salary_range of normalized_job_postings.
SalaryConstraint(s) ==
    /\ s.min = None \/ s.min >= 0
    /\ s.max = None \/ s.min = None \/ s.max >= s.min

-----------------------------------------------------------------------------
(* Dates are <<year, month, day>>.                                         *)

Leap(y) == y % 4 = 0 /\ (y % 100 # 0 \/ y % 400 = 0)
DaysIn(y, m) == IF m = 2 THEN (IF Leap(y) THEN 29 ELSE 28)
                ELSE IF m \in {4, 6, 9, 11} THEN 30 ELSE 31
IsDate(d) == d[2] \in 1 .. 12 /\ d[3] \in 1 .. DaysIn(d[1], d[2])
Ordinal(d) == d[1] * 10000 + d[2] * 100 + d[3]

\* Mutant: today's month and day are taken for last year's.
NotBefore(d, anchor) == Ordinal(d) >= Ordinal(anchor)

After(d, anchor) == Ordinal(d) > Ordinal(anchor)

NoDate == <<0, 0, 0>>
Raises == <<-1, 0, 0>>     \* a ValueError that leaves normalize_date

\* normalize_date of a month and a day: the day this year, or last year if it
\* is still to come; only the first construction is guarded.
MonthDay(month, day, anchor) ==
    LET this == <<anchor[1], month, day>>
        last == <<anchor[1] - 1, month, day>>
    IN  IF ~ IsDate(this) THEN NoDate
        ELSE IF ~ After(this, anchor) THEN this
        ELSE IF IsDate(last) THEN last ELSE Raises

DayBefore(d) ==
    IF d[3] > 1 THEN <<d[1], d[2], d[3] - 1>>
    ELSE IF d[2] > 1 THEN <<d[1], d[2] - 1, DaysIn(d[1], d[2] - 1)>>
    ELSE <<d[1] - 1, 12, 31>>

\* normalize_date, by the form of the text.
NormalizeDate(text, anchor) ==
    CASE text.form = "today"     -> anchor
      [] text.form = "days_ago"  -> FoldLeft(LAMBDA d, i : DayBefore(d), anchor,
                                             [i \in 1 .. text.day |-> i])
      [] text.form = "month_day" -> MonthDay(text.month, text.day, anchor)
      [] text.form = "full"      -> IF IsDate(text.date) THEN text.date ELSE NoDate
      [] OTHER                   -> NoDate

DateFlags(text, date) ==
    IF text.form = Missing THEN {"issue_date_missing"}
    ELSE IF date = NoDate THEN {"issue_date_unparsed"} ELSE {}

-----------------------------------------------------------------------------
(* Experience, city and quality                                            *)

\* normalize_experience, in months.
NormalizeExperience(text) ==
    CASE text.form = "none"  -> [min |-> 0, max |-> 0, flags |-> {}]
      [] text.form = "any"   -> [min |-> None, max |-> None, flags |-> {}]
      [] text.form = "range" -> [min |-> 12 * text.low, max |-> 12 * text.high,
                               flags |-> {}]
      [] text.form = "from"  -> [min |-> 12 * text.low, max |-> None, flags |-> {}]
      [] text.form = "up_to" -> [min |-> 0, max |-> 12 * text.high, flags |-> {}]
      [] text.form = Missing -> [min |-> None, max |-> None,
                               flags |-> {"experience_missing"}]
      [] OTHER -> [min |-> None, max |-> None, flags |-> {"experience_unparsed"}]

\* normalize_city: the city of the work area, or of the source.  A place is
\* the sequence of the cities _find_city would try and find in it.
NormalizeCity(area, city) ==
    [city  |-> IF area # <<>> THEN area[1] ELSE IF city # <<>> THEN city[1] ELSE Missing,
     flags |-> IF area # <<>> /\ city # <<>> /\ area[1] # city[1]
               THEN {"city_conflict"} ELSE {}]

Penalty(flag) ==
    CASE flag = "garbled_text" -> 20
      [] flag \in {"missing_company_name", "missing_skill_requirements"} -> 10
      [] flag \in {"issue_date_missing", "salary_period_converted", "salary_unparsed",
                   "experience_unparsed", "city_conflict"} -> 5
      [] OTHER -> 0

\* quality_score_for: the flags count by what they cost, each once.
QualityScore(rejected, flags) ==
    LET Costing(points) == Cardinality({flag \in flags : Penalty(flag) = points})
        score == 100 - (20 * Costing(20) + 10 * Costing(10) + 5 * Costing(5))
    IN  IF rejected THEN 0 ELSE IF score < 0 THEN 0 ELSE score

\* normalize_row.
NormalizeRow(row, anchor) ==
    LET salary   == NormalizeSalary(row.salary)
        date     == NormalizeDate(row.date, anchor)
        worked   == NormalizeExperience(row.experience)
        city     == NormalizeCity(row.area, row.city)
        warnings == ParseWarnings(row.columns, row.source, row.requested)
        flags    == warnings \cup salary.flags \cup DateFlags(row.date, date)
                      \cup worked.flags \cup city.flags
                      \cup (IF row.garbled THEN {"garbled_text"} ELSE {})
    IN  [salary |-> salary, date |-> date, experience |-> worked, city |-> city.city,
         flags |-> flags, quality |-> QualityScore(IsRejected(warnings), flags)]

-----------------------------------------------------------------------------
(* Properties, for one input each                                          *)

\* The table's check constraints on the range of an experience and the score.
RowConstraints(n) ==
    /\ SalaryConstraint(n.salary)
    /\ n.experience.min = None \/ n.experience.max = None
          \/ n.experience.min <= n.experience.max
    /\ n.quality \in 0 .. 100

\* A row that states its ranges from low to high, collected on a date.
IsRow(row, anchor) ==
    /\ LET text == row.salary
       IN  /\ text.blank \in BOOLEAN /\ text.daily \in BOOLEAN /\ text.salaries \in Nat
           /\ text.amounts \in Seq(ToSet(text.amounts))
           /\ \A i \in DOMAIN text.amounts : text.amounts[i].tenths \in Nat
           /\ Len(text.amounts) >= 2 =>
                 text.amounts[1].tenths <= text.amounts[2].tenths
    /\ row.experience.low \in Nat /\ row.experience.high \in Nat
    /\ row.experience.form = "range" => row.experience.low <= row.experience.high
    /\ row.date.form = "month_day" => row.date.month \in Nat /\ row.date.day \in Nat
    /\ anchor = <<anchor[1], anchor[2], anchor[3]>> /\ anchor[1] \in Nat \ {0}
    /\ anchor[2] \in Nat /\ anchor[3] \in Nat /\ IsDate(anchor)

\* Two ends in one unit, or one amount with no number of salaries after it.
PlainRange(text) ==
    /\ \A a, b \in ToSet(text.amounts) : a.unit = b.unit
    /\ Len(text.amounts) < 2 => text.salaries = 0

\* A row whose salary is a plain range is accepted by the table, and its score
\* stays high unless something a reader needs is missing.  The date of a month
\* and a day is the latest such day not after the day of collection; the
\* import dies on 29 February, and only if collected in a leap year before it.
RowNormalizesOn(row, anchor) ==
    LET n == NormalizeRow(row, anchor)
        Same(d) == d[2] = row.date.month /\ d[3] = row.date.day
    IN  /\ PlainRange(row.salary) => RowConstraints(n)
        /\ n.quality >= 60 \/ n.flags \cap {"missing_company_name",
              "missing_skill_requirements", "garbled_text", "missing_job_name"} # {}
        /\ row.date.form = "month_day" =>
              CASE n.date = NoDate ->
                      ~ IsDate(<<anchor[1], row.date.month, row.date.day>>)
                [] n.date = Raises ->
                      /\ row.date.month = 2 /\ row.date.day = 29
                      /\ Leap(anchor[1])
                      /\ Ordinal(anchor) < Ordinal(<<anchor[1], 2, 29>>)
                [] OTHER ->
                      /\ IsDate(n.date) /\ Same(n.date) /\ Ordinal(n.date) <= Ordinal(anchor)
                      /\ Ordinal(<<n.date[1] + 1, row.date.month, row.date.day>>)
                           > Ordinal(anchor)
=============================================================================
