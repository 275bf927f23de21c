--------------------------- MODULE AlgorithmProofs ---------------------------
(***************************************************************************)
(* Proofs about the pure algorithms: what each returns, on any input its   *)
(* assumption (AreLabels, IsRow, IsRankable, ArePostings, AreSkills,       *)
(* IsScorable) admits.                                                     *)
(*                                                                         *)
(* Nothing here is by induction.  A list that keeps the first of each kind *)
(* is reasoned about through the least position of a kind (LeastNumber), a *)
(* sort through what comes before an element: an order on finitely many    *)
(* elements gives each a place of its own (PlacesFilled, PlacesTaken).  A  *)
(* sum is the number of its points: it grows with its terms (TotalRises)   *)
(* and scales with them (TotalScaled).                                     *)
(***************************************************************************)
EXTENDS SkillMining, Normalization, MatchScoring, FiniteSetTheorems, FunctionTheorems,
        NaturalsInduction, WellFoundedInduction, TLAPS

-----------------------------------------------------------------------------
(* Numbers, sets and lists                                                  *)

LEMMA LeastNumber ==
    ASSUME NEW T \in SUBSET Nat, T # {}
    PROVE  \E n \in T : \A m \in T : n <= m
<1>1. \E n \in T : \A m \in T : <<m, n>> \notin OpToRel(<, Nat)
  BY NatLessThanWellFounded, WFMin
<1>2. \A m, n \in Nat : <<m, n>> \notin OpToRel(<, Nat) => n <= m
  BY DEF OpToRel
<1> QED
  BY <1>1, <1>2

\* An image has as many elements as the set if no two elements share theirs.
LEMMA ImageCounts ==
    ASSUME NEW S, IsFiniteSet(S), NEW f, DOMAIN f = S, f = [x \in S |-> f[x]],
           NEW T, T = {f[x] : x \in S}
    PROVE  /\ IsFiniteSet(T) /\ Cardinality(T) <= Cardinality(S)
           /\ Cardinality(T) \in Nat /\ Cardinality(S) \in Nat
           /\ Cardinality(T) = Cardinality(S) <=> \A x, y \in S : f[x] = f[y] => x = y
<1>1. f \in Surjection(S, T)
  <2>1. f \in [S -> T]
    OBVIOUS
  <2>2. \A t \in T : \E x \in S : f[x] = t
    OBVIOUS
  <2> QED
    BY <2>1, <2>2 DEF Surjection
<1>2. /\ IsFiniteSet(T) /\ Cardinality(T) <= Cardinality(S)
      /\ Cardinality(T) = Cardinality(S) <=> f \in Injection(S, T)
  BY <1>1, FS_Surjection
<1>3. f \in Injection(S, T) <=> \A x, y \in S : f[x] = f[y] => x = y
  <2>1. f \in [S -> T]
    OBVIOUS
  <2> QED
    BY <2>1 DEF Injection, IsInjective
<1>4. Cardinality(T) \in Nat /\ Cardinality(S) \in Nat
  BY <1>2, FS_CardinalityType
<1> QED
  BY <1>2, <1>3, <1>4

LEMMA Appended ==
    ASSUME NEW S, NEW a \in Seq(S), NEW b \in Seq(S)
    PROVE  a \o b \in Seq(S) /\ Len(a \o b) = Len(a) + Len(b) /\ Len(b) \in Nat
OBVIOUS

-----------------------------------------------------------------------------
(* Labels                                                                   *)

\* What the resolver maps, the index maps to the same capability.
LEMMA ResolvedIndexed ==
    ASSUME NEW catalogue, DOMAIN catalogue \subseteq Nat \ {Unmapped}, NEW label,
           Resolved(catalogue, label) # Unmapped
    PROVE  Indexed(catalogue, label) = Resolved(catalogue, label)
<1>1. PICK N, A : N = NamedBy(catalogue, label) /\ A = AliasedBy(catalogue, label)
  OBVIOUS
<1>2. N \subseteq Nat \ {Unmapped} /\ A \subseteq Nat \ {Unmapped}
  BY <1>1 DEF NamedBy, AliasedBy
<1>3. ASSUME NEW cs, cs \subseteq Nat \ {Unmapped}, Only(cs) # Unmapped
      PROVE  cs # {} /\ First(cs) = Only(cs) /\ First(cs) # Unmapped
  <2>1. Cardinality(cs) = 1 /\ Only(cs) = Min(cs)
    BY <1>3 DEF Only
  <2>2. cs # {}
    BY <2>1, FS_EmptySet
  <2> QED
    BY <1>3, <2>1, <2>2 DEF First
<1>4. CASE N # {}
  <2>1. Resolved(catalogue, label) = Only(N)
    BY <1>1, <1>4 DEF Resolved
  <2>2. Canonical(catalogue, label) = First(N)
    BY <1>1 DEF Canonical
  <2> QED
    BY <1>2, <1>3, <2>1, <2>2 DEF Indexed
<1>5. CASE N = {}
  <2>1. Resolved(catalogue, label) = Only(A)
    BY <1>1, <1>5 DEF Resolved
  <2>2. Canonical(catalogue, label) = Unmapped /\ Alias(catalogue, label) = First(A)
    BY <1>1, <1>5 DEF Canonical, Alias, First
  <2> QED
    BY <1>2, <1>3, <2>1, <2>2 DEF Indexed
<1> QED
  BY <1>4, <1>5

LEMMA LabelsAgreeAlways ==
    ASSUME NEW catalogue, NEW labels, AreLabels(catalogue, labels)
    PROVE  LabelsAgreeOn(catalogue, labels)
<1> DEFINE Same(a, b) == SameSkill(catalogue, a, b)
           kept == {i \in DOMAIN labels :
                       /\ labels[i] # Blank
                       /\ \A k \in 1 .. i - 1 : labels[k] # Blank => ~ Same(labels[k], labels[i])}
<1>1. PICK mapped : mapped = MapSkillLabels(catalogue, labels)
  OBVIOUS
<1>2. /\ DOMAIN mapped = kept
      /\ \A i \in kept : /\ mapped[i].label = labels[i]
                         /\ mapped[i].capability = Indexed(catalogue, labels[i])
  BY <1>1 DEF MapSkillLabels
<1>3. DOMAIN labels = 1 .. Len(labels) /\ Len(labels) \in Nat
  BY DEF AreLabels
<1>4. ASSUME NEW i \in DOMAIN labels, labels[i] # Blank
      PROVE  \E k \in kept : labels[k] = labels[i]
                                \/ Indexed(catalogue, labels[k]) = Indexed(catalogue, labels[i])
  <2> DEFINE Alike == {k \in DOMAIN labels : labels[k] # Blank /\ Same(labels[k], labels[i])}
  <2>1. i \in Alike /\ Alike \in SUBSET Nat
    BY <1>3, <1>4 DEF SameSkill
  <2>2. PICK k \in Alike : \A m \in Alike : k <= m
    <3> HIDE DEF Alike
    <3> QED
      BY <2>1, LeastNumber
  <2>3. k \in 1 .. Len(labels) /\ labels[k] # Blank /\ Same(labels[k], labels[i])
    BY <1>3, <2>2
  <2>4. ASSUME NEW m \in 1 .. k - 1, labels[m] # Blank, Same(labels[m], labels[k]) PROVE FALSE
    <3>1. m \in 1 .. Len(labels) /\ ~ (k <= m)
      BY <1>3, <2>3
    <3>2. Same(labels[m], labels[i])
      BY <2>3, <2>4 DEF SameSkill
    <3>3. m \in Alike
      BY <1>3, <2>4, <3>1, <3>2
    <3> QED
      BY <2>2, <3>1, <3>3
  <2>5. k \in kept
    BY <1>3, <2>3, <2>4
  <2> QED
    BY <2>3, <2>5 DEF SameSkill
<1>5. DOMAIN catalogue \subseteq Nat \ {Unmapped}
  BY DEF AreLabels
<1>6. ASSUME NEW e \in ResolveCapabilityLabels(catalogue, labels), e.capability # Unmapped
      PROVE  \E m \in Range(mapped) : m.capability = e.capability
  <2>1. PICK i \in DOMAIN labels : labels[i] # Blank /\ e.capability = Resolved(catalogue, labels[i])
    BY DEF ResolveCapabilityLabels, ToSet
  <2>2. Indexed(catalogue, labels[i]) = e.capability
    BY <1>5, <1>6, <2>1, ResolvedIndexed
  <2>3. PICK k \in kept : Indexed(catalogue, labels[k]) = Indexed(catalogue, labels[i])
    BY <1>4, <2>1
  <2>4. mapped[k].capability = e.capability /\ mapped[k] \in Range(mapped)
    BY <1>2, <2>2, <2>3 DEF Range
  <2> QED
    BY <2>4
<1>7. ASSUME NEW m \in Range(mapped)
      PROVE  Resolved(catalogue, m.label) \in {Unmapped, m.capability}
  <2>1. PICK i \in kept : m = mapped[i]
    BY <1>2 DEF Range
  <2>2. m.label = labels[i] /\ m.capability = Indexed(catalogue, labels[i])
    BY <1>2, <2>1
  <2> QED
    BY <1>5, <2>2, ResolvedIndexed
<1>8. ASSUME NEW i \in kept, NEW k \in kept, k < i
      PROVE  /\ labels[i] # labels[k]
             /\ Indexed(catalogue, labels[i]) = Unmapped
                  \/ Indexed(catalogue, labels[i]) # Indexed(catalogue, labels[k])
  <2>1. k \in 1 .. i - 1
    BY <1>3, <1>8
  <2>2. ~ Same(labels[k], labels[i])
    BY <2>1
  <2> QED
    BY <2>2 DEF SameSkill
<1>9. ASSUME NEW i \in kept, NEW k \in kept, i # k
      PROVE  /\ mapped[i].label # mapped[k].label
             /\ mapped[i].capability = Unmapped \/ mapped[i].capability # mapped[k].capability
  <2>1. i < k \/ k < i
    BY <1>3, <1>9
  <2>2. /\ labels[i] # labels[k]
        /\ Indexed(catalogue, labels[i]) = Unmapped
              \/ Indexed(catalogue, labels[i]) # Indexed(catalogue, labels[k])
    BY <1>8, <2>1
  <2> QED
    BY <1>2, <2>2
<1> HIDE DEF kept
<1> QED
  BY <1>1, <1>2, <1>6, <1>7, <1>9 DEF LabelsAgreeOn

-----------------------------------------------------------------------------
(* Rows                                                                     *)

LEMMA MonthlyGrows ==
    ASSUME NEW low \in Nat, NEW high \in Nat, low <= high,
           NEW m \in {1, 1000, 10000}, NEW daily
    PROVE  /\ Monthly(low, m, daily) \in Nat /\ Monthly(high, m, daily) \in Nat
           /\ Monthly(low, m, daily) <= Monthly(high, m, daily)
<1>1. CASE m = 1
  BY <1>1 DEF Monthly, HalfUp
<1>2. CASE m = 1000
  BY <1>2 DEF Monthly, HalfUp
<1>3. CASE m = 10000
  BY <1>3 DEF Monthly, HalfUp
<1> QED
  BY <1>1, <1>2, <1>3

LEMMA SalaryAccepted ==
    ASSUME NEW row, NEW anchor, IsRow(row, anchor), PlainRange(row.salary)
    PROVE  SalaryConstraint(NormalizeSalary(row.salary))
<1>1. PICK text : text = row.salary
  OBVIOUS
<1>2. /\ text.daily \in BOOLEAN /\ text.salaries \in Nat
      /\ text.amounts \in Seq(ToSet(text.amounts))
      /\ \A i \in DOMAIN text.amounts : text.amounts[i].tenths \in Nat
      /\ Len(text.amounts) >= 2 => text.amounts[1].tenths <= text.amounts[2].tenths
      /\ Len(text.amounts) < 2 => text.salaries = 0
  BY <1>1 DEF IsRow, PlainRange
<1>3. PICK n \in Nat : n = Len(text.amounts) /\ DOMAIN text.amounts = 1 .. n
  BY <1>2
<1>4. PICK m \in {1, 1000, 10000} : m = Multiplier(text)
  BY DEF Multiplier
<1> DEFINE ends == [i \in 1 .. n |-> text.amounts[i].tenths]
           more == IF text.salaries = 0 THEN <<>> ELSE <<10 * text.salaries>>
           numbers == ends \o more
<1>5. ends \in Seq(Nat) /\ Len(ends) = n /\ \A i \in 1 .. n : ends[i] = text.amounts[i].tenths
  BY <1>2, <1>3
<1>6. more \in Seq(Nat) /\ (text.salaries = 0 => Len(more) = 0)
  <2>1. CASE text.salaries = 0
    <3>1. more = <<>>
      BY <2>1
    <3> QED
      BY <3>1
  <2>2. CASE text.salaries # 0
    <3>1. more = <<10 * text.salaries>>
      BY <2>2
    <3> QED
      BY <1>2, <2>2, <3>1
  <2> QED
    BY <2>1, <2>2
<1>8. NormalizeSalary(text) =
        IF text.blank
        THEN [min |-> None, max |-> None, flags |-> {"salary_missing"}]
        ELSE IF numbers = <<>>
             THEN [min |-> None, max |-> None, flags |-> {"salary_unparsed"}]
             ELSE [min |-> Monthly(numbers[1], m, text.daily),
                   max |-> IF Len(numbers) > 1 THEN Monthly(numbers[2], m, text.daily)
                           ELSE Monthly(numbers[1], m, text.daily),
                   flags |-> IF text.daily THEN {"salary_period_converted"} ELSE {}]
  BY <1>3, <1>4 DEF NormalizeSalary
<1> HIDE DEF ends, more
<1>9. Len(ends) = n /\ Len(numbers) = n + Len(more) /\ Len(more) \in Nat
      /\ numbers \in Seq(Nat) /\ \A i \in 1 .. n : numbers[i] = text.amounts[i].tenths
  <2>1. Len(more) \in Nat /\ numbers \in Seq(Nat) /\ Len(numbers) = Len(ends) + Len(more)
    <3>1. ends \in Seq(Nat) /\ more \in Seq(Nat)
      BY <1>5, <1>6
    <3> QED
      BY <3>1, Appended
  <2>2. ASSUME NEW i \in 1 .. n PROVE numbers[i] = ends[i]
    BY <1>5, <1>6, <2>2
  <2> HIDE DEF numbers
  <2> QED
    BY <1>5, <2>1, <2>2
<1> HIDE DEF numbers
<1>10. PICK s : s = NormalizeSalary(text)
  OBVIOUS
<1>11. CASE text.blank \/ numbers = <<>>
  <2>1. s.min = None /\ s.max = None
    BY <1>8, <1>10, <1>11
  <2> QED
    BY <1>1, <1>10, <2>1 DEF SalaryConstraint
<1>12. CASE ~ text.blank /\ numbers # <<>> /\ Len(numbers) <= 1
  <2>1. PICK first \in Nat : first = numbers[1]
    BY <1>9, <1>12
  <2>2. PICK end \in Nat : end = Monthly(first, m, text.daily)
    BY MonthlyGrows
  <2>3. s.min = end /\ s.max = end
    BY <1>8, <1>10, <1>12, <2>1, <2>2
  <2> QED
    BY <1>1, <1>10, <2>3 DEF SalaryConstraint
<1>13. CASE ~ text.blank /\ Len(numbers) > 1
  <2>1. n >= 2
    <3>1. CASE n = 0
      BY <1>2, <1>3, <1>6, <1>9, <1>13, <3>1
    <3>2. CASE n = 1
      BY <1>2, <1>3, <1>6, <1>9, <1>13, <3>2
    <3> QED
      BY <3>1, <3>2
  <2>2. PICK first : first = numbers[1]
    OBVIOUS
  <2>3. PICK second : second = numbers[2]
    OBVIOUS
  <2>4. first \in Nat /\ second \in Nat /\ first <= second
    <3>1. first = text.amounts[1].tenths /\ second = text.amounts[2].tenths
      BY <1>9, <2>1, <2>2, <2>3
    <3> QED
      BY <1>2, <1>3, <2>1, <3>1
  <2>5. PICK least : least = Monthly(first, m, text.daily)
    OBVIOUS
  <2>6. PICK most : most = Monthly(second, m, text.daily)
    OBVIOUS
  <2>7. least \in Nat /\ most \in Nat /\ least <= most
    BY <2>4, <2>5, <2>6, MonthlyGrows
  <2>8. s.min = least /\ s.max = most
    BY <1>8, <1>10, <1>13, <2>2, <2>3, <2>5, <2>6
  <2> QED
    BY <1>1, <1>10, <2>7, <2>8 DEF SalaryConstraint
<1> QED
  BY <1>11, <1>12, <1>13

LEMMA ExperienceAccepted ==
    ASSUME NEW row, NEW anchor, IsRow(row, anchor), NEW worked,
           worked = NormalizeExperience(row.experience)
    PROVE  worked.min = None \/ worked.max = None \/ worked.min <= worked.max
<1>1. PICK text : text = row.experience
  OBVIOUS
<1>2. /\ text.low \in Nat /\ text.high \in Nat
      /\ text.form = "range" => text.low <= text.high
  BY <1>1 DEF IsRow
<1>3. worked = NormalizeExperience(text)
  BY <1>1
<1>4. CASE text.form = "none"
  BY <1>3, <1>4 DEF NormalizeExperience
<1>5. CASE text.form = "range"
  BY <1>2, <1>3, <1>5 DEF NormalizeExperience
<1>6. CASE text.form = "up_to"
  BY <1>2, <1>3, <1>6 DEF NormalizeExperience
<1>7. CASE text.form \notin {"none", "range", "up_to"}
  <2>1. worked.max = None
    BY <1>3, <1>7 DEF NormalizeExperience
  <2> QED
    BY <2>1
<1> QED
  BY <1>4, <1>5, <1>6, <1>7

LEMMA FiveAtMost ==
    ASSUME NEW a, NEW b, NEW c, NEW d, NEW e
    PROVE  IsFiniteSet({a, b, c, d, e}) /\ Cardinality({a, b, c, d, e}) <= 5
<1>1. PICK P : P = 1 .. 5
  OBVIOUS
<1>2. IsFiniteSet(P) /\ Cardinality(P) = 5
  <2>1. PICK n \in Nat : n = 5
    OBVIOUS
  <2>2. P = 1 .. n
    BY <1>1, <2>1
  <2>3. IsFiniteSet(P) /\ Cardinality(P) = n
    BY <2>2, FS_Interval
  <2> QED
    BY <2>1, <2>3
<1>3. PICK f : f = [i \in P |-> IF i = 1 THEN a ELSE IF i = 2 THEN b ELSE IF i = 3 THEN c
                               ELSE IF i = 4 THEN d ELSE e]
  OBVIOUS
<1>4. PICK T : T = {f[i] : i \in P}
  OBVIOUS
<1>5. T = {a, b, c, d, e}
  BY <1>1, <1>3, <1>4
<1>6. IsFiniteSet(T) /\ Cardinality(T) <= Cardinality(P)
  BY <1>2, <1>3, <1>4, ImageCounts
<1> QED
  BY <1>2, <1>5, <1>6

\* Flags cost at most 20, 20 and 25 points, and but for three of them 25.
LEMMA QualityBounded ==
    ASSUME NEW rejected \in BOOLEAN, NEW flags
    PROVE  /\ QualityScore(rejected, flags) \in 0 .. 100
           /\ \/ QualityScore(rejected, flags) >= 60
              \/ rejected
              \/ flags \cap {"missing_company_name", "missing_skill_requirements",
                             "garbled_text"} # {}
<1> DEFINE At(points) == {flag \in flags : Penalty(flag) = points}
           Twenty == {"garbled_text"}
           Ten == {"missing_company_name", "missing_skill_requirements"}
           Five == {"issue_date_missing", "salary_period_converted", "salary_unparsed",
                    "experience_unparsed", "city_conflict"}
<1>1. /\ At(20) \in SUBSET Twenty /\ At(10) \in SUBSET Ten /\ At(5) \in SUBSET Five
  BY DEF Penalty
<1>2. IsFiniteSet(Twenty) /\ IsFiniteSet(Ten) /\ IsFiniteSet(Five) /\ Cardinality(Five) <= 5
  <2>1. IsFiniteSet(Twenty)
    BY FS_Singleton
  <2>2. IsFiniteSet(Ten)
    <3>1. IsFiniteSet({"missing_company_name"}) /\ IsFiniteSet({"missing_skill_requirements"})
      BY FS_Singleton
    <3>2. Ten = {"missing_company_name"} \cup {"missing_skill_requirements"}
      OBVIOUS
    <3> QED
      BY <3>1, <3>2, FS_Union
  <2> QED
    BY <2>1, <2>2, FiveAtMost
<1>3. PICK A, B, C : A = At(20) /\ B = At(10) /\ C = At(5)
  OBVIOUS
<1>4. /\ Cardinality(A) \in Nat /\ Cardinality(B) \in Nat /\ Cardinality(C) \in Nat
      /\ Cardinality(C) <= 5
  <2>1. IsFiniteSet(A) /\ IsFiniteSet(B) /\ IsFiniteSet(C) /\ Cardinality(C) <= Cardinality(Five)
    BY <1>1, <1>2, <1>3, FS_Subset
  <2>2. /\ Cardinality(A) \in Nat /\ Cardinality(B) \in Nat /\ Cardinality(C) \in Nat
        /\ Cardinality(Five) \in Nat
    BY <1>2, <2>1, FS_CardinalityType
  <2> QED
    BY <1>2, <2>1, <2>2
<1>5. PICK a \in Nat, b \in Nat, c \in Nat :
         a = Cardinality(A) /\ b = Cardinality(B) /\ c = Cardinality(C) /\ c <= 5
  BY <1>4
<1>6. QualityScore(rejected, flags) =
        IF rejected THEN 0
        ELSE IF 100 - (20 * a + 10 * b + 5 * c) < 0 THEN 0
        ELSE 100 - (20 * a + 10 * b + 5 * c)
  BY <1>3, <1>5 DEF QualityScore
<1>7. QualityScore(rejected, flags) \in 0 .. 100
  BY <1>6
<1>8. ASSUME flags \cap {"missing_company_name", "missing_skill_requirements", "garbled_text"} = {}
      PROVE  A = {} /\ B = {}
  BY <1>1, <1>3, <1>8
<1>9. ASSUME ~ rejected, A = {}, B = {} PROVE QualityScore(rejected, flags) >= 60
  <2>1. a = 0 /\ b = 0
    BY <1>5, <1>9, FS_EmptySet
  <2> QED
    BY <1>5, <1>6, <1>9, <2>1
<1> QED
  BY <1>7, <1>8, <1>9

\* The latest such day not after the anchor, but for 29 February.
LEMMA MonthDayLatest ==
    ASSUME NEW row, NEW anchor, IsRow(row, anchor), row.date.form = "month_day",
           NEW date, date = MonthDay(row.date.month, row.date.day, anchor)
    PROVE  /\ date = NoDate => ~ IsDate(<<anchor[1], row.date.month, row.date.day>>)
           /\ date = Raises =>
                 /\ row.date.month = 2 /\ row.date.day = 29 /\ Leap(anchor[1])
                 /\ Ordinal(anchor) < Ordinal(<<anchor[1], 2, 29>>)
           /\ date # NoDate /\ date # Raises =>
                 /\ IsDate(date) /\ date[2] = row.date.month /\ date[3] = row.date.day
                 /\ Ordinal(date) <= Ordinal(anchor)
                 /\ Ordinal(<<date[1] + 1, row.date.month, row.date.day>>) > Ordinal(anchor)
<1>1. PICK m \in Nat, d \in Nat, y \in Nat, am \in Nat, ad \in Nat :
         /\ m = row.date.month /\ d = row.date.day /\ y = anchor[1] /\ am = anchor[2]
         /\ ad = anchor[3] /\ y # 0
  BY DEF IsRow
<1>2. anchor = <<y, am, ad>> /\ am \in 1 .. 12 /\ ad \in 1 .. 31
  <2>1. am \in 1 .. 12 /\ ad \in 1 .. DaysIn(y, am)
    BY <1>1 DEF IsRow, IsDate
  <2>2. DaysIn(y, am) \in 28 .. 31
    BY DEF DaysIn
  <2>3. anchor = <<y, am, ad>>
    BY <1>1 DEF IsRow
  <2> QED
    BY <2>1, <2>2, <2>3
<1>3. \A k : DaysIn(k, m) \in 28 .. 31
  BY DEF DaysIn
<1>4. PICK this, last : this = <<y, m, d>> /\ last = <<y - 1, m, d>>
  OBVIOUS
<1>5. date = IF ~ IsDate(this) THEN NoDate
             ELSE IF ~ After(this, anchor) THEN this
             ELSE IF IsDate(last) THEN last ELSE Raises
  BY <1>1, <1>4 DEF MonthDay
<1>6. IsDate(this) => m \in 1 .. 12 /\ d \in 1 .. 31
  BY <1>3, <1>4 DEF IsDate
<1>7. /\ Ordinal(this) = y * 10000 + m * 100 + d
      /\ Ordinal(last) = (y - 1) * 10000 + m * 100 + d
      /\ Ordinal(anchor) = y * 10000 + am * 100 + ad
      /\ Ordinal(<<y + 1, m, d>>) = (y + 1) * 10000 + m * 100 + d
  BY <1>2, <1>4 DEF Ordinal
<1>8. NoDate # Raises
  BY DEF NoDate, Raises
<1>9. CASE ~ IsDate(this)
  BY <1>1, <1>4, <1>5, <1>8, <1>9
<1>10. CASE IsDate(this) /\ ~ After(this, anchor)
  <2>1. date = this /\ this # NoDate /\ this # Raises
    BY <1>1, <1>4, <1>5, <1>10 DEF NoDate, Raises
  <2>2. date[1] = y /\ date[2] = m /\ date[3] = d
    BY <1>4, <2>1
  <2>3. Ordinal(date) <= Ordinal(anchor) /\ Ordinal(<<y + 1, m, d>>) > Ordinal(anchor)
    BY <1>2, <1>6, <1>7, <1>10, <2>1 DEF After
  <2> QED
    BY <1>1, <1>10, <2>1, <2>2, <2>3
<1>11. CASE IsDate(this) /\ After(this, anchor) /\ IsDate(last)
  <2>1. date = last /\ last # NoDate /\ last # Raises
    BY <1>1, <1>4, <1>5, <1>6, <1>11 DEF NoDate, Raises
  <2>2. date[1] = y - 1 /\ date[2] = m /\ date[3] = d
    BY <1>4, <2>1
  <2>3. Ordinal(date) <= Ordinal(anchor)
    BY <1>2, <1>6, <1>7, <1>11, <2>1
  <2>4. Ordinal(<<date[1] + 1, m, d>>) > Ordinal(anchor)
    <3>1. <<date[1] + 1, m, d>> = this
      BY <1>4, <2>2
    <3> QED
      BY <1>7, <1>11, <3>1 DEF After
  <2> QED
    BY <1>1, <1>11, <2>1, <2>2, <2>3, <2>4
<1>12. CASE IsDate(this) /\ After(this, anchor) /\ ~ IsDate(last)
  <2>1. date = Raises
    BY <1>5, <1>12
  <2>2. m = 2 /\ d = 29 /\ Leap(y)
    <3>1. m \in 1 .. 12 /\ d \in 1 .. DaysIn(y, m) /\ d \notin 1 .. DaysIn(y - 1, m)
      BY <1>4, <1>12 DEF IsDate
    <3> QED
      BY <1>1, <3>1 DEF DaysIn
  <2>3. Ordinal(anchor) < Ordinal(<<y, 2, 29>>)
    BY <1>4, <1>7, <1>12, <2>2 DEF After
  <2> QED
    BY <1>1, <1>8, <2>1, <2>2, <2>3
<1> QED
  BY <1>9, <1>10, <1>11, <1>12

LEMMA RowAlwaysNormalizes ==
    ASSUME NEW row, NEW anchor, IsRow(row, anchor)
    PROVE  RowNormalizesOn(row, anchor)
<1>1. PICK n : n = NormalizeRow(row, anchor)
  OBVIOUS
<1> DEFINE warnings == ParseWarnings(row.columns, row.source, row.requested)
<1>2. /\ n.salary = NormalizeSalary(row.salary)
      /\ n.date = NormalizeDate(row.date, anchor)
      /\ n.experience = NormalizeExperience(row.experience)
      /\ n.quality = QualityScore(IsRejected(warnings), n.flags)
      /\ warnings \subseteq n.flags
  BY <1>1 DEF NormalizeRow
<1>3. IsRejected(warnings) \in BOOLEAN /\ (IsRejected(warnings) => "missing_job_name" \in n.flags)
  BY <1>2 DEF IsRejected
<1>4. PICK rejected \in BOOLEAN : rejected <=> IsRejected(warnings)
  BY <1>3
<1> HIDE DEF warnings
<1>5. PlainRange(row.salary) => RowConstraints(n)
  BY <1>2, <1>3, QualityBounded, SalaryAccepted, ExperienceAccepted DEF RowConstraints
<1>6. n.quality >= 60 \/ n.flags \cap {"missing_company_name",
              "missing_skill_requirements", "garbled_text", "missing_job_name"} # {}
  BY <1>2, <1>3, QualityBounded
<1>7. row.date.form = "month_day" => n.date = MonthDay(row.date.month, row.date.day, anchor)
  BY <1>2 DEF NormalizeDate
<1>8. ASSUME row.date.form = "month_day"
      PROVE  CASE n.date = NoDate ->
                      ~ IsDate(<<anchor[1], row.date.month, row.date.day>>)
                [] n.date = Raises ->
                      /\ row.date.month = 2 /\ row.date.day = 29
                      /\ Leap(anchor[1])
                      /\ Ordinal(anchor) < Ordinal(<<anchor[1], 2, 29>>)
                [] OTHER ->
                      /\ IsDate(n.date) /\ n.date[2] = row.date.month /\ n.date[3] = row.date.day
                      /\ Ordinal(n.date) <= Ordinal(anchor)
                      /\ Ordinal(<<n.date[1] + 1, row.date.month, row.date.day>>)
                           > Ordinal(anchor)
  <2>1. PICK date : date = n.date /\ date = MonthDay(row.date.month, row.date.day, anchor)
    BY <1>7, <1>8
  <2>2. NoDate # Raises
    BY DEF NoDate, Raises
  <2>3. date = NoDate => ~ IsDate(<<anchor[1], row.date.month, row.date.day>>)
    BY <1>8, <2>1, MonthDayLatest
  <2>4. date = Raises => /\ row.date.month = 2 /\ row.date.day = 29
                         /\ Leap(anchor[1])
                         /\ Ordinal(anchor) < Ordinal(<<anchor[1], 2, 29>>)
    BY <1>8, <2>1, MonthDayLatest
  <2>5. date # NoDate /\ date # Raises =>
           /\ IsDate(date) /\ date[2] = row.date.month /\ date[3] = row.date.day
           /\ Ordinal(date) <= Ordinal(anchor)
           /\ Ordinal(<<date[1] + 1, row.date.month, row.date.day>>) > Ordinal(anchor)
    BY <1>8, <2>1, MonthDayLatest
  <2> QED
    BY <2>1, <2>2, <2>3, <2>4, <2>5
<1> QED
  BY <1>1, <1>5, <1>6, <1>8 DEF RowNormalizesOn

-----------------------------------------------------------------------------
(* Ranking                                                                  *)

Key == [1 .. 8 -> Int]

LEMMA KeyOfEight ==
    ASSUME NEW a \in Int, NEW b \in Int, NEW c \in Int, NEW d \in Int,
           NEW e \in Int, NEW f \in Int, NEW g \in Int, NEW h \in Int,
           NEW key, key = <<a, b, c, d, e, f, g, h>>
    PROVE  key \in Key /\ key[1] = a /\ key[8] = h
<1>1. DOMAIN key = 1 .. 8 /\ key = [i \in 1 .. 8 |-> key[i]]
  OBVIOUS
<1>2. /\ key[1] = a /\ key[2] = b /\ key[3] = c /\ key[4] = d
      /\ key[5] = e /\ key[6] = f /\ key[7] = g /\ key[8] = h
  OBVIOUS
<1>3. \A i \in 1 .. 8 : key[i] \in Int
  BY <1>2
<1> QED
  BY <1>1, <1>2, <1>3 DEF Key

LEMMA KeysOrdered ==
    ASSUME NEW a \in Key, NEW b \in Key
    PROVE  /\ ~ LessKey(a, a)
           /\ a = b \/ LessKey(a, b) \/ LessKey(b, a)
           /\ LessKey(a, b) => a[1] <= b[1]
<1>1. ~ LessKey(a, a)
  BY DEF LessKey, Key
<1>2. ASSUME a # b PROVE LessKey(a, b) \/ LessKey(b, a)
  <2> DEFINE Different == {i \in 1 .. 8 : a[i] # b[i]}
  <2>1. Different # {} /\ Different \in SUBSET Nat
    BY <1>2 DEF Key
  <2> HIDE DEF Different
  <2>2. PICK i \in Different : \A k \in Different : i <= k
    BY <2>1, LeastNumber
  <2> USE DEF Different
  <2>3. i \in 1 .. 8 /\ a[i] # b[i] /\ a[i] \in Int /\ b[i] \in Int
    BY <2>2 DEF Key
  <2>4. \A k \in 1 .. i - 1 : a[k] = b[k]
    <3> SUFFICES ASSUME NEW k \in 1 .. i - 1, a[k] # b[k] PROVE FALSE
      OBVIOUS
    <3>1. k \in 1 .. 8 /\ ~ (i <= k)
      BY <2>3
    <3> QED
      BY <2>2, <3>1
  <2>5. DOMAIN a = 1 .. 8 /\ DOMAIN b = 1 .. 8
    BY DEF Key
  <2>6. a[i] < b[i] \/ b[i] < a[i]
    BY <2>3
  <2> QED
    BY <2>3, <2>4, <2>5, <2>6 DEF LessKey
<1>3. ASSUME LessKey(a, b) PROVE a[1] <= b[1]
  <2>1. PICK i \in 1 .. 8 : a[i] < b[i] /\ \A k \in 1 .. i - 1 : a[k] = b[k]
    BY <1>3 DEF LessKey, Key
  <2>2. a[1] \in Int /\ b[1] \in Int
    BY DEF Key
  <2>3. CASE i = 1
    BY <2>1, <2>2, <2>3
  <2>4. CASE i # 1
    <3>1. 1 \in 1 .. i - 1
      BY <2>4
    <3> QED
      BY <2>1, <2>2, <3>1
  <2> QED
    BY <2>3, <2>4
<1> QED
  BY <1>1, <1>2, <1>3

LEMMA KeysTransitive ==
    ASSUME NEW a \in Key, NEW b \in Key, NEW c \in Key, LessKey(a, b), LessKey(b, c)
    PROVE  LessKey(a, c)
<1>1. DOMAIN a = 1 .. 8 /\ DOMAIN b = 1 .. 8 /\ \A i \in 1 .. 8 : a[i] \in Int /\ b[i] \in Int /\ c[i] \in Int
  BY DEF Key
<1>2. PICK i \in 1 .. 8 : a[i] < b[i] /\ \A k \in 1 .. i - 1 : a[k] = b[k]
  BY <1>1 DEF LessKey
<1>3. PICK j \in 1 .. 8 : b[j] < c[j] /\ \A k \in 1 .. j - 1 : b[k] = c[k]
  BY <1>1 DEF LessKey
<1>4. CASE i <= j
  <2>1. a[i] < c[i]
    <3>1. CASE i = j
      BY <1>1, <1>2, <1>3, <3>1
    <3>2. CASE i < j
      <4>1. i \in 1 .. j - 1
        BY <3>2
      <4> QED
        BY <1>1, <1>2, <1>3, <4>1
    <3> QED
      BY <1>4, <3>1, <3>2
  <2>2. \A k \in 1 .. i - 1 : a[k] = c[k]
    <3>1. \A k \in 1 .. i - 1 : k \in 1 .. j - 1
      BY <1>4
    <3> QED
      BY <1>2, <1>3, <3>1
  <2> QED
    BY <1>1, <2>1, <2>2 DEF LessKey
<1>5. CASE j < i
  <2>1. j \in 1 .. i - 1
    BY <1>5
  <2>2. a[j] < c[j]
    BY <1>1, <1>2, <1>3, <2>1
  <2>3. \A k \in 1 .. j - 1 : a[k] = c[k]
    <3>1. \A k \in 1 .. j - 1 : k \in 1 .. i - 1
      BY <1>5
    <3> QED
      BY <1>2, <1>3, <3>1
  <2> QED
    BY <1>1, <2>2, <2>3 DEF LessKey
<1> QED
  BY <1>4, <1>5

\* Whoever is ahead, how many are, and what is known of both.
Ahead(values, i, k) == LessKey(RankKey(values[i]), RankKey(values[k]))
AllAhead(values, i) == {k \in DOMAIN values : Ahead(values, k, i)}
Place(values, i) == Cardinality(AllAhead(values, i))

LEMMA RankableKeys ==
    ASSUME NEW values, IsRankable(values)
    PROVE  /\ DOMAIN values = 1 .. Len(values) /\ Len(values) \in Nat
           /\ \A i \in DOMAIN values : /\ RankKey(values[i]) \in Key
                                       /\ RankKey(values[i])[1] = - values[i].total
           /\ \A i, k \in DOMAIN values : RankKey(values[i]) = RankKey(values[k]) => i = k
<1>1. DOMAIN values = 1 .. Len(values) /\ Len(values) \in Nat
  BY DEF IsRankable
<1>2. ASSUME NEW i \in DOMAIN values
      PROVE  /\ RankKey(values[i]) \in Key /\ RankKey(values[i])[8] = values[i].id
             /\ RankKey(values[i])[1] = - values[i].total
  <2>1. PICK v : v = values[i]
    OBVIOUS
  <2>2. /\ v.total \in Int /\ v.name \in Int /\ v.id \in Int
        /\ v.parts[1] \in Int /\ v.parts[2] \in Int /\ v.parts[3] \in Int
        /\ v.parts[4] \in Int /\ v.parts[5] \in Int
    BY <2>1 DEF IsRankable
  <2>3. RankKey(v) \in Key /\ RankKey(v)[8] = v.id /\ RankKey(v)[1] = - v.total
    <3>1. /\ - v.total \in Int /\ - v.parts[1] \in Int /\ - v.parts[2] \in Int
          /\ - v.parts[3] \in Int /\ - v.parts[4] \in Int /\ - v.parts[5] \in Int
      BY <2>2
    <3>2. PICK a \in Int, b \in Int, c \in Int, d \in Int, e \in Int, f \in Int :
             /\ a = - v.total /\ b = - v.parts[1] /\ c = - v.parts[3] /\ d = - v.parts[4]
             /\ e = - v.parts[2] /\ f = - v.parts[5]
      BY <3>1
    <3>3. PICK g \in Int, h \in Int : g = v.name /\ h = v.id
      BY <2>2
    <3>4. PICK key : key = <<a, b, c, d, e, f, g, h>>
      OBVIOUS
    <3>5. RankKey(v) = key
      BY <3>2, <3>3, <3>4 DEF RankKey, KeyOf
    <3>6. key \in Key /\ key[1] = a /\ key[8] = h
      BY <3>4, KeyOfEight
    <3> QED
      BY <3>2, <3>3, <3>5, <3>6
  <2> QED
    BY <2>1, <2>3
<1>3. \A i, k \in DOMAIN values : values[i].id = values[k].id => i = k
  BY DEF IsRankable
<1> QED
  BY <1>1, <1>2, <1>3

LEMMA AheadOrders ==
    ASSUME NEW values, IsRankable(values), NEW i \in DOMAIN values, NEW k \in DOMAIN values
    PROVE  /\ ~ Ahead(values, i, i)
           /\ i # k => Ahead(values, i, k) \/ Ahead(values, k, i)
           /\ Ahead(values, i, k) => values[i].total >= values[k].total
           /\ \A j \in DOMAIN values : Ahead(values, i, k) /\ Ahead(values, k, j) => Ahead(values, i, j)
<1>1. \A j \in DOMAIN values : RankKey(values[j]) \in Key /\ RankKey(values[j])[1] = - values[j].total
  BY RankableKeys
<1>2. i # k => RankKey(values[i]) # RankKey(values[k])
  BY RankableKeys
<1>3. values[i].total \in Int /\ values[k].total \in Int
  BY DEF IsRankable
<1>4. Ahead(values, i, k) => - values[i].total <= - values[k].total
  BY <1>1, KeysOrdered DEF Ahead
<1> QED
  BY <1>1, <1>2, <1>3, <1>4, KeysOrdered, KeysTransitive DEF Ahead

\* Every value has a place of its own, and every place a value.
LEMMA PlacesTaken ==
    ASSUME NEW values, IsRankable(values)
    PROVE  /\ \A i \in DOMAIN values : Place(values, i) \in Nat /\ Place(values, i) + 1 \in DOMAIN values
           /\ \A i, k \in DOMAIN values : Ahead(values, i, k) <=> Place(values, i) < Place(values, k)
           /\ \A i, k \in DOMAIN values : Place(values, i) = Place(values, k) => i = k
           /\ \A r \in DOMAIN values : \E i \in DOMAIN values : Place(values, i) = r - 1
<1> DEFINE D == 1 .. Len(values)
<1>1. DOMAIN values = D /\ Len(values) \in Nat
  BY RankableKeys
<1>2. IsFiniteSet(D) /\ Cardinality(D) = Len(values)
  <2>1. PICK n \in Nat : n = Len(values)
    BY <1>1
  <2>2. IsFiniteSet(1 .. n) /\ Cardinality(1 .. n) = n
    BY FS_Interval
  <2> QED
    BY <2>1, <2>2
<1>3. ASSUME NEW i \in D
      PROVE  /\ IsFiniteSet(AllAhead(values, i)) /\ Place(values, i) \in Nat
             /\ Place(values, i) < Len(values)
  <2>1. AllAhead(values, i) \in SUBSET D /\ i \notin AllAhead(values, i)
    BY <1>1, AheadOrders DEF AllAhead
  <2>2. IsFiniteSet(AllAhead(values, i)) /\ Cardinality(AllAhead(values, i)) <= Cardinality(D)
        /\ (Cardinality(D) = Cardinality(AllAhead(values, i)) => D = AllAhead(values, i))
    BY <1>2, <2>1, FS_Subset
  <2>3. Cardinality(AllAhead(values, i)) \in Nat
    BY <2>2, FS_CardinalityType
  <2> QED
    BY <1>1, <1>2, <2>1, <2>2, <2>3 DEF Place
<1>4. ASSUME NEW i \in D, NEW k \in D, Ahead(values, i, k) PROVE Place(values, i) < Place(values, k)
  <2>1. i \notin AllAhead(values, i) /\ i \in AllAhead(values, k)
    BY <1>1, <1>4, AheadOrders DEF AllAhead
  <2>2. AllAhead(values, i) \in SUBSET AllAhead(values, k)
    BY <1>1, <1>4, AheadOrders DEF AllAhead
  <2>3. IsFiniteSet(AllAhead(values, k)) /\ Place(values, i) \in Nat /\ Place(values, k) \in Nat
    BY <1>3
  <2>4. Cardinality(AllAhead(values, i)) <= Cardinality(AllAhead(values, k))
        /\ Cardinality(AllAhead(values, k)) # Cardinality(AllAhead(values, i))
    BY <2>1, <2>2, <2>3, FS_Subset
  <2> QED
    BY <2>3, <2>4 DEF Place
<1>5. ASSUME NEW i \in D, NEW k \in D
      PROVE  /\ Ahead(values, i, k) <=> Place(values, i) < Place(values, k)
             /\ Place(values, i) = Place(values, k) => i = k
  <2>1. Place(values, i) \in Nat /\ Place(values, k) \in Nat
    BY <1>3
  <2>2. i = k \/ Ahead(values, i, k) \/ Ahead(values, k, i)
    BY <1>1, AheadOrders
  <2>3. ~ Ahead(values, i, i)
    BY <1>1, AheadOrders
  <2>4. /\ Ahead(values, i, k) => Place(values, i) < Place(values, k)
        /\ Ahead(values, k, i) => Place(values, k) < Place(values, i)
    BY <1>4
  <2> QED
    BY <2>1, <2>2, <2>3, <2>4
<1>6. PICK f : f = [i \in D |-> Place(values, i) + 1]
  OBVIOUS
<1>7. f \in [D -> D]
  <2>1. \A i \in D : Place(values, i) + 1 \in D
    BY <1>1, <1>3
  <2> QED
    BY <1>6, <2>1
<1>8. f \in Injection(D, D)
  <2>1. \A i, k \in D : f[i] = f[k] => i = k
    BY <1>3, <1>5, <1>6
  <2> QED
    BY <1>7, <2>1 DEF Injection, IsInjective
<1>9. f \in Surjection(D, D)
  BY <1>2, <1>8, FS_Injection
<1>10. \A r \in D : \E i \in D : f[i] = r
  BY <1>9 DEF Surjection
<1>11. \A r \in D : \E i \in D : Place(values, i) = r - 1
  <2> TAKE r \in D
  <2>1. PICK i \in D : f[i] = r
    BY <1>10
  <2>2. r = Place(values, i) + 1 /\ Place(values, i) \in Nat
    BY <1>3, <1>6, <2>1
  <2> QED
    BY <2>2
<1>12. \A i \in D : Place(values, i) + 1 \in D
  BY <1>6, <1>7
<1> QED
  BY <1>1, <1>3, <1>5, <1>11, <1>12

\* The ranking puts each value in its place.
LEMMA RankedByPlace ==
    ASSUME NEW values, IsRankable(values)
    PROVE  /\ DOMAIN Ranked(values) = DOMAIN values
           /\ \A i \in DOMAIN values : Ranked(values)[Place(values, i) + 1] = values[i]
           /\ \A r \in DOMAIN values :
                 \E i \in DOMAIN values : Place(values, i) = r - 1 /\ Ranked(values)[r] = values[i]
<1>1. Ranked(values) = [r \in DOMAIN values |->
          values[CHOOSE i \in DOMAIN values : Place(values, i) = r - 1]]
  <2> DEFINE first(i, k) ==
               LET a == RankKey(values[i])
                   b == RankKey(values[k])
               IN  IF a = b THEN i < k ELSE LessKey(a, b)
  <2>1. ASSUME NEW i \in DOMAIN values, NEW k \in DOMAIN values PROVE first(i, k) <=> Ahead(values, i, k)
    <3>1. CASE i = k
      <4>1. ~ Ahead(values, i, k) /\ i \in Nat
        BY <3>1, AheadOrders, RankableKeys
      <4>2. ~ first(i, k)
        BY <3>1, <4>1
      <4> QED
        BY <4>1, <4>2
    <3>2. CASE i # k
      BY <3>2, RankableKeys DEF Ahead
    <3> QED
      BY <3>1, <3>2
  <2>2. ASSUME NEW i \in DOMAIN values PROVE {k \in DOMAIN values : first(k, i)} = AllAhead(values, i)
    BY <2>1 DEF AllAhead
  <2>3. Ranked(values) = [r \in DOMAIN values |->
            values[CHOOSE i \in DOMAIN values : Cardinality({k \in DOMAIN values : first(k, i)}) = r - 1]]
    BY DEF Ranked
  <2> HIDE DEF first
  <2>4. ASSUME NEW i \in DOMAIN values, NEW r
        PROVE  Cardinality({k \in DOMAIN values : first(k, i)}) = r - 1 <=> Place(values, i) = r - 1
    BY <2>2 DEF Place
  <2>5. ASSUME NEW r
        PROVE  (CHOOSE i \in DOMAIN values : Cardinality({k \in DOMAIN values : first(k, i)}) = r - 1)
               = (CHOOSE i \in DOMAIN values : Place(values, i) = r - 1)
    BY <2>4
  <2> QED
    BY <2>3, <2>5
<1>2. \A r \in DOMAIN values : \E i \in DOMAIN values :
         Place(values, i) = r - 1 /\ Ranked(values)[r] = values[i]
  <2> TAKE r \in DOMAIN values
  <2>1. PICK i : i = CHOOSE j \in DOMAIN values : Place(values, j) = r - 1
    OBVIOUS
  <2>2. i \in DOMAIN values /\ Place(values, i) = r - 1
    BY <2>1, PlacesTaken
  <2> QED
    BY <1>1, <2>1, <2>2
<1>3. ASSUME NEW i \in DOMAIN values PROVE Ranked(values)[Place(values, i) + 1] = values[i]
  <2>1. PICK r : r = Place(values, i) + 1 /\ r \in DOMAIN values
    BY PlacesTaken
  <2>2. PICK k \in DOMAIN values : Place(values, k) = r - 1 /\ Ranked(values)[r] = values[k]
    BY <1>2, <2>1
  <2>3. Place(values, i) = r - 1
    <3>1. Place(values, i) \in Int
      BY PlacesTaken
    <3> QED
      BY <2>1, <3>1
  <2> QED
    BY <2>1, <2>2, <2>3, PlacesTaken
<1>4. DOMAIN Ranked(values) = DOMAIN values
  BY <1>1
<1> QED
  BY <1>2, <1>3, <1>4

\* Read in another order, each value keeps its place.
LEMMA PlaceKept ==
    ASSUME NEW values, IsRankable(values),
           NEW p \in Bijection(DOMAIN values, DOMAIN values),
           NEW w, w = [i \in DOMAIN values |-> values[p[i]]]
    PROVE  /\ IsRankable(w) /\ DOMAIN w = DOMAIN values
           /\ \A i \in DOMAIN w : /\ p[i] \in DOMAIN values /\ w[i] = values[p[i]]
                               /\ Place(w, i) = Place(values, p[i])
<1> DEFINE D == DOMAIN values
<1>1. D = 1 .. Len(values) /\ Len(values) \in Nat
  BY RankableKeys
<1>2. /\ p \in [D -> D]
      /\ \A i, k \in D : p[i] = p[k] => i = k
      /\ \A m \in D : \E i \in D : p[i] = m
  BY DEF Bijection, Injection, Surjection, IsInjective
<1>3. DOMAIN w = D /\ \A i \in D : p[i] \in D /\ w[i] = values[p[i]]
  BY <1>2
<1>4. IsRankable(w)
  <2>1. w \in Seq(ToSet(w))
    <3>1. \A i \in D : w[i] \in ToSet(w)
      BY <1>3 DEF ToSet
    <3>2. w = [i \in 1 .. Len(values) |-> w[i]]
      BY <1>1
    <3> QED
      BY <1>1, <3>1, <3>2
  <2>2. \A i, k \in D : w[i].id = w[k].id => i = k
    BY <1>2, <1>3 DEF IsRankable
  <2>3. \A i \in D : /\ w[i].total \in Int /\ w[i].name \in Int /\ w[i].id \in Int
                    /\ \A k \in 1 .. 5 : w[i].parts[k] \in Int
    BY <1>3 DEF IsRankable
  <2> QED
    BY <1>3, <2>1, <2>2, <2>3 DEF IsRankable
<1>5. ASSUME NEW i \in D PROVE Place(w, i) = Place(values, p[i])
  <2>1. PICK S, T, f : /\ S = AllAhead(w, i) /\ T = AllAhead(values, p[i])
                      /\ f = [k \in S |-> p[k]]
    OBVIOUS
  <2>2. \A k \in D : Ahead(w, k, i) <=> Ahead(values, p[k], p[i])
    BY <1>3 DEF Ahead
  <2>3. \A k \in D : k \in S <=> p[k] \in T
    BY <1>3, <2>1, <2>2 DEF AllAhead
  <2>4. S \in SUBSET D /\ T \in SUBSET D
    BY <1>3, <2>1 DEF AllAhead
  <2>5. T = {f[k] : k \in S}
    <3>1. ASSUME NEW m \in T PROVE \E k \in S : f[k] = m
      BY <1>2, <2>1, <2>3, <2>4
    <3>2. \A k \in S : f[k] \in T
      BY <2>1, <2>3, <2>4
    <3> QED
      BY <3>1, <3>2
  <2>6. IsFiniteSet(S)
    <3>1. IsFiniteSet(D)
      BY <1>1, FS_Interval
    <3> QED
      BY <2>4, <3>1, FS_Subset
  <2>7. \A j, k \in S : f[j] = f[k] => j = k
    BY <1>2, <2>1, <2>4
  <2>8. Cardinality(T) = Cardinality(S)
    BY <2>1, <2>5, <2>6, <2>7, ImageCounts
  <2> QED
    BY <2>1, <2>8 DEF Place
<1> QED
  BY <1>3, <1>4, <1>5

LEMMA RankingKept ==
    ASSUME NEW values, IsRankable(values),
           NEW p \in Bijection(DOMAIN values, DOMAIN values),
           NEW w, w = [i \in DOMAIN values |-> values[p[i]]]
    PROVE  Ranked(w) = Ranked(values)
<1>1. /\ IsRankable(w) /\ DOMAIN w = DOMAIN values
      /\ \A i \in DOMAIN w : /\ p[i] \in DOMAIN values /\ w[i] = values[p[i]]
                               /\ Place(w, i) = Place(values, p[i])
  BY PlaceKept
<1>2. ASSUME NEW r \in DOMAIN values PROVE Ranked(w)[r] = Ranked(values)[r]
  <2>1. PICK i \in DOMAIN w : Place(w, i) = r - 1 /\ Ranked(w)[r] = w[i]
    BY <1>1, RankedByPlace
  <2>2. PICK k \in DOMAIN values : Place(values, k) = r - 1 /\ Ranked(values)[r] = values[k]
    BY RankedByPlace
  <2>3. p[i] = k
    <3>1. PICK m \in DOMAIN values : m = p[i] /\ Place(w, i) = Place(values, m)
      BY <1>1
    <3> QED
      BY <2>1, <2>2, <3>1, PlacesTaken
  <2> QED
    BY <1>1, <2>1, <2>2, <2>3
<1>3. DOMAIN Ranked(w) = DOMAIN values /\ DOMAIN Ranked(values) = DOMAIN values
  BY <1>1, RankedByPlace
<1>4. /\ Ranked(w) = [r \in DOMAIN w |-> Ranked(w)[r]]
      /\ Ranked(values) = [r \in DOMAIN values |-> Ranked(values)[r]]
  BY DEF Ranked
<1> QED
  BY <1>1, <1>2, <1>4

LEMMA LevelsAddUp ==
    ASSUME NEW values, IsRankable(values)
    PROVE  LevelCount(values, "high") + LevelCount(values, "medium")
              + LevelCount(values, "low") = Len(values)
<1> DEFINE At(level) == {i \in DOMAIN values : MatchLevel(values[i].total) = level}
<1>1. PICK n, D : n \in Nat /\ n = Len(values) /\ D = DOMAIN values /\ D = 1 .. n
  BY RankableKeys
<1>2. IsFiniteSet(D) /\ Cardinality(D) = n
  <2>1. IsFiniteSet(1 .. n) /\ Cardinality(1 .. n) = n
    <3>1. n \in Nat
      BY <1>1
    <3> QED
      BY <3>1, FS_Interval
  <2> QED
    BY <1>1, <2>1
<1>3. \A i \in D : MatchLevel(values[i].total) \in {"high", "medium", "low"}
  BY DEF MatchLevel
<1>4. PICK H, M, L : H = At("high") /\ M = At("medium") /\ L = At("low")
  OBVIOUS
<1>5. /\ H \in SUBSET D /\ M \in SUBSET D /\ L \in SUBSET D /\ D = (H \cup M) \cup L
      /\ H \cap M = {} /\ (H \cup M) \cap L = {}
  BY <1>1, <1>3, <1>4
<1>6. IsFiniteSet(H) /\ IsFiniteSet(M) /\ IsFiniteSet(L)
  BY <1>2, <1>5, FS_Subset
<1>7. IsFiniteSet(H \cup M) /\ Cardinality(H \cup M) = Cardinality(H) + Cardinality(M) - Cardinality({})
  BY <1>5, <1>6, FS_Union
<1>8. Cardinality(D) = Cardinality(H \cup M) + Cardinality(L) - Cardinality({})
  BY <1>5, <1>6, <1>7, FS_Union
<1>9. Cardinality({}) = 0 /\ Cardinality(H) \in Nat /\ Cardinality(M) \in Nat /\ Cardinality(L) \in Nat
      /\ Cardinality(H \cup M) \in Nat
  BY <1>6, <1>7, FS_EmptySet, FS_CardinalityType
<1>10. /\ LevelCount(values, "high") = Cardinality(H)
       /\ LevelCount(values, "medium") = Cardinality(M)
       /\ LevelCount(values, "low") = Cardinality(L)
  BY <1>4 DEF LevelCount
<1> QED
  BY <1>1, <1>2, <1>7, <1>8, <1>9, <1>10

LEMMA RankingSettles ==
    ASSUME NEW values, IsRankable(values)
    PROVE  RankingIsSettledOn(values)
<1>1. \A p \in Bijection(DOMAIN values, DOMAIN values) :
         Ranked([i \in DOMAIN values |-> values[p[i]]]) = Ranked(values)
  BY RankingKept
<1>2. DOMAIN Ranked(values) = DOMAIN values
  BY RankedByPlace
<1>3. ASSUME NEW i \in DOMAIN values, NEW k \in DOMAIN values, i < k
      PROVE  Ranked(values)[i].total >= Ranked(values)[k].total
  <2>1. PICK a \in DOMAIN values : Place(values, a) = i - 1 /\ Ranked(values)[i] = values[a]
    BY RankedByPlace
  <2>2. PICK b \in DOMAIN values : Place(values, b) = k - 1 /\ Ranked(values)[k] = values[b]
    BY RankedByPlace
  <2>3. Place(values, a) < Place(values, b)
    BY <1>3, <2>1, <2>2, RankableKeys
  <2> QED
    BY <2>1, <2>2, <2>3, PlacesTaken, AheadOrders
<1> DEFINE rankOf(level) == CASE level = "high" -> 1 [] level = "medium" -> 2
                              [] level = "low" -> 3
<1>4. \A s, t \in Int : s >= t => rankOf(MatchLevel(s)) <= rankOf(MatchLevel(t))
  <2> SUFFICES ASSUME NEW s \in Int, NEW t \in Int, s >= t
               PROVE  rankOf(MatchLevel(s)) <= rankOf(MatchLevel(t))
    OBVIOUS
  <2>1. /\ s >= 7500 => MatchLevel(s) = "high"
        /\ s < 7500 /\ s >= 5000 => MatchLevel(s) = "medium"
        /\ s < 5000 => MatchLevel(s) = "low"
    BY DEF MatchLevel
  <2>2. /\ t >= 7500 => MatchLevel(t) = "high"
        /\ t < 7500 /\ t >= 5000 => MatchLevel(t) = "medium"
        /\ t < 5000 => MatchLevel(t) = "low"
    BY DEF MatchLevel
  <2>3. rankOf("high") = 1 /\ rankOf("medium") = 2 /\ rankOf("low") = 3
    OBVIOUS
  <2> HIDE DEF rankOf
  <2> QED
    BY <2>1, <2>2, <2>3
<1> HIDE DEF rankOf
<1>5. \A i \in DOMAIN values : Ranked(values)[i].total \in Int
  BY RankedByPlace DEF IsRankable
<1>6. \A i, k \in DOMAIN Ranked(values) : i < k =>
         /\ Ranked(values)[i].total >= Ranked(values)[k].total
         /\ rankOf(MatchLevel(Ranked(values)[i].total)) <= rankOf(MatchLevel(Ranked(values)[k].total))
  BY <1>2, <1>3, <1>4, <1>5
<1>7. ToSet(Ranked(values)) = ToSet(values)
  <2>1. ASSUME NEW v \in ToSet(Ranked(values)) PROVE v \in ToSet(values)
    <3>1. PICK r \in DOMAIN values : v = Ranked(values)[r]
      BY <1>2 DEF ToSet
    <3> QED
      BY <3>1, RankedByPlace DEF ToSet
  <2>2. ASSUME NEW v \in ToSet(values) PROVE v \in ToSet(Ranked(values))
    <3>1. PICK i \in DOMAIN values : v = values[i]
      BY DEF ToSet
    <3>2. PICK r \in DOMAIN values : Ranked(values)[r] = v
      BY <3>1, RankedByPlace, PlacesTaken
    <3> QED
      BY <1>2, <3>2 DEF ToSet
  <2> QED
    BY <2>1, <2>2
<1> QED
  BY <1>1, <1>6, <1>7, LevelsAddUp DEF RankingIsSettledOn, rankOf

-----------------------------------------------------------------------------
(* Sorting: an order on finitely many elements, given by what comes before *)
(* each of them, has each element at one place.                            *)

IsOrder(D, before) ==
    /\ IsFiniteSet(D) /\ DOMAIN before = D
    /\ \A x \in D : before[x] \in SUBSET D /\ x \notin before[x]
    /\ \A x, y \in D : x \in before[y] => before[x] \subseteq before[y]
    /\ \A x, y \in D : x = y \/ x \in before[y] \/ y \in before[x]

\* What comes before x takes the places before that of x.
LEMMA PlacesBefore ==
    ASSUME NEW D, NEW before, IsOrder(D, before), NEW size \in Nat, size = Cardinality(D)
    PROVE  /\ \A x \in D : Cardinality(before[x]) \in 0 .. size - 1
           /\ \A x, y \in D : x \in before[y] <=> Cardinality(before[x]) < Cardinality(before[y])
           /\ \A x, y \in D : Cardinality(before[x]) = Cardinality(before[y]) => x = y
<1>1. ASSUME NEW x \in D
      PROVE  IsFiniteSet(before[x]) /\ Cardinality(before[x]) \in 0 .. size - 1
  <2>1. before[x] \in SUBSET D /\ x \notin before[x] /\ before[x] # D /\ IsFiniteSet(D)
    BY DEF IsOrder
  <2>2. /\ IsFiniteSet(before[x]) /\ Cardinality(before[x]) <= size
        /\ Cardinality(before[x]) # size
    BY <2>1, FS_Subset
  <2>3. Cardinality(before[x]) \in Nat
    BY <2>2, FS_CardinalityType
  <2> QED
    BY <2>2, <2>3
<1>2. ASSUME NEW x \in D, NEW y \in D, x \in before[y]
      PROVE  Cardinality(before[x]) < Cardinality(before[y])
  <2>1. before[x] \in SUBSET before[y] /\ before[x] # before[y]
    BY <1>2 DEF IsOrder
  <2>2. /\ Cardinality(before[x]) <= Cardinality(before[y])
        /\ Cardinality(before[x]) # Cardinality(before[y])
    BY <1>1, <2>1, FS_Subset
  <2> QED
    BY <1>1, <2>2
<1>3. ASSUME NEW x \in D, NEW y \in D
      PROVE  /\ x \in before[y] <=> Cardinality(before[x]) < Cardinality(before[y])
             /\ Cardinality(before[x]) = Cardinality(before[y]) => x = y
  <2>1. Cardinality(before[x]) \in Int /\ Cardinality(before[y]) \in Int
    BY <1>1
  <2>2. x = y \/ x \in before[y] \/ y \in before[x]
    BY DEF IsOrder
  <2>3. x \in before[y] => Cardinality(before[x]) < Cardinality(before[y])
    BY <1>2
  <2>4. y \in before[x] => Cardinality(before[y]) < Cardinality(before[x])
    BY <1>2
  <2> QED
    BY <2>1, <2>2, <2>3, <2>4
<1> QED
  BY <1>1, <1>3

LEMMA PlacesFilled ==
    ASSUME NEW D, NEW before, IsOrder(D, before), NEW size \in Nat, size = Cardinality(D)
    PROVE  \A n \in 1 .. size : \E x \in D : Cardinality(before[x]) = n - 1
<1>1. PICK P : P = 1 .. size
  OBVIOUS
<1>2. IsFiniteSet(P) /\ Cardinality(P) = size
  BY <1>1, FS_Interval
<1>3. PICK f : f = [x \in D |-> Cardinality(before[x]) + 1]
  OBVIOUS
<1>4. \A x \in D : f[x] = Cardinality(before[x]) + 1 /\ Cardinality(before[x]) \in 0 .. size - 1
  BY <1>3, PlacesBefore
<1>5. f \in [D -> P]
  <2>1. \A x \in D : f[x] \in P
    BY <1>1, <1>4
  <2> QED
    BY <1>3, <2>1
<1>6. f \in Injection(D, P)
  <2>1. ASSUME NEW x \in D, NEW y \in D, f[x] = f[y] PROVE x = y
    <3>1. Cardinality(before[x]) = Cardinality(before[y])
      BY <1>4, <2>1
    <3> QED
      BY <3>1, PlacesBefore
  <2> QED
    BY <1>5, <2>1 DEF Injection, IsInjective
<1>7. f \in Surjection(D, P)
  BY <1>2, <1>6, FS_Injection
<1> SUFFICES ASSUME NEW n \in P PROVE \E x \in D : Cardinality(before[x]) = n - 1
  BY <1>1
<1>8. PICK x \in D : f[x] = n
  BY <1>7 DEF Surjection
<1> QED
  BY <1>1, <1>4, <1>8

\* InOrder has every element once, each after what comes before it.
LEMMA OrderListed ==
    ASSUME NEW D, NEW before, IsOrder(D, before), NEW at, at = InOrder(before)
    PROVE  /\ Cardinality(D) \in Nat /\ at \in Seq(D) /\ Len(at) = Cardinality(D)
           /\ \A x \in D : \E n \in DOMAIN at : at[n] = x
           /\ \A i, k \in DOMAIN at : i < k => at[i] \in before[at[k]]
           /\ \A i, k \in DOMAIN at : at[i] = at[k] => i = k
<1>1. PICK size \in Nat : size = Cardinality(D)
  BY FS_CardinalityType DEF IsOrder
<1>2. at = [n \in 1 .. size |-> CHOOSE x \in D : Cardinality(before[x]) = n - 1]
  BY <1>1 DEF InOrder, IsOrder
<1>3. ASSUME NEW n \in 1 .. size PROVE at[n] \in D /\ Cardinality(before[at[n]]) = n - 1
  <2>1. \E x \in D : Cardinality(before[x]) = n - 1
    BY <1>1, PlacesFilled
  <2>2. at[n] = CHOOSE x \in D : Cardinality(before[x]) = n - 1
    BY <1>2
  <2> QED
    BY <2>1, <2>2
<1>4. at \in Seq(D) /\ Len(at) = size /\ DOMAIN at = 1 .. size
  <2>1. at \in [1 .. size -> D]
    BY <1>2, <1>3
  <2> QED
    BY <2>1
<1>5. ASSUME NEW x \in D PROVE \E n \in DOMAIN at : at[n] = x
  <2>1. Cardinality(before[x]) \in 0 .. size - 1
    BY <1>1, PlacesBefore
  <2>2. PICK n \in 1 .. size : n = Cardinality(before[x]) + 1
    BY <2>1
  <2>3. at[n] \in D /\ Cardinality(before[at[n]]) = Cardinality(before[x])
    BY <1>3, <2>1, <2>2
  <2>4. at[n] = x
    BY <1>1, <2>3, PlacesBefore
  <2> QED
    BY <1>4, <2>4
<1>6. ASSUME NEW i \in 1 .. size, NEW k \in 1 .. size
      PROVE  /\ i < k => at[i] \in before[at[k]]
             /\ at[i] = at[k] => i = k
  <2>1. /\ at[i] \in D /\ Cardinality(before[at[i]]) = i - 1
        /\ at[k] \in D /\ Cardinality(before[at[k]]) = k - 1
    BY <1>3
  <2>2. at[i] \in before[at[k]] <=> Cardinality(before[at[i]]) < Cardinality(before[at[k]])
    BY <1>1, <2>1, PlacesBefore
  <2> QED
    BY <2>1, <2>2
<1> QED
  BY <1>1, <1>4, <1>5, <1>6

\* A list cut off after a limit.
LEMMA CutOff ==
    ASSUME NEW S, NEW seq \in Seq(S), NEW limit \in Nat, NEW cut, cut = Cut(seq, limit)
    PROVE  /\ cut \in Seq(S) /\ Len(cut) <= limit /\ Len(cut) <= Len(seq)
           /\ Len(cut) = limit \/ Len(cut) = Len(seq)
           /\ \A n \in DOMAIN cut : n \in DOMAIN seq /\ cut[n] = seq[n]
<1>1. PICK m \in Nat : m = IF limit < Len(seq) THEN limit ELSE Len(seq)
  OBVIOUS
<1>2. m <= limit /\ m <= Len(seq) /\ (m = limit \/ m = Len(seq))
  BY <1>1
<1>3. cut = [n \in 1 .. m |-> seq[n]]
  BY <1>1 DEF Cut
<1>4. \A n \in 1 .. m : n \in DOMAIN seq /\ seq[n] \in S /\ cut[n] = seq[n]
  BY <1>2, <1>3
<1>5. cut \in [1 .. m -> S]
  BY <1>3, <1>4
<1>6. cut \in Seq(S) /\ Len(cut) = m /\ DOMAIN cut = 1 .. m
  BY <1>5
<1> QED
  BY <1>2, <1>4, <1>6

\* The items at some positions of a list, each position once.
ItemsAt(seq, is, items) ==
    \E at \in Seq(is) :
        /\ DOMAIN items = DOMAIN at
        /\ \A n \in DOMAIN items : at[n] \in is /\ items[n] = seq[at[n]]
        /\ \A i, k \in DOMAIN at : at[i] = at[k] => i = k
        /\ \A i \in is : \E n \in DOMAIN at : at[n] = i

LEMMA ItemsArranged ==
    ASSUME NEW S, NEW seq \in Seq(S), NEW is \in SUBSET DOMAIN seq,
           NEW before, IsOrder(is, before), NEW items, items = Arranged(seq, before)
    PROVE  items \in Seq(S) /\ ItemsAt(seq, is, items)
<1>1. PICK at : at = InOrder(before)
  OBVIOUS
<1>2. /\ at \in Seq(is)
      /\ \A i, k \in DOMAIN at : at[i] = at[k] => i = k
      /\ \A i \in is : \E n \in DOMAIN at : at[n] = i
  BY <1>1, OrderListed
<1>3. PICK m \in Nat : m = Len(at) /\ DOMAIN at = 1 .. m
  BY <1>2
<1>4. items = [n \in 1 .. m |-> seq[at[n]]]
  BY <1>1, <1>3 DEF Arranged
<1>5. \A n \in 1 .. m : at[n] \in is /\ seq[at[n]] \in S
  BY <1>2, <1>3
<1>6. items \in [1 .. m -> S]
  BY <1>4, <1>5
<1>7. items \in Seq(S) /\ Len(items) = m /\ DOMAIN items = 1 .. m
  BY <1>6
<1>8. DOMAIN items = DOMAIN at /\ \A n \in DOMAIN items : at[n] \in is /\ items[n] = seq[at[n]]
  BY <1>3, <1>4, <1>5, <1>7
<1> QED
  BY <1>2, <1>7, <1>8 DEF ItemsAt

LEMMA PositionsOrdered ==
    ASSUME NEW S, NEW seq \in Seq(S), NEW is \in SUBSET DOMAIN seq
    PROVE  IsOrder(is, [i \in is |-> {k \in is : k < i}])
<1>1. PICK n \in Nat : n = Len(seq) /\ DOMAIN seq = 1 .. n
  OBVIOUS
<1>2. PICK P : P = 1 .. n
  OBVIOUS
<1>3. IsFiniteSet(is)
  <2>1. IsFiniteSet(P) /\ is \in SUBSET P
    BY <1>1, <1>2, FS_Interval
  <2> QED
    BY <2>1, FS_Subset
<1>4. is \subseteq Int
  BY <1>1
<1> QED
  BY <1>3, <1>4 DEF IsOrder

-----------------------------------------------------------------------------
(* Proposals: what _publishable_capabilities leaves has one domain and     *)
(* repeats nothing.                                                        *)

HaveDomains(domain, required) ==
    \A i \in DOMAIN required : domain[required[i]] \in Nat

Distinct(seq) == \A i, k \in DOMAIN seq : seq[i] = seq[k] => i = k

\* Positions without a repetition give a list without one.
LEMMA SelectedOnce ==
    ASSUME NEW S, NEW seq \in Seq(S), NEW is \in SUBSET DOMAIN seq,
           \A i, k \in is : seq[i] = seq[k] => i = k,
           NEW items, items = Selected(seq, is)
    PROVE  /\ items \in Seq(S) /\ Distinct(items)
           /\ \A n \in DOMAIN items : \E i \in is : items[n] = seq[i]
           /\ \A i \in is : \E n \in DOMAIN items : items[n] = seq[i]
<1>1. PICK before : before = [i \in is |-> {k \in is : k < i}]
  OBVIOUS
<1>2. IsOrder(is, before) /\ items = Arranged(seq, before)
  BY <1>1, PositionsOrdered DEF Selected
<1>3. items \in Seq(S) /\ ItemsAt(seq, is, items)
  BY <1>2, ItemsArranged
<1>4. PICK at \in Seq(is) :
              /\ DOMAIN items = DOMAIN at
              /\ \A n \in DOMAIN items : at[n] \in is /\ items[n] = seq[at[n]]
              /\ \A i, k \in DOMAIN at : at[i] = at[k] => i = k
              /\ \A i \in is : \E n \in DOMAIN at : at[n] = i
  BY <1>3 DEF ItemsAt
<1>5. Distinct(items)
  BY <1>4 DEF Distinct
<1> QED
  BY <1>3, <1>4, <1>5

LEMMA KnownOnce ==
    ASSUME NEW S, NEW seq \in Seq(S)
    PROVE  /\ FirstKnown(seq) \in SUBSET DOMAIN seq
           /\ \A i, k \in FirstKnown(seq) : seq[i] = seq[k] => i = k
<1>1. FirstKnown(seq) \in SUBSET DOMAIN seq
  BY DEF FirstKnown
<1>2. PICK n \in Nat : DOMAIN seq = 1 .. n
  OBVIOUS
<1>3. ASSUME NEW i \in FirstKnown(seq), NEW k \in FirstKnown(seq), seq[i] = seq[k]
      PROVE  ~ (k < i)
  <2>1. i \in 1 .. n /\ k \in 1 .. n
    BY <1>1, <1>2
  <2>2. \A m \in 1 .. i - 1 : seq[m] # seq[i]
    BY DEF FirstKnown
  <2> QED
    BY <1>3, <2>1, <2>2
<1>4. ASSUME NEW i \in FirstKnown(seq), NEW k \in FirstKnown(seq), seq[i] = seq[k]
      PROVE  i = k
  <2>1. i \in 1 .. n /\ k \in 1 .. n
    BY <1>1, <1>2
  <2>2. ~ (k < i) /\ ~ (i < k)
    BY <1>3, <1>4
  <2> QED
    BY <2>1, <2>2
<1> QED
  BY <1>1, <1>4

LEMMA SkillsMapped ==
    ASSUME NEW seq \in Seq(Nat), NEW items, items = MapSkills(seq)
    PROVE  /\ items \in Seq(Nat) /\ Distinct(items)
           /\ \A n \in DOMAIN items : \E i \in DOMAIN seq :
                 items[n] = seq[i] /\ seq[i] # Unmapped
<1>1. /\ FirstKnown(seq) \in SUBSET DOMAIN seq
      /\ \A i, k \in FirstKnown(seq) : seq[i] = seq[k] => i = k
  BY KnownOnce
<1>2. items = Selected(seq, FirstKnown(seq))
  BY DEF MapSkills
<1>3. /\ items \in Seq(Nat) /\ Distinct(items)
      /\ \A n \in DOMAIN items : \E i \in FirstKnown(seq) : items[n] = seq[i]
  BY <1>1, <1>2, SelectedOnce
<1>4. \A i \in FirstKnown(seq) : i \in DOMAIN seq /\ seq[i] # Unmapped
  BY DEF FirstKnown
<1> QED
  BY <1>3, <1>4

\* What is cut off a list without a repetition has none.
LEMMA CutOnce ==
    ASSUME NEW S, NEW seq \in Seq(S), Distinct(seq), NEW limit \in Nat,
           NEW cut, cut = Cut(seq, limit)
    PROVE  Distinct(cut)
<1>1. \A n \in DOMAIN cut : n \in DOMAIN seq /\ cut[n] = seq[n]
  BY CutOff
<1> QED
  BY <1>1 DEF Distinct

\* The least of some numbers is one of them.
LEMMA MinTaken ==
    ASSUME NEW T \in SUBSET Nat, T # {}
    PROVE  Min(T) \in T /\ \A m \in T : Min(T) <= m
<1>1. \E n \in T : \A m \in T : n <= m
  BY LeastNumber
<1>2. Min(T) = CHOOSE n \in T : \A m \in T : n <= m
  BY DEF Min
<1> QED
  BY <1>1, <1>2

\* Some domain has the most of the required capabilities.
LEMMA DominantTaken ==
    ASSUME NEW domain, NEW required \in Seq(Nat), required # <<>>,
           HaveDomains(domain, required)
    PROVE  LET top == Dominant(domain, required)
           IN  /\ InDomain(domain, required, top) # {}
               /\ \A i \in DOMAIN required :
                     Cardinality(InDomain(domain, required, top))
                        >= Cardinality(InDomain(domain, required, domain[required[i]]))
<1> DEFINE count(d) == Cardinality(InDomain(domain, required, d))
           ds == {domain[c] : c \in ToSet(required)}
           gaps == {Len(required) - count(d) : d \in ds}
           most == {d \in ds : \A e \in ds : count(d) >= count(e)}
<1>1. PICK n \in Nat : n = Len(required) /\ DOMAIN required = 1 .. n /\ n # 0
  OBVIOUS
<1>2. ASSUME NEW d PROVE count(d) \in 0 .. n
  <2>1. PICK P : P = 1 .. n
    OBVIOUS
  <2>2. IsFiniteSet(P) /\ Cardinality(P) = n
    BY <2>1, FS_Interval
  <2>3. InDomain(domain, required, d) \in SUBSET P
    BY <1>1, <2>1 DEF InDomain
  <2>4. /\ IsFiniteSet(InDomain(domain, required, d))
        /\ Cardinality(InDomain(domain, required, d)) <= n
    BY <2>2, <2>3, FS_Subset
  <2>5. Cardinality(InDomain(domain, required, d)) \in Nat
    BY <2>4, FS_CardinalityType
  <2> QED
    BY <2>4, <2>5
<1>3. /\ ds \in SUBSET Nat
      /\ \A i \in DOMAIN required : domain[required[i]] \in ds
      /\ \A d \in ds : \E i \in DOMAIN required : domain[required[i]] = d
  BY DEF ToSet, HaveDomains
<1>4. ds # {}
  <2>1. 1 \in DOMAIN required
    BY <1>1
  <2> QED
    BY <1>3, <2>1
<1> HIDE DEF ds
<1>5. \E d \in ds : \A e \in ds : count(d) >= count(e)
  <2>1. \A d \in ds : count(d) \in 0 .. n
    BY <1>2
  <2> HIDE DEF count
  <2>2. gaps \in SUBSET Nat /\ gaps # {}
    BY <1>1, <1>4, <2>1
  <2>3. PICK g \in gaps : \A h \in gaps : g <= h
    BY <2>2, LeastNumber
  <2>4. PICK d \in ds : g = n - count(d)
    BY <1>1
  <2>5. \A e \in ds : g <= n - count(e)
    BY <1>1, <2>3
  <2> QED
    BY <2>1, <2>4, <2>5
<1>6. most \in SUBSET Nat /\ most # {}
  BY <1>3, <1>5
<1>7. Dominant(domain, required) = Min(most)
  BY DEF Dominant, ds
<1>8. Min(most) \in most
  BY <1>6, MinTaken
<1>9. PICK i \in DOMAIN required : domain[required[i]] = Dominant(domain, required)
  BY <1>3, <1>7, <1>8
<1>10. \A k \in DOMAIN required : count(Dominant(domain, required)) >= count(domain[required[k]])
  BY <1>3, <1>7, <1>8
<1> QED
  BY <1>9, <1>10 DEF InDomain

LEMMA OffDomainListed ==
    ASSUME NEW domain, NEW required \in Seq(Nat), NEW top
    PROVE  OffDomain(domain, required, top) \in Seq(Nat)
<1> DEFINE rest == DOMAIN required \ InDomain(domain, required, top)
           firstAt(i) == Min(InDomain(domain, required, domain[required[i]]))
           comesFirst(k, i) == \/ firstAt(k) < firstAt(i)
                               \/ firstAt(k) = firstAt(i) /\ k < i
           before == [i \in rest |-> {k \in rest : comesFirst(k, i)}]
<1>1. PICK n \in Nat : DOMAIN required = 1 .. n
  OBVIOUS
<1>2. rest \in SUBSET (1 .. n)
  BY <1>1
<1>3. IsFiniteSet(rest)
  <2>1. PICK P : P = 1 .. n
    OBVIOUS
  <2>2. IsFiniteSet(P) /\ rest \in SUBSET P
    BY <1>2, <2>1, FS_Interval
  <2> QED
    BY <2>2, FS_Subset
<1>4. ASSUME NEW i \in rest PROVE firstAt(i) \in Nat
  <2>1. PICK T : T = InDomain(domain, required, domain[required[i]])
    OBVIOUS
  <2>2. T \in SUBSET Nat /\ i \in T
    BY <1>1, <1>2, <2>1 DEF InDomain
  <2> QED
    BY <2>1, <2>2, MinTaken
<1>5. IsOrder(rest, before)
  <2> HIDE DEF firstAt, rest
  <2>1. \A x, y \in rest : x \in before[y] <=> comesFirst(x, y)
    OBVIOUS
  <2>2. \A x \in rest : before[x] \in SUBSET rest
    OBVIOUS
  <2>3. \A x \in rest : x \in Int /\ firstAt(x) \in Int
    BY <1>2, <1>4
  <2>4. \A x \in rest : ~ comesFirst(x, x)
    BY <2>3
  <2>5. \A x, y, z \in rest : comesFirst(z, x) /\ comesFirst(x, y) => comesFirst(z, y)
    BY <2>3
  <2>6. \A x, y \in rest : x = y \/ comesFirst(x, y) \/ comesFirst(y, x)
    BY <2>3
  <2>7. DOMAIN before = rest
    OBVIOUS
  <2> HIDE DEF before, comesFirst
  <2>8. \A x, y \in rest : x \in before[y] => before[x] \subseteq before[y]
    BY <2>1, <2>2, <2>5
  <2> QED
    BY <1>3, <2>1, <2>2, <2>4, <2>6, <2>7, <2>8 DEF IsOrder
<1>6. OffDomain(domain, required, top) = Arranged(required, before)
  BY DEF OffDomain
<1>7. rest \in SUBSET DOMAIN required
  OBVIOUS
<1> HIDE DEF rest, before
<1> QED
  BY <1>5, <1>6, <1>7, ItemsArranged

\* A list without a repetition has as many elements as positions.
LEMMA DistinctCounted ==
    ASSUME NEW S, NEW seq \in Seq(S), Distinct(seq)
    PROVE  Cardinality(ToSet(seq)) = Len(seq)
<1>1. PICK n \in Nat : n = Len(seq) /\ DOMAIN seq = 1 .. n
  OBVIOUS
<1>2. PICK P : P = 1 .. n
  OBVIOUS
<1>3. IsFiniteSet(P) /\ Cardinality(P) = n
  BY <1>2, FS_Interval
<1>4. DOMAIN seq = P /\ seq = [x \in P |-> seq[x]] /\ ToSet(seq) = {seq[x] : x \in P}
  BY <1>1, <1>2 DEF ToSet
<1> QED
  BY <1>1, <1>3, <1>4, ImageCounts DEF Distinct

\* Two of the required capabilities share a domain.
HasPair(domain, required) ==
    \E i, k \in DOMAIN required : i # k /\ domain[required[i]] = domain[required[k]]

\* A finite set with two elements has at least two, and one with at least two
\* has two.
LEMMA TwoCounted ==
    ASSUME NEW S, IsFiniteSet(S)
    PROVE  /\ Cardinality(S) \in Nat
           /\ Cardinality(S) >= 2 <=> \E x, y \in S : x # y
<1>1. Cardinality(S) \in Nat /\ (Cardinality(S) = 0 <=> S = {})
  BY FS_CardinalityType, FS_EmptySet
<1>2. Cardinality(S) = 1 <=> \E x : S = {x}
  BY FS_Singleton
<1>3. (\E x : S = {x}) <=> S # {} /\ \A x, y \in S : x = y
  <2>1. ASSUME S # {}, \A x, y \in S : x = y PROVE \E x : S = {x}
    <3>1. PICK x \in S : TRUE
      BY <2>1
    <3>2. S = {x}
      BY <2>1, <3>1
    <3> QED
      BY <3>2
  <2> QED
    BY <2>1
<1> QED
  BY <1>1, <1>2, <1>3

\* The core of a proposal: capabilities of one domain, once each, and at least
\* two if there are two of some domain.
IsCore(domain, required, core, top, limit) ==
    /\ core \in Seq(Nat) /\ Distinct(core) /\ Len(core) <= limit
    /\ \A n \in DOMAIN core : domain[core[n]] = top
    /\ Len(core) >= MinRequired <=> HasPair(domain, required)

LEMMA CoreInDomain ==
    ASSUME NEW domain, NEW required \in Seq(Nat), required # <<>>, Distinct(required),
           HaveDomains(domain, required),
           NEW limit \in Nat, limit >= MinRequired, NEW top, top = Dominant(domain, required),
           NEW core, core = Cut(Selected(required, InDomain(domain, required, top)), limit)
    PROVE  IsCore(domain, required, core, top, limit)
<1>1. PICK is, items : is = InDomain(domain, required, top) /\ items = Selected(required, is)
  OBVIOUS
<1>2. is \in SUBSET DOMAIN required /\ \A i \in is : domain[required[i]] = top
  BY <1>1 DEF InDomain
<1>3. \A i, k \in is : required[i] = required[k] => i = k
  BY <1>2 DEF Distinct
<1>4. /\ items \in Seq(Nat) /\ Distinct(items)
      /\ \A n \in DOMAIN items : \E i \in is : items[n] = required[i]
      /\ \A i \in is : \E n \in DOMAIN items : items[n] = required[i]
  BY <1>1, <1>2, <1>3, SelectedOnce
<1>5. core = Cut(items, limit)
  BY <1>1
<1>6. /\ core \in Seq(Nat) /\ Len(core) <= limit /\ Len(core) <= Len(items)
      /\ Len(core) = limit \/ Len(core) = Len(items)
      /\ \A n \in DOMAIN core : n \in DOMAIN items /\ core[n] = items[n]
  BY <1>4, <1>5, CutOff
<1>7. Distinct(core)
  BY <1>4, <1>5, CutOnce
<1>8. \A n \in DOMAIN core : domain[core[n]] = top
  BY <1>2, <1>4, <1>6
<1>9. ASSUME Len(core) >= 2 PROVE HasPair(domain, required)
  <2>1. 1 \in DOMAIN items /\ 2 \in DOMAIN items /\ items[1] # items[2]
    BY <1>4, <1>6, <1>9 DEF Distinct
  <2>2. PICK i \in is, k \in is : items[1] = required[i] /\ items[2] = required[k]
    BY <1>4, <2>1
  <2> QED
    BY <1>2, <2>1, <2>2 DEF HasPair
<1>10. ASSUME HasPair(domain, required) PROVE Len(core) >= 2
  <2>1. PICK i \in DOMAIN required, k \in DOMAIN required :
           i # k /\ domain[required[i]] = domain[required[k]]
    BY <1>10 DEF HasPair
  <2>2. PICK js : js = InDomain(domain, required, domain[required[i]])
    OBVIOUS
  <2>3. i \in js /\ k \in js /\ js \in SUBSET DOMAIN required
    BY <2>1, <2>2 DEF InDomain
  <2>4. Cardinality(is) >= Cardinality(js)
    BY <1>1, <2>2, DominantTaken
  <2>5. PICK n \in Nat : DOMAIN required = 1 .. n
    OBVIOUS
  <2>6. IsFiniteSet(is) /\ IsFiniteSet(js)
    <3>1. PICK P : P = 1 .. n
      OBVIOUS
    <3>2. IsFiniteSet(P) /\ is \in SUBSET P /\ js \in SUBSET P
      BY <1>2, <2>3, <2>5, <3>1, FS_Interval
    <3> QED
      BY <3>2, FS_Subset
  <2>7. Cardinality(js) \in Nat /\ Cardinality(js) >= 2
    BY <2>1, <2>3, <2>6, TwoCounted
  <2>8. Cardinality(is) \in Nat
    BY <2>6, TwoCounted
  <2>9. Cardinality(is) >= 2
    BY <2>4, <2>7, <2>8
  <2>10. PICK x \in is, y \in is : x # y
    BY <2>6, <2>9, TwoCounted
  <2>11. PICK m \in DOMAIN items, l \in DOMAIN items :
            items[m] = required[x] /\ items[l] = required[y]
    BY <1>4, <2>10
  <2>12. m # l
    BY <1>3, <2>10, <2>11
  <2>13. Len(items) >= 2
    BY <1>4, <2>11, <2>12
  <2> QED
    BY <1>4, <1>6, <2>13 DEF MinRequired
<1> QED
  BY <1>6, <1>7, <1>8, <1>9, <1>10 DEF IsCore, MinRequired

LEMMA BonusApart ==
    ASSUME NEW candidates \in Seq(Nat), NEW core, NEW limit \in Nat,
           NEW extra, extra = Cut(Bonus(candidates, core), limit)
    PROVE  /\ extra \in Seq(Nat) /\ Distinct(extra) /\ Len(extra) <= limit
           /\ \A n \in DOMAIN extra : extra[n] \notin ToSet(core)
<1>1. PICK is : is = {i \in FirstKnown(candidates) : candidates[i] \notin ToSet(core)}
  OBVIOUS
<1>2. PICK items : items = Selected(candidates, is)
  OBVIOUS
<1>3. /\ is \in SUBSET DOMAIN candidates
      /\ \A i, k \in is : candidates[i] = candidates[k] => i = k
      /\ \A i \in is : candidates[i] \notin ToSet(core)
  BY <1>1, KnownOnce
<1>4. /\ items \in Seq(Nat) /\ Distinct(items)
      /\ \A n \in DOMAIN items : \E i \in is : items[n] = candidates[i]
  BY <1>2, <1>3, SelectedOnce
<1>5. extra = Cut(items, limit)
  BY <1>1, <1>2 DEF Bonus
<1>6. /\ extra \in Seq(Nat) /\ Len(extra) <= limit
      /\ \A n \in DOMAIN extra : n \in DOMAIN items /\ extra[n] = items[n]
  BY <1>4, <1>5, CutOff
<1>7. Distinct(extra)
  BY <1>4, <1>5, CutOnce
<1> QED
  BY <1>3, <1>4, <1>6, <1>7

LEMMA JoinedOnce ==
    ASSUME NEW a \in Seq(Nat), NEW b \in Seq(Nat), Distinct(a), Distinct(b),
           \A n \in DOMAIN b : b[n] \notin ToSet(a)
    PROVE  a \o b \in Seq(Nat) /\ Distinct(a \o b)
<1>1. PICK m \in Nat, n \in Nat : m = Len(a) /\ n = Len(b) /\ DOMAIN a = 1 .. m /\ DOMAIN b = 1 .. n
  OBVIOUS
<1>2. PICK c : c = a \o b
  OBVIOUS
<1>3. /\ c \in Seq(Nat) /\ DOMAIN c = 1 .. m + n
      /\ \A i \in 1 .. m : c[i] = a[i]
      /\ \A i \in m + 1 .. m + n : c[i] = b[i - m] /\ i - m \in 1 .. n
  BY <1>1, <1>2
<1>4. \A i \in 1 .. m : a[i] \in ToSet(a)
  BY <1>1 DEF ToSet
<1>5. ASSUME NEW i \in 1 .. m, NEW k \in m + 1 .. m + n PROVE c[i] # c[k]
  <2>1. c[i] \in ToSet(a)
    BY <1>3, <1>4
  <2>2. k - m \in DOMAIN b /\ c[k] = b[k - m]
    BY <1>1, <1>3
  <2> QED
    BY <2>1, <2>2
<1>6. ASSUME NEW i \in 1 .. m + n, NEW k \in 1 .. m + n, c[i] = c[k] PROVE i = k
  <2>1. CASE i \in 1 .. m /\ k \in 1 .. m
    BY <1>1, <1>3, <1>6, <2>1 DEF Distinct
  <2>2. CASE i \in m + 1 .. m + n /\ k \in m + 1 .. m + n
    <3>1. /\ b[i - m] = b[k - m] /\ i - m \in DOMAIN b /\ k - m \in DOMAIN b
      BY <1>1, <1>3, <1>6, <2>2
    <3>2. i - m = k - m
      BY <3>1 DEF Distinct
    <3> QED
      BY <3>2
  <2> QED
    BY <1>5, <1>6, <2>1, <2>2
<1> QED
  BY <1>2, <1>3, <1>6 DEF Distinct

LEMMA AlwaysPublishable ==
    ASSUME NEW domain, NEW required, NEW bonus, AreSkills(domain, required, bonus),
           NEW limit \in Nat, limit >= MinRequired
    PROVE  PublishableOn(domain, required, bonus, limit)
<1>1. PICK r, b : r = MapSkills(required) /\ b = MapSkills(bonus)
  OBVIOUS
<1>2. PICK p : p = Publishable(domain, r, b, limit)
  OBVIOUS
<1>3. PICK proposed : proposed = Proposed(domain, required, bonus, limit)
  OBVIOUS
<1>4. proposed = IF Len(p.required) < MinRequired THEN {} ELSE {p}
  BY <1>1, <1>2, <1>3 DEF Proposed
<1>5. /\ r \in Seq(Nat) /\ Distinct(r) /\ b \in Seq(Nat)
      /\ HaveDomains(domain, r)
  BY <1>1, SkillsMapped DEF AreSkills, HaveDomains
<1>6. \* It is enough to know what the one proposal would be.
      ASSUME p.required \in Seq(Nat),
             Len(p.required) >= MinRequired <=> HasPair(domain, r),
             Len(p.required) >= MinRequired =>
                /\ Cardinality({domain[c] : c \in ToSet(p.required)}) = 1
                /\ Cardinality(ToSet(p.required \o p.bonus)) = Len(p.required \o p.bonus)
                /\ Len(p.required) <= limit /\ Len(p.bonus) <= limit
      PROVE  PublishableOn(domain, required, bonus, limit)
  <2>1. Len(p.required) \in Nat /\ MinRequired \in Nat
    BY <1>6 DEF MinRequired
  <2>2. proposed = {} <=> ~ HasPair(domain, r)
    BY <1>4, <1>6, <2>1
  <2>3. ~ HasPair(domain, r) <=>
          \A i, k \in DOMAIN r : domain[r[i]] = domain[r[k]] => i = k
    BY DEF HasPair
  <2>4. \A q \in proposed : q = p /\ Len(p.required) >= MinRequired
    BY <1>4, <2>1
  <2>5. \A q \in proposed :
           /\ Cardinality({domain[c] : c \in ToSet(q.required)}) = 1
           /\ Cardinality(ToSet(q.required \o q.bonus)) = Len(q.required \o q.bonus)
           /\ Len(q.required) \in MinRequired .. limit /\ Len(q.bonus) <= limit
    <3> SUFFICES ASSUME NEW q \in proposed
                 PROVE  /\ Cardinality({domain[c] : c \in ToSet(p.required)}) = 1
                        /\ Cardinality(ToSet(p.required \o p.bonus)) = Len(p.required \o p.bonus)
                        /\ Len(p.required) \in MinRequired .. limit /\ Len(p.bonus) <= limit
      BY <2>4
    <3>1. Len(p.required) >= MinRequired
      BY <2>4
    <3>2. /\ Cardinality({domain[c] : c \in ToSet(p.required)}) = 1
          /\ Cardinality(ToSet(p.required \o p.bonus)) = Len(p.required \o p.bonus)
          /\ Len(p.required) <= limit /\ Len(p.bonus) <= limit
      BY <1>6, <3>1
    <3>3. Len(p.required) \in MinRequired .. limit
      BY <2>1, <3>1, <3>2
    <3> QED
      BY <3>2, <3>3
  <2> QED
    BY <1>1, <1>3, <2>2, <2>3, <2>5 DEF PublishableOn
<1>7. CASE r = <<>>
  <2>1. p.required = <<>>
    BY <1>2, <1>7 DEF Publishable
  <2>2. p.required \in Seq(Nat) /\ ~ (Len(p.required) >= MinRequired)
    BY <2>1 DEF MinRequired
  <2>3. ~ HasPair(domain, r)
    BY <1>7 DEF HasPair
  <2> QED
    BY <1>6, <2>2, <2>3
<1>8. CASE r # <<>>
  <2>1. PICK top : top = Dominant(domain, r)
    OBVIOUS
  <2>2. PICK core : core = Cut(Selected(r, InDomain(domain, r, top)), limit)
    OBVIOUS
  <2>3. PICK all : all = OffDomain(domain, r, top) \o b
    OBVIOUS
  <2>4. PICK extra : extra = Cut(Bonus(all, core), limit)
    OBVIOUS
  <2>5. p.required = core /\ p.bonus = extra
    BY <1>2, <1>8, <2>1, <2>2, <2>3, <2>4 DEF Publishable
  <2>6. /\ core \in Seq(Nat) /\ Distinct(core) /\ Len(core) <= limit
        /\ \A n \in DOMAIN core : domain[core[n]] = top
        /\ Len(core) >= MinRequired <=> HasPair(domain, r)
    <3>1. IsCore(domain, r, core, top, limit)
      BY <1>5, <1>8, <2>1, <2>2, CoreInDomain
    <3> QED
      BY <3>1 DEF IsCore
  <2>7. all \in Seq(Nat)
    BY <1>5, <2>3, OffDomainListed, Appended
  <2>8. /\ extra \in Seq(Nat) /\ Distinct(extra) /\ Len(extra) <= limit
        /\ \A n \in DOMAIN extra : extra[n] \notin ToSet(core)
    BY <2>4, <2>7, BonusApart
  <2>9. core \o extra \in Seq(Nat) /\ Distinct(core \o extra)
    BY <2>6, <2>8, JoinedOnce
  <2>10. Cardinality(ToSet(core \o extra)) = Len(core \o extra)
    BY <2>9, DistinctCounted
  <2>11. ASSUME Len(core) >= MinRequired
         PROVE  Cardinality({domain[c] : c \in ToSet(core)}) = 1
    <3>1. \A c \in ToSet(core) : domain[c] = top
      BY <2>6 DEF ToSet
    <3>2. ToSet(core) # {}
      BY <2>6, <2>11 DEF ToSet, MinRequired
    <3>3. {domain[c] : c \in ToSet(core)} = {top}
      BY <3>1, <3>2
    <3> QED
      BY <3>3, FS_Singleton
  <2> QED
    BY <1>6, <2>5, <2>6, <2>8, <2>10, <2>11
<1> QED
  BY <1>7, <1>8

-----------------------------------------------------------------------------
(* Mining: the score of a pair is within its bounds, and the pairs kept    *)
(* are the first of a total order.                                         *)

LEMMA QuotientBounds ==
    ASSUME NEW a \in Nat, NEW b \in Nat, b # 0, NEW q, q = a \div b
    PROVE  q \in Nat /\ b * q <= a /\ a < b * (q + 1)
<1>1. q \in Int /\ b \in Int /\ b > 0
  OBVIOUS
<1>2. b * q <= a /\ a < b * q + b
  BY <1>1
<1>3. b * (q + 1) = b * q + b
  BY <1>1
<1>4. q >= 0
  BY <1>1, <1>2, <1>3
<1> QED
  BY <1>1, <1>2, <1>3, <1>4

LEMMA OneCounts == One \in Nat /\ \A x \in 0 .. One : x \in Int
BY DEF One

LEMMA RoundedWithin ==
    ASSUME NEW num \in Nat, NEW den \in Nat, den # 0
    PROVE  Rounded(num, den) \in 0 .. One
<1>1. PICK r : r = (2 * One * num + den) \div (2 * den)
  OBVIOUS
<1>2. 2 * One * num + den \in Nat /\ 2 * den \in Nat /\ 2 * den # 0
  BY DEF One
<1>3. r \in Nat
  BY <1>1, <1>2, QuotientBounds
<1>4. Rounded(num, den) = IF r > One THEN One ELSE r
  BY <1>1 DEF Rounded
<1> QED
  BY <1>3, <1>4, OneCounts

\* The less something is divided by, the more is left.
LEMMA RoundedFalls ==
    ASSUME NEW num \in Nat, NEW few \in Nat, NEW many \in Nat, few # 0, few <= many
    PROVE  Rounded(num, many) <= Rounded(num, few)
<1>1. PICK q : q = (2 * One * num + many) \div (2 * many)
  OBVIOUS
<1>2. PICK r : r = (2 * One * num + few) \div (2 * few)
  OBVIOUS
<1>3. PICK total \in Nat : total = 2 * One * num
  BY DEF One
<1>4. q \in Nat /\ 2 * many * q <= total + many
  <2>1. total + many \in Nat /\ 2 * many \in Nat /\ 2 * many # 0
    OBVIOUS
  <2> QED
    BY <1>1, <1>3, <2>1, QuotientBounds
<1>5. r \in Nat /\ total + few < 2 * few * (r + 1)
  <2>1. total + few \in Nat /\ 2 * few \in Nat /\ 2 * few # 0
    OBVIOUS
  <2> QED
    BY <1>2, <1>3, <2>1, QuotientBounds
<1>6. q <= r
  <2> SUFFICES ASSUME r + 1 <= q PROVE FALSE
    BY <1>4, <1>5
  <2>1. PICK k \in Nat : k = 2 * q - 1 /\ 2 * r + 1 <= k
    BY <1>4, <1>5
  <2>2. many * k = 2 * many * q - many
    BY <1>4, <2>1
  <2>3. few * (2 * r + 1) = 2 * few * (r + 1) - few
    BY <1>5
  <2>4. many * k <= total /\ total < few * (2 * r + 1)
    <3>1. many * k \in Int /\ few * (2 * r + 1) \in Int /\ 2 * many * q \in Int
          /\ 2 * few * (r + 1) \in Int
      BY <1>4, <1>5, <2>1
    <3> QED
      BY <1>4, <1>5, <2>2, <2>3, <3>1
  <2>5. few * (2 * r + 1) <= few * k
    BY <1>5, <2>1
  <2>6. few * k <= many * k
    BY <2>1
  <2>7. few * (2 * r + 1) \in Int /\ few * k \in Int /\ many * k \in Int
    BY <1>5, <2>1
  <2> QED
    BY <2>4, <2>5, <2>6, <2>7
<1> QED
  BY <1>1, <1>2, <1>4, <1>5, <1>6 DEF Rounded, One

\* Two numbers are the least and the greatest of them.
LEMMA PairTaken ==
    ASSUME NEW p \in SUBSET Nat, IsFiniteSet(p), Cardinality(p) = 2
    PROVE  /\ Min(p) \in Nat /\ Max(p) \in Nat
           /\ p = {Min(p), Max(p)}
<1>1. PICK a : a \in p
  <2>1. p # {}
    BY FS_EmptySet
  <2> QED
    BY <2>1
<1>2. PICK b : p \ {a} = {b}
  <2>1. IsFiniteSet(p \ {a}) /\ Cardinality(p \ {a}) = 1
    <3>1. IsFiniteSet(p \ {a}) /\ Cardinality(p \ {a}) = Cardinality(p) - 1
      BY <1>1, FS_RemoveElement
    <3> QED
      BY <3>1
  <2> QED
    BY <2>1, FS_Singleton
<1>3. p = {a, b} /\ a # b /\ a \in Nat /\ b \in Nat
  BY <1>1, <1>2
<1>4. \A T : Min(T) = CHOOSE x \in T : \A y \in T : x <= y
  BY DEF Min
<1>5. \A T : Max(T) = CHOOSE x \in T : \A y \in T : x >= y
  BY DEF Max
<1>6. CASE a < b
  <2>1. Min(p) = a
    <3>1. \A x \in p : (\A y \in p : x <= y) <=> x = a
      BY <1>3, <1>6
    <3> QED
      BY <1>1, <1>4, <3>1
  <2>2. Max(p) = b
    <3>1. \A x \in p : (\A y \in p : x >= y) <=> x = b
      BY <1>3, <1>6
    <3>2. b \in p
      BY <1>3
    <3> QED
      BY <1>5, <3>1, <3>2
  <2> QED
    BY <1>3, <2>1, <2>2
<1>7. CASE b < a
  <2>1. Min(p) = b
    <3>1. \A x \in p : (\A y \in p : x <= y) <=> x = b
      BY <1>3, <1>7
    <3>2. b \in p
      BY <1>3
    <3> QED
      BY <1>4, <3>1, <3>2
  <2>2. Max(p) = a
    <3>1. \A x \in p : (\A y \in p : x >= y) <=> x = a
      BY <1>3, <1>7
    <3> QED
      BY <1>1, <1>5, <3>1
  <2> QED
    BY <1>3, <2>1, <2>2
<1> QED
  BY <1>3, <1>6, <1>7

\* Jobs, by what they ask for.
LEMMA AskingFinite ==
    ASSUME NEW jobs, ArePostings(jobs), NEW cs
    PROVE  /\ IsFiniteSet(DOMAIN jobs) /\ IsFiniteSet(Eligible(jobs))
           /\ Asking(jobs, cs) \in SUBSET Eligible(jobs)
           /\ IsFiniteSet(Asking(jobs, cs))
           /\ Cardinality(Asking(jobs, cs)) \in Nat
           /\ Cardinality(Eligible(jobs)) \in Nat
           /\ Cardinality(Asking(jobs, cs)) <= Cardinality(Eligible(jobs))
<1>1. IsFiniteSet(DOMAIN jobs)
  <2>1. PICK n \in Nat : DOMAIN jobs = 1 .. n
    BY DEF ArePostings
  <2> QED
    BY <2>1, FS_Interval
<1>2. Eligible(jobs) \in SUBSET DOMAIN jobs
  BY DEF Eligible
<1>3. IsFiniteSet(Eligible(jobs))
  BY <1>1, <1>2, FS_Subset
<1>4. Asking(jobs, cs) \in SUBSET Eligible(jobs)
  BY DEF Asking
<1>5. /\ IsFiniteSet(Asking(jobs, cs))
      /\ Cardinality(Asking(jobs, cs)) <= Cardinality(Eligible(jobs))
  BY <1>3, <1>4, FS_Subset
<1> QED
  BY <1>1, <1>3, <1>4, <1>5, FS_CardinalityType

\* The jobs that ask for both, for either, and all of them.
LEMMA UnionBetween ==
    ASSUME NEW jobs, ArePostings(jobs), NEW pair \in SUBSET Nat, IsFiniteSet(pair),
           Cardinality(pair) = 2
    PROVE  /\ UnionCount(jobs, pair) \in Nat
           /\ Cardinality(Asking(jobs, pair)) <= UnionCount(jobs, pair)
           /\ UnionCount(jobs, pair) <= Cardinality(Eligible(jobs))
<1>1. PICK A, B : A = Asking(jobs, {Min(pair)}) /\ B = Asking(jobs, {Max(pair)})
  OBVIOUS
<1>2. pair = {Min(pair), Max(pair)}
  BY PairTaken
<1>3. Asking(jobs, pair) = A \cap B
  BY <1>1, <1>2 DEF Asking
<1>4. IsFiniteSet(A) /\ IsFiniteSet(B) /\ A \cup B \in SUBSET Eligible(jobs)
  BY <1>1, AskingFinite
<1>5. PICK U : U = A \cup B
  OBVIOUS
<1>6. IsFiniteSet(U) /\ Cardinality(U) = Cardinality(A) + Cardinality(B) - Cardinality(A \cap B)
  BY <1>4, <1>5, FS_Union
<1>7. UnionCount(jobs, pair) = Cardinality(U)
  BY <1>1, <1>3, <1>6 DEF UnionCount
<1>8. Cardinality(U) <= Cardinality(Eligible(jobs))
  BY <1>4, <1>5, AskingFinite, FS_Subset
<1>9. Cardinality(A \cap B) <= Cardinality(U)
  BY <1>5, <1>6, FS_Subset
<1>10. Cardinality(U) \in Nat
  BY <1>6, FS_CardinalityType
<1> QED
  BY <1>3, <1>7, <1>8, <1>9, <1>10

\* What is scored is out of a positive number.
LEMMA EvidenceCounted ==
    ASSUME NEW jobs, ArePostings(jobs), NEW js \in SUBSET DOMAIN jobs
    PROVE  TotalQuality(jobs, js) \in Nat
<1>1. PICK P : P = 1 .. 100
  OBVIOUS
<1>2. IsFiniteSet(P)
  <2>1. 1 \in Int /\ 100 \in Int
    OBVIOUS
  <2>2. IsFiniteSet(1 .. 100)
    BY <2>1, FS_Interval
  <2> QED
    BY <1>1, <2>2
<1>3. IsFiniteSet(js)
  BY AskingFinite, FS_Subset
<1>4. PICK Q : Q = js \X P
  OBVIOUS
<1>5. IsFiniteSet(Q)
  BY <1>2, <1>3, <1>4, FS_Product
<1>6. PICK T : T = {p \in Q : p[2] <= jobs[p[1]].quality}
  OBVIOUS
<1>7. T \in SUBSET Q
  BY <1>6
<1>8. Cardinality(T) \in Nat
  BY <1>5, <1>7, FS_Subset, FS_CardinalityType
<1> QED
  BY <1>1, <1>4, <1>6, <1>8 DEF TotalQuality

LEMMA SourcesCounted ==
    ASSUME NEW jobs, NEW js, IsFiniteSet(js)
    PROVE  /\ Cardinality(Sources(jobs, js)) \in Nat
           /\ Cardinality(Companies(jobs, js)) \in Nat
           /\ js # {} => Cardinality(Sources(jobs, js)) # 0
<1>1. PICK f : f = [j \in js |-> jobs[j].source]
  OBVIOUS
<1>2. PICK S : S = {f[j] : j \in js}
  OBVIOUS
<1>3. Sources(jobs, js) = S
  BY <1>1, <1>2 DEF Sources
<1>4. IsFiniteSet(S) /\ Cardinality(S) \in Nat
  BY <1>1, <1>2, ImageCounts
<1>5. js # {} => Cardinality(S) # 0
  BY <1>2, <1>4, FS_EmptySet
<1>6. PICK g : g = [j \in js |-> jobs[j].company]
  OBVIOUS
<1>7. PICK T : T = {g[j] : j \in js}
  OBVIOUS
<1>8. Companies(jobs, js) \in SUBSET T
  BY <1>6, <1>7 DEF Companies
<1>9. IsFiniteSet(T)
  BY <1>6, <1>7, ImageCounts
<1>10. Cardinality(Companies(jobs, js)) \in Nat
  BY <1>8, <1>9, FS_Subset, FS_CardinalityType
<1> QED
  BY <1>3, <1>4, <1>5, <1>10

\* The score of a pair is no higher than the best of its parts.
LEMMA BlendBelowBest ==
    ASSUME NEW s \in 0 .. One, NEW d \in 0 .. One, NEW c \in 0 .. One, NEW e \in 0 .. One,
           NEW o, o = (s * 35 + d * 20 + c * 25 + e * 20 + 50) \div 100
    PROVE  o \in 0 .. One /\ o <= Max({s, d, c, e})
<1>1. PICK T : T = {s, d, c, e}
  OBVIOUS
<1>2. PICK m \in T : \A y \in T : m >= y
  BY <1>1 DEF One
<1>3. \E x \in T : \A y \in T : x >= y
  BY <1>2
<1>4. Max(T) = CHOOSE x \in T : \A y \in T : x >= y
  BY DEF Max
<1>5. Max(T) \in T /\ \A y \in T : Max(T) >= y
  BY <1>3, <1>4
<1>6. PICK best : best = Max(T)
  OBVIOUS
<1>7. best \in 0 .. One /\ s <= best /\ d <= best /\ c <= best /\ e <= best
  BY <1>1, <1>5, <1>6
<1>8. o \in 0 .. One /\ o <= best
  <2>1. PICK sum \in Nat : sum = s * 35 + d * 20 + c * 25 + e * 20 + 50
    BY DEF One
  <2>2. sum < 100 * (best + 1)
    BY <1>7, <2>1 DEF One
  <2>3. o \in Nat /\ 100 * o <= sum
    <3>1. 100 \in Nat /\ 100 # 0 /\ o = sum \div 100
      BY <2>1
    <3> QED
      BY <3>1, QuotientBounds
  <2>4. best \in Int /\ best <= One
    BY <1>7, OneCounts
  <2>5. o <= best
    BY <2>1, <2>2, <2>3, <2>4
  <2> QED
    BY <2>3, <2>4, <2>5, OneCounts
<1> QED
  BY <1>1, <1>6, <1>8

IsSkillPair(pair) == pair \in SUBSET Nat /\ IsFiniteSet(pair) /\ Cardinality(pair) = 2

ScoredInBounds(c) ==
    /\ {c.support, c.diversity, c.coherence, c.evidence, c.overall} \subseteq 0 .. One
    /\ c.coherence >= c.support
    /\ c.overall <= Max({c.support, c.diversity, c.coherence, c.evidence})

LEMMA CandidateInBounds ==
    ASSUME NEW jobs, ArePostings(jobs), NEW pair, IsSkillPair(pair),
           Asking(jobs, pair) # {}, NEW c, c = PairCandidate(jobs, pair)
    PROVE  ScoredInBounds(c)
<1>1. PICK js : js = Asking(jobs, pair)
  OBVIOUS
<1>2. PICK all : all = Eligible(jobs)
  OBVIOUS
<1>3. PICK union : union = UnionCount(jobs, pair)
  OBVIOUS
<1>4. PICK n : n = Cardinality(js)
  OBVIOUS
<1>5. PICK eligible : eligible = Cardinality(all)
  OBVIOUS
<1>6. /\ js # {} /\ js \in SUBSET all /\ IsFiniteSet(js) /\ IsFiniteSet(all)
      /\ n \in Nat /\ eligible \in Nat
  BY <1>1, <1>2, <1>4, <1>5, AskingFinite
<1>7. n # 0 /\ union \in Nat /\ n <= union /\ union <= eligible
  <2>1. union \in Nat /\ n <= union /\ union <= eligible
    BY <1>1, <1>2, <1>3, <1>4, <1>5, UnionBetween DEF IsSkillPair
  <2>2. n # 0
    BY <1>4, <1>6, FS_EmptySet
  <2> QED
    BY <2>1, <2>2
<1>8. union # 0 /\ eligible # 0 /\ n * 100 \in Nat /\ n * 100 # 0
  BY <1>6, <1>7
<1>9. PICK s \in Nat : s = Cardinality(Sources(jobs, all)) /\ s # 0
  <2>1. all # {}
    BY <1>6
  <2> QED
    BY <1>6, <2>1, SourcesCounted
<1>10. PICK few \in Nat : few = Cardinality(Sources(jobs, js))
  BY <1>6, SourcesCounted
<1>11. PICK hiring \in Nat : hiring = Cardinality(Companies(jobs, js))
  BY <1>6, SourcesCounted
<1>12. PICK points \in Nat : points = TotalQuality(jobs, js)
  <2>1. js \in SUBSET DOMAIN jobs
    BY <1>2, <1>6 DEF Eligible
  <2> QED
    BY <2>1, EvidenceCounted
<1>13. 2 * s * n \in Nat /\ 2 * s * n # 0 /\ few * n + hiring * s \in Nat
  BY <1>6, <1>7, <1>9, <1>10, <1>11
<1>14. /\ c.support = Rounded(n, eligible) /\ c.coherence = Rounded(n, union)
       /\ c.diversity = Rounded(few * n + hiring * s, 2 * s * n)
       /\ c.evidence = Rounded(points, n * 100)
       /\ c.overall = (c.support * 35 + c.diversity * 20 + c.coherence * 25
                        + c.evidence * 20 + 50) \div 100
  BY <1>1, <1>2, <1>3, <1>4, <1>5, <1>9, <1>10, <1>11, <1>12 DEF PairCandidate
<1>15. c.support \in 0 .. One
  BY <1>6, <1>8, <1>14, RoundedWithin
<1>16. c.diversity \in 0 .. One
  BY <1>13, <1>14, RoundedWithin
<1>17. c.coherence \in 0 .. One
  BY <1>6, <1>7, <1>8, <1>14, RoundedWithin
<1>18. c.evidence \in 0 .. One
  BY <1>8, <1>12, <1>14, RoundedWithin
<1>19. c.support <= c.coherence
  BY <1>6, <1>7, <1>8, <1>14, RoundedFalls
<1>20. c.overall \in 0 .. One /\ c.overall <= Max({c.support, c.diversity, c.coherence, c.evidence})
  BY <1>14, <1>15, <1>16, <1>17, <1>18, BlendBelowBest
<1>21. c.coherence >= c.support
  <2>1. c.coherence \in Int /\ c.support \in Int
    BY <1>15, <1>17, OneCounts
  <2> QED
    BY <1>19, <2>1
<1> QED
  BY <1>15, <1>16, <1>17, <1>18, <1>20, <1>21 DEF ScoredInBounds

-----------------------------------------------------------------------------
(* The order of the candidates *)

IsCandidate(jobs, c) ==
    \E pair : IsSkillPair(pair) /\ Asking(jobs, pair) # {} /\ c = PairCandidate(jobs, pair)

LEMMA PairsFound ==
    ASSUME NEW jobs, ArePostings(jobs), NEW minSupport, NEW minSources,
           NEW all, all = Pairs(jobs, minSupport, minSources)
    PROVE  IsFiniteSet(all) /\ \A c \in all : IsCandidate(jobs, c)
<1>1. PICK skills : skills = UNION {jobs[j].caps : j \in DOMAIN jobs}
  OBVIOUS
<1>2. skills \in SUBSET Nat /\ IsFiniteSet(skills)
  <2>1. PICK f, D : D = DOMAIN jobs /\ f = [j \in D |-> jobs[j].caps]
    OBVIOUS
  <2>2. PICK T : T = {f[j] : j \in D}
    OBVIOUS
  <2>3. IsFiniteSet(T)
    BY <2>1, <2>2, AskingFinite, ImageCounts
  <2>4. \A t \in T : IsFiniteSet(t) /\ t \subseteq Nat
    BY <2>1, <2>2 DEF ArePostings
  <2>5. skills = UNION T
    BY <1>1, <2>1, <2>2
  <2> QED
    BY <2>3, <2>4, <2>5, FS_UNION
<1>3. PICK kept : kept = {p \in kSubset(2, skills) : Supported(jobs, p, minSupport, minSources)}
  OBVIOUS
<1>4. kept \in SUBSET (SUBSET skills) /\ IsFiniteSet(SUBSET skills)
  BY <1>2, <1>3, FS_SUBSET DEF kSubset
<1>5. IsFiniteSet(kept)
  BY <1>4, FS_Subset
<1>6. \A p \in kept : IsSkillPair(p) /\ Asking(jobs, p) # {}
  <2> SUFFICES ASSUME NEW p \in kept PROVE IsSkillPair(p) /\ Asking(jobs, p) # {}
    OBVIOUS
  <2>1. p \in SUBSET skills /\ Cardinality(p) = 2
    BY <1>3 DEF kSubset
  <2>2. IsFiniteSet(p)
    BY <1>2, <2>1, FS_Subset
  <2>3. Asking(jobs, p) # {}
    BY <1>3 DEF Supported
  <2> QED
    BY <1>2, <2>1, <2>2, <2>3 DEF IsSkillPair
<1>7. PICK g : g = [p \in kept |-> PairCandidate(jobs, p)]
  OBVIOUS
<1>8. all = {g[p] : p \in kept} /\ \A p \in kept : g[p] = PairCandidate(jobs, p)
  BY <1>1, <1>3, <1>7 DEF Pairs
<1>9. IsFiniteSet(all)
  BY <1>5, <1>7, <1>8, ImageCounts
<1> QED
  BY <1>6, <1>8, <1>9 DEF IsCandidate

\* What a candidate is sorted on, and that it is all there is to it.
LEMMA CandidateKey ==
    ASSUME NEW jobs, ArePostings(jobs), NEW c, IsCandidate(jobs, c)
    PROVE  /\ c.overall \in Int /\ Cardinality(c.jobs) \in Int
           /\ Min(c.pair) \in Int /\ Max(c.pair) \in Int
           /\ c = PairCandidate(jobs, {Min(c.pair), Max(c.pair)})
<1>1. PICK pair : /\ IsSkillPair(pair) /\ Asking(jobs, pair) # {}
                  /\ c = PairCandidate(jobs, pair)
  BY DEF IsCandidate
<1>2. c.pair = pair /\ c.jobs = Asking(jobs, pair)
  BY <1>1 DEF PairCandidate
<1>3. Min(pair) \in Nat /\ Max(pair) \in Nat /\ pair = {Min(pair), Max(pair)}
  BY <1>1, PairTaken DEF IsSkillPair
<1>4. Cardinality(c.jobs) \in Nat
  BY <1>2, AskingFinite
<1>5. c.overall \in Int
  <2>1. ScoredInBounds(c)
    BY <1>1, CandidateInBounds
  <2>2. c.overall \in 0 .. One
    BY <2>1 DEF ScoredInBounds
  <2> QED
    BY <2>2, OneCounts
<1> QED
  BY <1>1, <1>2, <1>3, <1>4, <1>5

LEMMA CandidatesOrdered ==
    ASSUME NEW jobs, ArePostings(jobs), NEW all, IsFiniteSet(all),
           \A c \in all : IsCandidate(jobs, c),
           NEW before, before = [c \in all |-> {d \in all : Before(d, c)}]
    PROVE  IsOrder(all, before)
<1>1. \A c \in all : /\ c.overall \in Int /\ Cardinality(c.jobs) \in Int
                     /\ Min(c.pair) \in Int /\ Max(c.pair) \in Int
  BY CandidateKey
<1>2. \A a, b \in all : Min(a.pair) = Min(b.pair) /\ Max(a.pair) = Max(b.pair) => a = b
  <2> SUFFICES ASSUME NEW a \in all, NEW b \in all, Min(a.pair) = Min(b.pair), Max(a.pair) = Max(b.pair)
               PROVE  a = b
    OBVIOUS
  <2>1. a = PairCandidate(jobs, {Min(a.pair), Max(a.pair)})
    BY CandidateKey
  <2>2. b = PairCandidate(jobs, {Min(b.pair), Max(b.pair)})
    BY CandidateKey
  <2> QED
    BY <2>1, <2>2
<1>3. \A x, y \in all : x \in before[y] <=> Before(x, y)
  OBVIOUS
<1>4. DOMAIN before = all /\ \A x \in all : before[x] \in SUBSET all
  OBVIOUS
<1>5. \A x \in all : ~ Before(x, x)
  BY <1>1 DEF Before
<1>6. \A x, y, z \in all : Before(z, x) /\ Before(x, y) => Before(z, y)
  BY <1>1 DEF Before
<1>7. \A x, y \in all : x = y \/ Before(x, y) \/ Before(y, x)
  BY <1>1, <1>2 DEF Before
<1>8. \A x, y \in all : x \in before[y] => before[x] \subseteq before[y]
  BY <1>3, <1>4, <1>6
<1> QED
  BY <1>3, <1>4, <1>5, <1>7, <1>8 DEF IsOrder

LEMMA AlwaysBest ==
    ASSUME NEW jobs, ArePostings(jobs), NEW minSupport, NEW minSources, NEW maximum \in Nat
    PROVE  MinedAreBestOn(jobs, minSupport, minSources, maximum)
<1>1. PICK all : all = Pairs(jobs, minSupport, minSources)
  OBVIOUS
<1>2. PICK before : before = [c \in all |-> {d \in all : Before(d, c)}]
  OBVIOUS
<1>3. PICK at : at = InOrder(before)
  OBVIOUS
<1>4. PICK mined : mined = Cut(at, maximum)
  OBVIOUS
<1>5. mined = MineSkillPairs(jobs, minSupport, minSources, maximum)
  BY <1>1, <1>2, <1>3, <1>4 DEF MineSkillPairs
<1>6. IsFiniteSet(all) /\ \A c \in all : IsCandidate(jobs, c)
  BY <1>1, PairsFound
<1>7. /\ at \in Seq(all)
      /\ \A x \in all : \E n \in DOMAIN at : at[n] = x
      /\ \A i, k \in DOMAIN at : i < k => at[i] \in before[at[k]]
  <2>1. IsOrder(all, before)
    BY <1>2, <1>6, CandidatesOrdered
  <2> QED
    BY <1>3, <2>1, OrderListed
<1>8. \A i, k \in DOMAIN at : i < k => Before(at[i], at[k])
  <2> SUFFICES ASSUME NEW i \in DOMAIN at, NEW k \in DOMAIN at, i < k
               PROVE  Before(at[i], at[k])
    OBVIOUS
  <2>1. at[i] \in before[at[k]] /\ at[k] \in all
    BY <1>7
  <2> QED
    BY <1>2, <2>1
<1>9. /\ mined \in Seq(all) /\ Len(mined) <= maximum /\ Len(mined) <= Len(at)
      /\ Len(mined) = maximum \/ Len(mined) = Len(at)
      /\ \A n \in DOMAIN mined : n \in DOMAIN at /\ mined[n] = at[n]
  BY <1>4, <1>7, CutOff
<1>10. PICK m \in Nat, n \in Nat : m = Len(mined) /\ n = Len(at) /\ DOMAIN mined = 1 .. m /\ DOMAIN at = 1 .. n
  BY <1>7, <1>9
<1>11. \A i, k \in DOMAIN mined : i < k => Before(mined[i], mined[k])
  BY <1>8, <1>9
<1>12. ASSUME NEW c \in all \ ToSet(mined)
       PROVE  Len(mined) = maximum /\ \A x \in ToSet(mined) : Before(x, c)
  <2>1. PICK k \in 1 .. n : at[k] = c
    BY <1>7, <1>10
  <2>2. ~ (k <= m)
    <3> SUFFICES ASSUME k <= m PROVE FALSE
      OBVIOUS
    <3>1. k \in DOMAIN mined /\ mined[k] = c
      BY <1>9, <1>10, <2>1
    <3> QED
      BY <3>1 DEF ToSet
  <2>3. ASSUME NEW x \in ToSet(mined) PROVE Before(x, c)
    <3>1. PICK i \in 1 .. m : x = mined[i]
      BY <1>10 DEF ToSet
    <3>2. i \in DOMAIN at /\ k \in DOMAIN at /\ i < k /\ x = at[i]
      BY <1>9, <1>10, <2>1, <2>2, <3>1
    <3> QED
      BY <1>8, <2>1, <3>2
  <2> QED
    BY <1>9, <1>10, <2>1, <2>2, <2>3
<1>13. ASSUME NEW c \in ToSet(mined) PROVE ScoredInBounds(c)
  <2>1. c \in all
    BY <1>9 DEF ToSet
  <2> QED
    BY <1>6, <2>1, CandidateInBounds DEF IsCandidate
<1> QED
  BY <1>1, <1>5, <1>11, <1>12, <1>13 DEF MinedAreBestOn, ScoredInBounds

-----------------------------------------------------------------------------
(* Fractions                                                                *)

\* A score and its parts are shares of a whole.
IsShare(x) == x.n \in Nat /\ x.d \in Nat /\ x.d # 0 /\ x.n <= x.d

LEMMA QuantizedBounds ==
    ASSUME NEW n \in Nat, NEW d \in Nat, d # 0
    PROVE  /\ Quantized(n, d) \in Nat
           /\ 2 * (d * Quantized(n, d)) <= 200 * n + d
           /\ 200 * n + d < 2 * (d * Quantized(n, d)) + 2 * d
<1>1. PICK q : q = Quantized(n, d)
  OBVIOUS
<1>2. 200 * n + d \in Nat /\ 2 * d \in Nat /\ 2 * d # 0
  OBVIOUS
<1>3. q \in Nat /\ (2 * d) * q <= 200 * n + d /\ 200 * n + d < (2 * d) * (q + 1)
  BY <1>1, <1>2, QuotientBounds DEF Quantized
<1>4. (2 * d) * q = 2 * (d * q) /\ (2 * d) * (q + 1) = 2 * (d * q) + 2 * d
  BY <1>3
<1> QED
  BY <1>1, <1>3, <1>4

\* Rounding keeps the order of two fractions.
LEMMA QuantizedGrows ==
    ASSUME NEW n \in Nat, NEW d \in Nat, d # 0, NEW m \in Nat, NEW e \in Nat, e # 0,
           n * e <= m * d
    PROVE  Quantized(n, d) <= Quantized(m, e)
<1>1. PICK q, r : q = Quantized(n, d) /\ r = Quantized(m, e)
  OBVIOUS
<1>2. q \in Nat /\ 2 * (d * q) <= 200 * n + d
  BY <1>1, QuantizedBounds
<1>3. r \in Nat /\ 200 * m + e < 2 * (e * r) + 2 * e
  BY <1>1, QuantizedBounds
<1>4. q <= r
  <2> SUFFICES ASSUME r + 1 <= q PROVE FALSE
    BY <1>2, <1>3
  <2>1. PICK k \in Nat : k = (d * e) * q
    BY <1>2
  <2>2. 2 * k <= 200 * (n * e) + d * e
    <3>1. e * (2 * (d * q)) <= e * (200 * n + d)
      <4>1. PICK x, y \in Nat : x = 2 * (d * q) /\ y = 200 * n + d
        BY <1>2
      <4>2. x <= y
        BY <1>2, <4>1
      <4>3. e * x <= e * y
        BY <4>1, <4>2
      <4> QED
        BY <4>1, <4>3
    <3>2. e * (2 * (d * q)) = 2 * k /\ e * (200 * n + d) = 200 * (n * e) + d * e
      BY <1>2, <2>1
    <3> QED
      BY <3>1, <3>2
  <2>3. 200 * (m * d) + d * e < 2 * k
    <3>1. 200 * m + e < 2 * (e * q)
      <4>1. e * (r + 1) <= e * q
        BY <1>2, <1>3
      <4>2. e * (r + 1) = e * r + e
        BY <1>3
      <4>3. e * r \in Nat /\ e * q \in Nat
        BY <1>2, <1>3
      <4> QED
        BY <1>3, <4>1, <4>2, <4>3
    <3>2. d * (200 * m + e) < d * (2 * (e * q))
      <4>1. PICK x, y \in Nat : x = 200 * m + e /\ y = 2 * (e * q)
        BY <1>2
      <4>2. x < y
        BY <3>1, <4>1
      <4>3. d * x < d * y
        BY <4>1, <4>2
      <4> QED
        BY <4>1, <4>3
    <3>3. d * (200 * m + e) = 200 * (m * d) + d * e /\ d * (2 * (e * q)) = 2 * k
      BY <1>2, <2>1
    <3> QED
      BY <3>2, <3>3
  <2>4. n * e \in Nat /\ m * d \in Nat /\ d * e \in Nat
    OBVIOUS
  <2> QED
    BY <2>1, <2>2, <2>3, <2>4
<1> QED
  BY <1>1, <1>4

LEMMA QuantizedPoints ==
    /\ Quantized(0, 1) = 0 /\ Quantized(71, 1) = 7100 /\ Quantized(75, 1) = 7500
    /\ Quantized(100, 1) = Hundred /\ Hundred = 10000
BY DEF Quantized, Hundred

LEMMA ShareQuantized ==
    ASSUME NEW n \in Nat, NEW d \in Nat, d # 0, n <= 100 * d
    PROVE  Quantized(n, d) \in 0 .. Hundred
<1>1. n * 1 <= 100 * d /\ 100 \in Nat /\ 1 \in Nat /\ 1 # 0
  OBVIOUS
<1>2. Quantized(n, d) <= Quantized(100, 1)
  BY <1>1, QuantizedGrows
<1>3. PICK q \in Nat : q = Quantized(n, d)
  BY QuantizedBounds
<1>4. PICK h \in Nat : h = Hundred
  BY DEF Hundred
<1>5. q <= h
  BY <1>2, <1>3, <1>4, QuantizedPoints
<1>6. q \in 0 .. h
  BY <1>3, <1>5
<1> QED
  BY <1>3, <1>4, <1>6

\* What is a multiple of the divisor is divided without a remainder.
LEMMA ExactQuotient ==
    ASSUME NEW a \in Nat, NEW b \in Nat, b # 0, NEW p, p = a * b
    PROVE  p \div b = a
<1>1. PICK q : q = p \div b
  OBVIOUS
<1>2. p \in Nat
  OBVIOUS
<1>3. q \in Nat /\ b * q <= p /\ p < b * (q + 1)
  BY <1>1, <1>2, QuotientBounds
<1>4. q <= a
  <2> SUFFICES ASSUME a + 1 <= q PROVE FALSE
    BY <1>3
  <2>1. b * (a + 1) <= b * q
    BY <1>3
  <2>2. b * (a + 1) = p + b
    OBVIOUS
  <2>3. b * q \in Nat
    BY <1>3
  <2> QED
    BY <1>2, <1>3, <2>1, <2>2, <2>3
<1>5. a <= q
  <2> SUFFICES ASSUME q + 1 <= a PROVE FALSE
    BY <1>3
  <2>1. b * (q + 1) <= b * a
    BY <1>3
  <2>2. b * (q + 1) \in Nat
    BY <1>3
  <2> QED
    BY <1>2, <1>3, <2>1, <2>2
<1> QED
  BY <1>1, <1>3, <1>4, <1>5

AreShares(f) == f = <<f[1], f[2], f[3], f[4], f[5]>> /\ \A i \in 1 .. 5 : IsShare(f[i])

\* Each fraction in terms of the common denominator.
LEMMA CommonDenominator ==
    ASSUME NEW f, AreShares(f), NEW i \in 1 .. 5
    PROVE  /\ Denominator(f) \in Nat /\ Denominator(f) # 0
           /\ Numerators(f)[i] \in Nat /\ Numerators(f)[i] <= Denominator(f)
           /\ Numerators(f)[i] * f[i].d = f[i].n * Denominator(f)
<1>1. PICK a, b, c, d, e : /\ a = f[1].d /\ b = f[2].d /\ c = f[3].d
                           /\ d = f[4].d /\ e = f[5].d
  OBVIOUS
<1>2. /\ a \in Nat /\ b \in Nat /\ c \in Nat /\ d \in Nat /\ e \in Nat
      /\ a # 0 /\ b # 0 /\ c # 0 /\ d # 0 /\ e # 0
  BY <1>1 DEF AreShares, IsShare
<1>3. PICK D \in Nat : D = a * b * c * d * e
  BY <1>2
<1>4. D # 0
  <2>1. a * b # 0 /\ a * b \in Nat
    BY <1>2
  <2>2. a * b * c # 0 /\ a * b * c \in Nat
    BY <1>2, <2>1
  <2>3. a * b * c * d # 0 /\ a * b * c * d \in Nat
    BY <1>2, <2>2
  <2> QED
    BY <1>2, <1>3, <2>3
<1>5. Denominator(f) = D
  BY <1>1, <1>3 DEF Denominator
<1>6. PICK k \in Nat : D = k * f[i].d
  <2>1. b * c * d * e \in Nat /\ D = (b * c * d * e) * a
    BY <1>2, <1>3
  <2>2. a * c * d * e \in Nat /\ D = (a * c * d * e) * b
    BY <1>2, <1>3
  <2>3. a * b * d * e \in Nat /\ D = (a * b * d * e) * c
    BY <1>2, <1>3
  <2>4. a * b * c * e \in Nat /\ D = (a * b * c * e) * d
    BY <1>2, <1>3
  <2>5. a * b * c * d \in Nat /\ D = (a * b * c * d) * e
    BY <1>2, <1>3
  <2>6. i = 1 \/ i = 2 \/ i = 3 \/ i = 4 \/ i = 5
    OBVIOUS
  <2> QED
    BY <1>1, <2>1, <2>2, <2>3, <2>4, <2>5, <2>6
<1>7. PICK m, s : m = f[i].n /\ s = f[i].d
  OBVIOUS
<1>8. m \in Nat /\ s \in Nat /\ s # 0 /\ m <= s
  BY <1>7 DEF AreShares, IsShare
<1>9. D \div s = k
  BY <1>6, <1>7, <1>8, ExactQuotient
<1>10. Numerators(f)[i] = m * k
  BY <1>5, <1>7, <1>9 DEF Numerators
<1>11. m * k \in Nat /\ m * k <= s * k /\ (m * k) * s = m * (k * s)
  BY <1>8
<1> QED
  BY <1>4, <1>5, <1>6, <1>7, <1>8, <1>10, <1>11

LEMMA TotalInBounds ==
    ASSUME NEW f, AreShares(f)
    PROVE  WeightedTotal(f) \in 0 .. Hundred
<1>1. PICK y, D : y = Numerators(f) /\ D = Denominator(f)
  OBVIOUS
<1>2. /\ D \in Nat /\ D # 0
      /\ \A i \in 1 .. 5 : y[i] \in Nat /\ y[i] <= D
  BY <1>1, CommonDenominator
<1>3. /\ y[1] \in Nat /\ y[2] \in Nat /\ y[3] \in Nat /\ y[4] \in Nat /\ y[5] \in Nat
      /\ y[1] <= D /\ y[2] <= D /\ y[3] <= D /\ y[4] <= D /\ y[5] <= D
  BY <1>2
<1>4. Weigh(y) = 55 * y[1] + 10 * y[2] + 15 * y[3] + 15 * y[4] + 5 * y[5]
  BY DEF Weigh, Weights
<1>5. Weigh(y) \in Nat /\ Weigh(y) <= 100 * D
  BY <1>2, <1>3, <1>4
<1> QED
  BY <1>1, <1>2, <1>5, ShareQuantized DEF WeightedTotal

LEMMA FactorsCancel ==
    ASSUME NEW k \in Nat, k # 0, NEW a \in Nat, NEW b \in Nat, k * a <= k * b
    PROVE  a <= b
<1> SUFFICES ASSUME b + 1 <= a PROVE FALSE
  OBVIOUS
<1>1. k * (b + 1) <= k * a
  OBVIOUS
<1>2. k * (b + 1) = k * b + k
  OBVIOUS
<1>3. k * a \in Nat /\ k * b \in Nat
  OBVIOUS
<1> QED
  BY <1>1, <1>2, <1>3

\* Two fractions keep their order over the denominators of their lists.
LEMMA NumeratorsOrdered ==
    ASSUME NEW n \in Nat, NEW d \in Nat, d # 0, NEW m \in Nat, NEW e \in Nat, e # 0,
           NEW D \in Nat, NEW E \in Nat, NEW x \in Nat, NEW y \in Nat,
           x * d = n * D, y * e = m * E, n * e <= m * d
    PROVE  x * E <= y * D
<1>1. PICK k \in Nat : k = d * e
  OBVIOUS
<1>2. k # 0
  BY <1>1
<1>3. (n * e) * (D * E) <= (m * d) * (D * E)
  <2>1. PICK a, b, c \in Nat : a = n * e /\ b = m * d /\ c = D * E
    OBVIOUS
  <2>2. a * c <= b * c
    BY <2>1
  <2> QED
    BY <2>1, <2>2
<1>4. k * (x * E) = (n * e) * (D * E)
  <2>1. k * (x * E) = (x * d) * (e * E)
    BY <1>1
  <2>2. (n * D) * (e * E) = (n * e) * (D * E)
    OBVIOUS
  <2> QED
    BY <2>1, <2>2
<1>5. k * (y * D) = (m * d) * (D * E)
  <2>1. k * (y * D) = (y * e) * (d * D)
    BY <1>1
  <2>2. (m * E) * (d * D) = (m * d) * (D * E)
    OBVIOUS
  <2> QED
    BY <2>1, <2>2
<1>6. PICK a, b \in Nat : a = x * E /\ b = y * D
  OBVIOUS
<1>7. k * a <= k * b
  BY <1>3, <1>4, <1>5, <1>6
<1>8. a <= b
  BY <1>2, <1>7, FactorsCancel
<1> QED
  BY <1>6, <1>8

\* No part of a score is less: neither is its total.
NoneLess(f, g) == \A i \in 1 .. 5 : f[i].n * g[i].d <= g[i].n * f[i].d

LEMMA TotalGrows ==
    ASSUME NEW f, NEW g, AreShares(f), AreShares(g), NoneLess(f, g)
    PROVE  WeightedTotal(f) <= WeightedTotal(g)
<1>1. PICK x, D, y, E : /\ x = Numerators(f) /\ D = Denominator(f)
                        /\ y = Numerators(g) /\ E = Denominator(g)
  OBVIOUS
<1>2. /\ D \in Nat /\ D # 0 /\ \A i \in 1 .. 5 : x[i] \in Nat /\ x[i] * f[i].d = f[i].n * D
  BY <1>1, CommonDenominator
<1>3. /\ E \in Nat /\ E # 0 /\ \A i \in 1 .. 5 : y[i] \in Nat /\ y[i] * g[i].d = g[i].n * E
  BY <1>1, CommonDenominator
<1>4. \A i \in 1 .. 5 : x[i] * E <= y[i] * D
  <2> SUFFICES ASSUME NEW i \in 1 .. 5 PROVE x[i] * E <= y[i] * D
    OBVIOUS
  <2>1. PICK n, d, m, e : n = f[i].n /\ d = f[i].d /\ m = g[i].n /\ e = g[i].d
    OBVIOUS
  <2>2. n \in Nat /\ d \in Nat /\ d # 0 /\ m \in Nat /\ e \in Nat /\ e # 0
    BY <2>1 DEF AreShares, IsShare
  <2>3. n * e <= m * d
    BY <2>1 DEF NoneLess
  <2>4. PICK p, q \in Nat : p = x[i] /\ q = y[i]
    BY <1>2, <1>3
  <2>5. p * d = n * D /\ q * e = m * E
    BY <1>2, <1>3, <2>1, <2>4
  <2>6. p * E <= q * D
    BY <1>2, <1>3, <2>2, <2>3, <2>5, NumeratorsOrdered
  <2> QED
    BY <2>4, <2>6
<1>5. PICK a1, a2, a3, a4, a5 \in Nat :
         a1 = x[1] /\ a2 = x[2] /\ a3 = x[3] /\ a4 = x[4] /\ a5 = x[5]
  <2>1. x[1] \in Nat /\ x[2] \in Nat /\ x[3] \in Nat /\ x[4] \in Nat /\ x[5] \in Nat
    BY <1>2
  <2> QED
    BY <2>1
<1>6. PICK b1, b2, b3, b4, b5 \in Nat :
         b1 = y[1] /\ b2 = y[2] /\ b3 = y[3] /\ b4 = y[4] /\ b5 = y[5]
  <2>1. y[1] \in Nat /\ y[2] \in Nat /\ y[3] \in Nat /\ y[4] \in Nat /\ y[5] \in Nat
    BY <1>3
  <2> QED
    BY <2>1
<1>7. /\ a1 * E <= b1 * D /\ a2 * E <= b2 * D /\ a3 * E <= b3 * D
      /\ a4 * E <= b4 * D /\ a5 * E <= b5 * D
  BY <1>4, <1>5, <1>6
<1>8. PICK v, w \in Nat : /\ v = 55 * a1 + 10 * a2 + 15 * a3 + 15 * a4 + 5 * a5
                          /\ w = 55 * b1 + 10 * b2 + 15 * b3 + 15 * b4 + 5 * b5
  OBVIOUS
<1>9. v = Weigh(x) /\ w = Weigh(y)
  BY <1>5, <1>6, <1>8 DEF Weigh, Weights
<1>10. v * E <= w * D
  <2>1. v * E = 55 * (a1 * E) + 10 * (a2 * E) + 15 * (a3 * E) + 15 * (a4 * E) + 5 * (a5 * E)
    BY <1>3, <1>8
  <2>2. w * D = 55 * (b1 * D) + 10 * (b2 * D) + 15 * (b3 * D) + 15 * (b4 * D) + 5 * (b5 * D)
    BY <1>2, <1>8
  <2>3. PICK c1, c2, c3, c4, c5 \in Nat :
           c1 = a1 * E /\ c2 = a2 * E /\ c3 = a3 * E /\ c4 = a4 * E /\ c5 = a5 * E
    BY <1>3
  <2>4. PICK d1, d2, d3, d4, d5 \in Nat :
           d1 = b1 * D /\ d2 = b2 * D /\ d3 = b3 * D /\ d4 = b4 * D /\ d5 = b5 * D
    BY <1>2
  <2>5. c1 <= d1 /\ c2 <= d2 /\ c3 <= d3 /\ c4 <= d4 /\ c5 <= d5
    BY <1>7, <2>3, <2>4
  <2> QED
    BY <2>1, <2>2, <2>3, <2>4, <2>5
<1>11. Quantized(v, D) <= Quantized(w, E)
  BY <1>2, <1>3, <1>8, <1>10, QuantizedGrows
<1> QED
  BY <1>1, <1>9, <1>11 DEF WeightedTotal

\* A part, weighed, is within half a hundredth of its fraction.
IsNear(p, D, y) == /\ p \in Nat
                   /\ 2 * (D * p) <= 20000 * y + D
                   /\ 20000 * y + D <= 2 * (D * p) + 2 * D

LEMMA PartWeighed ==
    ASSUME NEW n \in Nat, NEW d \in Nat, d # 0, NEW D \in Nat, NEW y \in Nat,
           y * d = n * D, NEW p, p = Quantized(100 * n, d)
    PROVE  IsNear(p, D, y)
<1>1. 100 * n \in Nat /\ 200 * (100 * n) = 20000 * n
  OBVIOUS
<1>2. p \in Nat /\ 2 * (d * p) <= 20000 * n + d /\ 20000 * n + d < 2 * (d * p) + 2 * d
  BY <1>1, QuantizedBounds
<1>3. PICK q \in Nat : q = D * p
  BY <1>2
<1>4. D * (20000 * n + d) = d * (20000 * y + D)
  <2>1. D * (20000 * n + d) = 20000 * (n * D) + d * D
    OBVIOUS
  <2>2. d * (20000 * y + D) = 20000 * (y * d) + d * D
    OBVIOUS
  <2> QED
    BY <2>1, <2>2
<1>5. D * (2 * (d * p)) = d * (2 * q)
  BY <1>2, <1>3
<1>6. D * (2 * (d * p) + 2 * d) = d * (2 * q + 2 * D)
  BY <1>2, <1>3
<1>7. PICK low, mid, high \in Nat :
         low = 2 * (d * p) /\ mid = 20000 * n + d /\ high = 2 * (d * p) + 2 * d
  BY <1>2
<1>8. D * low <= D * mid /\ D * mid <= D * high
  BY <1>2, <1>7
<1>10. PICK a, b, c \in Nat : a = 2 * q /\ b = 20000 * y + D /\ c = 2 * q + 2 * D
  OBVIOUS
<1>11. d * a = D * low /\ d * b = D * mid /\ d * c = D * high
  BY <1>4, <1>5, <1>6, <1>7, <1>10
<1>12. a <= b /\ b <= c
  BY <1>8, <1>10, <1>11, FactorsCancel
<1> QED
  BY <1>2, <1>3, <1>10, <1>12 DEF IsNear

\* The displayed total is that of the displayed parts, to a hundredth.
LEMMA PartsWeighed ==
    ASSUME NEW f, AreShares(f),
           NEW p, p = [i \in 1 .. 5 |-> Quantized(100 * f[i].n, f[i].d)]
    PROVE  100 * WeightedTotal(f) - Weigh(p) \in -100 .. 100
<1>1. PICK y, D : y = Numerators(f) /\ D = Denominator(f)
  OBVIOUS
<1>2. D \in Nat /\ D # 0 /\ \A i \in 1 .. 5 : y[i] \in Nat /\ y[i] * f[i].d = f[i].n * D
  BY <1>1, CommonDenominator
<1>3. \A i \in 1 .. 5 : IsNear(p[i], D, y[i])
  <2> SUFFICES ASSUME NEW i \in 1 .. 5 PROVE IsNear(p[i], D, y[i])
    OBVIOUS
  <2>1. PICK n, d, z, q : n = f[i].n /\ d = f[i].d /\ z = y[i] /\ q = p[i]
    OBVIOUS
  <2>2. n \in Nat /\ d \in Nat /\ d # 0
    BY <2>1 DEF AreShares, IsShare
  <2>3. z \in Nat /\ z * d = n * D
    BY <1>2, <2>1
  <2>4. q = Quantized(100 * n, d)
    BY <2>1
  <2>5. IsNear(q, D, z)
    <3>1. D \in Nat
      BY <1>2
    <3> QED
      BY <2>2, <2>3, <2>4, <3>1, PartWeighed
  <2> QED
    BY <2>1, <2>5
<1>4. PICK y1, y2, y3, y4, y5 \in Nat :
         y1 = y[1] /\ y2 = y[2] /\ y3 = y[3] /\ y4 = y[4] /\ y5 = y[5]
  <2>1. y[1] \in Nat /\ y[2] \in Nat /\ y[3] \in Nat /\ y[4] \in Nat /\ y[5] \in Nat
    BY <1>2
  <2> QED
    BY <2>1
<1>5. PICK p1, p2, p3, p4, p5 \in Nat :
         p1 = p[1] /\ p2 = p[2] /\ p3 = p[3] /\ p4 = p[4] /\ p5 = p[5]
  <2>1. p[1] \in Nat /\ p[2] \in Nat /\ p[3] \in Nat /\ p[4] \in Nat /\ p[5] \in Nat
    BY <1>3 DEF IsNear
  <2> QED
    BY <2>1
<1>6. PICK q1, q2, q3, q4, q5 \in Nat :
         q1 = D * p1 /\ q2 = D * p2 /\ q3 = D * p3 /\ q4 = D * p4 /\ q5 = D * p5
  BY <1>2
<1>7. /\ 2 * q1 <= 20000 * y1 + D /\ 20000 * y1 + D <= 2 * q1 + 2 * D
      /\ 2 * q2 <= 20000 * y2 + D /\ 20000 * y2 + D <= 2 * q2 + 2 * D
      /\ 2 * q3 <= 20000 * y3 + D /\ 20000 * y3 + D <= 2 * q3 + 2 * D
      /\ 2 * q4 <= 20000 * y4 + D /\ 20000 * y4 + D <= 2 * q4 + 2 * D
      /\ 2 * q5 <= 20000 * y5 + D /\ 20000 * y5 + D <= 2 * q5 + 2 * D
  <2>1. IsNear(p1, D, y1) /\ IsNear(p2, D, y2) /\ IsNear(p3, D, y3)
        /\ IsNear(p4, D, y4) /\ IsNear(p5, D, y5)
    BY <1>3, <1>4, <1>5
  <2> QED
    BY <1>6, <2>1 DEF IsNear
<1>8. PICK w, v \in Nat : /\ w = 55 * y1 + 10 * y2 + 15 * y3 + 15 * y4 + 5 * y5
                          /\ v = 55 * p1 + 10 * p2 + 15 * p3 + 15 * p4 + 5 * p5
  OBVIOUS
<1>9. w = Weigh(y) /\ v = Weigh(p)
  BY <1>4, <1>5, <1>8 DEF Weigh, Weights
<1>10. PICK t : t = Quantized(w, D)
  OBVIOUS
<1>11. t \in Nat /\ 2 * (D * t) <= 200 * w + D /\ 200 * w + D < 2 * (D * t) + 2 * D
  BY <1>2, <1>8, <1>10, QuantizedBounds
<1>12. PICK u \in Nat : u = D * t
  BY <1>2, <1>11
<1>13. PICK x \in Nat : x = 55 * q1 + 10 * q2 + 15 * q3 + 15 * q4 + 5 * q5
  OBVIOUS
<1>14. x = D * v
  BY <1>2, <1>6, <1>8, <1>13
<1>15. 100 * u <= x + 100 * D /\ x <= 100 * u + 100 * D
  BY <1>2, <1>7, <1>8, <1>11, <1>12, <1>13
<1>16. D * (100 * t) <= D * (v + 100) /\ D * v <= D * (100 * t + 100)
  <2>1. D * (100 * t) = 100 * u /\ D * (v + 100) = x + 100 * D
    BY <1>2, <1>11, <1>12, <1>14
  <2>2. D * (100 * t + 100) = 100 * u + 100 * D
    BY <1>2, <1>11, <1>12
  <2> QED
    BY <1>14, <1>15, <2>1, <2>2
<1>18. 100 * t <= v + 100 /\ v <= 100 * t + 100
  <2>1. 100 * t \in Nat /\ v + 100 \in Nat /\ 100 * t + 100 \in Nat
    BY <1>11
  <2> QED
    BY <1>2, <1>16, <2>1, FactorsCancel
<1>19. WeightedTotal(f) = t
  BY <1>1, <1>9, <1>10 DEF WeightedTotal
<1>20. PICK s \in Nat : s = 100 * t
  BY <1>11
<1>21. s - v \in -100 .. 100
  BY <1>18, <1>20
<1> QED
  BY <1>9, <1>19, <1>20, <1>21

-----------------------------------------------------------------------------
(* Totals                                                                   *)

\* Finitely many terms, each a number of points.
AreTerms(term) == IsFiniteSet(DOMAIN term) /\ \A i \in DOMAIN term : term[i] \in Nat

LEMMA PointsOf ==
    ASSUME NEW term, NEW p
    PROVE  p \in Points(term) <=> \E i \in DOMAIN term : \E k \in 1 .. term[i] : p = <<i, k>>
<1>1. p \in Points(term) <=> \E i \in DOMAIN term : p \in {i} \X (1 .. term[i])
  BY DEF Points
<1>2. \A i : p \in {i} \X (1 .. term[i]) <=> \E k \in 1 .. term[i] : p = <<i, k>>
  OBVIOUS
<1> QED
  BY <1>1, <1>2

LEMMA TotalCounts ==
    ASSUME NEW term, AreTerms(term)
    PROVE  IsFiniteSet(Points(term)) /\ Total(term) \in Nat
<1>1. PICK f : f = [i \in DOMAIN term |-> {i} \X (1 .. term[i])]
  OBVIOUS
<1>2. PICK T : T = {f[i] : i \in DOMAIN term}
  OBVIOUS
<1>3. IsFiniteSet(T)
  <2>1. PICK D : D = DOMAIN term
    OBVIOUS
  <2>2. IsFiniteSet(D) /\ DOMAIN f = D /\ f = [i \in D |-> f[i]] /\ T = {f[i] : i \in D}
    BY <1>1, <1>2, <2>1 DEF AreTerms
  <2> QED
    BY <2>2, ImageCounts
<1>4. \A i \in DOMAIN term : IsFiniteSet(f[i])
  <2> SUFFICES ASSUME NEW i \in DOMAIN term PROVE IsFiniteSet(f[i])
    OBVIOUS
  <2>1. PICK n \in Nat : n = term[i]
    BY DEF AreTerms
  <2>2. IsFiniteSet(1 .. n)
    BY FS_Interval
  <2>3. IsFiniteSet({i})
    BY FS_Singleton
  <2>4. IsFiniteSet({i} \X (1 .. n))
    BY <2>2, <2>3, FS_Product
  <2> QED
    BY <1>1, <2>1, <2>4
<1>5. \A t \in T : IsFiniteSet(t)
  BY <1>2, <1>4
<1>6. IsFiniteSet(UNION T)
  BY <1>3, <1>5, FS_UNION
<1>7. Points(term) = UNION T
  BY <1>1, <1>2 DEF Points
<1> QED
  BY <1>6, <1>7, FS_CardinalityType DEF Total

\* More terms, and each of them no smaller.
LEMMA TotalRises ==
    ASSUME NEW a, NEW b, AreTerms(a), AreTerms(b), DOMAIN a \subseteq DOMAIN b,
           \A i \in DOMAIN a : a[i] <= b[i]
    PROVE  Total(a) <= Total(b)
<1>1. Points(a) \subseteq Points(b)
  <2> SUFFICES ASSUME NEW p \in Points(a) PROVE p \in Points(b)
    OBVIOUS
  <2>1. PICK i \in DOMAIN a : \E k \in 1 .. a[i] : p = <<i, k>>
    BY PointsOf
  <2>2. PICK k \in 1 .. a[i] : p = <<i, k>>
    BY <2>1
  <2>3. a[i] \in Nat /\ b[i] \in Nat /\ a[i] <= b[i] /\ i \in DOMAIN b
    BY DEF AreTerms
  <2>4. k \in 1 .. b[i]
    BY <2>3
  <2> QED
    BY <2>2, <2>3, <2>4, PointsOf
<1>2. IsFiniteSet(Points(b))
  BY TotalCounts
<1> QED
  BY <1>1, <1>2, FS_Subset DEF Total

LEMMA TotalPositive ==
    ASSUME NEW term, AreTerms(term), NEW i \in DOMAIN term, term[i] # 0
    PROVE  Total(term) # 0
<1>1. term[i] \in Nat
  BY DEF AreTerms
<1>2. 1 \in 1 .. term[i]
  BY <1>1
<1>3. <<i, 1>> \in Points(term)
  BY <1>2, PointsOf
<1> QED
  BY <1>3, TotalCounts, FS_EmptySet DEF Total

\* m times as many points for every term.
LEMMA TotalScaled ==
    ASSUME NEW a, AreTerms(a), NEW m \in Nat, m # 0,
           NEW b, b = [i \in DOMAIN a |-> a[i] * m]
    PROVE  Total(b) = Total(a) * m
<1>1. PICK P : P = Points(a)
  OBVIOUS
<1>2. PICK M : M = 1 .. m
  OBVIOUS
<1>3. IsFiniteSet(P)
  BY <1>1, TotalCounts
<1>4. IsFiniteSet(M) /\ Cardinality(M) = m
  BY <1>2, FS_Interval
<1>5. PICK S : S = P \X M
  OBVIOUS
<1>6. IsFiniteSet(S) /\ Cardinality(S) = Cardinality(P) * m
  BY <1>3, <1>4, <1>5, FS_Product
<1>7. PICK f : f = [s \in S |-> <<s[1][1], (s[1][2] - 1) * m + s[2]>>]
  OBVIOUS
<1>8. PICK T : T = {f[s] : s \in S}
  OBVIOUS
<1>9. \A s \in S : \E i \in DOMAIN a : \E k \in Int : \E j \in 1 .. m :
         k \in 1 .. a[i] /\ s = <<<<i, k>>, j>> /\ f[s] = <<i, (k - 1) * m + j>>
  <2> SUFFICES ASSUME NEW s \in S
               PROVE  \E i \in DOMAIN a : \E k \in Int : \E j \in 1 .. m :
                         k \in 1 .. a[i] /\ s = <<<<i, k>>, j>> /\ f[s] = <<i, (k - 1) * m + j>>
    OBVIOUS
  <2>1. PICK p \in P, j \in M : s = <<p, j>>
    BY <1>5
  <2>2. PICK i \in DOMAIN a : \E k \in 1 .. a[i] : p = <<i, k>>
    BY <1>1, PointsOf
  <2>3. PICK k \in 1 .. a[i] : p = <<i, k>>
    BY <2>2
  <2> QED
    BY <1>2, <1>7, <2>1, <2>3
<1>10. \A s, t \in S : f[s] = f[t] => s = t
  <2> SUFFICES ASSUME NEW s \in S, NEW t \in S, f[s] = f[t] PROVE s = t
    OBVIOUS
  <2>1. PICK i \in DOMAIN a, k \in Int, j \in 1 .. m :
           k \in 1 .. a[i] /\ s = <<<<i, k>>, j>> /\ f[s] = <<i, (k - 1) * m + j>>
    BY <1>9
  <2>2. PICK h \in DOMAIN a, l \in Int, o \in 1 .. m :
           l \in 1 .. a[h] /\ t = <<<<h, l>>, o>> /\ f[t] = <<h, (l - 1) * m + o>>
    BY <1>9
  <2>3. i = h /\ (k - 1) * m + j = (l - 1) * m + o
    BY <2>1, <2>2
  <2>4. a[i] \in Nat
    BY DEF AreTerms
  <2>5. k \in Nat /\ l \in Nat /\ j \in Nat /\ o \in Nat /\ k >= 1 /\ l >= 1
        /\ 1 <= j /\ j <= m /\ 1 <= o /\ o <= m
    BY <2>1, <2>2, <2>3, <2>4
  <2>6. ~ (k < l)
    <3> SUFFICES ASSUME k < l PROVE FALSE
      OBVIOUS
    <3>1. PICK u \in Nat : l = k + 1 + u
      <4>1. l - k - 1 \in Nat /\ l = k + 1 + (l - k - 1)
        BY <2>5
      <4> QED
        BY <4>1
    <3>2. (l - 1) * m = (k - 1) * m + m + u * m
      BY <2>5, <3>1
    <3>3. u * m \in Nat /\ (k - 1) * m \in Int
      BY <2>5
    <3> QED
      BY <2>3, <2>5, <3>2, <3>3
  <2>7. ~ (l < k)
    <3> SUFFICES ASSUME l < k PROVE FALSE
      OBVIOUS
    <3>1. PICK u \in Nat : k = l + 1 + u
      <4>1. k - l - 1 \in Nat /\ k = l + 1 + (k - l - 1)
        BY <2>5
      <4> QED
        BY <4>1
    <3>2. (k - 1) * m = (l - 1) * m + m + u * m
      BY <2>5, <3>1
    <3>3. u * m \in Nat /\ (l - 1) * m \in Int
      BY <2>5
    <3> QED
      BY <2>3, <2>5, <3>2, <3>3
  <2>8. k = l
    BY <2>5, <2>6, <2>7
  <2>9. j = o
    <3>1. (k - 1) * m \in Int
      BY <2>5
    <3> QED
      BY <2>3, <2>5, <2>8, <3>1
  <2> QED
    BY <2>1, <2>2, <2>3, <2>8, <2>9
<1>11. Cardinality(T) = Cardinality(S)
  BY <1>6, <1>7, <1>8, <1>10, ImageCounts
<1>12. T \subseteq Points(b)
  <2> SUFFICES ASSUME NEW s \in S PROVE f[s] \in Points(b)
    BY <1>8
  <2>1. PICK i \in DOMAIN a, k \in Int, j \in 1 .. m :
           k \in 1 .. a[i] /\ s = <<<<i, k>>, j>> /\ f[s] = <<i, (k - 1) * m + j>>
    BY <1>9
  <2>2. PICK n \in Nat : n = a[i]
    BY DEF AreTerms
  <2>3. k \in Nat /\ j \in Nat /\ 1 <= k /\ k <= n /\ 1 <= j /\ j <= m
    BY <2>1, <2>2
  <2>4. (k - 1) * m + j \in 1 .. n * m
    <3>1. PICK u, v \in Nat : k = u + 1 /\ n = k + v
      <4>1. k - 1 \in Nat /\ n - k \in Nat /\ k = (k - 1) + 1 /\ n = k + (n - k)
        BY <2>3
      <4> QED
        BY <4>1
    <3>2. n * m = u * m + m + v * m /\ (k - 1) * m = u * m
      BY <3>1
    <3>3. u * m \in Nat /\ v * m \in Nat
      OBVIOUS
    <3> QED
      BY <2>3, <3>2, <3>3
  <2>5. i \in DOMAIN b /\ b[i] = n * m
    BY <2>2
  <2> QED
    BY <2>1, <2>4, <2>5, PointsOf
<1>13. Points(b) \subseteq T
  <2> SUFFICES ASSUME NEW p \in Points(b) PROVE p \in T
    OBVIOUS
  <2>1. PICK i \in DOMAIN b : \E x \in 1 .. b[i] : p = <<i, x>>
    BY PointsOf
  <2>2. PICK x \in 1 .. b[i] : p = <<i, x>>
    BY <2>1
  <2>3. i \in DOMAIN a /\ b[i] = a[i] * m
    BY <2>1
  <2>4. PICK n \in Nat : n = a[i]
    BY <2>3 DEF AreTerms
  <2>5. x \in Nat /\ 1 <= x /\ x <= n * m
    BY <2>2, <2>3, <2>4
  <2>6. PICK q : q = (x - 1) \div m
    OBVIOUS
  <2>7. q \in Nat /\ m * q <= x - 1 /\ x - 1 < m * (q + 1)
    <3>1. x - 1 \in Nat
      BY <2>5
    <3> QED
      BY <2>6, <3>1, QuotientBounds
  <2>8. q + 1 \in 1 .. n
    <3> SUFFICES ASSUME n <= q PROVE FALSE
      BY <2>7
    <3>1. m * n <= m * q
      BY <2>7
    <3>2. m * n \in Nat /\ m * q \in Nat /\ m * n = n * m
      BY <2>7
    <3> QED
      BY <2>5, <2>7, <3>1, <3>2
  <2>9. PICK j : j = x - m * q
    OBVIOUS
  <2>10. j \in 1 .. m /\ x = (q + 1 - 1) * m + j
    <3>1. m * q \in Nat /\ m * (q + 1) = m * q + m /\ (q + 1 - 1) * m = m * q
      BY <2>7
    <3> QED
      BY <2>5, <2>7, <2>9, <3>1
  <2>11. PICK s : s = <<<<i, q + 1>>, j>>
    OBVIOUS
  <2>12. s \in S
    <3>1. q + 1 \in 1 .. a[i]
      BY <2>4, <2>8
    <3>2. <<i, q + 1>> \in P
      BY <1>1, <2>3, <3>1, PointsOf
    <3> QED
      BY <1>2, <1>5, <2>10, <2>11, <3>2
  <2>13. f[s] = p
    <3>1. s[1][1] = i /\ s[1][2] = q + 1 /\ s[2] = j
      BY <2>11
    <3>2. f[s] = <<s[1][1], (s[1][2] - 1) * m + s[2]>>
      BY <1>7, <2>12
    <3>3. (s[1][2] - 1) * m + s[2] = x
      BY <2>5, <2>7, <2>10, <3>1
    <3> QED
      BY <2>2, <3>1, <3>2, <3>3
  <2> QED
    BY <1>8, <2>12, <2>13
<1>14. Points(b) = T
  BY <1>12, <1>13
<1> QED
  BY <1>1, <1>6, <1>11, <1>14 DEF Total

-----------------------------------------------------------------------------
(* Scores                                                                   *)

Importances(requirements, is) == [i \in is |-> requirements[i].importance]

LEMMA ImportancesCount ==
    ASSUME NEW requirements, AreRequirements(requirements),
           NEW is, is \subseteq DOMAIN requirements
    PROVE  /\ IsFiniteSet(is) /\ AreTerms(Importances(requirements, is))
           /\ Importance(requirements, is) = Total(Importances(requirements, is))
           /\ Importance(requirements, is) \in Nat
           /\ is # {} => Importance(requirements, is) # 0
<1>1. IsFiniteSet(is)
  <2>1. PICK n \in Nat : DOMAIN requirements = 1 .. n
    BY DEF AreRequirements
  <2>2. IsFiniteSet(1 .. n)
    BY FS_Interval
  <2> QED
    BY <2>1, <2>2, FS_Subset
<1>2. PICK a : a = Importances(requirements, is)
  OBVIOUS
<1>3. DOMAIN a = is /\ \A i \in is : a[i] \in Nat /\ a[i] # 0
  BY <1>2 DEF Importances, AreRequirements
<1>4. AreTerms(a)
  BY <1>1, <1>3 DEF AreTerms
<1>5. Importance(requirements, is) = Total(a)
  BY <1>2 DEF Importance, Importances
<1>6. Total(a) \in Nat
  BY <1>4, TotalCounts
<1>7. is # {} => Total(a) # 0
  <2> SUFFICES ASSUME NEW i \in is PROVE Total(a) # 0
    OBVIOUS
  <2> QED
    BY <1>3, <1>4, TotalPositive
<1> QED
  BY <1>1, <1>2, <1>4, <1>5, <1>6, <1>7

LEMMA ImportanceGrows ==
    ASSUME NEW requirements, AreRequirements(requirements),
           NEW is, NEW js, js \subseteq DOMAIN requirements, is \subseteq js
    PROVE  Importance(requirements, is) <= Importance(requirements, js)
<1>1. PICK a, b : a = Importances(requirements, is) /\ b = Importances(requirements, js)
  OBVIOUS
<1>2. /\ AreTerms(a) /\ Importance(requirements, is) = Total(a)
      /\ AreTerms(b) /\ Importance(requirements, js) = Total(b)
  BY <1>1, ImportancesCount
<1>3. DOMAIN a = is /\ DOMAIN b = js /\ \A i \in is : a[i] = b[i]
  BY <1>1 DEF Importances
<1>4. \A i \in DOMAIN a : a[i] <= b[i]
  BY <1>2, <1>3 DEF AreTerms
<1> QED
  BY <1>2, <1>3, <1>4, TotalRises

LEMMA WholeShares == IsShare(Zero) /\ IsShare(Full)
BY DEF IsShare, Zero, Full

\* Coverage is a share, of what is required and of what is a bonus.
LEMMA CoverageShared ==
    ASSUME NEW requirements, AreRequirements(requirements), NEW type, NEW skills
    PROVE  IsShare(Coverage(requirements, type, skills))
<1>1. PICK is : is = OfType(requirements, type)
  OBVIOUS
<1>2. is \subseteq DOMAIN requirements
  BY <1>1 DEF OfType
<1>3. CASE is = {}
  BY <1>1, <1>3, WholeShares DEF Coverage
<1>4. CASE is # {}
  <2>1. PICK js : js = is \cap MatchedOf(requirements, skills)
    OBVIOUS
  <2>2. PICK n, d : n = Importance(requirements, js) /\ d = Importance(requirements, is)
    OBVIOUS
  <2>3. js \subseteq is /\ js \subseteq DOMAIN requirements
    BY <1>2, <2>1
  <2>4. n \in Nat /\ d \in Nat /\ d # 0
    BY <1>2, <1>4, <2>2, <2>3, ImportancesCount
  <2>5. n <= d
    BY <1>2, <2>2, <2>3, ImportanceGrows
  <2>6. Coverage(requirements, type, skills) = [n |-> n, d |-> d]
    BY <1>1, <1>4, <2>1, <2>2 DEF Coverage
  <2> QED
    BY <2>4, <2>5, <2>6 DEF IsShare
<1> QED
  BY <1>3, <1>4

\* What is covered depends on which capabilities a profile has alone.
LEMMA CoverageKept ==
    ASSUME NEW requirements, NEW type, NEW a, NEW b, DOMAIN a = DOMAIN b
    PROVE  /\ MatchedOf(requirements, a) = MatchedOf(requirements, b)
           /\ Coverage(requirements, type, a) = Coverage(requirements, type, b)
<1>1. MatchedOf(requirements, a) = MatchedOf(requirements, b)
  BY DEF MatchedOf
<1> QED
  BY <1>1 DEF Coverage

LEMMA FullyCovered ==
    ASSUME NEW requirements, AreRequirements(requirements), NEW type, NEW skills,
           OfType(requirements, type) \subseteq MatchedOf(requirements, skills)
    PROVE  Coverage(requirements, type, skills).n = Coverage(requirements, type, skills).d
<1>1. PICK is : is = OfType(requirements, type)
  OBVIOUS
<1>2. is \cap MatchedOf(requirements, skills) = is
  BY <1>1
<1>3. CASE is = {}
  BY <1>1, <1>3 DEF Coverage, Full
<1>4. CASE is # {}
  BY <1>1, <1>2, <1>4 DEF Coverage
<1> QED
  BY <1>3, <1>4

\* Evidence of every capability, in tenths.
AreStrengths(skills) == \A c \in DOMAIN skills : skills[c] \in Nat /\ 4 <= skills[c] /\ skills[c] <= 10

Evidence(requirements, skills) ==
    [i \in MatchedOf(requirements, skills) |->
        requirements[i].importance * skills[requirements[i].cap]]

LEMMA EvidenceTerms ==
    ASSUME NEW requirements, AreRequirements(requirements),
           NEW skills, AreStrengths(skills)
    PROVE  /\ AreTerms(Evidence(requirements, skills))
           /\ Total(Evidence(requirements, skills)) \in Nat
<1>1. PICK is : is = MatchedOf(requirements, skills)
  OBVIOUS
<1>2. is \subseteq DOMAIN requirements
  BY <1>1 DEF MatchedOf
<1>3. IsFiniteSet(is)
  BY <1>2, ImportancesCount
<1>4. PICK a : a = Evidence(requirements, skills)
  OBVIOUS
<1>5. DOMAIN a = is
  BY <1>1, <1>4 DEF Evidence
<1>6. \A i \in is : a[i] \in Nat
  <2> SUFFICES ASSUME NEW i \in is PROVE a[i] \in Nat
    OBVIOUS
  <2>1. a[i] = requirements[i].importance * skills[requirements[i].cap]
    BY <1>1, <1>4 DEF Evidence
  <2>2. requirements[i].importance \in Nat
    BY <1>2 DEF AreRequirements
  <2>3. skills[requirements[i].cap] \in Nat
    BY <1>1 DEF MatchedOf, AreStrengths
  <2> QED
    BY <2>1, <2>2, <2>3
<1>7. AreTerms(a)
  BY <1>3, <1>5, <1>6 DEF AreTerms
<1> QED
  BY <1>4, <1>7, TotalCounts

\* Evidence is between four and ten tenths of the importance it is for.
LEMMA EvidenceBetween ==
    ASSUME NEW requirements, AreRequirements(requirements),
           NEW skills, AreStrengths(skills),
           NEW n, n = Total(Evidence(requirements, skills)),
           NEW d, d = Importance(requirements, MatchedOf(requirements, skills))
    PROVE  d * 4 <= n /\ n <= d * 10
<1>1. PICK is : is = MatchedOf(requirements, skills)
  OBVIOUS
<1>2. is \subseteq DOMAIN requirements
  BY <1>1 DEF MatchedOf
<1>3. PICK a : a = Importances(requirements, is)
  OBVIOUS
<1>4. AreTerms(a) /\ Total(a) = d /\ DOMAIN a = is
  BY <1>1, <1>2, <1>3, ImportancesCount DEF Importances
<1>5. PICK e : e = Evidence(requirements, skills)
  OBVIOUS
<1>6. AreTerms(e) /\ Total(e) = n /\ DOMAIN e = is
  BY <1>1, <1>5, EvidenceTerms DEF Evidence
<1>7. PICK low : low = [i \in DOMAIN a |-> a[i] * 4]
  OBVIOUS
<1>8. PICK high : high = [i \in DOMAIN a |-> a[i] * 10]
  OBVIOUS
<1>9. Total(low) = d * 4
  <2>1. 4 \in Nat /\ 4 # 0
    OBVIOUS
  <2>2. Total(low) = Total(a) * 4
    BY <1>4, <1>7, <2>1, TotalScaled
  <2> QED
    BY <1>4, <2>2
<1>10. Total(high) = d * 10
  <2>1. 10 \in Nat /\ 10 # 0
    OBVIOUS
  <2>2. Total(high) = Total(a) * 10
    BY <1>4, <1>8, <2>1, TotalScaled
  <2> QED
    BY <1>4, <2>2
<1>11. DOMAIN low = is /\ DOMAIN high = is
  BY <1>4, <1>7, <1>8
<1>12. \A i \in is : /\ low[i] \in Nat /\ high[i] \in Nat
                     /\ low[i] <= e[i] /\ e[i] <= high[i]
  <2> SUFFICES ASSUME NEW i \in is
               PROVE  low[i] \in Nat /\ high[i] \in Nat /\ low[i] <= e[i] /\ e[i] <= high[i]
    OBVIOUS
  <2>1. PICK m \in Nat : m = requirements[i].importance
    BY <1>2 DEF AreRequirements
  <2>2. PICK s \in Nat : s = skills[requirements[i].cap] /\ 4 <= s /\ s <= 10
    BY <1>1 DEF MatchedOf, AreStrengths
  <2>3. a[i] = m
    BY <1>3, <2>1 DEF Importances
  <2>4. e[i] = m * s
    BY <1>1, <1>5, <2>1, <2>2 DEF Evidence
  <2>5. low[i] = m * 4 /\ high[i] = m * 10
    BY <1>4, <1>7, <1>8, <2>3
  <2>6. m * 4 <= m * s /\ m * s <= m * 10
    <3>1. PICK u, v \in Nat : u = s - 4 /\ v = 10 - s
      BY <2>2
    <3>2. m * s = m * 4 + m * u /\ m * 10 = m * s + m * v
      BY <3>1
    <3>3. m * u \in Nat /\ m * v \in Nat /\ m * s \in Nat /\ m * 4 \in Nat
      OBVIOUS
    <3> QED
      BY <3>2, <3>3
  <2> QED
    BY <2>4, <2>5, <2>6
<1>13. AreTerms(low) /\ AreTerms(high)
  BY <1>4, <1>11, <1>12 DEF AreTerms
<1>14. Total(low) <= Total(e)
  BY <1>6, <1>11, <1>12, <1>13, TotalRises
<1>15. Total(e) <= Total(high)
  BY <1>6, <1>11, <1>12, <1>13, TotalRises
<1> QED
  BY <1>6, <1>9, <1>10, <1>14, <1>15

LEMMA EvidenceShared ==
    ASSUME NEW requirements, AreRequirements(requirements),
           NEW skills, AreStrengths(skills)
    PROVE  IsShare(EvidenceQuality(requirements, skills))
<1>1. PICK is : is = MatchedOf(requirements, skills)
  OBVIOUS
<1>2. CASE is = {}
  BY <1>1, <1>2, WholeShares DEF EvidenceQuality
<1>3. CASE is # {}
  <2>1. PICK n : n = Total(Evidence(requirements, skills))
    OBVIOUS
  <2>2. PICK d : d = Importance(requirements, is)
    OBVIOUS
  <2>3. is \subseteq DOMAIN requirements
    BY <1>1 DEF MatchedOf
  <2>4. n \in Nat /\ d \in Nat /\ d # 0
    BY <1>3, <2>1, <2>2, <2>3, EvidenceTerms, ImportancesCount
  <2>5. n <= d * 10
    BY <1>1, <2>1, <2>2, EvidenceBetween
  <2>6. EvidenceQuality(requirements, skills) = [n |-> n, d |-> 10 * d]
    BY <1>1, <1>3, <2>1, <2>2 DEF EvidenceQuality, Evidence
  <2> QED
    BY <2>4, <2>5, <2>6 DEF IsShare
<1> QED
  BY <1>2, <1>3

\* Months of experience, and years of school by rank.
LEMMA ExperienceNotAsked ==
    ASSUME NEW months, NEW recommended \in {Null, 0}
    PROVE  ExperienceScore(months, recommended) = Full
<1>1. ~ (recommended > 0)
  BY DEF Null
<1> QED
  BY <1>1 DEF ExperienceScore

LEMMA ExperienceShared ==
    ASSUME NEW months \in Nat \cup {Null}, NEW recommended \in Nat \cup {Null}
    PROVE  IsShare(ExperienceScore(months, recommended))
<1>1. CASE recommended \in {Null, 0}
  BY <1>1, ExperienceNotAsked, WholeShares
<1>2. CASE recommended \notin {Null, 0}
  <2>1. recommended \in Nat /\ recommended > 0 /\ recommended # 0
    BY <1>2
  <2>2. CASE months \in {Null, 0}
    <3>1. ~ (months > 0)
      BY <2>2 DEF Null
    <3>2. ExperienceScore(months, recommended) = Zero
      BY <1>2, <2>1, <2>2, <3>1 DEF ExperienceScore
    <3> QED
      BY <3>2, WholeShares
  <2>3. CASE months \notin {Null, 0}
    <3>1. months \in Nat /\ months > 0
      BY <2>3
    <3>2. ExperienceScore(months, recommended) =
             IF months < recommended THEN [n |-> months, d |-> recommended] ELSE Full
      BY <1>2, <2>1, <2>3, <3>1 DEF ExperienceScore
    <3>3. CASE months < recommended
      BY <2>1, <3>1, <3>2, <3>3 DEF IsShare
    <3>4. CASE ~ (months < recommended)
      BY <3>2, <3>4, WholeShares
    <3> QED
      BY <3>3, <3>4
  <2> QED
    BY <2>2, <2>3
<1> QED
  BY <1>1, <1>2

\* More months are worth no less.
LEMMA ExperienceGrows ==
    ASSUME NEW a \in Nat \cup {Null}, NEW b \in Nat, a < b,
           NEW recommended \in Nat \cup {Null},
           NEW x, x = ExperienceScore(a, recommended),
           NEW y, y = ExperienceScore(b, recommended)
    PROVE  x.n * y.d <= y.n * x.d
<1>1. CASE recommended \in {Null, 0}
  <2>1. x = Full /\ y = Full
    BY <1>1, ExperienceNotAsked
  <2> QED
    BY <2>1 DEF Full
<1>2. CASE recommended \notin {Null, 0}
  <2>1. recommended \in Nat /\ recommended > 0 /\ recommended # 0
    BY <1>2
  <2>2. \A m \in Nat : m > 0 =>
           ExperienceScore(m, recommended) =
              IF m < recommended THEN [n |-> m, d |-> recommended] ELSE Full
    <3> SUFFICES ASSUME NEW m \in Nat, m > 0
                 PROVE  ExperienceScore(m, recommended) =
                           IF m < recommended THEN [n |-> m, d |-> recommended] ELSE Full
      OBVIOUS
    <3>1. m \notin {Null, 0}
      BY DEF Null
    <3> QED
      BY <1>2, <2>1, <3>1 DEF ExperienceScore
  <2>3. CASE a \in {Null, 0}
    <3>1. x = Zero
      <4>1. ~ (a > 0)
        BY <2>3 DEF Null
      <4> QED
        BY <1>2, <2>1, <2>3, <4>1 DEF ExperienceScore
    <3>2. x.n = 0 /\ x.d = 1
      BY <3>1 DEF Zero
    <3>3. y.n \in Nat /\ y.d \in Nat
      BY ExperienceShared DEF IsShare
    <3> QED
      BY <3>2, <3>3
  <2>4. CASE a \notin {Null, 0}
    <3>1. a \in Nat /\ a > 0 /\ b > 0
      BY <2>4
    <3>2. x = IF a < recommended THEN [n |-> a, d |-> recommended] ELSE Full
      BY <2>2, <3>1
    <3>3. y = IF b < recommended THEN [n |-> b, d |-> recommended] ELSE Full
      BY <2>2, <3>1
    <3>4. CASE b < recommended
      <4>1. a < recommended
        BY <2>1, <3>1, <3>4
      <4>2. x.n = a /\ x.d = recommended /\ y.n = b /\ y.d = recommended
        BY <3>2, <3>3, <3>4, <4>1
      <4>3. PICK r, u \in Nat : r = recommended /\ u = b - a
        BY <2>1, <3>1
      <4>4. b * r = a * r + u * r /\ u * r \in Nat /\ a * r \in Nat
        BY <3>1, <4>3
      <4> QED
        BY <4>2, <4>3, <4>4
    <3>5. CASE ~ (b < recommended)
      <4>1. y.n = 1 /\ y.d = 1
        BY <3>3, <3>5 DEF Full
      <4>2. x.n \in Nat /\ x.d \in Nat /\ x.n <= x.d
        BY ExperienceShared DEF IsShare
      <4> QED
        BY <4>1, <4>2
    <3> QED
      BY <3>4, <3>5
  <2> QED
    BY <2>3, <2>4
<1> QED
  BY <1>1, <1>2

LEMMA RanksCount ==
    \A level \in DOMAIN EducationRank : EducationRank[level] \in Nat /\ EducationRank[level] # 0
BY DEF EducationRank

LEMMA EducationShared ==
    ASSUME NEW level, NEW minimum \in DOMAIN EducationRank \cup {"none"}
    PROVE  IsShare(EducationScore(level, minimum))
<1>1. CASE minimum = "none"
  BY <1>1, WholeShares DEF EducationScore
<1>2. CASE minimum # "none"
  <2>1. minimum \in DOMAIN EducationRank
    BY <1>2
  <2>2. CASE level \notin DOMAIN EducationRank
    BY <1>2, <2>2, WholeShares DEF EducationScore
  <2>3. CASE level \in DOMAIN EducationRank
    <3>1. PICK a, b \in Nat : a = EducationRank[level] /\ b = EducationRank[minimum] /\ b # 0
      BY <2>1, <2>3, RanksCount
    <3>2. EducationScore(level, minimum) = IF a < b THEN [n |-> a, d |-> b] ELSE Full
      BY <1>2, <2>3, <3>1 DEF EducationScore
    <3> QED
      BY <3>1, <3>2, WholeShares DEF IsShare
  <2> QED
    BY <2>2, <2>3
<1> QED
  BY <1>1, <1>2

\* So is a higher education.
LEMMA EducationGrows ==
    ASSUME NEW level, NEW higher \in DOMAIN EducationRank,
           level \in DOMAIN EducationRank => EducationRank[higher] > EducationRank[level],
           NEW minimum \in DOMAIN EducationRank \cup {"none"},
           NEW x, x = EducationScore(level, minimum),
           NEW y, y = EducationScore(higher, minimum)
    PROVE  x.n * y.d <= y.n * x.d
<1>1. x.n \in Nat /\ x.d \in Nat /\ x.n <= x.d /\ y.n \in Nat /\ y.d \in Nat
  BY EducationShared DEF IsShare
<1>2. CASE y = Full
  BY <1>1, <1>2 DEF Full
<1>3. CASE x = Zero
  BY <1>1, <1>3 DEF Zero
<1>4. CASE y # Full /\ x # Zero
  <2>1. minimum # "none" /\ level \in DOMAIN EducationRank
    BY <1>4 DEF EducationScore
  <2>2. minimum \in DOMAIN EducationRank
    BY <2>1
  <2>3. PICK a, b, c \in Nat :
           a = EducationRank[level] /\ b = EducationRank[higher] /\ c = EducationRank[minimum]
    BY <2>1, <2>2, RanksCount
  <2>4. a < b
    BY <2>1, <2>3
  <2>5. /\ x = IF a < c THEN [n |-> a, d |-> c] ELSE Full
        /\ y = IF b < c THEN [n |-> b, d |-> c] ELSE Full
    BY <2>1, <2>3 DEF EducationScore
  <2>6. b < c
    BY <1>4, <2>5
  <2>7. x.n = a /\ x.d = c /\ y.n = b /\ y.d = c
    BY <2>4, <2>5, <2>6
  <2>8. PICK u \in Nat : u = b - a
    BY <2>4
  <2>9. b * c = a * c + u * c /\ u * c \in Nat /\ a * c \in Nat
    BY <2>8
  <2> QED
    BY <2>7, <2>9
<1> QED
  BY <1>2, <1>3, <1>4

LEMMA GreatestTaken ==
    ASSUME NEW n \in Nat, NEW T \in SUBSET (1 .. n), T # {}
    PROVE  Max(T) \in T /\ \A y \in T : y <= Max(T)
<1>1. PICK U : U = {n - x : x \in T}
  OBVIOUS
<1>2. U \in SUBSET Nat /\ U # {}
  <2>1. \A x \in T : n - x \in Nat
    <3>1. \A x \in 1 .. n : n - x \in Nat
      OBVIOUS
    <3> QED
      BY <3>1
  <2> QED
    BY <1>1, <2>1
<1>3. PICK u \in U : \A v \in U : u <= v
  BY <1>2, LeastNumber
<1>4. PICK m \in T : u = n - m
  BY <1>1
<1>5. \A y \in T : m >= y
  <2> SUFFICES ASSUME NEW y \in T PROVE m >= y
    OBVIOUS
  <2>1. n - m <= n - y
    BY <1>1, <1>3, <1>4
  <2>2. m \in Int /\ y \in Int
    OBVIOUS
  <2> QED
    BY <2>1, <2>2
<1>6. \A x \in T : (\A y \in T : x >= y) => x = m
  BY <1>5
<1>7. Max(T) = CHOOSE x \in T : \A y \in T : x >= y
  BY DEF Max
<1>8. Max(T) \in T /\ \A y \in T : Max(T) >= y
  BY <1>5, <1>7
<1> QED
  BY <1>8

SkillRow == [cap : Nat, evidence : DOMAIN EvidenceTenths]

LEMMA RowFields ==
    ASSUME NEW row \in SkillRow
    PROVE  row.cap \in Nat /\ row.evidence \in DOMAIN EvidenceTenths
BY DEF SkillRow

LEMMA RowImproved ==
    ASSUME NEW row \in SkillRow, NEW e \in DOMAIN EvidenceTenths
    PROVE  /\ [row EXCEPT !.evidence = e] \in SkillRow
           /\ [row EXCEPT !.evidence = e].cap = row.cap
           /\ [row EXCEPT !.evidence = e].evidence = e
<1>1. PICK S : S = DOMAIN EvidenceTenths
  OBVIOUS
<1>2. SkillRow = [cap : Nat, evidence : S]
  BY <1>1 DEF SkillRow
<1> QED
  BY <1>1, <1>2

LEMMA TenthsBetween ==
    \A e \in DOMAIN EvidenceTenths :
        EvidenceTenths[e] \in Nat /\ 4 <= EvidenceTenths[e] /\ EvidenceTenths[e] <= 10
BY DEF EvidenceTenths

SkillRows(rows, c) == {i \in DOMAIN rows : rows[i].cap = c}

\* The evidence for a capability is that of the last row for it.
ReadsLast(skills, rows) ==
    /\ DOMAIN skills = {rows[i].cap : i \in DOMAIN rows}
    /\ \A c \in DOMAIN skills :
          /\ Max(SkillRows(rows, c)) \in DOMAIN rows
          /\ skills[c] = EvidenceTenths[rows[Max(SkillRows(rows, c))].evidence]

LEMMA SkillsRead ==
    ASSUME NEW rows \in Seq(SkillRow)
    PROVE  AreStrengths(SkillInputs(rows)) /\ ReadsLast(SkillInputs(rows), rows)
<1>1. PICK skills : skills = SkillInputs(rows)
  OBVIOUS
<1>2. DOMAIN skills = {rows[i].cap : i \in DOMAIN rows}
  BY <1>1 DEF SkillInputs
<1>3. ASSUME NEW c \in DOMAIN skills
      PROVE  /\ Max(SkillRows(rows, c)) \in DOMAIN rows
             /\ skills[c] = EvidenceTenths[rows[Max(SkillRows(rows, c))].evidence]
  <2>1. PICK n \in Nat : DOMAIN rows = 1 .. n
    OBVIOUS
  <2>2. PICK T : T = SkillRows(rows, c)
    OBVIOUS
  <2>3. T \in SUBSET (1 .. n) /\ T # {}
    BY <1>2, <2>1, <2>2 DEF SkillRows
  <2>4. Max(T) \in T
    BY <2>3, GreatestTaken
  <2>5. skills[c] = EvidenceTenths[rows[Max(T)].evidence]
    BY <1>1, <1>2, <2>2 DEF SkillInputs, SkillRows
  <2> QED
    BY <2>1, <2>2, <2>3, <2>4, <2>5
<1>4. \A i \in DOMAIN rows : rows[i].evidence \in DOMAIN EvidenceTenths
  <2>1. \A i \in DOMAIN rows : rows[i] \in SkillRow
    OBVIOUS
  <2> QED
    BY <2>1, RowFields
<1>5. AreStrengths(skills)
  BY <1>3, <1>4, TenthsBetween DEF AreStrengths
<1> QED
  BY <1>1, <1>2, <1>3, <1>5 DEF ReadsLast

\* No evidence is weaker.
NoneWeaker(a, b) == DOMAIN a = DOMAIN b /\ \A c \in DOMAIN a : a[c] <= b[c]

LEMMA EvidenceImproved ==
    ASSUME NEW rows \in Seq(SkillRow), NEW i \in DOMAIN rows,
           NEW e \in DOMAIN EvidenceTenths,
           \A k \in DOMAIN rows : EvidenceTenths[e] > EvidenceTenths[rows[k].evidence],
           NEW better, better = [rows EXCEPT ![i].evidence = e]
    PROVE  better \in Seq(SkillRow) /\ NoneWeaker(SkillInputs(rows), SkillInputs(better))
<1>1. better \in Seq(SkillRow) /\ DOMAIN better = DOMAIN rows
  <2>1. PICK row \in SkillRow : row = rows[i]
    OBVIOUS
  <2>2. better = [rows EXCEPT ![i] = [row EXCEPT !.evidence = e]]
    BY <2>1
  <2>3. PICK r \in SkillRow : r = [row EXCEPT !.evidence = e]
    BY RowImproved
  <2>4. better = [rows EXCEPT ![i] = r]
    BY <2>2, <2>3
  <2> QED
    BY <2>4
<1>2. \A k \in DOMAIN rows : /\ better[k].cap = rows[k].cap
                             /\ better[k].evidence = IF k = i THEN e ELSE rows[k].evidence
  <2>1. \A k \in DOMAIN rows : rows[k] \in SkillRow
    OBVIOUS
  <2>2. \A k \in DOMAIN rows :
           better[k] = IF k = i THEN [rows[i] EXCEPT !.evidence = e] ELSE rows[k]
    OBVIOUS
  <2>3. /\ [rows[i] EXCEPT !.evidence = e].cap = rows[i].cap
        /\ [rows[i] EXCEPT !.evidence = e].evidence = e
    BY <2>1, RowImproved
  <2> QED
    BY <2>2, <2>3
<1>3. PICK a, b : a = SkillInputs(rows) /\ b = SkillInputs(better)
  OBVIOUS
<1>4. ReadsLast(a, rows)
  BY <1>3, SkillsRead
<1>5. ReadsLast(b, better)
  BY <1>1, <1>3, SkillsRead
<1>6. DOMAIN a = DOMAIN b
  BY <1>1, <1>2, <1>4, <1>5 DEF ReadsLast
<1>7. ASSUME NEW c \in DOMAIN a PROVE a[c] <= b[c]
  <2>1. SkillRows(better, c) = SkillRows(rows, c)
    BY <1>1, <1>2 DEF SkillRows
  <2>2. PICK last : last = Max(SkillRows(rows, c))
    OBVIOUS
  <2>3. last \in DOMAIN rows /\ a[c] = EvidenceTenths[rows[last].evidence]
    BY <1>4, <2>2 DEF ReadsLast
  <2>4. b[c] = EvidenceTenths[better[last].evidence]
    BY <1>5, <1>6, <2>1, <2>2 DEF ReadsLast
  <2>5. rows[last].evidence \in DOMAIN EvidenceTenths
    <3>1. rows[last] \in SkillRow
      BY <2>3
    <3> QED
      BY <3>1, RowFields
  <2>6. a[c] \in Nat /\ EvidenceTenths[e] \in Nat
    BY <2>3, <2>5, TenthsBetween
  <2>7. CASE last = i
    <3>1. better[last].evidence = e
      BY <1>2, <2>3, <2>7
    <3>2. EvidenceTenths[e] > a[c]
      BY <2>3
    <3> QED
      BY <2>4, <2>6, <3>1, <3>2
  <2>8. CASE last # i
    <3>1. better[last].evidence = rows[last].evidence
      BY <1>2, <2>3, <2>8
    <3> QED
      BY <2>3, <2>4, <2>6, <3>1
  <2> QED
    BY <2>7, <2>8
<1> QED
  BY <1>1, <1>3, <1>6, <1>7 DEF NoneWeaker

LEMMA EvidenceGrows ==
    ASSUME NEW requirements, AreRequirements(requirements),
           NEW a, AreStrengths(a), NEW b, AreStrengths(b), NoneWeaker(a, b),
           NEW x, x = EvidenceQuality(requirements, a),
           NEW y, y = EvidenceQuality(requirements, b)
    PROVE  x.n * y.d <= y.n * x.d
<1>1. PICK is : is = MatchedOf(requirements, a) /\ is = MatchedOf(requirements, b)
  BY CoverageKept DEF NoneWeaker
<1>2. CASE is = {}
  <2>1. x = Zero /\ y = Zero
    BY <1>1, <1>2 DEF EvidenceQuality
  <2> QED
    BY <2>1 DEF Zero
<1>3. CASE is # {}
  <2>1. PICK s : s = Evidence(requirements, a)
    OBVIOUS
  <2>2. PICK t : t = Evidence(requirements, b)
    OBVIOUS
  <2>3. AreTerms(s) /\ AreTerms(t) /\ Total(s) \in Nat /\ Total(t) \in Nat
    BY <2>1, <2>2, EvidenceTerms
  <2>4. DOMAIN s = is /\ DOMAIN t = is
    BY <1>1, <2>1, <2>2 DEF Evidence
  <2>5. is \subseteq DOMAIN requirements
    BY <1>1 DEF MatchedOf
  <2>6. ASSUME NEW i \in is PROVE s[i] <= t[i]
    <3>1. PICK m \in Nat : m = requirements[i].importance
      BY <2>5 DEF AreRequirements
    <3>2. PICK c : c = requirements[i].cap
      OBVIOUS
    <3>3. c \in DOMAIN a /\ c \in DOMAIN b
      BY <1>1, <3>2 DEF MatchedOf
    <3>4. PICK v, w \in Nat : v = a[c] /\ w = b[c] /\ v <= w
      BY <3>3 DEF AreStrengths, NoneWeaker
    <3>5. s[i] = m * v /\ t[i] = m * w
      BY <1>1, <2>1, <2>2, <3>1, <3>2, <3>4 DEF Evidence
    <3>6. m * v <= m * w
      BY <3>4
    <3> QED
      BY <3>5, <3>6
  <2>7. Total(s) <= Total(t)
    BY <2>3, <2>4, <2>6, TotalRises
  <2>8. PICK d \in Nat : d = 10 * Importance(requirements, is)
    BY <2>5, ImportancesCount
  <2>9. x.n = Total(s) /\ x.d = d /\ y.n = Total(t) /\ y.d = d
    BY <1>1, <1>3, <2>1, <2>2, <2>8 DEF EvidenceQuality, Evidence
  <2>10. PICK p, q \in Nat : p = Total(s) /\ q = Total(t)
    BY <2>3
  <2>11. p * d <= q * d
    BY <2>7, <2>10
  <2> QED
    BY <2>9, <2>10, <2>11
<1> QED
  BY <1>2, <1>3

\* What a score weighs.
Fractions(profile, role) ==
    LET skills == SkillInputs(profile.skills)
    IN  <<Coverage(role.requirements, "required", skills),
          Coverage(role.requirements, "bonus", skills),
          EvidenceQuality(role.requirements, skills),
          ExperienceScore(profile.months, role.months),
          EducationScore(profile.level, role.level)>>

LEMMA ScoreRead ==
    ASSUME NEW profile, NEW role, NEW f, f = Fractions(profile, role),
           NEW skills, skills = SkillInputs(profile.skills),
           NEW s, s = Score(profile, role)
    PROVE  /\ s.total = WeightedTotal(f) /\ s.level = MatchLevel(WeightedTotal(f))
           /\ s.parts = [i \in 1 .. 5 |-> Quantized(100 * f[i].n, f[i].d)]
           /\ \A type \in {"required", "bonus"} : \A m \in BOOLEAN :
                 s.gaps[type][m] = GapCount(role.requirements, skills, type, m)
BY DEF Score, Fractions

LEMMA ScoreTotal ==
    ASSUME NEW profile, NEW role, NEW f, f = Fractions(profile, role)
    PROVE  Score(profile, role).total = WeightedTotal(f)
BY DEF Score, Fractions

LEMMA ScorableRead ==
    ASSUME NEW profile, NEW role, IsScorable(profile, role)
    PROVE  /\ profile.skills \in Seq(SkillRow)
           /\ profile.months \in Nat \cup {Null} /\ role.months \in Nat \cup {Null}
           /\ AreRequirements(role.requirements)
           /\ role.level \in DOMAIN EducationRank \cup {"none"}
BY DEF IsScorable, SkillRow

LEMMA FractionsShared ==
    ASSUME NEW profile, NEW role, IsScorable(profile, role)
    PROVE  AreShares(Fractions(profile, role))
<1>1. PICK skills : skills = SkillInputs(profile.skills)
  OBVIOUS
<1>2. AreStrengths(skills)
  BY <1>1, ScorableRead, SkillsRead
<1>3. PICK a, b, c, d, e :
         /\ a = Coverage(role.requirements, "required", skills)
         /\ b = Coverage(role.requirements, "bonus", skills)
         /\ c = EvidenceQuality(role.requirements, skills)
         /\ d = ExperienceScore(profile.months, role.months)
         /\ e = EducationScore(profile.level, role.level)
  OBVIOUS
<1>4. IsShare(a) /\ IsShare(b)
  BY <1>3, ScorableRead, CoverageShared
<1>5. IsShare(c)
  BY <1>2, <1>3, ScorableRead, EvidenceShared
<1>6. IsShare(d)
  BY <1>3, ScorableRead, ExperienceShared
<1>7. IsShare(e)
  BY <1>3, ScorableRead, EducationShared
<1>8. PICK f : f = <<a, b, c, d, e>>
  OBVIOUS
<1>9. Fractions(profile, role) = f
  BY <1>1, <1>3, <1>8 DEF Fractions
<1>10. f[1] = a /\ f[2] = b /\ f[3] = c /\ f[4] = d /\ f[5] = e
  BY <1>8
<1>11. \A i \in 1 .. 5 : IsShare(f[i])
  <2>1. \A i \in 1 .. 5 : i = 1 \/ i = 2 \/ i = 3 \/ i = 4 \/ i = 5
    OBVIOUS
  <2> QED
    BY <1>4, <1>5, <1>6, <1>7, <1>10, <2>1
<1>12. f = <<f[1], f[2], f[3], f[4], f[5]>>
  BY <1>8, <1>10
<1> QED
  BY <1>9, <1>11, <1>12 DEF AreShares

\* A capability is matched or missing.
LEMMA GapsCounted ==
    ASSUME NEW requirements, AreRequirements(requirements), NEW skills, NEW type
    PROVE  /\ GapCount(requirements, skills, type, TRUE)
                + GapCount(requirements, skills, type, FALSE)
                = Cardinality(OfType(requirements, type))
           /\ GapCount(requirements, skills, type, FALSE) \in Nat
           /\ GapCount(requirements, skills, type, FALSE) = 0 =>
                 OfType(requirements, type) \subseteq MatchedOf(requirements, skills)
<1>1. PICK is : is = OfType(requirements, type)
  OBVIOUS
<1>2. is \subseteq DOMAIN requirements
  BY <1>1 DEF OfType
<1>3. PICK a : a = {i \in is : (requirements[i].cap \in DOMAIN skills) = TRUE}
  OBVIOUS
<1>4. PICK b : b = {i \in is : (requirements[i].cap \in DOMAIN skills) = FALSE}
  OBVIOUS
<1>5. /\ GapCount(requirements, skills, type, TRUE) = Cardinality(a)
      /\ GapCount(requirements, skills, type, FALSE) = Cardinality(b)
  BY <1>1, <1>3, <1>4 DEF GapCount
<1>6. a \cup b = is /\ a \cap b = {}
  BY <1>3, <1>4
<1>7. IsFiniteSet(is)
  BY <1>2, ImportancesCount
<1>8. IsFiniteSet(a) /\ IsFiniteSet(b)
  BY <1>3, <1>4, <1>7, FS_Subset
<1>9. Cardinality(a \cup b) = Cardinality(a) + Cardinality(b) - Cardinality(a \cap b)
  BY <1>8, FS_Union
<1>10. Cardinality(a) \in Nat /\ Cardinality(b) \in Nat /\ Cardinality({}) = 0
  BY <1>8, FS_CardinalityType, FS_EmptySet
<1>11. Cardinality(is) = Cardinality(a) + Cardinality(b)
  <2>1. Cardinality(a \cup b) = Cardinality(is)
    BY <1>6
  <2>2. Cardinality(a \cap b) = 0
    BY <1>6, <1>10
  <2>3. PICK m, n \in Nat : m = Cardinality(a) /\ n = Cardinality(b)
    BY <1>10
  <2> QED
    BY <1>9, <2>1, <2>2, <2>3
<1>12. Cardinality(b) = 0 => is \subseteq MatchedOf(requirements, skills)
  <2> SUFFICES ASSUME Cardinality(b) = 0, NEW i \in is
               PROVE  i \in MatchedOf(requirements, skills)
    OBVIOUS
  <2>1. b = {}
    BY <1>8, FS_EmptySet
  <2>2. requirements[i].cap \in DOMAIN skills
    BY <1>4, <2>1
  <2> QED
    BY <1>2, <2>2 DEF MatchedOf
<1> QED
  BY <1>1, <1>5, <1>10, <1>11, <1>12

\* A part that rounds to the whole is the whole, or nearly.
NearlyAll(y, D) == 20000 * D <= 20000 * y + D

LEMMA FullPart ==
    ASSUME NEW n \in Nat, NEW d \in Nat, d # 0, NEW D \in Nat, NEW y \in Nat,
           y * d = n * D, Quantized(100 * n, d) = Hundred
    PROVE  NearlyAll(y, D)
<1>1. PICK p : p = Quantized(100 * n, d)
  OBVIOUS
<1>2. IsNear(p, D, y)
  BY <1>1, PartWeighed
<1>3. p = 10000
  BY <1>1 DEF Hundred
<1> QED
  BY <1>2, <1>3 DEF IsNear, NearlyAll

\* Everything covered is worth 55 and 10 points, with evidence of four tenths
\* at least another 6, and experience that rounds to all of it 14 and more.
LEMMA CompleteScores ==
    ASSUME NEW f, AreShares(f), f[1].n = f[1].d, f[2].n = f[2].d,
           f[3].d * 4 <= f[3].n * 10
    PROVE  /\ 7100 <= WeightedTotal(f)
           /\ Quantized(100 * f[4].n, f[4].d) = Hundred => 7500 <= WeightedTotal(f)
<1>1. PICK y, D : y = Numerators(f) /\ D = Denominator(f)
  OBVIOUS
<1>2. D \in Nat /\ D # 0 /\ \A i \in 1 .. 5 : y[i] \in Nat /\ y[i] * f[i].d = f[i].n * D
  BY <1>1, CommonDenominator
<1>3. PICK y1, y2, y3, y4, y5 \in Nat :
         y1 = y[1] /\ y2 = y[2] /\ y3 = y[3] /\ y4 = y[4] /\ y5 = y[5]
  <2>1. y[1] \in Nat /\ y[2] \in Nat /\ y[3] \in Nat /\ y[4] \in Nat /\ y[5] \in Nat
    BY <1>2
  <2> QED
    BY <2>1
<1>4. \A d \in Nat : d # 0 => \A x \in Nat : x * d = d * D => x = D
  <2> SUFFICES ASSUME NEW d \in Nat, d # 0, NEW x \in Nat, x * d = d * D PROVE x = D
    OBVIOUS
  <2>1. d * x <= d * D /\ d * D <= d * x
    BY <1>2
  <2>2. x <= D /\ D <= x
    BY <1>2, <2>1, FactorsCancel
  <2> QED
    BY <1>2, <2>2
<1>5. y1 = D
  <2>1. PICK d \in Nat : d = f[1].d /\ d # 0
    BY DEF AreShares, IsShare
  <2>2. y1 * d = d * D
    BY <1>2, <1>3, <2>1
  <2> QED
    BY <1>4, <2>1, <2>2
<1>6. y2 = D
  <2>1. PICK d \in Nat : d = f[2].d /\ d # 0
    BY DEF AreShares, IsShare
  <2>2. y2 * d = d * D
    BY <1>2, <1>3, <2>1
  <2> QED
    BY <1>4, <2>1, <2>2
<1>7. 4 * D <= 10 * y3
  <2>1. PICK n, d \in Nat : n = f[3].n /\ d = f[3].d /\ d # 0
    BY DEF AreShares, IsShare
  <2>2. y3 * d = n * D /\ d * 4 <= n * 10
    BY <1>2, <1>3, <2>1
  <2>3. (d * 4) * D <= (n * 10) * D
    <3>1. PICK a, b \in Nat : a = d * 4 /\ b = n * 10
      OBVIOUS
    <3>2. a * D <= b * D
      BY <1>2, <2>2, <3>1
    <3> QED
      BY <3>1, <3>2
  <2>4. (d * 4) * D = d * (4 * D) /\ (n * 10) * D = d * (10 * y3)
    BY <1>2, <2>2
  <2>5. PICK a, b \in Nat : a = 4 * D /\ b = 10 * y3
    BY <1>2
  <2>6. d * a <= d * b
    BY <2>3, <2>4, <2>5
  <2> QED
    BY <2>1, <2>5, <2>6, FactorsCancel
<1>8. PICK w \in Nat : w = 55 * y1 + 10 * y2 + 15 * y3 + 15 * y4 + 5 * y5
  OBVIOUS
<1>9. WeightedTotal(f) = Quantized(w, D)
  BY <1>1, <1>3, <1>8 DEF WeightedTotal, Weigh, Weights
<1>10. \A points \in Nat : points * D <= w => Quantized(points, 1) <= Quantized(w, D)
  <2> SUFFICES ASSUME NEW points \in Nat, points * D <= w
               PROVE  Quantized(points, 1) <= Quantized(w, D)
    OBVIOUS
  <2>1. points * D <= w * 1 /\ 1 \in Nat /\ 1 # 0
    OBVIOUS
  <2> QED
    BY <1>2, <2>1, QuantizedGrows
<1>11. 7100 <= WeightedTotal(f)
  <2>1. 71 * D <= w /\ 71 \in Nat
    BY <1>2, <1>5, <1>6, <1>7, <1>8
  <2>2. Quantized(71, 1) <= Quantized(w, D)
    BY <1>10, <2>1
  <2> QED
    BY <1>9, <2>2, QuantizedPoints
<1>12. ASSUME Quantized(100 * f[4].n, f[4].d) = Hundred PROVE 7500 <= WeightedTotal(f)
  <2>1. PICK n, d \in Nat : n = f[4].n /\ d = f[4].d /\ d # 0
    BY DEF AreShares, IsShare
  <2>2. y4 * d = n * D
    BY <1>2, <1>3, <2>1
  <2>3. Quantized(100 * n, d) = Hundred
    BY <1>12, <2>1
  <2>4. NearlyAll(y4, D)
    <3>1. D \in Nat /\ d # 0
      BY <1>2, <2>1
    <3> QED
      BY <2>2, <2>3, <3>1, FullPart
  <2>5. 75 * D <= w /\ 75 \in Nat
    BY <1>2, <1>5, <1>6, <1>7, <1>8, <2>4 DEF NearlyAll
  <2>6. Quantized(75, 1) <= Quantized(w, D)
    BY <1>10, <2>5
  <2> QED
    BY <1>9, <2>6, QuantizedPoints
<1> QED
  BY <1>11, <1>12

LEMMA NothingWeighs ==
    ASSUME NEW requirements, Importance(requirements, {}) # 0
    PROVE  FALSE
<1>1. PICK a : a = Importances(requirements, {})
  OBVIOUS
<1>2. DOMAIN a = {}
  BY <1>1 DEF Importances
<1>3. Points(a) = {}
  BY <1>2, PointsOf
<1>4. Cardinality({}) = 0
  BY FS_EmptySet
<1>5. Total(a) = 0
  BY <1>3, <1>4 DEF Total
<1> QED
  BY <1>1, <1>5 DEF Importance, Importances

\* Whoever has something asked for has four tenths of evidence for it.
LEMMA EvidenceAtLeast ==
    ASSUME NEW requirements, AreRequirements(requirements),
           NEW skills, AreStrengths(skills), MatchedOf(requirements, skills) # {},
           NEW x, x = EvidenceQuality(requirements, skills)
    PROVE  x.d * 4 <= x.n * 10
<1>1. PICK n : n = Total(Evidence(requirements, skills))
  OBVIOUS
<1>2. PICK d : d = Importance(requirements, MatchedOf(requirements, skills))
  OBVIOUS
<1>3. MatchedOf(requirements, skills) \subseteq DOMAIN requirements
  BY DEF MatchedOf
<1>4. n \in Nat /\ d \in Nat
  BY <1>1, <1>2, <1>3, EvidenceTerms, ImportancesCount
<1>5. d * 4 <= n
  BY <1>1, <1>2, EvidenceBetween
<1>6. x.n = n /\ x.d = 10 * d
  BY <1>1, <1>2 DEF EvidenceQuality, Evidence
<1> QED
  BY <1>4, <1>5, <1>6

LEMMA CompleteShares ==
    ASSUME NEW profile, NEW role, IsScorable(profile, role),
           ~ Inconsistent(role.requirements),
           NEW skills, skills = SkillInputs(profile.skills),
           GapCount(role.requirements, skills, "required", FALSE) = 0,
           GapCount(role.requirements, skills, "bonus", FALSE) = 0,
           NEW f, f = Fractions(profile, role)
    PROVE  f[1].n = f[1].d /\ f[2].n = f[2].d /\ f[3].d * 4 <= f[3].n * 10
<1>1. PICK requirements : requirements = role.requirements
  OBVIOUS
<1>2. AreRequirements(requirements) /\ AreStrengths(skills)
  BY <1>1, ScorableRead, SkillsRead
<1>3. /\ OfType(requirements, "required") \subseteq MatchedOf(requirements, skills)
      /\ OfType(requirements, "bonus") \subseteq MatchedOf(requirements, skills)
  BY <1>1, <1>2, GapsCounted
<1>4. OfType(requirements, "required") # {}
  BY <1>1, NothingWeighs DEF Inconsistent
<1>5. MatchedOf(requirements, skills) # {}
  BY <1>3, <1>4
<1>6. /\ f[1] = Coverage(requirements, "required", skills)
      /\ f[2] = Coverage(requirements, "bonus", skills)
      /\ f[3] = EvidenceQuality(requirements, skills)
  BY <1>1 DEF Fractions
<1>7. f[1].n = f[1].d /\ f[2].n = f[2].d
  BY <1>2, <1>3, <1>6, FullyCovered
<1>8. f[3].d * 4 <= f[3].n * 10
  BY <1>2, <1>5, <1>6, EvidenceAtLeast
<1> QED
  BY <1>7, <1>8

LEMMA ShareKept ==
    ASSUME NEW x, IsShare(x)
    PROVE  x.n * x.d <= x.n * x.d
BY DEF IsShare

LEMMA NoneLessOf ==
    ASSUME NEW f, NEW g, AreShares(f),
           \A i \in 1 .. 5 : g[i] = f[i] \/ f[i].n * g[i].d <= g[i].n * f[i].d
    PROVE  NoneLess(f, g)
<1> SUFFICES ASSUME NEW i \in 1 .. 5 PROVE f[i].n * g[i].d <= g[i].n * f[i].d
  BY DEF NoneLess
<1>1. IsShare(f[i])
  BY DEF AreShares
<1>2. CASE g[i] = f[i]
  BY <1>1, <1>2, ShareKept
<1> QED
  BY <1>2

LEMMA FractionsOf ==
    ASSUME NEW profile, NEW role, NEW f, f = Fractions(profile, role),
           NEW skills, skills = SkillInputs(profile.skills)
    PROVE  /\ f[1] = Coverage(role.requirements, "required", skills)
           /\ f[2] = Coverage(role.requirements, "bonus", skills)
           /\ f[3] = EvidenceQuality(role.requirements, skills)
           /\ f[4] = ExperienceScore(profile.months, role.months)
           /\ f[5] = EducationScore(profile.level, role.level)
BY DEF Fractions

LEMMA ProfileWritten ==
    ASSUME NEW profile, NEW role, IsScorable(profile, role),
           NEW rows \in Seq(SkillRow), NEW months \in Nat \cup {Null}, NEW level
    PROVE  IsScorable([skills |-> rows, months |-> months, level |-> level], role)
<1>1. PICK better : better = [skills |-> rows, months |-> months, level |-> level]
  OBVIOUS
<1>2. /\ better = [skills |-> better.skills, months |-> better.months, level |-> better.level]
      /\ better.skills \in Seq([cap : Nat, evidence : DOMAIN EvidenceTenths])
      /\ better.months \in Nat \cup {Null}
  BY <1>1 DEF SkillRow
<1> QED
  BY <1>1, <1>2 DEF IsScorable

\* A profile that is better in one respect scores no less in it, and the same
\* in the others.
LEMMA BetterScores ==
    ASSUME NEW profile, NEW role, IsScorable(profile, role), NEW better \in Better(profile)
    PROVE  /\ IsScorable(better, role)
           /\ NoneLess(Fractions(profile, role), Fractions(better, role))
<1>1. PICK rows, months, level :
         rows = profile.skills /\ months = profile.months /\ level = profile.level
  OBVIOUS
<1>2. /\ rows \in Seq(SkillRow) /\ months \in Nat \cup {Null}
      /\ profile = [skills |-> rows, months |-> months, level |-> level]
      /\ AreRequirements(role.requirements)
      /\ role.months \in Nat \cup {Null} /\ role.level \in DOMAIN EducationRank \cup {"none"}
  <2>1. /\ rows \in Seq(SkillRow) /\ months \in Nat \cup {Null}
        /\ AreRequirements(role.requirements)
        /\ role.months \in Nat \cup {Null} /\ role.level \in DOMAIN EducationRank \cup {"none"}
    BY <1>1, ScorableRead
  <2>2. profile = [skills |-> rows, months |-> months, level |-> level]
    BY <1>1 DEF IsScorable
  <2> QED
    BY <2>1, <2>2
<1>3. PICK f, g : f = Fractions(profile, role) /\ g = Fractions(better, role)
  OBVIOUS
<1>4. AreShares(f)
  BY <1>3, FractionsShared
<1>5. CASE \E i \in DOMAIN rows : \E e \in DOMAIN EvidenceTenths :
             /\ \A k \in DOMAIN rows : EvidenceTenths[e] > EvidenceTenths[rows[k].evidence]
             /\ better = [profile EXCEPT !.skills[i].evidence = e]
  <2>1. PICK i \in DOMAIN rows, e \in DOMAIN EvidenceTenths :
           /\ \A k \in DOMAIN rows : EvidenceTenths[e] > EvidenceTenths[rows[k].evidence]
           /\ better = [profile EXCEPT !.skills[i].evidence = e]
    BY <1>5
  <2>2. PICK more : more = [rows EXCEPT ![i].evidence = e]
    OBVIOUS
  <2>3. better = [skills |-> more, months |-> months, level |-> level]
    BY <1>2, <2>1, <2>2
  <2>4. PICK a, b : a = SkillInputs(rows) /\ b = SkillInputs(more)
    OBVIOUS
  <2>5. more \in Seq(SkillRow) /\ NoneWeaker(a, b)
    BY <1>2, <2>1, <2>2, <2>4, EvidenceImproved
  <2>6. IsScorable(better, role)
    BY <1>2, <2>3, <2>5, ProfileWritten
  <2>7. AreStrengths(a) /\ AreStrengths(b)
    BY <1>2, <2>4, <2>5, SkillsRead
  <2>8. better.skills = more /\ better.months = months /\ better.level = level
    BY <2>3
  <2>9. /\ f[1] = Coverage(role.requirements, "required", a)
        /\ f[2] = Coverage(role.requirements, "bonus", a)
        /\ f[3] = EvidenceQuality(role.requirements, a)
        /\ f[4] = ExperienceScore(months, role.months)
        /\ f[5] = EducationScore(level, role.level)
    BY <1>1, <1>3, <2>4, FractionsOf
  <2>10. /\ g[1] = Coverage(role.requirements, "required", b)
         /\ g[2] = Coverage(role.requirements, "bonus", b)
         /\ g[3] = EvidenceQuality(role.requirements, b)
         /\ g[4] = ExperienceScore(months, role.months)
         /\ g[5] = EducationScore(level, role.level)
    BY <1>3, <2>4, <2>8, FractionsOf
  <2>11. g[1] = f[1] /\ g[2] = f[2] /\ g[4] = f[4] /\ g[5] = f[5]
    BY <2>5, <2>9, <2>10, CoverageKept DEF NoneWeaker
  <2>12. f[3].n * g[3].d <= g[3].n * f[3].d
    BY <1>2, <2>5, <2>7, <2>9, <2>10, EvidenceGrows
  <2>13. \A k \in 1 .. 5 : k = 1 \/ k = 2 \/ k = 3 \/ k = 4 \/ k = 5
    OBVIOUS
  <2>14. \A k \in 1 .. 5 : g[k] = f[k] \/ f[k].n * g[k].d <= g[k].n * f[k].d
    BY <2>11, <2>12, <2>13
  <2>15. NoneLess(f, g)
    BY <1>4, <2>14, NoneLessOf
  <2> QED
    BY <1>3, <2>6, <2>15
<1>6. CASE \E m \in {months + 1, months + 9} : better = [profile EXCEPT !.months = m]
  <2>1. PICK m \in {months + 1, months + 9} : better = [profile EXCEPT !.months = m]
    BY <1>6
  <2>2. m \in Nat /\ months < m
    BY <1>2 DEF Null
  <2>3. better = [skills |-> rows, months |-> m, level |-> level]
    BY <1>2, <2>1
  <2>4. IsScorable(better, role)
    BY <1>2, <2>2, <2>3, ProfileWritten
  <2>5. better.skills = rows /\ better.months = m /\ better.level = level
    BY <2>3
  <2>6. PICK a : a = SkillInputs(rows)
    OBVIOUS
  <2>7. /\ f[1] = Coverage(role.requirements, "required", a)
        /\ f[2] = Coverage(role.requirements, "bonus", a)
        /\ f[3] = EvidenceQuality(role.requirements, a)
        /\ f[4] = ExperienceScore(months, role.months)
        /\ f[5] = EducationScore(level, role.level)
    BY <1>1, <1>3, <2>6, FractionsOf
  <2>8. /\ g[1] = Coverage(role.requirements, "required", a)
        /\ g[2] = Coverage(role.requirements, "bonus", a)
        /\ g[3] = EvidenceQuality(role.requirements, a)
        /\ g[4] = ExperienceScore(m, role.months)
        /\ g[5] = EducationScore(level, role.level)
    BY <1>3, <2>5, <2>6, FractionsOf
  <2>9. g[1] = f[1] /\ g[2] = f[2] /\ g[3] = f[3] /\ g[5] = f[5]
    BY <2>7, <2>8
  <2>10. f[4].n * g[4].d <= g[4].n * f[4].d
    BY <1>2, <2>2, <2>7, <2>8, ExperienceGrows
  <2>11. \A k \in 1 .. 5 : k = 1 \/ k = 2 \/ k = 3 \/ k = 4 \/ k = 5
    OBVIOUS
  <2>12. \A k \in 1 .. 5 : g[k] = f[k] \/ f[k].n * g[k].d <= g[k].n * f[k].d
    BY <2>9, <2>10, <2>11
  <2>13. NoneLess(f, g)
    BY <1>4, <2>12, NoneLessOf
  <2> QED
    BY <1>3, <2>4, <2>13
<1>7. CASE \E l \in DOMAIN EducationRank :
             /\ level \in DOMAIN EducationRank => EducationRank[l] > EducationRank[level]
             /\ better = [profile EXCEPT !.level = l]
  <2>1. PICK l \in DOMAIN EducationRank :
           /\ level \in DOMAIN EducationRank => EducationRank[l] > EducationRank[level]
           /\ better = [profile EXCEPT !.level = l]
    BY <1>7
  <2>2. better = [skills |-> rows, months |-> months, level |-> l]
    BY <1>2, <2>1
  <2>3. IsScorable(better, role)
    BY <1>2, <2>2, ProfileWritten
  <2>4. better.skills = rows /\ better.months = months /\ better.level = l
    BY <2>2
  <2>5. PICK a : a = SkillInputs(rows)
    OBVIOUS
  <2>6. /\ f[1] = Coverage(role.requirements, "required", a)
        /\ f[2] = Coverage(role.requirements, "bonus", a)
        /\ f[3] = EvidenceQuality(role.requirements, a)
        /\ f[4] = ExperienceScore(months, role.months)
        /\ f[5] = EducationScore(level, role.level)
    BY <1>1, <1>3, <2>5, FractionsOf
  <2>7. /\ g[1] = Coverage(role.requirements, "required", a)
        /\ g[2] = Coverage(role.requirements, "bonus", a)
        /\ g[3] = EvidenceQuality(role.requirements, a)
        /\ g[4] = ExperienceScore(months, role.months)
        /\ g[5] = EducationScore(l, role.level)
    BY <1>3, <2>4, <2>5, FractionsOf
  <2>8. g[1] = f[1] /\ g[2] = f[2] /\ g[3] = f[3] /\ g[4] = f[4]
    BY <2>6, <2>7
  <2>9. f[5].n * g[5].d <= g[5].n * f[5].d
    BY <1>2, <2>1, <2>6, <2>7, EducationGrows
  <2>10. \A k \in 1 .. 5 : k = 1 \/ k = 2 \/ k = 3 \/ k = 4 \/ k = 5
    OBVIOUS
  <2>11. \A k \in 1 .. 5 : g[k] = f[k] \/ f[k].n * g[k].d <= g[k].n * f[k].d
    BY <2>8, <2>9, <2>10
  <2>12. NoneLess(f, g)
    BY <1>4, <2>11, NoneLessOf
  <2> QED
    BY <1>3, <2>3, <2>12
<1> QED
  BY <1>1, <1>5, <1>6, <1>7 DEF Better

\* ScoresAddUpOn holds for whatever is scored.
LEMMA ScoresAlwaysAddUp ==
    ASSUME NEW profile, NEW role, IsScorable(profile, role)
    PROVE  ScoresAddUpOn(profile, role)
<1>1. SUFFICES ASSUME ~ Inconsistent(role.requirements) PROVE ScoresAddUpOn(profile, role)
  BY DEF ScoresAddUpOn
<1>2. PICK f : f = Fractions(profile, role)
  OBVIOUS
<1>3. AreShares(f)
  BY <1>2, FractionsShared
<1>4. PICK skills : skills = SkillInputs(profile.skills)
  OBVIOUS
<1>5. PICK s : s = Score(profile, role)
  OBVIOUS
<1>6. /\ s.total = WeightedTotal(f) /\ s.level = MatchLevel(WeightedTotal(f))
      /\ s.parts = [i \in 1 .. 5 |-> Quantized(100 * f[i].n, f[i].d)]
      /\ \A type \in {"required", "bonus"} : \A m \in BOOLEAN :
            s.gaps[type][m] = GapCount(role.requirements, skills, type, m)
  BY <1>2, <1>4, <1>5, ScoreRead
<1>7. {s.total} \cup ToSet(s.parts) \subseteq 0 .. Hundred
  <2>1. s.total \in 0 .. Hundred
    BY <1>3, <1>6, TotalInBounds
  <2>2. \A i \in 1 .. 5 : s.parts[i] \in 0 .. Hundred
    <3> SUFFICES ASSUME NEW i \in 1 .. 5 PROVE s.parts[i] \in 0 .. Hundred
      OBVIOUS
    <3>1. PICK n, d \in Nat : n = f[i].n /\ d = f[i].d /\ d # 0 /\ n <= d
      BY <1>3 DEF AreShares, IsShare
    <3>2. 100 * n \in Nat /\ 100 * n <= 100 * d
      BY <3>1
    <3>3. Quantized(100 * n, d) \in 0 .. Hundred
      BY <3>1, <3>2, ShareQuantized
    <3>4. s.parts[i] = Quantized(100 * n, d)
      BY <1>6, <3>1
    <3> QED
      BY <3>3, <3>4
  <2>3. DOMAIN s.parts = 1 .. 5
    BY <1>6
  <2>4. ToSet(s.parts) \subseteq 0 .. Hundred
    BY <2>2, <2>3 DEF ToSet
  <2> QED
    BY <2>1, <2>4
<1>8. 100 * s.total - Weigh(s.parts) \in -100 .. 100
  BY <1>3, <1>6, PartsWeighed
<1>9. AreRequirements(role.requirements)
  BY ScorableRead
<1>10. \A type \in {"required", "bonus"} :
          s.gaps[type][TRUE] + s.gaps[type][FALSE] = Cardinality(OfType(role.requirements, type))
  <2> SUFFICES ASSUME NEW type \in {"required", "bonus"}
               PROVE  s.gaps[type][TRUE] + s.gaps[type][FALSE]
                         = Cardinality(OfType(role.requirements, type))
    OBVIOUS
  <2>1. PICK m, n : /\ m = GapCount(role.requirements, skills, type, TRUE)
                    /\ n = GapCount(role.requirements, skills, type, FALSE)
    OBVIOUS
  <2>2. m + n = Cardinality(OfType(role.requirements, type))
    BY <1>9, <2>1, GapsCounted
  <2>3. s.gaps[type][TRUE] = m /\ s.gaps[type][FALSE] = n
    BY <1>6, <2>1
  <2> QED
    BY <2>2, <2>3
<1>11. CompleteIsHigh(s)
  <2> SUFFICES ASSUME MissingCount(s) = 0
               PROVE  s.total >= 7100 /\ (s.parts[4] = Hundred => s.level = "high")
    BY DEF CompleteIsHigh
  <2>1. PICK m, n \in Nat :
           /\ m = GapCount(role.requirements, skills, "required", FALSE)
           /\ n = GapCount(role.requirements, skills, "bonus", FALSE)
    BY <1>9, GapsCounted
  <2>2. m + n = 0
    <3>1. s.gaps["required"][FALSE] = m /\ s.gaps["bonus"][FALSE] = n
      BY <1>6, <2>1
    <3> QED
      BY <3>1 DEF MissingCount
  <2>3. m = 0 /\ n = 0
    BY <2>2
  <2>4. f[1].n = f[1].d /\ f[2].n = f[2].d /\ f[3].d * 4 <= f[3].n * 10
    BY <1>1, <1>2, <1>4, <2>1, <2>3, CompleteShares
  <2>5. /\ 7100 <= WeightedTotal(f)
        /\ Quantized(100 * f[4].n, f[4].d) = Hundred => 7500 <= WeightedTotal(f)
    BY <1>3, <2>4, CompleteScores
  <2>6. PICK t \in Nat : t = WeightedTotal(f)
    <3>1. \A x \in 0 .. Hundred : x \in Nat
      BY DEF Hundred
    <3> QED
      BY <1>3, <3>1, TotalInBounds
  <2>7. s.parts[4] = Quantized(100 * f[4].n, f[4].d)
    BY <1>6
  <2> QED
    BY <1>6, <2>5, <2>6, <2>7 DEF MatchLevel
<1>12. ASSUME NEW better \in Better(profile)
       PROVE  Score(better, role).total >= s.total
  <2>1. PICK g : g = Fractions(better, role)
    OBVIOUS
  <2>2. IsScorable(better, role) /\ NoneLess(f, g)
    BY <1>2, <2>1, BetterScores
  <2>3. AreShares(g)
    BY <2>1, <2>2, FractionsShared
  <2>4. WeightedTotal(f) <= WeightedTotal(g)
    BY <1>3, <2>2, <2>3, TotalGrows
  <2>5. Score(better, role).total = WeightedTotal(g)
    BY <2>1, ScoreTotal
  <2>6. WeightedTotal(f) \in 0 .. Hundred /\ WeightedTotal(g) \in 0 .. Hundred
    BY <1>3, <2>3, TotalInBounds
  <2>7. \A x \in 0 .. Hundred : x \in Int
    BY DEF Hundred
  <2> QED
    BY <1>6, <2>4, <2>5, <2>6, <2>7
<1>13. ScoreFits(s) /\ PartsAddUp(s) /\ GapsAddUp(s, role.requirements)
  BY <1>7, <1>8, <1>10 DEF ScoreFits, PartsAddUp, GapsAddUp
<1>14. \A better \in Better(profile) : Score(better, role).total >= s.total
  BY <1>12
<1> QED
  BY <1>5, <1>11, <1>13, <1>14 DEF ScoresAddUpOn
=============================================================================
