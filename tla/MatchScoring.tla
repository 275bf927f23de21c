----------------------------- MODULE MatchScoring -----------------------------
(***************************************************************************)
(* How a profile is scored against the requirements of a role, and how     *)
(* roles and candidates are ranked.                                        *)
(*                                                                         *)
(* A score is an integer, in hundredths of a point: Hundred is 100.00.     *)
(* What the code computes with 28 decimal digits is an exact fraction      *)
(* [n, d] of 1 here until it is rounded.  Importances are integers in any  *)
(* one unit.                                                             *)
(***************************************************************************)
EXTENDS Integers, FiniteSetsExt, SequencesExt

Hundred == 10000
Null == -1

\* A requirement is [cap, type, importance].  A skill row of a profile is
\* [cap, evidence], and of two rows for one capability the later one counts.
EvidenceTenths == [mention |-> 4, project |-> 7, work |-> 10]
SkillInputs(rows) ==
    [c \in {rows[i].cap : i \in DOMAIN rows} |->
        LET last == Max({i \in DOMAIN rows : rows[i].cap = c})
        IN  EvidenceTenths[rows[last].evidence]]

\* EDUCATION_RANKS; any other level is unknown to the scoring.
EducationRank == [high_school |-> 1, associate |-> 2, bachelor |-> 3,
                  master |-> 4, doctor |-> 5]

Zero == [n |-> 0, d |-> 1]
Full == [n |-> 1, d |-> 1]

\* quantize_score of n / d points: two places, half up.
Quantized(n, d) == (200 * n + d) \div (2 * d)

\* The sum of the terms, each that many points.
Points(term) == UNION {{i} \X (1 .. term[i]) : i \in DOMAIN term}
Total(term) == Cardinality(Points(term))

Importance(requirements, is) == Total([i \in is |-> requirements[i].importance])

OfType(requirements, type) ==
    {i \in DOMAIN requirements : requirements[i].type = type}
MatchedOf(requirements, skills) ==
    {i \in DOMAIN requirements : requirements[i].cap \in DOMAIN skills}

\* MatchCatalogInconsistent: no required capability, or importances of zero.
Inconsistent(requirements) ==
    \/ Importance(requirements, OfType(requirements, "required")) = 0
    \/ /\ OfType(requirements, "bonus") # {}
       /\ Importance(requirements, OfType(requirements, "bonus")) = 0

\* Mutant: a role without bonus capabilities gives nothing for them.
CoverageOrNothing(requirements, type, skills) ==
    LET is == OfType(requirements, type)
    IN  IF is = {} THEN Zero
        ELSE [n |-> Importance(requirements, is \cap MatchedOf(requirements, skills)),
              d |-> Importance(requirements, is)]

\* _coverage
Coverage(requirements, type, skills) ==
    LET is == OfType(requirements, type)
    IN  IF is = {} THEN Full
        ELSE [n |-> Importance(requirements, is \cap MatchedOf(requirements, skills)),
              d |-> Importance(requirements, is)]

\* _evidence_quality.  It divides by the matched importance, which is positive:
\* publishing writes 1 and 0.5, and a requirement of a JD must be above 0.
EvidenceQuality(requirements, skills) ==
    LET is == MatchedOf(requirements, skills)
    IN  IF is = {} THEN Zero
        ELSE [n |-> Total([i \in is |-> requirements[i].importance
                                          * skills[requirements[i].cap]]),
              d |-> 10 * Importance(requirements, is)]

\* _experience_score
ExperienceScore(months, recommended) ==
    CASE recommended \in {Null, 0} -> Full
      [] recommended > 0 /\ months \in {Null, 0} -> Zero
      [] recommended > 0 /\ months > 0 ->
            IF months < recommended THEN [n |-> months, d |-> recommended] ELSE Full

\* _education_score
EducationScore(level, minimum) ==
    IF minimum = "none" THEN Full
    ELSE IF level \notin DOMAIN EducationRank THEN Zero
    ELSE IF EducationRank[level] < EducationRank[minimum]
         THEN [n |-> EducationRank[level], d |-> EducationRank[minimum]]
         ELSE Full

\* match_level
MatchLevel(total) ==
    IF total >= 7500 THEN "high" ELSE IF total >= 5000 THEN "medium" ELSE "low"

\* The weights of required, bonus, evidence, experience and education.
Weights == <<55, 10, 15, 15, 5>>
Weigh(x) == Weights[1] * x[1] + Weights[2] * x[2] + Weights[3] * x[3]
              + Weights[4] * x[4] + Weights[5] * x[5]

\* Five fractions, brought to one denominator.
Denominator(f) == f[1].d * f[2].d * f[3].d * f[4].d * f[5].d
Numerators(f) == [i \in 1 .. 5 |-> f[i].n * (Denominator(f) \div f[i].d)]

WeightedTotal(f) == Quantized(Weigh(Numerators(f)), Denominator(f))

GapCount(requirements, skills, type, matched) ==
    Cardinality({i \in OfType(requirements, type) :
                    (requirements[i].cap \in DOMAIN skills) = matched})

\* score_profile_against_requirements, with what _gap_summary counts.
Score(profile, role) ==
    LET skills == SkillInputs(profile.skills)
        f == <<Coverage(role.requirements, "required", skills),
               Coverage(role.requirements, "bonus", skills),
               EvidenceQuality(role.requirements, skills),
               ExperienceScore(profile.months, role.months),
               EducationScore(profile.level, role.level)>>
        total == WeightedTotal(f)
    IN  [total |-> total, level |-> MatchLevel(total),
         parts |-> [i \in 1 .. 5 |-> Quantized(100 * f[i].n, f[i].d)],
         gaps  |-> [type \in {"required", "bonus"} |->
                      [m \in BOOLEAN |-> GapCount(role.requirements, skills, type, m)]]]

\* Requirements that publishing or the job description of a role wrote.
AreRequirements(requirements) ==
    /\ requirements \in Seq(ToSet(requirements))
    /\ \A i \in DOMAIN requirements : requirements[i].importance \in Nat \ {0}

\* A profile and a role as the tables hold them: a skill has a capability and
\* one of three kinds of evidence, a role asks for a known education or none.
IsScorable(profile, role) ==
    /\ profile = [skills |-> profile.skills, months |-> profile.months,
                  level |-> profile.level]
    /\ profile.skills \in Seq([cap : Nat, evidence : DOMAIN EvidenceTenths])
    /\ profile.months \in Nat \cup {Null}
    /\ AreRequirements(role.requirements)
    /\ role.months \in Nat \cup {Null}
    /\ role.level \in DOMAIN EducationRank \cup {"none"}

-----------------------------------------------------------------------------
(* Ranking.  A scored value is [total, parts, name, id]; names are compared *)
(* without regard to case, so that two roles may have the same.            *)

\* A list to rank: no identifier is in it twice.
IsRankable(values) ==
    /\ values \in Seq(ToSet(values))
    /\ \A i \in DOMAIN values :
          /\ values[i].total \in Int /\ values[i].name \in Int /\ values[i].id \in Int
          /\ \A k \in 1 .. 5 : values[i].parts[k] \in Int
    /\ \A i, k \in DOMAIN values : values[i].id = values[k].id => i = k

\* The scores in the order they decide.
KeyOf(v) == <<-v.total, -v.parts[1], -v.parts[3], -v.parts[4], -v.parts[2],
              -v.parts[5], v.name, v.id>>

\* Mutant: the identifier does not break ties.
KeyWithoutId(v) == SubSeq(KeyOf(v), 1, 7)

\* The key rank_scored_job_roles and rank_candidate_matches sort by.
RankKey(v) == KeyOf(v)

\* sorted(key=...) is stable: equal keys stay in the order of the input.
LessKey(a, b) ==
    \E i \in DOMAIN a : a[i] < b[i] /\ \A k \in 1 .. i - 1 : a[k] = b[k]
Ranked(values) ==
    LET first(i, k) ==
            LET a == RankKey(values[i])
                b == RankKey(values[k])
            IN  IF a = b THEN i < k ELSE LessKey(a, b)
    IN  [r \in DOMAIN values |->
            values[CHOOSE i \in DOMAIN values :
                     Cardinality({k \in DOMAIN values : first(k, i)}) = r - 1]]

\* The counts a match run stores beside its results.
LevelCount(values, level) ==
    Cardinality({i \in DOMAIN values : MatchLevel(values[i].total) = level})

-----------------------------------------------------------------------------
(* Properties, for one input each                                          *)

\* The profiles that are better than profile in one respect.
Better(profile) ==
    {[profile EXCEPT !.skills[i].evidence = e] :
        i \in DOMAIN profile.skills,
        e \in {e \in DOMAIN EvidenceTenths : \A k \in DOMAIN profile.skills :
                 EvidenceTenths[e] > EvidenceTenths[profile.skills[k].evidence]}}
    \cup {[profile EXCEPT !.months = m] : m \in {profile.months + 1, profile.months + 9}}
    \cup {[profile EXCEPT !.level = l] :
            l \in {l \in DOMAIN EducationRank :
                     profile.level \in DOMAIN EducationRank =>
                        EducationRank[l] > EducationRank[profile.level]}}

\* A score fits the tables' constraints: it is between 0 and 100, with its parts.
ScoreFits(s) == {s.total} \cup ToSet(s.parts) \subseteq 0 .. Hundred

\* A reader who weighs the displayed parts gets the displayed total, to a hundredth.
PartsAddUp(s) == 100 * s.total - Weigh(s.parts) \in -100 .. 100

\* Every capability is counted once, as matched or as missing.
GapsAddUp(s, requirements) ==
    \A type \in {"required", "bonus"} :
        s.gaps[type][TRUE] + s.gaps[type][FALSE] = Cardinality(OfType(requirements, type))

\* A profile that lacks nothing has 71 points at least, and with the experience
\* asked for it is a high match.
MissingCount(s) == s.gaps["required"][FALSE] + s.gaps["bonus"][FALSE]
CompleteIsHigh(s) ==
    MissingCount(s) = 0 =>
        s.total >= 7100 /\ (s.parts[4] = Hundred => s.level = "high")

\* A score adds up, and better evidence, more experience or a higher education
\* never lower it.
ScoresAddUpOn(profile, role) ==
    LET s == Score(profile, role)
    IN  ~ Inconsistent(role.requirements) =>
        /\ ScoreFits(s)
        /\ PartsAddUp(s)
        /\ GapsAddUp(s, role.requirements)
        /\ CompleteIsHigh(s)
        /\ \A better \in Better(profile) : Score(better, role).total >= s.total

\* The order of a ranking is that of the values alone, not the order the
\* database returned them in; a better total ranks first, so that levels
\* never rise down the list, and the levels' counts add up to the results.
RankingIsSettledOn(values) ==
    LET ranked == Ranked(values)
        rankOf(level) == CASE level = "high" -> 1 [] level = "medium" -> 2
                           [] level = "low" -> 3
    IN  /\ \A p \in Bijection(DOMAIN values, DOMAIN values) :
              Ranked([i \in DOMAIN values |-> values[p[i]]]) = ranked
        /\ \A i, k \in DOMAIN ranked : i < k =>
              /\ ranked[i].total >= ranked[k].total
              /\ rankOf(MatchLevel(ranked[i].total)) <= rankOf(MatchLevel(ranked[k].total))
        /\ LevelCount(values, "high") + LevelCount(values, "medium")
              + LevelCount(values, "low") = Len(values)
        /\ ToSet(ranked) = ToSet(values)
=============================================================================
