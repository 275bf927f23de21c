----------------------------- MODULE MCBackOffice -----------------------------
(***************************************************************************)
(* Values of the constants of BackOffice for TLC.                          *)
(***************************************************************************)
EXTENDS BackOffice

\* Runs, the processes of each component, and users are interchangeable.
Symmetry == Permutations(Runs) \cup Permutations(Importers) \cup Permutations(Users)

\* Bound: Beat's redispatch, which the runs of resumes and recruitment
\* interleave with everything, sends nothing here.
NoRedispatch == batch = {}

\* Bound: failed logins and the changes an administrator makes share nothing
\* but the requests, so that they do not overlap here.
GuessesApart ==
    failures > 0 => \A c \in Callers : caller[c].pc \notin {"create", "update", "commit"}

\* A file of three rows in two chunks: accepted with a warning, rejected, accepted.
MCFileRows == <<"warn", "bad", "ok">>

-----------------------------------------------------------------------------
\* Files of at most two of these rows: names and aliases that differ by their
\* spelling, repeated aliases, and domains that are missing or not named.
RowOf(domain, named, name, aliases) ==
    [domain |-> domain, named |-> named, name |-> name, aliases |-> aliases]
CatalogRows ==
    {RowOf("d", TRUE, <<"go", 1>>, <<<<"x", 1>>>>),
     RowOf("d", FALSE, <<"go", 2>>, <<>>),
     RowOf("d", TRUE, <<"c", 1>>, <<<<"x", 2>>>>),
     RowOf("d", FALSE, <<"c", 1>>, <<<<"x", 1>>, <<"x", 1>>>>),
     RowOf("e", TRUE, <<"go", 1>>, <<<<"x", 1>>, <<"x", 2>>>>),
     RowOf(NoDomain, TRUE, <<"c", 1>>, <<>>)}
MCCatalogFiles == BoundedSeq(CatalogRows, 2)

\* A published role that has the name of a row, or differs by its spelling.
MCGraphRoles == {[domain |-> "d", name |-> <<"go", 1>>]}

-----------------------------------------------------------------------------
\* Two capabilities with names and aliases out of three, at most two labels.
Names == {"x", "y", "z"}
MCLabelInputs ==
    [catalog : [1 .. 2 -> [name : Names, aliases : SUBSET Names]],
     labels  : BoundedSeq(Names \cup {Blank}, 2)]

\* Three postings, of two sources, that ask for any of three capabilities.
Caps == 1 .. 3
Job(caps, source, company, quality) ==
    [caps |-> caps, source |-> source, company |-> company, quality |-> quality]
MCMiningInputs ==
    [jobs : {<<Job(a, "s", "c", 60), Job(b, "s", NoCompany, 100), Job(c, "t", "c", 80)>> :
                a, b, c \in SUBSET Caps},
     support : 1 .. 2, sources : 1 .. 2, maximum : 1 .. 2]

\* Three capabilities of two domains, in any order, repeated or unmapped.
MCProposalInputs ==
    [domain : [Caps -> 1 .. 2], required : BoundedSeq(Caps, 3),
     bonus : BoundedSeq(Caps \cup {Unmapped}, 2), limit : 2 .. 3]

-----------------------------------------------------------------------------
\* Rows that differ from a plain one by their salary, their experience, their
\* date or what is missing in them.
Amount == [tenths : {5, 60, 120, 150}, unit : {"", "k", "wan"}]
NoSalary == [amounts |-> <<>>, salaries |-> 0, daily |-> FALSE, blank |-> TRUE]
Salaries ==
    {NoSalary} \cup
    {t \in [amounts : BoundedSeq(Amount, 2), salaries : {0, 13}, daily : BOOLEAN,
            blank : {FALSE}] :
        Len(t.amounts) = 2 => t.amounts[1].tenths <= t.amounts[2].tenths}

Experiences ==
    [form : {"none", "any", "range", "from", "up_to", Missing, "odd"},
     low : {1}, high : {1, 3}]
Dates ==
    [form : {"month_day"}, month : 1 .. 13, day : {1, 14, 15, 16, 28, 29, 30, 31},
     date : {NoDate}]
    \cup [form : {"today", "days_ago", "full", Missing, "odd"}, month : {0}, day : {40},
          date : {<<2024, 2, 29>>, <<2023, 2, 29>>}]
Today == [form |-> "today", month |-> 0, day |-> 0, date |-> NoDate]

Columns == {"job_name"} \cup Optional
Row0 == [salary |-> NoSalary, date |-> Today, area |-> <<>>, city |-> <<"x">>,
         experience |-> [form |-> "any", low |-> 0, high |-> 0], columns |-> Columns,
         source |-> "standard", requested |-> "standard", garbled |-> FALSE]
Anchors == {<<y, m, 15>> : y \in 2023 .. 2025, m \in {1, 2, 3, 12}}
MCRowInputs ==
    {[row |-> [Row0 EXCEPT !.salary = s], anchor |-> <<2024, 2, 15>>] : s \in Salaries}
    \cup {[row |-> [Row0 EXCEPT !.experience = e, !.salary = s], anchor |-> <<2024, 2, 15>>] :
            e \in Experiences, s \in {t \in Salaries : Len(t.amounts) = 1}}
    \cup {[row |-> [Row0 EXCEPT !.date = d], anchor |-> a] : d \in Dates, a \in Anchors}
    \cup {[row |-> [Row0 EXCEPT !.columns = c, !.area = a, !.source = s, !.requested = q,
                                !.garbled = g],
           anchor |-> <<2024, 2, 15>>] :
            c \in SUBSET Columns, a \in {<<>>, <<"x">>, <<"y">>}, g \in BOOLEAN,
            s, q \in {"standard", "liepin"}}

-----------------------------------------------------------------------------
\* Roles of up to two capabilities, or with a third as a bonus; profiles with
\* up to two skills, twice for the same capability among them.
Requirement(c, type, importance) == [cap |-> c, type |-> type, importance |-> importance]
Requirements ==
    {<<Requirement(1, s, 2)>> : s \in {"required", "bonus"}}
    \cup {<<Requirement(1, s, i), Requirement(2, t, 2)>> :
            s, t \in {"required", "bonus"}, i \in 1 .. 2}
    \cup {<<Requirement(1, "required", 2), Requirement(2, "required", 1),
            Requirement(3, "bonus", 1)>>}
Skill(c, evidence) == [cap |-> c, evidence |-> evidence]
SkillRows ==
    LET strengths == DOMAIN EvidenceTenths
    IN  {<<>>} \cup {<<Skill(c, e)>> : c \in 1 .. 2, e \in strengths}
        \cup {<<Skill(1, e), Skill(c, f)>> : c \in 1 .. 2, e, f \in strengths}
MCScoreInputs ==
    [profile : [skills : SkillRows, months : {Null, 5, 12},
                level : {"other", "associate", "doctor"}],
     role : {[requirements |-> r, months |-> p[1], level |-> p[2]] : r \in Requirements,
                p \in {<<Null, "none">>, <<7, "doctor">>, <<12, "bachelor">>}}]

\* Three scored roles with any of these totals, parts and names.
Scored ==
    {[total |-> t, parts |-> <<a, b, 7000, 10000, 10000>>, name |-> n] :
        t \in {4999, 7500}, a \in {5000, 6000}, b \in {6000, 7000}, n \in {1, 2}}
MCRankInputs ==
    {[i \in 1 .. 3 |-> vs[i] @@ [id |-> i]] : vs \in [1 .. 3 -> Scored]}
=============================================================================
