------------------------------ MODULE BackOffice ------------------------------
(***************************************************************************)
(* The components around the graph, side by side.  They share no state     *)
(* that matters to their properties, so a behaviour runs one of them:      *)
(* market imports and discovery, each on the processing runs of their own  *)
(* type, what is created once, match runs, catalog imports, and users and  *)
(* sessions; or it puts one input to one of the pure algorithms.           *)
(***************************************************************************)
EXTENDS ImportBatches, Discovery, CreateOnce, Recommendations, CatalogImport,
        Sessions, SkillMining, Normalization, MatchScoring

CONSTANTS
    LabelInputs,     \* [catalog, labels]
    MiningInputs,    \* [jobs, support, sources, maximum]
    ProposalInputs,  \* [domain, required, bonus, limit]
    RowInputs,       \* [row, anchor]
    ScoreInputs,     \* [profile, role]
    RankInputs       \* sequences of scored values

\* What is mapped are labels of a list, to capabilities by their identifiers.
ASSUME LabelConstants == \A value \in LabelInputs : AreLabels(value.catalog, value.labels)

ASSUME MiningConstants ==
    \A value \in MiningInputs : ArePostings(value.jobs) /\ value.maximum \in Nat

\* A proposal may name enough capabilities of either kind.
ASSUME ProposalConstants ==
    \A value \in ProposalInputs :
        /\ AreSkills(value.domain, value.required, value.bonus)
        /\ value.limit \in Nat /\ value.limit >= MinRequired

ASSUME RowConstants == \A value \in RowInputs : IsRow(value.row, value.anchor)

\* What is scored are a profile and the requirements of a role, as written.
ASSUME ScoreConstants ==
    \A value \in ScoreInputs : IsScorable(value.profile, value.role)

\* What is ranked are rows of a table, each read once.
ASSUME RankConstants == \A values \in RankInputs : IsRankable(values)

VARIABLES
    part,      \* the component that runs
    input      \* <<what an algorithm is given>>, or NoInput

vars == <<part, input, lifeVars, importVars, discoveryVars, createVars, matchVars,
          catalogVars, sessionVars>>

Components == {"imports", "discovery", "create", "match", "catalog", "sessions"}
Algorithms == {"labels", "mining", "proposal", "row", "score", "rank"}
NoInput == <<>>

Init ==
    /\ part \in Components \cup Algorithms
    /\ input = NoInput
    /\ LifeInit /\ ImportsInit /\ DiscoveryInit /\ CreateInit /\ MatchInit
    /\ CatalogInit /\ SessionsInit
    /\ part # "imports" => importBatch.status = "absent"

\* One component takes a step, the variables of the others stay.
ImportsStep ==
    /\ part = "imports"
    /\ ImportsNext
    /\ UNCHANGED <<discoveryVars, createVars, matchVars, catalogVars, sessionVars>>
DiscoveryStep ==
    /\ part = "discovery"
    /\ DiscoveryNext
    /\ UNCHANGED <<importVars, createVars, matchVars, catalogVars, sessionVars>>
CreateStep ==
    /\ part = "create"
    /\ CreateNext
    /\ UNCHANGED <<lifeVars, importVars, discoveryVars, matchVars, catalogVars,
                   sessionVars>>
MatchStep ==
    /\ part = "match"
    /\ MatchNext
    /\ UNCHANGED <<lifeVars, importVars, discoveryVars, createVars, catalogVars,
                   sessionVars>>
CatalogStep ==
    /\ part = "catalog"
    /\ CatalogNext
    /\ UNCHANGED <<lifeVars, importVars, discoveryVars, createVars, matchVars,
                   sessionVars>>
SessionsStep ==
    /\ part = "sessions"
    /\ SessionsNext
    /\ UNCHANGED <<lifeVars, importVars, discoveryVars, createVars, matchVars,
                   catalogVars>>

\* An algorithm is given an input, once.
Given(name, inputs) ==
    /\ part = name /\ input = NoInput
    /\ \E value \in inputs : input' = <<value>>
    /\ UNCHANGED <<lifeVars, importVars, discoveryVars, createVars, matchVars,
                   catalogVars, sessionVars>>

Next ==
    /\ UNCHANGED part
    /\ \/ /\ UNCHANGED input
          /\ \/ ImportsStep \/ DiscoveryStep \/ CreateStep
             \/ MatchStep \/ CatalogStep \/ SessionsStep
       \/ Given("labels", LabelInputs)
       \/ Given("mining", MiningInputs)
       \/ Given("proposal", ProposalInputs)
       \/ Given("row", RowInputs)
       \/ Given("score", ScoreInputs)
       \/ Given("rank", RankInputs)

Spec == Init /\ [][Next]_vars

-----------------------------------------------------------------------------
\* The variables of the component that runs have their types; the others
\* keep their first values.
TypeOK ==
    /\ part \in {"imports", "discovery"} => LifeTypeOK
    /\ part = "imports"   => ImportsTypeOK
    /\ part = "discovery" => DiscoveryTypeOK
    /\ part = "create"    => CreateTypeOK
    /\ part = "match"     => MatchTypeOK
    /\ part = "catalog"   => CatalogTypeOK
    /\ part = "sessions"  => SessionsTypeOK

HasInput(name) == part = name /\ input # NoInput

\* A label is never mapped to two capabilities: what resolve_capability_labels
\* maps, discovery's index maps to the same capability, once per posting.
LabelsAgree ==
    HasInput("labels") => LabelsAgreeOn(input[1].catalog, input[1].labels)

\* No pair of capabilities that mine_skill_pairs leaves out ranks before one it
\* returns, and every score fits the candidates' check constraints.
MinedAreBest ==
    HasInput("mining") =>
        MinedAreBestOn(input[1].jobs, input[1].support, input[1].sources, input[1].maximum)

\* What an algorithm import proposes can be published: at least two required
\* capabilities, of one domain, none of them a bonus as well, none twice; and a
\* definition that has two such capabilities is proposed.
ProposalsPublishable ==
    HasInput("proposal") =>
        PublishableOn(input[1].domain, input[1].required, input[1].bonus, input[1].limit)

\* A row with a plain salary range meets the table's constraints, and a month
\* and a day become the latest such day before the collection.
RowNormalizes ==
    HasInput("row") => RowNormalizesOn(input[1].row, input[1].anchor)

\* Scores add up, stay within their constraints and reward what is better.
ScoresAddUp ==
    HasInput("score") => ScoresAddUpOn(input[1].profile, input[1].role)

\* A ranking depends on what is ranked, not on the order it was read in.
RankingIsSettled ==
    HasInput("rank") => RankingIsSettledOn(input[1])
=============================================================================
