----------------------------- MODULE SkillMining -----------------------------
(***************************************************************************)
(* The pure parts of discovery and of algorithm imports: mapping labels to *)
(* capabilities (two implementations of it), mining pairs of capabilities  *)
(* that postings ask for together, and choosing the capabilities of a      *)
(* proposal.                                                               *)
(*                                                                         *)
(* Identifiers are numbers in the order of their text.  A label is a       *)
(* normalised one, and Blank what normalises to nothing.  Scores are       *)
(* integers, in units of 1/10000.                                          *)
(***************************************************************************)
EXTENDS Integers, FiniteSetsExt, SequencesExt

Blank == "blank"
Unmapped == 0

\* The elements of a sort, before[x] being what comes before x, and a limit.
InOrder(before) ==
    [n \in 1 .. Cardinality(DOMAIN before) |->
        CHOOSE x \in DOMAIN before : Cardinality(before[x]) = n - 1]
Cut(seq, limit) ==
    [n \in 1 .. (IF limit < Len(seq) THEN limit ELSE Len(seq)) |-> seq[n]]

-----------------------------------------------------------------------------
(* Labels.  catalog[c] = [name, aliases] for each active capability c.     *)

\* Identifiers are not Unmapped, and labels are a list.
AreLabels(catalog, labels) ==
    /\ DOMAIN catalog \subseteq Nat \ {Unmapped}
    /\ labels \in Seq(ToSet(labels))

NamedBy(catalog, label)   == {c \in DOMAIN catalog : catalog[c].name = label}
AliasedBy(catalog, label) == {c \in DOMAIN catalog : label \in catalog[c].aliases}

\* build_catalog_index keeps the first capability of a name and of an alias,
\* and no alias that is a name.
First(cs) == IF cs = {} THEN Unmapped ELSE Min(cs)
Canonical(catalog, label) == First(NamedBy(catalog, label))
Alias(catalog, label) ==
    IF NamedBy(catalog, label) # {} THEN Unmapped ELSE First(AliasedBy(catalog, label))

\* Mutant: aliases are collected without regard to names and looked up first.
AliasFirst(catalog, label) ==
    IF AliasedBy(catalog, label) # {} THEN First(AliasedBy(catalog, label))
                                      ELSE Canonical(catalog, label)

\* The lookup of map_skill_labels.
Indexed(catalog, label) ==
    IF Canonical(catalog, label) # Unmapped THEN Canonical(catalog, label)
                                            ELSE Alias(catalog, label)

\* Two labels of one capability, or one unmapped label.
SameSkill(catalog, a, b) ==
    IF Indexed(catalog, a) = Unmapped THEN a = b
                                      ELSE Indexed(catalog, a) = Indexed(catalog, b)

\* map_skill_labels: the first label of each skill, by its position; blank
\* labels, repeated capabilities and repeated unmapped labels are skipped.
MapSkillLabels(catalog, labels) ==
    LET kept == {i \in DOMAIN labels :
                    /\ labels[i] # Blank
                    /\ \A k \in 1 .. i - 1 : labels[k] # Blank =>
                          ~ SameSkill(catalog, labels[k], labels[i])}
    IN  [i \in kept |-> [label |-> labels[i], capability |-> Indexed(catalog, labels[i])]]

\* resolve_capability_labels: a label with several matches stays unmapped.
Only(cs) == IF Cardinality(cs) = 1 THEN Min(cs) ELSE Unmapped
Resolved(catalog, label) ==
    IF NamedBy(catalog, label) # {} THEN Only(NamedBy(catalog, label))
                                    ELSE Only(AliasedBy(catalog, label))

\* Every distinct label once.
ResolveCapabilityLabels(catalog, labels) ==
    {[label |-> l, capability |-> Resolved(catalog, l)] : l \in ToSet(labels) \ {Blank}}

-----------------------------------------------------------------------------
(* Pairs.  A job is [caps, source, company, quality].                      *)

\* A list of postings with finitely many capabilities each.
ArePostings(jobs) ==
    /\ jobs \in Seq(ToSet(jobs))
    /\ \A j \in DOMAIN jobs :
          /\ jobs[j].caps \subseteq Nat /\ IsFiniteSet(jobs[j].caps)
          /\ jobs[j].quality \in 0 .. 100

One == 10000
NoCompany == "none"

\* _rounded of num / den: within 0 and 1, four places, half up.
Rounded(num, den) ==
    LET r == (2 * One * num + den) \div (2 * den)
    IN  IF r > One THEN One ELSE r

Eligible(jobs) == {j \in DOMAIN jobs : Cardinality(jobs[j].caps) >= 2}
Asking(jobs, cs) == {j \in Eligible(jobs) : cs \subseteq jobs[j].caps}
Sources(jobs, js) == {jobs[j].source : j \in js}
Companies(jobs, js) == {jobs[j].company : j \in js} \ {NoCompany}

\* Mutant: jobs that ask for both are counted twice in the union.
UnionTwice(jobs, pair) ==
    Cardinality(Asking(jobs, {Min(pair)})) + Cardinality(Asking(jobs, {Max(pair)}))

\* Jobs that ask for one of the two.
UnionCount(jobs, pair) ==
    Cardinality(Asking(jobs, {Min(pair)})) + Cardinality(Asking(jobs, {Max(pair)}))
      - Cardinality(Asking(jobs, pair))

\* The sum of the jobs' quality, each out of 100 points.
TotalQuality(jobs, js) ==
    Cardinality({p \in js \X (1 .. 100) : p[2] <= jobs[p[1]].quality})

\* One candidate, from the pair and the jobs that support it.
PairCandidate(jobs, pair) ==
    LET js == Asking(jobs, pair)
        n  == Cardinality(js)
        s  == Cardinality(Sources(jobs, Eligible(jobs)))
        support   == Rounded(n, Cardinality(Eligible(jobs)))
        diversity == Rounded(Cardinality(Sources(jobs, js)) * n
                               + Cardinality(Companies(jobs, js)) * s, 2 * s * n)
        coherence == Rounded(n, UnionCount(jobs, pair))
        evidence  == Rounded(TotalQuality(jobs, js), n * 100)
    IN  [pair |-> pair, jobs |-> js, support |-> support, diversity |-> diversity,
         coherence |-> coherence, evidence |-> evidence,
         overall |-> (support * 35 + diversity * 20 + coherence * 25
                        + evidence * 20 + 50) \div 100]

\* The sort key: score, support and the identifiers.
Before(a, b) ==
    LET na == Cardinality(a.jobs)
        nb == Cardinality(b.jobs)
    IN  \/ a.overall > b.overall
        \/ a.overall = b.overall /\ na > nb
        \/ /\ a.overall = b.overall /\ na = nb
           /\ \/ Min(a.pair) < Min(b.pair)
              \/ Min(a.pair) = Min(b.pair) /\ Max(a.pair) < Max(b.pair)

Supported(jobs, pair, minSupport, minSources) ==
    LET js == Asking(jobs, pair)
    IN  /\ js # {}
        /\ Cardinality(js) >= minSupport
        /\ Cardinality(Sources(jobs, js)) >= minSources

\* The candidates before they are cut off.
Pairs(jobs, minSupport, minSources) ==
    {PairCandidate(jobs, pair) :
        pair \in {p \in kSubset(2, UNION {jobs[j].caps : j \in DOMAIN jobs}) :
                    Supported(jobs, p, minSupport, minSources)}}

MineSkillPairs(jobs, minSupport, minSources, maximum) ==
    LET all == Pairs(jobs, minSupport, minSources)
    IN  Cut(InOrder([c \in all |-> {d \in all : Before(d, c)}]), maximum)

-----------------------------------------------------------------------------
(* The capabilities of a proposal.  domain[c]: the domain of capability c. *)

\* Lists of capabilities, of which those that are known have a domain.
AreSkills(domain, required, bonus) ==
    /\ required \in Seq(Nat) /\ bonus \in Seq(Nat)
    /\ \A i \in DOMAIN required : required[i] # Unmapped => domain[required[i]] \in Nat

\* The items of a sequence at some positions, in their order there.
Arranged(seq, before) ==
    LET at == InOrder(before) IN [n \in DOMAIN at |-> seq[at[n]]]
Selected(seq, is) == Arranged(seq, [i \in is |-> {k \in is : k < i}])

\* Known capabilities, where they appear first.
FirstKnown(capabilities) ==
    {i \in DOMAIN capabilities :
        /\ capabilities[i] # Unmapped
        /\ \A k \in 1 .. i - 1 : capabilities[k] # capabilities[i]}

\* _map_skills for labels already resolved: known capabilities once each.
MapSkills(capabilities) == Selected(capabilities, FirstKnown(capabilities))

\* by_domain: the positions of the required capabilities of a domain.
InDomain(domain, required, d) == {i \in DOMAIN required : domain[required[i]] = d}

\* The domain with most of them, of several the first by its identifier.
Dominant(domain, required) ==
    LET count(d) == Cardinality(InDomain(domain, required, d))
        ds == {domain[c] : c \in ToSet(required)}
    IN  Min({d \in ds : \A e \in ds : count(d) >= count(e)})

\* Those of the other domains, by the domain that appears first.
OffDomain(domain, required, top) ==
    LET rest == DOMAIN required \ InDomain(domain, required, top)
        firstAt(i) == Min(InDomain(domain, required, domain[required[i]]))
        comesFirst(k, i) == \/ firstAt(k) < firstAt(i)
                            \/ firstAt(k) = firstAt(i) /\ k < i
    IN  Arranged(required, [i \in rest |-> {k \in rest : comesFirst(k, i)}])

\* Mutant: what is required is not kept out of the bonus.
BonusWithRequired(candidates, required) == MapSkills(candidates)

\* What may become a bonus capability, each once.
Bonus(candidates, required) ==
    Selected(candidates, {i \in FirstKnown(candidates) :
                            candidates[i] \notin ToSet(required)})

\* _publishable_capabilities: the required ones of the largest domain, and as
\* a bonus those of the other domains before the proposed bonus.
Publishable(domain, required, bonus, limit) ==
    IF required = <<>> THEN [required |-> <<>>, bonus |-> <<>>]
    ELSE LET top  == Dominant(domain, required)
             core == Cut(Selected(required, InDomain(domain, required, top)), limit)
         IN  [required |-> core,
              bonus |-> Cut(Bonus(OffDomain(domain, required, top) \o bonus, core), limit)]

\* The proposal a definition becomes; one with less than MinRequired is skipped.
MinRequired == 2
Proposed(domain, required, bonus, limit) ==
    LET p == Publishable(domain, MapSkills(required), MapSkills(bonus), limit)
    IN  IF Len(p.required) < MinRequired THEN {} ELSE {p}

-----------------------------------------------------------------------------
(* Properties, for one input each                                          *)

\* The two ways of mapping a label never name different capabilities: what
\* the resolver maps, the index maps to the same capability.  A posting's
\* skills name no capability and no label twice, as the unique constraint on
\* a profile's skills demands.
LabelsAgreeOn(catalog, labels) ==
    LET mapped == MapSkillLabels(catalog, labels)
    IN  /\ \A e \in ResolveCapabilityLabels(catalog, labels) :
              e.capability # Unmapped =>
                 \E m \in Range(mapped) : m.capability = e.capability
        /\ \A m \in Range(mapped) :
              Resolved(catalog, m.label) \in {Unmapped, m.capability}
        /\ \A i, k \in DOMAIN mapped : i # k =>
              /\ mapped[i].label # mapped[k].label
              /\ mapped[i].capability = Unmapped
                    \/ mapped[i].capability # mapped[k].capability

\* The mined pairs are the best: no pair that was cut off or met the limits
\* ranks before one that was kept, no pair appears twice, and its scores fit the
\* table's constraints.  What two capabilities share weighs at least as much
\* among the postings that ask for either as among all of them.
MinedAreBestOn(jobs, minSupport, minSources, maximum) ==
    LET mined == MineSkillPairs(jobs, minSupport, minSources, maximum)
        all   == Pairs(jobs, minSupport, minSources)
    IN  /\ \A i, k \in DOMAIN mined : i < k => Before(mined[i], mined[k])
        /\ \A c \in all \ ToSet(mined) :
              Len(mined) = maximum /\ \A m \in ToSet(mined) : Before(m, c)
        /\ \A c \in ToSet(mined) :
              /\ {c.support, c.diversity, c.coherence, c.evidence, c.overall}
                    \subseteq 0 .. One
              /\ c.coherence >= c.support
              /\ c.overall <= Max({c.support, c.diversity, c.coherence, c.evidence})

\* A proposal an algorithm import creates can be published: what is required
\* lies in one domain, nothing is both required and a bonus or named twice.  A
\* definition is skipped only if no two of its required capabilities share a
\* domain, so a small domain never hides a large one.
PublishableOn(domain, required, bonus, limit) ==
    LET mapped   == MapSkills(required)
        proposed == Proposed(domain, required, bonus, limit)
    IN  /\ \A p \in proposed :
              /\ Cardinality({domain[c] : c \in ToSet(p.required)}) = 1
              /\ Cardinality(ToSet(p.required \o p.bonus)) = Len(p.required \o p.bonus)
              /\ Len(p.required) \in MinRequired .. limit /\ Len(p.bonus) <= limit
        /\ proposed = {} <=>
              \A i, k \in DOMAIN mapped : domain[mapped[i]] = domain[mapped[k]] => i = k
=============================================================================
