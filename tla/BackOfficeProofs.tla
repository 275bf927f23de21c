--------------------------- MODULE BackOfficeProofs ---------------------------
(***************************************************************************)
(* What is proved of a component holds where the components run side by    *)
(* side: every step of the composition is one of the component or leaves   *)
(* its variables alone, so a behaviour of the composition is one of the    *)
(* component.                                                              *)
(***************************************************************************)
EXTENDS BackOffice, RequestProofs, MarketProofs, AlgorithmProofs

LEMMA StepsOfMatch == [Next]_vars => [MatchNext]_matchVars
BY DEF Next, vars, ImportsStep, DiscoveryStep, CreateStep, MatchStep, CatalogStep,
       SessionsStep, Given

LEMMA StepsOfCreate == [Next]_vars => [CreateNext]_createVars
BY DEF Next, vars, ImportsStep, DiscoveryStep, CreateStep, MatchStep, CatalogStep,
       SessionsStep, Given

LEMMA StepsOfSessions == [Next]_vars => [SessionsNext]_sessionVars
BY DEF Next, vars, ImportsStep, DiscoveryStep, CreateStep, MatchStep, CatalogStep,
       SessionsStep, Given

\* The composition runs each of these components as it is specified.
THEOREM ComponentsRun == Spec => MatchSpec /\ CreateSpec /\ SessionsSpec
<1>1. Init => MatchInit /\ CreateInit /\ SessionsInit
  BY DEF Init
<1> QED
  BY <1>1, StepsOfMatch, StepsOfCreate, StepsOfSessions, PTL
     DEF Spec, MatchSpec, CreateSpec, SessionsSpec

\* create_or_reuse_recommendations: no two requests insert one match run.
THEOREM MatchRunsAreUnique == Spec => []MatchRunsNeverConflict
BY ComponentsRun, MatchRunsConflictFree, PTL

\* Growth paths and import keys: what is stored once is never changed, and
\* whoever is answered is answered with it.
THEOREM CreationIsOnce == Spec => ImplementsWriteOnce
BY ComponentsRun, CreatedOnce, PTL

\* Deactivation, a new role and a new password end every session there was.
THEOREM RevocationIsTotal == Spec => []RevocationIsComplete
BY ComponentsRun, RevocationReachesAll, PTL

\* Whoever has checked that another administrator remains finds one there.
THEOREM AdminsRemain == Spec => []AdminsOutlastChecks
BY ComponentsRun, AdminsStay, PTL

\* login's rate limit: however many callers guess at once, they guess no more
\* passwords than the limit and one for each of them.
THEOREM GuessesLimited == Spec => []GuessesAreBounded
BY ComponentsRun, GuessesBounded, PTL

-----------------------------------------------------------------------------
(* The runs' table is shared: what a step of imports leaves of it suits     *)
(* discovery, and the other way round.                                      *)

MarketInv == LifeTypeOK /\ ImportsInv /\ DiscoveryInv

LEMMA MarketInitially == Init => MarketInv
BY LifeInitially, ImportsInitially, DiscoveryInitially DEF Init, MarketInv

LEMMA MarketStepKeeps == MarketInv /\ [Next]_vars => MarketInv'
<1> SUFFICES ASSUME MarketInv, [Next]_vars PROVE MarketInv'
  OBVIOUS
<1> USE DEF MarketInv
<1>1. ASSUME UNCHANGED <<lifeVars, importVars, discoveryVars>> PROVE MarketInv'
  BY <1>1, ImportsStay, DiscoveryStays DEF lifeVars, LifeTypeOK
<1>2. CASE ImportsStep
  BY <1>2, ImportsStepKeeps, DiscoveryStays DEF ImportsStep
<1>3. CASE DiscoveryStep
  BY <1>3, DiscoveryStepKeeps, ImportsStay DEF DiscoveryStep
<1>4. ASSUME CreateStep \/ MatchStep \/ CatalogStep \/ SessionsStep
      PROVE  UNCHANGED <<lifeVars, importVars, discoveryVars>>
  BY <1>4 DEF CreateStep, MatchStep, CatalogStep, SessionsStep
<1>5. ASSUME NEW name, NEW inputs, Given(name, inputs)
      PROVE  UNCHANGED <<lifeVars, importVars, discoveryVars>>
  BY <1>5 DEF Given
<1>6. CASE UNCHANGED vars
  BY <1>1, <1>6 DEF vars
<1> QED
  BY <1>1, <1>2, <1>3, <1>4, <1>5, <1>6 DEF Next

THEOREM MarketInvariance == Spec => []MarketInv
<1> QED
  BY MarketInitially, MarketStepKeeps, PTL DEF Spec

\* process_market_import, reprocessing: the current normalization of a row is
\* its latest one, and no other.
THEOREM VersionsCurrent == Spec => []OneCurrentVersion
<1>1. MarketInv => OneCurrentVersion
  BY DEF MarketInv, ImportsInv, RowsSound
<1> QED
  BY <1>1, MarketInvariance, PTL

\* The counts of an import batch never claim rows that are not there.
THEOREM BatchesCountRows == Spec => []CountsAreBacked
<1>1. MarketInv => CountsAreBacked
  BY CountsBacked DEF MarketInv
<1> QED
  BY <1>1, MarketInvariance, PTL

\* A completed discovery has analysed every posting once and has candidates.
THEOREM DiscoveriesWhole == Spec => []CompletedDiscoveryIsWhole
<1>1. MarketInv => CompletedDiscoveryIsWhole
  BY DiscoveryWhole DEF MarketInv
<1> QED
  BY <1>1, MarketInvariance, PTL

-----------------------------------------------------------------------------
(* The catalog                                                              *)

CatalogSpec == CatalogInit /\ [][CatalogNext]_catalogVars

UploadStep == {"idle", "version", "insert", "failed", "validated", "applied", "error"}
StoredFile == {"none", "stored", "attached"}
UploadWith(rows, roles) ==
    [pc : UploadStep, rows : {rows}, seen : 0 .. MaxVersions, published : {roles},
     no : 0 .. MaxVersions + 1, file : StoredFile]
IsUpload(u) == u \in UploadWith(u.rows, u.published)

IsCatalog(cat) ==
    /\ cat = [domains |-> cat.domains, entities |-> cat.entities,
              aliases |-> cat.aliases, version |-> cat.version,
              published |-> cat.published, drafts |-> cat.drafts]
    /\ cat.version \in 0 .. MaxVersions
    /\ cat.drafts \in 0 .. cat.version
    /\ cat.published \subseteq cat.entities \cap GraphRoles
    /\ \A e \in cat.entities : e.domain \in cat.domains
    /\ IsFiniteSet(cat.entities) /\ IsFiniteSet(cat.aliases)

AreRows(rows) ==
    /\ DOMAIN rows \in SUBSET Nat /\ IsFiniteSet(DOMAIN rows)
    /\ \A i \in DOMAIN rows : rows[i].aliases \in Seq(ToSet(rows[i].aliases))

\* What validation has found: no name and no alias of the rows is in the
\* catalog or in another of the rows, however it is spelled.
NothingTaken(cat, rows) ==
    /\ \A i \in DOMAIN rows :
          /\ EntityKey(rows[i]) \notin TakenKeys(cat)
          /\ FoldedAliases(rows[i]) \cap TakenAliases(cat) = {}
    /\ \A i, k \in DOMAIN rows : k < i =>
          /\ EntityKey(rows[k]) # EntityKey(rows[i])
          /\ FoldedAliases(rows[i]) \cap FoldedAliases(rows[k]) = {}

\* It stays true of a request until another version is committed, or a role is
\* published under the name of one of its rows.
IsCurrent(cat, u) ==
    /\ AreRows(u.rows)
    /\ u.seen <= cat.version
    /\ u.published \subseteq cat.published
    /\ u.pc \in {"version", "insert"} /\ u.seen = cat.version /\ ~ PublishedSince(cat, u)
          => NothingTaken(cat, u.rows)

\* What another request, or a publication, makes of the catalog: a version, or
\* nothing but published roles.
Later(cat, after) ==
    /\ cat.published \subseteq after.published
    /\ \/ cat.version < after.version
       \/ /\ after.version = cat.version /\ after.aliases = cat.aliases
          /\ after.entities \ cat.entities \subseteq after.published \ cat.published

CatalogInv ==
    /\ IsCatalog(catalog)
    /\ upload = [c \in Uploads |-> upload[c]]
    /\ \A c \in Uploads : IsUpload(upload[c]) /\ IsCurrent(catalog, upload[c])

\* Validation

\* Row by row, which rows are valid is settled.
LEMMA ValidationSettles ==
    ASSUME NEW cat, NEW rows, rows \in Seq(ToSet(rows))
    PROVE  \E valid \in SUBSET DOMAIN rows : Validated(cat, rows, valid)
<1> DEFINE Fits(W, i) == RowFits(cat, rows, {rows[k] : k \in W}, rows[i])
           Preceding(V, i) == {k \in V : k < i}
           Decided(n, V) == \A i \in 1 .. n : i \in V <=> Fits(Preceding(V, i), i)
           Open == {n \in 0 .. Len(rows) : ~ \E V \in SUBSET (1 .. n) : Decided(n, V)}
<1>1. Len(rows) \in Nat /\ DOMAIN rows = 1 .. Len(rows)
  OBVIOUS
<1>2. \A W, i : Fits(W, i) \in BOOLEAN
  BY DEF RowFits
<1> HIDE DEF Fits
<1>3. Open = {}
  <2> SUFFICES ASSUME Open # {} PROVE FALSE
    OBVIOUS
  <2>1. PICK n \in Open : \A m \in Open : n <= m
    <3>1. Open \in SUBSET Nat
      BY <1>1
    <3> HIDE DEF Open
    <3> QED
      BY <3>1, LeastOf
  <2>2. n \in 1 .. Len(rows)
    <3>1. Decided(0, {})
      OBVIOUS
    <3>2. n \in 0 .. Len(rows) /\ n # 0
      BY <2>1, <3>1
    <3> QED
      BY <1>1, <3>2
  <2>3. PICK V \in SUBSET (1 .. (n - 1)) : Decided(n - 1, V)
    <3>1. n - 1 \in 0 .. Len(rows) /\ ~ (n <= n - 1)
      BY <1>1, <2>2
    <3>2. n - 1 \notin Open
      BY <2>1, <3>1
    <3> QED
      BY <3>1, <3>2
  <2> DEFINE U == IF Fits(V, n) THEN V \cup {n} ELSE V
  <2>4. U \in SUBSET (1 .. n) /\ n \notin V
    BY <1>1, <2>2, <2>3
  <2>5. \A i \in 1 .. n : Preceding(U, i) = Preceding(V, i) /\ (i # n => (i \in U <=> i \in V))
    BY <1>1, <2>2, <2>3
  <2>6. Preceding(V, n) = V /\ (n \in U <=> Fits(V, n))
    <3>1. \A k \in V : k < n
      BY <1>1, <2>2, <2>3
    <3> QED
      BY <2>4, <3>1
  <2>7. \A i \in 1 .. n : i # n => i \in 1 .. (n - 1)
    BY <1>1, <2>2
  <2>8. Decided(n, U)
    <3> HIDE DEF U
    <3> SUFFICES ASSUME NEW i \in 1 .. n PROVE i \in U <=> Fits(Preceding(U, i), i)
      OBVIOUS
    <3>1. CASE i = n
      BY <2>5, <2>6, <3>1
    <3>2. CASE i # n
      <4>1. i \in V <=> Fits(Preceding(V, i), i)
        BY <2>3, <2>7, <3>2
      <4> HIDE DEF Preceding
      <4> QED
        BY <2>5, <3>2, <4>1
    <3> QED
      BY <3>1, <3>2
  <2> QED
    BY <2>1, <2>4, <2>8
<1>4. PICK V \in SUBSET (1 .. Len(rows)) : Decided(Len(rows), V)
  BY <1>1, <1>3
<1> QED
  BY <1>1, <1>4 DEF Validated, Fits

\* What it calls valid is free in the catalog, and among itself.
LEMMA ValidRowsFree ==
    ASSUME NEW cat, NEW rows \in CatalogFiles
    PROVE  AreRows(ValidateRows(cat, rows)) /\ NothingTaken(cat, ValidateRows(cat, rows))
<1>1. /\ rows \in Seq(ToSet(rows))
      /\ \A row \in ToSet(rows) : row.aliases \in Seq(ToSet(row.aliases))
  BY CatalogConstants
<1>2. DOMAIN rows = 1 .. Len(rows) /\ Len(rows) \in Nat
  BY <1>1
<1> DEFINE V == CHOOSE valid \in SUBSET DOMAIN rows : Validated(cat, rows, valid)
<1>3. V \in SUBSET DOMAIN rows /\ Validated(cat, rows, V)
  BY <1>1, ValidationSettles
<1>4. ValidateRows(cat, rows) = [i \in V |-> rows[i]]
  BY DEF ValidateRows
<1> HIDE DEF V
<1>5. PICK rs : rs = [i \in V |-> rows[i]]
  OBVIOUS
<1>6. DOMAIN rs = V /\ \A i \in V : rs[i] = rows[i] /\ rows[i] \in ToSet(rows)
  BY <1>3, <1>5 DEF ToSet
<1>7. AreRows(rs)
  <2>1. IsFiniteSet(1 .. Len(rows))
    BY <1>2, FS_Interval
  <2>2. IsFiniteSet(V) /\ V \in SUBSET Nat
    BY <1>2, <1>3, <2>1, FS_Subset
  <2>3. \A i \in V : rs[i].aliases \in Seq(ToSet(rs[i].aliases))
    BY <1>1, <1>6
  <2> QED
    BY <1>6, <2>2, <2>3 DEF AreRows
<1>8. \A i \in V : RowFits(cat, rows, {rows[k] : k \in {k \in V : k < i}}, rows[i])
  BY <1>3 DEF Validated
<1>9. NothingTaken(cat, rs)
  <2>1. ASSUME NEW i \in V
        PROVE  /\ EntityKey(rs[i]) \notin TakenKeys(cat)
               /\ FoldedAliases(rs[i]) \cap TakenAliases(cat) = {}
               /\ \A k \in V : k < i =>
                     /\ EntityKey(rs[k]) # EntityKey(rs[i])
                     /\ FoldedAliases(rs[i]) \cap FoldedAliases(rs[k]) = {}
    <3>1. PICK E : E = {rows[k] : k \in {k \in V : k < i}}
      OBVIOUS
    <3>2. RowFits(cat, rows, E, rows[i])
      BY <1>8, <3>1
    <3>3. \A k \in V : k < i => rs[k] \in E
      BY <1>6, <3>1
    <3>4. rs[i] = rows[i]
      BY <1>6
    <3> QED
      BY <3>2, <3>3, <3>4 DEF RowFits, AliasesFree
  <2> QED
    BY <1>6, <2>1 DEF NothingTaken
<1> QED
  BY <1>4, <1>5, <1>7, <1>9

\* Homonyms

FoldedKey(e) == <<e.domain, Folded(e.name)>>
Apart(cat) ==
    /\ \A d, e \in cat.entities : FoldedKey(d) = FoldedKey(e) => d = e
    /\ \A a, b \in cat.aliases : Folded(a) = Folded(b) => a = b

LEMMA HomonymsAlike ==
    ASSUME NEW cat, IsFiniteSet(cat.entities), IsFiniteSet(cat.aliases)
    PROVE  NoHomonyms(cat) <=> Apart(cat)
<1>1. PICK S, f : S = cat.entities /\ f = [e \in S |-> FoldedKey(e)]
  OBVIOUS
<1>2. TakenKeys(cat) = {f[e] : e \in S} /\ \A e \in S : f[e] = FoldedKey(e)
  BY <1>1 DEF TakenKeys, FoldedKey
<1>3. Cardinality(TakenKeys(cat)) = Cardinality(S) <=> \A d, e \in S : FoldedKey(d) = FoldedKey(e) => d = e
  BY <1>1, <1>2, ImageCounts
<1>4. PICK A, g : A = cat.aliases /\ g = [a \in A |-> Folded(a)]
  OBVIOUS
<1>5. TakenAliases(cat) = {g[a] : a \in A} /\ \A a \in A : g[a] = Folded(a)
  BY <1>4 DEF TakenAliases
<1>6. Cardinality(TakenAliases(cat)) = Cardinality(A) <=> \A a, b \in A : Folded(a) = Folded(b) => a = b
  BY <1>4, <1>5, ImageCounts
<1> QED
  BY <1>1, <1>3, <1>4, <1>6 DEF NoHomonyms, Apart

LEMMA OwnAliasesApart ==
    ASSUME NEW row, row.aliases \in Seq(ToSet(row.aliases))
    PROVE  /\ IsFiniteSet(ToSet(row.aliases))
           /\ ~ OwnHomonyms(row) =>
                 \A a, b \in ToSet(row.aliases) : Folded(a) = Folded(b) => a = b
<1>1. PICK s, N, f, g : /\ s = row.aliases /\ N = 1 .. Len(s)
                        /\ f = [i \in N |-> Folded(s[i])] /\ g = [i \in N |-> s[i]]
  OBVIOUS
<1>2. DOMAIN s = N /\ Len(s) \in Nat
  BY <1>1
<1>3. IsFiniteSet(N) /\ Cardinality(N) = Len(s)
  BY <1>1, <1>2, FS_Interval
<1>4. ToSet(s) = {g[i] : i \in N}
  BY <1>1, <1>2 DEF ToSet
<1>5. IsFiniteSet(ToSet(s))
  <2>1. DOMAIN g = N /\ g = [i \in N |-> g[i]]
    BY <1>1
  <2> QED
    BY <1>3, <1>4, <2>1, ImageCounts
<1>6. FoldedAliases(row) = {f[i] : i \in N}
  BY <1>1, <1>2 DEF FoldedAliases, ToSet
<1>7. ~ OwnHomonyms(row) => \A i, j \in N : f[i] = f[j] => i = j
  <2>1. PICK T : T = {f[i] : i \in N}
    OBVIOUS
  <2>2. /\ Cardinality(T) <= Len(s) /\ Cardinality(T) \in Nat
        /\ Cardinality(T) = Len(s) => \A i, j \in N : f[i] = f[j] => i = j
    <3>1. DOMAIN f = N /\ f = [i \in N |-> f[i]]
      BY <1>1
    <3> QED
      BY <1>3, <2>1, <3>1, ImageCounts
  <2>3. OwnHomonyms(row) <=> Cardinality(T) < Len(s)
    BY <1>1, <1>6, <2>1 DEF OwnHomonyms
  <2> QED
    BY <1>2, <2>2, <2>3
<1>8. ASSUME ~ OwnHomonyms(row), NEW a \in ToSet(s), NEW b \in ToSet(s), Folded(a) = Folded(b)
      PROVE  a = b
  <2>1. PICK i \in N, j \in N : a = s[i] /\ b = s[j]
    BY <1>2, <1>8 DEF ToSet
  <2>2. f[i] = f[j]
    BY <1>1, <1>8, <2>1
  <2> QED
    BY <1>7, <1>8, <2>1, <2>2
<1> QED
  BY <1>1, <1>5, <1>8

\* Insertion

\* A version of free rows: the tables take it, and it brings no homonyms.
LEMMA FreeRowsTaken ==
    ASSUME NEW cat, NEW rows, NothingTaken(cat, rows), DOMAIN rows \in SUBSET Nat,
           \A r \in Range(rows) : ~ RepeatsAlias(r)
    PROVE  ~ ConstraintsRefuse(cat, rows)
<1> DEFINE Ent(i) == [domain |-> rows[i].domain, name |-> rows[i].name]
<1>1. ASSUME NEW i \in DOMAIN rows PROVE Ent(i) \notin cat.entities
  <2>1. \A e \in cat.entities : EntityKey(rows[i]) # <<e.domain, Folded(e.name)>>
    BY DEF NothingTaken, TakenKeys
  <2>2. EntityKey(rows[i]) = <<Ent(i).domain, Folded(Ent(i).name)>>
    BY DEF EntityKey
  <2> QED
    BY <2>1, <2>2
<1>2. ASSUME NEW i \in DOMAIN rows PROVE ToSet(rows[i].aliases) \cap cat.aliases = {}
  <2>1. FoldedAliases(rows[i]) \cap TakenAliases(cat) = {}
    BY DEF NothingTaken
  <2> QED
    BY <2>1 DEF FoldedAliases, TakenAliases
<1>3. ASSUME NEW i \in DOMAIN rows PROVE ~ RepeatsAlias(rows[i])
  BY DEF Range
<1>4. ASSUME NEW i \in DOMAIN rows, NEW k \in DOMAIN rows, i < k
      PROVE  /\ ~ (rows[i].domain = rows[k].domain /\ rows[i].name = rows[k].name)
             /\ ToSet(rows[i].aliases) \cap ToSet(rows[k].aliases) = {}
  <2>1. /\ EntityKey(rows[i]) # EntityKey(rows[k])
        /\ FoldedAliases(rows[k]) \cap FoldedAliases(rows[i]) = {}
    BY <1>4 DEF NothingTaken
  <2> QED
    BY <2>1 DEF EntityKey, FoldedAliases
<1> QED
  BY <1>1, <1>2, <1>3, <1>4 DEF ConstraintsRefuse

\* The catalog with rows of a file is finite.
LEMMA AppliedFinite ==
    ASSUME NEW cat, NEW rows, NEW no, AreRows(rows),
           IsFiniteSet(cat.entities), IsFiniteSet(cat.aliases)
    PROVE  IsFiniteSet(Applied(cat, rows, no).entities)
           /\ IsFiniteSet(Applied(cat, rows, no).aliases)
<1>1. PICK S, f, g : /\ S = DOMAIN rows
                     /\ f = [i \in S |-> [domain |-> rows[i].domain, name |-> rows[i].name]]
                     /\ g = [i \in S |-> ToSet(rows[i].aliases)]
  OBVIOUS
<1>2. IsFiniteSet(S)
  BY <1>1 DEF AreRows
<1>3. /\ {[domain |-> r.domain, name |-> r.name] : r \in Range(rows)} = {f[i] : i \in S}
      /\ {ToSet(r.aliases) : r \in Range(rows)} = {g[i] : i \in S}
  BY <1>1 DEF Range
<1>4. IsFiniteSet({f[i] : i \in S}) /\ IsFiniteSet({g[i] : i \in S})
  BY <1>1, <1>2, ImageCounts
<1>5. \A T \in {g[i] : i \in S} : IsFiniteSet(T)
  BY <1>1, OwnAliasesApart DEF AreRows
<1>6. IsFiniteSet(UNION {g[i] : i \in S})
  BY <1>4, <1>5, FS_UNION
<1>7. /\ Applied(cat, rows, no).entities = cat.entities \cup {f[i] : i \in S}
      /\ Applied(cat, rows, no).aliases = cat.aliases \cup UNION {g[i] : i \in S}
  BY <1>3 DEF Applied
<1> QED
  <2>1. PICK E, A : E = {f[i] : i \in S} /\ A = UNION {g[i] : i \in S}
    OBVIOUS
  <2>2. IsFiniteSet(cat.entities \cup E) /\ IsFiniteSet(cat.aliases \cup A)
    BY <1>4, <1>6, <2>1, FS_Union
  <2> QED
    BY <1>7, <2>1, <2>2

LEMMA FreeRowsNoHomonyms ==
    ASSUME NEW cat, NEW rows, NEW no, AreRows(rows), NothingTaken(cat, rows),
           IsFiniteSet(cat.entities), IsFiniteSet(cat.aliases), NoHomonyms(cat),
           \A r \in Range(rows) : ~ OwnHomonyms(r)
    PROVE  NoHomonyms(Applied(cat, rows, no))
<1>1. Apart(cat)
  BY HomonymsAlike
<1>2. PICK after : after = Applied(cat, rows, no)
  OBVIOUS
<1>3. /\ \A e \in after.entities :
            \/ e \in cat.entities
            \/ \E i \in DOMAIN rows : e = [domain |-> rows[i].domain, name |-> rows[i].name]
      /\ \A a \in after.aliases :
            \/ a \in cat.aliases
            \/ \E i \in DOMAIN rows : a \in ToSet(rows[i].aliases)
  BY <1>2 DEF Applied, Range
<1>4. \A i \in DOMAIN rows : i \in Nat
  BY DEF AreRows
<1>5. ASSUME NEW i \in DOMAIN rows, NEW k \in DOMAIN rows, i # k
      PROVE  /\ EntityKey(rows[i]) # EntityKey(rows[k])
             /\ FoldedAliases(rows[i]) \cap FoldedAliases(rows[k]) = {}
  <2>1. i < k \/ k < i
    BY <1>4, <1>5
  <2> QED
    BY <2>1 DEF NothingTaken
<1>6. ASSUME NEW d \in after.entities, NEW e \in after.entities, FoldedKey(d) = FoldedKey(e)
      PROVE  d = e
  <2>1. ASSUME NEW i \in DOMAIN rows, NEW b \in cat.entities PROVE EntityKey(rows[i]) # FoldedKey(b)
    BY DEF NothingTaken, TakenKeys, FoldedKey
  <2>2. ASSUME NEW i \in DOMAIN rows, NEW b,
               b = [domain |-> rows[i].domain, name |-> rows[i].name]
        PROVE  FoldedKey(b) = EntityKey(rows[i])
    BY <2>2 DEF FoldedKey, EntityKey
  <2> QED
    BY <1>1, <1>3, <1>5, <1>6, <2>1, <2>2 DEF Apart
<1>7. ASSUME NEW a \in after.aliases, NEW b \in after.aliases, Folded(a) = Folded(b)
      PROVE  a = b
  <2>1. ASSUME NEW i \in DOMAIN rows, NEW x \in ToSet(rows[i].aliases), NEW y \in cat.aliases
        PROVE  Folded(x) # Folded(y)
    <3>1. FoldedAliases(rows[i]) \cap TakenAliases(cat) = {}
      BY DEF NothingTaken
    <3> QED
      BY <3>1 DEF FoldedAliases, TakenAliases
  <2>2. ASSUME NEW i \in DOMAIN rows, NEW k \in DOMAIN rows, NEW x \in ToSet(rows[i].aliases),
               NEW y \in ToSet(rows[k].aliases), Folded(x) = Folded(y)
        PROVE  x = y
    <3>1. i = k
      BY <1>5, <2>2 DEF FoldedAliases
    <3>2. /\ rows[i].aliases \in Seq(ToSet(rows[i].aliases))
          /\ ~ OwnHomonyms(rows[i])
      BY DEF AreRows, Range
    <3> QED
      BY <2>2, <3>1, <3>2, OwnAliasesApart
  <2> QED
    BY <1>1, <1>3, <1>7, <2>1, <2>2 DEF Apart
<1>8. Apart(after)
  BY <1>6, <1>7 DEF Apart
<1> QED
  BY <1>2, <1>8, AppliedFinite, HomonymsAlike

LEMMA StepsOfCatalog == [Next]_vars => [CatalogNext]_catalogVars
BY DEF Next, vars, ImportsStep, DiscoveryStep, CreateStep, MatchStep, CatalogStep,
       SessionsStep, Given

LEMMA CatalogInitially == CatalogInit => CatalogInv
<1> SUFFICES ASSUME CatalogInit PROVE CatalogInv
  OBVIOUS
<1>1. MaxVersions \in Nat
  BY CatalogConstants
<1>2. IsCatalog(catalog)
  BY <1>1, FS_EmptySet DEF CatalogInit, IsCatalog, EmptyCatalog
<1>3. PICK u : u = IdleUpload
  OBVIOUS
<1>4. IsUpload(u) /\ IsCurrent(catalog, u)
  <2>1. IsUpload(u)
    BY <1>1, <1>3 DEF IsUpload, IdleUpload, UploadWith, UploadStep, StoredFile
  <2>2. AreRows(<<>>)
    BY FS_EmptySet DEF AreRows
  <2>3. /\ u.rows = <<>> /\ u.seen = 0 /\ u.published = {} /\ u.pc = "idle"
        /\ catalog.version = 0 /\ catalog.published = {}
    BY <1>3 DEF CatalogInit, EmptyCatalog, IdleUpload
  <2> QED
    BY <2>1, <2>2, <2>3 DEF IsCurrent
<1> QED
  BY <1>2, <1>3, <1>4 DEF CatalogInit, CatalogInv

\* The updates of a request leave it one.
Carries(u, q, pc) ==
    /\ IsUpload(u) /\ u.pc = pc
    /\ u.rows = q.rows /\ u.seen = q.seen /\ u.published = q.published

LEMMA UploadSettled ==
    ASSUME NEW q, IsUpload(q), NEW pc \in UploadStep, NEW file \in StoredFile
    PROVE  /\ Carries([q EXCEPT !.pc = pc, !.file = file], q, pc)
           /\ Carries([q EXCEPT !.pc = pc], q, pc)
<1>1. PICK u : u = [q EXCEPT !.pc = pc, !.file = file]
  OBVIOUS
<1>2. PICK rows, roles :
        q \in UploadWith(rows, roles) /\ rows = q.rows /\ roles = q.published
  BY DEF IsUpload
<1>3. /\ u \in UploadWith(rows, roles) /\ u.rows = rows /\ u.published = roles
      /\ u.seen = q.seen /\ u.pc = pc
  BY <1>1, <1>2 DEF UploadWith
<1>4. Carries([q EXCEPT !.pc = pc], q, pc)
  BY DEF IsUpload, UploadWith, Carries
<1> QED
  BY <1>1, <1>2, <1>3, <1>4 DEF IsUpload, Carries

LEMMA UploadNumbered ==
    ASSUME NEW q, IsUpload(q), NEW no \in 0 .. MaxVersions + 1
    PROVE  Carries([q EXCEPT !.pc = "insert", !.no = no], q, "insert")
BY DEF IsUpload, UploadWith, UploadStep, Carries

\* What a request read stays current, or is out of date.
LEMMA VersionPassed ==
    ASSUME NEW cat, NEW after, IsCatalog(cat), IsCatalog(after), NEW u, IsUpload(u),
           IsCurrent(cat, u), Later(cat, after)
    PROVE  IsCurrent(after, u)
<1>1. /\ AreRows(u.rows) /\ u.published \subseteq after.published
      /\ u.published \subseteq cat.published /\ cat.published \subseteq after.published
  BY DEF IsCurrent, Later
<1>2. CASE cat.version < after.version
  <2>1. /\ u.seen \in 0 .. MaxVersions /\ cat.version \in 0 .. MaxVersions
        /\ after.version \in 0 .. MaxVersions /\ MaxVersions \in Nat /\ u.seen <= cat.version
    BY CatalogConstants DEF IsCatalog, IsCurrent, IsUpload, UploadWith
  <2>2. u.seen <= after.version /\ u.seen # after.version
    BY <1>2, <2>1
  <2> QED
    BY <1>1, <2>2 DEF IsCurrent
<1>3. CASE /\ after.version = cat.version /\ after.aliases = cat.aliases
           /\ after.entities \ cat.entities \subseteq after.published \ cat.published
  <2>1. ~ PublishedSince(after, u) => ~ PublishedSince(cat, u)
    BY <1>1 DEF PublishedSince
  <2>2. ASSUME NothingTaken(cat, u.rows), ~ PublishedSince(after, u) PROVE NothingTaken(after, u.rows)
    <3>1. ASSUME NEW i \in DOMAIN u.rows, NEW e \in after.entities
          PROVE  EntityKey(u.rows[i]) # EntityKey(e)
      <4>1. CASE e \in cat.entities
        BY <2>2, <4>1 DEF NothingTaken, TakenKeys, EntityKey
      <4>2. CASE e \notin cat.entities
        BY <1>1, <1>3, <2>2, <4>2 DEF PublishedSince
      <4> QED
        BY <4>1, <4>2
    <3>2. TakenAliases(after) = TakenAliases(cat)
      BY <1>3 DEF TakenAliases
    <3>3. \A i \in DOMAIN u.rows : EntityKey(u.rows[i]) \notin TakenKeys(after)
      BY <3>1 DEF TakenKeys, EntityKey
    <3> QED
      BY <2>2, <3>2, <3>3 DEF NothingTaken
  <2> QED
    BY <1>1, <1>3, <2>1, <2>2 DEF IsCurrent
<1> QED
  BY <1>2, <1>3 DEF Later

\* A request that goes on.
LEMMA UploadMoves ==
    ASSUME CatalogInv, IsCatalog(catalog'), Later(catalog, catalog'),
           NEW c \in Uploads, NEW u, IsUpload(u), IsCurrent(catalog', u),
           upload' = [upload EXCEPT ![c] = u]
    PROVE  CatalogInv'
<1>1. upload' = [d \in Uploads |-> upload'[d]] /\ upload'[c] = u
  BY DEF CatalogInv
<1>2. ASSUME NEW d \in Uploads, d # c PROVE IsUpload(upload'[d]) /\ IsCurrent(catalog', upload'[d])
  <2>1. upload'[d] = upload[d] /\ IsUpload(upload[d]) /\ IsCurrent(catalog, upload[d])
    BY <1>2 DEF CatalogInv
  <2> QED
    BY <2>1, VersionPassed DEF CatalogInv
<1> QED
  BY <1>1, <1>2 DEF CatalogInv

LEMMA CatalogStepKeeps == CatalogInv /\ [CatalogNext]_catalogVars => CatalogInv'
<1> SUFFICES ASSUME CatalogInv, [CatalogNext]_catalogVars PROVE CatalogInv'
  OBVIOUS
<1>1. IsCatalog(catalog) /\ catalog.version \in 0 .. MaxVersions /\ MaxVersions \in Nat
  BY CatalogConstants DEF CatalogInv, IsCatalog
<1>a. catalog' = catalog => Later(catalog, catalog')
  BY DEF Later
\* A publication moves no request.
<1>b. ASSUME IsCatalog(catalog'), Later(catalog, catalog'), upload' = upload
      PROVE  CatalogInv'
  <2>1. \A c \in Uploads : IsUpload(upload'[c]) /\ IsCurrent(catalog', upload'[c])
    BY <1>1, <1>b, VersionPassed DEF CatalogInv
  <2>2. upload' = [c \in Uploads |-> upload'[c]]
    BY <1>b DEF CatalogInv
  <2> QED
    BY <1>b, <2>1, <2>2 DEF CatalogInv
<1>c. /\ catalog.drafts \in 0 .. catalog.version
      /\ catalog = [domains |-> catalog.domains, entities |-> catalog.entities,
                    aliases |-> catalog.aliases, version |-> catalog.version,
                    published |-> catalog.published, drafts |-> catalog.drafts]
  BY <1>1 DEF IsCatalog
<1>2. CASE GraphVersionCreated
  <2>1. PICK V, D : V = catalog.version + 1 /\ D = catalog.drafts + 1
    OBVIOUS
  <2>2. V \in 0 .. MaxVersions /\ D \in 0 .. V /\ catalog.version < V
    BY <1>1, <1>2, <1>c, <2>1 DEF GraphVersionCreated
  <2>3. catalog' = [domains |-> catalog.domains, entities |-> catalog.entities,
                    aliases |-> catalog.aliases, version |-> V,
                    published |-> catalog.published, drafts |-> D]
    BY <1>2, <1>c, <2>1 DEF GraphVersionCreated
  <2>4. IsCatalog(catalog')
    BY <1>1, <2>2, <2>3 DEF IsCatalog
  <2>5. Later(catalog, catalog')
    BY <2>2, <2>3 DEF Later
  <2> QED
    BY <1>2, <1>b, <2>4, <2>5 DEF GraphVersionCreated
<1>8. ASSUME NEW role \in GraphRoles, RolePublished(role) PROVE CatalogInv'
  <2>1. PICK E, P, D : /\ E = catalog.entities \cup {role}
                       /\ P = catalog.published \cup {role}
                       /\ D = catalog.drafts - 1
    OBVIOUS
  <2>2. catalog' = [domains |-> catalog.domains, entities |-> E,
                    aliases |-> catalog.aliases, version |-> catalog.version,
                    published |-> P, drafts |-> D]
    BY <1>8, <1>c, <2>1 DEF RolePublished
  <2>3. IsFiniteSet(E)
    BY <1>1, <2>1, FS_AddElement DEF IsCatalog
  <2>4. IsCatalog(catalog')
    <3>1. D \in 0 .. catalog.version
      BY <1>1, <1>8, <1>c, <2>1 DEF RolePublished
    <3>2. P \subseteq E \cap GraphRoles /\ \A e \in E : e.domain \in catalog.domains
      BY <1>1, <1>8, <2>1 DEF RolePublished, IsCatalog
    <3> QED
      BY <1>1, <2>2, <2>3, <3>1, <3>2 DEF IsCatalog
  <2>5. Later(catalog, catalog')
    BY <1>1, <1>8, <2>1, <2>2 DEF IsCatalog, RolePublished, Later
  <2> QED
    BY <1>8, <1>b, <2>4, <2>5 DEF RolePublished
<1>3. ASSUME NEW c \in Uploads, FailUpload(c) PROVE CatalogInv'
  <2>1. PICK u : u = [upload[c] EXCEPT !.pc = "failed", !.file = "attached"]
    OBVIOUS
  <2>2. Carries(u, upload[c], "failed")
    BY <2>1, UploadSettled DEF CatalogInv, UploadStep, StoredFile
  <2>3. upload' = [upload EXCEPT ![c] = u] /\ UNCHANGED catalog
    BY <1>3, <2>1 DEF FailUpload
  <2> QED
    BY <1>1, <1>a, <2>2, <2>3, UploadMoves DEF CatalogInv, IsCurrent, PublishedSince, Carries
<1>4. ASSUME NEW c \in Uploads, NEW rows \in CatalogFiles,
             NEW mode \in {"validate_only", "apply"}, ValidateUpload(c, rows, mode)
      PROVE  CatalogInv'
  <2> DEFINE valid == ValidateRows(catalog, rows)
             pc == IF mode = "validate_only" THEN "validated"
                   ELSE IF valid = <<>> THEN "failed" ELSE "version"
             file == IF pc = "version" THEN "stored" ELSE "attached"
  <2>1. PICK u : u = [pc |-> pc, rows |-> valid, seen |-> catalog.version,
                      published |-> catalog.published, no |-> 0, file |-> file]
    OBVIOUS
  <2>2. upload' = [upload EXCEPT ![c] = u] /\ UNCHANGED catalog
    BY <1>4, <2>1 DEF ValidateUpload
  <2>3. pc \in UploadStep /\ file \in StoredFile
    BY DEF UploadStep, StoredFile
  <2>4. 0 \in 0 .. MaxVersions + 1 /\ catalog.version <= catalog.version
    BY <1>1
  <2>5. AreRows(valid) /\ NothingTaken(catalog, valid)
    BY ValidRowsFree
  <2> HIDE DEF pc, valid, file
  <2>6. IsUpload(u)
    BY <1>1, <2>1, <2>3, <2>4 DEF IsUpload, UploadWith
  <2>7. IsCurrent(catalog, u)
    BY <2>1, <2>4, <2>5 DEF IsCurrent
  <2> QED
    <3>1. IsCatalog(catalog') /\ IsCurrent(catalog', u)
      BY <1>1, <2>2, <2>7
    <3> QED
      BY <1>a, <2>2, <2>6, <3>1, UploadMoves
<1>5. ASSUME NEW c \in Uploads, ReadVersionNo(c) PROVE CatalogInv'
  <2>1. PICK u : u = [upload[c] EXCEPT !.pc = "insert", !.no = catalog.version + 1]
    OBVIOUS
  <2>2. catalog.version + 1 \in 0 .. MaxVersions + 1
    BY <1>1
  <2>3. Carries(u, upload[c], "insert") /\ upload[c].pc = "version"
    BY <1>5, <2>1, <2>2, UploadNumbered DEF CatalogInv, ReadVersionNo
  <2>4. upload' = [upload EXCEPT ![c] = u] /\ UNCHANGED catalog
    BY <1>5, <2>1 DEF ReadVersionNo
  <2>5. IsCatalog(catalog') /\ Later(catalog, catalog') /\ catalog' = catalog
    BY <1>1, <1>a, <2>4
  <2>6. IsCurrent(catalog, u)
    BY <2>3 DEF CatalogInv, IsCurrent, PublishedSince, Carries
  <2> QED
    BY <2>3, <2>4, <2>5, <2>6, UploadMoves DEF Carries
<1>6. ASSUME NEW c \in Uploads, InsertUpload(c) PROVE CatalogInv'
  <2>1. CASE upload[c].no <= catalog.version \/ ConstraintsRefuse(catalog, upload[c].rows)
    <3>1. PICK u : u = [upload[c] EXCEPT !.pc = "error"]
      OBVIOUS
    <3>2. Carries(u, upload[c], "error")
      BY <3>1, UploadSettled DEF CatalogInv, UploadStep, StoredFile
    <3>3. upload' = [upload EXCEPT ![c] = u] /\ UNCHANGED catalog
      BY <1>6, <2>1, <3>1 DEF InsertUpload
    <3> QED
      BY <1>1, <1>a, <3>2, <3>3, UploadMoves DEF CatalogInv, IsCurrent, PublishedSince, Carries
  <2>2. CASE ~ (upload[c].no <= catalog.version \/ ConstraintsRefuse(catalog, upload[c].rows))
    <3>1. PICK u : u = [upload[c] EXCEPT !.pc = "applied", !.file = "attached"]
      OBVIOUS
    <3>2. Carries(u, upload[c], "applied")
      BY <3>1, UploadSettled DEF CatalogInv, UploadStep, StoredFile
    <3>3. /\ upload' = [upload EXCEPT ![c] = u]
          /\ catalog' = Applied(catalog, upload[c].rows, upload[c].no)
          /\ upload[c].no <= MaxVersions /\ ~ (upload[c].no <= catalog.version)
      BY <1>6, <2>2, <3>1 DEF InsertUpload
    <3>4. upload[c].no \in 0 .. MaxVersions
      BY <1>1, <3>3 DEF CatalogInv, IsUpload, UploadWith
    <3>5. IsCatalog(catalog')
      <4>1. catalog'.version \in 0 .. MaxVersions
        BY <3>3, <3>4 DEF Applied
      <4>2. catalog' = [domains |-> catalog'.domains, entities |-> catalog'.entities,
                        aliases |-> catalog'.aliases, version |-> catalog'.version,
                        published |-> catalog'.published, drafts |-> catalog'.drafts]
        BY <3>3 DEF Applied
      <4>3. \A e \in catalog'.entities : e.domain \in catalog'.domains
        BY <1>1, <3>3 DEF Applied, IsCatalog
      <4>4. IsFiniteSet(catalog'.entities) /\ IsFiniteSet(catalog'.aliases)
        BY <1>1, <3>3, AppliedFinite DEF CatalogInv, IsCatalog, IsCurrent
      <4>5. catalog'.published \subseteq catalog'.entities \cap GraphRoles
        BY <1>1, <3>3 DEF Applied, IsCatalog
      <4>6. catalog'.drafts \in 0 .. catalog'.version
        BY <1>1, <3>3, <3>4 DEF Applied, IsCatalog
      <4> QED
        BY <4>1, <4>2, <4>3, <4>4, <4>5, <4>6 DEF IsCatalog
    <3>6. catalog.version < catalog'.version /\ catalog'.published = catalog.published
      BY <1>1, <3>3, <3>4 DEF Applied
    <3>7. IsCurrent(catalog', u)
      <4>1. /\ upload[c].seen <= catalog.version /\ upload[c].seen \in Nat
            /\ AreRows(upload[c].rows) /\ upload[c].published \subseteq catalog.published
        BY <1>1 DEF CatalogInv, IsCurrent, IsUpload, UploadWith
      <4>2. catalog'.version \in Nat
        BY <3>5, CatalogConstants DEF IsCatalog
      <4>3. u.seen <= catalog'.version
        BY <1>1, <3>2, <3>6, <4>1, <4>2 DEF Carries
      <4> QED
        BY <3>2, <3>6, <4>1, <4>3 DEF IsCurrent, Carries
    <3> QED
      BY <3>2, <3>3, <3>5, <3>6, <3>7, UploadMoves DEF Carries, Later
  <2> QED
    BY <2>1, <2>2
<1>7. CASE UNCHANGED catalogVars
  BY <1>7 DEF catalogVars, CatalogInv
<1> QED
  BY <1>2, <1>3, <1>4, <1>5, <1>6, <1>7, <1>8 DEF CatalogNext

\* What validation found free stays free for a request, until a version is
\* committed or a role is published under the name of one of its rows.
THEOREM CatalogInvariance == Spec => []CatalogInv
<1>1. Init => CatalogInv
  BY CatalogInitially DEF Init
<1> QED
  BY <1>1, StepsOfCatalog, CatalogStepKeeps, PTL DEF Spec

\* _validate_rows and _apply_rows: unless a version was committed in between, or
\* a role published under the name of a row, the tables accept every row that
\* was called valid, and no homonyms arise.
THEOREM RowsFit == Spec => []ValidatedRowsFit
<1>1. CatalogInv => ValidatedRowsFit
  <2> SUFFICES ASSUME CatalogInv, NEW c \in Uploads,
                      upload[c].pc \in {"version", "insert"},
                      upload[c].seen = catalog.version, ~ PublishedSince(catalog, upload[c])
               PROVE  /\ (\A r \in Range(upload[c].rows) : ~ RepeatsAlias(r)) =>
                            ~ ConstraintsRefuse(catalog, upload[c].rows)
                      /\ NoHomonyms(catalog) /\ (\A r \in Range(upload[c].rows) : ~ OwnHomonyms(r)) =>
                            NoHomonyms(Applied(catalog, upload[c].rows, upload[c].seen + 1))
    BY DEF ValidatedRowsFit
  <2>1. AreRows(upload[c].rows) /\ NothingTaken(catalog, upload[c].rows)
    BY DEF CatalogInv, IsCurrent
  <2>2. IsFiniteSet(catalog.entities) /\ IsFiniteSet(catalog.aliases)
    BY DEF CatalogInv, IsCatalog
  <2>3. DOMAIN upload[c].rows \in SUBSET Nat
    BY <2>1 DEF AreRows
  <2> QED
    BY <2>1, <2>2, <2>3, FreeRowsTaken, FreeRowsNoHomonyms
<1> QED
  BY <1>1, CatalogInvariance, PTL

-----------------------------------------------------------------------------
(* The algorithms, each on the inputs it is given                          *)

InputInv ==
    /\ HasInput("labels") => \E value \in LabelInputs : input = <<value>>
    /\ HasInput("row")    => \E value \in RowInputs : input = <<value>>
    /\ HasInput("rank")   => \E values \in RankInputs : input = <<values>>
    /\ HasInput("mining") => \E value \in MiningInputs : input = <<value>>
    /\ HasInput("proposal") => \E value \in ProposalInputs : input = <<value>>
    /\ HasInput("score")  => \E value \in ScoreInputs : input = <<value>>

LEMMA InputStepKeeps == InputInv /\ [Next]_vars => InputInv'
<1> SUFFICES ASSUME InputInv, [Next]_vars PROVE InputInv'
  OBVIOUS
<1>1. CASE UNCHANGED <<part, input>>
  BY <1>1 DEF InputInv, HasInput
<1>2. CASE UNCHANGED part /\ Given("labels", LabelInputs)
  BY <1>2 DEF Given, InputInv, HasInput
<1>3. CASE UNCHANGED part /\ Given("row", RowInputs)
  BY <1>3 DEF Given, InputInv, HasInput
<1>4. CASE UNCHANGED part /\ Given("rank", RankInputs)
  BY <1>4 DEF Given, InputInv, HasInput
<1>5. CASE UNCHANGED part /\ Given("mining", MiningInputs)
  BY <1>5 DEF Given, InputInv, HasInput
<1>6. CASE UNCHANGED part /\ Given("proposal", ProposalInputs)
  BY <1>6 DEF Given, InputInv, HasInput
<1>7. CASE UNCHANGED part /\ Given("score", ScoreInputs)
  BY <1>7 DEF Given, InputInv, HasInput
<1> QED
  BY <1>1, <1>2, <1>3, <1>4, <1>5, <1>6, <1>7 DEF Next, vars, Given

LEMMA InputsGiven == Spec => []InputInv
<1>1. Init => InputInv
  BY DEF Init, InputInv, HasInput
<1> QED
  BY <1>1, InputStepKeeps, PTL DEF Spec

\* resolve_capability_labels and map_skill_labels, on any catalog and labels:
\* what the one maps, the other maps to the same capability, once.
THEOREM LabelsAlwaysAgree == Spec => []LabelsAgree
<1>1. InputInv => LabelsAgree
  <2> SUFFICES ASSUME InputInv, HasInput("labels")
               PROVE  LabelsAgreeOn(input[1].catalog, input[1].labels)
    BY DEF LabelsAgree
  <2>1. PICK value \in LabelInputs : input[1] = value
    BY DEF InputInv
  <2> QED
    BY <2>1, LabelConstants, LabelsAgreeAlways
<1> QED
  BY <1>1, InputsGiven, PTL

\* normalize_row, on any row and day of collection: a plain range meets the
\* table's constraints, a low score has one of its few causes, and a month and
\* a day become the latest such day, except on 29 February.
THEOREM RowsNormalize == Spec => []RowNormalizes
<1>1. InputInv => RowNormalizes
  <2> SUFFICES ASSUME InputInv, HasInput("row")
               PROVE  RowNormalizesOn(input[1].row, input[1].anchor)
    BY DEF RowNormalizes
  <2>1. PICK value \in RowInputs : input[1] = value
    BY DEF InputInv
  <2> QED
    BY <2>1, RowConstants, RowAlwaysNormalizes
<1> QED
  BY <1>1, InputsGiven, PTL

\* rank_scored_job_roles, on any number of scored roles: the order they are read
\* in does not show in their ranking.
THEOREM RankingsSettled == Spec => []RankingIsSettled
<1>1. InputInv => RankingIsSettled
  <2> SUFFICES ASSUME InputInv, HasInput("rank")
               PROVE  RankingIsSettledOn(input[1])
    BY DEF RankingIsSettled
  <2>1. PICK values \in RankInputs : input[1] = values
    BY DEF InputInv
  <2> QED
    BY <2>1, RankConstants, RankingSettles
<1> QED
  BY <1>1, InputsGiven, PTL

\* mine_skill_pairs, on any postings and limits: the pairs kept are the first of
\* all in a total order, and every score fits the table's constraints.
THEOREM BestAreMined == Spec => []MinedAreBest
<1>1. InputInv => MinedAreBest
  <2> SUFFICES ASSUME InputInv, HasInput("mining")
               PROVE  MinedAreBestOn(input[1].jobs, input[1].support, input[1].sources,
                                     input[1].maximum)
    BY DEF MinedAreBest
  <2>1. PICK value \in MiningInputs : input[1] = value
    BY DEF InputInv
  <2>2. ArePostings(value.jobs) /\ value.maximum \in Nat
    BY MiningConstants
  <2> QED
    BY <2>1, <2>2, AlwaysBest
<1> QED
  BY <1>1, InputsGiven, PTL

\* score_profile_against_requirements, on any profile and requirements: a score
\* fits the tables' constraints and adds up, what is complete is a high match,
\* and a better profile never scores less.
THEOREM ScoresSum == Spec => []ScoresAddUp
<1>1. InputInv => ScoresAddUp
  <2> SUFFICES ASSUME InputInv, HasInput("score")
               PROVE  ScoresAddUpOn(input[1].profile, input[1].role)
    BY DEF ScoresAddUp
  <2>1. PICK value \in ScoreInputs : input[1] = value
    BY DEF InputInv
  <2> QED
    BY <2>1, ScoreConstants, ScoresAlwaysAddUp
<1> QED
  BY <1>1, InputsGiven, PTL

\* import_algorithm_job_definitions, on any capabilities and domains: what a proposal
\* requires lies in one domain, nothing is repeated, and a definition is skipped
\* exactly if no two of its required capabilities share a domain.
THEOREM ProposalsArePublishable == Spec => []ProposalsPublishable
<1>1. InputInv => ProposalsPublishable
  <2> SUFFICES ASSUME InputInv, HasInput("proposal")
               PROVE  PublishableOn(input[1].domain, input[1].required, input[1].bonus,
                                    input[1].limit)
    BY DEF ProposalsPublishable
  <2>1. PICK value \in ProposalInputs : input[1] = value
    BY DEF InputInv
  <2>2. /\ AreSkills(value.domain, value.required, value.bonus)
        /\ value.limit \in Nat /\ value.limit >= MinRequired
    BY ProposalConstants
  <2> QED
    BY <2>1, <2>2, AlwaysPublishable
<1> QED
  BY <1>1, InputsGiven, PTL

-----------------------------------------------------------------------------
\* Whichever component runs, its variables have their types.
THEOREM TypeCorrect == Spec => []TypeOK
<1>1. CreateSpec => []CreateTypeOK
  BY CreateTyped
<1>2. MatchInv => MatchTypeOK
  BY DEF MatchInv
<1>3. CatalogInv => CatalogTypeOK
  <2> SUFFICES ASSUME CatalogInv PROVE CatalogTypeOK
    OBVIOUS
  <2>1. /\ catalog.version \in 0 .. MaxVersions /\ MaxVersions \in Nat
        /\ catalog.drafts \in 0 .. catalog.version
        /\ \A e \in catalog.entities : e.domain \in catalog.domains
        /\ catalog.published \subseteq catalog.entities \cap GraphRoles
    BY CatalogConstants DEF CatalogInv, IsCatalog
  <2>2. catalog.drafts \in 0 .. MaxVersions
    BY <2>1
  <2>3. \A c \in Uploads : upload[c].published \subseteq catalog.published
    BY DEF CatalogInv, IsCurrent
  <2>4. DOMAIN upload = Uploads /\ \A c \in Uploads : IsUpload(upload[c])
    BY DEF CatalogInv
  <2>5. \A c \in Uploads :
           /\ upload[c].pc \in UploadStep /\ upload[c].file \in StoredFile
           /\ upload[c].seen \in 0 .. MaxVersions /\ upload[c].no \in 0 .. MaxVersions + 1
    BY <2>4 DEF IsUpload, UploadWith
  <2> QED
    BY <2>1, <2>2, <2>3, <2>4, <2>5 DEF CatalogTypeOK, UploadStep, StoredFile
<1>4. MarketInv => LifeTypeOK /\ ImportsTypeOK /\ DiscoveryTypeOK
  BY DEF MarketInv, ImportsInv, DiscoveryInv
<1>5. /\ LifeTypeOK /\ ImportsTypeOK /\ DiscoveryTypeOK
      /\ CreateTypeOK /\ MatchTypeOK /\ CatalogTypeOK /\ SessionsTypeOK
      => TypeOK
  BY DEF TypeOK
<1> QED
  BY <1>1, <1>2, <1>3, <1>4, <1>5, ComponentsRun, MatchInvariance, SessionsTyped,
     CatalogInvariance, MarketInvariance, PTL
=============================================================================
