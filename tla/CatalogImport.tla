---------------------------- MODULE CatalogImport ----------------------------
(***************************************************************************)
(* Importing a file of capabilities or of job roles into the catalog.  A   *)
(* request validates the rows against what it reads of the catalog, reads  *)
(* the highest version number, and inserts a version, domains, entities    *)
(* and aliases in one transaction.  Publication inserts into the catalog,  *)
(* too: a version when a graph version is created, and much later, without *)
(* another version, the job role of the one it publishes.                  *)
(*                                                                         *)
(* The entities of the other type lie in other tables, of the same form.   *)
(* No role is published into those of the capabilities.                    *)
(* A name and an alias are <<folded, spelling>>: validation compares what  *)
(* casefold makes of them, the unique constraints compare them exactly.    *)
(***************************************************************************)
EXTENDS Naturals, FiniteSets, SequencesExt

CONSTANTS
    Uploads,       \* concurrent requests
    CatalogFiles,  \* the files: sequences of rows
    GraphRoles,    \* the job roles graph versions publish: [domain, name]
    MaxVersions    \* bound: catalog versions

\* A file is a list of rows, and a row holds a list of aliases.
ASSUME CatalogConstants ==
    /\ MaxVersions \in Nat
    /\ \A role \in GraphRoles : role = [domain |-> role.domain, name |-> role.name]
    /\ \A file \in CatalogFiles :
          /\ file \in Seq(ToSet(file))
          /\ \A row \in ToSet(file) : row.aliases \in Seq(ToSet(row.aliases))

VARIABLES
    catalog,   \* what is committed
    upload     \* what each request has read and does next

catalogVars == <<catalog, upload>>

NoDomain == "none"
Folded(text) == text[1]

\* entities: [domain, name]; aliases: the texts; version: the highest number;
\* published: the entities that are published roles; drafts: how many graph
\* versions have not published theirs.
EmptyCatalog == [domains |-> {}, entities |-> {}, aliases |-> {}, version |-> 0,
                 published |-> {}, drafts |-> 0]

\* rows: the valid rows; seen, published: the version and the published roles
\* of the catalog they were validated against; no: the number of the version to
\* insert; file: of the stored file.
IdleUpload == [pc |-> "idle", rows |-> <<>>, seen |-> 0, published |-> {}, no |-> 0,
               file |-> "none"]

CatalogTypeOK ==
    /\ catalog.version \in 0 .. MaxVersions
    /\ \A e \in catalog.entities : e.domain \in catalog.domains
    /\ catalog.published \subseteq catalog.entities \cap GraphRoles
    /\ catalog.drafts \in 0 .. MaxVersions
    /\ DOMAIN upload = Uploads
    /\ \A c \in Uploads :
          /\ upload[c].pc \in {"idle", "version", "insert", "failed", "validated",
                               "applied", "error"}
          /\ upload[c].seen \in 0 .. MaxVersions
          /\ upload[c].published \subseteq catalog.published
          /\ upload[c].no \in 0 .. MaxVersions + 1
          /\ upload[c].file \in {"none", "stored", "attached"}

CatalogInit ==
    /\ catalog = EmptyCatalog
    /\ upload = [c \in Uploads |-> IdleUpload]

-----------------------------------------------------------------------------
(* Validation.  A row is [domain, named, name, aliases]: its domain's code, *)
(* whether it has a domain_name, its canonical name and its list of aliases. *)

\* _aliases drops what a JSON array repeats; a text split at its separators
\* keeps repetitions, so a list may hold the same alias twice.
EntityKey(row) == <<row.domain, Folded(row.name)>>

TakenKeys(cat)    == {<<e.domain, Folded(e.name)>> : e \in cat.entities}
TakenAliases(cat) == {Folded(a) : a \in cat.aliases}
FoldedAliases(row) == {Folded(a) : a \in ToSet(row.aliases)}

\* The domains a file names itself: a name anywhere in it counts for all rows.
NamedDomains(rows) == {rows[i].domain : i \in {i \in DOMAIN rows : rows[i].named}}

\* Mutant: the aliases of other rows of the file are not looked at.
AliasFreeInCatalog(cat, earlier, row) ==
    FoldedAliases(row) \cap TakenAliases(cat) = {}

\* No alias is taken, by the catalog or by an earlier row of the file.
AliasesFree(cat, earlier, row) ==
    /\ FoldedAliases(row) \cap TakenAliases(cat) = {}
    /\ \A e \in earlier : FoldedAliases(row) \cap FoldedAliases(e) = {}

RowFits(cat, rows, earlier, row) ==
    /\ row.domain # NoDomain
    /\ row.domain \in cat.domains \cup NamedDomains(rows)
    /\ EntityKey(row) \notin TakenKeys(cat)
    /\ \A e \in earlier : EntityKey(e) # EntityKey(row)
    /\ AliasesFree(cat, earlier, row)

\* A row is valid if it fits what the valid rows before it leave.
Validated(cat, rows, valid) ==
    \A i \in DOMAIN rows :
        i \in valid <=> RowFits(cat, rows, {rows[k] : k \in {k \in valid : k < i}}, rows[i])

\* _validate_rows: the valid rows, by their row number.
ValidateRows(cat, rows) ==
    LET valid == CHOOSE valid \in SUBSET DOMAIN rows : Validated(cat, rows, valid)
    IN  [i \in valid |-> rows[i]]

-----------------------------------------------------------------------------
(* Insertion                                                               *)

RepeatsAlias(row) == Cardinality(ToSet(row.aliases)) < Len(row.aliases)

\* What the constraints of the tables refuse.
ConstraintsRefuse(cat, rows) ==
    \/ \E i \in DOMAIN rows :
          \/ [domain |-> rows[i].domain, name |-> rows[i].name] \in cat.entities
          \/ ToSet(rows[i].aliases) \cap cat.aliases # {}
          \/ RepeatsAlias(rows[i])
    \/ \E i, k \in DOMAIN rows : i < k /\
          \/ rows[i].domain = rows[k].domain /\ rows[i].name = rows[k].name
          \/ ToSet(rows[i].aliases) \cap ToSet(rows[k].aliases) # {}

\* Mutant: a domain the catalog does not know is not created.
AppliedToKnown(cat, rows, no) ==
    [domains  |-> cat.domains,
     entities |-> cat.entities
                    \cup {[domain |-> r.domain, name |-> r.name] : r \in Range(rows)},
     aliases  |-> cat.aliases \cup UNION {ToSet(r.aliases) : r \in Range(rows)},
     version  |-> no, published |-> cat.published, drafts |-> cat.drafts]

\* The catalog with the rows, as version no.
Applied(cat, rows, no) ==
    [domains  |-> cat.domains \cup {r.domain : r \in Range(rows)},
     entities |-> cat.entities
                    \cup {[domain |-> r.domain, name |-> r.name] : r \in Range(rows)},
     aliases  |-> cat.aliases \cup UNION {ToSet(r.aliases) : r \in Range(rows)},
     version  |-> no, published |-> cat.published, drafts |-> cat.drafts]

-----------------------------------------------------------------------------
(* A request                                                               *)

\* A file that cannot be parsed: a failed import with one error row.
FailUpload(c) ==
    /\ upload[c].pc = "idle"
    /\ upload' = [upload EXCEPT ![c].pc = "failed", ![c].file = "attached"]
    /\ UNCHANGED catalog

\* save_stream, the flush of the stored file and of the import, reading the
\* file and validating its rows.  validate_only and a file without a valid row
\* are committed at once and change no catalog.
ValidateUpload(c, rows, mode) ==
    LET valid == ValidateRows(catalog, rows)
        pc == IF mode = "validate_only" THEN "validated"
              ELSE IF DOMAIN valid = {} THEN "failed" ELSE "version"
    IN  /\ upload[c].pc = "idle"
        /\ upload' = [upload EXCEPT ![c] =
              [pc |-> pc, rows |-> valid, seen |-> catalog.version,
               published |-> catalog.published, no |-> 0,
               file |-> IF pc = "version" THEN "stored" ELSE "attached"]]
        /\ UNCHANGED catalog

\* _apply_rows reads the highest committed version number ...
ReadVersionNo(c) ==
    /\ upload[c].pc = "version"
    /\ upload' = [upload EXCEPT ![c].pc = "insert", ![c].no = catalog.version + 1]
    /\ UNCHANGED catalog

\* ... and inserts.  Whoever inserts a number second waits for the first to
\* commit or to give up, so that insertions do not interleave.  A refusal
\* ends the request with an error and leaves the file on the disk: only
\* the commit, not the flushes, removes it.
InsertUpload(c) ==
    LET u == upload[c]
    IN  /\ u.pc = "insert"
        /\ u.no <= MaxVersions
        /\ IF u.no <= catalog.version \/ ConstraintsRefuse(catalog, u.rows)
           THEN /\ upload' = [upload EXCEPT ![c].pc = "error"]
                /\ UNCHANGED catalog
           ELSE /\ catalog' = Applied(catalog, u.rows, u.no)
                /\ upload' = [upload EXCEPT ![c].pc = "applied",
                                            ![c].file = "attached"]

\* create_graph_version inserts a catalog version.
GraphVersionCreated ==
    /\ catalog.version < MaxVersions
    /\ catalog' = [catalog EXCEPT !.version = @ + 1, !.drafts = @ + 1]
    /\ UNCHANGED upload

\* The commit of _finalize_graph_version inserts the job role, in a domain
\* there is, without a version; a role that is there ends it with an error.
RolePublished(role) ==
    /\ catalog.drafts > 0
    /\ role.domain \in catalog.domains
    /\ role \notin catalog.entities
    /\ catalog' = [catalog EXCEPT !.entities = @ \cup {role},
                                  !.published = @ \cup {role}, !.drafts = @ - 1]
    /\ UNCHANGED upload

CatalogNext ==
    \/ GraphVersionCreated
    \/ \E role \in GraphRoles : RolePublished(role)
    \/ \E c \in Uploads :
          \/ \E rows \in CatalogFiles, mode \in {"validate_only", "apply"} :
                ValidateUpload(c, rows, mode)
          \/ FailUpload(c)
          \/ ReadVersionNo(c)
          \/ InsertUpload(c)

-----------------------------------------------------------------------------
\* No two entities and no two aliases that differ by their spelling only.
NoHomonyms(cat) ==
    /\ Cardinality(TakenKeys(cat)) = Cardinality(cat.entities)
    /\ Cardinality(TakenAliases(cat)) = Cardinality(cat.aliases)

\* Aliases of one row that differ by their spelling, or not even by that, are
\* not looked at by the validation.
OwnHomonyms(row) == Cardinality(FoldedAliases(row)) < Len(row.aliases)

\* A role published since the validation has the name of one of the rows.
PublishedSince(cat, u) ==
    \E i \in DOMAIN u.rows, e \in cat.published \ u.published :
        EntityKey(u.rows[i]) = EntityKey(e)

\* Validation keeps its promise to the insertion: as long as nobody has
\* committed a version since, or published a role under the name of a row, the
\* tables accept every row it called valid, and hold no homonyms afterwards if
\* they held none before - but for what a row does to itself.  Nothing but a
\* published role of that very name gets past the version number.
ValidatedRowsFit ==
    \A c \in Uploads :
        LET u == upload[c]
        IN  /\ u.pc \in {"version", "insert"} /\ u.seen = catalog.version
            /\ ~ PublishedSince(catalog, u)
            =>
            /\ (\A r \in Range(u.rows) : ~ RepeatsAlias(r)) =>
                  ~ ConstraintsRefuse(catalog, u.rows)
            /\ NoHomonyms(catalog) /\ (\A r \in Range(u.rows) : ~ OwnHomonyms(r)) =>
                  NoHomonyms(Applied(catalog, u.rows, u.seen + 1))
=============================================================================
