-------------------------- MODULE MCGraphPublication --------------------------
(***************************************************************************)
(* Values of the constants of GraphPublication for TLC.                    *)
(***************************************************************************)
EXTENDS GraphPublication, TLC

\* Two definitions; d1 and d2 name different roles, so two proposals collide
\* exactly when they carry the same definition.
MCPayloads == {"d1", "d2"}
MCRoleName == [d1 |-> <<"backend engineer", "backend engineer">>,
               d2 |-> <<"data engineer", "data engineer">>]

\* A catalog file with one job role, which collides with definition d1.
MCCatalogRoles == {"c1"}
MCCatalogName == [c \in MCCatalogRoles |-> <<"backend engineer", "backend engineer">>]

\* No catalog file: a function of empty domain names its roles.
NoCatalogRoles == {}
NoCatalogName == [c \in NoCatalogRoles |-> <<>>]

\* Reviewers are interchangeable, and so are the requests that do not review.
Symmetry == Permutations(Requests \ Reviewers) \cup Permutations(Reviewers)

\* Bound: a proposal that is decided on more than once is alone, since neither
\* another proposal nor an imported role plays a part in reviews.
DecisionsOn(p) ==
    Len(decisions[p]) + Cardinality({r \in Requests : req[r].pc = "decide" /\ req[r].prop = p})
ReviewsApart ==
    \A p \in Proposals : DecisionsOn(p) > 1 =>
        Imported = {} /\ \A q \in Proposals \ {p} : reviewStatus[q] = "absent"
=============================================================================
