SPECIFICATION Spec
CONSTANTS
    Proposals = {p1, p2}
    FromDiscovery = {p1}
    Payloads <- MCPayloads
    RoleName <- MCRoleName
    CatalogRoles <- MCCatalogRoles
    CatalogName <- MCCatalogName
    Requests = {r1, r2, r3}
    Reviewers = {r1, r2}
    MaxDecisions = 3
    MaxAttempts = 2
    CrashesAllowed = TRUE
SYMMETRY Symmetry
CONSTRAINT ReviewsApart
INVARIANTS
    TypeOK
    OnePublisherPerVersion
    CurrentVersionsAgree
    PublishedIsBacked
    RoleNamesUnique
    
    ReviewHistoryExplains
    VersionsTraceToReviews
PROPERTIES
    VersionNosGrow
    PublishedIsForever
    ImplementsLedger
CHECK_DEADLOCK FALSE
