\* The content modules, one after the other: what the subjects share, and what
\* is that of home or of a legal page.
CONSTANTS
    c1 = c1  c2 = c2
    \* the outbox
    Workers = {w1, w2}  LeaseLoss = FALSE  MaxAttempts = 2
    MaxVersion = 7  MaxFaults = 1
    \* news
    Edits <- AllEdits
    \* page groups
    PageKey = "home"  Legacy = TRUE  Children = {c1, c2}  Reader = FALSE  MaxSources = 2
    \* locations and legal pages
    Requests = {q1, q2}  Locales = {en, ja}  Deletable = FALSE  MaxItemVersion = 4
SPECIFICATION ContentSpec
INVARIANTS
    ContentTypeOK
    CoverGrantsFit BannerGrantsFit
    ManifestsMatchMembers GroupPublishesWhatWasSeen GroupRevisionsAreRestorable
    PublicContentIsComplete
PROPERTIES
    NothingIsOverwritten
    ContentSettles
\* All versions are used up in the end.
CHECK_DEADLOCK FALSE
