\* The services around the editions, one at a time, with two editors of the
\* site settings and two locales.
CONSTANTS
    alice = alice  bob = bob  r1 = r1  r2 = r2  r3 = r3  r4 = r4  r5 = r5  en = en  ja = ja
    i1 = i1  i2 = i2  old = old  new = new  k1 = k1  k2 = k2
    e1 = e1  e2 = e2  unit = unit  hall = hall  prayer = prayer  study = study
    songs = songs  same = same
    \* site settings
    Editors = {e1, e2}  Locales = {en, ja}  MaxVersion = 4
    \* previews
    Requests = {r1, r2, r3, r4, r5}  Actors = {alice, bob}  Targets = {en, ja}
    ActorOf <- PreviewActors  TargetOf <- PreviewTargets  Limit <- PreviewLimits
    Existing = {en}  Replacing = {r4}  Deployment = deployment
    Minute = 1  Day = 2  Cooldown = 3
    MaxTime = 4  MaxSaves = 2  MaxWait = 1  MaxLife = 3  MaxFailures = 1
    \* the content seed
    Importers = {i1, i2}  Manifests = {old, new}  Keys = {k1, k2}
    ManifestOf <- SeedManifests  VersionOf <- SeedVersions
    RecordsOf <- SeedRecords  HashOf <- SeedHashes
    Editor = editor  None = none  MaxRuns = 3  MaxFaults = 1
    \* meetings: what the subjects share
    Dates <- Calendar  DayLength <- Lengths  Week = 2  Standard = 6  Gap <- Gaps  Same = same
    Rows = {unit, hall, prayer, study}  KindOf <- Kinds  IdemKeys = {k1, k2}
    Sessions = {e1, e2}  NoRow = none  PlansOf <- NoPlans  Changes = {}  OverrideDates = {}
    Collections = {}  Ranges = {}  MaxRowVersion = 4
SPECIFICATION ServicesSpec
INVARIANTS
    ServicesTypeOK
    ReadIsCurrent LayoutIsOnePublication StatusIsVisible
    CallsWithinLimits PreviewsAreSpaced CooldownHasCause TextNotOlder
    AllOrNothing ReportedIsApplied
    AcceptedEditsAreInformed OverridesStayBehind OccurrencesAreExact WindowsAreExact
PROPERTIES LocksAreReleased
CHECK_DEADLOCK FALSE
