SPECIFICATION Spec
CONSTANTS
  i1 = i1 i2 = i2 l1 = l1 l2 = l2 a1 = a1 a2 = a2 w1 = w1 w2 = w2 None = None
  Issues = {i1} Locales = {l1} Assets = {a1, a2} Numbers = {1} Workers = {w1, w2}
  Owner <- OneEditionOwner
  NotifyChoices = {FALSE} MaxAttempts = 2 MaxVersion = 4 MaxFaults = 1
SYMMETRY WorkerSymmetry
\* Editors stop at the version bound, and then the outbox is worked off.
CHECK_DEADLOCK FALSE
INVARIANTS TypeOK InFlightHasEvent OpenEventIsCurrent EventsAreSerial
PROPERTIES VisibilityChangesByWorkflow FrozenInFlight PublishesAsPromised
