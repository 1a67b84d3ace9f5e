------------------------- MODULE TranslationPreview -------------------------
(***************************************************************************)
(* Machine translation previews.  A request reads the saved resource,      *)
(* reserves a slot in the rate counters and the cooldown row of its key in *)
(* one Postgres transaction, calls the provider, and either hands out the  *)
(* preview or gives the cooldown back.  Several requests run at once, and  *)
(* an editor may save the resource while they do.                          *)
(*                                                                         *)
(* Abstracted: a text is the version of the resource it was read from;     *)
(* the fields of a module, prompts and titles are left out; the provider's *)
(* answer is a choice between a usable result and a failure.  One resource *)
(* stands for all: counters do not depend on it and keys of different      *)
(* resources are disjoint.  A request's `now' is the time it started.      *)
(***************************************************************************)
EXTENDS Integers, FiniteSets

CONSTANTS
    Requests,      \* preview requests, each made once
    Actors,        \* editors
    ActorOf,       \* [Requests -> Actors]
    Targets,       \* target locales
    TargetOf,      \* [Requests -> Targets]
    Existing,      \* target locales that already have a saved translation
    Replacing,     \* requests with replaceExisting = true
    Deployment,    \* the scope of the counters all actors share
    Minute, Day,   \* the lengths of the two counting windows, in ticks
    Limit,         \* limits by scope kind ("actor", "deployment") and span
    Cooldown,      \* ticks between two previews of one key
    MaxTime,       \* bound: the clock
    MaxSaves,      \* bound: versions of the resource
    MaxWait,       \* bound: ticks from a request's start to its reservation
    MaxLife,       \* bound: ticks from a request's start to its end
    MaxFailures    \* bound: failed statements and crashed requests

\* What the configuration must satisfy: a day is longer than a minute and than
\* a request waits, a cooldown longer than a request waits.
ASSUME PreviewAssumption ==
    /\ IsFiniteSet(Requests)
    /\ ActorOf \in [Requests -> Actors] /\ TargetOf \in [Requests -> Targets]
    /\ Existing \subseteq Targets /\ Replacing \subseteq Requests
    /\ Deployment \notin Actors
    /\ {Minute, Day, Cooldown} \subseteq Nat \ {0}
    /\ {MaxTime, MaxWait, MaxLife, MaxFailures} \subseteq Nat /\ MaxSaves \in Nat \ {0}
    /\ MaxWait < Cooldown /\ MaxWait <= Day /\ Minute <= Day
    /\ Limit \in [{"actor", "deployment"} \X {"minute", "day"} -> Nat \ {0}]

VARIABLES
    clock,     \* wall clock
    saved,     \* version of the saved resource, 0 once it is deleted
    count,     \* translation_rate_limit rows; 0 is no row
    cooldown,  \* translation_cooldown rows by <<actor, version, locale>>
    req,       \* where each request is, and what it has read
    failures   \* failed statements and crashes so far

previewVars == <<clock, saved, count, cooldown, req, failures>>

----------------------------------------------------------------------------
(* Rows                                                                    *)

Scopes == Actors \cup {Deployment}
Spans  == {"minute", "day"}

Length(span)   == IF span = "minute" THEN Minute ELSE Day
WindowStart(span, t) == t - (t % Length(span))

LimitOf(scope, span) ==
    Limit[IF scope = Deployment THEN "deployment" ELSE "actor", span]

CooldownKeys == Actors \X (1 .. MaxSaves) \X Targets
Free == [next |-> 0, updated |-> -1]    \* no cooldown row

Key(r) == <<ActorOf[r], req[r].version, TargetOf[r]>>

\* The four counters a reservation increments.
CountersOf(r) == {<<scope, span, WindowStart(span, req[r].start)>> :
                    scope \in {Deployment, ActorOf[r]}, span \in Spans}

Unasked == [pc |-> "new", start |-> 0, expected |-> 1, version |-> 0,
         text |-> 0, outcome |-> "none", served |-> FALSE]

PreviewInit ==
    /\ clock = 0
    /\ saved = 1
    /\ count = [c \in Scopes \X Spans \X (0 .. MaxTime) |-> 0]
    /\ cooldown = [k \in CooldownKeys |-> Free]
    /\ req = [r \in Requests |-> Unasked]
    /\ failures = 0

----------------------------------------------------------------------------
(* A request.  `outcome' is set when the request is decided; the audit row *)
(* is the last thing it writes (finish).                                   *)

InFlight(r) == req[r].pc \notin {"new", "done", "crashed"}

Decide(r, pc, outcome) ==
    req' = [req EXCEPT ![r].pc = pc, ![r].outcome = outcome]

\* The editor asks with a version the resource has, or had.
Start(r) ==
    /\ req[r].pc = "new"
    /\ \E e \in 1 .. MaxSaves :
        req' = [req EXCEPT ![r].pc = "header", ![r].start = clock, ![r].expected = e]
    /\ UNCHANGED <<clock, saved, count, cooldown, failures>>

\* GetContent, GetIssue: the row with its version is read first ...
LoadHeader(r) ==
    /\ req[r].pc = "header"
    /\ IF saved = 0
       THEN Decide(r, "finish", "not_found")
       ELSE req' = [req EXCEPT ![r].pc = "text", ![r].version = saved]
    /\ UNCHANGED <<clock, saved, count, cooldown, failures>>

\* The checks made on what was read.  A missing source text is invalid.
Verdict(r, version, text) ==
    IF version # req[r].expected THEN "version_mismatch"
    ELSE IF text = 0 THEN "invalid"
    ELSE IF TargetOf[r] \in Existing /\ r \notin Replacing THEN "existing_target"
    ELSE "none"

Loaded(r, version, text) ==
    LET verdict == Verdict(r, version, text)
    IN req' = [req EXCEPT ![r].pc = IF verdict = "none" THEN "reserve" ELSE "finish",
                          ![r].version = version, ![r].text = text,
                          ![r].outcome = verdict]

\* Mutant of LoadText: the version is read after the translations.
LoadTextFirst(r) ==
    /\ req[r].pc = "text"
    /\ Loaded(r, saved, req[r].version)
    /\ UNCHANGED <<clock, saved, count, cooldown, failures>>

\* ... and its translations in a later statement, without a transaction.
LoadText(r) ==
    /\ req[r].pc = "text"
    /\ Loaded(r, req[r].version, saved)
    /\ UNCHANGED <<clock, saved, count, cooldown, failures>>

\* Mutant of WithinLimits: the counter is compared before it is incremented.
WithinLimitsBefore(r) ==
    \A c \in CountersOf(r) : count[c] <= LimitOf(c[1], c[2])

WithinLimits(r) == \A c \in CountersOf(r) : count[c] + 1 <= LimitOf(c[1], c[2])

CooledDown(r) ==
    \/ cooldown[Key(r)] = Free
    \/ cooldown[Key(r)].next <= req[r].start

\* The statements of ReserveTranslation before its commit.  A limit or a
\* running cooldown rolls all of them back.
Reserve(r) ==
    /\ req[r].pc = "reserve"
    /\ IF WithinLimits(r) /\ CooledDown(r)
       THEN LET now  == req[r].start
                kept == [k \in CooldownKeys |-> IF k = Key(r)
                            THEN [next |-> now + Cooldown, updated |-> now]
                            ELSE cooldown[k]]
            IN /\ count' = [c \in DOMAIN count |->
                    CASE c[3] < WindowStart("day", now) - 2 * Day -> 0
                      [] c \in CountersOf(r) -> count[c] + 1
                      [] OTHER -> count[c]]
               /\ cooldown' = [k \in CooldownKeys |->
                    IF kept[k].next < now - Day THEN Free ELSE kept[k]]
               /\ req' = [req EXCEPT ![r].pc = "provider"]
       ELSE /\ Decide(r, "finish", "rate_limited")
            /\ UNCHANGED <<count, cooldown>>
    /\ UNCHANGED <<clock, saved, failures>>

\* Generate, applyTitleRule and validResult: a usable translation, or one of
\* the failures (filtered, provider, timeout, unusable output, caller gone).
ProviderAnswers(r) ==
    /\ req[r].pc = "provider"
    /\ \/ Decide(r, "finish", "success")
       \/ Decide(r, "release", "failure")
    /\ UNCHANGED <<clock, saved, count, cooldown, failures>>

\* Mutant of OwnCooldown: the row is deleted by its key alone.
OwnCooldownByKey(r) == cooldown[Key(r)] # Free

OwnCooldown(r) ==
    cooldown[Key(r)] = [next |-> req[r].start + Cooldown, updated |-> req[r].start]

\* Mutant of Release: the cooldown is kept when the provider fails.
ReleaseNothing(r) ==
    /\ req[r].pc = "release"
    /\ Decide(r, "finish", req[r].outcome)
    /\ UNCHANGED <<clock, saved, count, cooldown, failures>>

\* failAfterReservation, on a context the caller cannot cancel.
Release(r) ==
    /\ req[r].pc = "release"
    /\ cooldown' = IF OwnCooldown(r) THEN [cooldown EXCEPT ![Key(r)] = Free]
                                     ELSE cooldown
    /\ Decide(r, "finish", req[r].outcome)
    /\ UNCHANGED <<clock, saved, count, failures>>

\* ReleaseTranslation fails: the request ends in an internal failure.
ReleaseFails(r) ==
    /\ req[r].pc = "release"
    /\ failures < MaxFailures
    /\ failures' = failures + 1
    /\ Decide(r, "finish", "internal_failure")
    /\ UNCHANGED <<clock, saved, count, cooldown>>

Finish(r) ==
    /\ req[r].pc = "finish"
    /\ req' = [req EXCEPT ![r].pc = "done", ![r].served = (req[r].outcome = "success")]
    /\ UNCHANGED <<clock, saved, count, cooldown, failures>>

\* RecordTranslationAudit fails: ErrAudit, and no preview.
AuditFails(r) ==
    /\ req[r].pc = "finish"
    /\ failures < MaxFailures
    /\ failures' = failures + 1
    /\ req' = [req EXCEPT ![r].pc = "done"]
    /\ UNCHANGED <<clock, saved, count, cooldown>>

\* The replica stops in the middle of a request; a call it was waiting for
\* counts as failed.
RequestCrashes(r) ==
    /\ InFlight(r)
    /\ failures < MaxFailures
    /\ failures' = failures + 1
    /\ Decide(r, "crashed", IF req[r].pc = "provider" THEN "failure" ELSE req[r].outcome)
    /\ UNCHANGED <<clock, saved, count, cooldown>>

----------------------------------------------------------------------------
(* The surroundings                                                        *)

SaveSource ==
    /\ saved \in 1 .. MaxSaves - 1
    /\ saved' = saved + 1
    /\ UNCHANGED <<clock, count, cooldown, req, failures>>

DeleteSource ==
    /\ saved > 0
    /\ saved' = 0
    /\ UNCHANGED <<clock, count, cooldown, req, failures>>

\* Statements and the provider call end in time: a request never waits for
\* its reservation as long as a cooldown lasts.
Deadline(r) == req[r].start + IF req[r].pc \in {"header", "text", "reserve"}
                              THEN MaxWait ELSE MaxLife

Tick == /\ clock < MaxTime
        /\ \A r \in Requests : InFlight(r) => clock < Deadline(r)
        /\ clock' = clock + 1
        /\ UNCHANGED <<saved, count, cooldown, req, failures>>

Step(r) ==
    \/ Start(r) \/ LoadHeader(r) \/ LoadText(r) \/ Reserve(r)
    \/ ProviderAnswers(r) \/ Release(r) \/ ReleaseFails(r) \/ Finish(r) \/ AuditFails(r)
    \/ RequestCrashes(r)

PreviewNext == SaveSource \/ DeleteSource \/ Tick \/ \E r \in Requests : Step(r)

PreviewSpec == PreviewInit /\ [][PreviewNext]_previewVars

----------------------------------------------------------------------------
(* Properties                                                              *)

Outcomes == {"none", "success", "failure", "not_found", "invalid", "rate_limited",
             "version_mismatch", "existing_target", "internal_failure"}

Request == [pc : {"new", "header", "text", "reserve", "provider", "release", "finish", "done", "crashed"},
            start : 0 .. MaxTime, expected : 1 .. MaxSaves,
            version : 0 .. MaxSaves, text : 0 .. MaxSaves,
            outcome : Outcomes, served : BOOLEAN]

PreviewTypeOK ==
    /\ clock \in 0 .. MaxTime
    /\ saved \in 0 .. MaxSaves
    /\ count \in [Scopes \X Spans \X (0 .. MaxTime) -> Nat]
    /\ \A c \in DOMAIN count : count[c] <= LimitOf(c[1], c[2])
    /\ cooldown \in [CooldownKeys -> [next : 0 .. MaxTime + Cooldown, updated : -1 .. MaxTime]]
    /\ req \in [Requests -> Request]
    /\ failures \in 0 .. MaxFailures

\* Requests that reached the provider.
Called(r) == req[r].pc = "provider" \/ req[r].outcome \in {"success", "failure", "internal_failure"}

InWindow(r, scope, span, t) ==
    /\ Called(r)
    /\ scope \in {Deployment, ActorOf[r]}
    /\ WindowStart(span, req[r].start) = t

\* The provider is never called more often than the limits allow: of all the
\* requests that started in one minute or one day, concurrent ones, failed
\* ones and crashed ones included, at most the limit of an actor reaches it,
\* and at most the limit of the deployment (ReserveTranslation).
CallsWithinLimits ==
    \A scope \in Scopes, span \in Spans, t \in 0 .. clock :
        Cardinality({r \in Requests : InWindow(r, scope, span, t)}) <= LimitOf(scope, span)

\* Two previews of one actor, version and locale that were both handed out
\* started a cooldown apart, less the time a request may wait for its
\* reservation.  A slow request that fails must not free the cooldown of a
\* later one that succeeded (ReleaseTranslation).  The full cooldown is not
\* guaranteed: a release also removes the trace of the row it had replaced,
\* and a request that started before that row ran out may reserve after it.
PreviewsAreSpaced ==
    \A r, s \in Requests :
        (r # s /\ req[r].served /\ req[s].served /\ Key(r) = Key(s)) =>
            \/ req[r].start >= req[s].start + Cooldown - MaxWait
            \/ req[s].start >= req[r].start + Cooldown - MaxWait

\* A cooldown row is there for a reason: the request that wrote it is still
\* running, ended well, crashed, or could not delete it.  A failed call costs
\* its actor no waiting time (failAfterReservation).
CooldownHasCause ==
    \A k \in CooldownKeys : cooldown[k] # Free =>
        \E r \in Requests :
            /\ req[r].version > 0 /\ Key(r) = k /\ req[r].start = cooldown[k].updated
            /\ \/ req[r].pc \in {"provider", "release", "crashed"}
               \/ req[r].outcome \in {"success", "internal_failure"}

\* A preview is never older than the version it is labelled with: the editor
\* who saves it with that version overwrites no text the provider did not see.
\* The two reads of load are not in a transaction, and what is read later can
\* only be newer.
TextNotOlder ==
    \A r \in Requests : req[r].served =>
        (req[r].text >= req[r].version /\ req[r].version = req[r].expected)

=============================================================================
