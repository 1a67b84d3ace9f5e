----------------------------- MODULE MCServices -----------------------------
(***************************************************************************)
(* The services around the editions, for TLC: site settings, translation   *)
(* previews, the content seed and the meetings.  They share no state, so   *)
(* that a behaviour runs one of them, its subject, and the others stay     *)
(* where they start.  The previews have three subjects, each with requests *)
(* of its own, and the meetings have four, each an instance with plans of  *)
(* its own; what a subject leaves out keeps another one small.             *)
(***************************************************************************)
EXTENDS SiteSettings, TranslationPreview, ContentSeed, Meetings, TLC

CONSTANTS
    alice, bob, r1, r2, r3, r4, r5, en, ja,           \* previews
    i1, i2, old, new, k1, k2,                         \* the content seed
    e1, e2, unit, hall, prayer, study, songs, same    \* meetings

VARIABLE subject    \* the service that runs

allVars == <<subject, vars, previewVars, seedVars, meetingVars>>

----------------------------------------------------------------------------
(* Translation previews                                                    *)

PreviewActors  == [r \in {r1, r2, r3, r4, r5} |-> IF r = r5 THEN bob ELSE alice]
PreviewTargets == [r \in {r1, r2, r3, r4, r5} |-> IF r = r4 THEN en ELSE ja]
PreviewLimits  == [x \in {"actor", "deployment"} \X {"minute", "day"} |->
                     IF x = <<"actor", "minute">> THEN 1 ELSE 2]

\* One actor asks for one key three times, so that cooldowns run out, are given
\* back, or are freed late.
Cooldowns ==
    /\ subject = "cooldowns"
    /\ PreviewNext
    /\ \A r \in {r4, r5} : req'[r] = Unasked
    /\ \A r \in Requests : req'[r].expected = 1
    /\ saved' = saved /\ failures' = failures

\* Two actors, two targets one of which has a translation, tight limits.
Limits ==
    /\ subject = "limits"
    /\ PreviewNext
    /\ \A r \in {r2, r3} : req'[r] = Unasked
    /\ \A r \in Requests : req'[r].expected = 1
    /\ clock' <= 2 /\ saved' < 2 /\ failures' = failures

\* Two requests while an editor saves and deletes, and a fault.
Sources ==
    /\ subject = "sources"
    /\ PreviewNext
    /\ \A r \in {r3, r4, r5} : req'[r] = Unasked
    /\ clock' <= 1

----------------------------------------------------------------------------
(* The content seed: two manifests of one version, imported at once        *)

SeedManifests == (i1 :> old @@ i2 :> new)
SeedVersions  == [m \in {old, new} |-> 1]
SeedRecords   == [m \in {old, new} |-> {k1, k2}]
SeedHashes    == (old :> [k \in {k1, k2} |-> 1] @@ new :> [k \in {k1, k2} |-> IF k = k1 THEN 1 ELSE 2])

----------------------------------------------------------------------------
(* Meetings                                                                *)

Weekly(days, at, n) ==
    [schedule |-> [type |-> "weekly", days |-> days, clock |-> at], duration |-> n]
Once(at, n) == [schedule |-> [type |-> "once", at |-> at], duration |-> n]

\* A week of two days; date 2 is shortened and date 4 is stretched.
Calendar == 0 .. 6
Lengths  == [d \in Calendar |-> CASE d = 2 -> 4 [] d = 4 -> 8 [] OTHER -> 6]
Gaps     == [d \in Calendar |-> IF d = 4 THEN 1 ELSE 2]

Kinds   == (unit :> "church_unit" @@ hall :> "resource" @@ prayer :> "meeting" @@ study :> "meeting")
Cancel  == [cancelled |-> TRUE, starts |-> same, duration |-> same]
Move    == [cancelled |-> FALSE, starts |-> 13, duration |-> 1]
NoPlans == [r \in {unit, hall, prayer, study} |-> {}]

\* A church unit and a resource.
UnitAndHall == INSTANCE Meetings WITH
    PlansOf <- [NoPlans EXCEPT ![unit] = {unit}, ![hall] = {hall, study}],
    Changes <- {}, OverrideDates <- {}, Collections <- {}, Ranges <- {}, MaxRowVersion <- 2

\* Two editors of a meeting's page.
Pages == INSTANCE Meetings WITH
    PlansOf <- [NoPlans EXCEPT ![prayer] = {Weekly({0}, 5, 4)}],
    Changes <- {Cancel}, OverrideDates <- {1}, Collections <- {songs}, Ranges <- {}

\* The lists of one meeting, with all kinds of schedule and override.
OneMeeting == INSTANCE Meetings WITH
    PlansOf <- [NoPlans EXCEPT ![prayer] = {Weekly({0, 1}, 5, 4), Weekly({1}, 5, 6), Once(11, 3)}],
    Changes <- {Cancel, Move}, OverrideDates <- {1, 4}, Collections <- {},
    Ranges <- {<<16, 20>>, <<7, 28>>, <<22, 24>>}, MaxRowVersion <- 3

\* The lists of two meetings, read one after the other.
TwoMeetings == INSTANCE Meetings WITH
    PlansOf <- [NoPlans EXCEPT ![prayer] = {Weekly({0, 1}, 5, 4)}, ![study] = {Weekly({1}, 5, 6)}],
    Changes <- {Cancel, Move}, OverrideDates <- {4}, Collections <- {},
    Ranges <- {<<7, 28>>}, MaxRowVersion <- 2

ASSUME UnitAndHall!ValidInputs /\ Pages!ValidInputs
ASSUME OneMeeting!ValidInputs /\ TwoMeetings!ValidInputs

MeetingSubjects == {"records", "pages", "one meeting", "two meetings"}

MeetingStep ==
    /\ \/ subject = "records" /\ UnitAndHall!MeetingsNext
       \/ subject = "pages" /\ Pages!MeetingsNext
       \/ subject = "one meeting" /\ OneMeeting!MeetingsNext
       \/ subject = "two meetings" /\ TwoMeetings!MeetingsNext
    /\ subject # "pages" => editor'[e2] = Blank
    /\ subject \in {"pages", "one meeting"} => created'[k2] = NoRow

----------------------------------------------------------------------------
(* All of them                                                             *)

ServicesInit ==
    /\ subject \in {"settings", "cooldowns", "limits", "sources", "seed"} \cup MeetingSubjects
    /\ Init /\ PreviewInit /\ SeedInit /\ MeetingsInit

ServicesNext ==
    /\ UNCHANGED subject
    /\ \/ subject = "settings" /\ Next /\ UNCHANGED <<previewVars, seedVars, meetingVars>>
       \/ (Cooldowns \/ Limits \/ Sources) /\ UNCHANGED <<vars, seedVars, meetingVars>>
       \/ subject = "seed" /\ SeedNext /\ UNCHANGED <<vars, previewVars, meetingVars>>
       \/ MeetingStep /\ UNCHANGED <<vars, previewVars, seedVars>>

\* The fairness of the content seed: an importer that holds its lock goes on.
ServicesSpec ==
    /\ ServicesInit /\ [][ServicesNext]_allVars
    /\ \A i \in Importers :
         WF_allVars(subject = "seed" /\ Import(i)
                    /\ UNCHANGED <<subject, vars, previewVars, meetingVars>>)

\* The values all variables of the services have.
ServicesTypeOK ==
    /\ TypeOK /\ PreviewTypeOK /\ SeedTypeOK
    /\ CASE subject = "records" -> UnitAndHall!MeetingsTypeOK
         [] subject = "one meeting" -> OneMeeting!MeetingsTypeOK
         [] subject = "two meetings" -> TwoMeetings!MeetingsTypeOK
         [] OTHER -> Pages!MeetingsTypeOK

=============================================================================
