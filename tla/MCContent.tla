----------------------------- MODULE MCContent -----------------------------
(***************************************************************************)
(* The content modules, for TLC: a news entry, the page groups of home and *)
(* about, a location and a legal page.  They share no row but those of the *)
(* outbox, where each uses keys of its own, so that a behaviour runs one   *)
(* of them, its subject, and the others stay where they start.  The        *)
(* configuration is that of the home page; a subject names what differs.   *)
(* A race is the same entry while a live worker can lose its lease.        *)
(***************************************************************************)
EXTENDS HomeMigration, NewsPublication, PlainContent

CONSTANTS
    c1, c2      \* members of a page

VARIABLE subject        \* what runs

homeRows == <<groupRows, seen, sources, plan>>
allVars  == <<subject, outboxVars, newsRows, homeRows, plainVars>>

----------------------------------------------------------------------------
(* News: covers are attached, one of them is cleared                       *)

AllEdits == {<<"new", "keep">>, <<"keep", "new">>, <<"keep", "clear">>}

News      == INSTANCE NewsPublication WITH MaxVersion <- 5

NewsFails == INSTANCE NewsPublication WITH
    MaxVersion <- 4, MaxAttempts <- 1, MaxFaults <- 2, Edits <- {<<"new", "keep">>}

NewsRace  == INSTANCE NewsPublication WITH
    MaxVersion <- 4, LeaseLoss <- TRUE, MaxFaults <- 2, Edits <- {<<"new", "keep">>}

----------------------------------------------------------------------------
(* Page groups: home with a video, about with two history entries          *)

HomeFails == INSTANCE HomeMigration WITH
    MaxVersion <- 6, MaxAttempts <- 1, MaxFaults <- 2, MaxSources <- 1

HomeRace  == INSTANCE HomeMigration WITH
    MaxVersion <- 6, LeaseLoss <- TRUE, MaxFaults <- 2, MaxSources <- 1

About == INSTANCE PageGroups WITH
    MaxVersion <- 6, MaxFaults <- 0, PageKey <- "about", Legacy <- FALSE, Reader <- TRUE

LegacyAbout == INSTANCE PageGroups WITH
    MaxVersion <- 6, MaxFaults <- 0, PageKey <- "about", Reader <- TRUE

\* Home has one video.
OneVideo == child'[c2].status = "absent"

----------------------------------------------------------------------------
(* Plain content, with two requests at once                                *)

Location == INSTANCE PlainContent WITH Deletable <- TRUE, MaxItemVersion <- 3

----------------------------------------------------------------------------
(* All of them                                                             *)

NewsSubjects == {"news", "news fails", "news race"}
HomeSubjects == {"home", "home fails", "home race"}
AboutSubjects == {"about", "legacy about"}

ContentInit ==
    /\ subject \in NewsSubjects \cup HomeSubjects \cup AboutSubjects \cup {"location", "legal"}
    /\ NewsInit
    /\ IF subject = "about" THEN About!GroupInit
       ELSE IF subject = "legacy about" THEN LegacyAbout!GroupInit ELSE GroupInit
    /\ SourcesInit
    /\ IF subject = "location" THEN Location!PlainInit ELSE PlainInit

ContentNext ==
    /\ UNCHANGED subject
    /\ \/ /\ \/ subject = "news" /\ News!NewsNext
             \/ subject = "news fails" /\ NewsFails!NewsNext
             \/ subject = "news race" /\ NewsRace!NewsNext
          /\ UNCHANGED <<homeRows, plainVars>>
       \/ /\ \/ /\ \/ subject = "home" /\ MigrationNext
                   \/ subject = "home fails" /\ HomeFails!MigrationNext
                   \/ subject = "home race" /\ HomeRace!MigrationNext
                /\ OneVideo
             \/ subject = "about" /\ About!GroupNext /\ UNCHANGED <<sources, plan>>
             \/ subject = "legacy about" /\ LegacyAbout!GroupNext /\ UNCHANGED <<sources, plan>>
          /\ UNCHANGED <<newsRows, plainVars>>
       \/ /\ \/ subject = "location" /\ Location!PlainNext
             \/ subject = "legal" /\ PlainNext
          /\ UNCHANGED <<outboxVars, newsRows, homeRows>>

\* What each worker goes on with.
Progress(w) ==
    /\ UNCHANGED subject
    /\ \/ /\ \/ subject = "news" /\ News!NewsProgress(w)
             \/ subject = "news fails" /\ NewsFails!NewsProgress(w)
             \/ subject = "news race" /\ NewsRace!NewsProgress(w)
          /\ UNCHANGED <<homeRows, plainVars>>
       \/ /\ \/ subject = "home" /\ GroupProgress(w)
             \/ subject = "home fails" /\ HomeFails!GroupProgress(w)
             \/ subject = "home race" /\ HomeRace!GroupProgress(w)
          /\ UNCHANGED <<newsRows, sources, plan, plainVars>>

ContentSpec ==
    /\ ContentInit /\ [][ContentNext]_allVars
    /\ \A w \in Workers : WF_allVars(Progress(w))

----------------------------------------------------------------------------
(* Properties                                                              *)

\* The values all variables of the content modules have.
ContentTypeOK ==
    /\ CASE subject = "news" -> News!NewsTypeOK
         [] subject = "news fails" -> NewsFails!NewsTypeOK
         [] subject = "news race" -> NewsRace!NewsTypeOK
         [] OTHER -> TRUE
    /\ CASE subject = "home" -> GroupTypeOK
         [] subject = "home fails" -> HomeFails!GroupTypeOK
         [] subject = "home race" -> HomeRace!GroupTypeOK
         [] subject = "about" -> About!GroupTypeOK
         [] subject = "legacy about" -> LegacyAbout!GroupTypeOK
         [] OTHER -> TRUE
    /\ IF subject = "location" THEN Location!PlainTypeOK ELSE PlainTypeOK

\* Once no editor goes on, every publication ends and every grant that was to
\* be revoked is revoked.
ContentSettles ==
    []<>(CASE subject \in NewsSubjects -> NewsSettled
           [] subject \in HomeSubjects -> Settled
           [] OTHER -> TRUE)

\* The migration of home replaces only what is public, by what was reviewed;
\* and no request takes away a locale it was not told to.
NothingIsOverwritten == [][MigrationIsReviewed /\ LocalesAreKept]_allVars
=============================================================================
