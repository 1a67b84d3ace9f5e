--------------------------- MODULE HomeMigration ---------------------------
(***************************************************************************)
(* The migration of the home page from home.v1 to home.v2, run beside the  *)
(* editors of the page, its videos, the site settings and the locations:   *)
(* an operator plans it, reviews the plan and applies it with the hashes   *)
(* of the plan.  The converted texts are a function of the public text of  *)
(* the page and of its sources, the published site settings and locations, *)
(* and the two hashes one of everything the plan was made from.            *)
(***************************************************************************)
EXTENDS PageGroups

CONSTANT MaxSources     \* bound: versions of the sources

VARIABLES
    sources,    \* site settings and locations: version, whether it is published
    plan        \* the reviewed plan

migrationVars == <<groupVars, sources, plan>>

NoPlan == [home |-> 0, sources |-> 0, text |-> <<0, 0>>]

\* Site settings or locations are edited, and published.
EditSources ==
    /\ sources.ver < MaxSources
    /\ sources' = [ver |-> sources.ver + 1, published |-> FALSE]

PublishSources ==
    /\ sources.ver < MaxSources
    /\ sources' = [ver |-> sources.ver + 1, published |-> TRUE]

\* BuildPlan of the rows as they are.
Plan == [home |-> pageProj.ver, sources |-> sources.ver,
         text |-> <<pageProj.body.text[1], sources.ver>>]

\* Mutant of CanPlan: the draft may be any.
CanPlanAnyDraft == /\ pageProj.body.template = "home.v1" /\ sources.published
                   /\ page.status \notin InFlight

\* loadSnapshot and BuildPlan refuse a home that is not public as home.v1, that
\* was edited since, and a home.v2 draft that is not the next version.
CanPlan ==
    /\ pageProj.body.template = "home.v1" /\ sources.published
    /\ \/ page.body.template = "home.v1" /\ page.status = "published" /\ page.ver = pageProj.ver
       \/ page.body.template = "home.v2" /\ page.status = "draft" /\ page.ver = pageProj.ver + 1

PlanMigration ==
    /\ CanPlan
    /\ plan' = Plan
    /\ UNCHANGED <<groupRows, sources>>

\* Apply plans again, in a serializable transaction, and compares the hashes.
\* A home.v2 draft that is the target already is left alone, any other refused.
ApplyMigration ==
    /\ CanPlan
    /\ plan = Plan
    /\ page.body.template = "home.v1" /\ page.ver < MaxVersion
    /\ page' = [Status("draft") EXCEPT !.body =
                    [template |-> "home.v2", text |-> Plan.text, banner |-> 0]]
    /\ InsertPageRevision
    /\ UNCHANGED <<child, childRev, manifest, pageProj, childProj, sources, plan>>

SourcesInit ==
    /\ sources = [ver |-> 1, published |-> TRUE]
    /\ plan = NoPlan

MigrationNext ==
    \/ GroupNext /\ UNCHANGED <<sources, plan>>
    \/ /\ \/ (EditSources \/ PublishSources) /\ UNCHANGED <<groupRows, plan>>
          \/ PlanMigration
          \/ ApplyMigration
       /\ UNCHANGED <<seen, outboxVars>>

MigrationSpec == GroupInit /\ SourcesInit /\ [][MigrationNext]_migrationVars

\* A migration replaces only a text that is public, and by the text that was
\* reviewed, made from the sources that are public then.
MigrationIsReviewed ==
    ApplyMigration =>
        /\ page.body.text = pageProj.body.text /\ page.body.template = pageProj.body.template
        /\ \A c \in Children : child[c].status \notin {"draft", "pending_removal"}
        /\ page'.body.text = plan.text
=============================================================================
