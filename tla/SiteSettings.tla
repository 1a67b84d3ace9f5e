---------------------------- MODULE SiteSettings ----------------------------
(***************************************************************************)
(* The settings of the site: one row with external links, five locale      *)
(* rows, a revision for every version, and one public layout per locale.   *)
(* Editors read the settings in two statements without a transaction and   *)
(* later save, publish, unpublish or restore with the version they read;   *)
(* each of these is one transaction that locks the row.                    *)
(*                                                                         *)
(* Abstracted: the external links are one value, the locale rows another,  *)
(* named by the version they were written with; a content is the pair.     *)
(* That a content is complete (NormalizeWriteInput) is left out: the seed, *)
(* Save and Restore store only complete contents, so that the check in     *)
(* Publish never fails.                                                    *)
(***************************************************************************)
EXTENDS Integers

CONSTANTS
    Editors,      \* clients of the admin API
    Locales,      \* the supported locales
    MaxVersion    \* bound: versions of the settings

ASSUME SettingsAssumption == MaxVersion \in Nat \ {0} /\ Locales # {}

VARIABLES
    row,       \* site_setting_set: status, version, links
    texts,     \* site_setting_locale rows
    revision,  \* site_setting_revision rows, by version; 0 is no row
    layout,    \* public_projection rows site_layout:<locale>
    client     \* what each editor has read

vars == <<row, texts, revision, layout, client>>

----------------------------------------------------------------------------
(* Rows                                                                    *)

Versions == 1 .. MaxVersion
Statuses == {"draft", "published", "unpublished"}
Contents == [links : Versions, texts : Versions]

NoRevision == [type |-> "none", content |-> [links |-> 1, texts |-> 1]]
NoLayout   == [version |-> 0, content |-> [links |-> 1, texts |-> 1]]
Away       == [pc |-> "away", version |-> 0, content |-> [links |-> 1, texts |-> 1]]

Content == [links |-> row.links, texts |-> texts]

Public == \E l \in Locales : layout[l] # NoLayout

\* The state the content seed leaves behind.
Init ==
    /\ row = [status |-> "draft", version |-> 1, links |-> 1]
    /\ texts = 1
    /\ revision = [v \in Versions |->
          IF v = 1 THEN [type |-> "seeded", content |-> [links |-> 1, texts |-> 1]]
                   ELSE NoRevision]
    /\ layout = [l \in Locales |-> NoLayout]
    /\ client = [e \in Editors |-> Away]

----------------------------------------------------------------------------
(* Reading: the row first, the locale rows in a second statement.          *)

ReadRow(e) ==
    /\ client[e].pc = "away"
    /\ client' = [client EXCEPT ![e] = [pc |-> "reading", version |-> row.version,
                     content |-> [links |-> row.links, texts |-> 1]]]
    /\ UNCHANGED <<row, texts, revision, layout>>

\* Mutant of ReadTexts: the version comes from the second statement.
ReadTextsAndVersion(e) ==
    /\ client[e].pc = "reading"
    /\ client' = [client EXCEPT ![e] = [pc |-> "ready", version |-> row.version,
                     content |-> [links |-> client[e].content.links, texts |-> texts]]]
    /\ UNCHANGED <<row, texts, revision, layout>>

ReadTexts(e) ==
    /\ client[e].pc = "reading"
    /\ client' = [client EXCEPT ![e] = [pc |-> "ready", version |-> client[e].version,
                     content |-> [links |-> client[e].content.links, texts |-> texts]]]
    /\ UNCHANGED <<row, texts, revision, layout>>

----------------------------------------------------------------------------
(* Writing.  lockSiteSettings compares the version the editor sends; a     *)
(* refused request changes nothing, and the editor reads again.            *)

Locked(e) ==
    /\ client[e].pc = "ready"
    /\ client[e].version = row.version
    /\ row.version < MaxVersion

Leave(e) == client' = [client EXCEPT ![e] = Away]

Refused(e) ==
    /\ client[e].pc = "ready"
    /\ client[e].version # row.version
    /\ Leave(e)
    /\ UNCHANGED <<row, texts, revision, layout>>

\* The next version with its revision.
Advance(status, type, content) ==
    /\ row' = [status |-> status, version |-> row.version + 1, links |-> content.links]
    /\ texts' = content.texts
    /\ revision' = [revision EXCEPT ![row.version + 1] = [type |-> type, content |-> content]]

\* Editors keep or change the links and the texts they have read.
Save(e) ==
    /\ Locked(e)
    /\ \E links \in {client[e].content.links, row.version + 1},
          newTexts \in {client[e].content.texts, row.version + 1} :
            Advance("draft", "draft_saved", [links |-> links, texts |-> newTexts])
    /\ Leave(e)
    /\ UNCHANGED layout

\* Mutant of Publish: only one locale's layout is replaced.
PublishOneLocale(e) ==
    /\ Locked(e)
    /\ Advance("published", "published", Content)
    /\ LET one == CHOOSE l \in Locales : TRUE
       IN layout' = [layout EXCEPT ![one] =
                        [version |-> row.version + 1, content |-> Content]]
    /\ Leave(e)

Publish(e) ==
    /\ Locked(e)
    /\ Advance("published", "published", Content)
    /\ layout' = [l \in Locales |-> [version |-> row.version + 1, content |-> Content]]
    /\ Leave(e)

\* Mutant of Unpublish: the layouts are left behind.
UnpublishRowOnly(e) ==
    /\ Locked(e)
    /\ Public
    /\ Advance("unpublished", "unpublished", Content)
    /\ Leave(e)
    /\ UNCHANGED layout

Unpublish(e) ==
    /\ Locked(e)
    /\ Public
    /\ Advance("unpublished", "unpublished", Content)
    /\ layout' = [l \in Locales |-> NoLayout]
    /\ Leave(e)

Restore(e) ==
    /\ Locked(e)
    /\ \E v \in Versions :
        /\ revision[v] # NoRevision
        /\ Advance("draft", "restored_to_draft", revision[v].content)
    /\ Leave(e)
    /\ UNCHANGED layout

Next == \E e \in Editors :
    \/ ReadRow(e) \/ ReadTexts(e) \/ Refused(e)
    \/ Save(e) \/ Publish(e) \/ Unpublish(e) \/ Restore(e)

Spec == Init /\ [][Next]_vars

----------------------------------------------------------------------------
(* Properties                                                              *)

RevisionTypes == {"none", "seeded", "draft_saved", "published", "unpublished",
                  "restored_to_draft"}

TypeOK ==
    /\ row \in [status : Statuses, version : Versions, links : Versions]
    /\ texts \in Versions
    /\ revision \in [Versions -> [type : RevisionTypes, content : Contents]]
    /\ layout \in [Locales -> [version : 0 .. MaxVersion, content : Contents]]
    /\ client \in [Editors -> [pc : {"away", "reading", "ready"},
                               version : 0 .. MaxVersion, content : Contents]]

\* No lost update: whoever holds the current version has seen the current
\* links and the current texts, although the two were read in two statements;
\* what a save overwrites is what its editor saw (loadSiteSettings,
\* lockSiteSettings).
ReadIsCurrent ==
    \A e \in Editors :
        client[e].pc = "ready" /\ client[e].version = row.version =>
            client[e].content = Content

\* Visitors of all locales see one publication: either no layout is public, or
\* the layouts of all locales come from one version, one that was published
\* with exactly that content, and not from a draft saved since (Publish,
\* Unpublish, Save, Restore).
LayoutIsOnePublication ==
    \A l \in Locales :
        /\ layout[l].version = 0 <=> layout[l] = NoLayout
        /\ \A m \in Locales : layout[l] = layout[m]
        /\ layout[l].version # 0 =>
            revision[layout[l].version] =
                [type |-> "published", content |-> layout[l].content]

\* The status tells what visitors see: published settings are public in every
\* locale, with the content of the row; unpublished settings in none.
StatusIsVisible ==
    /\ row.status = "published" =>
        \A l \in Locales : layout[l] = [version |-> row.version, content |-> Content]
    /\ row.status = "unpublished" => ~Public

\* Every version can be restored: the revisions are those of the versions so
\* far, without a gap, and the newest is what the rows contain.
EveryVersionIsRecorded ==
    /\ \A v \in Versions : v <= row.version <=> revision[v].type # "none"
    /\ revision[row.version].content = Content

=============================================================================
