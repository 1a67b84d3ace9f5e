--------------------------- MODULE ContentProofs ---------------------------
(***************************************************************************)
(* Proofs about the page groups and about news, for any number of members, *)
(* versions, workers and faults.  Of the groups, with the migration of     *)
(* home beside them: what is public is what the latest publication         *)
(* decided, revisions can be restored, the members an editor read are      *)
(* those a publication with the version that was read takes, and the       *)
(* migration replaces what was reviewed.  Of both: as long as no worker    *)
(* loses its lease, public images are served under live grants, and every  *)
(* live grant is recorded or something is to revoke it.  Last, the types   *)
(* of both, and that a news entry implements the lifecycle of an edition.  *)
(***************************************************************************)
EXTENDS HomeMigration, NewsPublication, TLAPS

----------------------------------------------------------------------------
(* The invariant                                                           *)

MemberStatuses == {"absent", "deleted", "draft", "published", "unpublished", "pending_removal"}
MemberRows     == [status : MemberStatuses, ver : Nat, text : Nat]

\* A member, its revisions and its public row.  Only the removal of a member by
\* a publication is a version without a revision.
MemberOK(c) ==
    /\ child[c] \in MemberRows
    /\ \A v \in DOMAIN childRev[c] : v \in Nat \ {0} /\ v <= child[c].ver /\ childRev[c][v] \in Nat
    /\ child[c].status \in {"draft", "published", "pending_removal"} =>
            /\ child[c].ver \in DOMAIN childRev[c]
            /\ childRev[c][child[c].ver] = child[c].text
    /\ ~Exists(c) => child[c].ver = 0
    /\ IsPublished(c) =>
            /\ Exists(c)
            /\ childProj[c].ver \in DOMAIN childRev[c]
            /\ childRev[c][childProj[c].ver] = childProj[c].text

MembersOK ==
    /\ DOMAIN child = Children /\ DOMAIN childRev = Children /\ DOMAIN childProj = Children
    /\ \A c \in Children : MemberOK(c)

PageOK ==
    /\ DOMAIN page = {"status", "ver", "body", "pub"}
    /\ page.ver \in Nat \ {0}
    /\ PageIsPublished =>
            /\ pageProj.ver \in Nat \ {0} /\ pageProj.ver <= page.ver
            /\ pageProj.ver \in DOMAIN pageRev

ItemOK(x) ==
    /\ x.source \in Nat \ {0}
    /\ x.action \in {"keep", "publish", "remove"}
    /\ x.target = IF x.action = "keep" THEN x.source ELSE x.source + 1

ItemsOK(items) == \A c \in DOMAIN items : c \in Children /\ Exists(c) /\ ItemOK(items[c])

\* The revision that gives a member of a finished publication back.
HasRevision(c, x, state) ==
    x.target \in DOMAIN childRev[c] \/ (state = "published" /\ x.action = "remove")

\* A manifest, and the revisions that restore it once it is finished.
ManifestOK(v, m) ==
    /\ v \in Nat \ {0} /\ v <= page.ver
    /\ DOMAIN m = {"state", "items"}
    /\ m.state \in {"pending", "published", "unpublished", "failed"}
    /\ ItemsOK(m.items)
    /\ m.state \in {"published", "unpublished"} =>
            /\ v \in DOMAIN pageRev
            /\ \A c \in DOMAIN m.items : HasRevision(c, m.items[c], m.state)

ManifestsOK == \A v \in DOMAIN manifest : ManifestOK(v, manifest[v])

\* The publication that runs.
FlightOK ==
    /\ \A v \in DOMAIN manifest :
            manifest[v].state = "pending" <=> page.status = "publishing" /\ v = page.ver
    /\ page.status = "publishing" => page.ver \in DOMAIN manifest
    /\ page.status = "publishing" => MembersFit(manifest[page.ver].items)

\* What is public is what the manifest m of version v decided.
DecidedBy(v, m) ==
    IF m.state = "unpublished"
    THEN ~PageIsPublished /\ \A c \in Children : ~IsPublished(c)
    ELSE /\ pageProj.ver = v
         /\ \A c \in Children :
                IsPublished(c) <=> c \in DOMAIN m.items /\ m.items[c].action # "remove"
         /\ \A c \in Children : IsPublished(c) => childProj[c].ver = m.items[c].target

LatestDecides ==
    Finished # {} => \E v \in Finished : /\ \A x \in Finished : x <= v
                                         /\ DecidedBy(v, manifest[v])

SeenOK ==
    /\ DOMAIN seen = {"ver", "listed", "texts"}
    /\ seen.ver \in Nat /\ seen.ver <= page.ver
    /\ GroupPublishesWhatWasSeen

GroupInv == PageOK /\ MembersOK /\ ManifestsOK /\ FlightOK /\ LatestDecides /\ SeenOK

----------------------------------------------------------------------------
(* What changes a member                                                   *)

SameMember(c) == UNCHANGED <<child[c], childRev[c], childProj[c]>>

\* An editor saves a member, marks it for removal, or brings it back.
Rewritten(c) ==
    /\ \E status \in {"draft", "pending_removal"}, text \in Nat :
            child'[c] = [status |-> status, ver |-> child[c].ver + 1, text |-> text]
    /\ childRev'[c] = Put(childRev[c], child'[c].ver, child'[c].text)
    /\ childProj'[c] = childProj[c]

\* An editor deletes a member that no publication has named.
Deleted(c) ==
    /\ Exists(c) /\ ~HasGroupState(c)
    /\ child'[c] = Gone("deleted")
    /\ childRev'[c] = [v \in {} |-> 0]
    /\ childProj'[c] = childProj[c]

LEMMA SameMemberOK ==
    ASSUME NEW c \in Children, MemberOK(c), SameMember(c)
    PROVE  MemberOK(c)' /\ (Exists(c)' <=> Exists(c))
BY DEF SameMember, MemberOK, Exists, IsPublished

LEMMA RewrittenOK ==
    ASSUME NEW c \in Children, MemberOK(c), Rewritten(c)
    PROVE  /\ MemberOK(c)' /\ Exists(c)'
           /\ DOMAIN childRev[c] \subseteq DOMAIN childRev'[c]
<1>1. PICK status \in {"draft", "pending_removal"}, text \in Nat :
            child'[c] = [status |-> status, ver |-> child[c].ver + 1, text |-> text]
  BY DEF Rewritten
<1>2. child[c].ver \in Nat
  BY DEF MemberOK, MemberRows
<1>3. /\ child'[c] \in MemberRows /\ child'[c].status = status
      /\ child'[c].ver = child[c].ver + 1 /\ child'[c].text = text
  BY <1>1, <1>2 DEF MemberRows, MemberStatuses
<1>4. Exists(c)'
  BY <1>3 DEF Exists
<1>5. /\ DOMAIN childRev'[c] = DOMAIN childRev[c] \cup {child[c].ver + 1}
      /\ childRev'[c][child[c].ver + 1] = text
      /\ \A v \in DOMAIN childRev[c] : v # child[c].ver + 1 => childRev'[c][v] = childRev[c][v]
  <2>1. childRev'[c] = Put(childRev[c], child[c].ver + 1, text)
    BY <1>3 DEF Rewritten
  <2> QED
    BY <2>1 DEF Put
<1>6. \A v \in DOMAIN childRev[c] : v \in Nat \ {0} /\ v <= child[c].ver /\ childRev[c][v] \in Nat
  BY DEF MemberOK
<1>7. \A v \in DOMAIN childRev'[c] :
            v \in Nat \ {0} /\ v <= child'[c].ver /\ childRev'[c][v] \in Nat
  <2> SUFFICES ASSUME NEW v \in DOMAIN childRev'[c]
               PROVE  v \in Nat \ {0} /\ v <= child'[c].ver /\ childRev'[c][v] \in Nat
    OBVIOUS
  <2>1. CASE v = child[c].ver + 1
    BY <2>1, <1>2, <1>3, <1>5
  <2>2. CASE v \in DOMAIN childRev[c]
    BY <2>2, <1>2, <1>3, <1>5, <1>6
  <2> QED
    BY <2>1, <2>2, <1>5
<1>8. IsPublished(c)' =>
            /\ childProj'[c].ver \in DOMAIN childRev'[c]
            /\ childRev'[c][childProj'[c].ver] = childProj'[c].text
  <2> SUFFICES ASSUME IsPublished(c)'
               PROVE  /\ childProj'[c].ver \in DOMAIN childRev'[c]
                      /\ childRev'[c][childProj'[c].ver] = childProj'[c].text
    OBVIOUS
  <2>1. IsPublished(c) /\ childProj'[c] = childProj[c]
    BY DEF IsPublished, Rewritten
  <2>2. /\ childProj[c].ver \in DOMAIN childRev[c]
        /\ childRev[c][childProj[c].ver] = childProj[c].text
    BY <2>1 DEF MemberOK
  <2>3. childProj[c].ver # child[c].ver + 1
    BY <2>2, <1>2, <1>6
  <2> QED
    BY <2>1, <2>2, <2>3, <1>5
<1> QED
  BY <1>3, <1>4, <1>5, <1>7, <1>8 DEF MemberOK

LEMMA DeletedOK ==
    ASSUME NEW c \in Children, MemberOK(c), Deleted(c)
    PROVE  MemberOK(c)'
<1>1. /\ child'[c] \in MemberRows /\ child'[c].status = "deleted" /\ child'[c].ver = 0
      /\ DOMAIN childRev'[c] = {}
  BY DEF Deleted, Gone, MemberRows, MemberStatuses
<1>2. ~IsPublished(c)'
  BY DEF Deleted, HasGroupState, IsPublished
<1> QED
  BY <1>1, <1>2 DEF MemberOK, Exists

\* The rows of the pages and members an editor leaves after an edit: the page
\* is a draft of a new version, and of the manifests none has changed.
Edited ==
    /\ page.status # "publishing"
    /\ DOMAIN page' = DOMAIN page
    /\ page'.status = "draft" /\ page'.ver = page.ver + 1
    /\ DOMAIN pageRev \subseteq DOMAIN pageRev'
    /\ DOMAIN child' = Children /\ DOMAIN childRev' = Children
    /\ \A c \in Children : SameMember(c) \/ Rewritten(c) \/ Deleted(c)
    /\ UNCHANGED <<manifest, pageProj, childProj, seen>>

LEMMA ManifestStays ==
    ASSUME NEW v, NEW m, ManifestOK(v, m), page.ver \in Nat, page'.ver \in Nat,
           page.ver <= page'.ver, DOMAIN pageRev \subseteq DOMAIN pageRev',
           \A c \in DOMAIN m.items :
                Exists(c)' /\ DOMAIN childRev[c] \subseteq DOMAIN childRev'[c]
    PROVE  ManifestOK(v, m)'
<1>1. v \in Nat \ {0} /\ v <= page'.ver
  BY DEF ManifestOK
<1>2. ItemsOK(m.items)'
  BY DEF ManifestOK, ItemsOK, ItemOK
<1>3. ASSUME NEW c \in DOMAIN m.items, HasRevision(c, m.items[c], m.state)
      PROVE  HasRevision(c, m.items[c], m.state)'
  BY <1>3 DEF HasRevision
<1> QED
  BY <1>1, <1>2, <1>3 DEF ManifestOK

LEMMA MembersMove ==
    ASSUME GroupInv, NEW c \in Children, SameMember(c) \/ Rewritten(c) \/ Deleted(c)
    PROVE  /\ MemberOK(c)'
           /\ ~Deleted(c) => DOMAIN childRev[c] \subseteq DOMAIN childRev'[c]
           /\ Exists(c) /\ ~Deleted(c) => Exists(c)'
<1>1. MemberOK(c)
  BY DEF GroupInv, MembersOK
<1> QED
  BY <1>1, SameMemberOK, RewrittenOK, DeletedOK DEF SameMember

LEMMA EditedManifests ==
    ASSUME GroupInv, Edited
    PROVE  ManifestsOK'
<1> SUFFICES ASSUME NEW v \in DOMAIN manifest
             PROVE  ManifestOK(v, manifest[v])'
  BY DEF Edited, ManifestsOK
<1>0. PICK m : m = manifest[v]
  OBVIOUS
<1>1. ManifestOK(v, m) /\ manifest' = manifest
  BY <1>0 DEF GroupInv, ManifestsOK, Edited
<1>2. ASSUME NEW c \in DOMAIN m.items
      PROVE  Exists(c)' /\ DOMAIN childRev[c] \subseteq DOMAIN childRev'[c]
  <2>1. c \in Children /\ Exists(c)
    BY <1>1 DEF ManifestOK, ItemsOK
  <2>2. ~Deleted(c)
    BY <1>0 DEF Deleted, HasGroupState
  <2>3. SameMember(c) \/ Rewritten(c) \/ Deleted(c)
    BY <2>1 DEF Edited
  <2> QED
    BY <2>1, <2>2, <2>3, MembersMove
<1>3. page.ver \in Nat /\ page'.ver \in Nat /\ page.ver <= page'.ver
  BY DEF GroupInv, PageOK, Edited
<1>4. DOMAIN pageRev \subseteq DOMAIN pageRev'
  BY DEF Edited
<1>5. ManifestOK(v, m)'
  BY <1>1, <1>2, <1>3, <1>4, ManifestStays
<1> QED
  BY <1>0, <1>1, <1>5

LEMMA EditedGroup ==
    ASSUME GroupInv, Edited
    PROVE  GroupInv'
<1>1. PageOK'
  BY DEF GroupInv, PageOK, Edited, PageIsPublished
<1>2. MembersOK'
  BY MembersMove DEF GroupInv, MembersOK, Edited
<1>3. ManifestsOK'
  BY EditedManifests
<1>4. FlightOK'
  BY DEF GroupInv, FlightOK, Edited
<1>5. LatestDecides'
  <2>1. Finished' = Finished
    BY DEF Finished, Edited
  <2>2. ASSUME NEW v
        PROVE  DecidedBy(v, manifest[v])' <=> DecidedBy(v, manifest[v])
    BY DEF DecidedBy, Edited, PageIsPublished, IsPublished
  <2> QED
    BY <2>1, <2>2 DEF GroupInv, LatestDecides, Edited
<1>6. SeenOK'
  <2>1. seen' = seen /\ seen.ver # page'.ver /\ seen.ver \in Nat /\ seen.ver <= page'.ver
    BY DEF GroupInv, PageOK, SeenOK, Edited
  <2> QED
    BY <2>1 DEF GroupInv, SeenOK, GroupPublishesWhatWasSeen
<1> QED
  BY <1>1, <1>2, <1>3, <1>4, <1>5, <1>6 DEF GroupInv

----------------------------------------------------------------------------
(* The edits                                                               *)

LEMMA StatusFacts ==
    ASSUME GroupInv, NEW status
    PROVE  /\ DOMAIN Status(status) = DOMAIN page
           /\ Status(status).status = status /\ Status(status).ver = page.ver + 1
           /\ Status(status).body = page.body /\ Status(status).pub = page.pub
BY DEF GroupInv, PageOK, Status

LEMMA TouchedPage ==
    ASSUME GroupInv, TouchPageGroup
    PROVE  /\ page.status # "publishing" /\ DOMAIN page' = DOMAIN page
           /\ page'.status = "draft" /\ page'.ver = page.ver + 1
BY StatusFacts DEF TouchPageGroup, Mutable, InFlight

LEMMA WrittenMember ==
    ASSUME GroupInv, UNCHANGED seen, NEW c \in Children, NEW text \in Nat,
           NEW status \in {"draft", "pending_removal"},
           WriteChild(c, [status |-> status, ver |-> child[c].ver + 1, text |-> text])
    PROVE  Edited
<1> DEFINE row == [status |-> status, ver |-> child[c].ver + 1, text |-> text]
<1>1. /\ child' = [child EXCEPT ![c] = row] /\ InsertRevisions({c})
      /\ UNCHANGED <<pageRev, manifest, pageProj, childProj>>
  BY DEF WriteChild
<1>2. DOMAIN child' = Children /\ DOMAIN childRev' = Children
  BY <1>1 DEF GroupInv, MembersOK, InsertRevisions
<1>3. child'[c] = row /\ \A x \in Children : x # c => child'[x] = child[x]
  BY <1>1 DEF GroupInv, MembersOK
<1> HIDE DEF row
<1>4. /\ childRev'[c] = Put(childRev[c], child'[c].ver, child'[c].text)
      /\ \A x \in Children : x # c => childRev'[x] = childRev[x]
  BY <1>1 DEF InsertRevisions
<1>5. Rewritten(c)
  BY <1>1, <1>3, <1>4 DEF Rewritten, row
<1>6. \A x \in Children : x # c => SameMember(x)
  BY <1>1, <1>3, <1>4 DEF SameMember
<1> QED
  BY <1>1, <1>2, <1>5, <1>6, TouchedPage DEF Edited, WriteChild

LEMMA RemovedRow ==
    ASSUME NEW row \in MemberRows, NEW new,
           new = [row EXCEPT !.status = "pending_removal", !.ver = @ + 1]
    PROVE  new = [status |-> "pending_removal", ver |-> row.ver + 1, text |-> row.text]
BY DEF MemberRows

LEMMA EditMember ==
    ASSUME GroupInv, UNCHANGED seen, NEW c \in Children,
           CreateChild(c) \/ UpdateChild(c) \/ RemoveChild(c)
    PROVE  Edited
<1>1. MemberOK(c)
  BY DEF GroupInv, MembersOK
<1>2. CASE CreateChild(c)
  <2>1. child[c].ver + 1 = 1
    BY <1>1, <1>2 DEF CreateChild, MemberOK, Exists
  <2>2. WriteChild(c, [status |-> "draft", ver |-> child[c].ver + 1, text |-> 1])
    BY <1>2, <2>1 DEF CreateChild
  <2> QED
    BY <2>2, WrittenMember
<1>3. CASE UpdateChild(c)
  <2>1. child[c].ver + 1 \in Nat
    BY <1>1 DEF MemberOK, MemberRows
  <2> QED
    BY <1>3, <2>1, WrittenMember DEF UpdateChild
<1>4. CASE RemoveChild(c)
  <2>1. child[c].text \in Nat
    BY <1>1 DEF MemberOK, MemberRows
  <2>2. [child[c] EXCEPT !.status = "pending_removal", !.ver = @ + 1]
            = [status |-> "pending_removal", ver |-> child[c].ver + 1, text |-> child[c].text]
    BY <1>1, RemovedRow DEF MemberOK
  <2>3. WriteChild(c, [status |-> "pending_removal", ver |-> child[c].ver + 1,
                       text |-> child[c].text])
    BY <1>4, <2>2 DEF RemoveChild
  <2> QED
    BY <2>1, <2>3, WrittenMember
<1> QED
  BY <1>2, <1>3, <1>4

LEMMA DeleteMember ==
    ASSUME GroupInv, UNCHANGED seen, NEW c \in Children, DeleteChild(c)
    PROVE  Edited
<1>1. /\ DOMAIN child' = Children /\ DOMAIN childRev' = Children
      /\ child'[c] = Gone("deleted") /\ childRev'[c] = [v \in {} |-> 0]
      /\ \A x \in Children : x # c => child'[x] = child[x] /\ childRev'[x] = childRev[x]
      /\ UNCHANGED <<pageRev, manifest, pageProj, childProj>>
  BY DEF GroupInv, MembersOK, DeleteChild
<1>2. Deleted(c)
  BY <1>1 DEF Deleted, DeleteChild
<1>3. \A x \in Children : x # c => SameMember(x)
  BY <1>1 DEF SameMember
<1>4. TouchPageGroup
  BY DEF DeleteChild
<1> QED
  BY <1>1, <1>2, <1>3, <1>4, TouchedPage DEF Edited

\* The page gets a new body.
LEMMA WrittenPage ==
    ASSUME GroupInv, UNCHANGED seen, NEW body, page.status # "publishing",
           page' = [Status("draft") EXCEPT !.body = body], InsertPageRevision,
           UNCHANGED <<child, childRev, manifest, pageProj, childProj>>
    PROVE  Edited
<1>1. DOMAIN page' = DOMAIN page /\ page'.status = "draft" /\ page'.ver = page.ver + 1
  BY StatusFacts
<1>2. DOMAIN pageRev \subseteq DOMAIN pageRev'
  BY DEF InsertPageRevision, Put
<1>3. \A c \in Children : SameMember(c)
  BY DEF SameMember
<1> QED
  BY <1>1, <1>2, <1>3 DEF Edited, GroupInv, MembersOK

LEMMA RestoredGroup ==
    ASSUME GroupInv, UNCHANGED seen, NEW v, RestorePageGroup(v)
    PROVE  Edited
<1> DEFINE items == manifest[v].items
<1>1. /\ page.status # "publishing" /\ v \in DOMAIN manifest
      /\ InsertRevisions({c \in Children : Exists(c)})
      /\ page' = [Status("draft") EXCEPT !.body = pageRev[v]] /\ InsertPageRevision
      /\ UNCHANGED <<manifest, pageProj, childProj>>
  BY DEF RestorePageGroup, Mutable, InFlight, Finished
<1>2. DOMAIN page' = DOMAIN page /\ page'.status = "draft" /\ page'.ver = page.ver + 1
  BY <1>1, StatusFacts
<1>3. DOMAIN pageRev \subseteq DOMAIN pageRev'
  BY <1>1 DEF InsertPageRevision, Put
<1>4. DOMAIN child' = Children /\ DOMAIN childRev' = Children
  BY DEF RestorePageGroup, InsertRevisions
<1>5. ASSUME NEW c \in Children
      PROVE  SameMember(c) \/ Rewritten(c)
  <2>1. MemberOK(c)
    BY DEF GroupInv, MembersOK
  <2>2. CASE ~Exists(c)
    <3>1. child'[c] = child[c]
      BY <2>2 DEF RestorePageGroup
    <3>2. childRev'[c] = childRev[c]
      BY <2>2, <1>1 DEF InsertRevisions
    <3> QED
      BY <3>1, <3>2, <1>1 DEF SameMember
  <2>3. CASE Exists(c)
    <3>1. childRev'[c] = Put(childRev[c], child'[c].ver, child'[c].text)
      BY <2>3, <1>1 DEF InsertRevisions
    <3>2. CASE c \notin DOMAIN items
      <4>1. child'[c] = [child[c] EXCEPT !.status = "pending_removal", !.ver = @ + 1]
        BY <2>3, <3>2 DEF RestorePageGroup
      <4>2. /\ child'[c] = [status |-> "pending_removal", ver |-> child[c].ver + 1,
                            text |-> child[c].text]
            /\ child[c].text \in Nat
        BY <2>1, <4>1 DEF MemberOK, MemberRows
      <4> QED
        BY <3>1, <4>2, <1>1 DEF Rewritten
    <3>3. CASE c \in DOMAIN items
      <4>1. PICK status \in {"draft", "pending_removal"} :
              child'[c] = [status |-> status, ver |-> child[c].ver + 1,
                           text |-> childRev[c][items[c].target]]
        BY <2>3, <3>3 DEF RestorePageGroup
      <4>2. items[c].target \in DOMAIN childRev[c]
        BY <3>3 DEF RestorePageGroup, Restorable
      <4>3. childRev[c][items[c].target] \in Nat
        BY <2>1, <4>2 DEF MemberOK
      <4> QED
        BY <3>1, <4>1, <4>3, <1>1 DEF Rewritten
    <3> QED
      BY <3>2, <3>3
  <2> QED
    BY <2>2, <2>3
<1> QED
  BY <1>1, <1>2, <1>3, <1>4, <1>5 DEF Edited

----------------------------------------------------------------------------
(* A publication                                                           *)

\* What a publication writes of a group, under the version v.
Published(v, items) ==
    /\ DOMAIN page' = DOMAIN page
    /\ page'.status = "published" /\ page'.ver = v
    /\ WriteProjections(v, items)
    /\ UpdateMembers(items)
    /\ InsertRevisions(Revised(items))
    /\ InsertPageRevision
    /\ UNCHANGED seen

\* What a publication makes of a member it names.
LEMMA PublishedMember ==
    ASSUME GroupInv, NEW v, NEW items, ItemsOK(items), MembersFit(items),
           Published(v, items), NEW c \in DOMAIN items
    PROVE  /\ MemberOK(c)' /\ Exists(c)'
           /\ DOMAIN childRev[c] \subseteq DOMAIN childRev'[c]
           /\ HasRevision(c, items[c], "published")'
           /\ IsPublished(c)' <=> items[c].action # "remove"
           /\ IsPublished(c)' => childProj'[c].ver = items[c].target
           /\ child'[c].text = child[c].text
           /\ child'[c].status \in {"published", "draft", "publish_failed"}
                <=> child[c].status \in {"published", "draft", "publish_failed"}
<1> DEFINE x == items[c]
<1>1. c \in Children /\ ItemOK(x) /\ MemberOK(c)
  BY DEF ItemsOK, GroupInv, MembersOK
<1>2. child[c].ver = x.source /\ child[c] \in MemberRows
  BY <1>1 DEF MembersFit, MemberOK
<1>3. child'[c] = [child[c] EXCEPT !.status = ActionOf(x.action), !.ver = x.target]
  BY <1>1 DEF Published, UpdateMembers
<1>4. childRev'[c] = IF x.action = "publish"
                     THEN Put(childRev[c], child'[c].ver, child'[c].text) ELSE childRev[c]
  BY <1>1 DEF Published, InsertRevisions, Revised
<1>5. childProj'[c] = IF x.action # "remove"
                      THEN [ver |-> x.target, text |-> child[c].text] ELSE NoChildProj
  BY <1>1 DEF Published, WriteProjections
<1>6. child[c].status \in CASE x.action = "keep"    -> {"published"}
                            [] x.action = "publish" -> {"draft", "publish_failed"}
                            [] x.action = "remove"  -> {"pending_removal"}
  BY DEF MembersFit
<1> HIDE DEF x
<1>7. /\ x.source \in Nat \ {0} /\ x.target \in Nat \ {0}
      /\ x.target = x.source \/ x.target = x.source + 1
  BY <1>1 DEF ItemOK
<1>8. /\ child'[c] \in MemberRows /\ child'[c].status = ActionOf(x.action)
      /\ child'[c].ver = x.target /\ child'[c].text = child[c].text
  BY <1>2, <1>3, <1>7 DEF MemberRows, MemberStatuses, ActionOf
<1>9. \A w \in DOMAIN childRev[c] : w \in Nat \ {0} /\ w <= x.source /\ childRev[c][w] \in Nat
  BY <1>1, <1>2 DEF MemberOK
<1>10. child[c].text \in Nat
  BY <1>2 DEF MemberRows
<1>11. CASE x.action = "keep"
  <2>1. /\ x.target = x.source /\ child[c].status = "published" /\ childRev'[c] = childRev[c]
        /\ child'[c].status = "published"
        /\ childProj'[c].ver = x.target /\ childProj'[c].text = child[c].text
    BY <1>1, <1>4, <1>5, <1>6, <1>8, <1>11 DEF ItemOK, ActionOf
  <2>2. x.target \in DOMAIN childRev[c] /\ childRev[c][x.target] = child[c].text
    BY <1>1, <1>2, <2>1 DEF MemberOK
  <2>3. IsPublished(c)' /\ Exists(c)'
    BY <2>1, <1>7 DEF IsPublished, NoChildProj, Exists
  <2>4. MemberOK(c)'
    BY <2>1, <2>2, <2>3, <1>8, <1>9 DEF MemberOK
  <2> QED
    BY <2>1, <2>2, <2>3, <2>4, <1>8, <1>11 DEF HasRevision, x
<1>12. CASE x.action = "publish"
  <2>1. /\ x.target = x.source + 1 /\ child[c].status \in {"draft", "publish_failed"}
        /\ child'[c].status = "published"
        /\ childRev'[c] = Put(childRev[c], x.target, child[c].text)
        /\ childProj'[c].ver = x.target /\ childProj'[c].text = child[c].text
    BY <1>1, <1>4, <1>5, <1>6, <1>8, <1>12 DEF ItemOK, ActionOf
  <2>2. /\ DOMAIN childRev'[c] = DOMAIN childRev[c] \cup {x.target}
        /\ childRev'[c][x.target] = child[c].text
        /\ \A w \in DOMAIN childRev[c] : w # x.target => childRev'[c][w] = childRev[c][w]
    BY <2>1 DEF Put
  <2>3. IsPublished(c)' /\ Exists(c)'
    BY <2>1, <1>7 DEF IsPublished, NoChildProj, Exists
  <2>4. \A w \in DOMAIN childRev'[c] :
            w \in Nat \ {0} /\ w <= x.target /\ childRev'[c][w] \in Nat
    <3> SUFFICES ASSUME NEW w \in DOMAIN childRev'[c]
                 PROVE  w \in Nat \ {0} /\ w <= x.target /\ childRev'[c][w] \in Nat
      OBVIOUS
    <3>1. CASE w = x.target
      BY <3>1, <2>2, <1>7, <1>10
    <3>2. CASE w # x.target
      BY <3>2, <2>1, <2>2, <1>7, <1>9
    <3> QED
      BY <3>1, <3>2
  <2>5. MemberOK(c)'
    BY <2>1, <2>2, <2>3, <2>4, <1>8 DEF MemberOK
  <2> QED
    BY <2>1, <2>2, <2>3, <2>5, <1>8, <1>12 DEF HasRevision, x
<1>13. CASE x.action = "remove"
  <2>1. /\ x.target = x.source + 1 /\ child[c].status = "pending_removal"
        /\ child'[c].status = "unpublished" /\ childRev'[c] = childRev[c]
        /\ childProj'[c] = NoChildProj
    BY <1>1, <1>4, <1>5, <1>6, <1>8, <1>13 DEF ItemOK, ActionOf
  <2>2. ~IsPublished(c)' /\ Exists(c)'
    BY <2>1 DEF IsPublished, Exists
  <2>3. \A w \in DOMAIN childRev'[c] :
            w \in Nat \ {0} /\ w <= x.target /\ childRev'[c][w] \in Nat
    BY <2>1, <1>7, <1>9
  <2>4. MemberOK(c)'
    BY <2>1, <2>2, <2>3, <1>8 DEF MemberOK
  <2> QED
    BY <2>1, <2>2, <2>4, <1>8, <1>13 DEF HasRevision, x
<1> QED
  BY <1>1, <1>11, <1>12, <1>13 DEF ItemOK

LEMMA UnnamedMember ==
    ASSUME GroupInv, NEW v, NEW items, Published(v, items), NEW c \in Children \ DOMAIN items
    PROVE  /\ MemberOK(c)' /\ (Exists(c)' <=> Exists(c))
           /\ child'[c] = child[c] /\ childRev'[c] = childRev[c]
           /\ ~IsPublished(c)'
<1>1. /\ child'[c] = child[c] /\ childRev'[c] = childRev[c] /\ childProj'[c] = NoChildProj
  BY DEF Published, UpdateMembers, InsertRevisions, Revised, WriteProjections
<1>2. MemberOK(c)
  BY DEF GroupInv, MembersOK
<1>3. ~IsPublished(c)' /\ (Exists(c)' <=> Exists(c))
  BY <1>1 DEF IsPublished, Exists
<1> QED
  BY <1>1, <1>2, <1>3 DEF MemberOK

\* The manifests of a group when one of version v is finished or begun: those
\* in base, and the new one.
Manifested(base, v, state, items) ==
    /\ DOMAIN manifest' = DOMAIN base \cup {v}
    /\ manifest'[v] = [state |-> state, items |-> items]
    /\ \A x \in DOMAIN base : x # v => manifest'[x] = base[x]

\* Manifests from before the version v, one of them perhaps at v.
OldManifests(base, v) ==
    /\ \A x \in DOMAIN base : ManifestOK(x, base[x])
    /\ \A x \in DOMAIN base : x # v => base[x].state # "pending"
    /\ v \in {page.ver, page.ver + 1}

LEMMA NewManifest ==
    ASSUME GroupInv, NEW base, NEW v, NEW state, NEW items,
           OldManifests(base, v), Manifested(base, v, state, items), ItemsOK(items),
           state \in {"pending", "published", "unpublished", "failed"},
           page'.ver = v, DOMAIN pageRev \subseteq DOMAIN pageRev',
           \A c \in Children : Exists(c) =>
                Exists(c)' /\ DOMAIN childRev[c] \subseteq DOMAIN childRev'[c],
           state \in {"published", "unpublished"} =>
                /\ v \in DOMAIN pageRev'
                /\ \A c \in DOMAIN items : HasRevision(c, items[c], state)'
    PROVE  ManifestsOK'
<1> SUFFICES ASSUME NEW w \in DOMAIN manifest'
             PROVE  ManifestOK(w, manifest[w])'
  BY DEF ManifestsOK
<1>1. v \in Nat \ {0} /\ page.ver \in Nat /\ page.ver <= v
  BY DEF GroupInv, PageOK, OldManifests
<1>2. CASE w = v
  <2>1. PICK m : m = [state |-> state, items |-> items]
    OBVIOUS
  <2>2. /\ DOMAIN m = {"state", "items"} /\ m.state = state /\ m.items = items
        /\ manifest'[w] = m
    BY <2>1, <1>2 DEF Manifested
  <2>3. ItemsOK(items)'
    BY DEF ItemsOK, ItemOK
  <2>4. ManifestOK(w, m)'
    BY <1>1, <1>2, <2>2, <2>3 DEF ManifestOK
  <2> QED
    BY <2>2, <2>4
<1>3. CASE w # v
  <2>1. PICK m : m = base[w]
    OBVIOUS
  <2>2. manifest'[w] = m /\ ManifestOK(w, m)
    BY <1>3, <2>1 DEF Manifested, OldManifests
  <2>3. \A c \in DOMAIN m.items :
            Exists(c)' /\ DOMAIN childRev[c] \subseteq DOMAIN childRev'[c]
    BY <2>2 DEF ManifestOK, ItemsOK
  <2>4. ManifestOK(w, m)'
    BY <2>2, <2>3, <1>1, ManifestStays
  <2> QED
    BY <2>2, <2>4
<1> QED
  BY <1>2, <1>3

LEMMA PublishedManifests ==
    ASSUME GroupInv, NEW base, NEW v, NEW items, OldManifests(base, v), ItemsOK(items),
           MembersFit(items), Published(v, items), Manifested(base, v, "published", items)
    PROVE  ManifestsOK'
<1>1. page'.ver = v
  BY DEF Published
<1>2. \A c \in Children : Exists(c) => Exists(c)' /\ DOMAIN childRev[c] \subseteq DOMAIN childRev'[c]
  BY PublishedMember, UnnamedMember
<1>3. DOMAIN pageRev \subseteq DOMAIN pageRev' /\ v \in DOMAIN pageRev'
  BY <1>1 DEF Published, InsertPageRevision, Put
<1>4. \A c \in DOMAIN items : HasRevision(c, items[c], "published")'
  BY PublishedMember
<1> QED
  BY <1>1, <1>2, <1>3, <1>4, NewManifest

LEMMA PublishedLatest ==
    ASSUME GroupInv, NEW base, NEW v, NEW items, OldManifests(base, v), ItemsOK(items),
           MembersFit(items), Published(v, items), Manifested(base, v, "published", items)
    PROVE  LatestDecides'
<1>1. /\ v \in Nat \ {0} /\ page.ver \in Nat /\ page.ver <= v
  BY DEF GroupInv, PageOK, OldManifests
<1>2. v \in Finished'
  BY DEF Manifested, Finished
<1>3. ASSUME NEW x \in Finished'
      PROVE  x <= v
  <2>1. CASE x # v
    BY <2>1, <1>1 DEF Finished, Manifested, OldManifests, ManifestOK
  <2> QED
    BY <2>1, <1>1
<1>4. PICK m : m = [state |-> "published", items |-> items]
  OBVIOUS
<1>5. m.state = "published" /\ m.items = items /\ manifest'[v] = m
  BY <1>4 DEF Manifested
<1>6. pageProj'.ver = v
  BY DEF Published, WriteProjections
<1>7. ASSUME NEW c \in Children
      PROVE  /\ IsPublished(c)' <=> c \in DOMAIN items /\ items[c].action # "remove"
             /\ IsPublished(c)' => childProj'[c].ver = items[c].target
  BY PublishedMember, UnnamedMember
<1>8. DecidedBy(v, m)'
  BY <1>5, <1>6, <1>7 DEF DecidedBy
<1> QED
  BY <1>2, <1>3, <1>5, <1>8 DEF LatestDecides

LEMMA PublishedTexts ==
    ASSUME GroupInv, NEW v, NEW items, ItemsOK(items), MembersFit(items), Published(v, items)
    PROVE  Texts' = Texts
<1>1. \A c \in Children :
        /\ child'[c].text = child[c].text
        /\ child'[c].status \in {"published", "draft", "publish_failed"}
                <=> child[c].status \in {"published", "draft", "publish_failed"}
  BY PublishedMember, UnnamedMember
<1>2. Members' = Members
  BY <1>1 DEF Members
<1> QED
  BY <1>1, <1>2 DEF Texts, Members

LEMMA PublishedGroup ==
    ASSUME GroupInv, NEW base, NEW v, NEW items, OldManifests(base, v), ItemsOK(items),
           MembersFit(items), Published(v, items), Manifested(base, v, "published", items)
    PROVE  GroupInv'
<1>1. /\ v \in Nat \ {0} /\ page.ver \in Nat /\ page.ver <= v /\ page'.ver = v
  BY DEF GroupInv, PageOK, OldManifests, Published
<1>2. PageOK'
  <2>1. v \in DOMAIN pageRev'
    BY <1>1 DEF Published, InsertPageRevision, Put
  <2>2. pageProj'.ver = v
    BY DEF Published, WriteProjections
  <2> QED
    BY <1>1, <2>1, <2>2 DEF PageOK, GroupInv, Published
<1>3. MembersOK'
  <2>1. DOMAIN child' = Children /\ DOMAIN childRev' = Children /\ DOMAIN childProj' = Children
    BY DEF Published, UpdateMembers, InsertRevisions, WriteProjections
  <2> QED
    BY <2>1, PublishedMember, UnnamedMember DEF MembersOK
<1>4. ManifestsOK'
  BY PublishedManifests
<1>5. FlightOK'
  <2>1. page'.status = "published"
    BY DEF Published
  <2>2. \A w \in DOMAIN manifest' : manifest'[w].state # "pending"
    BY DEF Manifested, OldManifests
  <2> QED
    BY <2>1, <2>2 DEF FlightOK
<1>6. LatestDecides'
  BY PublishedLatest
<1>7. SeenOK'
  <2>1. seen' = seen /\ SeenOK
    BY DEF Published, GroupInv
  <2>2. seen.ver \in Nat /\ seen.ver <= page'.ver
    BY <1>1, <2>1 DEF SeenOK
  <2>3. Texts' = Texts
    BY PublishedTexts
  <2>4. seen.ver = page'.ver => seen.ver = page.ver
    BY <1>1, <2>1 DEF SeenOK
  <2> QED
    BY <2>1, <2>2, <2>3, <2>4 DEF SeenOK, GroupPublishesWhatWasSeen
<1> QED
  BY <1>2, <1>3, <1>4, <1>5, <1>6, <1>7 DEF GroupInv

----------------------------------------------------------------------------
(* Publication by a handler                                                *)

\* The latest finished manifest in base decides what is public.
DecidesIn(base) ==
    LET finished == {x \in DOMAIN base : base[x].state \in {"published", "unpublished"}}
    IN finished # {} => \E v \in finished : /\ \A x \in finished : x <= v
                                            /\ DecidedBy(v, base[v])

LEMMA CollectedItems ==
    ASSUME GroupInv, NEW items, items = CollectManifest
    PROVE  ItemsOK(items) /\ MembersFit(items)
<1> SUFFICES ASSUME NEW c \in DOMAIN items
             PROVE  /\ c \in Children /\ Exists(c) /\ ItemOK(items[c])
                    /\ child[c].ver = items[c].source
                    /\ child[c].status \in
                            CASE items[c].action = "keep"    -> {"published"}
                              [] items[c].action = "publish" -> {"draft", "publish_failed"}
                              [] items[c].action = "remove"  -> {"pending_removal"}
  BY DEF ItemsOK, MembersFit
<1>1. /\ c \in Children
      /\ child[c].status \in {"published", "draft", "publish_failed", "pending_removal"}
  BY DEF CollectManifest, Members
<1>2. child[c].ver \in Nat \ {0}
  BY <1>1 DEF GroupInv, MembersOK, MemberOK, MemberRows, MemberStatuses
<1>3. Exists(c)
  BY <1>1 DEF Exists
<1>4. items[c] = CASE child[c].status = "pending_removal" -> Item(c, 1, "remove")
                   [] child[c].status = "published"       -> Item(c, 0, "keep")
                   [] OTHER                               -> Item(c, 1, "publish")
  BY DEF CollectManifest
<1>5. CASE child[c].status = "pending_removal"
  BY <1>1, <1>2, <1>3, <1>4, <1>5 DEF ItemOK, Item
<1>6. CASE child[c].status = "published"
  BY <1>1, <1>2, <1>3, <1>4, <1>6 DEF ItemOK, Item
<1>7. CASE child[c].status \in {"draft", "publish_failed"}
  BY <1>1, <1>2, <1>3, <1>4, <1>7 DEF ItemOK, Item
<1> QED
  BY <1>1, <1>5, <1>6, <1>7

LEMMA Baseline ==
    ASSUME GroupInv, page.status # "publishing", NEW base, base = WithBaseline
    PROVE  OldManifests(base, page.ver + 1) /\ DecidesIn(base) /\ page.ver + 1 \notin DOMAIN base
<1>1. page.ver \in Nat
  BY DEF GroupInv, PageOK
<1>2. CASE base = manifest
  <2>1. \A x \in DOMAIN base : ManifestOK(x, base[x]) /\ base[x].state # "pending"
    BY <1>2 DEF GroupInv, ManifestsOK, FlightOK
  <2>2. DecidesIn(base)
    BY <1>2 DEF GroupInv, LatestDecides, DecidesIn, Finished
  <2>3. page.ver + 1 \notin DOMAIN base
    BY <1>1, <2>1 DEF ManifestOK
  <2> QED
    BY <2>1, <2>2, <2>3 DEF OldManifests
<1>3. CASE base # manifest
  <2> DEFINE items == [c \in {x \in Children : IsPublished(x)} |->
                            [source |-> childProj[c].ver, target |-> childProj[c].ver,
                             action |-> "keep"]]
             v == pageProj.ver
  <2>1. PICK m : m = [state |-> "published", items |-> items]
    OBVIOUS
  <2>2. PageIsPublished /\ base = Put(manifest, v, m) /\ DOMAIN manifest = {}
    BY <1>3, <2>1 DEF WithBaseline
  <2>3. DOMAIN base = {v} /\ base[v] = m
    BY <2>2 DEF Put
  <2>4. v \in Nat \ {0} /\ v <= page.ver /\ v \in DOMAIN pageRev
    BY <2>2 DEF GroupInv, PageOK
  <2>5. DOMAIN m = {"state", "items"} /\ m.state = "published" /\ m.items = items
    BY <2>1
  <2>6. ASSUME NEW c \in DOMAIN items
        PROVE  /\ c \in Children /\ Exists(c) /\ ItemOK(items[c])
               /\ HasRevision(c, items[c], "published")
    <3>1. c \in Children /\ IsPublished(c) /\ MemberOK(c)
      BY DEF GroupInv, MembersOK
    <3>2. Exists(c) /\ childProj[c].ver \in Nat \ {0} /\ childProj[c].ver \in DOMAIN childRev[c]
      BY <3>1 DEF MemberOK
    <3>3. /\ items[c].source = childProj[c].ver /\ items[c].target = childProj[c].ver
          /\ items[c].action = "keep"
      OBVIOUS
    <3> QED
      BY <3>1, <3>2, <3>3 DEF ItemOK, HasRevision
  <2>7. \A c \in DOMAIN items : items[c].target = childProj[c].ver /\ items[c].action = "keep"
    OBVIOUS
  <2>8. DOMAIN items = {x \in Children : IsPublished(x)}
    OBVIOUS
  <2> HIDE DEF items
  <2>9. ManifestOK(v, m)
    BY <2>4, <2>5, <2>6 DEF ManifestOK, ItemsOK
  <2>10. DecidedBy(v, m)
    BY <2>5, <2>7, <2>8 DEF DecidedBy
  <2>11. OldManifests(base, page.ver + 1)
    BY <2>3, <2>5, <2>9 DEF OldManifests
  <2>12. DecidesIn(base)
    BY <2>3, <2>4, <2>5, <2>10 DEF DecidesIn
  <2> QED
    BY <1>1, <2>3, <2>4, <2>11, <2>12
<1> QED
  BY <1>2, <1>3

\* InsertManifest of a page that is not in flight.
LEMMA InsertedManifest ==
    ASSUME GroupInv, NEW state, NEW items, InsertManifest(state, items), NEW base,
           base = WithBaseline
    PROVE  Manifested(base, page.ver + 1, state, items)
BY DEF InsertManifest, Manifested, Put

LEMMA PublishGroup ==
    ASSUME GroupInv, UNCHANGED seen, PublishPageGroup
    PROVE  GroupInv'
<1>1. PICK base : base = WithBaseline
  OBVIOUS
<1>2. PICK items : items = CollectManifest
  OBVIOUS
<1>3. page.status # "publishing"
  BY DEF PublishPageGroup, Mutable, InFlight
<1>4. Published(page.ver + 1, items)
  <2>1. page' = [Status("published") EXCEPT !.pub = NoRef]
    BY DEF PublishPageGroup, ClearBanner
  <2>2. DOMAIN page' = DOMAIN page /\ page'.status = "published" /\ page'.ver = page.ver + 1
    BY <2>1, StatusFacts
  <2> QED
    BY <1>2, <2>2 DEF PublishPageGroup, Published
<1>5. Manifested(base, page.ver + 1, "published", items)
  BY <1>1, <1>2, InsertedManifest DEF PublishPageGroup
<1> QED
  BY <1>1, <1>2, <1>3, <1>4, <1>5, CollectedItems, Baseline, PublishedGroup

\* A member that is withdrawn with its group.
LEMMA WithdrawnMember ==
    ASSUME GroupInv, UnpublishGroup, NEW c \in Children, IsPublished(c)
    PROVE  /\ MemberOK(c)' /\ Exists(c) /\ Exists(c)'
           /\ DOMAIN childRev[c] \subseteq DOMAIN childRev'[c]
           /\ child[c].ver \in Nat \ {0} /\ child[c].ver + 1 \in DOMAIN childRev'[c]
<1>1. /\ child'[c] = [child[c] EXCEPT !.status = "unpublished", !.ver = child[c].ver + 1]
      /\ childRev'[c] = Put(childRev[c], child'[c].ver, child'[c].text)
      /\ childProj'[c] = NoChildProj
  BY DEF UnpublishGroup, UpdateMembers, InsertRevisions, Item, ActionOf
<1>2. MemberOK(c) /\ Exists(c)
  BY DEF GroupInv, MembersOK, MemberOK
<1>3. child[c] \in MemberRows /\ child[c].ver \in Nat \ {0} /\ child[c].text \in Nat
  BY <1>2 DEF MemberOK, MemberRows
<1>4. /\ child'[c] \in MemberRows /\ child'[c].status = "unpublished"
      /\ child'[c].ver = child[c].ver + 1 /\ child'[c].text = child[c].text
  <2>1. "unpublished" \in MemberStatuses /\ child[c].ver + 1 \in Nat
    BY <1>3 DEF MemberStatuses
  <2>2. PICK row, new, ver : row = child[c] /\ new = child'[c] /\ ver = child[c].ver + 1
    OBVIOUS
  <2>3. new = [row EXCEPT !.status = "unpublished", !.ver = ver]
    BY <1>1, <2>2
  <2>4. row \in MemberRows /\ ver \in Nat
    BY <1>3, <2>1, <2>2
  <2>5. /\ new \in MemberRows
        /\ new.status = "unpublished" /\ new.ver = ver /\ new.text = row.text
    BY <2>1, <2>3, <2>4 DEF MemberRows
  <2> QED
    BY <2>2, <2>5
<1>5. childRev'[c] = Put(childRev[c], child[c].ver + 1, child[c].text)
  BY <1>1, <1>4
<1>6. /\ DOMAIN childRev'[c] = DOMAIN childRev[c] \cup {child[c].ver + 1}
      /\ childRev'[c][child[c].ver + 1] = child[c].text
      /\ \A v \in DOMAIN childRev[c] : v # child[c].ver + 1 => childRev'[c][v] = childRev[c][v]
  BY <1>5 DEF Put
<1>7. \A v \in DOMAIN childRev[c] : v \in Nat \ {0} /\ v <= child[c].ver /\ childRev[c][v] \in Nat
  BY <1>2 DEF MemberOK
<1>8. \A v \in DOMAIN childRev'[c] :
            v \in Nat \ {0} /\ v <= child'[c].ver /\ childRev'[c][v] \in Nat
  <2> SUFFICES ASSUME NEW v \in DOMAIN childRev'[c]
               PROVE  v \in Nat \ {0} /\ v <= child'[c].ver /\ childRev'[c][v] \in Nat
    OBVIOUS
  <2>1. CASE v = child[c].ver + 1
    BY <2>1, <1>3, <1>4, <1>6
  <2>2. CASE v \in DOMAIN childRev[c]
    BY <2>2, <1>3, <1>4, <1>6, <1>7
  <2> QED
    BY <2>1, <2>2, <1>6
<1>9. ~IsPublished(c)' /\ Exists(c)'
  BY <1>1, <1>4 DEF IsPublished, Exists
<1> QED
  BY <1>2, <1>3, <1>4, <1>6, <1>8, <1>9 DEF MemberOK

LEMMA WithdrawGroup ==
    ASSUME GroupInv, UNCHANGED seen, UnpublishGroup
    PROVE  GroupInv'
<1>1. PICK base : base = WithBaseline
  OBVIOUS
<1>2. PICK items : items = [c \in {x \in Children : IsPublished(x)} |-> Item(c, 1, "remove")]
  OBVIOUS
<1>0. PICK v : v = page.ver + 1
  OBVIOUS
<1>3. /\ page.status # "publishing" /\ InsertManifest("unpublished", items)
      /\ pageProj' = NoPageProj /\ \A c \in Children : ~IsPublished(c)'
      /\ UpdateMembers(items) /\ InsertRevisions(DOMAIN items) /\ InsertPageRevision
      /\ page' = [Status("unpublished") EXCEPT !.pub = NoRef] /\ seen' = seen
      /\ DOMAIN childProj' = Children
  BY <1>2 DEF UnpublishGroup, Mutable, InFlight, ClearBanner, IsPublished
<1>4. DOMAIN page' = DOMAIN page /\ page'.status = "unpublished" /\ page'.ver = v
  BY <1>0, <1>3, StatusFacts
<1>5. v \in Nat \ {0} /\ page.ver \in Nat /\ v = page.ver + 1
  BY <1>0 DEF GroupInv, PageOK
<1>6. DOMAIN items = {x \in Children : IsPublished(x)}
  BY <1>2
<1>7. ASSUME NEW c \in Children \ DOMAIN items
      PROVE  MemberOK(c)' /\ child'[c] = child[c] /\ childRev'[c] = childRev[c]
  <2>1. child'[c] = child[c] /\ childRev'[c] = childRev[c] /\ ~IsPublished(c)'
    BY <1>3 DEF UpdateMembers, InsertRevisions
  <2>2. MemberOK(c)
    BY DEF GroupInv, MembersOK
  <2> QED
    BY <2>1, <2>2 DEF MemberOK, Exists
<1>8. MembersOK'
  <2>1. DOMAIN child' = Children /\ DOMAIN childRev' = Children
    BY <1>3 DEF UpdateMembers, InsertRevisions
  <2> QED
    BY <2>1, <1>3, <1>6, <1>7, WithdrawnMember DEF MembersOK
<1>9. PageOK'
  BY <1>3, <1>4, <1>5 DEF PageOK, PageIsPublished, GroupInv
<1>10. /\ OldManifests(base, v) /\ v \notin DOMAIN base
       /\ Manifested(base, v, "unpublished", items)
  BY <1>0, <1>1, <1>3, Baseline, InsertedManifest
<1>11. ASSUME NEW c \in DOMAIN items
       PROVE  /\ c \in Children /\ Exists(c) /\ ItemOK(items[c])
              /\ HasRevision(c, items[c], "unpublished")'
  <2>1. c \in Children /\ IsPublished(c)
    BY <1>6
  <2>2. items[c].source = child[c].ver /\ items[c].target = child[c].ver + 1
        /\ items[c].action = "remove"
    BY <1>2 DEF Item
  <2> QED
    BY <2>1, <2>2, WithdrawnMember DEF ItemOK, HasRevision
<1>12. ManifestsOK'
  <2>1. ItemsOK(items)
    BY <1>11 DEF ItemsOK
  <2>2. \A c \in Children : Exists(c) =>
            Exists(c)' /\ DOMAIN childRev[c] \subseteq DOMAIN childRev'[c]
    BY <1>6, <1>7, WithdrawnMember DEF Exists
  <2>3. DOMAIN pageRev \subseteq DOMAIN pageRev' /\ v \in DOMAIN pageRev'
    BY <1>3, <1>4 DEF InsertPageRevision, Put
  <2> QED
    BY <1>4, <1>10, <1>11, <2>1, <2>2, <2>3, NewManifest
<1>13. FlightOK'
  BY <1>4, <1>10 DEF FlightOK, Manifested, OldManifests
<1>14. LatestDecides'
  <2>1. v \in Finished' /\ \A x \in Finished' : x <= v
    <3>1. \A x \in DOMAIN base : x \in Nat /\ x <= v
      BY <1>5, <1>10 DEF OldManifests, ManifestOK
    <3> QED
      BY <1>5, <1>10, <3>1 DEF Finished, Manifested
  <2>2. PICK m : m = [state |-> "unpublished", items |-> items]
    OBVIOUS
  <2>3. manifest'[v] = m /\ m.state = "unpublished"
    BY <1>10, <2>2 DEF Manifested
  <2>4. DecidedBy(v, m)'
    BY <1>3, <2>3 DEF DecidedBy, PageIsPublished
  <2> QED
    BY <2>1, <2>3, <2>4 DEF LatestDecides
<1>15. SeenOK'
  <2>1. seen.ver \in Nat /\ seen.ver <= page.ver
    BY DEF GroupInv, SeenOK
  <2>2. seen.ver # page'.ver /\ seen.ver <= page'.ver
    BY <1>4, <1>5, <2>1
  <2> QED
    BY <1>3, <2>1, <2>2 DEF GroupInv, SeenOK, GroupPublishesWhatWasSeen
<1> QED
  BY <1>8, <1>9, <1>12, <1>13, <1>14, <1>15 DEF GroupInv

----------------------------------------------------------------------------
(* Publication of home by a worker                                         *)

\* A publication of home begins or fails: no public row and no member changes.
LEMMA FlownGroup ==
    ASSUME GroupInv, NEW base, NEW v, NEW state \in {"pending", "failed"}, NEW items,
           OldManifests(base, v), DecidesIn(base), Manifested(base, v, state, items),
           v \in DOMAIN base => base[v].state = "pending", ItemsOK(items),
           DOMAIN page' = DOMAIN page, page'.ver = v,
           page'.status = "publishing" <=> state = "pending",
           state = "pending" => MembersFit(items),
           UNCHANGED <<child, pageRev, childRev, pageProj, childProj, seen>>
    PROVE  GroupInv'
<1>1. v \in Nat \ {0} /\ page.ver \in Nat /\ page.ver <= v
  BY DEF GroupInv, PageOK, OldManifests
<1>2. PageOK'
  BY <1>1 DEF GroupInv, PageOK, PageIsPublished
<1>3. MembersOK'
  BY DEF GroupInv, MembersOK, MemberOK, Exists, IsPublished
<1>4. ManifestsOK'
  <2>1. \A c \in Children : Exists(c) =>
            Exists(c)' /\ DOMAIN childRev[c] \subseteq DOMAIN childRev'[c]
    BY DEF Exists
  <2> QED
    BY <2>1, NewManifest
<1>5. PICK m : m = [state |-> state, items |-> items]
  OBVIOUS
<1>6. manifest'[v] = m /\ m.state = state /\ m.items = items
  BY <1>5 DEF Manifested
<1>7. FlightOK'
  <2>1. \A w \in DOMAIN manifest' :
            manifest'[w].state = "pending" <=> state = "pending" /\ w = v
    BY <1>6 DEF Manifested, OldManifests
  <2>2. MembersFit(items) => MembersFit(items)'
    BY DEF MembersFit
  <2> QED
    BY <1>6, <2>1, <2>2 DEF FlightOK, Manifested
<1>8. LatestDecides'
  <2>1. Finished' = {x \in DOMAIN base : base[x].state \in {"published", "unpublished"}}
    BY <1>6 DEF Finished, Manifested
  <2>2. \A w \in Finished' : manifest'[w] = base[w]
    BY <1>6 DEF Finished, Manifested
  <2>3. ASSUME NEW w, NEW x, DecidedBy(w, x)
        PROVE  DecidedBy(w, x)'
    BY <2>3 DEF DecidedBy, PageIsPublished, IsPublished
  <2>4. SUFFICES ASSUME Finished' # {}
                 PROVE  \E w \in Finished' : /\ \A x \in Finished' : x <= w
                                             /\ DecidedBy(w, manifest[w])'
    BY DEF LatestDecides
  <2>5. PICK w \in Finished' : (\A x \in Finished' : x <= w) /\ DecidedBy(w, base[w])
    BY <2>1, <2>4 DEF DecidesIn
  <2>6. PICK x : x = base[w]
    OBVIOUS
  <2>7. DecidedBy(w, x)' /\ manifest'[w] = x
    BY <2>2, <2>3, <2>5, <2>6
  <2> QED
    BY <2>5, <2>7
<1>9. SeenOK'
  <2>1. Texts' = Texts
    BY DEF Texts, Members
  <2>2. seen.ver \in Nat /\ seen.ver <= page.ver
    BY DEF GroupInv, SeenOK
  <2>3. seen.ver <= page'.ver /\ (seen.ver = page'.ver => seen.ver = page.ver)
    BY <1>1, <2>2
  <2> QED
    BY <2>1, <2>2, <2>3 DEF GroupInv, SeenOK, GroupPublishesWhatWasSeen
<1> QED
  BY <1>2, <1>3, <1>4, <1>7, <1>8, <1>9 DEF GroupInv

LEMMA StartGroup ==
    ASSUME GroupInv, UNCHANGED seen, StartHomePublish
    PROVE  GroupInv'
<1>1. PICK base, items, v :
            base = WithBaseline /\ items = CollectManifest /\ v = page.ver + 1
  OBVIOUS
<1>2. page.status # "publishing"
  BY DEF StartHomePublish, Mutable, InFlight
<1>3. DOMAIN page' = DOMAIN page /\ page'.ver = v /\ page'.status = "publishing"
  BY <1>1, StatusFacts DEF StartHomePublish
<1>4. Manifested(base, v, "pending", items)
  BY <1>1, InsertedManifest DEF StartHomePublish
<1>5. OldManifests(base, v) /\ DecidesIn(base) /\ v \notin DOMAIN base
  BY <1>1, <1>2, Baseline
<1>6. ItemsOK(items) /\ MembersFit(items)
  BY <1>1, CollectedItems
<1> QED
  BY <1>3, <1>4, <1>5, <1>6, FlownGroup DEF StartHomePublish

\* What failEvent does to the page and its manifest, or nothing.
LEMMA FailedGroup ==
    ASSUME GroupInv, NEW k, FailHome(k),
           UNCHANGED <<child, pageRev, childRev, pageProj, childProj, seen>>
    PROVE  GroupInv'
<1> DEFINE hit == k.kind = "publish" /\ page.status = "publishing" /\ page.ver = k.ver
<1>1. hit <=> k.kind = "publish" /\ IsPending(k.ver)
  BY DEF GroupInv, FlightOK, IsPending
<1>2. CASE ~hit
  <2>1. page' = page /\ manifest' = manifest
    BY <1>1, <1>2 DEF FailHome
  <2> QED
    BY <2>1 DEF GroupInv, PageOK, PageIsPublished, MembersOK, MemberOK, Exists, IsPublished,
        ManifestsOK, ManifestOK, ItemsOK, ItemOK, HasRevision, FlightOK, MembersFit,
        LatestDecides, Finished, DecidedBy, SeenOK, GroupPublishesWhatWasSeen, Texts, Members
<1>3. CASE hit
  <2>1. PICK v, items : v = page.ver /\ items = manifest[v].items
    OBVIOUS
  <2>2. v \in DOMAIN manifest /\ manifest[v].state = "pending" /\ k.ver = v
    BY <1>3, <2>1 DEF GroupInv, FlightOK
  <2>3. /\ page' = [page EXCEPT !.status = "publish_failed"]
        /\ manifest' = [manifest EXCEPT ![v].state = "failed"]
    BY <1>1, <1>3, <2>1, <2>2 DEF FailHome
  <2>4. DOMAIN page' = DOMAIN page /\ page'.ver = v /\ page'.status = "publish_failed"
    BY <2>1, <2>3 DEF GroupInv, PageOK
  <2>5. ManifestOK(v, manifest[v])
    BY <2>2 DEF GroupInv, ManifestsOK
  <2>6. manifest'[v] = [state |-> "failed", items |-> items]
    <3>1. DOMAIN manifest[v] = {"state", "items"}
      BY <2>5 DEF ManifestOK
    <3>2. manifest'[v] = [manifest[v] EXCEPT !.state = "failed"]
      BY <2>2, <2>3
    <3> QED
      BY <2>1, <3>1, <3>2
  <2>7. Manifested(manifest, v, "failed", items)
    BY <2>2, <2>3, <2>6 DEF Manifested
  <2>8. OldManifests(manifest, v)
    BY <2>1 DEF GroupInv, ManifestsOK, FlightOK, OldManifests
  <2>9. DecidesIn(manifest)
    BY DEF GroupInv, LatestDecides, DecidesIn, Finished
  <2>10. ItemsOK(items)
    BY <2>1, <2>5 DEF ManifestOK
  <2> QED
    BY <2>2, <2>4, <2>7, <2>8, <2>9, <2>10, FlownGroup
<1> QED
  BY <1>2, <1>3

LEMMA CompleteGroup ==
    ASSUME GroupInv, UNCHANGED seen, NEW k, NEW r, Current(k), PublishHome(k, r)
    PROVE  GroupInv'
<1>1. PICK v, items : v = page.ver /\ items = manifest[v].items
  OBVIOUS
<1>2. k.ver = v /\ page.status = "publishing"
  BY <1>1 DEF Current
<1>3. v \in DOMAIN manifest /\ MembersFit(items)
  BY <1>1, <1>2 DEF GroupInv, FlightOK
<1>4. ManifestOK(v, manifest[v])
  BY <1>3 DEF GroupInv, ManifestsOK
<1>5. ItemsOK(items)
  BY <1>1, <1>4 DEF ManifestOK
<1>6. /\ page' = [page EXCEPT !.status = "published", !.pub = r]
      /\ manifest' = [manifest EXCEPT ![v].state = "published"]
  BY <1>1, <1>2 DEF PublishHome
<1>7. DOMAIN page' = DOMAIN page /\ page'.status = "published" /\ page'.ver = v
  BY <1>1, <1>6 DEF GroupInv, PageOK
<1>8. Published(v, items)
  BY <1>1, <1>2, <1>7 DEF Published, PublishHome
<1>9. manifest'[v] = [state |-> "published", items |-> items]
  <2>1. DOMAIN manifest[v] = {"state", "items"}
    BY <1>4 DEF ManifestOK
  <2>2. manifest'[v] = [manifest[v] EXCEPT !.state = "published"]
    BY <1>3, <1>6
  <2> QED
    BY <1>1, <2>1, <2>2
<1>10. Manifested(manifest, v, "published", items)
  BY <1>3, <1>6, <1>9 DEF Manifested
<1>11. OldManifests(manifest, v)
  BY <1>1 DEF GroupInv, ManifestsOK, FlightOK, OldManifests
<1> QED
  BY <1>3, <1>5, <1>8, <1>10, <1>11, PublishedGroup

----------------------------------------------------------------------------
(* The theorems                                                            *)

LEMMA InitGroup ==
    ASSUME GroupInit
    PROVE  GroupInv
<1>1. PICK first : first = CHOOSE c \in Children : TRUE
  OBVIOUS
<1>2. PICK body, status, ver :
        /\ status = (IF Legacy THEN "published" ELSE "draft")
        /\ ver = (IF Legacy THEN 2 ELSE 1)
        /\ page = [status |-> status, ver |-> ver, body |-> body, pub |-> NoRef]
        /\ pageRev = [v \in 1 .. page.ver |-> body]
        /\ pageProj = (IF Legacy THEN [ver |-> 2, body |-> body] ELSE NoPageProj)
  BY DEF GroupInit
<1>3. /\ DOMAIN page = {"status", "ver", "body", "pub"} /\ page.ver = ver /\ page.status # "publishing"
      /\ page.ver \in Nat \ {0}
  BY <1>2
<1>8. DOMAIN pageRev = 1 .. ver
  BY <1>2, <1>3
<1>9. PageOK
  <2>1. CASE Legacy
    <3>1. pageProj.ver = 2 /\ ver = 2
      BY <1>2, <2>1
    <3> QED
      BY <1>3, <1>8, <3>1 DEF PageOK
  <2>2. CASE ~Legacy
    <3>1. ~PageIsPublished
      BY <1>2, <2>2 DEF PageIsPublished
    <3> QED
      BY <1>3, <3>1 DEF PageOK
  <2> QED
    BY <2>1, <2>2
<1>4. ASSUME NEW c \in Children
      PROVE  MemberOK(c)
  <2>1. CASE Legacy /\ c = first
    <3>1. /\ child[c] = [status |-> "published", ver |-> 2, text |-> 1]
          /\ childRev[c] = [v \in 1 .. 2 |-> 1]
          /\ childProj[c] = [ver |-> 2, text |-> 1]
      BY <1>1, <2>1 DEF GroupInit
    <3> QED
      BY <3>1 DEF MemberOK, MemberRows, MemberStatuses, Exists
  <2>2. CASE ~(Legacy /\ c = first)
    <3>1. /\ child[c] = [status |-> "absent", ver |-> 0, text |-> 0]
          /\ childRev[c] = [v \in {} |-> 0]
          /\ childProj[c] = NoChildProj
      BY <1>1, <2>2 DEF GroupInit, Gone
    <3> QED
      BY <3>1 DEF MemberOK, MemberRows, MemberStatuses, Exists, IsPublished
  <2> QED
    BY <2>1, <2>2
<1>5. MembersOK
  BY <1>4 DEF MembersOK, GroupInit
<1>6. ManifestsOK /\ FlightOK /\ LatestDecides
  <2>1. DOMAIN manifest = {}
    BY DEF GroupInit
  <2> QED
    BY <1>3, <2>1 DEF ManifestsOK, FlightOK, LatestDecides, Finished
<1>7. SeenOK
  <2>1. seen = [ver |-> 0, listed |-> FALSE, texts |-> [c \in {} |-> 0]]
    BY DEF GroupInit
  <2>2. DOMAIN seen = {"ver", "listed", "texts"} /\ seen.ver = 0 /\ ~seen.listed
    BY <2>1
  <2> QED
    BY <1>3, <2>2 DEF SeenOK, GroupPublishesWhatWasSeen
<1> QED
  BY <1>9, <1>5, <1>6, <1>7 DEF GroupInv

\* The rows of the group are left alone.
LEMMA SameGroup ==
    ASSUME GroupInv, UNCHANGED <<groupRows, seen>>
    PROVE  GroupInv'
BY DEF groupRows, GroupInv, PageOK, PageIsPublished, MembersOK, MemberOK, Exists, IsPublished,
       ManifestsOK, ManifestOK, ItemsOK, ItemOK, HasRevision, FlightOK, MembersFit,
       LatestDecides, Finished, DecidedBy, SeenOK, GroupPublishesWhatWasSeen, Texts, Members

LEMMA EditGroup ==
    ASSUME GroupInv, GroupEdit, UNCHANGED seen
    PROVE  GroupInv'
<1>1. ASSUME NEW c \in Children, CreateChild(c) \/ UpdateChild(c) \/ RemoveChild(c)
      PROVE  GroupInv'
  BY <1>1, EditMember, EditedGroup
<1>2. ASSUME NEW c \in Children, DeleteChild(c)
      PROVE  GroupInv'
  BY <1>2, DeleteMember, EditedGroup
<1>3. ASSUME NEW body, UpdatePage(body)
      PROVE  GroupInv'
  BY <1>3, WrittenPage, EditedGroup DEF UpdatePage, Mutable, InFlight
<1>4. ASSUME NEW v \in Finished, RestorePageGroup(v)
      PROVE  GroupInv'
  BY <1>4, RestoredGroup, EditedGroup
<1> QED
  BY <1>1, <1>2, <1>3, <1>4, PublishGroup, WithdrawGroup, StartGroup
     DEF GroupEdit, EditText, AttachBanner

LEMMA ReadGroup ==
    ASSUME GroupInv, ReadPage \/ ReadMembers
    PROVE  GroupInv'
<1>1. UNCHANGED groupRows
  BY DEF ReadPage, ReadMembers
<1>2. SeenOK'
  <2>1. Texts' = Texts
    BY <1>1 DEF groupRows, Texts, Members
  <2>2. page' = page /\ page.ver \in Nat /\ SeenOK
    BY <1>1 DEF groupRows, GroupInv, PageOK
  <2>3. CASE ReadPage
    BY <2>2, <2>3 DEF ReadPage, SeenOK, GroupPublishesWhatWasSeen
  <2>4. CASE ReadMembers
    <3>1. seen' = [seen EXCEPT !.listed = TRUE, !.texts = Texts]
      BY <2>4 DEF ReadMembers
    <3>2. /\ DOMAIN seen' = {"ver", "listed", "texts"} /\ seen'.ver = seen.ver
          /\ seen'.texts = Texts
      BY <2>2, <3>1 DEF SeenOK
    <3> QED
      BY <2>1, <2>2, <3>2 DEF SeenOK, GroupPublishesWhatWasSeen
  <2> QED
    BY <2>3, <2>4
<1>3. (PageOK /\ MembersOK /\ ManifestsOK /\ FlightOK /\ LatestDecides)'
  BY <1>1 DEF groupRows, GroupInv, PageOK, PageIsPublished, MembersOK, MemberOK, Exists,
       IsPublished, ManifestsOK, ManifestOK, ItemsOK, ItemOK, HasRevision, FlightOK,
       MembersFit, LatestDecides, Finished, DecidedBy
<1> QED
  BY <1>2, <1>3 DEF GroupInv

LEMMA WorkGroup ==
    ASSUME GroupInv, NEW w \in Workers, GroupWorker(w), UNCHANGED seen
    PROVE  GroupInv'
<1>1. CASE UNCHANGED groupRows
  BY <1>1, SameGroup
<1>2. CASE CompleteHomePublish(w)
  <2>1. PICK k, r : k = work[w].key /\ r = First(work[w].done)
    OBVIOUS
  <2>2. UNCHANGED groupRows \/ (Current(k) /\ PublishHome(k, r))
    BY <1>2, <2>1 DEF CompleteHomePublish
  <2> QED
    BY <2>2, SameGroup, CompleteGroup
<1>3. CASE FailContentPublish(w) \/ Fail(w)
  <2>1. PICK k : k = work[w].key
    OBVIOUS
  <2>2. UNCHANGED groupRows \/ (FailHome(k) /\ UNCHANGED otherRows)
    BY <1>3, <2>1 DEF FailContentPublish, Fail
  <2> QED
    BY <2>2, SameGroup, FailedGroup DEF otherRows
<1> QED
  BY <1>1, <1>2, <1>3 DEF GroupWorker

LEMMA NextGroup ==
    ASSUME GroupInv, GroupNext \/ UNCHANGED <<groupRows, seen>>
    PROVE  GroupInv'
BY EditGroup, ReadGroup, WorkGroup, SameGroup DEF GroupNext

LEMMA NextMigration ==
    ASSUME GroupInv, MigrationNext
    PROVE  GroupInv'
<1>1. CASE GroupNext
  BY <1>1, NextGroup
<1>2. CASE ApplyMigration /\ UNCHANGED seen
  <2>1. page.status # "publishing"
    BY <1>2 DEF ApplyMigration, CanPlan
  <2>2. Edited
    BY <1>2, <2>1, WrittenPage DEF ApplyMigration
  <2> QED
    BY <2>2, EditedGroup
<1>3. CASE UNCHANGED <<groupRows, seen>>
  BY <1>3, SameGroup
<1> QED
  BY <1>1, <1>2, <1>3 DEF MigrationNext, PlanMigration

LEMMA GroupInvariant == (GroupSpec \/ MigrationSpec) => []GroupInv
<1>1. GroupInit => GroupInv
  BY InitGroup
<1>2. GroupInv /\ [GroupNext]_groupVars => GroupInv'
  BY NextGroup DEF groupVars
<1>3. GroupInv /\ [MigrationNext]_migrationVars => GroupInv'
  BY NextMigration, NextGroup DEF migrationVars, groupVars
<1> QED
  BY <1>1, <1>2, <1>3, PTL DEF GroupSpec, MigrationSpec

\* The members an editor read after a page are those that a publication with
\* the version that was read takes along: every change of a member before it
\* makes the page a new version (touchPageGroup), and a worker that completes a
\* publication changes no text (completeHomePublish).
THEOREM GroupsPublishWhatWasSeen ==
    (GroupSpec \/ MigrationSpec) => []GroupPublishesWhatWasSeen
BY GroupInvariant, PTL DEF GroupInv, SeenOK

\* A revision of a group that is listed can be restored (RestorePageGroup),
\* however its members were edited, removed and deleted since.
THEOREM GroupsAreRestorable ==
    (GroupSpec \/ MigrationSpec) => []GroupRevisionsAreRestorable
<1>1. GroupInv => GroupRevisionsAreRestorable
  BY DEF GroupInv, ManifestsOK, ManifestOK, ItemsOK, HasRevision, Finished,
         GroupRevisionsAreRestorable
<1> QED
  BY <1>1, GroupInvariant, PTL

LEMMA LatestFinished ==
    ASSUME GroupInv, Finished # {}
    PROVE  /\ Latest \in DOMAIN manifest /\ ManifestOK(Latest, manifest[Latest])
           /\ DecidedBy(Latest, manifest[Latest])
           /\ manifest[Latest].state \in {"published", "unpublished"}
<1>1. PICK v \in Finished : (\A x \in Finished : x <= v) /\ DecidedBy(v, manifest[v])
  BY DEF GroupInv, LatestDecides
<1>2. \A x \in Finished : x \in Nat /\ x \in DOMAIN manifest /\ ManifestOK(x, manifest[x])
  BY DEF GroupInv, ManifestsOK, ManifestOK, Finished
<1>3. \A x \in Finished : (\A y \in Finished : y <= x) => x = v
  BY <1>1, <1>2
<1>4. Latest = v
  BY <1>1, <1>3 DEF Latest
<1> QED
  BY <1>1, <1>2, <1>4 DEF Finished

\* What is public of a group is what its latest finished publication decided,
\* member by member and text by text, and the members a publication that runs
\* has collected are still as it collected them (the manifests of
\* page_group_repository.go).
THEOREM ManifestsAreTrue ==
    (GroupSpec \/ MigrationSpec) => []ManifestsMatchMembers
<1>1. ASSUME GroupInv
      PROVE  ManifestsMatchMembers
  <2>1. {v \in DOMAIN manifest : manifest[v].state = "pending"}
            = IF page.status = "publishing" THEN {page.ver} ELSE {}
    BY <1>1 DEF GroupInv, FlightOK
  <2>2. page.status = "publishing" => MembersFit(manifest[page.ver].items)
    BY <1>1 DEF GroupInv, FlightOK
  <2>3. ASSUME Finished # {}, NEW m, m = manifest[Latest]
        PROVE  IF m.state = "unpublished"
               THEN ~PageIsPublished /\ \A c \in Children : ~IsPublished(c)
               ELSE /\ pageProj.ver = Latest
                    /\ {c \in DOMAIN m.items : m.items[c].action # "remove"}
                            = {c \in Children : IsPublished(c)}
                    /\ \A c \in {x \in DOMAIN m.items : m.items[x].action # "remove"} :
                            /\ childProj[c].ver = m.items[c].target
                            /\ childProj[c].text = childRev[c][m.items[c].target]
    <3>1. ManifestOK(Latest, m) /\ DecidedBy(Latest, m)
      BY <1>1, <2>3, LatestFinished
    <3>2. DOMAIN m.items \subseteq Children
      BY <3>1 DEF ManifestOK, ItemsOK
    <3>3. \A c \in Children : IsPublished(c) => childRev[c][childProj[c].ver] = childProj[c].text
      BY <1>1 DEF GroupInv, MembersOK, MemberOK
    <3> QED
      BY <3>1, <3>2, <3>3 DEF DecidedBy
  <2> QED
    BY <2>1, <2>2, <2>3 DEF ManifestsMatchMembers
<1> QED
  BY <1>1, GroupInvariant, PTL

----------------------------------------------------------------------------
(* The grants of the covers of news and of the banner of home              *)

RevokeKinds   == {"unpublish", "revoke", "compensate"}
EventStatuses == {"pending", "processing", "delivered", "failed"}

\* The grant a publication of version v asks for.
GrantFor(r, v) == Ref(r.image, r.asset, v)

\* An event never changes but in its status and attempts.
EventOK(k, e) ==
    /\ DOMAIN e = {"status", "attempts", "refs"}
    /\ e.status \in EventStatuses
    /\ k.kind \in RevokeKinds \cup {"publish", "delete"}
    /\ \A r \in e.refs : r = Ref(r.image, r.asset, r.grant) /\ r.image \in Images
    /\ k.kind \in RevokeKinds \cup {"publish"} =>
            \A r, s \in e.refs : r.image = s.image => r = s
    /\ k.kind = "publish" => k = PublishKey(k.ver)
    /\ k.kind \in {"publish", "unpublish"} => k.ver \in Nat \ {0}
    /\ k.kind = "publish" => \A r \in e.refs : r.asset # 0
    /\ k.kind = "revoke" => e.refs # {} /\ \A r \in e.refs : k = RevokeKey(r)
    /\ k.kind = "compensate" => e.refs # {} /\ \A r \in e.refs : k = CompensateKey(r)

EventsOK == \A k \in DOMAIN outbox : EventOK(k, outbox[k])

HasEnded(v, status) ==
    PublishKey(v) \in DOMAIN outbox /\ outbox[PublishKey(v)].status = status

\* What is revoked was granted by a publication that has ended.
RevocationsFollow ==
    \A k \in DOMAIN outbox : k.kind \in RevokeKinds =>
        \A r \in outbox[k].refs :
            HasEnded(r.grant, IF k.kind = "compensate" THEN "failed" ELSE "delivered")

\* A revocation ends when its grants are gone.
RevocationsWork ==
    \A k \in DOMAIN outbox : k.kind \in RevokeKinds /\ ~Open(k) =>
        outbox[k].refs \cap grants = {}

GrantsHaveEvents ==
    \A g \in grants : /\ PublishKey(g.grant) \in DOMAIN outbox
                      /\ \E r \in outbox[PublishKey(g.grant)].refs : g = GrantFor(r, g.grant)

BoxInv == EventsOK /\ RevocationsFollow /\ RevocationsWork /\ GrantsHaveEvents

Deleting == \E k \in DOMAIN outbox : k.kind = "delete"

\* Where a worker with the event e of key k can be, and what it has done.
StepFits(k, e, pc, done) ==
    /\ e.status # "pending"
    /\ pc \in {"get", "grant", "complete", "confirm", "compensate", "defer"} => k.kind = "publish"
    /\ pc = "revoke" => k.kind \in RevokeKinds
    /\ pc = "delete" => k.kind = "delete"
    /\ pc = "finish" => k.kind # "publish"
    /\ pc \notin {"retry", "confirm", "fail"} => e.status = "processing"
    /\ pc = "confirm" => e.status # "failed"
    /\ pc = "fail" /\ k.kind = "publish" => e.status = "processing"
    /\ k.kind = "publish" => \A r \in done : \E x \in e.refs : r = GrantFor(x, k.ver)
    /\ pc \in {"get", "grant", "complete"} => done \subseteq grants \/ Deleting
    /\ pc = "complete" => \A x \in e.refs : GrantFor(x, k.ver) \in done
    /\ k.kind \in RevokeKinds => done \subseteq e.refs /\ done \cap grants = {}
    /\ k.kind \in RevokeKinds /\ pc \in {"finish", "fail"} => e.refs \cap grants = {}

Pcs == {"get", "grant", "complete", "confirm", "compensate", "revoke", "delete", "finish",
        "retry", "defer", "fail"}

HolderOK(w) ==
    /\ DOMAIN work[w] = {"pc", "key", "att", "done"}
    /\ work[w].pc \in Pcs
    /\ work[w].key \in DOMAIN outbox
    /\ StepFits(work[w].key, outbox[work[w].key], work[w].pc, work[w].done)

HoldersOK ==
    /\ DOMAIN work = Workers
    /\ \A w \in Workers : work[w] # Idle => HolderOK(w)
    /\ \A w, x \in Workers :
            work[w] # Idle /\ work[x] # Idle /\ work[w].key = work[x].key => w = x

\* As long as no worker loses its lease.
FleetInv == BoxInv /\ HoldersOK

\* A grant of a publication that was delivered is one of those that are
\* recorded, or something is to revoke it.
AccountedFor(recorded) ==
    \A g \in grants : HasEnded(g.grant, "delivered") =>
        \/ g \in recorded
        \/ \E k \in DOMAIN outbox : k.kind \in RevokeKinds /\ Open(k) /\ g \in outbox[k].refs

\* A recorded grant is of a publication that was delivered, and no event has
\* been written to take it back.
RecordedOK(r) ==
    /\ HasEnded(r.grant, "delivered")
    /\ RevokeKey(r) \notin DOMAIN outbox

IsRevoked(r) == \E k \in DOMAIN outbox : k.kind \in RevokeKinds /\ r \in outbox[k].refs

\* Worker w knows of the grant g of the publication it runs.
Known(w, g) == work[w] # Idle /\ work[w].key = PublishKey(g.grant) /\ g \in work[w].done

IsTaken(g) == \E k \in DOMAIN outbox : k.kind \in RevokeKinds /\ Open(k) /\ g \in outbox[k].refs

\* An attempt that has no answer about its images yet has no grant.
StartsEmpty(w) ==
    work[w] # Idle /\ work[w].key.kind = "publish" /\ work[w].pc \in {"get", "defer", "fail"} =>
        work[w].done = {}

\* A live grant of a publication that runs or has failed is one that no attempt
\* knows of, or its attempt knows of it, or something is to revoke it.
StrayOK(g) ==
    /\ Open(PublishKey(g.grant)) => g \in faults.stray \/ \E w \in Workers : Known(w, g)
    /\ HasEnded(g.grant, "failed") => g \in faults.stray \/ IsTaken(g)

StrayInv == (\A w \in Workers : StartsEmpty(w)) /\ \A g \in grants : StrayOK(g)

----------------------------------------------------------------------------
(* The banner                                                              *)

BannerEvents ==
    \A k \in DOMAIN outbox :
        /\ k.kind \in {"publish", "revoke", "compensate"}
        /\ k.kind = "publish" => k.ver <= page.ver
        /\ k.kind = "publish" => \E r \in outbox[k].refs : outbox[k].refs = {r} /\ r.image = Banner

BannerRecorded ==
    page.pub # NoRef => /\ page.pub = Ref(Banner, page.pub.asset, page.pub.grant)
                        /\ RecordedOK(page.pub)

BannerServed ==
    pageProj.body.template = "home.v2" =>
        /\ page.pub # NoRef
        /\ page.pub = Ref(Banner, pageProj.body.banner, pageProj.ver)
        /\ page.pub \in grants

BannerInv ==
    /\ FleetInv
    /\ BannerEvents
    /\ BannerRecorded
    /\ BannerServed
    /\ AccountedFor({page.pub})

FaultsOK == DOMAIN faults = {"count", "lost", "stray"} /\ faults.lost \in BOOLEAN

\* A step after which s are the grants no attempt knows of.
StraysTo(s) ==
    \/ faults' = [faults EXCEPT !.stray = s]
    \/ faults.count < MaxFaults /\ faults' = [faults EXCEPT !.count = @ + 1, !.stray = s]

HomeInv == GroupInv /\ FaultsOK /\ (~faults.lost => BannerInv /\ StrayInv)

----------------------------------------------------------------------------
(* The covers                                                              *)

CoverRefs(v) == {Ref(i, entry.cover[i], v) : i \in {j \in Covers : entry.cover[j] # 0}}

EntryOK ==
    /\ DOMAIN entry = {"status", "ver", "cover", "pub"}
    /\ entry.ver \in Nat
    /\ DOMAIN entry.cover = Covers /\ DOMAIN entry.pub = Covers
    /\ \A i \in Covers : entry.pub[i] = Ref(i, entry.pub[i].asset, entry.pub[i].grant)
    /\ \A v \in DOMAIN revision : DOMAIN revision[v] = Covers

NewsEvents ==
    /\ entry.status # "deleted" =>
          \A k \in DOMAIN outbox : k.kind \in {"publish", "unpublish"} => k.ver <= entry.ver
    /\ \A k \in DOMAIN outbox : k.kind = "unpublish" => k = UnpublishKey(k.ver)
    /\ Deleting => entry.status = "deleted"

\* What the publication or withdrawal that runs was asked for.
NewsFlight ==
    /\ entry.status = "publishing" =>
          /\ PublishKey(entry.ver) \in DOMAIN outbox
          /\ outbox[PublishKey(entry.ver)].refs = CoverRefs(0)
    /\ entry.status = "unpublishing" =>
          /\ UnpublishKey(entry.ver) \in DOMAIN outbox
          /\ outbox[UnpublishKey(entry.ver)].refs = PublishedAssets

CoversRecorded ==
    \A i \in Covers : entry.pub[i].grant # 0 =>
        entry.pub[i].asset # 0 /\ RecordedOK(entry.pub[i])

CoversServed ==
    \A i \in Covers : proj.cover[i] # 0 =>
        /\ proj.ver # 0
        /\ entry.pub[i] = Ref(i, proj.cover[i], proj.ver)
        /\ entry.pub[i] \in grants
        /\ ~IsRevoked(entry.pub[i])

NewsGone ==
    /\ entry.status = "absent" => entry = NoEntry
    /\ entry.status = "deleted" => proj = NoProj /\ PublishedAssets = {}

CoverInv ==
    /\ EntryOK /\ NewsGone
    /\ FleetInv
    /\ NewsEvents
    /\ NewsFlight
    /\ CoversRecorded
    /\ CoversServed
    /\ AccountedFor(PublishedAssets)

NewsInv == FaultsOK /\ (~faults.lost => CoverInv /\ StrayInv)

----------------------------------------------------------------------------
(* What a step does to the events                                          *)

\* An event a step adds.
AddedOK(k) ==
    /\ EventOK(k, outbox'[k])
    /\ outbox'[k].status = "pending"
    /\ k.kind \in RevokeKinds =>
          \A r \in outbox'[k].refs :
              HasEnded(r.grant, IF k.kind = "compensate" THEN "failed" ELSE "delivered")'

\* An event that was there: what is delivered or failed stays so, and a
\* revocation ends when its grants are gone.
MovedOK(k) ==
    /\ k \in DOMAIN outbox'
    /\ DOMAIN outbox'[k] = DOMAIN outbox[k]
    /\ outbox'[k].refs = outbox[k].refs
    /\ outbox'[k].status \in EventStatuses
    /\ k.kind = "publish" /\ outbox[k].status \in {"delivered", "failed"} =>
            outbox'[k].status = outbox[k].status
    /\ k.kind \in RevokeKinds /\ outbox'[k].status \in {"delivered", "failed"} =>
            outbox'[k].status = outbox[k].status \/ outbox[k].refs \cap grants = {}

BoxMoves ==
    /\ \A k \in DOMAIN outbox : MovedOK(k)
    /\ \A k \in DOMAIN outbox' : k \notin DOMAIN outbox => AddedOK(k)

\* A grant a step adds is of a publication that runs, for an image it has.
NewGrantOK(g) ==
    /\ PublishKey(g.grant) \in DOMAIN outbox /\ outbox[PublishKey(g.grant)].status = "processing"
    /\ outbox'[PublishKey(g.grant)].status = "processing"
    /\ \E r \in outbox[PublishKey(g.grant)].refs : g = GrantFor(r, g.grant)

LEMMA PublishKeyFacts ==
    ASSUME NEW v
    PROVE  PublishKey(v).kind = "publish" /\ PublishKey(v).ver = v
BY DEF PublishKey, Key

LEMMA EndedStays ==
    ASSUME BoxMoves, NEW v, NEW status \in {"delivered", "failed"}, HasEnded(v, status)
    PROVE  HasEnded(v, status)'
BY PublishKeyFacts DEF BoxMoves, MovedOK, HasEnded

\* A grant that is to be revoked is not one that is just being granted.
LEMMA RevokedHasEnded ==
    ASSUME BoxInv, NEW k \in DOMAIN outbox, k.kind \in RevokeKinds, NEW r \in outbox[k].refs
    PROVE  /\ PublishKey(r.grant) \in DOMAIN outbox
           /\ outbox[PublishKey(r.grant)].status \in {"delivered", "failed"}
BY DEF BoxInv, RevocationsFollow, HasEnded

LEMMA MovedBox ==
    ASSUME BoxInv, BoxMoves, \A g \in grants' : g \in grants \/ NewGrantOK(g)
    PROVE  BoxInv' /\ (Deleting => Deleting')
<1>1. EventsOK'
  BY DEF BoxInv, BoxMoves, EventsOK, EventOK, MovedOK, AddedOK
<1>2. RevocationsFollow'
  <2> SUFFICES ASSUME NEW k \in DOMAIN outbox', k.kind \in RevokeKinds, NEW r \in outbox'[k].refs
               PROVE  HasEnded(r.grant, IF k.kind = "compensate" THEN "failed" ELSE "delivered")'
    BY DEF RevocationsFollow
  <2>1. CASE k \notin DOMAIN outbox
    BY <2>1 DEF BoxMoves, AddedOK
  <2>2. CASE k \in DOMAIN outbox
    <3>1. r \in outbox[k].refs
      BY <2>2 DEF BoxMoves, MovedOK
    <3>2. HasEnded(r.grant, IF k.kind = "compensate" THEN "failed" ELSE "delivered")
      BY <2>2, <3>1 DEF BoxInv, RevocationsFollow
    <3>3. CASE k.kind = "compensate"
      BY <3>2, <3>3, EndedStays
    <3>4. CASE k.kind # "compensate"
      BY <3>2, <3>4, EndedStays
    <3> QED
      BY <3>3, <3>4
  <2> QED
    BY <2>1, <2>2
<1>3. RevocationsWork'
  <2> SUFFICES ASSUME NEW k \in DOMAIN outbox', k.kind \in RevokeKinds, ~Open(k)'
               PROVE  outbox'[k].refs \cap grants' = {}
    BY DEF RevocationsWork
  <2>1. k \in DOMAIN outbox /\ outbox'[k].status \in {"delivered", "failed"}
    BY DEF BoxMoves, AddedOK, MovedOK, Open, EventStatuses
  <2>2. outbox'[k].refs = outbox[k].refs /\ outbox[k].refs \cap grants = {}
    BY <2>1 DEF BoxMoves, MovedOK, BoxInv, RevocationsWork, Open
  <2>3. \A r \in outbox[k].refs : r \notin grants'
    BY <2>1, <2>2, RevokedHasEnded DEF NewGrantOK
  <2> QED
    BY <2>2, <2>3
<1>4. GrantsHaveEvents'
  <2> SUFFICES ASSUME NEW g \in grants'
               PROVE  /\ PublishKey(g.grant) \in DOMAIN outbox'
                      /\ \E r \in outbox'[PublishKey(g.grant)].refs : g = GrantFor(r, g.grant)
    BY DEF GrantsHaveEvents
  <2>1. /\ PublishKey(g.grant) \in DOMAIN outbox
        /\ \E r \in outbox[PublishKey(g.grant)].refs : g = GrantFor(r, g.grant)
    BY DEF BoxInv, GrantsHaveEvents, NewGrantOK
  <2> QED
    BY <2>1 DEF BoxMoves, MovedOK
<1>5. Deleting => Deleting'
  BY DEF Deleting, BoxMoves, MovedOK
<1> QED
  BY <1>1, <1>2, <1>3, <1>4, <1>5 DEF BoxInv

LEMMA NotYetRevoked ==
    ASSUME BoxInv, NEW r, ~HasEnded(r.grant, "delivered")
    PROVE  RevokeKey(r) \notin DOMAIN outbox
<1> SUFFICES ASSUME RevokeKey(r) \in DOMAIN outbox
             PROVE  FALSE
  OBVIOUS
<1>1. PICK k : k = RevokeKey(r)
  OBVIOUS
<1>2. k.kind = "revoke" /\ k.ver = r.grant
  BY <1>1 DEF RevokeKey, Key
<1>3. PICK x \in outbox[k].refs : k = RevokeKey(x)
  BY <1>1, <1>2 DEF BoxInv, EventsOK, EventOK
<1>4. x.grant = r.grant
  BY <1>2, <1>3 DEF RevokeKey, Key
<1>5. HasEnded(x.grant, "delivered")
  BY <1>1, <1>2, <1>3 DEF BoxInv, RevocationsFollow, RevokeKinds
<1> QED
  BY <1>4, <1>5

LEMMA CompensateKeyFacts ==
    ASSUME NEW r
    PROVE  CompensateKey(r).kind = "compensate" /\ CompensateKey(r).ver = r.grant
BY DEF CompensateKey, Key

LEMMA NotYetCompensated ==
    ASSUME BoxInv, NEW r, ~HasEnded(r.grant, "failed")
    PROVE  CompensateKey(r) \notin DOMAIN outbox
<1> SUFFICES ASSUME CompensateKey(r) \in DOMAIN outbox
             PROVE  FALSE
  OBVIOUS
<1>1. PICK k : k = CompensateKey(r)
  OBVIOUS
<1>2. k.kind = "compensate" /\ k.ver = r.grant
  BY <1>1, CompensateKeyFacts
<1>3. PICK x \in outbox[k].refs : k = CompensateKey(x)
  BY <1>1, <1>2 DEF BoxInv, EventsOK, EventOK
<1>4. x.grant = r.grant
  BY <1>2, <1>3, CompensateKeyFacts
<1>5. HasEnded(x.grant, "failed")
  BY <1>1, <1>2, <1>3 DEF BoxInv, RevocationsFollow, RevokeKinds
<1> QED
  BY <1>4, <1>5

\* What a step leaves alone of a worker and its event keeps the worker in order.
LEMMA KeptHolder ==
    ASSUME BoxInv, BoxMoves, NEW w, HolderOK(w), work'[w] = work[w],
           outbox'[work[w].key].status = outbox[work[w].key].status,
           \A g \in grants' : g \in grants \/ NewGrantOK(g),
           \A g \in grants : g \in grants' \/ IsRevoked(g) \/ Deleting
    PROVE  HolderOK(w)'
<1>1. PICK k, e, f, pc, done : k = work[w].key /\ e = outbox[k] /\ f = outbox'[k]
                               /\ pc = work[w].pc /\ done = work[w].done
  OBVIOUS
<1>2. k \in DOMAIN outbox /\ StepFits(k, e, pc, done)
  BY <1>1 DEF HolderOK
<1>3. k \in DOMAIN outbox' /\ f.refs = e.refs /\ f.status = e.status /\ (Deleting => Deleting')
  BY <1>1, <1>2, MovedBox DEF BoxMoves, MovedOK
<1>4. pc \in {"get", "grant", "complete"} => done \subseteq grants' \/ Deleting'
  <2> SUFFICES ASSUME pc \in {"get", "grant", "complete"}, ~Deleting', NEW r \in done
               PROVE  r \in grants'
    OBVIOUS
  <2>1. /\ r \in grants /\ ~Deleting /\ k.kind = "publish" /\ e.status = "processing"
        /\ \E x \in e.refs : r = GrantFor(x, k.ver)
    BY <1>2, <1>3 DEF StepFits
  <2>2. r.grant = k.ver /\ k = PublishKey(k.ver)
    BY <1>1, <1>2, <2>1 DEF GrantFor, Ref, BoxInv, EventsOK, EventOK
  <2>3. ~IsRevoked(r)
    BY <1>1, <2>1, <2>2, RevokedHasEnded DEF IsRevoked
  <2> QED
    BY <2>1, <2>3
<1>5. ASSUME k.kind \in RevokeKinds, NEW r \in e.refs, r \notin grants
      PROVE  r \notin grants'
  BY <1>1, <1>2, <1>5, RevokedHasEnded DEF NewGrantOK
<1>6. k.kind \in RevokeKinds => done \subseteq e.refs /\ done \cap grants' = {}
  BY <1>2, <1>5 DEF StepFits
<1>7. k.kind \in RevokeKinds /\ pc \in {"finish", "fail"} => e.refs \cap grants' = {}
  BY <1>2, <1>5 DEF StepFits
<1>8. StepFits(k, f, pc, done)'
  BY <1>2, <1>3, <1>4, <1>6, <1>7 DEF StepFits
<1> QED
  BY <1>1, <1>3, <1>8 DEF HolderOK

\* The grants after a step.
GrantMoves ==
    /\ \A g \in grants' : g \in grants \/ NewGrantOK(g)
    /\ \A g \in grants : g \in grants' \/ IsRevoked(g) \/ Deleting

\* All events but the one of key k.
OthersStay(k) ==
    /\ DOMAIN outbox \subseteq DOMAIN outbox'
    /\ \A x \in DOMAIN outbox : x # k => outbox'[x] = outbox[x]

\* Every step a worker takes.
WorkerMoves(w) ==
    /\ DOMAIN work' = Workers
    /\ \A x \in Workers : x # w => work'[x] = work[x]

LEMMA MovedFleet ==
    ASSUME FleetInv, BoxMoves, GrantMoves, NEW w \in Workers, WorkerMoves(w),
           \A x \in Workers : x # w /\ work[x] # Idle =>
                outbox'[work[x].key].status = outbox[work[x].key].status,
           work'[w] # Idle =>
                /\ HolderOK(w)'
                /\ \A x \in Workers : x # w /\ work[x] # Idle => work[x].key # work'[w].key
    PROVE  FleetInv'
<1>1. BoxInv'
  BY MovedBox DEF FleetInv, GrantMoves
<1>2. ASSUME NEW x \in Workers, work'[x] # Idle
      PROVE  HolderOK(x)'
  <2>1. CASE x = w
    BY <1>2, <2>1
  <2>2. CASE x # w
    <3>1. work'[x] = work[x] /\ HolderOK(x)
      BY <1>2, <2>2 DEF WorkerMoves, FleetInv, HoldersOK
    <3> QED
      BY <1>2, <2>2, <3>1, KeptHolder DEF FleetInv, GrantMoves
  <2> QED
    BY <2>1, <2>2
<1>3. \A x, y \in Workers :
            work'[x] # Idle /\ work'[y] # Idle /\ work'[x].key = work'[y].key => x = y
  BY DEF WorkerMoves, FleetInv, HoldersOK
<1> QED
  BY <1>1, <1>2, <1>3 DEF FleetInv, HoldersOK, WorkerMoves, Idle

\* An editor's step.
LEMMA EditedFleet ==
    ASSUME FleetInv, BoxMoves, UNCHANGED <<work, grants>>,
           \A k \in DOMAIN outbox : outbox'[k] = outbox[k]
    PROVE  FleetInv'
<1>1. GrantMoves
  BY DEF GrantMoves
<1>2. BoxInv'
  BY <1>1, MovedBox DEF FleetInv, GrantMoves
<1>3. ASSUME NEW x \in Workers, work'[x] # Idle
      PROVE  HolderOK(x)'
  <2>1. work'[x] = work[x] /\ HolderOK(x) /\ work[x].key \in DOMAIN outbox
    BY <1>3 DEF FleetInv, HoldersOK, HolderOK
  <2> QED
    BY <1>1, <2>1, KeptHolder DEF FleetInv, GrantMoves
<1> QED
  BY <1>2, <1>3 DEF FleetInv, HoldersOK, Idle

LEMMA BusyHolder ==
    ASSUME HoldersOK, NEW w \in Workers, work[w].pc # "idle"
    PROVE  work[w] # Idle /\ HolderOK(w)
BY DEF HoldersOK, Idle

LEMMA GotoMoves ==
    ASSUME HoldersOK, NEW w \in Workers, work[w] # Idle, NEW pc, Goto(w, pc)
    PROVE  /\ WorkerMoves(w)
           /\ DOMAIN work'[w] = {"pc", "key", "att", "done"}
           /\ work'[w].pc = pc /\ work'[w].key = work[w].key /\ work'[w].done = work[w].done
           /\ \A x \in Workers : x # w /\ work[x] # Idle => work[x].key # work'[w].key
<1>1. DOMAIN work = Workers /\ DOMAIN work[w] = {"pc", "key", "att", "done"}
  BY DEF HoldersOK, HolderOK
<1>2. PICK row : row = [work[w] EXCEPT !.pc = pc]
  OBVIOUS
<1>3. work' = [work EXCEPT ![w] = row]
  BY <1>2 DEF Goto
<1>4. DOMAIN row = {"pc", "key", "att", "done"} /\ row.pc = pc /\ row.key = work[w].key
      /\ row.done = work[w].done
  BY <1>1, <1>2
<1>5. work'[w] = row /\ DOMAIN work' = Workers /\ \A x \in Workers : x # w => work'[x] = work[x]
  BY <1>1, <1>3
<1> QED
  BY <1>4, <1>5 DEF WorkerMoves, HoldersOK

LEMMA ReleaseMoves ==
    ASSUME HoldersOK, NEW w \in Workers, Release(w)
    PROVE  WorkerMoves(w) /\ work'[w] = Idle
BY DEF HoldersOK, Release, WorkerMoves

----------------------------------------------------------------------------
(* The steps of the workers                                                *)

LEMMA HolderAt ==
    ASSUME NEW w, NEW k, NEW e, NEW pc, NEW done, StepFits(k, e, pc, done)',
           DOMAIN work'[w] = {"pc", "key", "att", "done"}, pc \in Pcs,
           work'[w].pc = pc, work'[w].key = k, work'[w].done = done,
           k \in DOMAIN outbox', outbox'[k] = e
    PROVE  HolderOK(w)'
BY DEF HolderOK

LEMMA SameBoxMoves ==
    ASSUME BoxInv, UNCHANGED outbox
    PROVE  BoxMoves
BY DEF BoxInv, EventsOK, EventOK, BoxMoves, MovedOK

\* A worker goes on without writing anything.
LEMMA WentOn ==
    ASSUME FleetInv, NEW w \in Workers, work[w] # Idle, NEW pc, Goto(w, pc),
           UNCHANGED <<outbox, grants>>, pc \in Pcs,
           HolderOK(w) => StepFits(work[w].key, outbox[work[w].key], pc, work[w].done)
    PROVE  FleetInv' /\ BoxMoves /\ GrantMoves
<1>1. BoxMoves /\ GrantMoves
  BY SameBoxMoves DEF FleetInv, GrantMoves
<1>2. HolderOK(w)
  BY DEF FleetInv, HoldersOK
<1>3. /\ WorkerMoves(w) /\ DOMAIN work'[w] = {"pc", "key", "att", "done"}
      /\ work'[w].pc = pc /\ work'[w].key = work[w].key /\ work'[w].done = work[w].done
      /\ \A x \in Workers : x # w /\ work[x] # Idle => work[x].key # work'[w].key
  BY GotoMoves DEF FleetInv
<1>4. PICK k, e, done : k = work[w].key /\ e = outbox[k] /\ done = work[w].done
  OBVIOUS
<1>5. StepFits(k, e, pc, done)
  BY <1>2, <1>4
<1>6. StepFits(k, e, pc, done)'
  BY <1>5 DEF StepFits, Deleting
<1>7. k \in DOMAIN outbox' /\ outbox'[k] = e
  BY <1>2, <1>4 DEF HolderOK
<1>8. HolderOK(w)'
  BY <1>3, <1>4, <1>6, <1>7, HolderAt
<1> QED
  BY <1>1, <1>3, <1>8, MovedFleet

\* No event is added, and no publication ends.
Frame ==
    /\ BoxMoves /\ GrantMoves
    /\ DOMAIN outbox' = DOMAIN outbox
    /\ \A k \in DOMAIN outbox :
            k.kind = "publish" /\ outbox'[k].status \in {"delivered", "failed"} =>
                outbox'[k].status = outbox[k].status

\* One event changes its status.
LEMMA MarkMoves ==
    ASSUME BoxInv, NEW k \in DOMAIN outbox, NEW e, NEW status \in EventStatuses,
           outbox' = [outbox EXCEPT ![k] = e],
           DOMAIN e = {"status", "attempts", "refs"}, e.refs = outbox[k].refs, e.status = status,
           k.kind = "publish" /\ outbox[k].status \in {"delivered", "failed"} =>
                status = outbox[k].status,
           k.kind \in RevokeKinds /\ status \in {"delivered", "failed"} =>
                status = outbox[k].status \/ e.refs \cap grants = {}
    PROVE  /\ BoxMoves /\ DOMAIN outbox' = DOMAIN outbox /\ outbox'[k] = e
           /\ \A x \in DOMAIN outbox : x # k => outbox'[x] = outbox[x]
BY DEF BoxInv, EventsOK, EventOK, BoxMoves, MovedOK

LEMMA ClaimFleet ==
    ASSUME FleetInv, FaultsOK, NEW w \in Workers, NEW k \in DOMAIN outbox, Claim(w, k),
           ~faults'.lost
    PROVE  FleetInv' /\ Frame
<1>1. PICK n : /\ outbox' = [outbox EXCEPT ![k].status = "processing", ![k].attempts = n]
               /\ work' = [work EXCEPT ![w] = [pc |-> FirstStep(k), key |-> k, att |-> n,
                                               done |-> {}]]
  BY DEF Claim
<1>2. work[w] = Idle /\ outbox[k].status \in {"pending", "processing"} /\ grants' = grants
  BY DEF Claim
<1>3. DOMAIN outbox[k] = {"status", "attempts", "refs"} /\ k.kind \in RevokeKinds \cup {"publish", "delete"}
  BY DEF FleetInv, BoxInv, EventsOK, EventOK
<1>4. PICK e : e = [[outbox[k] EXCEPT !.status = "processing"] EXCEPT !.attempts = n]
  OBVIOUS
<1>5. outbox' = [outbox EXCEPT ![k] = e]
  BY <1>1, <1>4
<1>6. DOMAIN e = {"status", "attempts", "refs"} /\ e.refs = outbox[k].refs /\ e.status = "processing"
  BY <1>3, <1>4
<1>7. /\ BoxMoves /\ DOMAIN outbox' = DOMAIN outbox /\ outbox'[k] = e
      /\ \A x \in DOMAIN outbox : x # k => outbox'[x] = outbox[x]
  BY <1>2, <1>5, <1>6, MarkMoves DEF FleetInv, EventStatuses
<1>8. \A x \in Workers : work[x] # Idle => work[x].key # k
  <2> SUFFICES ASSUME NEW x \in Workers, work[x] # Idle, work[x].key = k
               PROVE  FALSE
    OBVIOUS
  <2>1. outbox[k].status # "pending"
    BY DEF FleetInv, HoldersOK, HolderOK, StepFits
  <2>2. LosesLease
    BY <2>1 DEF Claim, Holds
  <2> QED
    BY <2>2 DEF LosesLease
<1>9. GrantMoves
  BY <1>2 DEF GrantMoves
<1>10. /\ DOMAIN work'[w] = {"pc", "key", "att", "done"} /\ work'[w].pc = FirstStep(k)
       /\ work'[w].key = k /\ work'[w].done = {} /\ WorkerMoves(w)
  BY <1>1 DEF FleetInv, HoldersOK, WorkerMoves
<1>11. StepFits(k, e, FirstStep(k), {})'
  BY <1>3, <1>6 DEF StepFits, FirstStep, RevokeKinds
<1>12. HolderOK(w)'
  BY <1>3, <1>7, <1>10, <1>11, HolderAt DEF FirstStep, RevokeKinds, Pcs
<1>13. FleetInv'
  <2>1. \A x \in Workers : x # w /\ work[x] # Idle =>
            outbox'[work[x].key].status = outbox[work[x].key].status
    BY <1>7, <1>8 DEF FleetInv, HoldersOK, HolderOK
  <2> QED
    BY <1>7, <1>8, <1>9, <1>10, <1>12, <2>1, MovedFleet
<1> QED
  BY <1>6, <1>7, <1>9, <1>13 DEF Frame

LEMMA CrashFleet ==
    ASSUME FleetInv, NEW w \in Workers, Crash(w)
    PROVE  FleetInv' /\ Frame
<1>1. BoxMoves /\ GrantMoves
  BY SameBoxMoves DEF Crash, FleetInv, GrantMoves
<1>2. WorkerMoves(w) /\ work'[w] = Idle
  BY ReleaseMoves DEF Crash, FleetInv
<1> QED
  BY <1>1, <1>2, MovedFleet DEF Crash, Frame

LEMMA ReopenFleet ==
    ASSUME FleetInv, NEW w \in Workers, Reopen(w)
    PROVE  FleetInv' /\ Frame
<1>1. PICK k : k = work[w].key
  OBVIOUS
<1>2. work[w] # Idle /\ HolderOK(w) /\ k \in DOMAIN outbox
  BY <1>1, BusyHolder DEF FleetInv, Reopen, Busy, HolderOK
<1>3. WorkerMoves(w) /\ work'[w] = Idle /\ grants' = grants
  BY ReleaseMoves DEF FleetInv, Reopen
<1>4. GrantMoves
  BY <1>3 DEF GrantMoves
<1>5. CASE UNCHANGED outbox
  <2>1. BoxMoves
    BY <1>5, SameBoxMoves DEF FleetInv
  <2> QED
    BY <1>3, <1>4, <1>5, <2>1, MovedFleet DEF Frame
<1>6. CASE outbox[k].status = "processing" /\ ~UNCHANGED outbox
  <2>1. PICK n : outbox' = [outbox EXCEPT ![k].status = "pending", ![k].attempts = n]
    BY <1>1, <1>6 DEF Reopen, EventOf
  <2>2. DOMAIN outbox[k] = {"status", "attempts", "refs"}
    BY <1>2 DEF FleetInv, BoxInv, EventsOK, EventOK
  <2>3. PICK e : e = [[outbox[k] EXCEPT !.status = "pending"] EXCEPT !.attempts = n]
    OBVIOUS
  <2>4. DOMAIN e = {"status", "attempts", "refs"} /\ e.refs = outbox[k].refs /\ e.status = "pending"
    BY <2>2, <2>3
  <2>5. outbox' = [outbox EXCEPT ![k] = e]
    BY <2>1, <2>3
  <2>6. /\ BoxMoves /\ DOMAIN outbox' = DOMAIN outbox /\ outbox'[k] = e
        /\ \A x \in DOMAIN outbox : x # k => outbox'[x] = outbox[x]
    BY <1>2, <1>6, <2>4, <2>5, MarkMoves DEF FleetInv, EventStatuses
  <2>7. \A x \in Workers : x # w /\ work[x] # Idle =>
            outbox'[work[x].key].status = outbox[work[x].key].status
    BY <1>1, <1>2, <2>6 DEF FleetInv, HoldersOK, HolderOK
  <2>8. FleetInv'
    BY <1>3, <1>4, <2>6, <2>7, MovedFleet
  <2> QED
    BY <1>4, <2>4, <2>6, <2>8 DEF Frame
<1> QED
  BY <1>1, <1>5, <1>6 DEF Reopen, EventOf

LEMMA StayingFrame ==
    ASSUME FleetInv, UNCHANGED <<outbox, grants>>
    PROVE  Frame
BY SameBoxMoves DEF FleetInv, Frame, GrantMoves

LEMMA AskFleet ==
    ASSUME FleetInv, NEW w \in Workers, GetAssets(w) \/ EventDelivered(w)
    PROVE  FleetInv' /\ Frame
<1>1. work[w] # Idle /\ HolderOK(w) /\ UNCHANGED <<outbox, grants>>
  BY BusyHolder DEF FleetInv, GetAssets, EventDelivered, Busy
<1>2. Frame
  BY <1>1, StayingFrame
<1>3. CASE GetAssets(w)
  <2>1. PICK pc \in {"grant", "defer", "fail", "retry"} : Goto(w, pc)
    BY <1>3 DEF GetAssets, AfterError
  <2>2. StepFits(work[w].key, outbox[work[w].key], "get", work[w].done)
    BY <1>1, <1>3 DEF HolderOK, GetAssets, Busy
  <2>3. StepFits(work[w].key, outbox[work[w].key], pc, work[w].done)
    BY <2>2 DEF StepFits, RevokeKinds
  <2> QED
    BY <1>1, <1>2, <2>1, <2>3, WentOn DEF Pcs
<1>4. CASE EventDelivered(w)
  <2>1. StepFits(work[w].key, outbox[work[w].key], "confirm", work[w].done)
    BY <1>1, <1>4 DEF HolderOK, EventDelivered, Busy
  <2>2. CASE Release(w)
    <3>1. WorkerMoves(w) /\ work'[w] = Idle
      BY <2>2, ReleaseMoves DEF FleetInv
    <3> QED
      BY <1>1, <1>2, <3>1, MovedFleet DEF Frame
  <2>3. CASE Goto(w, "retry")
    <3>1. StepFits(work[w].key, outbox[work[w].key], "retry", work[w].done)
      BY <2>1 DEF StepFits, RevokeKinds
    <3> QED
      BY <1>1, <1>2, <2>3, <3>1, WentOn DEF Pcs
  <2>4. CASE Goto(w, "compensate") /\ outbox[work[w].key].status # "delivered"
    <3>1. outbox[work[w].key].status \in EventStatuses
      BY <1>1 DEF HolderOK, FleetInv, BoxInv, EventsOK, EventOK
    <3>2. StepFits(work[w].key, outbox[work[w].key], "compensate", work[w].done)
      BY <2>1, <2>4, <3>1 DEF StepFits, RevokeKinds, EventStatuses
    <3> QED
      BY <1>1, <1>2, <2>4, <3>2, WentOn DEF Pcs
  <2> QED
    BY <1>4, <2>2, <2>3, <2>4 DEF EventDelivered, EventOf
<1> QED
  BY <1>3, <1>4

LEMMA FirstIsIn ==
    ASSUME NEW refs, refs # {}, \A r \in refs : r.image \in Images
    PROVE  First(refs) \in refs
<1>1. \E r \in refs : \A x \in refs : r.image <= x.image
  <2>1. CASE \E r \in refs : r.image = 1
    BY <2>1 DEF Images, Detail, HomeCover, Banner
  <2>2. CASE (\A r \in refs : r.image # 1) /\ \E r \in refs : r.image = 2
    BY <2>2 DEF Images, Detail, HomeCover, Banner
  <2>3. CASE \A r \in refs : r.image = 3
    BY <2>3
  <2> QED
    BY <2>1, <2>2, <2>3 DEF Images, Detail, HomeCover, Banner
<1> QED
  BY <1>1 DEF First

\* The images a worker has not come to.
Left(w) == {r \in EventOf(w).refs : r.image \notin Granted(w)}

LEMMA LeftFacts ==
    ASSUME FleetInv, NEW w \in Workers, work[w] # Idle
    PROVE  /\ Left(w) # {} => First(Left(w)) \in Left(w) /\ First(Left(w)) \in EventOf(w).refs
           /\ \A r \in EventOf(w).refs : r \notin Left(w) =>
                    \E x \in work[w].done : x.image = r.image
<1>1. work[w].key \in DOMAIN outbox
  BY DEF FleetInv, HoldersOK, HolderOK
<1>2. \A r \in EventOf(w).refs : r.image \in Images
  BY <1>1 DEF FleetInv, BoxInv, EventsOK, EventOK, EventOf
<1>3. Left(w) # {} => First(Left(w)) \in Left(w)
  BY <1>2, FirstIsIn DEF Left
<1> QED
  BY <1>3 DEF Left, Granted

\* The worker of a publication creates one more grant, or knows of one more.
LEMMA CreateFleet ==
    ASSUME FleetInv, NEW w \in Workers, NEW onError \in {"retry", "confirm"},
           CreatePublicGrant(w, onError)
    PROVE  FleetInv' /\ Frame
<1>1. PICK k, e, done : k = work[w].key /\ e = outbox[k] /\ done = work[w].done
  OBVIOUS
<1>2. work[w] # Idle /\ HolderOK(w) /\ k \in DOMAIN outbox /\ outbox' = outbox /\ work[w].pc = "grant"
  BY <1>1, BusyHolder DEF FleetInv, CreatePublicGrant, Busy, HolderOK
<1>3. StepFits(k, e, "grant", done)
  BY <1>1, <1>2 DEF HolderOK
<1>4. k = PublishKey(k.ver) /\ k.kind = "publish" /\ e.status = "processing"
  BY <1>1, <1>2, <1>3 DEF StepFits, FleetInv, BoxInv, EventsOK, EventOK
<1>5. \A r, s \in e.refs : r.image = s.image => r = s
  BY <1>1, <1>2, <1>4 DEF FleetInv, BoxInv, EventsOK, EventOK
<1>6. BoxMoves
  BY <1>2, SameBoxMoves DEF FleetInv
<1>7. CASE Left(w) = {} /\ Goto(w, "complete") /\ UNCHANGED grants
  <2>1. ASSUME NEW x \in e.refs
        PROVE  GrantFor(x, k.ver) \in done
    <3>1. PICK r \in done : r.image = x.image
      BY <1>1, <1>2, <1>7, LeftFacts DEF EventOf
    <3>2. PICK y \in e.refs : r = GrantFor(y, k.ver)
      BY <1>3, <1>4 DEF StepFits
    <3>3. y = x
      BY <1>5, <3>1, <3>2 DEF GrantFor, Ref
    <3> QED
      BY <3>2, <3>3
  <2>2. StepFits(k, e, "complete", done)
    BY <1>3, <2>1 DEF StepFits, RevokeKinds
  <2> QED
    BY <1>1, <1>2, <1>7, <2>2, WentOn, StayingFrame DEF Pcs
<1>8. CASE Goto(w, onError) /\ UNCHANGED grants
  <2>1. StepFits(k, e, onError, done)
    BY <1>3 DEF StepFits, RevokeKinds
  <2> QED
    BY <1>1, <1>2, <1>8, <2>1, WentOn, StayingFrame DEF Pcs
<1>9. ASSUME NEW g, Left(w) # {}, g = [First(Left(w)) EXCEPT !.grant = k.ver],
             grants' = grants \cup {g},
             (work' = [work EXCEPT ![w].done = @ \cup {g}]) \/ Goto(w, onError)
      PROVE  FleetInv' /\ Frame
  <2>1. PICK x \in e.refs : x = First(Left(w))
    BY <1>1, <1>2, <1>9, LeftFacts DEF EventOf
  <2>2. g = GrantFor(x, k.ver)
    <3>1. PICK i, a, o : x = Ref(i, a, o)
      BY <1>1, <1>2, <2>1 DEF FleetInv, BoxInv, EventsOK, EventOK
    <3> QED
      BY <1>9, <2>1, <3>1 DEF GrantFor, Ref
  <2>3. g.grant = k.ver /\ NewGrantOK(g)
    BY <1>1, <1>2, <1>4, <2>2 DEF NewGrantOK, GrantFor, Ref
  <2>4. GrantMoves
    BY <1>9, <2>3 DEF GrantMoves
  <2>5. Frame
    BY <1>2, <1>6, <2>4 DEF Frame
  <2>6. /\ WorkerMoves(w) /\ DOMAIN work'[w] = {"pc", "key", "att", "done"}
        /\ work'[w].key = k
        /\ work'[w].pc \in {"grant", onError} /\ work'[w].done \in {done, done \cup {g}}
    <3>1. CASE Goto(w, onError)
      BY <1>1, <1>2, <3>1, GotoMoves DEF FleetInv
    <3>2. CASE work' = [work EXCEPT ![w].done = @ \cup {g}]
      <4>1. PICK row : row = [work[w] EXCEPT !.done = @ \cup {g}]
        OBVIOUS
      <4>2. /\ DOMAIN row = {"pc", "key", "att", "done"} /\ row.key = k /\ row.pc = "grant"
            /\ row.done = done \cup {g}
        BY <1>1, <1>2, <4>1 DEF HolderOK
      <4>3. work' = [work EXCEPT ![w] = row]
        BY <3>2, <4>1
      <4>4. DOMAIN work' = Workers /\ work'[w] = row /\ \A y \in Workers : y # w => work'[y] = work[y]
        BY <4>3 DEF FleetInv, HoldersOK
      <4> QED
        BY <4>2, <4>4 DEF WorkerMoves
    <3> QED
      BY <1>9, <3>1, <3>2
  <2>7. PICK pc, all : pc = work'[w].pc /\ all = work'[w].done
    OBVIOUS
  <2>8. all \subseteq grants' \/ Deleting'
    BY <1>2, <1>3, <1>9, <2>6, <2>7 DEF StepFits, Deleting
  <2>9. StepFits(k, e, pc, all)'
    BY <1>3, <1>4, <2>1, <2>2, <2>6, <2>7, <2>8 DEF StepFits, RevokeKinds
  <2>10. HolderOK(w)'
    BY <1>1, <1>2, <2>6, <2>7, <2>9, HolderAt DEF Pcs
  <2>11. \A y \in Workers : y # w /\ work[y] # Idle => work[y].key # work'[w].key
    BY <1>1, <1>2, <2>6 DEF FleetInv, HoldersOK
  <2> QED
    BY <1>2, <1>6, <2>4, <2>5, <2>6, <2>10, <2>11, MovedFleet
<1> QED
  <2>1. PICK g : g = [First(Left(w)) EXCEPT !.grant = k.ver]
    OBVIOUS
  <2>2. \/ Left(w) = {} /\ Goto(w, "complete") /\ UNCHANGED grants
        \/ Goto(w, onError) /\ UNCHANGED grants
        \/ /\ Left(w) # {} /\ grants' = grants \cup {g}
           /\ (work' = [work EXCEPT ![w].done = @ \cup {g}]) \/ Goto(w, onError)
    BY <1>1, <2>1 DEF CreatePublicGrant, Left
  <2> QED
    BY <1>7, <1>8, <1>9, <2>1, <2>2

\* The worker of a revocation takes one more grant back, or knows that it did.
LEMMA RevokeFleet ==
    ASSUME FleetInv, NEW w \in Workers, RevokeGrant(w)
    PROVE  FleetInv' /\ Frame
<1>1. PICK k, e, done : k = work[w].key /\ e = outbox[k] /\ done = work[w].done
  OBVIOUS
<1>2. work[w] # Idle /\ HolderOK(w) /\ k \in DOMAIN outbox /\ outbox' = outbox /\ work[w].pc = "revoke"
  BY <1>1, BusyHolder DEF FleetInv, RevokeGrant, Busy, HolderOK
<1>3. StepFits(k, e, "revoke", done)
  BY <1>1, <1>2 DEF HolderOK
<1>4. k.kind \in RevokeKinds
  BY <1>3 DEF StepFits
<1>5. \A r, s \in e.refs : r.image = s.image => r = s
  BY <1>1, <1>2, <1>4 DEF FleetInv, BoxInv, EventsOK, EventOK
<1>6. BoxMoves
  BY <1>2, SameBoxMoves DEF FleetInv
<1>7. CASE Left(w) = {} /\ Goto(w, "finish") /\ UNCHANGED grants
  <2>1. e.refs \subseteq done
    <3> SUFFICES ASSUME NEW x \in e.refs
                 PROVE  x \in done
      OBVIOUS
    <3>1. PICK r \in done : r.image = x.image
      BY <1>1, <1>2, <1>7, LeftFacts DEF EventOf
    <3> QED
      BY <1>3, <1>4, <1>5, <3>1 DEF StepFits
  <2>2. StepFits(k, e, "finish", done)
    BY <1>3, <1>4, <2>1 DEF StepFits, RevokeKinds
  <2> QED
    BY <1>1, <1>2, <1>7, <2>2, WentOn, StayingFrame DEF Pcs
<1>8. CASE Goto(w, "retry") /\ UNCHANGED grants
  <2>1. StepFits(k, e, "retry", done)
    BY <1>3 DEF StepFits, RevokeKinds
  <2> QED
    BY <1>1, <1>2, <1>8, <2>1, WentOn, StayingFrame DEF Pcs
<1>9. ASSUME NEW g \in e.refs, grants' = grants \ {g},
             (work' = [work EXCEPT ![w].done = @ \cup {g}]) \/ Goto(w, "retry")
      PROVE  FleetInv' /\ Frame
  <2>1. GrantMoves
    BY <1>1, <1>2, <1>4, <1>9 DEF GrantMoves, IsRevoked
  <2>2. Frame
    BY <1>2, <1>6, <2>1 DEF Frame
  <2>3. /\ WorkerMoves(w) /\ DOMAIN work'[w] = {"pc", "key", "att", "done"}
        /\ work'[w].key = k
        /\ work'[w].pc \in {"revoke", "retry"} /\ work'[w].done \in {done, done \cup {g}}
    <3>1. CASE Goto(w, "retry")
      BY <1>1, <1>2, <3>1, GotoMoves DEF FleetInv
    <3>2. CASE work' = [work EXCEPT ![w].done = @ \cup {g}]
      <4>1. PICK row : row = [work[w] EXCEPT !.done = @ \cup {g}]
        OBVIOUS
      <4>2. /\ DOMAIN row = {"pc", "key", "att", "done"} /\ row.key = k /\ row.pc = "revoke"
            /\ row.done = done \cup {g}
        BY <1>1, <1>2, <4>1 DEF HolderOK
      <4>3. work' = [work EXCEPT ![w] = row]
        BY <3>2, <4>1
      <4>4. DOMAIN work' = Workers /\ work'[w] = row /\ \A y \in Workers : y # w => work'[y] = work[y]
        BY <4>3 DEF FleetInv, HoldersOK
      <4> QED
        BY <4>2, <4>4 DEF WorkerMoves
    <3> QED
      BY <1>9, <3>1, <3>2
  <2>4. PICK pc, all : pc = work'[w].pc /\ all = work'[w].done
    OBVIOUS
  <2>5. StepFits(k, e, pc, all)'
    BY <1>3, <1>4, <1>9, <2>3, <2>4 DEF StepFits, RevokeKinds
  <2>6. HolderOK(w)'
    BY <1>1, <1>2, <2>3, <2>4, <2>5, HolderAt DEF Pcs
  <2>7. \A y \in Workers : y # w /\ work[y] # Idle => work[y].key # work'[w].key
    BY <1>1, <1>2, <2>3 DEF FleetInv, HoldersOK
  <2> QED
    BY <1>2, <1>6, <2>1, <2>2, <2>3, <2>6, <2>7, MovedFleet
<1> QED
  <2>1. \/ Left(w) = {} /\ Goto(w, "finish") /\ UNCHANGED grants
        \/ Goto(w, "retry") /\ UNCHANGED grants
        \/ /\ Left(w) # {} /\ grants' = grants \ {First(Left(w))}
           /\ (work' = [work EXCEPT ![w].done = @ \cup {First(Left(w))}]) \/ Goto(w, "retry")
    BY DEF RevokeGrant, Left
  <2>2. Left(w) # {} => First(Left(w)) \in e.refs
    BY <1>1, <1>2, LeftFacts DEF EventOf
  <2> QED
    BY <1>7, <1>8, <1>9, <2>1, <2>2

LEMMA DeleteFleet ==
    ASSUME FleetInv, NEW w \in Workers, DeleteAsset(w)
    PROVE  FleetInv' /\ Frame
<1>1. PICK k, e, done : k = work[w].key /\ e = outbox[k] /\ done = work[w].done
  OBVIOUS
<1>2. work[w] # Idle /\ HolderOK(w) /\ k \in DOMAIN outbox /\ outbox' = outbox /\ work[w].pc = "delete"
  BY <1>1, BusyHolder DEF FleetInv, DeleteAsset, Busy, HolderOK
<1>3. StepFits(k, e, "delete", done) /\ k.kind = "delete"
  BY <1>1, <1>2 DEF HolderOK, StepFits
<1>4. Deleting
  BY <1>2, <1>3 DEF Deleting
<1>5. BoxMoves /\ GrantMoves
  BY <1>2, <1>4, SameBoxMoves DEF FleetInv, DeleteAsset, GrantMoves
<1>6. PICK pc \in {"finish", "retry"} : Goto(w, pc)
  BY DEF DeleteAsset
<1>7. /\ WorkerMoves(w) /\ DOMAIN work'[w] = {"pc", "key", "att", "done"}
      /\ work'[w].pc = pc /\ work'[w].key = k /\ work'[w].done = done
      /\ \A x \in Workers : x # w /\ work[x] # Idle => work[x].key # work'[w].key
  BY <1>1, <1>2, <1>6, GotoMoves DEF FleetInv
<1>8. StepFits(k, e, pc, done)'
  BY <1>3 DEF StepFits, RevokeKinds
<1>9. HolderOK(w)'
  BY <1>1, <1>2, <1>7, <1>8, HolderAt DEF Pcs
<1> QED
  BY <1>2, <1>5, <1>7, <1>9, MovedFleet DEF Frame

LEMMA CompleteFleet ==
    ASSUME FleetInv, NEW w \in Workers, Complete(w)
    PROVE  FleetInv' /\ Frame
<1>1. PICK k, e, done : k = work[w].key /\ e = outbox[k] /\ done = work[w].done
  OBVIOUS
<1>2. work[w] # Idle /\ HolderOK(w) /\ k \in DOMAIN outbox /\ work[w].pc = "finish" /\ grants' = grants
  BY <1>1, BusyHolder DEF FleetInv, Complete, Busy, HolderOK
<1>3. StepFits(k, e, "finish", done) /\ k.kind # "publish"
  BY <1>1, <1>2 DEF HolderOK, StepFits
<1>4. CASE RollsBack(w, AfterError(w))
  <2>1. PICK pc \in {"fail", "retry"} : Goto(w, pc)
    BY <1>4 DEF RollsBack, AfterError
  <2>2. StepFits(k, e, pc, done)
    BY <1>3 DEF StepFits, RevokeKinds
  <2>3. UNCHANGED <<outbox, grants>>
    BY <1>2, <1>4 DEF RollsBack
  <2> QED
    BY <1>1, <1>2, <2>1, <2>2, <2>3, WentOn, StayingFrame DEF Pcs
<1>5. CASE outbox' = Mark(outbox, k, "delivered") /\ Answered(w, AfterError(w))
  <2>1. PICK f : f = [outbox[k] EXCEPT !.status = "delivered"]
    OBVIOUS
  <2>2. outbox' = [outbox EXCEPT ![k] = f]
    BY <1>5, <2>1 DEF Mark
  <2>3. DOMAIN f = {"status", "attempts", "refs"} /\ f.refs = outbox[k].refs /\ f.status = "delivered"
    BY <1>2, <2>1 DEF FleetInv, BoxInv, EventsOK, EventOK
  <2>4. k.kind \in RevokeKinds => f.refs \cap grants = {}
    BY <1>1, <1>3, <2>3 DEF StepFits
  <2>5. /\ BoxMoves /\ DOMAIN outbox' = DOMAIN outbox /\ outbox'[k] = f
        /\ \A x \in DOMAIN outbox : x # k => outbox'[x] = outbox[x]
    BY <1>2, <1>3, <2>2, <2>3, <2>4, MarkMoves DEF FleetInv, EventStatuses
  <2>6. GrantMoves
    BY <1>2 DEF GrantMoves
  <2>7. \A x \in Workers : x # w /\ work[x] # Idle =>
            outbox'[work[x].key].status = outbox[work[x].key].status
    BY <1>1, <1>2, <2>5 DEF FleetInv, HoldersOK, HolderOK
  <2>8. Frame
    BY <1>2, <1>3, <2>5, <2>6 DEF Frame
  <2>9. CASE Release(w)
    <3>1. WorkerMoves(w) /\ work'[w] = Idle
      BY <2>9, ReleaseMoves DEF FleetInv
    <3> QED
      BY <2>5, <2>6, <2>7, <2>8, <3>1, MovedFleet
  <2>10. ASSUME NEW pc \in {"fail", "retry"}, Goto(w, pc)
         PROVE  FleetInv' /\ Frame
    <3>1. /\ WorkerMoves(w) /\ DOMAIN work'[w] = {"pc", "key", "att", "done"}
          /\ work'[w].pc = pc /\ work'[w].key = k /\ work'[w].done = done
          /\ \A x \in Workers : x # w /\ work[x] # Idle => work[x].key # work'[w].key
      BY <1>1, <1>2, <2>10, GotoMoves DEF FleetInv
    <3>2. StepFits(k, f, pc, done)'
      BY <1>1, <1>2, <1>3, <2>3, <2>4 DEF StepFits, RevokeKinds
    <3>3. HolderOK(w)'
      BY <1>2, <2>5, <3>1, <3>2, HolderAt DEF Pcs
    <3> QED
      BY <2>5, <2>6, <2>7, <2>8, <3>1, <3>3, MovedFleet
  <2> QED
    BY <1>5, <2>9, <2>10 DEF Answered, AfterError
<1> QED
  BY <1>1, <1>4, <1>5 DEF Complete

\* What every worker does that touches no row of its entry.
OutboxMoves(w) ==
    \/ \E k \in DOMAIN outbox : Claim(w, k)
    \/ Crash(w)
    \/ OutboxStep(w)
    \/ \E onError \in {"retry", "confirm"} : CreatePublicGrant(w, onError)

LEMMA OutboxFleet ==
    ASSUME FleetInv, FaultsOK, NEW w \in Workers, OutboxMoves(w), ~faults'.lost
    PROVE  FleetInv' /\ Frame
BY ClaimFleet, CrashFleet, ReopenFleet, AskFleet, CreateFleet, RevokeFleet, DeleteFleet,
   CompleteFleet DEF OutboxMoves, OutboxStep

LEMMA FaultsMove ==
    ASSUME FaultsOK, UNCHANGED faults \/ GoesWrong \/ LosesLease \/ \E s : StraysTo(s)
    PROVE  FaultsOK' /\ (~faults'.lost => ~faults.lost)
<1>1. PICK n : n = faults.count + 1
  OBVIOUS
<1>2. CASE faults' = faults
  BY <1>2 DEF FaultsOK
<1>3. CASE faults' = [faults EXCEPT !.count = n]
  BY <1>3 DEF FaultsOK
<1>4. CASE faults' = [faults EXCEPT !.count = n, !.lost = TRUE]
  BY <1>4 DEF FaultsOK
<1>5. ASSUME NEW s, StraysTo(s)
      PROVE  FaultsOK' /\ (~faults'.lost => ~faults.lost)
  <2>1. faults' = [faults EXCEPT !.stray = s] \/ faults' = [faults EXCEPT !.count = n, !.stray = s]
    BY <1>1, <1>5 DEF StraysTo
  <2> QED
    BY <2>1 DEF FaultsOK
<1> QED
  BY <1>1, <1>2, <1>3, <1>4, <1>5 DEF GoesWrong, LosesLease

LEMMA OutboxFaults ==
    ASSUME FaultsOK, NEW w \in Workers, OutboxMoves(w)
    PROVE  FaultsOK' /\ (~faults'.lost => ~faults.lost)
<1>1. CASE \/ \E k \in DOMAIN outbox : Claim(w, k)
           \/ GetAssets(w) \/ EventDelivered(w) \/ RevokeGrant(w) \/ DeleteAsset(w) \/ Complete(w)
  <2>1. UNCHANGED faults \/ GoesWrong \/ LosesLease
    BY <1>1 DEF Claim, GetAssets, EventDelivered, RevokeGrant, DeleteAsset, Complete, Answered,
                RollsBack
  <2> QED
    BY <2>1, FaultsMove
<1>2. CASE Crash(w) \/ Reopen(w)
  <2>1. StraysTo(faults.stray \cup Unattended(w))
    BY <1>2 DEF Crash, Reopen, StraysTo
  <2> QED
    BY <2>1, FaultsMove
<1>3. CASE \E onError \in {"retry", "confirm"} : CreatePublicGrant(w, onError)
  <2>1. UNCHANGED faults \/ GoesWrong \/ \E s : StraysTo(s)
    BY <1>3 DEF CreatePublicGrant, StraysTo
  <2> QED
    BY <2>1, FaultsMove
<1> QED
  BY <1>1, <1>2, <1>3 DEF OutboxMoves, OutboxStep

\* What the steps of the workers that touch no row leave true of the grants.
LEMMA FrameFacts ==
    ASSUME FleetInv, Frame
    PROVE  /\ \A S : AccountedFor(S) => AccountedFor(S)'
           /\ \A r : RecordedOK(r) => RecordedOK(r)'
           /\ \A r : IsRevoked(r)' <=> IsRevoked(r)
           /\ \A r \in grants : ~IsRevoked(r) /\ ~Deleting => r \in grants'
           /\ Deleting' <=> Deleting
<1>1. DOMAIN outbox' = DOMAIN outbox /\ \A k \in DOMAIN outbox : MovedOK(k)
  BY DEF Frame, BoxMoves
<1>2. ASSUME NEW v, HasEnded(v, "delivered")'
      PROVE  HasEnded(v, "delivered")
  BY <1>1, <1>2, PublishKeyFacts DEF Frame, HasEnded
<1>3. ASSUME NEW S, AccountedFor(S), NEW g \in grants', HasEnded(g.grant, "delivered")'
      PROVE  \/ g \in S
             \/ \E k \in DOMAIN outbox' : k.kind \in RevokeKinds /\ Open(k)' /\ g \in outbox'[k].refs
  <2>1. HasEnded(g.grant, "delivered")
    BY <1>2, <1>3
  <2>2. g \in grants
    BY <1>3, <2>1 DEF Frame, GrantMoves, NewGrantOK, HasEnded
  <2>3. CASE g \in S
    BY <2>3
  <2>4. ASSUME NEW k \in DOMAIN outbox, k.kind \in RevokeKinds, Open(k), g \in outbox[k].refs
        PROVE  k \in DOMAIN outbox' /\ Open(k)' /\ g \in outbox'[k].refs
    <3>1. outbox'[k].refs = outbox[k].refs /\ outbox'[k].status \in EventStatuses
      BY <1>1, <2>4 DEF MovedOK
    <3>2. outbox'[k].status \notin {"delivered", "failed"}
      BY <1>1, <2>2, <2>4 DEF MovedOK, Open
    <3> QED
      BY <1>1, <2>4, <3>1, <3>2 DEF Open, EventStatuses
  <2> QED
    BY <1>3, <2>1, <2>2, <2>3, <2>4 DEF AccountedFor
<1>4. \A S : AccountedFor(S) => AccountedFor(S)'
  BY <1>3 DEF AccountedFor
<1>5. \A r : RecordedOK(r) => RecordedOK(r)'
  BY <1>1, EndedStays DEF RecordedOK, Frame
<1>6. \A r : IsRevoked(r)' <=> IsRevoked(r)
  BY <1>1 DEF IsRevoked, MovedOK
<1>7. Deleting' <=> Deleting
  BY <1>1 DEF Deleting
<1>8. \A r \in grants : ~IsRevoked(r) /\ ~Deleting => r \in grants'
  BY DEF Frame, GrantMoves
<1> QED
  BY <1>4, <1>5, <1>6, <1>7, <1>8

\* A transaction of a worker that ends its event.
LEMMA EndedFleet ==
    ASSUME FleetInv, NEW w \in Workers, NEW k, NEW e, work[w] # Idle, k = work[w].key, e = outbox[k],
           NEW status \in {"delivered", "failed"},
           OthersStay(k), outbox'[k].status = status, outbox'[k].refs = e.refs,
           DOMAIN outbox'[k] = DOMAIN e,
           \A x \in DOMAIN outbox' : x \notin DOMAIN outbox => AddedOK(x),
           k.kind = "publish" => e.status = "processing",
           k.kind \in RevokeKinds => e.refs \cap grants = {},
           grants' = grants,
           \/ Release(w)
           \/ Goto(w, "retry")
           \/ Goto(w, "confirm") /\ k.kind = "publish" /\ status = "delivered"
           \/ Goto(w, "fail") /\ k.kind # "publish"
    PROVE  FleetInv' /\ BoxMoves
<1>1. HolderOK(w) /\ k \in DOMAIN outbox
  BY DEF FleetInv, HoldersOK, HolderOK
<1>2. \A x \in DOMAIN outbox : EventOK(x, outbox[x])
  BY DEF FleetInv, BoxInv, EventsOK
<1>3. BoxMoves
  BY <1>1, <1>2 DEF BoxMoves, MovedOK, OthersStay, EventOK, EventStatuses
<1>4. GrantMoves
  BY DEF GrantMoves
<1>5. \A x \in Workers : x # w /\ work[x] # Idle =>
            outbox'[work[x].key].status = outbox[work[x].key].status
  BY DEF FleetInv, HoldersOK, HolderOK, OthersStay
<1>6. CASE Release(w)
  <2>1. WorkerMoves(w) /\ work'[w] = Idle
    BY <1>6, ReleaseMoves DEF FleetInv
  <2> QED
    BY <1>3, <1>4, <1>5, <2>1, MovedFleet
<1>7. ASSUME NEW pc \in {"retry", "confirm", "fail"}, Goto(w, pc),
             pc = "confirm" => k.kind = "publish" /\ status = "delivered",
             pc = "fail" => k.kind # "publish"
      PROVE  FleetInv'
  <2>1. PICK f, done : f = outbox'[k] /\ done = work[w].done
    OBVIOUS
  <2>2. /\ WorkerMoves(w) /\ DOMAIN work'[w] = {"pc", "key", "att", "done"}
        /\ work'[w].pc = pc /\ work'[w].key = k /\ work'[w].done = done
        /\ \A x \in Workers : x # w /\ work[x] # Idle => work[x].key # work'[w].key
    BY <1>7, <2>1, GotoMoves DEF FleetInv
  <2>3. StepFits(k, e, work[w].pc, done)
    BY <1>1, <2>1 DEF HolderOK
  <2>4. StepFits(k, f, pc, done)'
    BY <1>7, <2>1, <2>3 DEF StepFits, RevokeKinds
  <2>5. HolderOK(w)'
    BY <1>1, <2>1, <2>2, <2>4, HolderAt DEF Pcs, OthersStay
  <2> QED
    BY <1>3, <1>4, <1>5, <2>2, <2>5, MovedFleet
<1> QED
  BY <1>3, <1>6, <1>7

LEMMA AccountsMove ==
    ASSUME BoxMoves, grants' = grants, NEW S, NEW T, AccountedFor(S),
           \A g \in grants :
                HasEnded(g.grant, "delivered")' => HasEnded(g.grant, "delivered") \/ g \in T,
           \A g \in S \cap grants :
                \/ g \in T
                \/ \E k \in DOMAIN outbox' :
                        k.kind \in RevokeKinds /\ Open(k)' /\ g \in outbox'[k].refs
    PROVE  AccountedFor(T)'
<1> SUFFICES ASSUME NEW g \in grants, HasEnded(g.grant, "delivered")', g \notin T
             PROVE  \E k \in DOMAIN outbox' :
                        k.kind \in RevokeKinds /\ Open(k)' /\ g \in outbox'[k].refs
  BY DEF AccountedFor
<1>1. HasEnded(g.grant, "delivered")
  OBVIOUS
<1>2. CASE g \in S
  BY <1>2
<1>3. ASSUME NEW k \in DOMAIN outbox, k.kind \in RevokeKinds, Open(k), g \in outbox[k].refs
      PROVE  k \in DOMAIN outbox' /\ Open(k)' /\ g \in outbox'[k].refs
  <2>1. MovedOK(k)
    BY DEF BoxMoves
  <2>2. outbox'[k].status \notin {"delivered", "failed"}
    BY <1>3, <2>1 DEF MovedOK, Open
  <2> QED
    BY <1>3, <2>1, <2>2 DEF MovedOK, Open, EventStatuses
<1> QED
  BY <1>1, <1>2, <1>3 DEF AccountedFor

LEMMA EventFacts ==
    ASSUME NEW refs
    PROVE  /\ DOMAIN Event(refs) = {"status", "attempts", "refs"}
           /\ Event(refs).status = "pending" /\ Event(refs).refs = refs
BY DEF Event

LEMMA MarkFacts ==
    ASSUME NEW k \in DOMAIN outbox, EventOK(k, outbox[k]), NEW status
    PROVE  LET box == Mark(outbox, k, status)
           IN /\ DOMAIN box = DOMAIN outbox
              /\ DOMAIN box[k] = DOMAIN outbox[k]
              /\ box[k].status = status /\ box[k].refs = outbox[k].refs
              /\ \A x \in DOMAIN outbox : x # k => box[x] = outbox[x]
<1>1. DOMAIN outbox[k] = {"status", "attempts", "refs"}
  BY DEF EventOK
<1>2. PICK e : e = [outbox[k] EXCEPT !.status = status]
  OBVIOUS
<1>3. Mark(outbox, k, status) = [outbox EXCEPT ![k] = e]
  BY <1>2 DEF Mark
<1>4. DOMAIN e = DOMAIN outbox[k] /\ e.status = status /\ e.refs = outbox[k].refs
  BY <1>1, <1>2
<1> QED
  BY <1>3, <1>4

\* A failed publication takes back the grants its worker knows of.
LEMMA CompensatedFleet ==
    ASSUME FleetInv, NEW w \in Workers, NEW k, k = work[w].key, work[w].pc = "compensate",
           outbox' = Insert(Mark(outbox, k, "failed"), CompensateKey, work[w].done),
           Answered(w, "retry"), grants' = grants
    PROVE  /\ FleetInv' /\ BoxMoves
           /\ k \in DOMAIN outbox /\ k.kind = "publish" /\ outbox'[k].status = "failed"
           /\ \A x \in DOMAIN outbox : x # k => outbox'[x] = outbox[x]
           /\ \A x \in DOMAIN outbox' : x \notin DOMAIN outbox => x.kind = "compensate"
<1>1. PICK e, done, box : e = outbox[k] /\ done = work[w].done /\ box = Mark(outbox, k, "failed")
  OBVIOUS
<1>2. work[w] # Idle /\ HolderOK(w) /\ k \in DOMAIN outbox
  BY BusyHolder DEF FleetInv, HolderOK
<1>3. StepFits(k, e, "compensate", done) /\ EventOK(k, e)
  BY <1>1, <1>2 DEF HolderOK, FleetInv, BoxInv, EventsOK
<1>4. k.kind = "publish" /\ k = PublishKey(k.ver) /\ e.status = "processing"
  BY <1>3 DEF StepFits, EventOK
<1>5. /\ DOMAIN box = DOMAIN outbox /\ DOMAIN box[k] = DOMAIN outbox[k]
      /\ box[k].status = "failed" /\ box[k].refs = outbox[k].refs
      /\ \A x \in DOMAIN outbox : x # k => box[x] = outbox[x]
  BY <1>1, <1>2, <1>3, MarkFacts
<1>6. PICK new : new = {CompensateKey(r) : r \in done} \ DOMAIN box
  OBVIOUS
<1>7. outbox' = [x \in DOMAIN box \cup new |->
            IF x \in new THEN Event({r \in done : CompensateKey(r) = x}) ELSE box[x]]
  BY <1>1, <1>6 DEF Insert
<1>8. /\ DOMAIN outbox' = DOMAIN outbox \cup new
      /\ \A x \in DOMAIN outbox : outbox'[x] = box[x]
      /\ \A x \in new : outbox'[x] = Event({r \in done : CompensateKey(r) = x})
  BY <1>5, <1>6, <1>7
<1>9. HasEnded(k.ver, "failed")'
  BY <1>2, <1>4, <1>5, <1>8 DEF HasEnded
<1>10. ASSUME NEW r \in done
       PROVE  /\ r = Ref(r.image, r.asset, r.grant) /\ r.image \in Images /\ r.grant = k.ver
              /\ \E y \in e.refs : y.image = r.image /\ r = GrantFor(y, k.ver)
  <2>1. PICK y \in e.refs : r = GrantFor(y, k.ver)
    BY <1>3, <1>4 DEF StepFits
  <2>2. r.image = y.image /\ r.asset = y.asset /\ r.grant = k.ver
    BY <2>1 DEF GrantFor, Ref
  <2> QED
    BY <1>3, <2>1, <2>2 DEF EventOK, GrantFor
<1>11. \A r, s \in done : r.image = s.image => r = s
  BY <1>3, <1>4, <1>10 DEF EventOK
<1>12. ASSUME NEW x \in new
       PROVE  AddedOK(x) /\ x.kind = "compensate"
  <2>1. PICK refs : refs = {r \in done : CompensateKey(r) = x}
    OBVIOUS
  <2>2. outbox'[x] = Event(refs) /\ refs \subseteq done
    BY <1>8, <2>1
  <2>3. x.kind = "compensate"
    <3>1. PICK r \in done : x = CompensateKey(r)
      BY <1>6
    <3> QED
      BY <3>1 DEF CompensateKey, Key
  <2>4. \A r \in refs : HasEnded(r.grant, "failed")'
    BY <1>9, <1>10, <2>2
  <2>5. refs # {} /\ \A r \in refs : x = CompensateKey(r)
    BY <1>6, <2>1
  <2>6. PICK f : f = outbox'[x]
    OBVIOUS
  <2>7. DOMAIN f = {"status", "attempts", "refs"} /\ f.status = "pending" /\ f.refs = refs
    BY <2>2, <2>6, EventFacts
  <2>8. EventOK(x, f)
    BY <1>10, <1>11, <2>2, <2>3, <2>5, <2>7 DEF EventOK, RevokeKinds, EventStatuses
  <2> QED
    BY <2>3, <2>4, <2>6, <2>7, <2>8 DEF AddedOK
<1>13. FleetInv' /\ BoxMoves
  <2>1. OthersStay(k)
    BY <1>5, <1>8 DEF OthersStay
  <2>2. /\ outbox'[k].status = "failed" /\ outbox'[k].refs = e.refs
        /\ DOMAIN outbox'[k] = DOMAIN e
    BY <1>1, <1>2, <1>5, <1>8
  <2>3. \A x \in DOMAIN outbox' : x \notin DOMAIN outbox => AddedOK(x)
    BY <1>8, <1>12
  <2>4. Release(w) \/ Goto(w, "retry")
    BY DEF Answered
  <2> QED
    BY <1>1, <1>2, <1>4, <2>1, <2>2, <2>3, <2>4, EndedFleet DEF RevokeKinds
<1> QED
  BY <1>2, <1>4, <1>5, <1>8, <1>12, <1>13

----------------------------------------------------------------------------
(* The grants no attempt knows of                                          *)

LEMMA SameStrays ==
    ASSUME FaultsOK, UNCHANGED faults \/ GoesWrong \/ LosesLease
    PROVE  faults'.stray = faults.stray
<1>1. PICK n : n = faults.count + 1
  OBVIOUS
<1>2. \/ faults' = faults
      \/ faults' = [faults EXCEPT !.count = n]
      \/ faults' = [faults EXCEPT !.count = n, !.lost = TRUE]
  BY <1>1 DEF GoesWrong, LosesLease
<1> QED
  BY <1>2 DEF FaultsOK

LEMMA NewStrays ==
    ASSUME FaultsOK, NEW s, StraysTo(s)
    PROVE  faults'.stray = s
<1>1. PICK n : n = faults.count + 1
  OBVIOUS
<1>2. faults' = [faults EXCEPT !.stray = s] \/ faults' = [faults EXCEPT !.count = n, !.stray = s]
  BY <1>1 DEF StraysTo
<1> QED
  BY <1>2 DEF FaultsOK

\* A revocation stays to be made as long as its grant is live.
LEMMA TakenStays ==
    ASSUME BoxMoves, NEW g \in grants, IsTaken(g)
    PROVE  IsTaken(g)'
<1>1. PICK k \in DOMAIN outbox : k.kind \in RevokeKinds /\ Open(k) /\ g \in outbox[k].refs
  BY DEF IsTaken
<1>2. MovedOK(k)
  BY DEF BoxMoves
<1>3. outbox'[k].status \notin {"delivered", "failed"}
  BY <1>1, <1>2 DEF MovedOK, Open
<1> QED
  BY <1>1, <1>2, <1>3 DEF MovedOK, Open, IsTaken, EventStatuses

\* A publication that is open after a step was open before.
LEMMA OpenBefore ==
    ASSUME FleetInv, BoxMoves, GrantMoves, NEW g \in grants', Open(PublishKey(g.grant))'
    PROVE  Open(PublishKey(g.grant))
<1>1. PICK k : k = PublishKey(g.grant) /\ k.kind = "publish"
  BY PublishKeyFacts
<1>2. k \in DOMAIN outbox
  BY <1>1 DEF GrantMoves, NewGrantOK, FleetInv, BoxInv, GrantsHaveEvents
<1>3. MovedOK(k) /\ outbox[k].status \in EventStatuses
  BY <1>2 DEF BoxMoves, FleetInv, BoxInv, EventsOK, EventOK
<1> QED
  BY <1>1, <1>2, <1>3 DEF MovedOK, Open, EventStatuses

\* A step of worker w.
LEMMA StrayStep ==
    ASSUME FleetInv, StrayInv, BoxMoves, GrantMoves, NEW w \in Workers, WorkerMoves(w),
           StartsEmpty(w)',
           \A g \in grants' : g \notin grants \/ g \in faults.stray \/ Known(w, g) =>
                g \in faults'.stray \/ Known(w, g)' \/ ~Open(PublishKey(g.grant))',
           \A g \in grants : HasEnded(g.grant, "failed")' =>
                \/ HasEnded(g.grant, "failed") /\ (g \in faults.stray => g \in faults'.stray)
                \/ g \in faults'.stray
                \/ IsTaken(g)'
    PROVE  StrayInv'
<1>1. ASSUME NEW x \in Workers
      PROVE  StartsEmpty(x)'
  BY <1>1 DEF StrayInv, StartsEmpty, WorkerMoves
<1>2. ASSUME NEW g \in grants', Open(PublishKey(g.grant))'
      PROVE  g \in faults'.stray \/ \E x \in Workers : Known(x, g)'
  <2>1. CASE g \notin grants
    BY <1>2, <2>1
  <2>2. CASE g \in grants
    <3>1. g \in faults.stray \/ \E x \in Workers : Known(x, g)
      BY <1>2, <2>2, OpenBefore DEF StrayInv, StrayOK
    <3>2. \A x \in Workers : x # w /\ Known(x, g) => Known(x, g)'
      BY DEF WorkerMoves, Known
    <3> QED
      BY <1>2, <3>1, <3>2
  <2> QED
    BY <2>1, <2>2
<1>3. ASSUME NEW g \in grants', HasEnded(g.grant, "failed")'
      PROVE  g \in faults'.stray \/ IsTaken(g)'
  <2>1. g \in grants
    BY <1>3 DEF GrantMoves, NewGrantOK, HasEnded
  <2>2. CASE HasEnded(g.grant, "failed") /\ (g \in faults.stray => g \in faults'.stray)
    BY <2>1, <2>2, TakenStays DEF StrayInv, StrayOK
  <2> QED
    BY <1>3, <2>1, <2>2
<1>4. \A g \in grants' : StrayOK(g)'
  BY <1>2, <1>3 DEF StrayOK
<1> QED
  BY <1>1, <1>4 DEF StrayInv

\* A step of an editor, who may write events.
LEMMA StrayEdit ==
    ASSUME FleetInv, StrayInv, UNCHANGED <<work, grants, faults>>,
           DOMAIN outbox \subseteq DOMAIN outbox',
           \A k \in DOMAIN outbox : outbox'[k] = outbox[k]
    PROVE  StrayInv'
<1>1. \A w \in Workers : StartsEmpty(w)'
  BY DEF StrayInv, StartsEmpty
<1>2. ASSUME NEW g \in grants
      PROVE  StrayOK(g)'
  <2>1. StrayOK(g) /\ PublishKey(g.grant) \in DOMAIN outbox
    BY DEF StrayInv, FleetInv, BoxInv, GrantsHaveEvents
  <2>2. HasEnded(g.grant, "failed")' => HasEnded(g.grant, "failed")
    BY <2>1 DEF HasEnded
  <2>3. Open(PublishKey(g.grant))' => Open(PublishKey(g.grant))
    BY <2>1 DEF Open
  <2>4. IsTaken(g) => IsTaken(g)'
    BY DEF IsTaken, Open
  <2>5. \A w \in Workers : Known(w, g) => Known(w, g)'
    BY DEF Known
  <2> QED
    BY <2>1, <2>2, <2>3, <2>4, <2>5 DEF StrayOK
<1> QED
  BY <1>1, <1>2 DEF StrayInv

\* What InsertOne and Insert leave of the events there are.
LEMMA InsertedOne ==
    ASSUME NEW k, NEW refs, outbox' = InsertOne(outbox, k, refs)
    PROVE  /\ DOMAIN outbox \subseteq DOMAIN outbox'
           /\ \A x \in DOMAIN outbox : outbox'[x] = outbox[x]
BY DEF InsertOne

\* A step of worker w that ends no publication.
LEMMA StrayFrame ==
    ASSUME FleetInv, StrayInv, Frame, NEW w \in Workers, WorkerMoves(w), StartsEmpty(w)',
           \A g \in grants' : g \notin grants \/ g \in faults.stray \/ Known(w, g) =>
                g \in faults'.stray \/ Known(w, g)' \/ ~Open(PublishKey(g.grant))',
           \A g \in grants : HasEnded(g.grant, "failed") /\ g \in faults.stray => g \in faults'.stray
    PROVE  StrayInv'
<1>1. \A g \in grants : HasEnded(g.grant, "failed")' => HasEnded(g.grant, "failed")
  BY PublishKeyFacts DEF HasEnded, Frame, FleetInv, BoxInv, GrantsHaveEvents
<1> QED
  BY <1>1, StrayStep DEF Frame

\* Worker w goes on with its attempt, or ends one that is of no publication.
LEMMA StrayOn ==
    ASSUME FleetInv, StrayInv, Frame, NEW w \in Workers, WorkerMoves(w), StartsEmpty(w)',
           grants' \subseteq grants, faults'.stray = faults.stray,
           \A g : Known(w, g) => Known(w, g)' \/ ~Open(PublishKey(g.grant))'
    PROVE  StrayInv'
BY StrayFrame

LEMMA StrayOther ==
    ASSUME FleetInv, StrayInv, Frame, NEW w \in Workers, WorkerMoves(w),
           work[w] = Idle \/ work[w].key.kind # "publish",
           work'[w] = Idle \/ work'[w].key.kind # "publish" \/ work'[w].done = {},
           grants' \subseteq grants, faults'.stray = faults.stray
    PROVE  StrayInv'
<1>1. StartsEmpty(w)'
  BY DEF StartsEmpty
<1>2. \A g : ~Known(w, g)
  BY PublishKeyFacts DEF Known
<1> QED
  BY <1>1, <1>2, StrayOn

LEMMA StrayClaim ==
    ASSUME FleetInv, FaultsOK, StrayInv, NEW w \in Workers, NEW k \in DOMAIN outbox, Claim(w, k),
           Frame
    PROVE  StrayInv'
<1>1. PICK n : work' = [work EXCEPT ![w] = [pc |-> FirstStep(k), key |-> k, att |-> n, done |-> {}]]
  BY DEF Claim
<1>2. WorkerMoves(w) /\ work'[w].done = {}
  BY <1>1 DEF WorkerMoves, FleetInv, HoldersOK
<1>3. faults'.stray = faults.stray
  BY SameStrays DEF Claim
<1> QED
  BY <1>2, <1>3, StrayOther DEF Claim

\* An attempt that ends leaves its grants to nobody.
LEMMA StrayLeft ==
    ASSUME FleetInv, FaultsOK, StrayInv, NEW w \in Workers, Frame, work[w] # Idle, Release(w),
           StraysTo(faults.stray \cup Unattended(w)), grants' = grants,
           \/ UNCHANGED outbox
           \/ outbox[work[w].key].status = "processing"
    PROVE  StrayInv'
<1>1. WorkerMoves(w) /\ work'[w] = Idle
  BY ReleaseMoves DEF FleetInv
<1>2. faults'.stray = faults.stray \cup Unattended(w)
  BY NewStrays
<1>3. StartsEmpty(w)'
  BY <1>1 DEF StartsEmpty
<1>4. ASSUME NEW g \in grants, Known(w, g), Open(PublishKey(g.grant))'
      PROVE  g \in Unattended(w)
  <2>1. PICK k : k = work[w].key /\ k = PublishKey(g.grant) /\ k.kind = "publish" /\ g \in work[w].done
    BY <1>4, PublishKeyFacts DEF Known
  <2>2. outbox[k].status # "pending"
    BY <2>1 DEF FleetInv, HoldersOK, HolderOK, StepFits
  <2>3. outbox[k].status = "processing"
    BY <1>4, <2>1, <2>2 DEF Open
  <2> QED
    BY <2>1, <2>3 DEF Unattended, EventOf
<1> QED
  BY <1>1, <1>2, <1>3, <1>4, StrayFrame

LEMMA StrayCreate ==
    ASSUME FleetInv, FaultsOK, StrayInv, NEW w \in Workers, NEW onError \in {"retry", "confirm"},
           CreatePublicGrant(w, onError), Frame
    PROVE  StrayInv'
<1>1. PICK k : k = work[w].key
  OBVIOUS
<1>2. work[w] # Idle /\ HolderOK(w) /\ k \in DOMAIN outbox /\ outbox' = outbox /\ work[w].pc = "grant"
  BY <1>1, BusyHolder DEF FleetInv, CreatePublicGrant, Busy, HolderOK
<1>3. StepFits(k, outbox[k], "grant", work[w].done)
  BY <1>1, <1>2 DEF HolderOK
<1>4. k = PublishKey(k.ver) /\ k.kind = "publish" /\ outbox[k].status = "processing"
  BY <1>2, <1>3 DEF StepFits, FleetInv, BoxInv, EventsOK, EventOK
<1>5. PICK left, r : left = Left(w) /\ r = [First(left) EXCEPT !.grant = k.ver]
  OBVIOUS
<1>6. \/ left = {} /\ Goto(w, "complete") /\ UNCHANGED <<grants, faults>>
      \/ /\ left # {}
         /\ grants' = grants \cup {r}
         /\ \/ work' = [work EXCEPT ![w].done = @ \cup {r}] /\ StraysTo(faults.stray \ {r})
            \/ Goto(w, onError) /\ StraysTo(faults.stray \cup {r})
      \/ left # {} /\ Goto(w, onError) /\ GoesWrong /\ UNCHANGED grants
  BY <1>1, <1>5 DEF CreatePublicGrant, Left, StraysTo
<1>7. CASE (Goto(w, "complete") \/ Goto(w, onError)) /\ UNCHANGED grants /\ (UNCHANGED faults \/ GoesWrong)
  <2>1. PICK pc \in {"complete", "retry", "confirm"} : Goto(w, pc)
    BY <1>7
  <2>2. /\ WorkerMoves(w) /\ work'[w].pc = pc /\ work'[w].key = k /\ work'[w].done = work[w].done
    BY <1>1, <1>2, <2>1, GotoMoves DEF FleetInv
  <2>3. StartsEmpty(w)'
    BY <2>1, <2>2 DEF StartsEmpty
  <2>4. work'[w] # Idle
    BY <1>2, <2>1, GotoMoves DEF FleetInv, Idle
  <2>5. \A g : Known(w, g) => Known(w, g)'
    BY <1>1, <2>2, <2>4 DEF Known
  <2>6. faults'.stray = faults.stray
    BY <1>7, SameStrays
  <2> QED
    BY <1>7, <2>2, <2>3, <2>5, <2>6, StrayOn
<1>8. CASE /\ left # {} /\ grants' = grants \cup {r}
           /\ Goto(w, onError) /\ StraysTo(faults.stray \cup {r})
  <2>1. /\ WorkerMoves(w) /\ work'[w].pc = onError /\ work'[w].key = k
        /\ work'[w].done = work[w].done /\ work'[w] # Idle
    BY <1>1, <1>2, <1>8, GotoMoves DEF FleetInv, Idle
  <2>2. StartsEmpty(w)'
    BY <2>1 DEF StartsEmpty
  <2>3. \A g : Known(w, g) => Known(w, g)'
    BY <1>1, <2>1 DEF Known
  <2>4. faults'.stray = faults.stray \cup {r}
    BY <1>8, NewStrays
  <2> QED
    BY <1>8, <2>1, <2>2, <2>3, <2>4, StrayFrame
<1>9. CASE /\ left # {} /\ grants' = grants \cup {r}
           /\ work' = [work EXCEPT ![w].done = @ \cup {r}] /\ StraysTo(faults.stray \ {r})
  <2>1. PICK row : row = [work[w] EXCEPT !.done = @ \cup {r}]
    OBVIOUS
  <2>2. /\ DOMAIN row = {"pc", "key", "att", "done"} /\ row.key = k /\ row.pc = "grant"
        /\ row.done = work[w].done \cup {r}
    BY <1>1, <1>2, <2>1 DEF HolderOK
  <2>3. work' = [work EXCEPT ![w] = row]
    BY <1>9, <2>1
  <2>4. WorkerMoves(w) /\ work'[w] = row /\ row # Idle
    BY <2>2, <2>3 DEF FleetInv, HoldersOK, WorkerMoves, Idle
  <2>5. StartsEmpty(w)'
    BY <2>2, <2>4 DEF StartsEmpty
  <2>6. \A g : Known(w, g) => Known(w, g)'
    BY <1>1, <2>2, <2>4 DEF Known
  <2>7. faults'.stray = faults.stray \ {r}
    BY <1>9, NewStrays
  <2>8. r.grant = k.ver
    <3>1. First(left) \in outbox[k].refs
      BY <1>1, <1>2, <1>5, <1>9, LeftFacts DEF EventOf
    <3>2. PICK i, a, o : First(left) = Ref(i, a, o)
      BY <1>2, <3>1 DEF FleetInv, BoxInv, EventsOK, EventOK
    <3> QED
      BY <1>5, <3>2 DEF Ref
  <2>9. Known(w, r)'
    BY <1>4, <2>2, <2>4, <2>8 DEF Known
  <2>10. ~HasEnded(r.grant, "failed")
    BY <1>4, <2>8 DEF HasEnded
  <2> QED
    BY <1>9, <2>4, <2>5, <2>6, <2>7, <2>9, <2>10, StrayFrame
<1> QED
  BY <1>6, <1>7, <1>8, <1>9

\* The other steps at the rows of no entry.
LEMMA StrayAsk ==
    ASSUME FleetInv, FaultsOK, StrayInv, NEW w \in Workers, GetAssets(w) \/ EventDelivered(w), Frame
    PROVE  StrayInv'
<1>1. work[w] # Idle /\ HolderOK(w) /\ UNCHANGED <<outbox, grants>>
  BY BusyHolder DEF FleetInv, GetAssets, EventDelivered, Busy
<1>2. faults'.stray = faults.stray
  <2>1. UNCHANGED faults \/ GoesWrong
    BY DEF GetAssets, EventDelivered
  <2> QED
    BY <2>1, SameStrays
<1>3. ASSUME NEW pc, Goto(w, pc), pc \in {"get", "defer", "fail"} => work[w].done = {}
      PROVE  StrayInv'
  <2>1. /\ WorkerMoves(w) /\ work'[w].pc = pc /\ work'[w].key = work[w].key
        /\ work'[w].done = work[w].done /\ work'[w] # Idle
    BY <1>1, <1>3, GotoMoves DEF FleetInv, Idle
  <2>2. StartsEmpty(w)'
    BY <1>3, <2>1 DEF StartsEmpty
  <2>3. \A g : Known(w, g) => Known(w, g)'
    BY <2>1 DEF Known
  <2> QED
    BY <1>1, <1>2, <2>1, <2>2, <2>3, StrayOn
<1>4. CASE GetAssets(w)
  <2>1. work[w].pc = "get" /\ \E pc : Goto(w, pc)
    BY <1>4 DEF GetAssets, Busy
  <2>2. work[w].key.kind = "publish"
    BY <1>1, <2>1 DEF HolderOK, StepFits
  <2>3. work[w].done = {}
    BY <1>1, <2>1, <2>2 DEF StrayInv, StartsEmpty
  <2> QED
    BY <1>3, <2>1, <2>3
<1>5. CASE EventDelivered(w)
  <2>1. \/ Goto(w, "compensate")
        \/ Goto(w, "retry")
        \/ outbox[work[w].key].status = "delivered" /\ Release(w)
    BY <1>5 DEF EventDelivered, EventOf
  <2>2. CASE outbox[work[w].key].status = "delivered" /\ Release(w)
    <3>1. WorkerMoves(w) /\ work'[w] = Idle
      BY <2>2, ReleaseMoves DEF FleetInv
    <3>2. StartsEmpty(w)'
      BY <3>1 DEF StartsEmpty
    <3>3. \A g : Known(w, g) => ~Open(PublishKey(g.grant))'
      BY <1>1, <2>2 DEF Known, Open
    <3> QED
      BY <1>1, <1>2, <3>1, <3>2, <3>3, StrayOn
  <2> QED
    BY <1>3, <2>1, <2>2
<1> QED
  BY <1>4, <1>5

LEMMA StrayTaking ==
    ASSUME FleetInv, FaultsOK, StrayInv, NEW w \in Workers,
           RevokeGrant(w) \/ DeleteAsset(w) \/ Complete(w), Frame
    PROVE  StrayInv'
<1>1. work[w] # Idle /\ HolderOK(w)
  BY BusyHolder DEF FleetInv, RevokeGrant, DeleteAsset, Complete, Busy
<1>2. work[w].key.kind # "publish"
  BY <1>1 DEF HolderOK, StepFits, RevokeGrant, DeleteAsset, Complete, Busy, RevokeKinds
<1>3. UNCHANGED faults \/ GoesWrong
  BY DEF RevokeGrant, DeleteAsset, Complete, Answered, RollsBack
<1>4. grants' \subseteq grants
  BY DEF RevokeGrant, DeleteAsset, Complete
<1>5. CASE Release(w)
  BY <1>2, <1>3, <1>4, <1>5, ReleaseMoves, SameStrays, StrayOther DEF FleetInv
<1>6. ASSUME NEW pc, Goto(w, pc)
      PROVE  StrayInv'
  <2>1. WorkerMoves(w) /\ work'[w].key = work[w].key
    BY <1>1, <1>6, GotoMoves DEF FleetInv
  <2> QED
    BY <1>2, <1>3, <1>4, <2>1, SameStrays, StrayOther
<1>7. ASSUME NEW r, work' = [work EXCEPT ![w].done = @ \cup {r}]
      PROVE  StrayInv'
  <2>1. PICK row : row = [work[w] EXCEPT !.done = @ \cup {r}]
    OBVIOUS
  <2>2. row.key = work[w].key
    BY <1>1, <2>1 DEF HolderOK
  <2>3. work' = [work EXCEPT ![w] = row]
    BY <1>7, <2>1
  <2>4. WorkerMoves(w) /\ work'[w] = row
    BY <2>3 DEF FleetInv, HoldersOK, WorkerMoves
  <2> QED
    BY <1>2, <1>3, <1>4, <2>2, <2>4, SameStrays, StrayOther
<1>8. Release(w) \/ (\E pc : Goto(w, pc)) \/ \E r : work' = [work EXCEPT ![w].done = @ \cup {r}]
  <2>1. CASE RevokeGrant(w)
    BY <2>1 DEF RevokeGrant
  <2>2. CASE DeleteAsset(w) \/ Complete(w)
    BY <2>2 DEF DeleteAsset, Complete, Answered, RollsBack
  <2> QED
    BY <2>1, <2>2
<1> QED
  BY <1>5, <1>6, <1>7, <1>8

LEMMA StrayOutbox ==
    ASSUME FleetInv, FaultsOK, StrayInv, NEW w \in Workers, OutboxMoves(w), ~faults'.lost
    PROVE  StrayInv'
<1>1. Frame
  BY OutboxFleet
<1>2. CASE Crash(w)
  <2>1. /\ work[w] # Idle /\ Release(w) /\ UNCHANGED <<outbox, grants>>
        /\ StraysTo(faults.stray \cup Unattended(w))
    BY <1>2 DEF Crash, StraysTo
  <2> QED
    BY <1>1, <2>1, StrayLeft
<1>3. CASE Reopen(w)
  <2>1. /\ work[w] # Idle /\ Release(w) /\ UNCHANGED grants
        /\ StraysTo(faults.stray \cup Unattended(w))
    BY <1>3, BusyHolder DEF Reopen, StraysTo, Busy, FleetInv
  <2>2. UNCHANGED outbox \/ outbox[work[w].key].status = "processing"
    BY <1>3 DEF Reopen, EventOf
  <2> QED
    BY <1>1, <2>1, <2>2, StrayLeft
<1> QED
  BY <1>1, <1>2, <1>3, StrayClaim, StrayCreate, StrayAsk, StrayTaking DEF OutboxMoves, OutboxStep

\* A worker's transaction delivers its event, or fails what is no publication.
LEMMA StrayEnded ==
    ASSUME FleetInv, FaultsOK, StrayInv, BoxMoves, NEW w \in Workers, work[w] # Idle,
           grants' = grants, UNCHANGED faults \/ GoesWrong,
           work[w].key.kind = "publish" => outbox'[work[w].key].status = "delivered",
           \A k \in DOMAIN outbox : k # work[w].key => outbox'[k] = outbox[k],
           Release(w) \/ \E pc \in {"retry", "confirm", "fail"} :
               Goto(w, pc) /\ (pc = "fail" => work[w].key.kind # "publish")
    PROVE  StrayInv'
<1>1. GrantMoves
  BY DEF GrantMoves
<1>2. WorkerMoves(w) /\ StartsEmpty(w)'
  <2>1. CASE Release(w)
    BY <2>1, ReleaseMoves DEF FleetInv, StartsEmpty
  <2>2. CASE ~Release(w)
    <3>1. PICK pc \in {"retry", "confirm", "fail"} :
               Goto(w, pc) /\ (pc = "fail" => work[w].key.kind # "publish")
      BY <2>2
    <3>2. WorkerMoves(w) /\ work'[w].pc = pc /\ work'[w].key = work[w].key
      BY <3>1, GotoMoves DEF FleetInv
    <3> QED
      BY <3>1, <3>2 DEF StartsEmpty
  <2> QED
    BY <2>1, <2>2
<1>3. faults'.stray = faults.stray
  BY SameStrays
<1>4. ASSUME NEW g, Known(w, g)
      PROVE  ~Open(PublishKey(g.grant))'
  <2>1. work[w].key = PublishKey(g.grant) /\ work[w].key.kind = "publish"
    BY <1>4, PublishKeyFacts DEF Known
  <2> QED
    BY <2>1 DEF Open
<1>5. ASSUME NEW g \in grants, HasEnded(g.grant, "failed")'
      PROVE  HasEnded(g.grant, "failed")
  <2>1. PublishKey(g.grant) \in DOMAIN outbox /\ PublishKey(g.grant).kind = "publish"
    BY PublishKeyFacts DEF FleetInv, BoxInv, GrantsHaveEvents
  <2> QED
    BY <1>5, <2>1 DEF HasEnded
<1> QED
  BY <1>1, <1>2, <1>3, <1>4, <1>5, StrayStep

\* A publication fails before it has asked for a grant.
LEMMA StrayFailed ==
    ASSUME FleetInv, FaultsOK, StrayInv, NEW w \in Workers, Busy(w, "fail"),
           outbox' = Mark(outbox, work[w].key, "failed"), UNCHANGED <<grants, faults>>, Release(w)
    PROVE  StrayInv'
<1>1. work[w] # Idle /\ GrantMoves
  BY BusyHolder DEF FleetInv, Busy, GrantMoves
<1>2. BoxMoves /\ \A k \in DOMAIN outbox : k # work[w].key => outbox'[k] = outbox[k]
  <2>1. PICK k, e : k = work[w].key /\ e = outbox[k]
    OBVIOUS
  <2>2. HolderOK(w) /\ k \in DOMAIN outbox /\ work[w].pc = "fail"
    BY <2>1, BusyHolder DEF FleetInv, Busy, HolderOK
  <2>3. StepFits(k, e, "fail", work[w].done) /\ EventOK(k, e)
    BY <2>1, <2>2 DEF HolderOK, FleetInv, BoxInv, EventsOK
  <2>4. /\ DOMAIN outbox' = DOMAIN outbox /\ DOMAIN outbox'[k] = DOMAIN outbox[k]
        /\ outbox'[k].status = "failed" /\ outbox'[k].refs = outbox[k].refs
        /\ \A x \in DOMAIN outbox : x # k => outbox'[x] = outbox[x]
    BY <2>1, <2>2, <2>3, MarkFacts
  <2>5. OthersStay(k)
    BY <2>4 DEF OthersStay
  <2>6. (k.kind = "publish" => e.status = "processing") /\ (k.kind \in RevokeKinds => e.refs \cap grants = {})
    BY <2>3 DEF StepFits
  <2> QED
    BY <1>1, <2>1, <2>2, <2>4, <2>5, <2>6, EndedFleet
<1>3. WorkerMoves(w) /\ StartsEmpty(w)'
  BY <1>1, ReleaseMoves DEF FleetInv, StartsEmpty
<1>4. ASSUME NEW g
      PROVE  ~Known(w, g)
  BY PublishKeyFacts DEF Known, StrayInv, StartsEmpty, Busy
<1>5. ASSUME NEW g \in grants, HasEnded(g.grant, "failed")', ~HasEnded(g.grant, "failed")
      PROVE  g \in faults.stray
  <2>1. PICK k : k = PublishKey(g.grant) /\ k \in DOMAIN outbox /\ k.kind = "publish"
    BY PublishKeyFacts DEF FleetInv, BoxInv, GrantsHaveEvents
  <2>2. k = work[w].key
    BY <1>2, <1>5, <2>1 DEF HasEnded
  <2>3. outbox[k].status = "processing"
    BY <1>1, <2>1, <2>2 DEF FleetInv, HoldersOK, HolderOK, StepFits, Busy
  <2>4. \A x \in Workers : x # w => ~Known(x, g)
    BY <1>1, <2>1, <2>2 DEF Known, FleetInv, HoldersOK
  <2> QED
    BY <1>4, <2>1, <2>3, <2>4 DEF StrayInv, StrayOK, Open
<1> QED
  BY <1>1, <1>2, <1>3, <1>4, <1>5, StrayStep

\* A publication fails with the grants its worker knows of being taken back.
LEMMA StrayCompensated ==
    ASSUME FleetInv, FaultsOK, StrayInv, NEW w \in Workers, NEW k, k = work[w].key,
           work[w].pc = "compensate",
           outbox' = Insert(Mark(outbox, k, "failed"), CompensateKey, work[w].done),
           Answered(w, "retry"), grants' = grants
    PROVE  StrayInv'
<1>1. /\ BoxMoves /\ k \in DOMAIN outbox /\ k.kind = "publish"
      /\ \A x \in DOMAIN outbox : x # k => outbox'[x] = outbox[x]
  BY CompensatedFleet
<1>2. work[w] # Idle /\ HolderOK(w)
  BY BusyHolder DEF FleetInv
<1>3. GrantMoves
  BY DEF GrantMoves
<1>4. WorkerMoves(w) /\ StartsEmpty(w)'
  <2>1. CASE Release(w)
    BY <2>1, ReleaseMoves DEF FleetInv, StartsEmpty
  <2>2. CASE Goto(w, "retry")
    <3>1. WorkerMoves(w) /\ work'[w].pc = "retry"
      BY <1>2, <2>2, GotoMoves DEF FleetInv
    <3> QED
      BY <3>1 DEF StartsEmpty
  <2> QED
    BY <2>1, <2>2 DEF Answered
<1>5. faults'.stray = faults.stray
  <2>1. UNCHANGED faults \/ GoesWrong
    BY DEF Answered
  <2> QED
    BY <2>1, SameStrays
<1>6. outbox'[k].status = "failed"
  BY CompensatedFleet
<1>7. ASSUME NEW g, Known(w, g)
      PROVE  ~Open(PublishKey(g.grant))'
  BY <1>6, <1>7 DEF Known, Open
<1>8. ASSUME NEW g \in work[w].done, g.grant = k.ver
      PROVE  IsTaken(g)'
  <2>1. PICK x : x = CompensateKey(g)
    OBVIOUS
  <2>2. k = PublishKey(k.ver) /\ outbox[k].status = "processing"
    BY <1>1, <1>2 DEF HolderOK, StepFits, FleetInv, BoxInv, EventsOK, EventOK
  <2>3. x \notin DOMAIN outbox /\ x.kind = "compensate"
    BY <1>8, <2>1, <2>2, NotYetCompensated, CompensateKeyFacts DEF FleetInv, HasEnded
  <2>4. PICK box : box = Mark(outbox, k, "failed")
    OBVIOUS
  <2>5. DOMAIN box = DOMAIN outbox
    BY <1>1, <2>4, MarkFacts DEF FleetInv, BoxInv, EventsOK
  <2>6. PICK new : new = {CompensateKey(r) : r \in work[w].done} \ DOMAIN box
    OBVIOUS
  <2>7. outbox' = [y \in DOMAIN box \cup new |->
            IF y \in new THEN Event({r \in work[w].done : CompensateKey(r) = y}) ELSE box[y]]
    BY <2>4, <2>6 DEF Insert
  <2>8. x \in new
    BY <2>1, <2>3, <2>5, <2>6
  <2>9. PICK refs : refs = {r \in work[w].done : CompensateKey(r) = x}
    OBVIOUS
  <2>10. x \in DOMAIN outbox' /\ outbox'[x] = Event(refs) /\ g \in refs
    BY <2>1, <2>7, <2>8, <2>9
  <2>11. Open(x)' /\ g \in outbox'[x].refs
    BY <2>10, EventFacts DEF Open
  <2> QED
    BY <2>3, <2>10, <2>11 DEF IsTaken, RevokeKinds
<1>9. ASSUME NEW g \in grants, HasEnded(g.grant, "failed")', ~HasEnded(g.grant, "failed")
      PROVE  g \in faults.stray \/ IsTaken(g)'
  <2>1. PICK y : y = PublishKey(g.grant) /\ y \in DOMAIN outbox /\ y.kind = "publish" /\ y.ver = g.grant
    BY PublishKeyFacts DEF FleetInv, BoxInv, GrantsHaveEvents
  <2>2. y = k
    BY <1>1, <1>9, <2>1 DEF HasEnded
  <2>3. outbox[k].status = "processing"
    BY <1>2 DEF HolderOK, StepFits
  <2>4. \A x \in Workers : x # w => ~Known(x, g)
    BY <1>2, <2>1, <2>2 DEF Known, FleetInv, HoldersOK
  <2>5. g \in faults.stray \/ Known(w, g)
    BY <2>1, <2>2, <2>3, <2>4 DEF StrayInv, StrayOK, Open
  <2> QED
    BY <1>8, <2>1, <2>2, <2>5 DEF Known
<1> QED
  BY <1>1, <1>3, <1>4, <1>5, <1>7, <1>9, StrayStep

\* A worker whose transaction leaves everything goes on.
LEMMA StrayGoes ==
    ASSUME FleetInv, FaultsOK, StrayInv, NEW w \in Workers, work[w] # Idle,
           NEW pc \in {"compensate", "retry", "confirm"}, Goto(w, pc), UNCHANGED <<outbox, grants>>,
           UNCHANGED faults \/ GoesWrong
    PROVE  StrayInv'
<1>1. Frame
  BY StayingFrame
<1>2. /\ WorkerMoves(w) /\ work'[w].pc = pc /\ work'[w].key = work[w].key
      /\ work'[w].done = work[w].done /\ work'[w] # Idle
  <2>1. HolderOK(w)
    BY DEF FleetInv, HoldersOK
  <2> QED
    BY <2>1, GotoMoves DEF FleetInv, Idle
<1>3. StartsEmpty(w)'
  BY <1>2 DEF StartsEmpty
<1>4. \A g : Known(w, g) => Known(w, g)'
  BY <1>2 DEF Known
<1> QED
  BY <1>1, <1>2, <1>3, <1>4, SameStrays, StrayOn

LEMMA InitStrays ==
    ASSUME OutboxInit
    PROVE  StrayInv
<1>1. grants = {} /\ work = [w \in Workers |-> Idle]
  BY DEF OutboxInit
<1> QED
  BY <1>1 DEF StrayInv, StartsEmpty

----------------------------------------------------------------------------
(* The banner of home                                                      *)

LEMMA BannerNotRevoked ==
    ASSUME BoxInv, BannerEvents, NEW r, RecordedOK(r)
    PROVE  ~IsRevoked(r) /\ ~Deleting
<1>1. ~Deleting
  BY DEF BannerEvents, Deleting
<1>2. ASSUME NEW k \in DOMAIN outbox, k.kind \in RevokeKinds, r \in outbox[k].refs
      PROVE  FALSE
  <2>1. CASE k.kind = "revoke"
    BY <1>2, <2>1 DEF BoxInv, EventsOK, EventOK, RecordedOK
  <2>2. CASE k.kind = "compensate"
    BY <1>2, <2>2 DEF BoxInv, RevocationsFollow, RecordedOK, HasEnded
  <2> QED
    BY <1>2, <2>1, <2>2 DEF BannerEvents, RevokeKinds
<1> QED
  BY <1>1, <1>2 DEF IsRevoked

\* The steps of the outbox, and those of editors that write no event.
LEMMA FrameBanner ==
    ASSUME BannerInv, FleetInv', Frame, page'.pub = page.pub,
           \A k \in DOMAIN outbox :
                k.kind = "publish" /\ k.ver <= page.ver => k.ver <= page'.ver,
           pageProj' = pageProj
    PROVE  BannerInv'
<1>1. BannerEvents'
  BY DEF BannerInv, BannerEvents, Frame, BoxMoves, MovedOK
<1>2. BannerRecorded'
  BY FrameFacts DEF BannerInv, BannerRecorded
<1>3. BannerServed'
  <2> SUFFICES ASSUME pageProj.body.template = "home.v2"
               PROVE  page.pub \in grants'
    BY DEF BannerInv, BannerServed
  <2>1. page.pub \in grants /\ RecordedOK(page.pub)
    BY DEF BannerInv, BannerServed, BannerRecorded
  <2>2. ~IsRevoked(page.pub) /\ ~Deleting
    BY <2>1, BannerNotRevoked DEF BannerInv, FleetInv
  <2> QED
    BY <2>1, <2>2, FrameFacts DEF BannerInv
<1>4. AccountedFor({page.pub})'
  <2>1. PICK S : S = {page.pub}
    OBVIOUS
  <2>2. AccountedFor(S)'
    BY <2>1, FrameFacts DEF BannerInv
  <2> QED
    BY <2>1, <2>2 DEF AccountedFor
<1> QED
  BY <1>1, <1>2, <1>3, <1>4 DEF BannerInv

\* An edit that writes no event.
LEMMA TouchedBanner ==
    ASSUME PageOK, BannerInv, UNCHANGED <<outboxVars, pageProj>>,
           page'.pub = page.pub, page'.ver = page.ver + 1
    PROVE  BannerInv'
<1>1. UNCHANGED <<outbox, work, grants>>
  BY DEF outboxVars
<1>2. Frame
  BY <1>1, StayingFrame DEF BannerInv
<1>3. FleetInv'
  BY <1>1, <1>2, EditedFleet DEF BannerInv, Frame
<1>4. \A k \in DOMAIN outbox : k.kind = "publish" /\ k.ver <= page.ver => k.ver <= page'.ver
  <2>1. page.ver \in Nat /\ \A k \in DOMAIN outbox : k.kind = "publish" => k.ver \in Nat
    BY DEF PageOK, BannerInv, FleetInv, BoxInv, EventsOK, EventOK
  <2> QED
    BY <2>1
<1> QED
  BY <1>2, <1>3, <1>4, FrameBanner

LEMMA EditBanner ==
    ASSUME GroupInv, BannerInv,
           \/ \E c \in Children : CreateChild(c) \/ UpdateChild(c) \/ RemoveChild(c) \/ DeleteChild(c)
           \/ EditText \/ AttachBanner
           \/ \E v \in Finished : RestorePageGroup(v)
    PROVE  BannerInv'
<1>1. CASE page' = Status("draft") /\ UNCHANGED <<outboxVars, pageProj>>
  BY <1>1, StatusFacts, TouchedBanner DEF GroupInv
<1>2. ASSUME NEW body, page' = [Status("draft") EXCEPT !.body = body],
             UNCHANGED <<outboxVars, pageProj>>
      PROVE  BannerInv'
  <2>1. PICK row : row = Status("draft")
    OBVIOUS
  <2>2. DOMAIN row = {"status", "ver", "body", "pub"} /\ row.ver = page.ver + 1 /\ row.pub = page.pub
    BY <2>1, StatusFacts DEF GroupInv, PageOK
  <2>3. page'.pub = page.pub /\ page'.ver = page.ver + 1
    BY <1>2, <2>1, <2>2
  <2> QED
    BY <1>2, <2>3, TouchedBanner DEF GroupInv
<1> QED
  BY <1>1, <1>2 DEF CreateChild, UpdateChild, RemoveChild, DeleteChild, WriteChild, TouchPageGroup,
                    EditText, AttachBanner, UpdatePage, RestorePageGroup

\* A handler publishes or withdraws the page, and takes its banner back.
LEMMA ClearedBanner ==
    ASSUME GroupInv, BannerInv, NEW status, ClearBanner(Status(status)),
           UNCHANGED <<work, grants, faults>>, pageProj'.body.template # "home.v2"
    PROVE  BannerInv'
<1>1. PICK p, k, S, T : p = page.pub /\ k = RevokeKey(p) /\ S = {p} /\ T = {NoRef}
  OBVIOUS
<1>2. page'.pub = NoRef /\ page'.ver = page.ver + 1
  <2>1. PICK row : row = Status(status)
    OBVIOUS
  <2>2. DOMAIN row = {"status", "ver", "body", "pub"} /\ row.ver = page.ver + 1
    BY <2>1, StatusFacts DEF GroupInv, PageOK
  <2> QED
    BY <2>1, <2>2 DEF ClearBanner
<1>3. page.ver \in Nat /\ \A x \in DOMAIN outbox : x.kind = "publish" => x.ver \in Nat
  BY DEF GroupInv, PageOK, BannerInv, FleetInv, BoxInv, EventsOK, EventOK
<1>4. \A x \in DOMAIN outbox : EventOK(x, outbox[x])
  BY DEF BannerInv, FleetInv, BoxInv, EventsOK
<1>5. CASE p = NoRef
  <2>1. outbox' = outbox /\ work' = work /\ grants' = grants
    BY <1>1, <1>5 DEF ClearBanner
  <2>2. Frame
    BY <2>1, StayingFrame DEF BannerInv
  <2>3. FleetInv'
    BY <2>1, <2>2, EditedFleet DEF BannerInv, Frame
  <2>4. BannerEvents' /\ BannerRecorded' /\ BannerServed'
    BY <1>2, <1>3, <2>1 DEF BannerInv, BannerEvents, BannerRecorded, BannerServed
  <2>5. AccountedFor(T)'
    BY <1>1, <1>5, <2>2, FrameFacts DEF BannerInv
  <2> QED
    BY <1>1, <1>2, <2>3, <2>4, <2>5 DEF BannerInv
<1>6. CASE p # NoRef
  <2>1. /\ p = Ref(Banner, p.asset, p.grant) /\ HasEnded(p.grant, "delivered")
        /\ k \notin DOMAIN outbox
    BY <1>1, <1>6 DEF BannerInv, BannerRecorded, RecordedOK
  <2>2. outbox' = InsertOne(outbox, k, S)
    BY <1>1, <1>6 DEF ClearBanner
  <2>3. /\ DOMAIN outbox' = DOMAIN outbox \cup {k} /\ outbox'[k] = Event(S)
        /\ \A x \in DOMAIN outbox : outbox'[x] = outbox[x]
    BY <2>1, <2>2 DEF InsertOne
  <2>4. k.kind = "revoke" /\ p.image = Banner /\ Banner \in Images
    BY <1>1, <2>1 DEF RevokeKey, Key, Ref, Images
  <2>5. HasEnded(p.grant, "delivered")'
    BY <2>1, <2>3 DEF HasEnded
  <2>6. AddedOK(k)
    BY <1>1, <2>1, <2>3, <2>4, <2>5, EventFacts DEF AddedOK, EventOK, RevokeKinds, EventStatuses
  <2>7. BoxMoves
    BY <1>4, <2>3, <2>6 DEF BoxMoves, MovedOK, EventOK
  <2>8. FleetInv'
    BY <2>3, <2>7, EditedFleet DEF BannerInv
  <2>9. BannerEvents'
    BY <1>2, <1>3, <2>1, <2>3, <2>4 DEF BannerInv, BannerEvents
  <2>10. BannerRecorded' /\ BannerServed'
    BY <1>2 DEF BannerRecorded, BannerServed
  <2>11. \A g \in S \cap grants : \E x \in DOMAIN outbox' :
              x.kind \in RevokeKinds /\ Open(x)' /\ g \in outbox'[x].refs
    BY <2>3, <2>4, EventFacts DEF Open, RevokeKinds
  <2>12. \A g \in grants : HasEnded(g.grant, "delivered")' => HasEnded(g.grant, "delivered")
    BY <2>3, <2>4, PublishKeyFacts DEF HasEnded
  <2>13. AccountedFor(T)'
    BY <1>1, <2>7, <2>11, <2>12, AccountsMove DEF BannerInv
  <2> QED
    BY <1>1, <1>2, <2>8, <2>9, <2>10, <2>13 DEF BannerInv
<1> QED
  BY <1>5, <1>6

LEMMA StartBanner ==
    ASSUME GroupInv, BannerInv, StartHomePublish
    PROVE  BannerInv'
<1>1. PICK k, r, S, T : /\ k = PublishKey(page.ver + 1) /\ r = Ref(Banner, page.body.banner, 0)
                        /\ S = {r} /\ T = {page.pub}
  OBVIOUS
<1>2. page'.pub = page.pub /\ page'.ver = page.ver + 1 /\ pageProj' = pageProj
  BY StatusFacts DEF StartHomePublish
<1>3. page.ver \in Nat /\ \A x \in DOMAIN outbox : x.kind = "publish" => x.ver \in Nat
  BY DEF GroupInv, PageOK, BannerInv, FleetInv, BoxInv, EventsOK, EventOK
<1>4. \A x \in DOMAIN outbox : EventOK(x, outbox[x])
  BY DEF BannerInv, FleetInv, BoxInv, EventsOK
<1>5. k.kind = "publish" /\ k.ver = page.ver + 1
  BY <1>1, PublishKeyFacts
<1>6. k \notin DOMAIN outbox
  BY <1>3, <1>5 DEF BannerInv, BannerEvents
<1>7. outbox' = InsertOne(outbox, k, S) /\ UNCHANGED <<work, grants>> /\ page.body.banner # 0
  BY <1>1 DEF StartHomePublish
<1>8. /\ DOMAIN outbox' = DOMAIN outbox \cup {k} /\ outbox'[k] = Event(S)
      /\ \A x \in DOMAIN outbox : outbox'[x] = outbox[x]
  BY <1>6, <1>7 DEF InsertOne
<1>9. r = Ref(r.image, r.asset, r.grant) /\ r.image = Banner /\ r.asset # 0 /\ Banner \in Images
  BY <1>1, <1>7 DEF Ref, Images
<1>10. AddedOK(k)
  BY <1>1, <1>3, <1>5, <1>8, <1>9, EventFacts DEF AddedOK, EventOK, RevokeKinds, EventStatuses
<1>11. BoxMoves
  BY <1>4, <1>8, <1>10 DEF BoxMoves, MovedOK, EventOK
<1>12. FleetInv'
  BY <1>7, <1>8, <1>11, EditedFleet DEF BannerInv
<1>13. BannerEvents'
  <2>1. \E x \in outbox'[k].refs : outbox'[k].refs = {x} /\ x.image = Banner
    BY <1>1, <1>8, <1>9, EventFacts
  <2> QED
    BY <1>2, <1>3, <1>5, <1>8, <2>1 DEF BannerInv, BannerEvents
<1>14. \A v : HasEnded(v, "delivered")' <=> HasEnded(v, "delivered")
  BY <1>6, <1>8, EventFacts DEF HasEnded
<1>15. BannerRecorded'
  <2>1. \A x : RevokeKey(x) # k
    BY <1>5 DEF RevokeKey, Key
  <2> QED
    BY <1>2, <1>8, <1>14, <2>1 DEF BannerInv, BannerRecorded, RecordedOK
<1>16. BannerServed'
  BY <1>2, <1>7 DEF BannerInv, BannerServed
<1>17. AccountedFor(T)'
  BY <1>1, <1>7, <1>11, <1>14, AccountsMove DEF BannerInv
<1> QED
  BY <1>1, <1>2, <1>12, <1>13, <1>15, <1>16, <1>17 DEF BannerInv

\* The worker that completes a publication has the one grant it asked for.
LEMMA BannerDone ==
    ASSUME GroupInv, BannerInv, NEW w \in Workers, NEW k, NEW r, k = work[w].key,
           r = First(work[w].done), work[w].pc = "complete", Current(k)
    PROVE  /\ work[w] # Idle /\ HolderOK(w) /\ k \in DOMAIN outbox
           /\ k = PublishKey(k.ver) /\ k.kind = "publish" /\ k.ver \in Nat \ {0}
           /\ outbox[k].status = "processing"
           /\ r = Ref(Banner, page.body.banner, k.ver) /\ r \in grants
           /\ \A g \in grants : g.grant = k.ver => g = r
<1>1. PICK e, done : e = outbox[k] /\ done = work[w].done
  OBVIOUS
<1>2. work[w] # Idle /\ HolderOK(w) /\ k \in DOMAIN outbox
  BY BusyHolder DEF BannerInv, FleetInv, HolderOK
<1>3. StepFits(k, e, "complete", done)
  BY <1>1, <1>2 DEF HolderOK
<1>4. k = PublishKey(k.ver) /\ k.kind = "publish" /\ k.ver \in Nat \ {0} /\ e.status = "processing"
  BY <1>1, <1>2, <1>3 DEF StepFits, BannerInv, FleetInv, BoxInv, EventsOK, EventOK
<1>5. PICK x \in e.refs : e.refs = {x} /\ x.image = Banner
  BY <1>1, <1>2, <1>4 DEF BannerInv, BannerEvents
<1>6. x.asset = page.body.banner
  BY <1>1, <1>5 DEF Current
<1>7. PICK y : y = GrantFor(x, k.ver)
  OBVIOUS
<1>8. y = Ref(Banner, page.body.banner, k.ver) /\ y.image = Banner /\ Banner \in Images
  BY <1>5, <1>6, <1>7 DEF GrantFor, Ref, Images
<1>9. done = {y}
  BY <1>3, <1>4, <1>5, <1>7 DEF StepFits
<1>10. r = y
  BY <1>1, <1>8, <1>9, FirstIsIn
<1>11. r \in grants
  BY <1>2, <1>3, <1>9, <1>10 DEF StepFits, BannerInv, BannerEvents, Deleting
<1>12. ASSUME NEW g \in grants, g.grant = k.ver
       PROVE  g = r
  <2>1. \E z \in outbox[PublishKey(g.grant)].refs : g = GrantFor(z, g.grant)
    BY DEF BannerInv, FleetInv, BoxInv, GrantsHaveEvents
  <2> QED
    BY <1>1, <1>4, <1>5, <1>7, <1>10, <1>12, <2>1
<1> QED
  BY <1>1, <1>2, <1>4, <1>8, <1>10, <1>11, <1>12

LEMMA PublishedBanner ==
    ASSUME GroupInv, BannerInv, NEW w \in Workers, NEW k, NEW r, k = work[w].key,
           r = First(work[w].done), work[w].pc = "complete", Current(k), PublishHome(k, r),
           grants' = grants, Answered(w, AfterPublishError(w))
    PROVE  /\ BannerInv' /\ BoxMoves
           /\ outbox'[k].status = "delivered"
           /\ \A x \in DOMAIN outbox : x # k => outbox'[x] = outbox[x]
<1>1. PICK p, q, S, T, box : /\ p = page.pub /\ q = RevokeKey(p) /\ S = {p} /\ T = {r}
                             /\ box = Mark(outbox, k, "delivered")
  OBVIOUS
<1>2. /\ work[w] # Idle /\ HolderOK(w) /\ k \in DOMAIN outbox
      /\ k = PublishKey(k.ver) /\ k.kind = "publish" /\ k.ver \in Nat \ {0}
      /\ outbox[k].status = "processing"
      /\ r = Ref(Banner, page.body.banner, k.ver) /\ r \in grants
      /\ \A g \in grants : g.grant = k.ver => g = r
  BY BannerDone
<1>3. \A x \in DOMAIN outbox : EventOK(x, outbox[x])
  BY DEF BannerInv, FleetInv, BoxInv, EventsOK
<1>4. page'.pub = r /\ page'.ver = page.ver
  BY DEF PublishHome, GroupInv, PageOK
<1>5. pageProj' = [ver |-> k.ver, body |-> page.body]
  BY DEF PublishHome, WriteProjections
<1>6. /\ DOMAIN box = DOMAIN outbox /\ DOMAIN box[k] = DOMAIN outbox[k]
      /\ box[k].status = "delivered" /\ box[k].refs = outbox[k].refs
      /\ \A x \in DOMAIN outbox : x # k => box[x] = outbox[x]
  BY <1>1, <1>2, <1>3, MarkFacts
<1>7. p # NoRef => /\ p = Ref(Banner, p.asset, p.grant) /\ HasEnded(p.grant, "delivered")
                   /\ q \notin DOMAIN outbox /\ p # r
  <2>1. p # NoRef => p = Ref(Banner, p.asset, p.grant) /\ RecordedOK(p)
    BY <1>1 DEF BannerInv, BannerRecorded
  <2>2. r.grant = k.ver /\ ~HasEnded(r.grant, "delivered")
    BY <1>2 DEF HasEnded, Ref
  <2> QED
    BY <1>1, <2>1, <2>2 DEF RecordedOK
<1>8. outbox' = IF p = NoRef THEN box ELSE InsertOne(box, q, S)
  BY <1>1, <1>7 DEF PublishHome
<1>9. /\ DOMAIN outbox' = DOMAIN outbox \cup (IF p = NoRef THEN {} ELSE {q})
      /\ \A x \in DOMAIN outbox : outbox'[x] = box[x]
      /\ p # NoRef => outbox'[q] = Event(S)
  BY <1>6, <1>7, <1>8 DEF InsertOne
<1>10. q.kind = "revoke"
  BY <1>1 DEF RevokeKey, Key
<1>11. p # NoRef => HasEnded(p.grant, "delivered")'
  BY <1>2, <1>6, <1>7, <1>9 DEF HasEnded
<1>12. p # NoRef => AddedOK(q)
  <2>1. Banner \in Images
    BY DEF Images
  <2>2. p # NoRef => p.image = Banner
    BY <1>7 DEF Ref
  <2> QED
    BY <1>1, <1>7, <1>9, <1>10, <1>11, <2>1, <2>2, EventFacts
       DEF AddedOK, EventOK, RevokeKinds, EventStatuses
<1>13. FleetInv' /\ BoxMoves
  <2>1. OthersStay(k)
    BY <1>6, <1>9 DEF OthersStay
  <2>2. /\ outbox'[k].status = "delivered" /\ outbox'[k].refs = outbox[k].refs
        /\ DOMAIN outbox'[k] = DOMAIN outbox[k]
    BY <1>2, <1>6, <1>9
  <2>3. \A x \in DOMAIN outbox' : x \notin DOMAIN outbox => AddedOK(x)
    BY <1>9, <1>12
  <2>4. Release(w) \/ Goto(w, "retry") \/ Goto(w, "confirm")
    BY DEF Answered, AfterPublishError
  <2> QED
    BY <1>2, <2>1, <2>2, <2>3, <2>4, EndedFleet DEF BannerInv, RevokeKinds
<1>14. BannerEvents'
  <2>1. page'.ver = page.ver
    BY <1>4
  <2>2. ASSUME NEW x \in DOMAIN outbox
        PROVE  x \in DOMAIN outbox' /\ outbox'[x].refs = outbox[x].refs
    BY <1>6, <1>9
  <2> QED
    BY <1>9, <1>10, <2>1, <2>2 DEF BannerInv, BannerEvents
<1>15. HasEnded(k.ver, "delivered")'
  BY <1>2, <1>6, <1>9 DEF HasEnded
<1>16. BannerRecorded'
  <2>1. r.asset = page.body.banner /\ r.grant = k.ver /\ r = Ref(Banner, r.asset, r.grant)
    BY <1>2 DEF Ref
  <2>2. RevokeKey(r) \notin DOMAIN outbox
    BY <1>2, <2>1, NotYetRevoked DEF HasEnded, BannerInv, FleetInv
  <2>3. p # NoRef => RevokeKey(r) # q
    <3>1. RevokeKey(r).ver = k.ver /\ q.ver = p.grant
      BY <1>1, <2>1 DEF RevokeKey, Key
    <3>2. p # NoRef => p.grant # k.ver
      BY <1>2, <1>7 DEF HasEnded
    <3> QED
      BY <3>1, <3>2
  <2>4. RevokeKey(r) \notin DOMAIN outbox'
    BY <1>9, <2>2, <2>3
  <2> QED
    BY <1>4, <1>15, <2>1, <2>4 DEF BannerRecorded, RecordedOK
<1>17. BannerServed'
  BY <1>2, <1>4, <1>5 DEF BannerServed, Ref, NoRef
<1>18. AccountedFor(T)'
  <2>1. ASSUME NEW g \in grants, HasEnded(g.grant, "delivered")'
        PROVE  HasEnded(g.grant, "delivered") \/ g \in T
    <3>1. CASE PublishKey(g.grant) = k
      BY <1>1, <1>2, <3>1, PublishKeyFacts
    <3>2. CASE PublishKey(g.grant) # k
      <4>1. PublishKey(g.grant) # q
        BY <1>10, PublishKeyFacts
      <4> QED
        BY <1>6, <1>9, <2>1, <3>2, <4>1 DEF HasEnded
    <3> QED
      BY <3>1, <3>2
  <2>2. \A g \in S \cap grants : \E x \in DOMAIN outbox' :
            x.kind \in RevokeKinds /\ Open(x)' /\ g \in outbox'[x].refs
    <3> SUFFICES ASSUME p \in grants
                 PROVE  \E x \in DOMAIN outbox' :
                            x.kind \in RevokeKinds /\ Open(x)' /\ p \in outbox'[x].refs
      BY <1>1
    <3>1. p # NoRef
      <4>1. PublishKey(p.grant) \in DOMAIN outbox
        BY DEF BannerInv, FleetInv, BoxInv, GrantsHaveEvents
      <4>2. p.grant # 0
        BY <1>3, <4>1, PublishKeyFacts DEF EventOK
      <4> QED
        BY <4>2 DEF NoRef, Ref
    <3>2. q \in DOMAIN outbox' /\ outbox'[q] = Event(S) /\ p \in S
      BY <1>1, <1>9, <3>1
    <3> QED
      BY <1>10, <3>2, EventFacts DEF Open, RevokeKinds
  <2> QED
    BY <1>1, <1>13, <2>1, <2>2, AccountsMove DEF BannerInv
<1>19. BannerInv'
  BY <1>1, <1>4, <1>13, <1>14, <1>16, <1>17, <1>18 DEF BannerInv
<1> QED
  BY <1>2, <1>6, <1>9, <1>13, <1>19

LEMMA CompleteBanner ==
    ASSUME GroupInv, BannerInv, NEW w \in Workers, CompleteHomePublish(w)
    PROVE  BannerInv'
<1>1. PICK k, r : k = work[w].key /\ r = First(work[w].done)
  OBVIOUS
<1>2. work[w] # Idle /\ HolderOK(w) /\ work[w].pc = "complete" /\ grants' = grants
  BY BusyHolder DEF BannerInv, FleetInv, CompleteHomePublish, Busy
<1>3. StepFits(k, outbox[k], "complete", work[w].done) /\ outbox[k].status = "processing"
  BY <1>1, <1>2 DEF HolderOK, StepFits
<1>4. ASSUME NEW pc \in {"compensate", "retry", "confirm"}, Goto(w, pc),
             UNCHANGED <<groupRows, outbox>>
      PROVE  BannerInv'
  <2>1. StepFits(k, outbox[k], pc, work[w].done)
    BY <1>3 DEF StepFits, RevokeKinds
  <2>2. FleetInv'
    BY <1>1, <1>2, <1>4, <2>1, WentOn DEF BannerInv, Pcs
  <2>3. Frame
    BY <1>2, <1>4, StayingFrame DEF BannerInv
  <2> QED
    BY <1>4, <2>2, <2>3, FrameBanner DEF groupRows
<1>5. CASE Current(k) /\ PublishHome(k, r) /\ Answered(w, AfterPublishError(w))
  BY <1>1, <1>2, <1>5, PublishedBanner
<1> QED
  BY <1>1, <1>2, <1>3, <1>4, <1>5 DEF CompleteHomePublish, EventOf, RollsBack, AfterPublishError

\* A worker that ends its event without publishing.
LEMMA EndedBanner ==
    ASSUME GroupInv, BannerInv, FleetInv', BoxMoves, NEW w \in Workers, NEW k, k = work[w].key,
           grants' = grants, pageProj' = pageProj, page'.pub = page.pub, page'.ver = page.ver,
           \A x \in DOMAIN outbox : x # k => outbox'[x] = outbox[x],
           k \in DOMAIN outbox, k.kind = "publish" => outbox'[k].status = "failed",
           \A x \in DOMAIN outbox' : x \notin DOMAIN outbox => x.kind = "compensate"
    PROVE  BannerInv'
<1>1. PICK S : S = {page.pub}
  OBVIOUS
<1>2. \A x \in DOMAIN outbox : x \in DOMAIN outbox' /\ outbox'[x].refs = outbox[x].refs
  BY DEF BoxMoves, MovedOK
<1>3. BannerEvents'
  BY <1>2 DEF BannerInv, BannerEvents
<1>4. BannerRecorded'
  <2>1. \A x : RevokeKey(x).kind # "compensate"
    BY DEF RevokeKey, Key
  <2> QED
    BY <2>1, EndedStays DEF BannerInv, BannerRecorded, RecordedOK
<1>5. BannerServed'
  BY DEF BannerInv, BannerServed
<1>6. \A v : HasEnded(v, "delivered")' => HasEnded(v, "delivered")
  BY PublishKeyFacts DEF HasEnded
<1>7. AccountedFor(S)'
  BY <1>1, <1>6, AccountsMove DEF BannerInv
<1> QED
  BY <1>1, <1>3, <1>4, <1>5, <1>7 DEF BannerInv

LEMMA FailBanner ==
    ASSUME GroupInv, BannerInv, NEW w \in Workers, Fail(w)
    PROVE  BannerInv'
<1>1. PICK k, e : k = work[w].key /\ e = outbox[k]
  OBVIOUS
<1>2. work[w] # Idle /\ HolderOK(w) /\ k \in DOMAIN outbox /\ work[w].pc = "fail"
  BY <1>1, BusyHolder DEF BannerInv, FleetInv, Fail, Busy, HolderOK
<1>3. StepFits(k, e, "fail", work[w].done) /\ EventOK(k, e)
  BY <1>1, <1>2 DEF HolderOK, BannerInv, FleetInv, BoxInv, EventsOK
<1>4. outbox' = Mark(outbox, k, "failed") /\ Release(w) /\ grants' = grants /\ pageProj' = pageProj
  BY <1>1 DEF Fail, otherRows
<1>5. /\ DOMAIN outbox' = DOMAIN outbox /\ DOMAIN outbox'[k] = DOMAIN outbox[k]
      /\ outbox'[k].status = "failed" /\ outbox'[k].refs = outbox[k].refs
      /\ \A x \in DOMAIN outbox : x # k => outbox'[x] = outbox[x]
  BY <1>1, <1>2, <1>3, <1>4, MarkFacts
<1>6. FleetInv' /\ BoxMoves
  <2>1. OthersStay(k)
    BY <1>5 DEF OthersStay
  <2>2. (k.kind = "publish" => e.status = "processing") /\ (k.kind \in RevokeKinds => e.refs \cap grants = {})
    BY <1>3 DEF StepFits
  <2> QED
    BY <1>1, <1>2, <1>4, <1>5, <2>1, <2>2, EndedFleet DEF BannerInv
<1>7. page'.pub = page.pub /\ page'.ver = page.ver
  BY DEF Fail, FailHome, GroupInv, PageOK
<1> QED
  BY <1>1, <1>2, <1>4, <1>5, <1>6, <1>7, EndedBanner

LEMMA CompensateBanner ==
    ASSUME GroupInv, BannerInv, NEW w \in Workers, FailContentPublish(w)
    PROVE  BannerInv'
<1>1. PICK k : k = work[w].key
  OBVIOUS
<1>2. work[w] # Idle /\ HolderOK(w) /\ work[w].pc = "compensate" /\ grants' = grants
  BY BusyHolder DEF BannerInv, FleetInv, FailContentPublish, Busy
<1>3. CASE RollsBack(w, "retry") /\ UNCHANGED groupRows
  <2>1. StepFits(k, outbox[k], "compensate", work[w].done)
    BY <1>1, <1>2 DEF HolderOK
  <2>2. StepFits(k, outbox[k], "retry", work[w].done)
    BY <2>1 DEF StepFits, RevokeKinds
  <2>3. FleetInv'
    BY <1>1, <1>2, <1>3, <2>2, WentOn DEF BannerInv, Pcs, RollsBack
  <2>4. Frame
    BY <1>2, <1>3, StayingFrame DEF BannerInv, RollsBack
  <2> QED
    BY <1>3, <2>3, <2>4, FrameBanner DEF groupRows
<1>4. CASE /\ outbox' = Insert(Mark(outbox, k, "failed"), CompensateKey, work[w].done)
           /\ FailHome(k) /\ Answered(w, "retry") /\ UNCHANGED otherRows
  <2>1. page'.pub = page.pub /\ page'.ver = page.ver /\ pageProj' = pageProj
    BY <1>4 DEF FailHome, GroupInv, PageOK, otherRows
  <2> QED
    BY <1>1, <1>2, <1>4, <2>1, CompensatedFleet, EndedBanner DEF BannerInv
<1> QED
  BY <1>1, <1>3, <1>4 DEF FailContentPublish

LEMMA StepBanner ==
    ASSUME HomeInv, GroupNext, ~faults'.lost, BannerInv
    PROVE  BannerInv'
<1>1. CASE GroupEdit
  <2>1. CASE PublishPageGroup
    <3>1. pageProj'.body = page.body
      BY <2>1 DEF PublishPageGroup, WriteProjections
    <3> QED
      BY <2>1, <3>1, ClearedBanner DEF HomeInv, PublishPageGroup
  <2>2. CASE UnpublishGroup
    <3>1. pageProj'.body.template # "home.v2"
      BY <2>2 DEF UnpublishGroup, NoPageProj, NoBody
    <3> QED
      BY <2>2, <3>1, ClearedBanner DEF HomeInv, UnpublishGroup
  <2> QED
    BY <1>1, <2>1, <2>2, EditBanner, StartBanner DEF GroupEdit, HomeInv
<1>2. CASE ReadPage \/ ReadMembers
  <2>1. UNCHANGED <<groupRows, outboxVars>>
    BY <1>2 DEF ReadPage, ReadMembers
  <2>2. UNCHANGED <<outbox, work, grants, page, pageProj>>
    BY <2>1 DEF groupRows, outboxVars
  <2>3. Frame
    BY <2>2, StayingFrame DEF BannerInv
  <2>4. FleetInv'
    BY <2>2, <2>3, EditedFleet DEF BannerInv, Frame
  <2> QED
    BY <2>2, <2>3, <2>4, FrameBanner
<1>3. ASSUME NEW w \in Workers, OutboxMoves(w), UNCHANGED groupRows
      PROVE  BannerInv'
  BY <1>3, OutboxFleet, FrameBanner DEF HomeInv, BannerInv, groupRows
<1> QED
  BY <1>1, <1>2, <1>3, CompleteBanner, FailBanner, CompensateBanner
     DEF GroupNext, GroupWorker, OutboxMoves, HomeInv

\* The grants of banners no attempt knows of.
LEMMA EditStrayBanner ==
    ASSUME FleetInv, StrayInv, GroupEdit
    PROVE  StrayInv'
<1>1. /\ UNCHANGED <<work, grants, faults>>
      /\ outbox' = outbox \/ \E k, refs : outbox' = InsertOne(outbox, k, refs)
  BY DEF GroupEdit, CreateChild, UpdateChild, RemoveChild, DeleteChild, WriteChild, TouchPageGroup,
         EditText, AttachBanner, UpdatePage, PublishPageGroup, UnpublishGroup, ClearBanner,
         StartHomePublish, RestorePageGroup, outboxVars
<1>2. DOMAIN outbox \subseteq DOMAIN outbox' /\ \A x \in DOMAIN outbox : outbox'[x] = outbox[x]
  BY <1>1, InsertedOne
<1> QED
  BY <1>1, <1>2, StrayEdit

LEMMA StrayBanner ==
    ASSUME GroupInv, FaultsOK, BannerInv, StrayInv, GroupNext, ~faults'.lost
    PROVE  StrayInv'
<1>1. FleetInv
  BY DEF BannerInv
<1>2. CASE ReadPage \/ ReadMembers
  <2>1. UNCHANGED <<outbox, work, grants, faults>>
    BY <1>2 DEF ReadPage, ReadMembers, outboxVars
  <2> QED
    BY <1>1, <2>1, StrayEdit
<1>3. ASSUME NEW w \in Workers, CompleteHomePublish(w)
      PROVE  StrayInv'
  <2>1. PICK k, r : k = work[w].key /\ r = First(work[w].done)
    OBVIOUS
  <2>2. work[w] # Idle /\ HolderOK(w) /\ work[w].pc = "complete" /\ grants' = grants
    BY <1>1, <1>3, BusyHolder DEF FleetInv, CompleteHomePublish, Busy
  <2>3. outbox[k].status = "processing"
    BY <2>1, <2>2 DEF HolderOK, StepFits
  <2>4. CASE Current(k) /\ PublishHome(k, r) /\ Answered(w, AfterPublishError(w))
    <3>1. /\ BoxMoves /\ outbox'[k].status = "delivered"
          /\ \A x \in DOMAIN outbox : x # k => outbox'[x] = outbox[x]
      BY <2>1, <2>2, <2>4, PublishedBanner
    <3>2. Release(w) \/ Goto(w, "retry") \/ Goto(w, "confirm")
      BY <2>4 DEF Answered, AfterPublishError
    <3>3. UNCHANGED faults \/ GoesWrong
      BY <2>4 DEF Answered
    <3> QED
      BY <1>1, <2>1, <2>2, <3>1, <3>2, <3>3, StrayEnded
  <2>5. ASSUME NEW pc \in {"compensate", "retry", "confirm"}, Goto(w, pc), outbox' = outbox,
               UNCHANGED faults \/ GoesWrong
        PROVE  StrayInv'
    BY <1>1, <2>2, <2>5, StrayGoes
  <2> QED
    BY <1>3, <2>1, <2>3, <2>4, <2>5
       DEF CompleteHomePublish, EventOf, RollsBack, AfterPublishError
<1>4. ASSUME NEW w \in Workers, FailContentPublish(w)
      PROVE  StrayInv'
  <2>1. work[w] # Idle /\ work[w].pc = "compensate" /\ grants' = grants
    BY <1>1, <1>4, BusyHolder DEF FleetInv, FailContentPublish, Busy
  <2>2. CASE RollsBack(w, "retry")
    BY <1>1, <2>1, <2>2, StrayGoes DEF RollsBack
  <2>3. CASE /\ outbox' = Insert(Mark(outbox, work[w].key, "failed"), CompensateKey, work[w].done)
             /\ Answered(w, "retry")
    BY <1>1, <2>1, <2>3, StrayCompensated
  <2> QED
    BY <1>4, <2>2, <2>3 DEF FailContentPublish
<1>5. ASSUME NEW w \in Workers, Fail(w)
      PROVE  StrayInv'
  BY <1>1, <1>5, StrayFailed DEF Fail
<1>6. ASSUME NEW w \in Workers, OutboxMoves(w)
      PROVE  StrayInv'
  BY <1>1, <1>6, StrayOutbox
<1> QED
  BY <1>1, <1>2, <1>3, <1>4, <1>5, <1>6, EditStrayBanner DEF GroupNext, GroupWorker, OutboxMoves

LEMMA GroupFaults ==
    ASSUME FaultsOK, GroupNext
    PROVE  FaultsOK' /\ (~faults'.lost => ~faults.lost)
<1>1. CASE GroupEdit \/ ReadPage \/ ReadMembers
  <2>1. UNCHANGED faults
    BY <1>1 DEF GroupEdit, CreateChild, UpdateChild, RemoveChild, DeleteChild, WriteChild,
                EditText, AttachBanner, UpdatePage, PublishPageGroup, UnpublishGroup,
                StartHomePublish, RestorePageGroup, ReadPage, ReadMembers, outboxVars
  <2> QED
    BY <2>1, FaultsMove
<1>2. ASSUME NEW w \in Workers, CompleteHomePublish(w) \/ FailContentPublish(w) \/ Fail(w)
      PROVE  FaultsOK' /\ (~faults'.lost => ~faults.lost)
  <2>1. UNCHANGED faults \/ GoesWrong
    BY <1>2 DEF CompleteHomePublish, FailContentPublish, Fail, Answered, RollsBack
  <2> QED
    BY <2>1, FaultsMove
<1> QED
  BY <1>1, <1>2, OutboxFaults DEF GroupNext, GroupWorker, OutboxMoves

LEMMA InitBanner ==
    ASSUME GroupInit
    PROVE  HomeInv
<1>1. FaultsOK
  BY DEF GroupInit, OutboxInit, FaultsOK
<1>2. DOMAIN outbox = {} /\ grants = {} /\ work = [w \in Workers |-> Idle]
  BY DEF GroupInit, OutboxInit
<1>3. FleetInv
  BY <1>2 DEF FleetInv, BoxInv, EventsOK, RevocationsFollow, RevocationsWork, GrantsHaveEvents,
              HoldersOK
<1>4. page.pub = NoRef
  <2>1. PICK body, status, ver :
            page = [status |-> status, ver |-> ver, body |-> body, pub |-> NoRef]
    BY DEF GroupInit
  <2> QED
    BY <2>1
<1>5. pageProj.body.template # "home.v2"
  <2>1. PICK body : /\ body.template # "home.v2"
                    /\ pageProj = (IF Legacy THEN [ver |-> 2, body |-> body] ELSE NoPageProj)
    BY DEF GroupInit
  <2> QED
    BY <2>1 DEF NoPageProj, NoBody
<1>6. BannerInv
  BY <1>2, <1>3, <1>4, <1>5 DEF BannerInv, BannerEvents, BannerRecorded, BannerServed, AccountedFor
<1> QED
  BY <1>1, <1>6, InitGroup, InitStrays DEF HomeInv, GroupInit

LEMMA NextBanner ==
    ASSUME HomeInv, GroupNext \/ UNCHANGED <<groupVars>>
    PROVE  HomeInv'
<1>1. GroupInv'
  BY NextGroup DEF HomeInv, groupVars
<1>2. CASE GroupNext
  BY <1>1, <1>2, GroupFaults, StepBanner, StrayBanner DEF HomeInv
<1>3. CASE UNCHANGED groupVars
  <2>1. UNCHANGED <<faults, outbox, work, grants, page, pageProj>>
    BY <1>3 DEF groupVars, groupRows, outboxVars
  <2>2. FaultsOK' /\ (~faults'.lost => ~faults.lost)
    BY <2>1, FaultsMove DEF HomeInv
  <2>3. ASSUME BannerInv, StrayInv
        PROVE  BannerInv' /\ StrayInv'
    <3>1. Frame
      BY <2>1, <2>3, StayingFrame DEF BannerInv
    <3>2. FleetInv'
      BY <2>1, <2>3, <3>1, EditedFleet DEF BannerInv, Frame
    <3> QED
      BY <2>1, <2>3, <3>1, <3>2, FrameBanner, StrayEdit DEF BannerInv
  <2> QED
    BY <1>1, <2>2, <2>3 DEF HomeInv
<1> QED
  BY <1>2, <1>3

LEMMA MigratedBanner ==
    ASSUME HomeInv, MigrationNext
    PROVE  HomeInv'
<1>1. CASE GroupNext
  BY <1>1, NextBanner
<1>2. CASE UNCHANGED groupVars
  BY <1>2, NextBanner
<1>3. CASE ApplyMigration /\ UNCHANGED <<seen, outboxVars>>
  <2>1. GroupInv' /\ FaultsOK' /\ (~faults'.lost => ~faults.lost)
    BY <1>3, NextMigration, FaultsMove DEF HomeInv, MigrationNext, outboxVars
  <2>2. PICK row, body : row = Status("draft") /\ page' = [row EXCEPT !.body = body]
    BY <1>3 DEF ApplyMigration
  <2>3. DOMAIN row = {"status", "ver", "body", "pub"} /\ row.ver = page.ver + 1 /\ row.pub = page.pub
    BY <2>2, StatusFacts DEF HomeInv, GroupInv, PageOK
  <2>4. page'.pub = page.pub /\ page'.ver = page.ver + 1
    BY <2>2, <2>3
  <2>5. UNCHANGED <<outboxVars, pageProj>>
    BY <1>3 DEF ApplyMigration
  <2> QED
    <3>1. ASSUME BannerInv, StrayInv
          PROVE  BannerInv' /\ StrayInv'
      BY <2>4, <2>5, <3>1, TouchedBanner, StrayEdit DEF HomeInv, GroupInv, BannerInv, outboxVars
    <3> QED
      BY <2>1, <3>1 DEF HomeInv
<1> QED
  BY <1>1, <1>2, <1>3 DEF MigrationNext, PlanMigration, groupVars

\* As long as no worker loses its lease, the banner of a public home page is
\* served under the grant the page records; and a live grant is recorded, or an
\* event is still to revoke it, or its publication goes on, or its publication
\* has failed with an attempt that did not know of the grant
\* (completeHomePublish, FailContentPublish, handleContentPublishFailure).
THEOREM BannerGrantsAreFit == (GroupSpec \/ MigrationSpec) => []BannerGrantsFit
<1>1. GroupInit => HomeInv
  BY InitBanner
<1>2. HomeInv /\ [GroupNext]_groupVars => HomeInv'
  BY NextBanner
<1>3. HomeInv /\ [MigrationNext]_migrationVars => HomeInv'
  BY MigratedBanner, NextBanner DEF migrationVars
<1>4. ASSUME HomeInv
      PROVE  BannerGrantsFit
  <2> SUFFICES ASSUME BannerInv, StrayInv
               PROVE  BannerIsServed /\ BannerGrantsAreAccounted
    BY <1>4 DEF HomeInv, BannerGrantsFit
  <2>1. BannerIsServed
    BY DEF BannerInv, BannerServed, BannerIsServed
  <2>2. ASSUME NEW g \in grants
        PROVE  g = page.pub \/ Accounted(g)
    <3>1. PublishKey(g.grant) \in DOMAIN outbox
      BY DEF BannerInv, FleetInv, BoxInv, GrantsHaveEvents
    <3>2. outbox[PublishKey(g.grant)].status \in EventStatuses
      BY <3>1 DEF BannerInv, FleetInv, BoxInv, EventsOK, EventOK
    <3>3. CASE Open(PublishKey(g.grant))
      BY <3>3 DEF Accounted
    <3>4. CASE HasEnded(g.grant, "failed")
      BY <3>4 DEF StrayInv, StrayOK, IsTaken, HasEnded, Accounted, RevokeKinds
    <3>5. CASE HasEnded(g.grant, "delivered")
      BY <3>5 DEF BannerInv, AccountedFor, Accounted, RevokeKinds
    <3> QED
      BY <3>1, <3>2, <3>3, <3>4, <3>5 DEF HasEnded, Open, EventStatuses
  <2> QED
    BY <2>1, <2>2 DEF BannerGrantsAreAccounted
<1> QED
  BY <1>1, <1>2, <1>3, <1>4, PTL DEF GroupSpec, MigrationSpec

----------------------------------------------------------------------------
(* The covers of news                                                      *)

\* The rows of the entry after a step that leaves its covers public or not.
CoverRows == CoversRecorded /\ CoversServed /\ AccountedFor(PublishedAssets)

LEMMA ServedIsPublished ==
    ASSUME CoverInv, NEW i \in Covers, proj.cover[i] # 0
    PROVE  /\ entry.pub[i] \in PublishedAssets
           /\ entry.status \notin {"absent", "deleted"}
           /\ ~Deleting
<1>1. entry.pub[i] = Ref(i, proj.cover[i], proj.ver) /\ proj.ver # 0
  BY DEF CoverInv, CoversServed
<1>2. entry.pub[i].asset # 0 /\ entry.pub[i].grant # 0
  BY <1>1 DEF Ref
<1>3. entry.pub[i] \in PublishedAssets
  BY <1>2 DEF PublishedAssets
<1>4. entry.status # "absent"
  <2> SUFFICES ASSUME entry = NoEntry
               PROVE  FALSE
    BY DEF CoverInv, NewsGone
  <2>1. entry.pub[i] = Ref(i, 0, 0)
    BY DEF NoEntry, NoPub, NoCover
  <2> QED
    BY <1>2, <2>1 DEF Ref
<1> QED
  BY <1>3, <1>4 DEF CoverInv, NewsGone, NewsEvents

LEMMA FrameCovers ==
    ASSUME CoverInv, Frame, entry'.pub = entry.pub, proj' = proj
    PROVE  CoverRows'
<1>1. PICK S : S = PublishedAssets
  OBVIOUS
<1>2. PublishedAssets' = S
  BY <1>1 DEF PublishedAssets
<1>3. AccountedFor(S)'
  BY <1>1, FrameFacts DEF CoverInv
<1>4. CoversRecorded'
  BY FrameFacts DEF CoverInv, CoversRecorded
<1>5. CoversServed'
  <2> SUFFICES ASSUME NEW i \in Covers, proj.cover[i] # 0
               PROVE  /\ proj.ver # 0
                      /\ entry.pub[i] = Ref(i, proj.cover[i], proj.ver)
                      /\ entry.pub[i] \in grants'
                      /\ ~IsRevoked(entry.pub[i])'
    BY DEF CoversServed
  <2>1. /\ proj.ver # 0
        /\ entry.pub[i] = Ref(i, proj.cover[i], proj.ver)
        /\ entry.pub[i] \in grants /\ ~IsRevoked(entry.pub[i]) /\ ~Deleting
    BY ServedIsPublished DEF CoverInv, CoversServed
  <2>2. PICK r : r = entry.pub[i]
    OBVIOUS
  <2> QED
    BY <2>1, <2>2, FrameFacts DEF CoverInv
<1> QED
  BY <1>2, <1>3, <1>4, <1>5 DEF CoverRows

\* The steps of the outbox.
LEMMA FrameNews ==
    ASSUME CoverInv, FleetInv', Frame, UNCHANGED newsRows
    PROVE  CoverInv'
<1>1. CoverRows'
  BY FrameCovers DEF newsRows
<1>2. /\ DOMAIN outbox' = DOMAIN outbox
      /\ \A k \in DOMAIN outbox : outbox'[k].refs = outbox[k].refs
  BY DEF Frame, BoxMoves, MovedOK
<1>3. EntryOK'
  BY DEF CoverInv, EntryOK, newsRows
<1>4. NewsGone'
  BY DEF CoverInv, NewsGone, newsRows, PublishedAssets
<1>5. NewsEvents'
  BY <1>2 DEF CoverInv, NewsEvents, newsRows, Deleting
<1>6. NewsFlight'
  BY <1>2 DEF CoverInv, NewsFlight, newsRows, CoverRefs, PublishedAssets
<1> QED
  BY <1>1, <1>3, <1>4, <1>5, <1>6 DEF CoverInv, CoverRows

\* A new draft, and an edit, which write no event.
LEMMA TouchedNews ==
    ASSUME CoverInv, UNCHANGED <<outboxVars, proj>>, EntryOK', entry.status # "deleted",
           entry'.pub = entry.pub, entry'.ver = entry.ver + 1, entry'.status = "draft"
    PROVE  CoverInv'
<1>1. UNCHANGED <<outbox, work, grants>>
  BY DEF outboxVars
<1>2. Frame
  BY <1>1, StayingFrame DEF CoverInv
<1>3. FleetInv'
  BY <1>1, <1>2, EditedFleet DEF CoverInv, Frame
<1>4. CoverRows'
  BY <1>2, FrameCovers
<1>5. entry.ver \in Nat
      /\ \A k \in DOMAIN outbox : k.kind \in {"publish", "unpublish"} => k.ver \in Nat
  BY DEF CoverInv, EntryOK, FleetInv, BoxInv, EventsOK, EventOK
<1>6. NewsEvents'
  BY <1>1, <1>5 DEF CoverInv, NewsEvents, Deleting
<1> QED
  BY <1>3, <1>4, <1>6 DEF CoverInv, CoverRows, NewsGone, NewsFlight

LEMMA EditNews ==
    ASSUME CoverInv,
           \/ CreateNews
           \/ \E edit \in Edits : UpdateNews(edit)
           \/ \E v \in Versions : RestoreNews(v)
    PROVE  CoverInv'
<1>1. DOMAIN entry = {"status", "ver", "cover", "pub"} /\ entry.ver \in Nat
  BY DEF CoverInv, EntryOK
<1>2. CASE CreateNews
  <2>1. entry = NoEntry /\ entry' = [entry EXCEPT !.status = "draft", !.ver = 1]
    BY <1>2 DEF CreateNews, CoverInv, NewsGone
  <2>2. /\ DOMAIN entry' = {"status", "ver", "cover", "pub"} /\ entry'.status = "draft"
        /\ entry'.ver = 1 /\ entry'.cover = entry.cover /\ entry'.pub = entry.pub
    BY <1>1, <2>1
  <2>3. entry'.ver = entry.ver + 1
    BY <2>1, <2>2 DEF NoEntry
  <2>4. EntryOK'
    BY <1>2, <2>2 DEF CoverInv, EntryOK, CreateNews, InsertRevision
  <2> QED
    BY <1>2, <2>2, <2>3, <2>4, TouchedNews DEF CreateNews
<1>3. ASSUME NEW cover, WriteDraft(cover), DOMAIN cover = Covers
      PROVE  CoverInv'
  <2>1. entry' = [[[entry EXCEPT !.status = "draft"] EXCEPT !.ver = @ + 1] EXCEPT !.cover = cover]
    BY <1>3 DEF WriteDraft
  <2>2. /\ DOMAIN entry' = {"status", "ver", "cover", "pub"} /\ entry'.status = "draft"
        /\ entry'.ver = entry.ver + 1 /\ entry'.cover = cover /\ entry'.pub = entry.pub
    BY <1>1, <2>1
  <2>3. EntryOK'
    BY <1>1, <1>3, <2>2 DEF CoverInv, EntryOK, WriteDraft, InsertRevision
  <2> QED
    BY <1>3, <2>2, <2>3, TouchedNews DEF WriteDraft, MutableNews
<1>4. ASSUME NEW edit \in Edits, UpdateNews(edit)
      PROVE  CoverInv'
  BY <1>3, <1>4 DEF UpdateNews
<1>5. ASSUME NEW v \in Versions, RestoreNews(v)
      PROVE  CoverInv'
  BY <1>3, <1>5 DEF RestoreNews, CoverInv, EntryOK
<1> QED
  BY <1>2, <1>4, <1>5

\* An editor's step that writes events, none of which revokes a grant.
LEMMA EnteredEvents ==
    ASSUME CoverInv, UNCHANGED <<work, grants>>,
           DOMAIN outbox \subseteq DOMAIN outbox',
           \A k \in DOMAIN outbox : outbox'[k] = outbox[k],
           \A k \in DOMAIN outbox' : k \notin DOMAIN outbox =>
                AddedOK(k) /\ k.kind \in {"publish", "unpublish", "delete"},
           entry'.pub = entry.pub
    PROVE  /\ FleetInv' /\ CoversRecorded'
           /\ AccountedFor(PublishedAssets)'
<1>1. PICK S : S = PublishedAssets
  OBVIOUS
<1>2. PublishedAssets' = S
  BY <1>1 DEF PublishedAssets
<1>3. BoxMoves
  BY DEF CoverInv, FleetInv, BoxInv, EventsOK, EventOK, BoxMoves, MovedOK
<1>4. FleetInv'
  BY <1>3, EditedFleet DEF CoverInv
<1>5. \A v : HasEnded(v, "delivered")' <=> HasEnded(v, "delivered")
  BY DEF HasEnded, AddedOK
<1>6. CoversRecorded'
  <2>1. \A r : RevokeKey(r).kind = "revoke"
    BY DEF RevokeKey, Key
  <2> QED
    BY <1>5, <2>1 DEF CoverInv, CoversRecorded, RecordedOK
<1>7. AccountedFor(S)'
  BY <1>1, <1>3, <1>5, AccountsMove DEF CoverInv
<1> QED
  BY <1>2, <1>4, <1>6, <1>7

LEMMA AdvanceFacts ==
    ASSUME EntryOK, NEW status, Advance(status)
    PROVE  /\ DOMAIN entry' = {"status", "ver", "cover", "pub"}
           /\ entry'.status = status /\ entry'.ver = entry.ver + 1 /\ entry'.ver \in Nat \ {0}
           /\ entry'.cover = entry.cover /\ entry'.pub = entry.pub
<1>1. DOMAIN entry = {"status", "ver", "cover", "pub"} /\ entry.ver \in Nat
  BY DEF EntryOK
<1>2. entry' = [[entry EXCEPT !.status = status] EXCEPT !.ver = @ + 1]
  BY DEF Advance
<1> QED
  BY <1>1, <1>2

LEMMA StartNews ==
    ASSUME CoverInv, StartPublish
    PROVE  CoverInv'
<1>1. PICK k, S : k = PublishKey(entry.ver + 1) /\ S = CoverRefs(0)
  OBVIOUS
<1>2. Advance("publishing") /\ entry.status \notin {"absent", "deleted"}
  BY DEF StartPublish, MutableNews
<1>3. /\ DOMAIN entry' = {"status", "ver", "cover", "pub"}
      /\ entry'.status = "publishing" /\ entry'.ver = entry.ver + 1 /\ entry'.ver \in Nat \ {0}
      /\ entry'.cover = entry.cover /\ entry'.pub = entry.pub
  BY <1>2, AdvanceFacts DEF CoverInv
<1>4. outbox' = InsertOne(outbox, k, S) /\ UNCHANGED <<work, grants, proj>>
  BY <1>1 DEF StartPublish, CoverRefs
<1>5. k.kind = "publish" /\ k.ver = entry.ver + 1
  BY <1>1, PublishKeyFacts
<1>6. /\ entry.ver \in Nat
      /\ \A x \in DOMAIN outbox : x.kind \in {"publish", "unpublish"} =>
            x.ver \in Nat /\ x.ver <= entry.ver
  BY <1>2 DEF CoverInv, EntryOK, NewsEvents, FleetInv, BoxInv, EventsOK, EventOK
<1>7. k \notin DOMAIN outbox
  BY <1>5, <1>6
<1>8. /\ DOMAIN outbox' = DOMAIN outbox \cup {k} /\ outbox'[k] = Event(S)
      /\ \A x \in DOMAIN outbox : outbox'[x] = outbox[x]
  BY <1>4, <1>7 DEF InsertOne
<1>9. ASSUME NEW r \in S
      PROVE  r = Ref(r.image, r.asset, r.grant) /\ r.image \in Covers /\ r.asset # 0
             /\ r.asset = entry.cover[r.image] /\ r.grant = 0
  BY <1>1 DEF CoverRefs, Ref
<1>10. \A r, s \in S : r.image = s.image => r = s
  BY <1>9
<1>11. Covers \subseteq Images
  BY DEF Covers, Images
<1>12. AddedOK(k)
  BY <1>1, <1>3, <1>5, <1>8, <1>9, <1>10, <1>11, EventFacts
     DEF AddedOK, EventOK, RevokeKinds, EventStatuses
<1>13. FleetInv' /\ CoversRecorded' /\ AccountedFor(PublishedAssets)'
  BY <1>3, <1>4, <1>5, <1>8, <1>12, EnteredEvents
<1>14. CoversServed'
  <2>1. \A r : IsRevoked(r)' => IsRevoked(r)
    BY <1>5, <1>8 DEF IsRevoked, RevokeKinds
  <2> QED
    BY <1>3, <1>4, <2>1 DEF CoverInv, CoversServed
<1>15. EntryOK'
  <2>1. DOMAIN entry.cover = Covers /\ DOMAIN entry.pub = Covers
    BY DEF CoverInv, EntryOK
  <2>2. InsertRevision
    BY DEF StartPublish
  <2> QED
    BY <1>3, <2>1, <2>2 DEF CoverInv, EntryOK, InsertRevision
<1>16. NewsEvents'
  BY <1>2, <1>3, <1>5, <1>6, <1>8 DEF CoverInv, NewsEvents, Deleting
<1>17. NewsFlight'
  <2>1. CoverRefs(0)' = S
    BY <1>1, <1>3 DEF CoverRefs
  <2>2. PublishKey(entry'.ver) = k
    BY <1>1, <1>3
  <2> QED
    BY <1>3, <1>8, <2>1, <2>2, EventFacts DEF NewsFlight
<1> QED
  BY <1>3, <1>13, <1>14, <1>15, <1>16, <1>17 DEF CoverInv, NewsGone

LEMMA WithdrawNews ==
    ASSUME CoverInv, StartUnpublish
    PROVE  CoverInv'
<1>1. PICK k, S : k = UnpublishKey(entry.ver + 1) /\ S = PublishedAssets
  OBVIOUS
<1>2. Advance("unpublishing") /\ entry.status \notin {"absent", "deleted"}
  BY DEF StartUnpublish, MutableNews
<1>3. /\ DOMAIN entry' = {"status", "ver", "cover", "pub"}
      /\ entry'.status = "unpublishing" /\ entry'.ver = entry.ver + 1 /\ entry'.ver \in Nat \ {0}
      /\ entry'.cover = entry.cover /\ entry'.pub = entry.pub
  BY <1>2, AdvanceFacts DEF CoverInv
<1>4. outbox' = InsertOne(outbox, k, S) /\ UNCHANGED <<work, grants, revision>> /\ proj' = NoProj
  BY <1>1 DEF StartUnpublish
<1>5. k.kind = "unpublish" /\ k.ver = entry.ver + 1 /\ k = UnpublishKey(k.ver)
  BY <1>1 DEF UnpublishKey, Key
<1>6. /\ entry.ver \in Nat
      /\ \A x \in DOMAIN outbox : x.kind \in {"publish", "unpublish"} =>
            x.ver \in Nat /\ x.ver <= entry.ver
  BY <1>2 DEF CoverInv, EntryOK, NewsEvents, FleetInv, BoxInv, EventsOK, EventOK
<1>7. k \notin DOMAIN outbox
  BY <1>5, <1>6
<1>8. /\ DOMAIN outbox' = DOMAIN outbox \cup {k} /\ outbox'[k] = Event(S)
      /\ \A x \in DOMAIN outbox : outbox'[x] = outbox[x]
  BY <1>4, <1>7 DEF InsertOne
<1>9. ASSUME NEW r \in S
      PROVE  r = Ref(r.image, r.asset, r.grant) /\ r.image \in Covers /\ r = entry.pub[r.image]
             /\ HasEnded(r.grant, "delivered")
  <2>1. PICK i \in Covers : r = entry.pub[i] /\ r.grant # 0
    BY <1>1 DEF PublishedAssets
  <2>2. r = Ref(i, r.asset, r.grant) /\ HasEnded(r.grant, "delivered")
    BY <2>1 DEF CoverInv, EntryOK, CoversRecorded, RecordedOK
  <2>3. r.image = i
    BY <2>2 DEF Ref
  <2> QED
    BY <2>1, <2>2, <2>3
<1>10. \A r, s \in S : r.image = s.image => r = s
  BY <1>9
<1>11. Covers \subseteq Images
  BY DEF Covers, Images
<1>12. AddedOK(k)
  <2>1. \A r \in S : HasEnded(r.grant, "delivered")'
    BY <1>8, <1>9 DEF HasEnded
  <2> QED
    BY <1>3, <1>5, <1>8, <1>9, <1>10, <1>11, <2>1, EventFacts
       DEF AddedOK, EventOK, RevokeKinds, EventStatuses
<1>13. FleetInv' /\ CoversRecorded' /\ AccountedFor(PublishedAssets)'
  BY <1>3, <1>4, <1>5, <1>8, <1>12, EnteredEvents
<1>14. CoversServed'
  BY <1>4 DEF CoversServed, NoProj, NoCovers
<1>15. EntryOK'
  BY <1>3, <1>4 DEF CoverInv, EntryOK
<1>16. NewsEvents'
  BY <1>2, <1>3, <1>5, <1>6, <1>8 DEF CoverInv, NewsEvents, Deleting
<1>17. NewsFlight'
  <2>1. PublishedAssets' = S
    BY <1>1, <1>3 DEF PublishedAssets
  <2>2. UnpublishKey(entry'.ver) = k
    BY <1>1, <1>3
  <2> QED
    BY <1>3, <1>8, <2>1, <2>2, EventFacts DEF NewsFlight
<1> QED
  BY <1>3, <1>13, <1>14, <1>15, <1>16, <1>17 DEF CoverInv, NewsGone

LEMMA RemoveNews ==
    ASSUME CoverInv, DeleteNews
    PROVE  CoverInv'
<1>1. PICK S : S = {r \in AssetIDs : r.asset # 0}
  OBVIOUS
<1>2. /\ entry.status \in {"draft", "unpublished"} /\ proj = NoProj
      /\ \A i \in Covers : entry.pub[i].grant = 0
  BY DEF DeleteNews, NewsIsPublic
<1>3. PICK new : new = {DeleteKey(r) : r \in S} \ DOMAIN outbox
  OBVIOUS
<1>4. outbox' = [x \in DOMAIN outbox \cup new |->
            IF x \in new THEN Event({r \in S : DeleteKey(r) = x}) ELSE outbox[x]]
  BY <1>1, <1>3 DEF DeleteNews, Insert
<1>5. /\ DOMAIN outbox' = DOMAIN outbox \cup new
      /\ \A x \in DOMAIN outbox : outbox'[x] = outbox[x]
      /\ \A x \in new : outbox'[x] = Event({r \in S : DeleteKey(r) = x})
  BY <1>3, <1>4
<1>6. UNCHANGED <<work, grants, proj>> /\ entry' = [NoEntry EXCEPT !.status = "deleted"]
  BY DEF DeleteNews
<1>7. /\ DOMAIN entry' = {"status", "ver", "cover", "pub"} /\ entry'.status = "deleted"
      /\ entry'.ver = 0 /\ entry'.cover = NoCovers /\ entry'.pub = NoPub
  BY <1>6 DEF NoEntry
<1>8. ASSUME NEW r \in S
      PROVE  r = Ref(r.image, r.asset, r.grant) /\ r.image \in Covers
  BY <1>1 DEF AssetIDs, Ref
<1>9. ASSUME NEW x \in new
      PROVE  AddedOK(x) /\ x.kind = "delete"
  <2>1. PICK refs : refs = {r \in S : DeleteKey(r) = x}
    OBVIOUS
  <2>2. outbox'[x] = Event(refs) /\ refs \subseteq S
    BY <1>5, <2>1
  <2>3. x.kind = "delete"
    <3>1. PICK r \in S : x = DeleteKey(r)
      BY <1>3
    <3> QED
      BY <3>1 DEF DeleteKey, Key
  <2>4. Covers \subseteq Images
    BY DEF Covers, Images
  <2> QED
    BY <1>8, <2>2, <2>3, <2>4, EventFacts DEF AddedOK, EventOK, RevokeKinds, EventStatuses
<1>10. BoxMoves
  BY <1>5, <1>9 DEF CoverInv, FleetInv, BoxInv, EventsOK, EventOK, BoxMoves, MovedOK
<1>11. FleetInv'
  BY <1>5, <1>6, <1>10, EditedFleet DEF CoverInv
<1>12. PublishedAssets = {} /\ PublishedAssets' = {} /\ \A i \in Covers : entry'.pub[i].grant = 0
  BY <1>2, <1>7 DEF PublishedAssets, NoPub, NoCover, Ref
<1>13. CoversRecorded'
  BY <1>12 DEF CoversRecorded
<1>14. AccountedFor(PublishedAssets)'
  <2>1. PICK T : T = {}
    OBVIOUS
  <2>2. \A v : HasEnded(v, "delivered")' => HasEnded(v, "delivered")
    BY <1>5, <1>9 DEF HasEnded, AddedOK
  <2>3. AccountedFor(T)'
    BY <1>6, <1>10, <1>12, <2>1, <2>2, AccountsMove DEF CoverInv
  <2> QED
    BY <1>12, <2>1, <2>3
<1>15. CoversServed'
  BY <1>2, <1>6 DEF CoversServed, NoProj, NoCovers
<1>16. EntryOK'
  BY <1>7 DEF EntryOK, NoCovers, NoPub, NoCover, Ref, DeleteNews
<1>17. NewsEvents'
  BY <1>5, <1>7, <1>9 DEF CoverInv, NewsEvents
<1> QED
  BY <1>2, <1>6, <1>7, <1>11, <1>12, <1>13, <1>14, <1>15, <1>16, <1>17
     DEF CoverInv, NewsGone, NewsFlight

\* A worker that ends its event without publishing.
LEMMA EndedNews ==
    ASSUME CoverInv, FleetInv', BoxMoves, NEW k, k \in DOMAIN outbox,
           grants' = grants, proj' = proj, entry'.pub = entry.pub,
           \A x \in DOMAIN outbox : x # k => outbox'[x] = outbox[x],
           k.kind = "publish" => outbox'[k].status = "failed",
           \A x \in DOMAIN outbox' : x \notin DOMAIN outbox => x.kind = "compensate"
    PROVE  CoverRows'
<1>1. PICK S : S = PublishedAssets
  OBVIOUS
<1>2. PublishedAssets' = S
  BY <1>1 DEF PublishedAssets
<1>3. \A v : HasEnded(v, "delivered")' => HasEnded(v, "delivered")
  BY PublishKeyFacts DEF HasEnded
<1>4. AccountedFor(S)'
  BY <1>1, <1>3, AccountsMove DEF CoverInv
<1>5. CoversRecorded'
  <2>1. \A x : RevokeKey(x).kind # "compensate"
    BY DEF RevokeKey, Key
  <2> QED
    BY <2>1, EndedStays DEF CoverInv, CoversRecorded, RecordedOK
<1>6. CoversServed'
  <2> SUFFICES ASSUME NEW i \in Covers, proj.cover[i] # 0
               PROVE  /\ proj.ver # 0
                      /\ entry.pub[i] = Ref(i, proj.cover[i], proj.ver)
                      /\ entry.pub[i] \in grants
                      /\ ~IsRevoked(entry.pub[i])'
    BY DEF CoversServed
  <2>1. PICK r : r = entry.pub[i]
    OBVIOUS
  <2>2. /\ proj.ver # 0 /\ r = Ref(i, proj.cover[i], proj.ver)
        /\ r \in grants /\ ~IsRevoked(r)
    BY <2>1 DEF CoverInv, CoversServed
  <2>3. HasEnded(r.grant, "delivered")'
    <3>1. r.grant # 0
      BY <2>2 DEF Ref
    <3>2. RecordedOK(r)
      BY <2>1, <3>1 DEF CoverInv, CoversRecorded
    <3> QED
      BY <3>2, EndedStays DEF RecordedOK
  <2>4. ASSUME NEW x \in DOMAIN outbox', x.kind \in RevokeKinds, r \in outbox'[x].refs
        PROVE  FALSE
    <3>1. CASE x \in DOMAIN outbox
      BY <2>2, <2>4, <3>1 DEF IsRevoked, BoxMoves, MovedOK
    <3>2. CASE x \notin DOMAIN outbox
      <4>1. x.kind = "compensate"
        BY <3>2
      <4>2. HasEnded(r.grant, "failed")'
        BY <2>4, <4>1 DEF FleetInv, BoxInv, RevocationsFollow
      <4> QED
        BY <2>3, <4>2 DEF HasEnded
    <3> QED
      BY <3>1, <3>2
  <2> QED
    BY <2>1, <2>2, <2>4 DEF IsRevoked
<1> QED
  BY <1>2, <1>4, <1>5, <1>6 DEF CoverRows

\* What a failure does to the entry.
LEMMA FailedEntry ==
    ASSUME CoverInv, NEW k, entry' = FailEntry(k), UNCHANGED <<revision, proj>>, BoxMoves,
           \A x \in DOMAIN outbox' : x \notin DOMAIN outbox => x.kind = "compensate"
    PROVE  /\ entry'.pub = entry.pub
           /\ EntryOK' /\ NewsGone' /\ NewsEvents' /\ NewsFlight'
<1>1. DOMAIN entry = {"status", "ver", "cover", "pub"}
  BY DEF CoverInv, EntryOK
<1>2. /\ DOMAIN entry' = {"status", "ver", "cover", "pub"}
      /\ entry'.ver = entry.ver /\ entry'.cover = entry.cover /\ entry'.pub = entry.pub
      /\ \/ entry' = entry
         \/ entry'.status \in {"draft", "unpublish_failed"} /\ entry.status \in InFlight
  BY <1>1 DEF FailEntry, CurrentNews, Expected, InFlight
<1>3. EntryOK'
  BY <1>2 DEF CoverInv, EntryOK
<1>4. PublishedAssets' = PublishedAssets
  BY <1>2 DEF PublishedAssets
<1>5. NewsGone'
  BY <1>2, <1>4 DEF CoverInv, NewsGone
<1>6. \A x \in DOMAIN outbox : x \in DOMAIN outbox' /\ outbox'[x].refs = outbox[x].refs
  BY DEF BoxMoves, MovedOK
<1>7. entry'.status = "deleted" <=> entry.status = "deleted"
  BY <1>2 DEF InFlight
<1>8. NewsEvents'
  BY <1>2, <1>6, <1>7 DEF CoverInv, NewsEvents, Deleting
<1>9. NewsFlight'
  <2>1. CoverRefs(0)' = CoverRefs(0)
    BY <1>2 DEF CoverRefs
  <2> QED
    BY <1>2, <1>4, <1>6, <2>1 DEF CoverInv, NewsFlight
<1> QED
  BY <1>2, <1>3, <1>5, <1>8, <1>9

LEMMA FailingNews ==
    ASSUME CoverInv, NEW w \in Workers, FailNews(w)
    PROVE  CoverInv'
<1>1. PICK k, e : k = work[w].key /\ e = outbox[k]
  OBVIOUS
<1>2. work[w] # Idle /\ HolderOK(w) /\ k \in DOMAIN outbox /\ work[w].pc = "fail"
  BY <1>1, BusyHolder DEF CoverInv, FleetInv, FailNews, Busy, HolderOK
<1>3. StepFits(k, e, "fail", work[w].done) /\ EventOK(k, e)
  BY <1>1, <1>2 DEF HolderOK, CoverInv, FleetInv, BoxInv, EventsOK
<1>4. /\ outbox' = Mark(outbox, k, "failed") /\ Release(w) /\ UNCHANGED <<grants, proj, revision>>
      /\ entry' = FailEntry(k)
  BY <1>1 DEF FailNews
<1>5. /\ DOMAIN outbox' = DOMAIN outbox /\ DOMAIN outbox'[k] = DOMAIN outbox[k]
      /\ outbox'[k].status = "failed" /\ outbox'[k].refs = outbox[k].refs
      /\ \A x \in DOMAIN outbox : x # k => outbox'[x] = outbox[x]
  BY <1>1, <1>2, <1>3, <1>4, MarkFacts
<1>6. FleetInv' /\ BoxMoves
  <2>1. OthersStay(k)
    BY <1>5 DEF OthersStay
  <2>2. (k.kind = "publish" => e.status = "processing") /\ (k.kind \in RevokeKinds => e.refs \cap grants = {})
    BY <1>3 DEF StepFits
  <2> QED
    BY <1>1, <1>2, <1>4, <1>5, <2>1, <2>2, EndedFleet DEF CoverInv
<1>7. entry'.pub = entry.pub /\ EntryOK' /\ NewsGone' /\ NewsEvents' /\ NewsFlight'
  BY <1>4, <1>5, <1>6, FailedEntry
<1>8. CoverRows'
  BY <1>2, <1>4, <1>5, <1>6, <1>7, EndedNews
<1> QED
  BY <1>6, <1>7, <1>8 DEF CoverInv, CoverRows

LEMMA CompensateNews ==
    ASSUME CoverInv, NEW w \in Workers, FailNewsPublish(w)
    PROVE  CoverInv'
<1>1. PICK k : k = work[w].key
  OBVIOUS
<1>2. work[w] # Idle /\ HolderOK(w) /\ work[w].pc = "compensate" /\ grants' = grants
  BY BusyHolder DEF CoverInv, FleetInv, FailNewsPublish, Busy
<1>3. CASE RollsBack(w, "retry") /\ UNCHANGED newsRows
  <2>1. StepFits(k, outbox[k], "compensate", work[w].done)
    BY <1>1, <1>2 DEF HolderOK
  <2>2. StepFits(k, outbox[k], "retry", work[w].done)
    BY <2>1 DEF StepFits, RevokeKinds
  <2>3. FleetInv'
    BY <1>1, <1>2, <1>3, <2>2, WentOn DEF CoverInv, Pcs, RollsBack
  <2>4. Frame
    BY <1>2, <1>3, StayingFrame DEF CoverInv, RollsBack
  <2> QED
    BY <1>3, <2>3, <2>4, FrameNews
<1>4. CASE /\ outbox' = Insert(Mark(outbox, k, "failed"), CompensateKey, work[w].done)
           /\ entry' = FailEntry(k) /\ Answered(w, "retry") /\ UNCHANGED <<revision, proj>>
  <2>1. /\ FleetInv' /\ BoxMoves
        /\ k \in DOMAIN outbox /\ k.kind = "publish" /\ outbox'[k].status = "failed"
        /\ \A x \in DOMAIN outbox : x # k => outbox'[x] = outbox[x]
        /\ \A x \in DOMAIN outbox' : x \notin DOMAIN outbox => x.kind = "compensate"
    BY <1>1, <1>2, <1>4, CompensatedFleet DEF CoverInv
  <2>2. entry'.pub = entry.pub /\ EntryOK' /\ NewsGone' /\ NewsEvents' /\ NewsFlight'
    BY <1>4, <2>1, FailedEntry
  <2>3. CoverRows'
    BY <1>2, <1>4, <2>1, <2>2, EndedNews
  <2> QED
    BY <2>1, <2>2, <2>3 DEF CoverInv, CoverRows
<1> QED
  BY <1>1, <1>3, <1>4 DEF FailNewsPublish

LEMMA UnpublishedNews ==
    ASSUME CoverInv, NEW w \in Workers, CompleteContentUnpublish(w)
    PROVE  /\ CoverInv' /\ BoxMoves
           /\ \A x \in DOMAIN outbox : x # work[w].key => outbox'[x] = outbox[x]
<1>1. PICK k, e, S : k = work[w].key /\ e = outbox[k] /\ S = PublishedAssets
  OBVIOUS
<1>2. /\ work[w] # Idle /\ HolderOK(w) /\ k \in DOMAIN outbox /\ work[w].pc = "finish"
      /\ k.kind = "unpublish" /\ grants' = grants
  BY <1>1, BusyHolder DEF CoverInv, FleetInv, CompleteContentUnpublish, Busy, HolderOK
<1>3. StepFits(k, e, "finish", work[w].done) /\ EventOK(k, e) /\ e.status = "processing"
  BY <1>1, <1>2 DEF HolderOK, CoverInv, FleetInv, BoxInv, EventsOK, StepFits
<1>4. ASSUME Goto(w, AfterError(w)), UNCHANGED <<entry, outbox>>
      PROVE  CoverInv' /\ BoxMoves
  <2>1. PICK pc \in {"fail", "retry"} : Goto(w, pc)
    BY <1>4 DEF AfterError
  <2>2. StepFits(k, e, pc, work[w].done)
    BY <1>2, <1>3 DEF StepFits, RevokeKinds
  <2>3. FleetInv'
    BY <1>1, <1>2, <1>4, <2>1, <2>2, WentOn DEF CoverInv, Pcs
  <2>4. Frame
    BY <1>2, <1>4, StayingFrame DEF CoverInv
  <2>5. UNCHANGED newsRows
    BY <1>4 DEF CompleteContentUnpublish, newsRows
  <2> QED
    BY <2>3, <2>4, <2>5, FrameNews DEF Frame
<1>5. CASE /\ CurrentNews(k) /\ entry' = [entry EXCEPT !.status = "unpublished", !.pub = NoPub]
           /\ outbox' = Mark(outbox, k, "delivered") /\ Answered(w, AfterError(w))
  <2>1. /\ DOMAIN outbox' = DOMAIN outbox /\ DOMAIN outbox'[k] = DOMAIN outbox[k]
        /\ outbox'[k].status = "delivered" /\ outbox'[k].refs = outbox[k].refs
        /\ \A x \in DOMAIN outbox : x # k => outbox'[x] = outbox[x]
    BY <1>1, <1>2, <1>3, <1>5, MarkFacts
  <2>2. e.refs = S /\ S \cap grants = {}
    <3>1. entry.status = "unpublishing" /\ entry.ver = k.ver /\ k = UnpublishKey(k.ver)
      BY <1>2, <1>5 DEF CurrentNews, Expected, CoverInv, NewsEvents
    <3>2. e.refs = S
      BY <1>1, <3>1 DEF CoverInv, NewsFlight
    <3> QED
      BY <1>2, <1>3, <3>2 DEF StepFits, RevokeKinds
  <2>3. FleetInv' /\ BoxMoves
    <3>1. OthersStay(k)
      BY <2>1 DEF OthersStay
    <3>2. Release(w) \/ Goto(w, "retry") \/ Goto(w, "fail")
      BY <1>5 DEF Answered, AfterError
    <3> QED
      BY <1>1, <1>2, <2>1, <2>2, <3>1, <3>2, EndedFleet DEF CoverInv
  <2>4. UNCHANGED <<revision, proj>>
    BY DEF CompleteContentUnpublish
  <2>5. /\ DOMAIN entry' = {"status", "ver", "cover", "pub"} /\ entry'.status = "unpublished"
        /\ entry'.ver = entry.ver /\ entry'.cover = entry.cover /\ entry'.pub = NoPub
    <3>1. entry' = [[entry EXCEPT !.status = "unpublished"] EXCEPT !.pub = NoPub]
      BY <1>5
    <3> QED
      BY <3>1 DEF CoverInv, EntryOK
  <2>6. EntryOK'
    BY <2>4, <2>5 DEF CoverInv, EntryOK, NoPub, NoCover, Ref
  <2>7. PublishedAssets' = {} /\ \A i \in Covers : entry'.pub[i].grant = 0
    BY <2>5 DEF PublishedAssets, NoPub, NoCover, Ref
  <2>8. NewsEvents'
    BY <1>5, <2>1, <2>5 DEF CoverInv, NewsEvents, Deleting, CurrentNews, Expected
  <2>9. CoversServed'
    <3> SUFFICES ASSUME NEW i \in Covers, proj.cover[i] # 0
                 PROVE  FALSE
      BY <2>4 DEF CoversServed
    <3>1. entry.pub[i] \in S
      BY <1>1, ServedIsPublished
    <3> QED
      BY <2>2, <3>1 DEF CoverInv, CoversServed
  <2>10. AccountedFor(PublishedAssets)'
    <3>1. PICK T : T = {}
      OBVIOUS
    <3>2. \A v : HasEnded(v, "delivered")' => HasEnded(v, "delivered")
      BY <1>2, <2>1, PublishKeyFacts DEF HasEnded
    <3>3. AccountedFor(T)'
      BY <1>1, <1>2, <2>2, <2>3, <3>1, <3>2, AccountsMove DEF CoverInv
    <3> QED
      BY <2>7, <3>1, <3>3
  <2>11. CoverInv'
    BY <2>3, <2>5, <2>6, <2>7, <2>8, <2>9, <2>10
       DEF CoverInv, NewsGone, NewsFlight, CoversRecorded
  <2> QED
    BY <1>1, <2>1, <2>3, <2>11
<1> QED
  BY <1>1, <1>2, <1>3, <1>4, <1>5 DEF CompleteContentUnpublish, EventOf, RollsBack

\* The worker that completes a publication has the grants of all covers.
LEMMA CoversDone ==
    ASSUME CoverInv, NEW w \in Workers, NEW k, NEW done, k = work[w].key, done = work[w].done,
           work[w].pc = "complete", CurrentNews(k)
    PROVE  /\ work[w] # Idle /\ HolderOK(w) /\ k \in DOMAIN outbox
           /\ k = PublishKey(k.ver) /\ k.kind = "publish" /\ k.ver \in Nat \ {0}
           /\ outbox[k].status = "processing" /\ entry.status = "publishing" /\ ~Deleting
           /\ done = CoverRefs(k.ver) /\ done \subseteq grants
           /\ \A g \in grants : g.grant = k.ver => g \in done
<1>1. PICK e, S : e = outbox[k] /\ S = CoverRefs(0)
  OBVIOUS
<1>2. work[w] # Idle /\ HolderOK(w) /\ k \in DOMAIN outbox
  BY BusyHolder DEF CoverInv, FleetInv, HolderOK
<1>3. StepFits(k, e, "complete", done)
  BY <1>1, <1>2 DEF HolderOK
<1>4. k = PublishKey(k.ver) /\ k.kind = "publish" /\ k.ver \in Nat \ {0} /\ e.status = "processing"
  BY <1>1, <1>2, <1>3 DEF StepFits, CoverInv, FleetInv, BoxInv, EventsOK, EventOK
<1>5. entry.status = "publishing" /\ entry.ver = k.ver
  BY <1>4 DEF CurrentNews, Expected
<1>6. e.refs = S
  BY <1>1, <1>4, <1>5 DEF CoverInv, NewsFlight
<1>7. \A i \in Covers : GrantFor(Ref(i, entry.cover[i], 0), k.ver) = Ref(i, entry.cover[i], k.ver)
  BY DEF GrantFor, Ref
<1>8. CoverRefs(k.ver) = {GrantFor(x, k.ver) : x \in S}
  <2>1. ASSUME NEW r \in CoverRefs(k.ver)
        PROVE  \E x \in S : r = GrantFor(x, k.ver)
    <3>1. PICK i \in Covers : entry.cover[i] # 0 /\ r = Ref(i, entry.cover[i], k.ver)
      BY DEF CoverRefs
    <3>2. Ref(i, entry.cover[i], 0) \in S
      BY <1>1, <3>1 DEF CoverRefs
    <3> QED
      BY <1>7, <3>1, <3>2
  <2>2. ASSUME NEW x \in S
        PROVE  GrantFor(x, k.ver) \in CoverRefs(k.ver)
    <3>1. PICK i \in Covers : entry.cover[i] # 0 /\ x = Ref(i, entry.cover[i], 0)
      BY <1>1 DEF CoverRefs
    <3> QED
      BY <1>7, <3>1 DEF CoverRefs
  <2> QED
    BY <2>1, <2>2
<1>9. done = CoverRefs(k.ver)
  BY <1>3, <1>4, <1>6, <1>8 DEF StepFits
<1>10. ~Deleting
  BY <1>5 DEF CoverInv, NewsEvents
<1>11. done \subseteq grants
  BY <1>3, <1>10 DEF StepFits
<1>12. ASSUME NEW g \in grants, g.grant = k.ver
       PROVE  g \in done
  <2>1. \E z \in outbox[PublishKey(g.grant)].refs : g = GrantFor(z, g.grant)
    BY DEF CoverInv, FleetInv, BoxInv, GrantsHaveEvents
  <2> QED
    BY <1>1, <1>4, <1>6, <1>8, <1>9, <1>12, <2>1
<1> QED
  BY <1>1, <1>2, <1>4, <1>5, <1>9, <1>10, <1>11, <1>12

\* The grants of an earlier publication are those that are replaced.
LEMMA ReplacedFacts ==
    ASSUME CoverInv, NEW v, NEW done, done = CoverRefs(v), ~HasEnded(v, "delivered")
    PROVE  /\ Replaced(done) = PublishedAssets
           /\ \A r \in PublishedAssets :
                /\ r = Ref(r.image, r.asset, r.grant) /\ r.image \in Covers
                /\ r = entry.pub[r.image] /\ RecordedOK(r) /\ r.grant # v
<1>1. ASSUME NEW i \in Covers, entry.pub[i].grant # 0
      PROVE  /\ entry.pub[i].asset # 0 /\ RecordedOK(entry.pub[i])
             /\ entry.pub[i] = Ref(i, entry.pub[i].asset, entry.pub[i].grant)
             /\ entry.pub[i].grant # v /\ entry.pub[i].image = i
  <2>1. /\ entry.pub[i].asset # 0 /\ RecordedOK(entry.pub[i])
        /\ entry.pub[i] = Ref(i, entry.pub[i].asset, entry.pub[i].grant)
    BY <1>1 DEF CoverInv, CoversRecorded, EntryOK
  <2>2. entry.pub[i].grant # v
    BY <2>1 DEF RecordedOK
  <2>3. entry.pub[i].image = i
    BY <2>1 DEF Ref
  <2> QED
    BY <2>1, <2>2, <2>3
<1>2. \A x \in done : x.grant = v
  BY DEF CoverRefs, Ref
<1>3. Replaced(done) = PublishedAssets
  BY <1>1, <1>2 DEF Replaced, PublishedAssets
<1>4. ASSUME NEW r \in PublishedAssets
      PROVE  /\ r = Ref(r.image, r.asset, r.grant) /\ r.image \in Covers
             /\ r = entry.pub[r.image] /\ RecordedOK(r) /\ r.grant # v
  <2>1. PICK i \in Covers : r = entry.pub[i] /\ entry.pub[i].grant # 0
    BY DEF PublishedAssets
  <2> QED
    BY <1>1, <2>1
<1> QED
  BY <1>3, <1>4

\* What CompleteContentPublish writes of the outbox.
LEMMA ReplacingFleet ==
    ASSUME CoverInv, NEW w \in Workers, NEW k, NEW done, NEW S, k = work[w].key,
           done = work[w].done, S = PublishedAssets, work[w].pc = "complete", CurrentNews(k),
           PublishEntry(k, done),
           grants' = grants, Answered(w, AfterPublishError(w))
    PROVE  /\ FleetInv' /\ BoxMoves
           /\ outbox'[k].status = "delivered"
           /\ \A x \in DOMAIN outbox : x # k => outbox'[x] = outbox[x]
           /\ \A x \in DOMAIN outbox' : x \notin DOMAIN outbox =>
                x.kind = "revoke" /\ outbox'[x].refs \subseteq S /\ \E r \in S : x = RevokeKey(r)
           /\ \A r \in S : RevokeKey(r) \in DOMAIN outbox' /\ r \in outbox'[RevokeKey(r)].refs
                           /\ outbox'[RevokeKey(r)].status = "pending"
<1>1. PICK e, box : e = outbox[k] /\ box = Mark(outbox, k, "delivered")
  OBVIOUS
<1>2. /\ work[w] # Idle /\ k \in DOMAIN outbox
      /\ k = PublishKey(k.ver) /\ k.kind = "publish"
      /\ e.status = "processing" /\ done = CoverRefs(k.ver)
  BY <1>1, CoversDone
<1>3. ~HasEnded(k.ver, "delivered")
  BY <1>1, <1>2 DEF HasEnded
<1>4. /\ Replaced(done) = S
      /\ \A r \in S : /\ r = Ref(r.image, r.asset, r.grant) /\ r.image \in Covers
                      /\ r = entry.pub[r.image] /\ RecordedOK(r) /\ r.grant # k.ver
  BY <1>2, <1>3, ReplacedFacts
<1>5. EventOK(k, outbox[k])
  BY <1>2 DEF CoverInv, FleetInv, BoxInv, EventsOK
<1>6. /\ DOMAIN box = DOMAIN outbox /\ DOMAIN box[k] = DOMAIN outbox[k]
      /\ box[k].status = "delivered" /\ box[k].refs = outbox[k].refs
      /\ \A x \in DOMAIN outbox : x # k => box[x] = outbox[x]
  BY <1>1, <1>2, <1>5, MarkFacts
<1>7. PICK new : new = {RevokeKey(r) : r \in S} \ DOMAIN box
  OBVIOUS
<1>8. outbox' = [x \in DOMAIN box \cup new |->
            IF x \in new THEN Event({r \in S : RevokeKey(r) = x}) ELSE box[x]]
  BY <1>1, <1>4, <1>7 DEF PublishEntry, Insert
<1>9. /\ DOMAIN outbox' = DOMAIN outbox \cup new
      /\ \A x \in DOMAIN outbox : outbox'[x] = box[x]
      /\ \A x \in new : outbox'[x] = Event({r \in S : RevokeKey(r) = x})
  BY <1>6, <1>7, <1>8
<1>10. ASSUME NEW r \in S
       PROVE  HasEnded(r.grant, "delivered")'
  <2>1. HasEnded(r.grant, "delivered") /\ PublishKey(r.grant) # k
    <3>1. RecordedOK(r) /\ r.grant # k.ver
      BY <1>4
    <3> QED
      BY <3>1, PublishKeyFacts DEF RecordedOK
  <2> QED
    BY <1>6, <1>9, <2>1 DEF HasEnded
<1>11. \A r, s \in S : r.image = s.image => r = s
  BY <1>4
<1>12. ASSUME NEW x \in new
       PROVE  AddedOK(x) /\ x.kind = "revoke" /\ outbox'[x].refs \subseteq S
              /\ \E r \in S : x = RevokeKey(r)
  <2>1. PICK refs : refs = {r \in S : RevokeKey(r) = x}
    OBVIOUS
  <2>2. outbox'[x] = Event(refs) /\ refs \subseteq S /\ \A r \in refs : x = RevokeKey(r)
    BY <1>9, <2>1
  <2>3. PICK r \in S : x = RevokeKey(r)
    BY <1>7
  <2>4. refs # {}
    BY <2>1, <2>3
  <2>5. x.kind = "revoke"
    BY <2>3 DEF RevokeKey, Key
  <2>6. \A s \in refs : HasEnded(s.grant, "delivered")'
    BY <1>10, <2>2
  <2>7. Covers \subseteq Images
    BY DEF Covers, Images
  <2>8. /\ DOMAIN outbox'[x] = {"status", "attempts", "refs"}
        /\ outbox'[x].status = "pending" /\ outbox'[x].refs = refs
    BY <2>2, EventFacts
  <2>9. \A s \in refs : s = Ref(s.image, s.asset, s.grant) /\ s.image \in Images
    BY <1>4, <2>2, <2>7
  <2>10. \A s, t \in refs : s.image = t.image => s = t
    BY <1>11, <2>2
  <2>11. EventOK(x, outbox'[x])
    BY <2>2, <2>4, <2>5, <2>8, <2>9, <2>10 DEF EventOK, RevokeKinds, EventStatuses
  <2>12. AddedOK(x)
    BY <2>5, <2>6, <2>8, <2>11 DEF AddedOK
  <2> QED
    BY <2>2, <2>3, <2>5, <2>8, <2>12
<1>13. FleetInv' /\ BoxMoves
  <2>1. OthersStay(k)
    BY <1>6, <1>9 DEF OthersStay
  <2>2. /\ outbox'[k].status = "delivered" /\ outbox'[k].refs = e.refs
        /\ DOMAIN outbox'[k] = DOMAIN e
    BY <1>1, <1>2, <1>6, <1>9
  <2>3. \A x \in DOMAIN outbox' : x \notin DOMAIN outbox => AddedOK(x)
    BY <1>9, <1>12
  <2>4. Release(w) \/ Goto(w, "retry") \/ Goto(w, "confirm")
    BY DEF Answered, AfterPublishError
  <2> QED
    BY <1>1, <1>2, <2>1, <2>2, <2>3, <2>4, EndedFleet DEF CoverInv, RevokeKinds
<1>14. ASSUME NEW r \in S
       PROVE  RevokeKey(r) \in DOMAIN outbox' /\ r \in outbox'[RevokeKey(r)].refs
              /\ outbox'[RevokeKey(r)].status = "pending"
  <2>1. PICK x, refs : x = RevokeKey(r) /\ refs = {s \in S : RevokeKey(s) = x}
    OBVIOUS
  <2>2. x \in new /\ r \in refs
    BY <1>4, <1>6, <1>7, <2>1 DEF RecordedOK
  <2>3. x \in DOMAIN outbox' /\ outbox'[x] = Event(refs)
    BY <1>9, <2>1, <2>2
  <2>4. Event(refs).status = "pending" /\ Event(refs).refs = refs
    BY EventFacts
  <2>5. x \in DOMAIN outbox' /\ r \in outbox'[x].refs /\ outbox'[x].status = "pending"
    BY <2>2, <2>3, <2>4
  <2> QED
    BY <2>1, <2>5
<1> QED
  BY <1>2, <1>6, <1>9, <1>12, <1>13, <1>14

LEMMA PublishedNews ==
    ASSUME CoverInv, NEW w \in Workers, NEW k, NEW done, k = work[w].key, done = work[w].done,
           work[w].pc = "complete", CurrentNews(k), PublishEntry(k, done), UNCHANGED revision,
           grants' = grants, Answered(w, AfterPublishError(w))
    PROVE  CoverInv'
<1>1. PICK S, T : S = PublishedAssets /\ T = done
  OBVIOUS
<1>2. /\ work[w] # Idle /\ HolderOK(w) /\ k \in DOMAIN outbox
      /\ k = PublishKey(k.ver) /\ k.kind = "publish" /\ k.ver \in Nat \ {0}
      /\ outbox[k].status = "processing" /\ entry.status = "publishing" /\ ~Deleting
      /\ done = CoverRefs(k.ver) /\ done \subseteq grants
      /\ \A g \in grants : g.grant = k.ver => g \in done
  BY CoversDone
<1>3. ~HasEnded(k.ver, "delivered")
  BY <1>2 DEF HasEnded
<1>4. \A r \in S : RecordedOK(r) /\ r.grant # k.ver
  BY <1>1, <1>2, <1>3, ReplacedFacts
<1>5. /\ FleetInv' /\ BoxMoves
      /\ outbox'[k].status = "delivered"
      /\ \A x \in DOMAIN outbox : x # k => outbox'[x] = outbox[x]
      /\ \A x \in DOMAIN outbox' : x \notin DOMAIN outbox =>
            x.kind = "revoke" /\ outbox'[x].refs \subseteq S /\ \E r \in S : x = RevokeKey(r)
      /\ \A r \in S : RevokeKey(r) \in DOMAIN outbox' /\ r \in outbox'[RevokeKey(r)].refs
                      /\ outbox'[RevokeKey(r)].status = "pending"
  BY <1>1, ReplacingFleet
<1>6. PICK pub : pub = [i \in Covers |-> IF \E r \in done : r.image = i
                              THEN CHOOSE r \in done : r.image = i ELSE NoCover(i)]
  OBVIOUS
<1>7. /\ entry' = [[entry EXCEPT !.status = "published"] EXCEPT !.pub = pub]
      /\ proj' = [ver |-> k.ver, cover |-> entry.cover]
  BY <1>6 DEF PublishEntry
<1>8. /\ DOMAIN entry' = {"status", "ver", "cover", "pub"} /\ entry'.status = "published"
      /\ entry'.ver = entry.ver /\ entry'.cover = entry.cover /\ entry'.pub = pub
  BY <1>7 DEF CoverInv, EntryOK
<1>9. ASSUME NEW i \in Covers
      PROVE  pub[i] = IF entry.cover[i] # 0 THEN Ref(i, entry.cover[i], k.ver) ELSE Ref(i, 0, 0)
  <2>1. \A r \in done : r.image = i => entry.cover[i] # 0 /\ r = Ref(i, entry.cover[i], k.ver)
    BY <1>2 DEF CoverRefs, Ref
  <2>2. CASE entry.cover[i] # 0
    <3>1. Ref(i, entry.cover[i], k.ver) \in done
      BY <1>2, <2>2 DEF CoverRefs
    <3>2. \E r \in done : r.image = i
      BY <3>1 DEF Ref
    <3> QED
      BY <1>6, <2>1, <2>2, <3>2
  <2>3. CASE entry.cover[i] = 0
    <3>1. ~\E r \in done : r.image = i
      BY <2>1, <2>3
    <3> QED
      BY <1>6, <2>3, <3>1 DEF NoCover
  <2> QED
    BY <2>2, <2>3
<1>10. EntryOK'
  <2>1. DOMAIN pub = Covers
    BY <1>6
  <2>2. ASSUME NEW i \in Covers
        PROVE  pub[i] = Ref(i, pub[i].asset, pub[i].grant)
    <3>1. PICK a, g : pub[i] = Ref(i, a, g)
      BY <1>9
    <3> QED
      BY <3>1 DEF Ref
  <2> QED
    BY <1>8, <2>1, <2>2 DEF CoverInv, EntryOK
<1>11. \A x \in DOMAIN outbox : x \in DOMAIN outbox' /\ outbox'[x].refs = outbox[x].refs
  BY <1>5 DEF BoxMoves, MovedOK
<1>12. NewsEvents'
  <2>1. \A x \in DOMAIN outbox' : x \notin DOMAIN outbox => x.kind = "revoke"
    BY <1>5
  <2>2. ~Deleting'
    BY <1>2, <2>1 DEF Deleting
  <2> QED
    BY <1>2, <1>8, <2>1, <2>2 DEF CoverInv, NewsEvents
<1>13. HasEnded(k.ver, "delivered")'
  BY <1>2, <1>5, <1>11 DEF HasEnded
<1>14. ASSUME NEW r \in done
       PROVE  RecordedOK(r)' /\ ~IsRevoked(r)'
  <2>1. r.grant = k.ver
    BY <1>2 DEF CoverRefs, Ref
  <2>2. RevokeKey(r) \notin DOMAIN outbox
    BY <1>3, <2>1, NotYetRevoked DEF CoverInv, FleetInv
  <2>3. \A s \in S : RevokeKey(s) # RevokeKey(r)
    BY <1>4, <2>1 DEF RevokeKey, Key
  <2>4. RevokeKey(r) \notin DOMAIN outbox'
    BY <1>5, <2>2, <2>3
  <2>5. ASSUME NEW x \in DOMAIN outbox', x.kind \in RevokeKinds, r \in outbox'[x].refs
        PROVE  FALSE
    <3>1. CASE x \in DOMAIN outbox
      <4>1. outbox[PublishKey(r.grant)].status \in {"delivered", "failed"}
        BY <1>11, <2>5, <3>1, RevokedHasEnded DEF CoverInv, FleetInv
      <4> QED
        BY <1>2, <2>1, <4>1
    <3>2. CASE x \notin DOMAIN outbox
      BY <1>4, <1>5, <2>1, <2>5, <3>2
    <3> QED
      BY <3>1, <3>2
  <2> QED
    BY <1>13, <2>1, <2>4, <2>5 DEF RecordedOK, IsRevoked
<1>15. ASSUME NEW i \in Covers, entry.cover[i] # 0
       PROVE  pub[i] = Ref(i, entry.cover[i], k.ver) /\ pub[i] \in done
  BY <1>2, <1>9, <1>15 DEF CoverRefs
<1>16. CoversRecorded'
  <2> SUFFICES ASSUME NEW i \in Covers, pub[i].grant # 0
               PROVE  pub[i].asset # 0 /\ RecordedOK(pub[i])'
    BY <1>8 DEF CoversRecorded, RecordedOK
  <2>1. entry.cover[i] # 0
    <3> SUFFICES ASSUME entry.cover[i] = 0
                 PROVE  FALSE
      OBVIOUS
    <3>1. pub[i] = Ref(i, 0, 0)
      BY <1>9
    <3> QED
      BY <3>1 DEF Ref
  <2>2. PICK r : r = pub[i]
    OBVIOUS
  <2>3. r \in done /\ r = Ref(i, entry.cover[i], k.ver)
    BY <1>15, <2>1, <2>2
  <2>4. r.asset # 0
    BY <2>1, <2>3 DEF Ref
  <2> QED
    BY <1>14, <2>2, <2>3, <2>4
<1>17. CoversServed'
  <2> SUFFICES ASSUME NEW i \in Covers, entry.cover[i] # 0
               PROVE  /\ k.ver # 0 /\ pub[i] = Ref(i, entry.cover[i], k.ver)
                      /\ pub[i] \in grants /\ ~IsRevoked(pub[i])'
    BY <1>7, <1>8 DEF CoversServed, IsRevoked
  <2>1. PICK r : r = pub[i]
    OBVIOUS
  <2> QED
    BY <1>2, <1>14, <1>15, <2>1
<1>18. done \subseteq PublishedAssets'
  <2> SUFFICES ASSUME NEW r \in done
               PROVE  r \in PublishedAssets'
    OBVIOUS
  <2>1. PICK i \in Covers : entry.cover[i] # 0 /\ r = Ref(i, entry.cover[i], k.ver)
    BY <1>2 DEF CoverRefs
  <2>2. r = pub[i] /\ r.asset # 0 /\ r.grant # 0
    BY <1>2, <1>15, <2>1 DEF Ref
  <2> QED
    BY <1>8, <2>2 DEF PublishedAssets
<1>19. AccountedFor(T)'
  <2>1. ASSUME NEW g \in grants, HasEnded(g.grant, "delivered")'
        PROVE  HasEnded(g.grant, "delivered") \/ g \in T
    <3>1. CASE PublishKey(g.grant) = k
      BY <1>1, <1>2, <3>1, PublishKeyFacts
    <3>2. CASE PublishKey(g.grant) # k
      BY <1>5, <2>1, <3>2, PublishKeyFacts DEF HasEnded
    <3> QED
      BY <3>1, <3>2
  <2>2. \A g \in S \cap grants : \E x \in DOMAIN outbox' :
            x.kind \in RevokeKinds /\ Open(x)' /\ g \in outbox'[x].refs
    <3> SUFFICES ASSUME NEW g \in S
                 PROVE  \E x \in DOMAIN outbox' :
                            x.kind \in RevokeKinds /\ Open(x)' /\ g \in outbox'[x].refs
      OBVIOUS
    <3>1. PICK x : x = RevokeKey(g)
      OBVIOUS
    <3>2. x.kind = "revoke"
      BY <3>1 DEF RevokeKey, Key
    <3> QED
      BY <1>5, <3>1, <3>2 DEF Open, RevokeKinds
  <2> QED
    BY <1>1, <1>5, <2>1, <2>2, AccountsMove DEF CoverInv
<1>20. AccountedFor(PublishedAssets)'
  BY <1>1, <1>18, <1>19 DEF AccountedFor
<1> QED
  BY <1>5, <1>8, <1>10, <1>12, <1>16, <1>17, <1>20 DEF CoverInv, NewsGone, NewsFlight

LEMMA CompleteNews ==
    ASSUME CoverInv, NEW w \in Workers, CompleteContentPublish(w)
    PROVE  CoverInv'
<1>1. PICK k : k = work[w].key
  OBVIOUS
<1>2. work[w] # Idle /\ HolderOK(w) /\ work[w].pc = "complete" /\ grants' = grants
  BY BusyHolder DEF CoverInv, FleetInv, CompleteContentPublish, Busy
<1>3. StepFits(k, outbox[k], "complete", work[w].done) /\ outbox[k].status = "processing"
  BY <1>1, <1>2 DEF HolderOK, StepFits
<1>4. ASSUME NEW pc \in {"compensate", "retry", "confirm"}, Goto(w, pc),
             UNCHANGED <<newsRows, outbox>>
      PROVE  CoverInv'
  <2>1. StepFits(k, outbox[k], pc, work[w].done)
    BY <1>3 DEF StepFits, RevokeKinds
  <2>2. FleetInv'
    BY <1>1, <1>2, <1>4, <2>1, WentOn DEF CoverInv, Pcs
  <2>3. Frame
    BY <1>2, <1>4, StayingFrame DEF CoverInv
  <2> QED
    BY <1>4, <2>2, <2>3, FrameNews
<1>5. CASE CurrentNews(k) /\ PublishEntry(k, work[w].done) /\ Answered(w, AfterPublishError(w))
           /\ UNCHANGED revision
  BY <1>1, <1>2, <1>5, PublishedNews
<1> QED
  BY <1>1, <1>2, <1>3, <1>4, <1>5 DEF CompleteContentPublish, EventOf, RollsBack, AfterPublishError

LEMMA StepNews ==
    ASSUME FaultsOK, CoverInv, NewsNext, ~faults'.lost
    PROVE  CoverInv'
<1>1. ASSUME NEW w \in Workers, OutboxMoves(w), UNCHANGED newsRows
      PROVE  CoverInv'
  BY <1>1, OutboxFleet, FrameNews DEF CoverInv
<1>2. ASSUME NEW w \in Workers, NewsWorker(w)
      PROVE  CoverInv'
  BY <1>1, <1>2, CompleteNews, CompensateNews, UnpublishedNews, FailingNews
     DEF NewsWorker, OutboxMoves, AfterPublishError
<1> QED
  BY <1>1, <1>2, EditNews, StartNews, WithdrawNews, RemoveNews DEF NewsNext, OutboxMoves

\* The grants of covers no attempt knows of.
LEMMA EditStrayCovers ==
    ASSUME FleetInv, StrayInv,
           \/ CreateNews \/ StartPublish \/ StartUnpublish \/ DeleteNews
           \/ \E edit \in Edits : UpdateNews(edit)
           \/ \E v \in Versions : RestoreNews(v)
    PROVE  StrayInv'
<1>1. UNCHANGED <<work, grants, faults>>
  BY DEF CreateNews, UpdateNews, RestoreNews, WriteDraft, StartPublish, StartUnpublish, DeleteNews,
         outboxVars
<1>2. CASE DeleteNews
  <2>1. PICK S : S = {r \in AssetIDs : r.asset # 0}
    OBVIOUS
  <2>2. PICK new : new = {DeleteKey(r) : r \in S} \ DOMAIN outbox
    OBVIOUS
  <2>3. outbox' = [x \in DOMAIN outbox \cup new |->
            IF x \in new THEN Event({r \in S : DeleteKey(r) = x}) ELSE outbox[x]]
    BY <1>2, <2>1, <2>2 DEF DeleteNews, Insert
  <2>4. DOMAIN outbox \subseteq DOMAIN outbox' /\ \A x \in DOMAIN outbox : outbox'[x] = outbox[x]
    BY <2>2, <2>3
  <2> QED
    BY <1>1, <2>4, StrayEdit
<1>3. CASE ~DeleteNews
  <2>1. outbox' = outbox \/ \E k, refs : outbox' = InsertOne(outbox, k, refs)
    BY <1>3 DEF CreateNews, UpdateNews, RestoreNews, WriteDraft, StartPublish, StartUnpublish,
                outboxVars
  <2>2. DOMAIN outbox \subseteq DOMAIN outbox' /\ \A x \in DOMAIN outbox : outbox'[x] = outbox[x]
    BY <2>1, InsertedOne
  <2> QED
    BY <1>1, <2>2, StrayEdit
<1> QED
  BY <1>2, <1>3

LEMMA StrayCovers ==
    ASSUME FaultsOK, CoverInv, StrayInv, NewsNext, ~faults'.lost
    PROVE  StrayInv'
<1>1. FleetInv
  BY DEF CoverInv
<1>2. ASSUME NEW w \in Workers, CompleteContentPublish(w)
      PROVE  StrayInv'
  <2>1. PICK k, done : k = work[w].key /\ done = work[w].done
    OBVIOUS
  <2>2. work[w] # Idle /\ HolderOK(w) /\ work[w].pc = "complete" /\ grants' = grants
    BY <1>1, <1>2, BusyHolder DEF FleetInv, CompleteContentPublish, Busy
  <2>3. outbox[k].status = "processing"
    BY <2>1, <2>2 DEF HolderOK, StepFits
  <2>4. CASE CurrentNews(k) /\ PublishEntry(k, done) /\ Answered(w, AfterPublishError(w))
    <3>1. /\ BoxMoves /\ outbox'[k].status = "delivered"
          /\ \A x \in DOMAIN outbox : x # k => outbox'[x] = outbox[x]
      BY <2>1, <2>2, <2>4, ReplacingFleet
    <3>2. Release(w) \/ Goto(w, "retry") \/ Goto(w, "confirm")
      BY <2>4 DEF Answered, AfterPublishError
    <3>3. UNCHANGED faults \/ GoesWrong
      BY <2>4 DEF Answered
    <3> QED
      BY <1>1, <2>1, <2>2, <3>1, <3>2, <3>3, StrayEnded
  <2>5. ASSUME NEW pc \in {"compensate", "retry", "confirm"}, Goto(w, pc), outbox' = outbox,
               UNCHANGED faults \/ GoesWrong
        PROVE  StrayInv'
    BY <1>1, <2>2, <2>5, StrayGoes
  <2> QED
    BY <1>2, <2>1, <2>3, <2>4, <2>5
       DEF CompleteContentPublish, EventOf, RollsBack, AfterPublishError
<1>3. ASSUME NEW w \in Workers, FailNewsPublish(w)
      PROVE  StrayInv'
  <2>1. work[w] # Idle /\ work[w].pc = "compensate" /\ grants' = grants
    BY <1>1, <1>3, BusyHolder DEF FleetInv, FailNewsPublish, Busy
  <2>2. CASE RollsBack(w, "retry")
    BY <1>1, <2>1, <2>2, StrayGoes DEF RollsBack
  <2>3. CASE /\ outbox' = Insert(Mark(outbox, work[w].key, "failed"), CompensateKey, work[w].done)
             /\ Answered(w, "retry")
    BY <1>1, <2>1, <2>3, StrayCompensated
  <2> QED
    BY <1>3, <2>2, <2>3 DEF FailNewsPublish
<1>4. ASSUME NEW w \in Workers, CompleteContentUnpublish(w)
      PROVE  StrayInv'
  <2>1. /\ work[w] # Idle /\ HolderOK(w) /\ work[w].pc = "finish"
        /\ work[w].key.kind = "unpublish" /\ grants' = grants
    BY <1>1, <1>4, BusyHolder DEF FleetInv, CompleteContentUnpublish, Busy
  <2>2. BoxMoves /\ \A x \in DOMAIN outbox : x # work[w].key => outbox'[x] = outbox[x]
    BY <1>4, UnpublishedNews
  <2>3. Release(w) \/ Goto(w, "retry") \/ Goto(w, "fail")
    BY <1>4 DEF CompleteContentUnpublish, Answered, RollsBack, AfterError
  <2>4. UNCHANGED faults \/ GoesWrong
    BY <1>4 DEF CompleteContentUnpublish, Answered, RollsBack
  <2> QED
    BY <1>1, <2>1, <2>2, <2>3, <2>4, StrayEnded
<1>5. ASSUME NEW w \in Workers, FailNews(w)
      PROVE  StrayInv'
  BY <1>1, <1>5, StrayFailed DEF FailNews
<1>6. ASSUME NEW w \in Workers, OutboxMoves(w)
      PROVE  StrayInv'
  BY <1>1, <1>6, StrayOutbox
<1>7. ASSUME NEW w \in Workers, NewsWorker(w)
      PROVE  StrayInv'
  BY <1>2, <1>3, <1>4, <1>5, <1>6, <1>7 DEF NewsWorker, OutboxMoves, AfterPublishError
<1> QED
  BY <1>1, <1>6, <1>7, EditStrayCovers DEF NewsNext, OutboxMoves

LEMMA NewsFaults ==
    ASSUME FaultsOK, NewsNext
    PROVE  FaultsOK' /\ (~faults'.lost => ~faults.lost)
<1>1. CASE \/ CreateNews \/ StartPublish \/ StartUnpublish \/ DeleteNews
           \/ \E edit \in Edits : UpdateNews(edit)
           \/ \E v \in Versions : RestoreNews(v)
  <2>1. UNCHANGED faults
    BY <1>1 DEF CreateNews, StartPublish, StartUnpublish, DeleteNews, UpdateNews, RestoreNews,
                WriteDraft, outboxVars
  <2> QED
    BY <2>1, FaultsMove
<1>2. ASSUME NEW w \in Workers, \/ CompleteContentPublish(w) \/ FailNewsPublish(w)
                                \/ CompleteContentUnpublish(w) \/ FailNews(w)
      PROVE  FaultsOK' /\ (~faults'.lost => ~faults.lost)
  <2>1. UNCHANGED faults \/ GoesWrong
    BY <1>2 DEF CompleteContentPublish, FailNewsPublish, CompleteContentUnpublish, FailNews,
                Answered, RollsBack
  <2> QED
    BY <2>1, FaultsMove
<1> QED
  BY <1>1, <1>2, OutboxFaults DEF NewsNext, NewsWorker, OutboxMoves, AfterPublishError

LEMMA InitNews ==
    ASSUME NewsInit
    PROVE  NewsInv
<1>1. FaultsOK
  BY DEF NewsInit, OutboxInit, FaultsOK
<1>2. DOMAIN outbox = {} /\ grants = {} /\ work = [w \in Workers |-> Idle]
  BY DEF NewsInit, OutboxInit
<1>3. FleetInv
  BY <1>2 DEF FleetInv, BoxInv, EventsOK, RevocationsFollow, RevocationsWork, GrantsHaveEvents,
              HoldersOK
<1>4. entry = NoEntry /\ proj = NoProj /\ DOMAIN revision = {}
  BY DEF NewsInit
<1>5. EntryOK
  BY <1>4 DEF EntryOK, NoEntry, NoCovers, NoPub, NoCover, Ref
<1>6. \A i \in Covers : entry.pub[i].grant = 0
  BY <1>4 DEF NoEntry, NoPub, NoCover, Ref
<1>7. NewsGone
  BY <1>4 DEF NewsGone, NoEntry
<1>8. NewsEvents /\ NewsFlight
  BY <1>2, <1>4 DEF NewsEvents, NewsFlight, Deleting, NoEntry
<1>9. CoversRecorded /\ CoversServed
  BY <1>4, <1>6 DEF CoversRecorded, CoversServed, NoProj, NoCovers
<1>10. AccountedFor(PublishedAssets)
  BY <1>2 DEF AccountedFor
<1> QED
  BY <1>1, <1>3, <1>5, <1>7, <1>8, <1>9, <1>10, InitStrays DEF NewsInv, CoverInv, NewsInit

LEMMA NextNews ==
    ASSUME NewsInv, NewsNext \/ UNCHANGED newsVars
    PROVE  NewsInv'
<1>1. CASE NewsNext
  BY <1>1, NewsFaults, StepNews, StrayCovers DEF NewsInv
<1>2. CASE UNCHANGED newsVars
  <2>1. UNCHANGED <<faults, outbox, work, grants>> /\ UNCHANGED newsRows
    BY <1>2 DEF newsVars, outboxVars
  <2>2. FaultsOK' /\ (~faults'.lost => ~faults.lost)
    BY <2>1, FaultsMove DEF NewsInv
  <2>3. ASSUME CoverInv, StrayInv
        PROVE  CoverInv' /\ StrayInv'
    <3>1. Frame
      BY <2>1, <2>3, StayingFrame DEF CoverInv
    <3>2. FleetInv'
      BY <2>1, <2>3, <3>1, EditedFleet DEF CoverInv, Frame
    <3> QED
      BY <2>1, <2>3, <3>1, <3>2, FrameNews, StrayEdit DEF CoverInv
  <2> QED
    BY <2>2, <2>3 DEF NewsInv
<1> QED
  BY <1>1, <1>2

\* As long as no worker loses its lease, the covers of a public news entry are
\* served under the grants the entry records; and a live grant of a cover is
\* recorded, or an event is still to revoke it, or its publication goes on, or
\* its publication has failed with an attempt that did not know of the grant
\* (CompleteContentPublish, FailContentPublish, CompleteContentUnpublish,
\* handleContentPublishFailure).
THEOREM CoverGrantsAreFit == NewsSpec => []CoverGrantsFit
<1>1. NewsInit => NewsInv
  BY InitNews
<1>2. NewsInv /\ [NewsNext]_newsVars => NewsInv'
  BY NextNews
<1>3. ASSUME NewsInv
      PROVE  CoverGrantsFit
  <2> SUFFICES ASSUME CoverInv, StrayInv
               PROVE  CoversAreServed /\ CoverGrantsAreAccounted
    BY <1>3 DEF NewsInv, CoverGrantsFit
  <2>1. CoversAreServed
    <3> SUFFICES ASSUME NEW i \in Covers, proj.cover[i] # 0
                 PROVE  /\ Ref(i, proj.cover[i], proj.ver) \in grants
                        /\ entry.pub[i].grant = proj.ver
      BY DEF CoversAreServed
    <3>1. entry.pub[i] = Ref(i, proj.cover[i], proj.ver) /\ entry.pub[i] \in grants
      BY DEF CoverInv, CoversServed
    <3> QED
      BY <3>1 DEF Ref
  <2>2. ASSUME NEW g \in grants
        PROVE  g \in PublishedAssets \/ Accounted(g)
    <3>1. PublishKey(g.grant) \in DOMAIN outbox
      BY DEF CoverInv, FleetInv, BoxInv, GrantsHaveEvents
    <3>2. outbox[PublishKey(g.grant)].status \in EventStatuses
      BY <3>1 DEF CoverInv, FleetInv, BoxInv, EventsOK, EventOK
    <3>3. CASE Open(PublishKey(g.grant))
      BY <3>3 DEF Accounted
    <3>4. CASE HasEnded(g.grant, "failed")
      BY <3>4 DEF StrayInv, StrayOK, IsTaken, HasEnded, Accounted, RevokeKinds
    <3>5. CASE HasEnded(g.grant, "delivered")
      BY <3>5 DEF CoverInv, AccountedFor, Accounted, RevokeKinds
    <3> QED
      BY <3>1, <3>2, <3>3, <3>4, <3>5 DEF HasEnded, Open, EventStatuses
  <2> QED
    BY <2>1, <2>2 DEF CoverGrantsAreAccounted
<1> QED
  BY <1>1, <1>2, <1>3, PTL DEF NewsSpec

----------------------------------------------------------------------------
(* The migration of home                                                   *)

Untaken(c) == child[c].status \in {"draft", "pending_removal"}

\* A page that is published is public as it is, with all its members; one that
\* is being published takes all its members along.
PublishedWhole ==
    /\ page.status = "published" =>
          pageProj.body = page.body /\ \A c \in Children : ~Untaken(c)
    /\ page.status = "publishing" =>
          \A c \in Children : Untaken(c) => c \in DOMAIN manifest[page.ver].items

LEMMA TakenMembers ==
    ASSUME MembersOK, NEW items, UpdateMembers(items),
           \A c \in Children : Untaken(c) => c \in DOMAIN items
    PROVE  \A c \in Children : ~Untaken(c)'
<1> SUFFICES ASSUME NEW c \in Children
             PROVE  ~Untaken(c)'
  OBVIOUS
<1>1. CASE c \notin DOMAIN items
  BY <1>1 DEF UpdateMembers, Untaken
<1>2. CASE c \in DOMAIN items
  <2>1. PICK status, n : status = ActionOf(items[c].action) /\ n = items[c].target
    OBVIOUS
  <2>2. child'[c] = [[child[c] EXCEPT !.status = status] EXCEPT !.ver = n]
    BY <1>2, <2>1 DEF UpdateMembers
  <2>3. child[c] \in MemberRows
    BY DEF MembersOK, MemberOK
  <2>4. child'[c].status = status
    BY <2>2, <2>3 DEF MemberRows
  <2> QED
    BY <2>1, <2>4 DEF ActionOf, Untaken
<1> QED
  BY <1>1, <1>2

LEMMA CollectedWhole ==
    \A c \in Children : Untaken(c) => c \in DOMAIN CollectManifest
BY DEF CollectManifest, Members, Untaken

LEMMA EditWhole ==
    ASSUME GroupInv, PublishedWhole, GroupEdit
    PROVE  PublishedWhole'
<1>1. CASE PublishPageGroup
  <2>1. pageProj'.body = page.body
    BY <1>1 DEF PublishPageGroup, WriteProjections
  <2>2. PICK row : row = Status("published")
    OBVIOUS
  <2>3. DOMAIN row = {"status", "ver", "body", "pub"} /\ row.status = "published" /\ row.body = page.body
    BY <2>2, StatusFacts DEF GroupInv, PageOK
  <2>4. page'.status = "published" /\ page'.body = page.body
    BY <1>1, <2>2, <2>3 DEF PublishPageGroup, ClearBanner
  <2>5. \A c \in Children : ~Untaken(c)'
    BY <1>1, CollectedWhole, TakenMembers DEF PublishPageGroup, GroupInv
  <2> QED
    BY <2>1, <2>4, <2>5 DEF PublishedWhole
<1>2. CASE UnpublishGroup
  <2>1. PICK row : row = Status("unpublished")
    OBVIOUS
  <2>2. DOMAIN row = {"status", "ver", "body", "pub"} /\ row.status = "unpublished"
    BY <2>1, StatusFacts DEF GroupInv, PageOK
  <2>3. page'.status = "unpublished"
    BY <1>2, <2>1, <2>2 DEF UnpublishGroup, ClearBanner
  <2> QED
    BY <2>3 DEF PublishedWhole
<1>3. CASE StartHomePublish
  <2>1. page'.status = "publishing" /\ page'.ver = page.ver + 1 /\ child' = child
    BY <1>3, StatusFacts DEF StartHomePublish
  <2>2. manifest'[page.ver + 1].items = CollectManifest
    BY <1>3 DEF StartHomePublish, InsertManifest, Put
  <2> QED
    BY <2>1, <2>2, CollectedWhole DEF PublishedWhole, Untaken
<1>4. CASE TouchPageGroup
  BY <1>4, TouchedPage DEF PublishedWhole
<1>5. ASSUME NEW body, page' = [Status("draft") EXCEPT !.body = body]
      PROVE  PublishedWhole'
  <2>1. PICK row : row = Status("draft")
    OBVIOUS
  <2>2. DOMAIN row = {"status", "ver", "body", "pub"} /\ row.status = "draft"
    BY <2>1, StatusFacts DEF GroupInv, PageOK
  <2>3. page'.status = "draft"
    BY <1>5, <2>1, <2>2
  <2> QED
    BY <2>3 DEF PublishedWhole
<1> QED
  BY <1>1, <1>2, <1>3, <1>4, <1>5
     DEF GroupEdit, CreateChild, UpdateChild, RemoveChild, DeleteChild, WriteChild, EditText,
         AttachBanner, UpdatePage, RestorePageGroup

LEMMA FailedWhole ==
    ASSUME GroupInv, PublishedWhole, NEW k, FailHome(k), UNCHANGED <<child, pageProj>>
    PROVE  PublishedWhole'
<1>1. page'.status = "publish_failed" \/ page' = page
  BY DEF FailHome, GroupInv, PageOK
<1>2. CASE page' = page /\ page.status = "publishing"
  <2>1. PICK v : v = page.ver
    OBVIOUS
  <2>2. v \in DOMAIN manifest /\ DOMAIN manifest[v] = {"state", "items"}
    BY <1>2, <2>1 DEF GroupInv, FlightOK, ManifestsOK, ManifestOK
  <2>3. manifest'[v].items = manifest[v].items
    <3>1. CASE manifest' = manifest
      BY <3>1
    <3>2. CASE k.ver \in DOMAIN manifest /\ manifest' = [manifest EXCEPT ![k.ver].state = "failed"]
      <4>1. PICK m : m = [manifest[k.ver] EXCEPT !.state = "failed"]
        OBVIOUS
      <4>2. manifest' = [manifest EXCEPT ![k.ver] = m]
        BY <3>2, <4>1
      <4>3. k.ver = v => m.items = manifest[v].items
        BY <2>2, <4>1
      <4> QED
        BY <2>2, <4>2, <4>3
    <3> QED
      BY <3>1, <3>2 DEF FailHome, IsPending
  <2> QED
    BY <1>2, <2>1, <2>3 DEF PublishedWhole, Untaken
<1>3. CASE page' = page /\ page.status # "publishing"
  BY <1>3 DEF PublishedWhole, Untaken
<1>4. CASE page'.status = "publish_failed"
  BY <1>4 DEF PublishedWhole
<1> QED
  BY <1>1, <1>2, <1>3, <1>4

LEMMA SameWhole ==
    ASSUME PublishedWhole, UNCHANGED groupRows
    PROVE  PublishedWhole'
BY DEF PublishedWhole, Untaken, groupRows

LEMMA NextWhole ==
    ASSUME GroupInv, PublishedWhole, MigrationNext \/ UNCHANGED migrationVars
    PROVE  PublishedWhole'
<1>1. ASSUME NEW k, NEW r, Current(k), PublishHome(k, r)
      PROVE  PublishedWhole'
  <2>1. PICK items : items = manifest[k.ver].items
    OBVIOUS
  <2>2. page.status = "publishing" /\ page.ver = k.ver
    BY <1>1 DEF Current
  <2>3. pageProj'.body = page.body
    BY <1>1 DEF PublishHome, WriteProjections
  <2>4. page'.status = "published" /\ page'.body = page.body
    BY <1>1 DEF PublishHome, GroupInv, PageOK
  <2>5. UpdateMembers(items) /\ MembersOK /\ \A c \in Children : Untaken(c) => c \in DOMAIN items
    BY <1>1, <2>1, <2>2 DEF PublishHome, PublishedWhole, GroupInv
  <2>6. \A c \in Children : ~Untaken(c)'
    BY <2>5, TakenMembers
  <2> QED
    BY <2>3, <2>4, <2>6 DEF PublishedWhole
<1>2. ASSUME NEW w \in Workers, GroupWorker(w)
      PROVE  PublishedWhole'
  <2>1. CASE CompleteHomePublish(w)
    BY <1>1, <2>1, SameWhole DEF CompleteHomePublish
  <2>2. CASE FailContentPublish(w)
    BY <2>2, FailedWhole, SameWhole DEF FailContentPublish, otherRows
  <2>3. CASE Fail(w)
    BY <2>3, FailedWhole DEF Fail, otherRows
  <2> QED
    BY <1>2, <2>1, <2>2, <2>3, SameWhole DEF GroupWorker
<1>3. CASE GroupNext
  BY <1>2, <1>3, EditWhole, SameWhole DEF GroupNext, ReadPage, ReadMembers
<1>4. CASE ApplyMigration
  <2>1. PICK row, body : row = Status("draft") /\ page' = [row EXCEPT !.body = body]
    BY <1>4 DEF ApplyMigration
  <2>2. DOMAIN row = {"status", "ver", "body", "pub"} /\ row.status = "draft"
    BY <2>1, StatusFacts DEF GroupInv, PageOK
  <2>3. page'.status = "draft"
    BY <2>1, <2>2
  <2> QED
    BY <2>3 DEF PublishedWhole
<1>5. CASE UNCHANGED groupRows
  BY <1>5, SameWhole
<1> QED
  BY <1>3, <1>4, <1>5 DEF MigrationNext, PlanMigration, migrationVars, groupVars

LEMMA InitWhole ==
    ASSUME GroupInit
    PROVE  PublishedWhole
<1>1. PICK body : /\ page = [status |-> IF Legacy THEN "published" ELSE "draft",
                             ver |-> IF Legacy THEN 2 ELSE 1, body |-> body, pub |-> NoRef]
                  /\ pageProj = (IF Legacy THEN [ver |-> 2, body |-> body] ELSE NoPageProj)
  BY DEF GroupInit
<1>2. \A c \in Children : child[c].status \in {"published", "absent"}
  BY DEF GroupInit, Gone
<1>3. page.status \in {"published", "draft"} /\ (page.status = "published" => Legacy)
  BY <1>1
<1>4. Legacy => pageProj.body = page.body
  BY <1>1
<1> QED
  BY <1>2, <1>3, <1>4 DEF PublishedWhole, Untaken

\* The migration of home replaces only a page that is public as it is, with no
\* member that waits for a publication, and by the text that was reviewed
\* (loadSnapshot, BuildPlan and Apply of homev2migration).
THEOREM MigrationsAreReviewed == MigrationSpec => [][MigrationIsReviewed]_migrationVars
<1>1. MigrationSpec => []GroupInv
  BY GroupInvariant, PTL
<1>2. GroupInit => PublishedWhole
  BY InitWhole
<1>3. GroupInv /\ PublishedWhole /\ [MigrationNext]_migrationVars => PublishedWhole'
  BY NextWhole
<1>4. GroupInv /\ PublishedWhole /\ [MigrationNext]_migrationVars => [MigrationIsReviewed]_migrationVars
  <2> SUFFICES ASSUME GroupInv, PublishedWhole, ApplyMigration
               PROVE  /\ page.body.text = pageProj.body.text
                      /\ page.body.template = pageProj.body.template
                      /\ \A c \in Children : child[c].status \notin {"draft", "pending_removal"}
                      /\ page'.body.text = plan.text
    BY DEF MigrationIsReviewed
  <2>1. page.body.template = "home.v1" /\ page.status = "published" /\ plan = Plan
    BY DEF ApplyMigration, CanPlan
  <2>2. pageProj.body = page.body /\ \A c \in Children : ~Untaken(c)
    BY <2>1 DEF PublishedWhole
  <2>3. PICK row, body : /\ row = Status("draft") /\ page' = [row EXCEPT !.body = body]
                         /\ body = [template |-> "home.v2", text |-> Plan.text, banner |-> 0]
    BY DEF ApplyMigration
  <2>4. DOMAIN row = {"status", "ver", "body", "pub"}
    BY <2>3, StatusFacts DEF GroupInv, PageOK
  <2>5. page'.body = body /\ body.text = Plan.text
    BY <2>3, <2>4
  <2> QED
    BY <2>1, <2>2, <2>5 DEF Untaken
<1> QED
  BY <1>1, <1>2, <1>3, <1>4, PTL DEF MigrationSpec

----------------------------------------------------------------------------
(* The types, with or without lost leases: of the outbox and its workers   *)

\* The steps of the handlers that publish.
GrantSteps == {"get", "grant", "complete", "confirm", "compensate", "defer"}

EventTyped(k, e) ==
    /\ e \in [status : EventStatuses, attempts : 0 .. MaxAttempts, refs : SUBSET Refs]
    /\ e.status = "processing" => e.attempts > 0
    /\ k.kind \in RevokeKinds \cup {"publish", "delete"}
    /\ k.ver \in Versions
    /\ k.kind = "publish" => e.refs # {}

\* What a worker holds of the event of key k.
HolderTyped(x, keys) ==
    /\ x \in [pc : Pcs, key : keys, att : 1 .. MaxAttempts, done : SUBSET Refs]
    /\ x.pc \in GrantSteps => x.key.kind = "publish"
    /\ x.key.kind = "publish" => \A r \in x.done : r.grant # 0
    /\ x.pc = "complete" => x.done # {}
    /\ x.pc = "revoke" => x.key.kind # "publish"

OutboxTyped ==
    /\ \A k \in DOMAIN outbox : EventTyped(k, outbox[k])
    /\ DOMAIN work = Workers
    /\ \A w \in Workers : work[w] # Idle => HolderTyped(work[w], DOMAIN outbox)
    /\ grants \subseteq Refs
    /\ faults \in [count : 0 .. MaxFaults, lost : BOOLEAN, stray : SUBSET Refs]

LEMMA TypedOutbox ==
    ASSUME OutboxTyped
    PROVE  OutboxTypeOK
BY DEF OutboxTyped, OutboxTypeOK, EventTyped, HolderTyped, EventStatuses, RevokeKinds, Pcs

LEMMA TypedFaults ==
    ASSUME OutboxTyped,
           UNCHANGED faults \/ GoesWrong \/ LosesLease \/ \E s \in SUBSET Refs : StraysTo(s)
    PROVE  faults' \in [count : 0 .. MaxFaults, lost : BOOLEAN, stray : SUBSET Refs]
<1>1. PICK n : n = faults.count + 1
  OBVIOUS
<1>2. faults.count \in 0 .. MaxFaults /\ MaxFaults \in Nat
  BY OutboxAssumption DEF OutboxTyped
<1>3. faults.count < MaxFaults => n \in 0 .. MaxFaults
  BY <1>1, <1>2
<1>4. \/ UNCHANGED faults
      \/ n \in 0 .. MaxFaults /\ faults' = [faults EXCEPT !.count = n]
      \/ n \in 0 .. MaxFaults /\ faults' = [faults EXCEPT !.count = n, !.lost = TRUE]
      \/ \E s \in SUBSET Refs : StraysTo(s)
  BY <1>1, <1>3 DEF GoesWrong, LosesLease
<1>5. ASSUME NEW s \in SUBSET Refs, StraysTo(s)
      PROVE  faults' \in [count : 0 .. MaxFaults, lost : BOOLEAN, stray : SUBSET Refs]
  <2>1. \/ faults' = [faults EXCEPT !.stray = s]
        \/ n \in 0 .. MaxFaults /\ faults' = [faults EXCEPT !.count = n, !.stray = s]
    BY <1>1, <1>3, <1>5 DEF StraysTo
  <2> QED
    BY <2>1 DEF OutboxTyped
<1> QED
  BY <1>4, <1>5 DEF OutboxTyped

\* A step of one worker.
LEMMA TypedStep ==
    ASSUME OutboxTyped, NEW w \in Workers, WorkerMoves(w),
           DOMAIN outbox \subseteq DOMAIN outbox',
           \A k \in DOMAIN outbox' : EventTyped(k, outbox'[k]),
           work'[w] = Idle \/ HolderTyped(work'[w], DOMAIN outbox'),
           grants' \subseteq Refs,
           UNCHANGED faults \/ GoesWrong \/ LosesLease \/ \E s \in SUBSET Refs : StraysTo(s)
    PROVE  OutboxTyped'
<1>1. faults' \in [count : 0 .. MaxFaults, lost : BOOLEAN, stray : SUBSET Refs]
  BY TypedFaults
<1>2. ASSUME NEW x \in Workers, work'[x] # Idle
      PROVE  HolderTyped(work'[x], DOMAIN outbox')
  <2>1. CASE x = w
    BY <1>2, <2>1
  <2>2. CASE x # w
    <3>1. work'[x] = work[x] /\ HolderTyped(work[x], DOMAIN outbox)
      BY <1>2, <2>2 DEF WorkerMoves, OutboxTyped
    <3> QED
      BY <3>1 DEF HolderTyped
  <2> QED
    BY <2>1, <2>2
<1> QED
  BY <1>1, <1>2 DEF OutboxTyped, WorkerMoves

\* A step of an editor.
LEMMA TypedEdit ==
    ASSUME OutboxTyped, UNCHANGED <<work, grants, faults>>,
           DOMAIN outbox \subseteq DOMAIN outbox',
           \A k \in DOMAIN outbox' : EventTyped(k, outbox'[k])
    PROVE  OutboxTyped'
BY DEF OutboxTyped, HolderTyped

LEMMA TypedHolder ==
    ASSUME OutboxTyped, NEW w \in Workers, work[w].pc # "idle"
    PROVE  /\ work[w] # Idle /\ HolderTyped(work[w], DOMAIN outbox)
           /\ work[w].key \in DOMAIN outbox /\ EventTyped(work[w].key, outbox[work[w].key])
BY DEF OutboxTyped, Idle, HolderTyped

\* The worker goes on at pc, with what it has done.
LEMMA TypedGoto ==
    ASSUME OutboxTyped, NEW w \in Workers, work[w].pc # "idle", NEW pc \in Pcs \ {"revoke"}, Goto(w, pc),
           pc \in GrantSteps => work[w].key.kind = "publish",
           pc = "complete" => work[w].done # {},
           DOMAIN outbox \subseteq DOMAIN outbox'
    PROVE  WorkerMoves(w) /\ HolderTyped(work'[w], DOMAIN outbox')
<1>1. HolderTyped(work[w], DOMAIN outbox)
  BY TypedHolder
<1>2. PICK x : x = [work[w] EXCEPT !.pc = pc]
  OBVIOUS
<1>3. /\ x \in [pc : Pcs, key : DOMAIN outbox', att : 1 .. MaxAttempts, done : SUBSET Refs]
      /\ x.pc = pc /\ x.key = work[w].key /\ x.done = work[w].done
  BY <1>1, <1>2 DEF HolderTyped
<1>4. HolderTyped(x, DOMAIN outbox')
  BY <1>1, <1>3 DEF HolderTyped
<1>5. work' = [work EXCEPT ![w] = x]
  BY <1>2 DEF Goto
<1> QED
  BY <1>4, <1>5 DEF WorkerMoves, OutboxTyped

LEMMA TypedRelease ==
    ASSUME OutboxTyped, NEW w \in Workers, Release(w)
    PROVE  WorkerMoves(w) /\ work'[w] = Idle
BY DEF OutboxTyped, Release, WorkerMoves

\* A worker that only moves on.
LEMMA TypedWait ==
    ASSUME OutboxTyped, NEW w \in Workers, work[w].pc # "idle",
           UNCHANGED outbox, grants' \subseteq Refs,
           UNCHANGED faults \/ GoesWrong \/ \E s \in SUBSET Refs : StraysTo(s),
           \/ Release(w)
           \/ \E pc \in Pcs \ {"revoke"} :
                 /\ Goto(w, pc)
                 /\ pc \in GrantSteps => work[w].key.kind = "publish"
                 /\ pc = "complete" => work[w].done # {}
    PROVE  OutboxTyped'
<1>1. DOMAIN outbox \subseteq DOMAIN outbox' /\ \A k \in DOMAIN outbox' : EventTyped(k, outbox'[k])
  BY DEF OutboxTyped
<1>2. CASE Release(w)
  BY <1>1, <1>2, TypedRelease, TypedStep
<1>3. CASE ~Release(w)
  <2>1. PICK pc \in Pcs \ {"revoke"} :
               /\ Goto(w, pc)
               /\ pc \in GrantSteps => work[w].key.kind = "publish"
               /\ pc = "complete" => work[w].done # {}
    BY <1>3
  <2>2. WorkerMoves(w) /\ HolderTyped(work'[w], DOMAIN outbox')
    BY <1>1, <2>1, TypedGoto
  <2> QED
    BY <1>1, <2>2, TypedStep
<1> QED
  BY <1>2, <1>3

\* An event gets a new status.
LEMMA TypedMark ==
    ASSUME OutboxTyped, NEW k \in DOMAIN outbox, NEW status \in EventStatuses \ {"processing"},
           NEW box, box = Mark(outbox, k, status)
    PROVE  DOMAIN box = DOMAIN outbox /\ \A x \in DOMAIN box : EventTyped(x, box[x])
<1>1. PICK e : e = [outbox[k] EXCEPT !.status = status]
  OBVIOUS
<1>2. box = [outbox EXCEPT ![k] = e]
  BY <1>1 DEF Mark
<1>3. EventTyped(k, outbox[k])
  BY DEF OutboxTyped
<1>4. EventTyped(k, e)
  BY <1>1, <1>3 DEF EventTyped
<1> QED
  BY <1>2, <1>4 DEF OutboxTyped

\* New events join a box.
LEMMA TypedInsert ==
    ASSUME NEW box, \A k \in DOMAIN box : EventTyped(k, box[k]), NEW new,
           DOMAIN outbox' = DOMAIN box \cup new,
           \A k \in DOMAIN box : outbox'[k] = box[k],
           \A k \in new : /\ k \notin DOMAIN box
                          /\ \E s \in SUBSET Refs : outbox'[k] = Event(s)
                          /\ k.kind \in RevokeKinds \cup {"delete"} /\ k.ver \in Versions
    PROVE  /\ DOMAIN box \subseteq DOMAIN outbox'
           /\ \A k \in DOMAIN outbox' : EventTyped(k, outbox'[k])
<1>1. ASSUME NEW k \in new
      PROVE  EventTyped(k, outbox'[k])
  <2>1. PICK s \in SUBSET Refs : outbox'[k] = Event(s)
    OBVIOUS
  <2>2. Event(s) \in [status : EventStatuses, attempts : 0 .. MaxAttempts, refs : SUBSET Refs]
        /\ Event(s).status = "pending"
    BY OutboxAssumption DEF Event, EventStatuses
  <2> QED
    BY <2>1, <2>2 DEF EventTyped, RevokeKinds
<1> QED
  BY <1>1

LEMMA TypedClaim ==
    ASSUME OutboxTyped, NEW w \in Workers, NEW k \in DOMAIN outbox, Claim(w, k)
    PROVE  OutboxTyped'
<1>1. PICK n : n = IF outbox[k].attempts < MaxAttempts THEN outbox[k].attempts + 1
                                                       ELSE MaxAttempts
  OBVIOUS
<1>2. EventTyped(k, outbox[k])
  BY DEF OutboxTyped
<1>3. n \in 1 .. MaxAttempts
  BY <1>1, <1>2, OutboxAssumption DEF EventTyped
<1>4. PICK e : e = [outbox[k] EXCEPT !.status = "processing", !.attempts = n]
  OBVIOUS
<1>5. outbox' = [outbox EXCEPT ![k] = e]
  BY <1>1, <1>4 DEF Claim
<1>6. EventTyped(k, e)
  <2>1. /\ e \in [status : EventStatuses, attempts : 0 .. MaxAttempts, refs : SUBSET Refs]
        /\ e.attempts = n /\ e.refs = outbox[k].refs
    <3>1. n \in 0 .. MaxAttempts /\ "processing" \in EventStatuses
      BY <1>3, OutboxAssumption DEF EventStatuses
    <3>2. outbox[k] \in [status : EventStatuses, attempts : 0 .. MaxAttempts, refs : SUBSET Refs]
      BY <1>2 DEF EventTyped
    <3> QED
      BY <1>4, <3>1, <3>2
  <2> QED
    BY <1>2, <1>3, <2>1 DEF EventTyped
<1>7. DOMAIN outbox' = DOMAIN outbox /\ \A x \in DOMAIN outbox' : EventTyped(x, outbox'[x])
  BY <1>5, <1>6 DEF OutboxTyped
<1>8. PICK x : x = [pc |-> FirstStep(k), key |-> k, att |-> n, done |-> {}]
  OBVIOUS
<1>9. work' = [work EXCEPT ![w] = x]
  BY <1>1, <1>8 DEF Claim
<1>10. FirstStep(k) \in Pcs /\ (FirstStep(k) \in GrantSteps => k.kind = "publish")
       /\ FirstStep(k) # "complete" /\ (FirstStep(k) = "revoke" => k.kind # "publish")
  BY <1>2 DEF FirstStep, Pcs, GrantSteps
<1>11. HolderTyped(x, DOMAIN outbox')
  BY <1>3, <1>7, <1>8, <1>10 DEF HolderTyped
<1>12. WorkerMoves(w) /\ work'[w] = x
  BY <1>9 DEF WorkerMoves, OutboxTyped
<1>13. grants' \subseteq Refs /\ (UNCHANGED faults \/ GoesWrong \/ LosesLease)
  BY DEF Claim, OutboxTyped
<1> QED
  BY <1>7, <1>11, <1>12, <1>13, TypedStep

\* A worker whose attempt ends leaves grants behind.
LEMMA TypedUnattended ==
    ASSUME OutboxTyped, NEW w \in Workers, work[w] # Idle
    PROVE  faults.stray \cup Unattended(w) \in SUBSET Refs
BY DEF OutboxTyped, HolderTyped, Unattended

LEMMA TypedCrash ==
    ASSUME OutboxTyped, NEW w \in Workers, Crash(w)
    PROVE  OutboxTyped'
<1>1. WorkerMoves(w) /\ work'[w] = Idle
  BY TypedRelease DEF Crash
<1>2. StraysTo(faults.stray \cup Unattended(w)) /\ faults.stray \cup Unattended(w) \in SUBSET Refs
  BY TypedUnattended DEF Crash, StraysTo
<1>3. UNCHANGED <<outbox, grants>>
  BY DEF Crash
<1> QED
  BY <1>1, <1>2, <1>3, TypedStep DEF OutboxTyped

LEMMA TypedReopen ==
    ASSUME OutboxTyped, NEW w \in Workers, Reopen(w)
    PROVE  OutboxTyped'
<1>1. PICK k : k = work[w].key
  OBVIOUS
<1>2. k \in DOMAIN outbox /\ EventTyped(k, outbox[k])
  BY <1>1, TypedHolder DEF Reopen, Busy
<1>3. WorkerMoves(w) /\ work'[w] = Idle
  BY TypedRelease DEF Reopen
<1>4. DOMAIN outbox' = DOMAIN outbox /\ \A x \in DOMAIN outbox' : EventTyped(x, outbox'[x])
  <2>1. CASE outbox[k].status # "processing"
    BY <1>1, <2>1 DEF Reopen, EventOf, OutboxTyped
  <2>2. CASE outbox[k].status = "processing"
    <3>1. PICK n : n = IF Busy(w, "defer") THEN outbox[k].attempts - 1 ELSE outbox[k].attempts
      OBVIOUS
    <3>2. n \in 0 .. MaxAttempts
      BY <1>2, <2>2, <3>1, OutboxAssumption DEF EventTyped
    <3>3. PICK e : e = [outbox[k] EXCEPT !.status = "pending", !.attempts = n]
      OBVIOUS
    <3>4. outbox' = [outbox EXCEPT ![k] = e]
      BY <1>1, <2>2, <3>1, <3>3 DEF Reopen, EventOf
    <3>5. EventTyped(k, e)
      BY <1>2, <3>2, <3>3 DEF EventTyped, EventStatuses
    <3> QED
      BY <3>4, <3>5 DEF OutboxTyped
  <2> QED
    BY <2>1, <2>2
<1>5. StraysTo(faults.stray \cup Unattended(w)) /\ faults.stray \cup Unattended(w) \in SUBSET Refs
  BY TypedUnattended, TypedHolder DEF Reopen, StraysTo, Busy
<1>6. grants' \subseteq Refs
  BY DEF Reopen, OutboxTyped
<1> QED
  BY <1>3, <1>4, <1>5, <1>6, TypedStep

LEMMA TypedAsk ==
    ASSUME OutboxTyped, NEW w \in Workers, GetAssets(w) \/ EventDelivered(w)
    PROVE  OutboxTyped'
<1>1. work[w].pc \in {"get", "confirm"} /\ work[w].pc # "idle"
  BY DEF GetAssets, EventDelivered, Busy
<1>2. work[w].key.kind = "publish"
  BY <1>1, TypedHolder DEF HolderTyped, GrantSteps
<1>3. UNCHANGED outbox /\ grants' \subseteq Refs /\ (UNCHANGED faults \/ GoesWrong)
  BY DEF GetAssets, EventDelivered, OutboxTyped
<1>4. Release(w) \/ \E pc \in Pcs \ {"complete", "revoke"} : Goto(w, pc)
  BY DEF GetAssets, EventDelivered, AfterError, Pcs
<1> QED
  BY <1>1, <1>2, <1>3, <1>4, TypedWait

\* The first image a worker has left is one of the event.
LEMMA TypedLeft ==
    ASSUME OutboxTyped, NEW w \in Workers, work[w].pc # "idle"
    PROVE  /\ EventOf(w).refs \subseteq Refs
           /\ Left(w) # {} => First(Left(w)) \in EventOf(w).refs
           /\ Left(w) = {} /\ work[w].key.kind = "publish" => work[w].done # {}
<1>1. EventTyped(work[w].key, EventOf(w))
  BY TypedHolder DEF EventOf
<1>2. EventOf(w).refs \subseteq Refs /\ \A r \in Left(w) : r.image \in Images
  BY <1>1 DEF EventTyped, Left, Refs
<1>3. Left(w) # {} => First(Left(w)) \in EventOf(w).refs
  BY <1>2, FirstIsIn DEF Left
<1>4. ASSUME Left(w) = {}, work[w].key.kind = "publish"
      PROVE  work[w].done # {}
  BY <1>1, <1>4 DEF EventTyped, Left, Granted
<1> QED
  BY <1>2, <1>3, <1>4

\* A worker that has done one more image.
LEMMA TypedDone ==
    ASSUME OutboxTyped, NEW w \in Workers, work[w].pc # "idle", work[w].pc # "complete",
           NEW r \in Refs, work[w].key.kind = "publish" => r.grant # 0,
           work' = [work EXCEPT ![w].done = @ \cup {r}],
           UNCHANGED outbox, grants' \subseteq Refs,
           UNCHANGED faults \/ \E s \in SUBSET Refs : StraysTo(s)
    PROVE  OutboxTyped'
<1>1. HolderTyped(work[w], DOMAIN outbox)
  BY TypedHolder
<1>2. PICK done : done = work[w].done \cup {r}
  OBVIOUS
<1>3. PICK x : x = [work[w] EXCEPT !.done = done]
  OBVIOUS
<1>4. work' = [work EXCEPT ![w] = x]
  BY <1>2, <1>3
<1>5. done \in SUBSET Refs /\ (work[w].key.kind = "publish" => \A y \in done : y.grant # 0)
  BY <1>1, <1>2 DEF HolderTyped
<1>6. /\ x \in [pc : Pcs, key : DOMAIN outbox, att : 1 .. MaxAttempts, done : SUBSET Refs]
      /\ x.pc = work[w].pc /\ x.key = work[w].key /\ x.done = done
  BY <1>1, <1>3, <1>5 DEF HolderTyped
<1>7. HolderTyped(x, DOMAIN outbox')
  BY <1>1, <1>5, <1>6 DEF HolderTyped
<1>8. WorkerMoves(w) /\ work'[w] = x
  BY <1>4 DEF WorkerMoves, OutboxTyped
<1>9. \A k \in DOMAIN outbox' : EventTyped(k, outbox'[k])
  BY DEF OutboxTyped
<1> QED
  BY <1>7, <1>8, <1>9, TypedStep

LEMMA TypedCreate ==
    ASSUME OutboxTyped, NEW w \in Workers, NEW onError \in {"retry", "confirm"},
           CreatePublicGrant(w, onError)
    PROVE  OutboxTyped'
<1>1. work[w].pc = "grant" /\ work[w].pc # "idle" /\ UNCHANGED outbox
  BY DEF CreatePublicGrant, Busy
<1>2. work[w].key.kind = "publish" /\ work[w].key.ver \in Versions
  BY <1>1, TypedHolder DEF HolderTyped, GrantSteps, EventTyped
<1>3. PICK left, first, r : /\ left = Left(w) /\ first = First(left)
                            /\ r = [first EXCEPT !.grant = work[w].key.ver]
  OBVIOUS
<1>4. \/ left = {} /\ Goto(w, "complete") /\ UNCHANGED <<grants, faults>>
      \/ /\ left # {}
         /\ grants' = grants \cup {r}
         /\ \/ work' = [work EXCEPT ![w].done = @ \cup {r}] /\ StraysTo(faults.stray \ {r})
            \/ Goto(w, onError) /\ StraysTo(faults.stray \cup {r})
      \/ left # {} /\ Goto(w, onError) /\ GoesWrong /\ UNCHANGED grants
  BY <1>3 DEF CreatePublicGrant, Left, StraysTo
<1>5. ASSUME left # {}
      PROVE  r \in Refs /\ r.grant # 0
  <2>1. first \in Refs
    BY <1>1, <1>3, <1>5, TypedLeft
  <2>2. work[w].key.ver \in 0 .. MaxVersion /\ work[w].key.ver # 0
    BY <1>2, OutboxAssumption DEF Versions
  <2> QED
    BY <1>3, <2>1, <2>2 DEF Refs
<1>6. CASE left = {} /\ Goto(w, "complete") /\ UNCHANGED <<grants, faults>>
  <2>1. work[w].done # {}
    BY <1>1, <1>2, <1>3, <1>6, TypedLeft
  <2> QED
    BY <1>1, <1>2, <1>6, <2>1, TypedWait DEF Pcs, OutboxTyped
<1>7. CASE /\ left # {} /\ grants' = grants \cup {r} /\ StraysTo(faults.stray \ {r})
           /\ work' = [work EXCEPT ![w].done = @ \cup {r}]
  <2>1. faults.stray \ {r} \in SUBSET Refs /\ grants' \subseteq Refs
    BY <1>5, <1>7 DEF OutboxTyped
  <2> QED
    BY <1>1, <1>5, <1>7, <2>1, TypedDone
<1>8. CASE left # {} /\ Goto(w, onError) /\ GoesWrong /\ UNCHANGED grants
  BY <1>1, <1>2, <1>5, <1>8, TypedWait DEF Pcs, OutboxTyped
<1>9. CASE /\ left # {} /\ Goto(w, onError) /\ grants' = grants \cup {r}
           /\ StraysTo(faults.stray \cup {r})
  <2>1. faults.stray \cup {r} \in SUBSET Refs /\ grants' \subseteq Refs
    BY <1>5, <1>9 DEF OutboxTyped
  <2> QED
    BY <1>1, <1>2, <1>9, <2>1, TypedWait DEF Pcs
<1> QED
  BY <1>4, <1>6, <1>7, <1>8, <1>9

LEMMA TypedRevoke ==
    ASSUME OutboxTyped, NEW w \in Workers, RevokeGrant(w)
    PROVE  OutboxTyped'
<1>1. work[w].pc = "revoke" /\ work[w].pc # "idle" /\ UNCHANGED outbox
  BY DEF RevokeGrant, Busy
<1>2. PICK left, r : left = Left(w) /\ r = First(left)
  OBVIOUS
<1>3. \/ left = {} /\ Goto(w, "finish") /\ UNCHANGED <<grants, faults>>
      \/ /\ left # {}
         /\ grants' = grants \ {r}
         /\ \/ /\ work' = [work EXCEPT ![w].done = @ \cup {r}]
               /\ UNCHANGED faults
            \/ Goto(w, "retry") /\ GoesWrong
      \/ left # {} /\ Goto(w, "retry") /\ GoesWrong /\ UNCHANGED grants
  BY <1>2 DEF RevokeGrant, Left
<1>4. left # {} => r \in Refs
  BY <1>1, <1>2, TypedLeft
<1>5. grants' \subseteq Refs
  BY <1>3 DEF OutboxTyped
<1>6. CASE work' = [work EXCEPT ![w].done = @ \cup {r}] /\ left # {} /\ UNCHANGED faults
  <2>1. work[w].key.kind # "publish"
    BY <1>1, TypedHolder DEF HolderTyped
  <2> QED
    BY <1>1, <1>4, <1>5, <1>6, <2>1, TypedDone
<1>7. CASE (Goto(w, "finish") \/ Goto(w, "retry")) /\ (UNCHANGED faults \/ GoesWrong)
  BY <1>1, <1>5, <1>7, TypedWait DEF Pcs, GrantSteps
<1> QED
  BY <1>3, <1>6, <1>7

LEMMA TypedDelete ==
    ASSUME OutboxTyped, NEW w \in Workers, DeleteAsset(w)
    PROVE  OutboxTyped'
<1>1. work[w].pc # "idle" /\ UNCHANGED outbox
  BY DEF DeleteAsset, Busy
<1>2. grants' \subseteq Refs /\ (UNCHANGED faults \/ GoesWrong)
  BY DEF DeleteAsset, OutboxTyped
<1>3. Goto(w, "finish") \/ Goto(w, "retry")
  BY DEF DeleteAsset
<1> QED
  BY <1>1, <1>2, <1>3, TypedWait DEF Pcs, GrantSteps

\* A worker whose transaction ends, and with it the holder's part of the types.
LEMMA TypedAnswered ==
    ASSUME OutboxTyped, NEW w \in Workers, work[w].pc # "idle", NEW pc \in {"retry", "fail", "confirm"},
           Answered(w, pc) \/ RollsBack(w, pc),
           pc = "confirm" => work[w].key.kind = "publish",
           DOMAIN outbox \subseteq DOMAIN outbox',
           \A k \in DOMAIN outbox' : EventTyped(k, outbox'[k]),
           UNCHANGED grants
    PROVE  OutboxTyped'
<1>1. UNCHANGED faults \/ GoesWrong
  BY DEF Answered, RollsBack
<1>2. grants' \subseteq Refs
  BY DEF OutboxTyped
<1>3. CASE Release(w)
  BY <1>1, <1>2, <1>3, TypedRelease, TypedStep
<1>4. CASE Goto(w, pc)
  <2>1. pc \in Pcs \ {"revoke"} /\ pc # "complete" /\ (pc \in GrantSteps => pc = "confirm")
    BY DEF Pcs, GrantSteps
  <2>2. WorkerMoves(w) /\ HolderTyped(work'[w], DOMAIN outbox')
    BY <1>4, <2>1, TypedGoto
  <2> QED
    BY <1>1, <1>2, <2>2, TypedStep
<1> QED
  BY <1>3, <1>4 DEF Answered, RollsBack

LEMMA TypedComplete ==
    ASSUME OutboxTyped, NEW w \in Workers, Complete(w)
    PROVE  OutboxTyped'
<1>1. work[w].pc # "idle" /\ UNCHANGED grants
  BY DEF Complete, Busy
<1>2. work[w].key \in DOMAIN outbox
  BY <1>1, TypedHolder
<1>3. PICK pc \in {"retry", "fail"} : pc = AfterError(w)
  BY DEF AfterError
<1>4. /\ Answered(w, pc) \/ RollsBack(w, pc)
      /\ outbox' = Mark(outbox, work[w].key, "delivered") \/ UNCHANGED outbox
  BY <1>3 DEF Complete, RollsBack
<1>5. DOMAIN outbox' = DOMAIN outbox /\ \A k \in DOMAIN outbox' : EventTyped(k, outbox'[k])
  <2>1. CASE outbox' = Mark(outbox, work[w].key, "delivered")
    BY <1>2, <2>1, TypedMark DEF EventStatuses
  <2>2. CASE UNCHANGED outbox
    BY <2>2 DEF OutboxTyped
  <2> QED
    BY <1>4, <2>1, <2>2
<1> QED
  BY <1>1, <1>3, <1>4, <1>5, TypedAnswered

\* The steps of a worker at the rows of no entry.
LEMMA TypedOutboxStep ==
    ASSUME OutboxTyped, NEW w \in Workers, OutboxStep(w)
    PROVE  OutboxTyped'
BY TypedReopen, TypedAsk, TypedRevoke, TypedDelete, TypedComplete DEF OutboxStep

LEMMA TypedMoves ==
    ASSUME OutboxTyped, NEW w \in Workers, OutboxMoves(w)
    PROVE  OutboxTyped'
BY TypedClaim, TypedCrash, TypedOutboxStep, TypedCreate DEF OutboxMoves

\* A handler adds one event.
LEMMA TypedInsertOne ==
    ASSUME OutboxTyped, NEW k, NEW refs \in SUBSET Refs, outbox' = InsertOne(outbox, k, refs),
           k.kind \in RevokeKinds \cup {"publish", "delete"}, k.ver \in Versions,
           k.kind = "publish" => refs # {}
    PROVE  /\ DOMAIN outbox \subseteq DOMAIN outbox'
           /\ \A x \in DOMAIN outbox' : EventTyped(x, outbox'[x])
<1>1. EventTyped(k, Event(refs))
  <2>1. Event(refs) \in [status : EventStatuses, attempts : 0 .. MaxAttempts, refs : SUBSET Refs]
        /\ Event(refs).status = "pending" /\ Event(refs).refs = refs
    BY OutboxAssumption DEF Event, EventStatuses
  <2> QED
    BY <2>1 DEF EventTyped
<1>2. CASE k \in DOMAIN outbox
  BY <1>2 DEF InsertOne, OutboxTyped
<1>3. CASE k \notin DOMAIN outbox
  <2>1. /\ DOMAIN outbox' = DOMAIN outbox \cup {k} /\ outbox'[k] = Event(refs)
        /\ \A x \in DOMAIN outbox : outbox'[x] = outbox[x]
    BY <1>3 DEF InsertOne
  <2> QED
    BY <1>1, <2>1 DEF OutboxTyped
<1> QED
  BY <1>2, <1>3

\* The grants that are recorded and replaced.
GrantedRefs == {r \in Refs : r.grant # 0}

LEMMA GrantedVersion ==
    ASSUME NEW r \in GrantedRefs
    PROVE  r \in Refs /\ r.grant \in Versions /\ r.asset \in Versions /\ r.asset # 0
BY OutboxAssumption DEF GrantedRefs, Refs, Versions

\* Two ways of KeyOf: what is revoked and what is compensated.
LEMMA TypedRevocations ==
    ASSUME OutboxTyped, NEW box, NEW done \in SUBSET GrantedRefs,
           \A k \in DOMAIN box : EventTyped(k, box[k]),
           \/ outbox' = Insert(box, RevokeKey, done)
           \/ outbox' = Insert(box, CompensateKey, done)
    PROVE  /\ DOMAIN box \subseteq DOMAIN outbox'
           /\ \A k \in DOMAIN outbox' : EventTyped(k, outbox'[k])
<1>1. done \in SUBSET Refs /\ \A r \in done : r.grant \in Versions
  BY GrantedVersion
<1>2. CASE outbox' = Insert(box, RevokeKey, done)
  <2>1. PICK new : new = {RevokeKey(r) : r \in done} \ DOMAIN box
    OBVIOUS
  <2>2. outbox' = [x \in DOMAIN box \cup new |->
            IF x \in new THEN Event({r \in done : RevokeKey(r) = x}) ELSE box[x]]
    BY <1>2, <2>1 DEF Insert
  <2>3. ASSUME NEW x \in new
        PROVE  /\ x \notin DOMAIN box /\ \E s \in SUBSET Refs : outbox'[x] = Event(s)
               /\ x.kind \in RevokeKinds \cup {"delete"} /\ x.ver \in Versions
    <3>1. PICK s : s = {r \in done : RevokeKey(r) = x}
      OBVIOUS
    <3>2. outbox'[x] = Event(s) /\ s \in SUBSET Refs
      BY <1>1, <2>2, <3>1
    <3>3. PICK r \in done : x = RevokeKey(r)
      BY <2>1
    <3>4. x.kind = "revoke" /\ x.ver = r.grant
      BY <3>3 DEF RevokeKey, Key
    <3> QED
      BY <1>1, <2>1, <3>2, <3>4 DEF RevokeKinds
  <2>4. DOMAIN outbox' = DOMAIN box \cup new /\ \A k \in DOMAIN box : outbox'[k] = box[k]
    BY <2>1, <2>2
  <2>5. \A x \in new : /\ x \notin DOMAIN box /\ \E s \in SUBSET Refs : outbox'[x] = Event(s)
                       /\ x.kind \in RevokeKinds \cup {"delete"} /\ x.ver \in Versions
    BY <2>3
  <2> QED
    BY <2>4, <2>5, TypedInsert
<1>3. CASE outbox' = Insert(box, CompensateKey, done)
  <2>1. PICK new : new = {CompensateKey(r) : r \in done} \ DOMAIN box
    OBVIOUS
  <2>2. outbox' = [x \in DOMAIN box \cup new |->
            IF x \in new THEN Event({r \in done : CompensateKey(r) = x}) ELSE box[x]]
    BY <1>3, <2>1 DEF Insert
  <2>3. ASSUME NEW x \in new
        PROVE  /\ x \notin DOMAIN box /\ \E s \in SUBSET Refs : outbox'[x] = Event(s)
               /\ x.kind \in RevokeKinds \cup {"delete"} /\ x.ver \in Versions
    <3>1. PICK s : s = {r \in done : CompensateKey(r) = x}
      OBVIOUS
    <3>2. outbox'[x] = Event(s) /\ s \in SUBSET Refs
      BY <1>1, <2>2, <3>1
    <3>3. PICK r \in done : x = CompensateKey(r)
      BY <2>1
    <3>4. x.kind = "compensate" /\ x.ver = r.grant
      BY <3>3 DEF CompensateKey, Key
    <3> QED
      BY <1>1, <2>1, <3>2, <3>4 DEF RevokeKinds
  <2>4. DOMAIN outbox' = DOMAIN box \cup new /\ \A k \in DOMAIN box : outbox'[k] = box[k]
    BY <2>1, <2>2
  <2>5. \A x \in new : /\ x \notin DOMAIN box /\ \E s \in SUBSET Refs : outbox'[x] = Event(s)
                       /\ x.kind \in RevokeKinds \cup {"delete"} /\ x.ver \in Versions
    BY <2>3
  <2> QED
    BY <2>4, <2>5, TypedInsert
<1> QED
  BY <1>2, <1>3

\* A publication that failed, with what its worker has granted.
LEMMA TypedCompensation ==
    ASSUME OutboxTyped, NEW w \in Workers, work[w].pc = "compensate", UNCHANGED grants,
           \/ /\ outbox' = Insert(Mark(outbox, work[w].key, "failed"), CompensateKey, work[w].done)
              /\ Answered(w, "retry")
           \/ RollsBack(w, "retry")
    PROVE  OutboxTyped'
<1>1. PICK k, done : k = work[w].key /\ done = work[w].done
  OBVIOUS
<1>2. k \in DOMAIN outbox /\ HolderTyped(work[w], DOMAIN outbox)
  BY <1>1, TypedHolder
<1>3. done \in SUBSET GrantedRefs
  BY <1>1, <1>2 DEF HolderTyped, GrantSteps, GrantedRefs
<1>4. CASE outbox' = Insert(Mark(outbox, k, "failed"), CompensateKey, done) /\ Answered(w, "retry")
  <2>1. PICK box : box = Mark(outbox, k, "failed")
    OBVIOUS
  <2>2. DOMAIN box = DOMAIN outbox /\ \A x \in DOMAIN box : EventTyped(x, box[x])
    BY <1>2, <2>1, TypedMark DEF EventStatuses
  <2>3. outbox' = Insert(box, CompensateKey, done)
    BY <1>4, <2>1
  <2>4. /\ DOMAIN outbox \subseteq DOMAIN outbox'
        /\ \A x \in DOMAIN outbox' : EventTyped(x, outbox'[x])
    BY <1>3, <2>2, <2>3, TypedRevocations
  <2> QED
    BY <1>4, <2>4, TypedAnswered
<1>5. CASE RollsBack(w, "retry")
  <2>1. UNCHANGED outbox
    BY <1>5 DEF RollsBack
  <2> QED
    BY <1>5, <2>1, TypedAnswered DEF OutboxTyped
<1> QED
  BY <1>1, <1>4, <1>5

\* An event that ends without a publication.
LEMMA TypedFailure ==
    ASSUME OutboxTyped, NEW w \in Workers, Busy(w, "fail"),
           outbox' = Mark(outbox, work[w].key, "failed"), Release(w), UNCHANGED <<grants, faults>>
    PROVE  OutboxTyped'
<1>1. work[w].key \in DOMAIN outbox
  BY TypedHolder DEF Busy
<1>2. DOMAIN outbox' = DOMAIN outbox /\ \A x \in DOMAIN outbox' : EventTyped(x, outbox'[x])
  BY <1>1, TypedMark DEF EventStatuses
<1>3. WorkerMoves(w) /\ work'[w] = Idle
  BY TypedRelease
<1> QED
  BY <1>2, <1>3, TypedStep DEF OutboxTyped

----------------------------------------------------------------------------
(* The types of a news entry                                               *)

NewsStatuses == {"absent", "deleted", "draft", "published", "unpublished",
                 "unpublish_failed"} \cup InFlight

EntryTyped ==
    /\ DOMAIN entry = {"status", "ver", "cover", "pub"}
    /\ entry.status \in NewsStatuses
    /\ entry.ver \in 0 .. MaxVersion
    /\ entry.cover \in [Covers -> 0 .. MaxVersion]
    /\ \A i \in Covers : entry.pub[i] \in GrantedRefs \cup {NoCover(i)}

RevisionTyped ==
    /\ DOMAIN revision \subseteq Versions
    /\ \A v \in DOMAIN revision : revision[v] \in [Covers -> 0 .. MaxVersion]

NewsTyped == OutboxTyped /\ EntryTyped /\ RevisionTyped /\ proj.ver \in 0 .. MaxVersion

LEMMA TypedRevision ==
    ASSUME RevisionTyped, EntryTyped', entry'.ver # 0, InsertRevision
    PROVE  RevisionTyped'
<1>1. entry'.ver \in Versions /\ entry'.cover \in [Covers -> 0 .. MaxVersion]
  BY OutboxAssumption DEF EntryTyped, Versions
<1>2. PICK v, cover : v = entry'.ver /\ cover = entry'.cover
  OBVIOUS
<1>3. revision' = [x \in DOMAIN revision \cup {v} |-> IF x = v THEN cover ELSE revision[x]]
  BY <1>2 DEF InsertRevision
<1> QED
  BY <1>1, <1>2, <1>3 DEF RevisionTyped

LEMMA TypedAdvance ==
    ASSUME EntryTyped, MutableNews, NEW status \in NewsStatuses, Advance(status)
    PROVE  EntryTyped' /\ entry'.ver = entry.ver + 1 /\ entry'.ver \in Versions
<1>1. entry.ver + 1 \in Versions /\ entry.ver + 1 \in 0 .. MaxVersion
  BY OutboxAssumption DEF EntryTyped, MutableNews, Versions
<1>2. PICK ver : ver = entry.ver + 1
  OBVIOUS
<1>3. entry' = [entry EXCEPT !.status = status, !.ver = ver]
  BY <1>2 DEF Advance
<1>4. /\ DOMAIN entry' = {"status", "ver", "cover", "pub"} /\ entry'.status = status
      /\ entry'.ver = ver /\ entry'.cover = entry.cover /\ entry'.pub = entry.pub
  BY <1>3 DEF EntryTyped
<1> QED
  BY <1>1, <1>2, <1>4 DEF EntryTyped

LEMMA TypedDraft ==
    ASSUME NewsTyped, NEW cover \in [Covers -> 0 .. MaxVersion], WriteDraft(cover)
    PROVE  NewsTyped'
<1>1. PICK ver : ver = entry.ver + 1
  OBVIOUS
<1>2. ver \in 0 .. MaxVersion /\ ver # 0
  BY <1>1, OutboxAssumption DEF NewsTyped, EntryTyped, WriteDraft, MutableNews
<1>3. entry' = [entry EXCEPT !.status = "draft", !.ver = ver, !.cover = cover]
  BY <1>1 DEF WriteDraft
<1>4. /\ DOMAIN entry' = {"status", "ver", "cover", "pub"} /\ entry'.status = "draft"
      /\ entry'.ver = ver /\ entry'.cover = cover /\ entry'.pub = entry.pub
  BY <1>3 DEF NewsTyped, EntryTyped
<1>5. EntryTyped'
  BY <1>2, <1>4 DEF NewsTyped, EntryTyped, NewsStatuses
<1>6. RevisionTyped'
  BY <1>2, <1>4, <1>5, TypedRevision DEF NewsTyped, WriteDraft
<1>7. OutboxTyped'
  BY TypedEdit DEF NewsTyped, WriteDraft, outboxVars, OutboxTyped
<1> QED
  BY <1>5, <1>6, <1>7 DEF NewsTyped, WriteDraft

LEMMA TypedCreation ==
    ASSUME NewsTyped, CreateNews
    PROVE  NewsTyped'
<1>1. entry' = [NoEntry EXCEPT !.status = "draft", !.ver = 1]
  BY DEF CreateNews
<1>2. /\ DOMAIN entry' = {"status", "ver", "cover", "pub"} /\ entry'.status = "draft"
      /\ entry'.ver = 1 /\ entry'.cover = NoCovers /\ entry'.pub = NoPub
  BY <1>1 DEF NoEntry
<1>3. EntryTyped'
  BY <1>2, OutboxAssumption DEF EntryTyped, NoCovers, NoPub, NewsStatuses
<1>4. RevisionTyped'
  BY <1>2, <1>3, TypedRevision DEF NewsTyped, CreateNews
<1>5. OutboxTyped'
  BY TypedEdit DEF NewsTyped, CreateNews, outboxVars, OutboxTyped
<1> QED
  BY <1>3, <1>4, <1>5 DEF NewsTyped, CreateNews

LEMMA TypedNewsEdit ==
    ASSUME NewsTyped,
           CreateNews \/ (\E edit \in Edits : UpdateNews(edit)) \/ \E v \in Versions : RestoreNews(v)
    PROVE  NewsTyped'
<1>1. ASSUME NEW edit \in Edits, UpdateNews(edit)
      PROVE  NewsTyped'
  <2>1. PICK cover : cover = [i \in Covers |-> CASE edit[i] = "keep"  -> entry.cover[i]
                                                 [] edit[i] = "new"   -> entry.ver + 1
                                                 [] edit[i] = "clear" -> 0]
    OBVIOUS
  <2>2. WriteDraft(cover)
    BY <1>1, <2>1 DEF UpdateNews
  <2>3. entry.ver + 1 \in 0 .. MaxVersion /\ 0 \in 0 .. MaxVersion
    BY <2>2, OutboxAssumption DEF NewsTyped, EntryTyped, WriteDraft, MutableNews
  <2>4. ASSUME NEW i \in Covers
        PROVE  cover[i] \in 0 .. MaxVersion
    <3>1. edit[i] \in {"keep", "new", "clear"}
      BY EditsAssumption
    <3>2. entry.cover[i] \in 0 .. MaxVersion
      BY DEF NewsTyped, EntryTyped
    <3> QED
      BY <2>1, <2>3, <3>1, <3>2
  <2>5. cover \in [Covers -> 0 .. MaxVersion]
    BY <2>1, <2>4
  <2> QED
    BY <2>2, <2>5, TypedDraft
<1>2. ASSUME NEW v \in Versions, RestoreNews(v)
      PROVE  NewsTyped'
  <2>1. revision[v] \in [Covers -> 0 .. MaxVersion]
    BY <1>2 DEF RestoreNews, NewsTyped, RevisionTyped
  <2> QED
    BY <1>2, <2>1, TypedDraft DEF RestoreNews
<1> QED
  BY <1>1, <1>2, TypedCreation

LEMMA TypedStart ==
    ASSUME NewsTyped, StartPublish
    PROVE  NewsTyped'
<1>1. EntryTyped' /\ entry'.ver = entry.ver + 1 /\ entry'.ver \in Versions
  BY TypedAdvance DEF NewsTyped, StartPublish, NewsStatuses, InFlight
<1>2. RevisionTyped'
  <2>1. entry'.ver # 0
    BY <1>1, OutboxAssumption DEF Versions
  <2> QED
    BY <1>1, <2>1, TypedRevision DEF NewsTyped, StartPublish
<1>3. PICK k, refs : /\ k = PublishKey(entry.ver + 1)
                     /\ refs = {Ref(i, entry.cover[i], 0) : i \in {j \in Covers : entry.cover[j] # 0}}
  OBVIOUS
<1>4. outbox' = InsertOne(outbox, k, refs) /\ UNCHANGED <<proj, work, grants, faults>>
  BY <1>3 DEF StartPublish
<1>5. refs \in SUBSET Refs
  <2> SUFFICES ASSUME NEW i \in Covers, entry.cover[i] # 0
               PROVE  Ref(i, entry.cover[i], 0) \in Refs
    BY <1>3
  <2>1. entry.cover[i] \in Versions /\ i \in Images /\ 0 \in 0 .. MaxVersion
    BY OutboxAssumption DEF NewsTyped, EntryTyped, Versions, Covers, Images
  <2> QED
    BY <2>1 DEF Ref, Refs
<1>6. refs # {}
  <2>1. Detail \in Covers /\ entry.cover[Detail] # 0
    BY DEF StartPublish, Covers
  <2> QED
    BY <1>3, <2>1
<1>7. k.kind = "publish" /\ k.ver \in Versions
  BY <1>1, <1>3 DEF PublishKey, Key
<1>8. /\ DOMAIN outbox \subseteq DOMAIN outbox'
      /\ \A x \in DOMAIN outbox' : EventTyped(x, outbox'[x])
  BY <1>4, <1>5, <1>6, <1>7, TypedInsertOne DEF NewsTyped
<1> QED
  BY <1>1, <1>2, <1>4, <1>8, TypedEdit DEF NewsTyped

LEMMA TypedWithdrawal ==
    ASSUME NewsTyped, StartUnpublish
    PROVE  NewsTyped'
<1>1. EntryTyped' /\ entry'.ver = entry.ver + 1 /\ entry'.ver \in Versions
  BY TypedAdvance DEF NewsTyped, StartUnpublish, NewsStatuses, InFlight
<1>2. PICK k, refs : k = UnpublishKey(entry.ver + 1) /\ refs = PublishedAssets
  OBVIOUS
<1>3. outbox' = InsertOne(outbox, k, refs) /\ UNCHANGED <<revision, work, grants, faults>>
  BY <1>2 DEF StartUnpublish
<1>4. refs \in SUBSET Refs
  BY <1>2 DEF PublishedAssets, NewsTyped, EntryTyped, GrantedRefs, NoCover, Ref
<1>5. k.kind = "unpublish" /\ k.ver \in Versions
  BY <1>1, <1>2 DEF UnpublishKey, Key
<1>6. /\ DOMAIN outbox \subseteq DOMAIN outbox'
      /\ \A x \in DOMAIN outbox' : EventTyped(x, outbox'[x])
  BY <1>3, <1>4, <1>5, TypedInsertOne DEF NewsTyped, RevokeKinds
<1>7. proj'.ver \in 0 .. MaxVersion
  BY OutboxAssumption DEF StartUnpublish, NoProj
<1>8. RevisionTyped'
  BY <1>3 DEF NewsTyped, RevisionTyped
<1> QED
  BY <1>1, <1>3, <1>6, <1>7, <1>8, TypedEdit DEF NewsTyped

LEMMA TypedDeletion ==
    ASSUME NewsTyped, DeleteNews
    PROVE  NewsTyped'
<1>1. PICK S : S = {r \in AssetIDs : r.asset # 0}
  OBVIOUS
<1>2. PICK new : new = {DeleteKey(r) : r \in S} \ DOMAIN outbox
  OBVIOUS
<1>3. outbox' = [x \in DOMAIN outbox \cup new |->
            IF x \in new THEN Event({r \in S : DeleteKey(r) = x}) ELSE outbox[x]]
  BY <1>1, <1>2 DEF DeleteNews, Insert
<1>4. ASSUME NEW r \in S
      PROVE  r \in Refs /\ r.asset \in Versions
  <2>1. PICK i \in Covers, c \in {entry.cover} \cup {revision[v] : v \in DOMAIN revision} :
            r = Ref(i, c[i], 0)
    BY <1>1 DEF AssetIDs
  <2>2. c[i] \in 0 .. MaxVersion
    BY DEF NewsTyped, EntryTyped, RevisionTyped
  <2>3. c[i] # 0
    BY <1>1, <2>1 DEF Ref
  <2>4. c[i] \in Versions /\ i \in Images /\ 0 \in 0 .. MaxVersion
    BY <2>2, <2>3, OutboxAssumption DEF Versions, Covers, Images
  <2> QED
    BY <2>1, <2>4 DEF Ref, Refs
<1>5. \A x \in new : /\ x \notin DOMAIN outbox /\ \E s \in SUBSET Refs : outbox'[x] = Event(s)
                     /\ x.kind \in RevokeKinds \cup {"delete"} /\ x.ver \in Versions
  <2> SUFFICES ASSUME NEW x \in new
               PROVE  /\ x \notin DOMAIN outbox /\ \E s \in SUBSET Refs : outbox'[x] = Event(s)
                      /\ x.kind \in RevokeKinds \cup {"delete"} /\ x.ver \in Versions
    OBVIOUS
  <2>1. PICK s : s = {r \in S : DeleteKey(r) = x}
    OBVIOUS
  <2>2. outbox'[x] = Event(s) /\ s \in SUBSET Refs
    BY <1>3, <1>4, <2>1
  <2>3. PICK r \in S : x = DeleteKey(r)
    BY <1>2
  <2>4. x.kind = "delete" /\ x.ver = r.asset
    BY <2>3 DEF DeleteKey, Key
  <2> QED
    BY <1>2, <1>4, <2>2, <2>4
<1>6. DOMAIN outbox' = DOMAIN outbox \cup new /\ \A k \in DOMAIN outbox : outbox'[k] = outbox[k]
  BY <1>2, <1>3
<1>7. /\ DOMAIN outbox \subseteq DOMAIN outbox'
      /\ \A x \in DOMAIN outbox' : EventTyped(x, outbox'[x])
  BY <1>5, <1>6, TypedInsert DEF NewsTyped, OutboxTyped
<1>8. entry' = [NoEntry EXCEPT !.status = "deleted"]
  BY DEF DeleteNews
<1>9. /\ DOMAIN entry' = {"status", "ver", "cover", "pub"} /\ entry'.status = "deleted"
      /\ entry'.ver = 0 /\ entry'.cover = NoCovers /\ entry'.pub = NoPub
  BY <1>8 DEF NoEntry
<1>10. EntryTyped' /\ RevisionTyped'
  BY <1>9, OutboxAssumption DEF EntryTyped, RevisionTyped, NoCovers, NoPub, NewsStatuses,
                                DeleteNews
<1> QED
  BY <1>7, <1>10, TypedEdit DEF NewsTyped, DeleteNews

\* A failure changes no more than the status of the entry.
LEMMA TypedFailedEntry ==
    ASSUME EntryTyped, NEW k, entry' = FailEntry(k)
    PROVE  EntryTyped'
<1>1. PICK status \in NewsStatuses : entry' = entry \/ entry' = [entry EXCEPT !.status = status]
  BY DEF FailEntry, NewsStatuses
<1>2. CASE entry' = [entry EXCEPT !.status = status]
  BY <1>2 DEF EntryTyped
<1> QED
  BY <1>1, <1>2 DEF EntryTyped

LEMMA TypedNewsFailure ==
    ASSUME NewsTyped, NEW w \in Workers, FailNews(w) \/ FailNewsPublish(w)
    PROVE  NewsTyped'
<1>1. OutboxTyped'
  <2>1. CASE FailNews(w)
    BY <2>1, TypedFailure DEF FailNews, NewsTyped
  <2>2. CASE FailNewsPublish(w)
    BY <2>2, TypedCompensation DEF FailNewsPublish, NewsTyped, Busy
  <2> QED
    BY <2>1, <2>2
<1>2. UNCHANGED <<revision, proj>> /\ (entry' = FailEntry(work[w].key) \/ entry' = entry)
  BY DEF FailNews, FailNewsPublish, newsRows
<1>3. EntryTyped'
  BY <1>2, TypedFailedEntry DEF NewsTyped, EntryTyped
<1> QED
  BY <1>1, <1>2, <1>3 DEF NewsTyped, RevisionTyped

\* The grants a publication replaces are recorded ones.
LEMMA TypedReplacement ==
    ASSUME NewsTyped, NEW k \in DOMAIN outbox, k.kind = "publish", NEW refs \in SUBSET GrantedRefs,
           PublishEntry(k, refs)
    PROVE  /\ EntryTyped' /\ proj'.ver \in 0 .. MaxVersion
           /\ DOMAIN outbox \subseteq DOMAIN outbox'
           /\ \A x \in DOMAIN outbox' : EventTyped(x, outbox'[x])
<1>1. PICK box, S, pub :
         /\ box = Mark(outbox, k, "delivered") /\ S = Replaced(refs)
         /\ pub = [i \in Covers |-> IF \E r \in refs : r.image = i
                                    THEN CHOOSE r \in refs : r.image = i ELSE NoCover(i)]
  OBVIOUS
<1>2. DOMAIN box = DOMAIN outbox /\ \A x \in DOMAIN box : EventTyped(x, box[x])
  BY <1>1, TypedMark DEF NewsTyped, EventStatuses
<1>3. S \in SUBSET GrantedRefs
  BY <1>1 DEF Replaced, NewsTyped, EntryTyped, NoCover, Ref
<1>4. outbox' = Insert(box, RevokeKey, S)
  BY <1>1 DEF PublishEntry
<1>5. /\ DOMAIN box \subseteq DOMAIN outbox'
      /\ \A x \in DOMAIN outbox' : EventTyped(x, outbox'[x])
  BY <1>2, <1>3, <1>4, TypedRevocations DEF NewsTyped
<1>6. ASSUME NEW i \in Covers
      PROVE  pub[i] \in GrantedRefs \cup {NoCover(i)}
  BY <1>1
<1>7. entry' = [entry EXCEPT !.status = "published", !.pub = pub]
  BY <1>1 DEF PublishEntry
<1>8. /\ DOMAIN entry' = {"status", "ver", "cover", "pub"} /\ entry'.status = "published"
      /\ entry'.ver = entry.ver /\ entry'.cover = entry.cover /\ entry'.pub = pub
  BY <1>7 DEF NewsTyped, EntryTyped
<1>9. EntryTyped'
  BY <1>6, <1>8 DEF NewsTyped, EntryTyped, NewsStatuses
<1>10. proj'.ver \in 0 .. MaxVersion
  <2>1. proj'.ver = k.ver /\ EventTyped(k, outbox[k])
    BY DEF PublishEntry, NewsTyped, OutboxTyped
  <2> QED
    BY <2>1, OutboxAssumption DEF EventTyped, Versions
<1> QED
  BY <1>2, <1>5, <1>9, <1>10

LEMMA TypedPublication ==
    ASSUME NewsTyped, NEW w \in Workers, CompleteContentPublish(w)
    PROVE  NewsTyped'
<1>1. work[w].pc = "complete" /\ work[w].pc # "idle" /\ UNCHANGED grants
  BY DEF CompleteContentPublish, Busy
<1>2. PICK k, done : k = work[w].key /\ done = work[w].done
  OBVIOUS
<1>3. OutboxTyped /\ HolderTyped(work[w], DOMAIN outbox) /\ k \in DOMAIN outbox
  BY <1>1, <1>2, TypedHolder DEF NewsTyped
<1>4. k.kind = "publish" /\ done \in SUBSET GrantedRefs
  BY <1>1, <1>2, <1>3 DEF HolderTyped, GrantSteps, GrantedRefs
<1>5. PICK pc \in {"retry", "confirm"} : pc = AfterPublishError(w)
  BY DEF AfterPublishError
<1>6. \/ /\ Release(w) \/ Goto(w, "compensate")
         /\ UNCHANGED <<newsRows, outbox, faults>>
      \/ PublishEntry(k, done) /\ Answered(w, pc) /\ UNCHANGED revision
      \/ RollsBack(w, pc) /\ UNCHANGED newsRows
  BY <1>2, <1>5 DEF CompleteContentPublish
<1>7. CASE (Release(w) \/ Goto(w, "compensate")) /\ UNCHANGED <<newsRows, outbox, faults>>
  <2>1. grants' \subseteq Refs
    BY <1>1, <1>3 DEF OutboxTyped
  <2>2. OutboxTyped'
    BY <1>1, <1>2, <1>3, <1>4, <1>7, <2>1, TypedWait DEF Pcs
  <2> QED
    BY <1>7, <2>2 DEF NewsTyped, EntryTyped, RevisionTyped, newsRows
<1>8. CASE PublishEntry(k, done) /\ Answered(w, pc) /\ UNCHANGED revision
  <2>1. /\ EntryTyped' /\ proj'.ver \in 0 .. MaxVersion
        /\ DOMAIN outbox \subseteq DOMAIN outbox'
        /\ \A x \in DOMAIN outbox' : EventTyped(x, outbox'[x])
    BY <1>3, <1>4, <1>8, TypedReplacement
  <2>2. OutboxTyped'
    BY <1>1, <1>2, <1>3, <1>4, <1>8, <2>1, TypedAnswered
  <2> QED
    BY <1>8, <2>1, <2>2 DEF NewsTyped, RevisionTyped
<1>9. CASE RollsBack(w, pc) /\ UNCHANGED newsRows
  <2>1. UNCHANGED outbox
    BY <1>9 DEF RollsBack
  <2>2. OutboxTyped'
    BY <1>1, <1>2, <1>3, <1>4, <1>9, <2>1, TypedAnswered DEF OutboxTyped
  <2> QED
    BY <1>9, <2>2 DEF NewsTyped, EntryTyped, RevisionTyped, newsRows
<1> QED
  BY <1>6, <1>7, <1>8, <1>9

LEMMA TypedUnpublication ==
    ASSUME NewsTyped, NEW w \in Workers, CompleteContentUnpublish(w)
    PROVE  NewsTyped'
<1>1. work[w].pc # "idle" /\ UNCHANGED <<revision, proj, grants>>
  BY DEF CompleteContentUnpublish, Busy
<1>2. PICK k : k = work[w].key
  OBVIOUS
<1>3. OutboxTyped /\ k \in DOMAIN outbox
  BY <1>1, <1>2, TypedHolder DEF NewsTyped
<1>4. PICK pc \in {"retry", "fail"} : pc = AfterError(w)
  BY DEF AfterError
<1>5. \/ (Release(w) \/ Goto(w, pc)) /\ UNCHANGED <<entry, outbox, faults>>
      \/ /\ entry' = [entry EXCEPT !.status = "unpublished", !.pub = NoPub]
         /\ outbox' = Mark(outbox, k, "delivered")
         /\ Answered(w, pc)
      \/ RollsBack(w, pc) /\ UNCHANGED entry
  BY <1>2, <1>4 DEF CompleteContentUnpublish
<1>6. CASE entry' = entry
  <2>1. OutboxTyped'
    <3>1. CASE (Release(w) \/ Goto(w, pc)) /\ UNCHANGED <<outbox, faults>>
      <4>1. grants' \subseteq Refs
        BY <1>1, <1>3 DEF OutboxTyped
      <4>2. pc \in Pcs \ {"revoke"} /\ pc \notin GrantSteps /\ pc # "complete"
        BY DEF Pcs, GrantSteps
      <4> QED
        BY <1>1, <1>3, <3>1, <4>1, <4>2, TypedWait
    <3>2. CASE outbox' = Mark(outbox, k, "delivered") /\ Answered(w, pc)
      <4>1. DOMAIN outbox' = DOMAIN outbox /\ \A x \in DOMAIN outbox' : EventTyped(x, outbox'[x])
        BY <1>3, <3>2, TypedMark DEF EventStatuses
      <4> QED
        BY <1>1, <1>3, <3>2, <4>1, TypedAnswered
    <3>3. CASE RollsBack(w, pc)
      <4>1. UNCHANGED outbox
        BY <3>3 DEF RollsBack
      <4> QED
        BY <1>1, <1>3, <3>3, <4>1, TypedAnswered DEF OutboxTyped
    <3> QED
      BY <1>5, <3>1, <3>2, <3>3
  <2> QED
    BY <1>1, <1>6, <2>1 DEF NewsTyped, EntryTyped, RevisionTyped
<1>7. CASE /\ entry' = [entry EXCEPT !.status = "unpublished", !.pub = NoPub]
           /\ outbox' = Mark(outbox, k, "delivered") /\ Answered(w, pc)
  <2>1. DOMAIN outbox' = DOMAIN outbox /\ \A x \in DOMAIN outbox' : EventTyped(x, outbox'[x])
    BY <1>3, <1>7, TypedMark DEF EventStatuses
  <2>2. OutboxTyped'
    BY <1>1, <1>3, <1>7, <2>1, TypedAnswered
  <2>3. /\ DOMAIN entry' = {"status", "ver", "cover", "pub"} /\ entry'.status = "unpublished"
        /\ entry'.ver = entry.ver /\ entry'.cover = entry.cover /\ entry'.pub = NoPub
    BY <1>7 DEF NewsTyped, EntryTyped
  <2>4. EntryTyped'
    BY <2>3 DEF NewsTyped, EntryTyped, NewsStatuses, NoPub
  <2> QED
    BY <1>1, <2>2, <2>4 DEF NewsTyped, RevisionTyped
<1> QED
  BY <1>5, <1>6, <1>7

LEMMA TypedNews ==
    ASSUME NewsTyped, NewsNext \/ UNCHANGED newsVars
    PROVE  NewsTyped'
<1>1. ASSUME OutboxTyped', UNCHANGED newsRows
      PROVE  NewsTyped'
  BY <1>1 DEF NewsTyped, EntryTyped, RevisionTyped, newsRows
<1>2. ASSUME NEW w \in Workers, OutboxMoves(w), UNCHANGED newsRows
      PROVE  NewsTyped'
  BY <1>1, <1>2, TypedMoves DEF NewsTyped
<1>3. ASSUME NEW w \in Workers, NewsWorker(w)
      PROVE  NewsTyped'
  BY <1>2, <1>3, TypedPublication, TypedNewsFailure, TypedUnpublication
     DEF NewsWorker, OutboxMoves, AfterPublishError
<1>4. CASE UNCHANGED newsVars
  <2>1. OutboxTyped'
    BY <1>4, TypedEdit DEF NewsTyped, newsVars, outboxVars, OutboxTyped
  <2> QED
    BY <1>1, <1>4, <2>1 DEF newsVars
<1> QED
  BY <1>2, <1>3, <1>4, TypedNewsEdit, TypedStart, TypedWithdrawal, TypedDeletion
     DEF NewsNext, OutboxMoves

LEMMA TypedOutboxInit ==
    ASSUME OutboxInit
    PROVE  OutboxTyped
<1>1. outbox = [k \in {} |-> Event({})] /\ grants = {} /\ work = [w \in Workers |-> Idle]
  BY DEF OutboxInit
<1>2. DOMAIN outbox = {} /\ DOMAIN work = Workers /\ \A w \in Workers : work[w] = Idle
  BY <1>1
<1>3. faults = [count |-> 0, lost |-> FALSE, stray |-> {}] /\ 0 \in 0 .. MaxFaults
  BY OutboxAssumption DEF OutboxInit
<1>4. faults \in [count : 0 .. MaxFaults, lost : BOOLEAN, stray : SUBSET Refs]
  BY <1>3
<1> QED
  BY <1>1, <1>2, <1>4 DEF OutboxTyped

LEMMA InitNewsTyped == NewsInit => NewsTyped
<1> SUFFICES ASSUME NewsInit
             PROVE  NewsTyped
  OBVIOUS
<1>1. OutboxTyped
  BY TypedOutboxInit DEF NewsInit
<1>2. entry = NoEntry /\ proj = NoProj /\ DOMAIN revision = {}
  BY DEF NewsInit
<1>3. EntryTyped
  BY <1>2, OutboxAssumption DEF EntryTyped, NoEntry, NoCovers, NoPub, NewsStatuses
<1> QED
  BY <1>1, <1>2, <1>3, OutboxAssumption DEF NewsTyped, RevisionTyped, NoProj

\* All variables of a news entry keep the values of their columns, also when a
\* worker loses its lease.  It takes what the worker does: that it publishes
\* under grants it asked for, so that a grant that is recorded, replaced or
\* compensated has the version its revocation is keyed by.
THEOREM NewsTypesHold == NewsSpec => []NewsTypeOK
<1>1. NewsTyped /\ [NewsNext]_newsVars => NewsTyped'
  BY TypedNews
<1>2. NewsTyped => NewsTypeOK
  BY TypedOutbox
     DEF NewsTyped, EntryTyped, RevisionTyped, NewsTypeOK, NewsStatuses, GrantedRefs
<1> QED
  BY <1>1, <1>2, InitNewsTyped, PTL DEF NewsSpec

----------------------------------------------------------------------------
(***************************************************************************)
(* A news entry implements the lifecycle of an edition                     *)
(* (NewsPublishesAsPromised), with lost leases as well.  The entry is the  *)
(* one edition there is, so that every transaction is read off two values, *)
(* its row and what readers see.                                           *)
(***************************************************************************)

\* An entry that was never published, or was withdrawn, has no projection, and
\* one that exists has a version, so that its projection is none of version 0.
Unseen == {"absent", "deleted", "unpublishing", "unpublished", "unpublish_failed"}

ShownOK ==
    /\ entry.status \in Unseen => proj = NoProj
    /\ entry.status \notin {"absent", "deleted"} => entry.ver # 0

\* The status moves, the covers stay.
Moves(from, to) ==
    entry.status = from /\ entry'.status = to
    /\ entry'.cover = entry.cover /\ entry'.ver # 0

\* What a transaction does to the row and to the projection.
Drafted ==
    /\ entry.status \notin {"deleted"} \cup InFlight
    /\ entry'.status = "draft" /\ entry'.ver # 0
    /\ proj' = proj

Requested ==
    /\ entry.status \notin {"absent", "deleted"} \cup InFlight
    /\ Moves(entry.status, "publishing")
    /\ proj' = proj

Withdrawn ==
    /\ entry.status \notin InFlight /\ proj # NoProj /\ proj' = NoProj
    /\ Moves(entry.status, "unpublishing")

Removed ==
    /\ entry.status \notin InFlight /\ proj = NoProj /\ proj' = NoProj
    /\ entry'.status = "deleted" /\ entry'.cover = NoCovers

Completed ==
    /\ Moves("publishing", "published")
    /\ proj' = [ver |-> entry.ver, cover |-> entry.cover]

Ended ==
    /\ \/ Moves("publishing", "draft")
       \/ Moves("unpublishing", "unpublished") \/ Moves("unpublishing", "unpublish_failed")
    /\ proj' = proj

NewsChanges ==
    \/ Drafted \/ Requested \/ Withdrawn \/ Removed \/ Completed \/ Ended
    \/ UNCHANGED <<entry, proj>>

LEMMA DraftChanges ==
    ASSUME NewsTyped, CreateNews \/ \E cover : WriteDraft(cover)
    PROVE  Drafted
<1>1. CASE CreateNews
  BY <1>1 DEF CreateNews, NoEntry, Drafted, InFlight
<1>2. CASE \E cover : WriteDraft(cover)
  <2>1. entry.ver + 1 # 0
    BY OutboxAssumption DEF NewsTyped, EntryTyped
  <2> QED
    BY <1>2, <2>1 DEF WriteDraft, MutableNews, Drafted, NewsTyped, EntryTyped
<1> QED
  BY <1>1, <1>2

LEMMA EditorChanges ==
    ASSUME NewsTyped, StartPublish \/ StartUnpublish \/ DeleteNews
    PROVE  Requested \/ Withdrawn \/ Removed
<1>1. entry.ver + 1 # 0
  BY OutboxAssumption DEF NewsTyped, EntryTyped
<1>2. CASE StartPublish
  BY <1>1, <1>2 DEF StartPublish, MutableNews, Advance, Requested, Moves, NewsTyped, EntryTyped
<1>3. CASE StartUnpublish
  BY <1>1, <1>3 DEF StartUnpublish, MutableNews, Advance, Withdrawn, Moves, NewsTyped, EntryTyped
<1>4. CASE DeleteNews
  <2>1. proj = NoProj /\ proj' = proj
    BY <1>4 DEF DeleteNews, NewsIsPublic
  <2>2. entry' = [NoEntry EXCEPT !.status = "deleted"]
    BY <1>4 DEF DeleteNews
  <2>3. entry'.status = "deleted" /\ entry'.cover = NoCovers
    BY <2>2 DEF NoEntry
  <2> QED
    BY <1>4, <2>1, <2>3 DEF DeleteNews, Removed, InFlight
<1> QED
  BY <1>2, <1>3, <1>4

LEMMA FailureChanges ==
    ASSUME NewsTyped, ShownOK, NEW k, entry' = FailEntry(k), proj' = proj
    PROVE  Ended \/ UNCHANGED <<entry, proj>>
<1>1. CASE ~(k.kind \in {"publish", "unpublish"} /\ CurrentNews(k))
  BY <1>1 DEF FailEntry
<1>2. CASE k.kind \in {"publish", "unpublish"} /\ CurrentNews(k)
  <2>1. entry.status = IF k.kind = "publish" THEN "publishing" ELSE "unpublishing"
    BY <1>2 DEF CurrentNews, Expected
  <2>2. entry' = [entry EXCEPT !.status = IF k.kind = "publish" THEN "draft"
                                                               ELSE "unpublish_failed"]
    BY <1>2 DEF FailEntry
  <2>3. entry.ver # 0
    BY <2>1 DEF ShownOK
  <2> QED
    BY <2>1, <2>2, <2>3 DEF Ended, Moves, NewsTyped, EntryTyped
<1> QED
  BY <1>1, <1>2

LEMMA CompletionChanges ==
    ASSUME NewsTyped, ShownOK, NEW w \in Workers, CompleteContentPublish(w)
    PROVE  Completed \/ UNCHANGED <<entry, proj>>
<1>1. PICK k, done : k = work[w].key /\ done = work[w].done
  OBVIOUS
<1>2. \/ UNCHANGED newsRows
      \/ CurrentNews(k) /\ PublishEntry(k, done)
  BY <1>1 DEF CompleteContentPublish
<1>3. work[w].pc # "idle" /\ work[w].pc \in {"complete"}
  BY DEF CompleteContentPublish, Busy
<1>4. HolderTyped(work[w], DOMAIN outbox)
  BY <1>3, TypedHolder DEF NewsTyped
<1>5. k.kind = "publish"
  BY <1>1, <1>3, <1>4 DEF HolderTyped, GrantSteps
<1>6. CASE CurrentNews(k) /\ PublishEntry(k, done)
  <2>1. entry.status = "publishing" /\ entry.ver = k.ver /\ entry.ver # 0
    BY <1>5, <1>6 DEF CurrentNews, Expected, ShownOK
  <2>2. proj' = [ver |-> entry.ver, cover |-> entry.cover]
    BY <1>6, <2>1 DEF PublishEntry
  <2>3. entry'.status = "published" /\ entry'.cover = entry.cover /\ entry'.ver = entry.ver
    BY <1>6 DEF PublishEntry, NewsTyped, EntryTyped
  <2> QED
    BY <2>1, <2>2, <2>3 DEF Completed, Moves
<1> QED
  BY <1>2, <1>6 DEF newsRows

LEMMA WithdrawalChanges ==
    ASSUME NewsTyped, ShownOK, NEW w \in Workers, CompleteContentUnpublish(w)
    PROVE  Ended \/ UNCHANGED <<entry, proj>>
<1>1. PICK k : k = work[w].key
  OBVIOUS
<1>2. k.kind = "unpublish" /\ proj' = proj
  BY <1>1 DEF CompleteContentUnpublish
<1>3. \/ UNCHANGED entry
      \/ CurrentNews(k) /\ entry' = [entry EXCEPT !.status = "unpublished", !.pub = NoPub]
  BY <1>1 DEF CompleteContentUnpublish
<1>4. CASE CurrentNews(k) /\ entry' = [entry EXCEPT !.status = "unpublished", !.pub = NoPub]
  <2>1. entry.status = "unpublishing" /\ entry.ver # 0
    BY <1>2, <1>4 DEF CurrentNews, Expected, ShownOK
  <2>2. entry'.status = "unpublished" /\ entry'.cover = entry.cover /\ entry'.ver = entry.ver
    BY <1>4 DEF NewsTyped, EntryTyped
  <2> QED
    BY <1>2, <2>1, <2>2 DEF Ended, Moves
<1> QED
  BY <1>2, <1>3, <1>4

LEMMA NewsStepChanges ==
    ASSUME NewsTyped, ShownOK, NewsNext \/ UNCHANGED newsVars
    PROVE  NewsChanges
<1>1. ASSUME NEW w \in Workers, NewsWorker(w)
      PROVE  NewsChanges
  <2>1. CASE UNCHANGED newsRows
    BY <2>1 DEF newsRows, NewsChanges
  <2>2. CASE FailNews(w)
    BY <2>2, FailureChanges DEF FailNews, NewsChanges
  <2>3. CASE FailNewsPublish(w)
    BY <2>3, FailureChanges DEF FailNewsPublish, NewsChanges, newsRows
  <2> QED
    BY <1>1, <2>1, <2>2, <2>3, CompletionChanges, WithdrawalChanges DEF NewsWorker, NewsChanges
<1>2. CASE UNCHANGED newsRows
  BY <1>2 DEF newsRows, NewsChanges
<1>3. CASE CreateNews \/ \E cover : WriteDraft(cover)
  BY <1>3, DraftChanges DEF NewsChanges
<1>4. CASE StartPublish \/ StartUnpublish \/ DeleteNews
  BY <1>4, EditorChanges DEF NewsChanges
<1> QED
  BY <1>1, <1>2, <1>3, <1>4 DEF NewsNext, UpdateNews, RestoreNews, newsVars

LEMMA ShownKept ==
    ASSUME ShownOK, NewsChanges
    PROVE  ShownOK'
<1>1. CASE UNCHANGED <<entry, proj>>
  BY <1>1 DEF ShownOK
<1> QED
  BY <1>1 DEF NewsChanges, ShownOK, Unseen, Moves, Drafted, Requested, Withdrawn, Removed,
     Completed, Ended, InFlight

----------------------------------------------------------------------------
(* The steps of the lifecycle                                              *)

LEMMA EntryRowIs ==
    /\ EntryRow.phase = (IF entry.status = "deleted" THEN "absent" ELSE entry.status)
    /\ EntryRow.asset = entry.cover
BY DEF EntryRow

LEMMA AloneAt == ASSUME NEW x PROVE Alone(x)[Only][Only] = x
BY DEF Alone

\* Only the phase of the edition moves.
LEMMA OnlyMoves ==
    ASSUME NEW s, NEW t, Moves(s, t), t # "deleted"
    PROVE  Lifecycle!Moves(Only, Only, t)
<1>1. EntryRow' = [EntryRow EXCEPT !.phase = t]
  BY DEF EntryRow, Moves
<1>2. PICK x, y : x = EntryRow /\ y = EntryRow'
  OBVIOUS
<1>3. Alone(y) = [Alone(x) EXCEPT ![Only][Only].phase = t]
  BY <1>1, <1>2 DEF Alone
<1>4. Alone(EntryRow)' = Alone(y) /\ Alone(EntryRow) = Alone(x)
  BY <1>2 DEF Alone
<1> QED
  BY <1>3, <1>4 DEF Lifecycle!Moves

LEMMA OnlyShows ==
    ASSUME NEW S, EntryShown' = S
    PROVE  Lifecycle!Shows(Only, Only, S)
<1>1. Alone(EntryShown)' = [Alone(EntryShown) EXCEPT ![Only][Only] = S]
  BY DEF Alone
<1> QED
  BY <1>1 DEF Lifecycle!Shows

LEMMA OnlyKeeps ==
    ASSUME proj' = proj
    PROVE  Alone(EntryShown)' = Alone(EntryShown)
BY DEF Alone, EntryShown

LEMMA OnlyEdits ==
    ASSUME proj' = proj, entry.status \notin InFlight,
           \/ entry'.status = "draft"
           \/ entry'.status = "deleted" /\ entry'.cover = NoCovers /\ proj = NoProj
    PROVE  Lifecycle!Edit(Only)
<1>1. \A l \in {Only} : Alone(EntryRow)[Only][l].phase \notin Lifecycle!InFlight
  BY AloneAt, EntryRowIs DEF InFlight, Lifecycle!InFlight
<1>2. \/ EntryRow'.phase = "draft"
      \/ EntryRow' = Lifecycle!NoEdition /\ EntryShown = {}
  BY DEF EntryRow, EntryShown, Lifecycle!NoEdition
<1>3. Lifecycle!Edited(EntryRow, EntryRow', EntryShown)
  BY <1>2 DEF Lifecycle!Edited
<1>4. /\ Alone(EntryRow)[Only][Only] = EntryRow /\ Alone(EntryRow)'[Only][Only] = EntryRow'
      /\ Alone(EntryShown)[Only][Only] = EntryShown
  BY DEF Alone
<1> QED
  BY <1>1, <1>3, <1>4, OnlyKeeps DEF Lifecycle!Edit

LEMMA NewsChangesPromised ==
    ASSUME NewsTyped, ShownOK, NewsChanges
    PROVE  Lifecycle!Next \/ UNCHANGED <<Alone(EntryRow), Alone(EntryShown)>>
<1>1. Alone(EntryRow)[Only][Only].phase = EntryRow.phase /\ Alone(EntryRow)[Only][Only].asset = entry.cover
  BY AloneAt, EntryRowIs
<1>2. Lifecycle!Edit(Only) => Lifecycle!Next
  BY DEF Lifecycle!Next
<1>3. CASE Drafted \/ Removed
  <2>1. entry.status \notin InFlight /\ proj' = proj
    BY <1>3 DEF Drafted, Removed
  <2> QED
    BY <1>2, <1>3, <2>1, OnlyEdits DEF Drafted, Removed
<1>4. CASE Requested
  <2>1. Lifecycle!Moves(Only, Only, "publishing")
    BY <1>4, OnlyMoves DEF Requested
  <2>2. EntryRow.phase \notin InFlight \cup {"absent"}
    BY <1>4, EntryRowIs DEF Requested
  <2>3. Lifecycle!RequestPublish(Only, Only)
    BY <1>1, <1>4, <2>1, <2>2, OnlyKeeps
       DEF Lifecycle!RequestPublish, Lifecycle!InFlight, InFlight, Requested
  <2> QED
    BY <2>3 DEF Lifecycle!Next
<1>5. CASE Withdrawn
  <2>1. Lifecycle!Moves(Only, Only, "unpublishing") /\ entry.status \notin InFlight
    BY <1>5, OnlyMoves DEF Withdrawn
  <2>2. EntryShown' = {}
    BY <1>5 DEF Withdrawn, EntryShown
  <2>3. entry.status \notin Unseen
    BY <1>5 DEF Withdrawn, ShownOK
  <2>4. EntryRow.phase \in {"published", "draft"}
    BY <2>1, <2>3, EntryRowIs DEF NewsTyped, EntryTyped, NewsStatuses, Unseen
  <2>5. Lifecycle!Withdraw(Only, Only)
    BY <1>1, <2>1, <2>2, <2>4, OnlyShows DEF Lifecycle!Withdraw, Lifecycle!InFlight
  <2> QED
    BY <2>5 DEF Lifecycle!Next
<1>6. CASE Completed
  <2>1. Lifecycle!Moves(Only, Only, "published") /\ entry.status = "publishing" /\ entry.ver # 0
    BY <1>6, OnlyMoves DEF Completed, ShownOK, Moves
  <2>2. EntryShown' = {entry.cover}
    <3>1. proj'.ver # 0 /\ proj'.cover = entry.cover
      BY <1>6, <2>1 DEF Completed
    <3>2. proj' # NoProj
      BY <3>1 DEF NoProj
    <3> QED
      BY <3>1, <3>2 DEF EntryShown
  <2>3. Lifecycle!Publish(Only, Only)
    BY <1>1, <2>1, <2>2, OnlyShows, EntryRowIs DEF Lifecycle!Publish
  <2> QED
    BY <2>3 DEF Lifecycle!Next
<1>7. CASE Ended
  <2>1. PICK t \in {"draft", "unpublished", "unpublish_failed"} :
            /\ entry.status = (IF t = "draft" THEN "publishing" ELSE "unpublishing")
            /\ Moves(entry.status, t)
    BY <1>7 DEF Ended, Moves
  <2>2. Lifecycle!Moves(Only, Only, t)
    BY <2>1, OnlyMoves
  <2>3. Lifecycle!GiveUpPublish(Only, Only) \/ Lifecycle!EndWithdraw(Only, Only)
    BY <1>1, <1>7, <2>1, <2>2, OnlyKeeps, EntryRowIs
       DEF Ended, Lifecycle!GiveUpPublish, Lifecycle!EndWithdraw
  <2> QED
    BY <2>3 DEF Lifecycle!Next
<1>8. CASE UNCHANGED <<entry, proj>>
  BY <1>8 DEF Alone, EntryRow, EntryShown
<1> QED
  BY <1>3, <1>4, <1>5, <1>6, <1>7, <1>8 DEF NewsChanges

LEMMA InitNewsPromised ==
    ASSUME NewsInit
    PROVE  ShownOK /\ Lifecycle!Init
<1>1. entry = NoEntry /\ proj = NoProj
  BY DEF NewsInit
<1>2. EntryRow = Lifecycle!NoEdition /\ EntryShown = {}
  BY <1>1 DEF EntryRow, EntryShown, NoEntry, Lifecycle!NoEdition
<1>3. ShownOK
  BY <1>1 DEF ShownOK, NoEntry
<1> QED
  BY <1>2, <1>3 DEF Lifecycle!Init, Alone

\* Every transaction of a news entry is one step of the lifecycle of an edition,
\* and every claim, call, retry, crash and late answer none: readers see the
\* covers of a version an editor asked to publish, until it is withdrawn.
THEOREM NewsIsPublishedAsPromised == NewsSpec => NewsPublishesAsPromised
<1>1. NewsInit => NewsTyped /\ ShownOK /\ Lifecycle!Init
  BY InitNewsTyped, InitNewsPromised
<1>2. NewsTyped /\ ShownOK /\ [NewsNext]_newsVars
        => /\ NewsTyped' /\ ShownOK'
           /\ [Lifecycle!Next]_<<Alone(EntryRow), Alone(EntryShown)>>
  BY TypedNews, NewsStepChanges, ShownKept, NewsChangesPromised
<1> QED
  BY <1>1, <1>2, PTL DEF NewsSpec, NewsPublishesAsPromised, Lifecycle!Spec

----------------------------------------------------------------------------
(* The types of a page group: no version is above that of the page         *)

PageStatuses == {"draft", "published", "unpublished", "publishing", "publish_failed"}

BodyTyped(body) == DOMAIN body = {"template", "text", "banner"} /\ body.banner \in 0 .. MaxVersion

PageTyped ==
    /\ DOMAIN page = {"status", "ver", "body", "pub"}
    /\ page.status \in PageStatuses
    /\ page.ver \in Versions
    /\ page.pub \in GrantedRefs \cup {NoRef}
    /\ BodyTyped(page.body)

PageRevTyped == /\ DOMAIN pageRev \subseteq Versions
                /\ \A v \in DOMAIN pageRev : BodyTyped(pageRev[v])

\* A member and its revisions, below a version of the page.
MemberTyped(row, revs, v) ==
    /\ DOMAIN row = {"status", "ver", "text"}
    /\ row.status \in MemberStatuses
    /\ row.ver \in 0 .. v /\ row.text \in 0 .. v
    /\ DOMAIN revs \subseteq 1 .. v
    /\ \A x \in DOMAIN revs : revs[x] \in 0 .. v

MembersTyped ==
    /\ DOMAIN child = Children /\ DOMAIN childRev = Children
    /\ \A c \in Children : MemberTyped(child[c], childRev[c], page.ver)

\* What a manifest makes of the members, below a version of the page.
ItemsTyped(items, v) ==
    /\ DOMAIN items \subseteq Children
    /\ \A c \in DOMAIN items : /\ items[c].target \in 0 .. v
                               /\ items[c].action = "publish" => items[c].target # 0

ManifestsTyped ==
    \A v \in DOMAIN manifest : /\ v \in 1 .. page.ver
                               /\ DOMAIN manifest[v] = {"state", "items"}
                               /\ ItemsTyped(manifest[v].items, page.ver)

ProjectionsTyped ==
    /\ pageProj = NoPageProj \/ pageProj.ver \in 1 .. page.ver
    /\ \A c \in Children : childProj[c].ver \in 0 .. page.ver

GroupTyped ==
    /\ OutboxTyped
    /\ PageTyped /\ PageRevTyped /\ MembersTyped /\ ManifestsTyped /\ ProjectionsTyped
    /\ "ver" \in DOMAIN seen /\ seen.ver \in 0 .. MaxVersion

LEMMA TypedGroup ==
    ASSUME GroupTyped
    PROVE  GroupTypeOK
<1>1. page.ver \in Versions /\ MaxVersion \in Nat
  BY OutboxAssumption DEF GroupTyped, PageTyped
<1>2. /\ 0 .. page.ver \subseteq 0 .. MaxVersion /\ 1 .. page.ver \subseteq Versions
  BY <1>1 DEF Versions
<1>3. ASSUME NEW c \in Children
      PROVE  /\ child[c].status \in MemberStatuses
             /\ child[c].ver \in 0 .. MaxVersion /\ child[c].text \in 0 .. MaxVersion
             /\ DOMAIN childRev[c] \subseteq Versions /\ childProj[c].ver \in 0 .. MaxVersion
  BY <1>2 DEF GroupTyped, MembersTyped, MemberTyped, ProjectionsTyped
<1>4. \A v \in DOMAIN manifest : v \in Versions /\ DOMAIN manifest[v].items \subseteq Children
  BY <1>2 DEF GroupTyped, ManifestsTyped, ItemsTyped
<1> QED
  BY <1>3, <1>4, TypedOutbox
     DEF GroupTyped, GroupTypeOK, PageTyped, PageRevTyped, PageStatuses, MemberStatuses, GrantedRefs

\* What is typed below a version is so below a later one.
LEMMA TypedLater ==
    ASSUME NEW u \in Nat, NEW v \in Nat, u <= v
    PROVE  /\ \A row, revs : MemberTyped(row, revs, u) => MemberTyped(row, revs, v)
           /\ \A items : ItemsTyped(items, u) => ItemsTyped(items, v)
<1>1. 0 .. u \subseteq 0 .. v /\ 1 .. u \subseteq 1 .. v
  OBVIOUS
<1> QED
  BY <1>1 DEF MemberTyped, ItemsTyped

\* A page of a new status and version.
LEMMA TypedStatus ==
    ASSUME PageTyped, Mutable, NEW status \in PageStatuses, NEW row, row = Status(status)
    PROVE  /\ DOMAIN row = {"status", "ver", "body", "pub"}
           /\ row.status = status /\ row.ver = page.ver + 1 /\ row.body = page.body
           /\ row.pub = page.pub
           /\ page.ver \in Nat /\ page.ver + 1 \in Versions /\ page.ver <= page.ver + 1
<1>1. PICK ver : ver = page.ver + 1
  OBVIOUS
<1>2. row = [page EXCEPT !.status = status, !.ver = ver]
  BY <1>1 DEF Status
<1>3. page.ver \in Nat /\ page.ver + 1 \in Versions /\ page.ver <= page.ver + 1
  BY OutboxAssumption DEF PageTyped, Mutable, Versions
<1> QED
  BY <1>1, <1>2, <1>3 DEF PageTyped

\* The rows a step leaves alone, when the page gets a later version.
LEMMA TypedOthers ==
    ASSUME GroupTyped, NEW v \in Nat, page'.ver = v, page.ver <= v
    PROVE  /\ \A c \in Children : MemberTyped(child[c], childRev[c], v)
           /\ \A x \in DOMAIN manifest : ItemsTyped(manifest[x].items, v) /\ x \in 1 .. v
           /\ (UNCHANGED child /\ UNCHANGED childRev => MembersTyped')
           /\ (UNCHANGED manifest => ManifestsTyped')
           /\ (UNCHANGED <<pageProj, childProj>> => ProjectionsTyped')
<1>1. page.ver \in Nat
  BY OutboxAssumption DEF GroupTyped, PageTyped, Versions
<1>2. 0 .. page.ver \subseteq 0 .. v /\ 1 .. page.ver \subseteq 1 .. v
  BY <1>1
<1>3. \A c \in Children : MemberTyped(child[c], childRev[c], v)
  BY <1>1, TypedLater DEF GroupTyped, MembersTyped
<1>4. \A x \in DOMAIN manifest : ItemsTyped(manifest[x].items, v) /\ x \in 1 .. v
  BY <1>1, <1>2, TypedLater DEF GroupTyped, ManifestsTyped
<1>5. UNCHANGED child /\ UNCHANGED childRev => MembersTyped'
  BY <1>3 DEF GroupTyped, MembersTyped
<1>6. UNCHANGED manifest => ManifestsTyped'
  BY <1>4 DEF GroupTyped, ManifestsTyped
<1>7. UNCHANGED <<pageProj, childProj>> => ProjectionsTyped'
  BY <1>2 DEF GroupTyped, ProjectionsTyped
<1> QED
  BY <1>3, <1>4, <1>5, <1>6, <1>7

\* The page gets the row of a new version.
LEMMA TypedPage ==
    ASSUME GroupTyped, Mutable, NEW status \in PageStatuses, NEW body, BodyTyped(body),
           NEW pub \in GrantedRefs \cup {NoRef}, DOMAIN page' = {"status", "ver", "body", "pub"},
           page'.status = status, page'.ver = page.ver + 1, page'.body = body, page'.pub = pub
    PROVE  PageTyped' /\ (UNCHANGED pageRev \/ InsertPageRevision => PageRevTyped')
<1>1. page'.ver \in Versions
  BY TypedStatus DEF GroupTyped
<1>2. PageTyped'
  BY <1>1 DEF PageTyped, BodyTyped
<1>3. CASE UNCHANGED pageRev
  BY <1>2, <1>3 DEF GroupTyped, PageRevTyped, BodyTyped
<1>4. CASE InsertPageRevision
  <2>1. PICK v, b : v = page'.ver /\ b = page'.body
    OBVIOUS
  <2>2. pageRev' = [z \in DOMAIN pageRev \cup {v} |-> IF z = v THEN b ELSE pageRev[z]]
    BY <1>4, <2>1 DEF InsertPageRevision, Put
  <2>3. DOMAIN pageRev' \subseteq Versions /\ \A x \in DOMAIN pageRev' : BodyTyped(pageRev'[x])
    BY <1>1, <2>1, <2>2 DEF GroupTyped, PageRevTyped
  <2> QED
    BY <1>2, <2>3 DEF PageRevTyped, BodyTyped
<1> QED
  BY <1>2, <1>3, <1>4

\* The row of a member and, for those of a set, a revision of it.
LEMMA TypedRevisions ==
    ASSUME GroupTyped, NEW v \in Nat, page'.ver = v, page.ver <= v, NEW members,
           InsertRevisions(members), DOMAIN child' = Children,
           \A c \in Children : /\ DOMAIN child'[c] = {"status", "ver", "text"}
                               /\ child'[c].status \in MemberStatuses
                               /\ child'[c].ver \in 0 .. v /\ child'[c].text \in 0 .. v
                               /\ c \in members => child'[c].ver # 0
    PROVE  MembersTyped'
<1>1. DOMAIN childRev' = Children
  BY DEF InsertRevisions
<1>2. ASSUME NEW c \in Children
      PROVE  MemberTyped(child'[c], childRev'[c], v)
  <2>1. MemberTyped(child[c], childRev[c], v)
    BY TypedOthers
  <2>2. PICK x, y : x = child'[c].ver /\ y = child'[c].text
    OBVIOUS
  <2>3. CASE c \notin members
    <3>1. childRev'[c] = childRev[c]
      BY <2>3 DEF InsertRevisions
    <3> QED
      BY <2>1, <3>1 DEF MemberTyped
  <2>4. CASE c \in members
    <3>1. childRev'[c] = [z \in DOMAIN childRev[c] \cup {x} |-> IF z = x THEN y ELSE childRev[c][z]]
      BY <2>2, <2>4 DEF InsertRevisions, Put
    <3>2. x \in 1 .. v /\ y \in 0 .. v
      BY <2>2, <2>4
    <3> QED
      BY <2>1, <3>1, <3>2 DEF MemberTyped
  <2> QED
    BY <2>3, <2>4
<1>3. \A c \in Children : MemberTyped(child'[c], childRev'[c], page'.ver)
  BY <1>2
<1> QED
  BY <1>1, <1>3 DEF MembersTyped, MemberTyped

LEMMA TypedTouch ==
    ASSUME GroupTyped, TouchPageGroup, UNCHANGED <<pageRev, manifest, pageProj, childProj, outboxVars>>,
           UNCHANGED seen, MembersTyped'
    PROVE  GroupTyped'
<1>1. PICK row : row = Status("draft")
  OBVIOUS
<1>2. page' = row /\ Mutable /\ "draft" \in PageStatuses
  BY <1>1 DEF TouchPageGroup, PageStatuses
<1>3. /\ DOMAIN row = {"status", "ver", "body", "pub"} /\ row.status = "draft"
      /\ row.ver = page.ver + 1 /\ row.body = page.body /\ row.pub = page.pub
      /\ page.ver \in Nat /\ page.ver + 1 \in Versions /\ page.ver <= page.ver + 1
  BY <1>1, <1>2, TypedStatus DEF GroupTyped
<1>4. PageTyped' /\ PageRevTyped'
  BY <1>2, <1>3, TypedPage DEF GroupTyped, PageTyped
<1>5. ManifestsTyped' /\ ProjectionsTyped'
  <2>1. page.ver + 1 \in Nat
    BY <1>3
  <2> QED
    BY <1>2, <1>3, <2>1, TypedOthers
<1>6. OutboxTyped'
  BY TypedEdit DEF GroupTyped, outboxVars, OutboxTyped
<1> QED
  BY <1>4, <1>5, <1>6 DEF GroupTyped

LEMMA TypedWrite ==
    ASSUME GroupTyped, NEW c \in Children, NEW row, WriteChild(c, row), UNCHANGED seen,
           DOMAIN row = {"status", "ver", "text"}, row.status \in MemberStatuses,
           row.ver \in 1 .. page.ver + 1, row.text \in 0 .. page.ver + 1
    PROVE  GroupTyped'
<1>1. page.ver \in Nat /\ page'.ver = page.ver + 1
  BY TypedStatus DEF WriteChild, TouchPageGroup, GroupTyped, PageStatuses
<1>2. child' = [child EXCEPT ![c] = row] /\ InsertRevisions({c})
  BY DEF WriteChild
<1>3. ASSUME NEW x \in Children
      PROVE  /\ DOMAIN child'[x] = {"status", "ver", "text"}
             /\ child'[x].status \in MemberStatuses
             /\ child'[x].ver \in 0 .. page.ver + 1 /\ child'[x].text \in 0 .. page.ver + 1
             /\ x \in {c} => child'[x].ver # 0
  <2>1. CASE x = c
    BY <1>1, <1>2, <2>1 DEF GroupTyped, MembersTyped
  <2>2. CASE x # c
    <3>1. child'[x] = child[x]
      BY <1>2, <2>2 DEF GroupTyped, MembersTyped
    <3>2. MemberTyped(child[x], childRev[x], page.ver) /\ 0 .. page.ver \subseteq 0 .. page.ver + 1
      BY <1>1 DEF GroupTyped, MembersTyped
    <3> QED
      BY <2>2, <3>1, <3>2 DEF MemberTyped
  <2> QED
    BY <2>1, <2>2
<1>4. MembersTyped'
  <2>1. page.ver + 1 \in Nat /\ page.ver <= page.ver + 1 /\ DOMAIN child' = Children
    BY <1>1, <1>2 DEF GroupTyped, MembersTyped
  <2> QED
    BY <1>1, <1>2, <1>3, <2>1, TypedRevisions
<1> QED
  BY <1>4, TypedTouch DEF WriteChild

LEMMA TypedMember ==
    ASSUME GroupTyped, NEW c \in Children, UNCHANGED seen,
           CreateChild(c) \/ UpdateChild(c) \/ RemoveChild(c) \/ DeleteChild(c)
    PROVE  GroupTyped'
<1>1. MemberTyped(child[c], childRev[c], page.ver) /\ page.ver \in Nat
  BY OutboxAssumption DEF GroupTyped, MembersTyped, PageTyped, Versions
<1>2. CASE CreateChild(c)
  <2>1. PICK row : row = [status |-> "draft", ver |-> 1, text |-> 1]
    OBVIOUS
  <2>2. 1 \in 1 .. page.ver + 1 /\ 1 \in 0 .. page.ver + 1
    BY <1>1
  <2>3. /\ DOMAIN row = {"status", "ver", "text"} /\ row.status \in MemberStatuses
        /\ row.ver \in 1 .. page.ver + 1 /\ row.text \in 0 .. page.ver + 1
    BY <2>1, <2>2 DEF MemberStatuses
  <2> QED
    BY <1>2, <2>1, <2>3, TypedWrite DEF CreateChild
<1>3. CASE UpdateChild(c)
  <2>1. PICK ver : ver = child[c].ver + 1
    OBVIOUS
  <2>2. PICK row : row = [status |-> "draft", ver |-> ver, text |-> ver]
    OBVIOUS
  <2>3. ver \in 1 .. page.ver + 1 /\ ver \in 0 .. page.ver + 1
    BY <1>1, <2>1 DEF MemberTyped
  <2>4. /\ DOMAIN row = {"status", "ver", "text"} /\ row.status \in MemberStatuses
        /\ row.ver \in 1 .. page.ver + 1 /\ row.text \in 0 .. page.ver + 1
    BY <2>2, <2>3 DEF MemberStatuses
  <2>5. WriteChild(c, row)
    BY <1>3, <2>1, <2>2 DEF UpdateChild
  <2> QED
    BY <2>4, <2>5, TypedWrite
<1>4. CASE RemoveChild(c)
  <2>1. PICK ver : ver = child[c].ver + 1
    OBVIOUS
  <2>2. PICK row : row = [child[c] EXCEPT !.status = "pending_removal", !.ver = ver]
    OBVIOUS
  <2>3. ver \in 1 .. page.ver + 1 /\ 0 .. page.ver \subseteq 0 .. page.ver + 1
    BY <1>1, <2>1 DEF MemberTyped
  <2>4. /\ DOMAIN row = {"status", "ver", "text"} /\ row.status \in MemberStatuses
        /\ row.ver \in 1 .. page.ver + 1 /\ row.text \in 0 .. page.ver + 1
    BY <1>1, <2>2, <2>3 DEF MemberTyped, MemberStatuses
  <2>5. WriteChild(c, row)
    BY <1>4, <2>1, <2>2 DEF RemoveChild
  <2> QED
    BY <2>4, <2>5, TypedWrite
<1>5. CASE DeleteChild(c)
  <2>1. page'.ver = page.ver + 1
    BY <1>5, TypedStatus DEF DeleteChild, TouchPageGroup, GroupTyped, PageStatuses
  <2>2. PICK row, revs : row = Gone("deleted") /\ revs = [v \in {} |-> 0]
    OBVIOUS
  <2>3. child' = [child EXCEPT ![c] = row] /\ childRev' = [childRev EXCEPT ![c] = revs]
    BY <1>5, <2>2 DEF DeleteChild
  <2>4. MemberTyped(row, revs, page.ver + 1)
    <3>1. row = [status |-> "deleted", ver |-> 0, text |-> 0] /\ DOMAIN revs = {}
      BY <2>2 DEF Gone
    <3>2. 0 \in 0 .. page.ver + 1
      BY <1>1
    <3> QED
      BY <3>1, <3>2 DEF MemberTyped, MemberStatuses
  <2>5. \A x \in Children : MemberTyped(child[x], childRev[x], page.ver + 1)
    <3>1. page.ver + 1 \in Nat /\ page.ver <= page.ver + 1
      BY <1>1
    <3> QED
      BY <1>1, <3>1, TypedLater DEF GroupTyped, MembersTyped
  <2>6. /\ DOMAIN child' = Children /\ DOMAIN childRev' = Children
        /\ \A x \in Children : MemberTyped(child'[x], childRev'[x], page.ver + 1)
    BY <2>3, <2>4, <2>5 DEF GroupTyped, MembersTyped
  <2>7. MembersTyped'
    BY <2>1, <2>6 DEF MembersTyped, MemberTyped
  <2> QED
    BY <1>5, <2>7, TypedTouch DEF DeleteChild
<1> QED
  BY <1>2, <1>3, <1>4, <1>5

LEMMA TypedUpdate ==
    ASSUME GroupTyped, NEW body, BodyTyped(body), UpdatePage(body), UNCHANGED seen
    PROVE  GroupTyped'
<1>1. PICK row : row = Status("draft")
  OBVIOUS
<1>2. page' = [row EXCEPT !.body = body] /\ Mutable /\ "draft" \in PageStatuses
  BY <1>1 DEF UpdatePage, PageStatuses
<1>3. /\ DOMAIN row = {"status", "ver", "body", "pub"} /\ row.status = "draft"
      /\ row.ver = page.ver + 1 /\ row.pub = page.pub
      /\ page.ver \in Nat /\ page.ver + 1 \in Versions /\ page.ver <= page.ver + 1
  BY <1>1, <1>2, TypedStatus DEF GroupTyped
<1>4. PageTyped' /\ PageRevTyped'
  <2>1. /\ DOMAIN page' = {"status", "ver", "body", "pub"} /\ page'.status = "draft"
        /\ page'.ver = page.ver + 1 /\ page'.body = body /\ page'.pub = page.pub
    BY <1>2, <1>3
  <2> QED
    BY <1>2, <2>1, TypedPage DEF GroupTyped, PageTyped, UpdatePage
<1>5. MembersTyped' /\ ManifestsTyped' /\ ProjectionsTyped'
  <2>1. page.ver + 1 \in Nat /\ page'.ver = page.ver + 1
    BY <1>2, <1>3
  <2> QED
    BY <1>3, <2>1, TypedOthers DEF UpdatePage
<1>6. OutboxTyped'
  BY TypedEdit DEF GroupTyped, UpdatePage, outboxVars, OutboxTyped
<1> QED
  BY <1>4, <1>5, <1>6 DEF GroupTyped

LEMMA TypedPageEdit ==
    ASSUME GroupTyped, EditText \/ AttachBanner, UNCHANGED seen
    PROVE  GroupTyped'
<1>1. BodyTyped(page.body)
  BY DEF GroupTyped, PageTyped
<1>2. CASE EditText
  <2>1. PICK text : text = Written(page.ver + 1)
    OBVIOUS
  <2>2. PICK body : body = [page.body EXCEPT !.text = text]
    OBVIOUS
  <2>3. BodyTyped(body) /\ UpdatePage(body)
    BY <1>1, <1>2, <2>1, <2>2 DEF BodyTyped, EditText
  <2> QED
    BY <2>3, TypedUpdate
<1>3. CASE AttachBanner
  <2>1. PICK banner : banner = page.ver + 1
    OBVIOUS
  <2>2. banner \in 0 .. MaxVersion
    BY <1>3, <2>1, OutboxAssumption
       DEF AttachBanner, UpdatePage, Mutable, GroupTyped, PageTyped, Versions
  <2>3. PICK body : body = [page.body EXCEPT !.banner = banner]
    OBVIOUS
  <2>4. BodyTyped(body) /\ UpdatePage(body)
    BY <1>1, <1>3, <2>1, <2>2, <2>3 DEF BodyTyped, AttachBanner
  <2> QED
    BY <2>4, TypedUpdate
<1> QED
  BY <1>2, <1>3

LEMMA TypedBaseline ==
    ASSUME GroupTyped
    PROVE  \A x \in DOMAIN WithBaseline : /\ x \in 1 .. page.ver
                                          /\ DOMAIN WithBaseline[x] = {"state", "items"}
                                          /\ ItemsTyped(WithBaseline[x].items, page.ver)
<1>1. CASE WithBaseline = manifest
  BY <1>1 DEF GroupTyped, ManifestsTyped
<1>2. CASE WithBaseline # manifest
  <2>1. PICK items : items = [c \in {x \in Children : IsPublished(x)} |->
                                [source |-> childProj[c].ver, target |-> childProj[c].ver,
                                 action |-> "keep"]]
    OBVIOUS
  <2>2. PICK m : m = [state |-> "published", items |-> items]
    OBVIOUS
  <2>3. PageIsPublished /\ WithBaseline = Put(manifest, pageProj.ver, m)
    BY <1>2, <2>1, <2>2 DEF WithBaseline
  <2>4. pageProj.ver \in 1 .. page.ver
    BY <2>3 DEF GroupTyped, ProjectionsTyped, PageIsPublished
  <2>5. ItemsTyped(items, page.ver)
    BY <2>1 DEF ItemsTyped, GroupTyped, ProjectionsTyped
  <2> QED
    BY <2>2, <2>3, <2>4, <2>5 DEF Put, GroupTyped, ManifestsTyped
<1> QED
  BY <1>1, <1>2

\* A publication collects what the members are, or are next.
LEMMA TypedCollection ==
    ASSUME GroupTyped, NEW v \in Nat, v = page.ver + 1
    PROVE  ItemsTyped(CollectManifest, v)
<1>1. PICK items, D : items = CollectManifest
                      /\ D = Members \cup {x \in Children : child[x].status = "pending_removal"}
  OBVIOUS
<1>2. DOMAIN items = D /\ D \subseteq Children
  BY <1>1 DEF CollectManifest, Members
<1>3. ASSUME NEW c \in D
      PROVE  /\ items[c].target \in 0 .. v
             /\ items[c].action = "publish" => items[c].target # 0
  <2>1. child[c].ver \in 0 .. page.ver /\ page.ver \in Nat
    BY <1>2, OutboxAssumption
       DEF GroupTyped, MembersTyped, MemberTyped, PageTyped, Versions
  <2>2. child[c].ver + 0 \in 0 .. v /\ child[c].ver + 1 \in 0 .. v /\ child[c].ver + 1 # 0
    BY <2>1
  <2>3. \/ items[c] = Item(c, 1, "remove") \/ items[c] = Item(c, 0, "keep")
        \/ items[c] = Item(c, 1, "publish")
    BY <1>1 DEF CollectManifest
  <2> QED
    BY <2>2, <2>3 DEF Item
<1>4. ItemsTyped(items, v)
  BY <1>2, <1>3 DEF ItemsTyped
<1> QED
  BY <1>1, <1>4

\* The manifest of a publication, which is that of the next version.
LEMMA TypedManifest ==
    ASSUME GroupTyped, NEW v \in Nat, v = page.ver + 1, page'.ver = v, NEW state, NEW items,
           ItemsTyped(items, v), InsertManifest(state, items)
    PROVE  ManifestsTyped'
<1>1. PICK base, m : base = WithBaseline /\ m = [state |-> state, items |-> items]
  OBVIOUS
<1>2. page.ver \in Nat
  BY OutboxAssumption DEF GroupTyped, PageTyped, Versions
<1>3. \A x \in DOMAIN base : /\ x \in 1 .. page.ver
                             /\ DOMAIN base[x] = {"state", "items"}
                             /\ ItemsTyped(base[x].items, page.ver)
  BY <1>1, TypedBaseline
<1>4. manifest' = [z \in DOMAIN base \cup {v} |-> IF z = v THEN m ELSE base[z]]
  BY <1>1 DEF InsertManifest, Put
<1>5. ASSUME NEW x \in DOMAIN manifest'
      PROVE  /\ x \in 1 .. v /\ DOMAIN manifest'[x] = {"state", "items"}
             /\ ItemsTyped(manifest'[x].items, v)
  <2>1. CASE x = v
    BY <1>1, <1>2, <1>4, <2>1
  <2>2. CASE x # v
    <3>1. x \in DOMAIN base /\ manifest'[x] = base[x]
      BY <1>4, <2>2
    <3>2. ItemsTyped(base[x].items, v)
      BY <1>2, <1>3, <3>1, TypedLater
    <3> QED
      BY <1>2, <1>3, <3>1, <3>2
  <2> QED
    BY <2>1, <2>2
<1> QED
  BY <1>5 DEF ManifestsTyped, ItemsTyped

\* The members and the public state after a publication of items.
LEMMA TypedUpdated ==
    ASSUME GroupTyped, NEW v \in Nat, page'.ver = v, page.ver <= v, NEW items, ItemsTyped(items, v),
           UpdateMembers(items), NEW members, InsertRevisions(members),
           \A c \in members : c \in DOMAIN items /\ items[c].target # 0
    PROVE  MembersTyped'
<1>1. ASSUME NEW c \in Children
      PROVE  /\ DOMAIN child'[c] = {"status", "ver", "text"}
             /\ child'[c].status \in MemberStatuses
             /\ child'[c].ver \in 0 .. v /\ child'[c].text \in 0 .. v
             /\ c \in members => child'[c].ver # 0
  <2>1. MemberTyped(child[c], childRev[c], v)
    BY TypedOthers
  <2>2. CASE c \in DOMAIN items
    <3>1. PICK status, ver : status = ActionOf(items[c].action) /\ ver = items[c].target
      OBVIOUS
    <3>2. child'[c] = [child[c] EXCEPT !.status = status, !.ver = ver]
      BY <2>2, <3>1 DEF UpdateMembers
    <3>3. status \in MemberStatuses /\ ver \in 0 .. v /\ (c \in members => ver # 0)
      BY <2>2, <3>1 DEF ActionOf, MemberStatuses, ItemsTyped
    <3> QED
      BY <2>1, <3>2, <3>3 DEF MemberTyped
  <2>3. CASE c \notin DOMAIN items
    BY <2>1, <2>3 DEF UpdateMembers, MemberTyped
  <2> QED
    BY <2>2, <2>3
<1>2. DOMAIN child' = Children
  BY DEF UpdateMembers
<1> QED
  BY <1>1, <1>2, TypedRevisions

LEMMA TypedRevised ==
    ASSUME NEW items, NEW v, ItemsTyped(items, v)
    PROVE  \A c \in Revised(items) : c \in DOMAIN items /\ items[c].target # 0
BY DEF Revised, ItemsTyped

LEMMA TypedProjections ==
    ASSUME GroupTyped, NEW v \in Nat \ {0}, page'.ver = v, NEW items, ItemsTyped(items, v),
           WriteProjections(v, items)
    PROVE  ProjectionsTyped'
<1>1. pageProj'.ver = v /\ v \in 1 .. v
  BY DEF WriteProjections
<1>2. ASSUME NEW c \in Children
      PROVE  childProj'[c].ver \in 0 .. v
  BY DEF WriteProjections, ItemsTyped, NoChildProj
<1> QED
  BY <1>1, <1>2 DEF ProjectionsTyped

\* What a handler withdraws of the banner.
LEMMA TypedClear ==
    ASSUME GroupTyped, Mutable, NEW status \in PageStatuses, ClearBanner(Status(status)),
           InsertPageRevision, UNCHANGED <<work, grants, faults>>
    PROVE  OutboxTyped' /\ PageTyped' /\ PageRevTyped' /\ page'.ver = page.ver + 1
<1>1. PICK row, pub : row = Status(status) /\ pub = page.pub
  OBVIOUS
<1>2. /\ page' = [row EXCEPT !.pub = NoRef]
      /\ outbox' = IF pub = NoRef THEN outbox ELSE InsertOne(outbox, RevokeKey(pub), {pub})
  BY <1>1 DEF ClearBanner
<1>3. /\ DOMAIN row = {"status", "ver", "body", "pub"} /\ row.status = status
      /\ row.ver = page.ver + 1 /\ row.body = page.body
  BY <1>1, TypedStatus DEF GroupTyped
<1>4. /\ DOMAIN page' = {"status", "ver", "body", "pub"} /\ page'.status = status
      /\ page'.ver = page.ver + 1 /\ page'.body = page.body /\ page'.pub = NoRef
  BY <1>2, <1>3
<1>5. PageTyped' /\ PageRevTyped'
  BY <1>4, TypedPage DEF GroupTyped, PageTyped
<1>6. /\ DOMAIN outbox \subseteq DOMAIN outbox'
      /\ \A x \in DOMAIN outbox' : EventTyped(x, outbox'[x])
  <2>1. CASE pub = NoRef
    BY <1>2, <2>1 DEF GroupTyped, OutboxTyped
  <2>2. CASE pub # NoRef
    <3>1. pub \in Refs /\ pub.grant \in Versions
      BY <1>1, <2>2, GrantedVersion DEF GroupTyped, PageTyped
    <3>2. PICK k, refs : k = RevokeKey(pub) /\ refs = {pub}
      OBVIOUS
    <3>3. k.kind = "revoke" /\ k.ver \in Versions /\ refs \in SUBSET Refs
      BY <3>1, <3>2 DEF RevokeKey, Key
    <3>4. outbox' = InsertOne(outbox, k, refs)
      BY <1>2, <2>2, <3>2
    <3> QED
      BY <3>3, <3>4, TypedInsertOne DEF GroupTyped, RevokeKinds
  <2> QED
    BY <2>1, <2>2
<1> QED
  BY <1>4, <1>5, <1>6, TypedEdit DEF GroupTyped

LEMMA TypedPublish ==
    ASSUME GroupTyped, PublishPageGroup, UNCHANGED seen
    PROVE  GroupTyped'
<1>1. PICK v, items : v = page.ver + 1 /\ items = CollectManifest
  OBVIOUS
<1>2. v \in Nat \ {0} /\ page.ver <= v
  BY <1>1, OutboxAssumption DEF GroupTyped, PageTyped, Versions
<1>3. OutboxTyped' /\ PageTyped' /\ PageRevTyped' /\ page'.ver = v
  BY <1>1, TypedClear DEF PublishPageGroup, PageStatuses
<1>4. ItemsTyped(items, v)
  BY <1>1, <1>2, TypedCollection
<1>5. /\ InsertManifest("published", items) /\ WriteProjections(v, items)
      /\ UpdateMembers(items) /\ InsertRevisions(Revised(items))
  BY <1>1 DEF PublishPageGroup
<1>6. ManifestsTyped' /\ ProjectionsTyped'
  BY <1>1, <1>2, <1>3, <1>4, <1>5, TypedManifest, TypedProjections
<1>7. MembersTyped'
  BY <1>2, <1>3, <1>4, <1>5, TypedUpdated, TypedRevised
<1> QED
  BY <1>3, <1>6, <1>7 DEF GroupTyped

LEMMA TypedUnpublish ==
    ASSUME GroupTyped, UnpublishGroup, UNCHANGED seen
    PROVE  GroupTyped'
<1>1. PICK v, items : /\ v = page.ver + 1
                      /\ items = [c \in {x \in Children : IsPublished(x)} |-> Item(c, 1, "remove")]
  OBVIOUS
<1>2. v \in Nat \ {0} /\ page.ver <= v /\ page.ver \in Nat
  BY <1>1, OutboxAssumption DEF GroupTyped, PageTyped, Versions
<1>3. OutboxTyped' /\ PageTyped' /\ PageRevTyped' /\ page'.ver = v
  BY <1>1, TypedClear DEF UnpublishGroup, PageStatuses
<1>4. /\ DOMAIN items \subseteq Children
      /\ \A c \in DOMAIN items : items[c].target \in 0 .. v /\ items[c].target # 0
  <2> SUFFICES ASSUME NEW c \in DOMAIN items
               PROVE  c \in Children /\ items[c].target \in 0 .. v /\ items[c].target # 0
    OBVIOUS
  <2>1. c \in Children /\ items[c].target = child[c].ver + 1
    BY <1>1 DEF Item
  <2>2. child[c].ver \in 0 .. page.ver
    BY <2>1 DEF GroupTyped, MembersTyped, MemberTyped
  <2> QED
    BY <1>1, <1>2, <2>1, <2>2
<1>5. ItemsTyped(items, v)
  BY <1>4 DEF ItemsTyped
<1>6. /\ InsertManifest("unpublished", items) /\ UpdateMembers(items)
      /\ InsertRevisions(DOMAIN items)
  BY <1>1 DEF UnpublishGroup
<1>7. ManifestsTyped'
  BY <1>1, <1>2, <1>3, <1>5, <1>6, TypedManifest
<1>8. MembersTyped'
  BY <1>2, <1>3, <1>4, <1>5, <1>6, TypedUpdated
<1>9. ProjectionsTyped'
  <2>1. pageProj' = NoPageProj /\ \A c \in Children : childProj'[c].ver = 0
    BY DEF UnpublishGroup, NoChildProj
  <2>2. 0 \in 0 .. v
    BY <1>2
  <2> QED
    BY <1>3, <2>1, <2>2 DEF ProjectionsTyped, NoPageProj
<1> QED
  BY <1>3, <1>7, <1>8, <1>9 DEF GroupTyped

LEMMA TypedRestore ==
    ASSUME GroupTyped, NEW v \in Finished, RestorePageGroup(v), UNCHANGED seen
    PROVE  GroupTyped'
<1>1. PICK u, items, members, body : /\ u = page.ver + 1 /\ items = manifest[v].items
                                     /\ members = {c \in Children : Exists(c)}
                                     /\ body = pageRev[v]
  OBVIOUS
<1>2. u \in Nat /\ page.ver <= u /\ page.ver \in Nat
  BY <1>1, OutboxAssumption DEF GroupTyped, PageTyped, Versions
<1>3. /\ Mutable /\ Restorable(v) /\ InsertRevisions(members) /\ InsertPageRevision
      /\ page' = [Status("draft") EXCEPT !.body = body]
      /\ UNCHANGED <<manifest, pageProj, childProj, outboxVars>>
  BY <1>1 DEF RestorePageGroup
<1>4. BodyTyped(body)
  BY <1>1, <1>3 DEF Restorable, GroupTyped, PageRevTyped
<1>5. PageTyped' /\ PageRevTyped' /\ page'.ver = u
  <2>1. PICK row : row = Status("draft")
    OBVIOUS
  <2>2. "draft" \in PageStatuses
    BY DEF PageStatuses
  <2>3. /\ DOMAIN row = {"status", "ver", "body", "pub"} /\ row.status = "draft"
        /\ row.ver = page.ver + 1 /\ row.pub = page.pub
    BY <1>3, <2>1, <2>2, TypedStatus DEF GroupTyped
  <2>4. /\ DOMAIN page' = {"status", "ver", "body", "pub"} /\ page'.status = "draft"
        /\ page'.ver = page.ver + 1 /\ page'.body = body /\ page'.pub = page.pub
    BY <1>3, <2>1, <2>3
  <2> QED
    BY <1>1, <1>3, <1>4, <2>2, <2>4, TypedPage DEF GroupTyped, PageTyped
<1>6. ASSUME NEW c \in Children
      PROVE  /\ DOMAIN child'[c] = {"status", "ver", "text"}
             /\ child'[c].status \in MemberStatuses
             /\ child'[c].ver \in 0 .. u /\ child'[c].text \in 0 .. u
             /\ c \in members => child'[c].ver # 0
  <2>1. MemberTyped(child[c], childRev[c], page.ver) /\ MemberTyped(child[c], childRev[c], u)
    BY <1>1, <1>2, <1>5, TypedOthers DEF GroupTyped, MembersTyped
  <2>2. PICK ver : ver = child[c].ver + 1
    OBVIOUS
  <2>3. ver \in 0 .. u /\ ver # 0
    BY <1>1, <1>2, <2>1, <2>2 DEF MemberTyped
  <2>4. CASE ~Exists(c)
    <3>1. child'[c] = child[c]
      BY <2>4 DEF RestorePageGroup
    <3> QED
      BY <1>1, <2>1, <2>4, <3>1 DEF MemberTyped
  <2>5. CASE Exists(c) /\ c \notin DOMAIN items
    <3>1. child'[c] = [child[c] EXCEPT !.status = "pending_removal", !.ver = ver]
      BY <1>1, <2>2, <2>5 DEF RestorePageGroup
    <3> QED
      BY <2>1, <2>3, <3>1 DEF MemberTyped, MemberStatuses
  <2>6. CASE Exists(c) /\ c \in DOMAIN items
    <3>1. PICK text : text = childRev[c][items[c].target]
      OBVIOUS
    <3>2. child'[c] = [status |-> IF items[c].action = "remove" THEN "pending_removal" ELSE "draft",
                       ver |-> ver, text |-> text]
      BY <1>1, <2>2, <2>6, <3>1 DEF RestorePageGroup
    <3>3. items[c].target \in DOMAIN childRev[c]
      BY <1>1, <1>3, <2>6 DEF Restorable
    <3>4. text \in 0 .. u
      BY <2>1, <3>1, <3>3 DEF MemberTyped
    <3> QED
      BY <2>3, <3>2, <3>4 DEF MemberStatuses
  <2> QED
    BY <2>4, <2>5, <2>6
<1>7. DOMAIN child' = Children
  BY DEF RestorePageGroup
<1>8. MembersTyped'
  BY <1>2, <1>3, <1>5, <1>6, <1>7, TypedRevisions
<1>9. ManifestsTyped' /\ ProjectionsTyped'
  BY <1>2, <1>3, <1>5, TypedOthers
<1>10. OutboxTyped'
  BY <1>3, TypedEdit DEF GroupTyped, outboxVars, OutboxTyped
<1> QED
  BY <1>5, <1>8, <1>9, <1>10 DEF GroupTyped

LEMMA TypedHomeStart ==
    ASSUME GroupTyped, StartHomePublish, UNCHANGED seen
    PROVE  GroupTyped'
<1>1. PICK v, items, row, k, refs :
         /\ v = page.ver + 1 /\ items = CollectManifest /\ row = Status("publishing")
         /\ k = PublishKey(page.ver + 1) /\ refs = {Ref(Banner, page.body.banner, 0)}
  OBVIOUS
<1>2. /\ Mutable /\ page.body.banner # 0 /\ page' = row /\ InsertManifest("pending", items)
      /\ outbox' = InsertOne(outbox, k, refs)
      /\ UNCHANGED <<child, pageRev, childRev, pageProj, childProj, work, grants, faults>>
  BY <1>1 DEF StartHomePublish
<1>3. "publishing" \in PageStatuses
  BY DEF PageStatuses
<1>4. /\ DOMAIN row = {"status", "ver", "body", "pub"} /\ row.status = "publishing"
      /\ row.ver = v /\ row.body = page.body /\ row.pub = page.pub
      /\ page.ver \in Nat /\ v \in Versions /\ page.ver <= v /\ v \in Nat
  BY <1>1, <1>2, <1>3, TypedStatus DEF GroupTyped
<1>5. PageTyped' /\ PageRevTyped'
  BY <1>1, <1>2, <1>3, <1>4, TypedPage DEF GroupTyped, PageTyped
<1>6. ManifestsTyped'
  <2>1. ItemsTyped(items, v)
    BY <1>1, <1>4, TypedCollection
  <2> QED
    BY <1>1, <1>2, <1>4, <2>1, TypedManifest
<1>7. MembersTyped' /\ ProjectionsTyped'
  BY <1>2, <1>4, TypedOthers
<1>8. refs \in SUBSET Refs /\ refs # {}
  <2>1. page.body.banner \in Versions /\ Banner \in Images /\ 0 \in 0 .. MaxVersion
    BY <1>2, OutboxAssumption DEF GroupTyped, PageTyped, BodyTyped, Versions, Images
  <2> QED
    BY <1>1, <2>1 DEF Ref, Refs
<1>9. k.kind = "publish" /\ k.ver \in Versions
  BY <1>1, <1>4 DEF PublishKey, Key
<1>10. OutboxTyped'
  <2>1. /\ DOMAIN outbox \subseteq DOMAIN outbox'
        /\ \A x \in DOMAIN outbox' : EventTyped(x, outbox'[x])
    BY <1>2, <1>8, <1>9, TypedInsertOne DEF GroupTyped
  <2> QED
    BY <1>2, <2>1, TypedEdit DEF GroupTyped
<1> QED
  BY <1>5, <1>6, <1>7, <1>10 DEF GroupTyped

\* A manifest gets a new state.
LEMMA TypedState ==
    ASSUME GroupTyped, page'.ver = page.ver, NEW v \in DOMAIN manifest, NEW state,
           manifest' = [manifest EXCEPT ![v].state = state]
    PROVE  ManifestsTyped'
<1>1. PICK m : m = [manifest[v] EXCEPT !.state = state]
  OBVIOUS
<1>2. manifest' = [manifest EXCEPT ![v] = m]
  BY <1>1
<1>3. DOMAIN m = {"state", "items"} /\ m.items = manifest[v].items
  BY <1>1 DEF GroupTyped, ManifestsTyped
<1>4. ASSUME NEW x \in DOMAIN manifest'
      PROVE  /\ x \in 1 .. page.ver /\ DOMAIN manifest'[x] = {"state", "items"}
             /\ ItemsTyped(manifest'[x].items, page.ver)
  BY <1>2, <1>3 DEF GroupTyped, ManifestsTyped
<1> QED
  BY <1>4 DEF ManifestsTyped, ItemsTyped

LEMMA TypedHome ==
    ASSUME GroupTyped, NEW k \in DOMAIN outbox, NEW r \in GrantedRefs, Current(k),
           PublishHome(k, r)
    PROVE  /\ PageTyped' /\ PageRevTyped' /\ MembersTyped' /\ ManifestsTyped' /\ ProjectionsTyped'
           /\ DOMAIN outbox \subseteq DOMAIN outbox'
           /\ \A x \in DOMAIN outbox' : EventTyped(x, outbox'[x])
<1>1. PICK v, items, box, pub :
         v = k.ver /\ items = manifest[v].items /\ box = Mark(outbox, k, "delivered") /\ pub = page.pub
  OBVIOUS
<1>2. v = page.ver /\ v \in DOMAIN manifest
  BY <1>1 DEF Current, IsPending
<1>3. v \in Nat \ {0} /\ v \in Versions
  BY <1>2, OutboxAssumption DEF GroupTyped, PageTyped, Versions
<1>4. ItemsTyped(items, v)
  BY <1>1, <1>2 DEF GroupTyped, ManifestsTyped
<1>5. /\ WriteProjections(v, items) /\ UpdateMembers(items) /\ InsertRevisions(Revised(items))
      /\ page' = [page EXCEPT !.status = "published", !.pub = r] /\ InsertPageRevision
      /\ manifest' = [manifest EXCEPT ![v].state = "published"]
      /\ outbox' = IF pub \in {NoRef, r} THEN box ELSE InsertOne(box, RevokeKey(pub), {pub})
  BY <1>1 DEF PublishHome
<1>6. /\ DOMAIN page' = {"status", "ver", "body", "pub"} /\ page'.status = "published"
      /\ page'.ver = v /\ page'.body = page.body /\ page'.pub = r
  BY <1>2, <1>5 DEF GroupTyped, PageTyped
<1>7. PageTyped'
  BY <1>3, <1>6 DEF GroupTyped, PageTyped, PageStatuses, BodyTyped
<1>8. PageRevTyped'
  <2>1. PICK b : b = page'.body
    OBVIOUS
  <2>2. pageRev' = [z \in DOMAIN pageRev \cup {v} |-> IF z = v THEN b ELSE pageRev[z]]
    BY <1>5, <1>6, <2>1 DEF InsertPageRevision, Put
  <2>3. BodyTyped(b)
    BY <1>6, <2>1 DEF GroupTyped, PageTyped
  <2>4. DOMAIN pageRev' \subseteq Versions /\ \A x \in DOMAIN pageRev' : BodyTyped(pageRev'[x])
    BY <1>3, <2>2, <2>3 DEF GroupTyped, PageRevTyped
  <2> QED
    BY <2>4 DEF PageRevTyped, BodyTyped
<1>9. MembersTyped'
  BY <1>2, <1>3, <1>4, <1>5, <1>6, TypedUpdated, TypedRevised
<1>10. ProjectionsTyped'
  BY <1>3, <1>4, <1>5, <1>6, TypedProjections
<1>11. ManifestsTyped'
  BY <1>2, <1>5, <1>6, TypedState
<1>12. DOMAIN box = DOMAIN outbox /\ \A x \in DOMAIN box : EventTyped(x, box[x])
  BY <1>1, TypedMark DEF GroupTyped, EventStatuses
<1>13. /\ DOMAIN outbox \subseteq DOMAIN outbox'
       /\ \A x \in DOMAIN outbox' : EventTyped(x, outbox'[x])
  <2>1. CASE pub \in {NoRef, r} \/ RevokeKey(pub) \in DOMAIN box
    <3>1. outbox' = box
      BY <1>5, <2>1 DEF InsertOne
    <3> QED
      BY <1>12, <3>1
  <2>2. CASE pub \notin {NoRef, r} /\ RevokeKey(pub) \notin DOMAIN box
    <3>1. pub \in Refs /\ pub.grant \in Versions
      BY <1>1, <2>2, GrantedVersion DEF GroupTyped, PageTyped
    <3>2. PICK x, s : x = RevokeKey(pub) /\ s = {pub}
      OBVIOUS
    <3>3. x.kind = "revoke" /\ x.ver \in Versions /\ s \in SUBSET Refs
      BY <3>1, <3>2 DEF RevokeKey, Key
    <3>4. outbox' = [z \in DOMAIN box \cup {x} |-> IF z = x THEN Event(s) ELSE box[z]]
      BY <1>5, <2>2, <3>2 DEF InsertOne
    <3>5. PICK new : new = {x}
      OBVIOUS
    <3>6. /\ DOMAIN outbox' = DOMAIN box \cup new
          /\ \A y \in DOMAIN box : outbox'[y] = box[y]
          /\ \A y \in new : /\ y \notin DOMAIN box
                            /\ \E t \in SUBSET Refs : outbox'[y] = Event(t)
                            /\ y.kind \in RevokeKinds \cup {"delete"} /\ y.ver \in Versions
      BY <2>2, <3>2, <3>3, <3>4, <3>5 DEF RevokeKinds
    <3> QED
      BY <1>12, <3>6, TypedInsert
  <2> QED
    BY <2>1, <2>2
<1> QED
  BY <1>7, <1>8, <1>9, <1>10, <1>11, <1>13

\* The rows of the group when a step changes only the outbox.
LEMMA TypedRows ==
    ASSUME GroupTyped, UNCHANGED groupRows
    PROVE  PageTyped' /\ PageRevTyped' /\ MembersTyped' /\ ManifestsTyped' /\ ProjectionsTyped'
BY DEF GroupTyped, groupRows, PageTyped, PageRevTyped, MembersTyped, MemberTyped, ManifestsTyped,
       ItemsTyped, ProjectionsTyped, BodyTyped

LEMMA TypedHomeCompletion ==
    ASSUME GroupTyped, NEW w \in Workers, CompleteHomePublish(w), UNCHANGED seen
    PROVE  GroupTyped'
<1>1. work[w].pc = "complete" /\ work[w].pc # "idle" /\ UNCHANGED grants
  BY DEF CompleteHomePublish, Busy
<1>2. PICK k, done, r : k = work[w].key /\ done = work[w].done /\ r = First(done)
  OBVIOUS
<1>3. OutboxTyped /\ HolderTyped(work[w], DOMAIN outbox) /\ k \in DOMAIN outbox
  BY <1>1, <1>2, TypedHolder DEF GroupTyped
<1>4. k.kind = "publish" /\ done \in SUBSET GrantedRefs /\ done # {}
  BY <1>1, <1>2, <1>3 DEF HolderTyped, GrantSteps, GrantedRefs
<1>5. r \in GrantedRefs
  BY <1>2, <1>4, FirstIsIn DEF GrantedRefs, Refs
<1>6. PICK pc \in {"retry", "confirm"} : pc = AfterPublishError(w)
  BY DEF AfterPublishError
<1>7. \/ (Release(w) \/ Goto(w, "compensate")) /\ UNCHANGED <<groupRows, outbox, faults>>
      \/ Current(k) /\ PublishHome(k, r) /\ Answered(w, pc)
      \/ RollsBack(w, pc) /\ UNCHANGED groupRows
  BY <1>2, <1>6 DEF CompleteHomePublish
<1>8. CASE (Release(w) \/ Goto(w, "compensate")) /\ UNCHANGED <<groupRows, outbox, faults>>
  <2>1. grants' \subseteq Refs
    BY <1>1, <1>3 DEF OutboxTyped
  <2>2. OutboxTyped'
    BY <1>1, <1>2, <1>3, <1>4, <1>8, <2>1, TypedWait DEF Pcs
  <2> QED
    BY <1>8, <2>2, TypedRows DEF GroupTyped
<1>9. CASE Current(k) /\ PublishHome(k, r) /\ Answered(w, pc)
  <2>1. /\ PageTyped' /\ PageRevTyped' /\ MembersTyped' /\ ManifestsTyped' /\ ProjectionsTyped'
        /\ DOMAIN outbox \subseteq DOMAIN outbox'
        /\ \A x \in DOMAIN outbox' : EventTyped(x, outbox'[x])
    BY <1>3, <1>5, <1>9, TypedHome
  <2>2. OutboxTyped'
    BY <1>1, <1>2, <1>3, <1>4, <1>9, <2>1, TypedAnswered
  <2> QED
    BY <2>1, <2>2 DEF GroupTyped
<1>10. CASE RollsBack(w, pc) /\ UNCHANGED groupRows
  <2>1. UNCHANGED outbox
    BY <1>10 DEF RollsBack
  <2>2. OutboxTyped'
    BY <1>1, <1>2, <1>3, <1>4, <1>10, <2>1, TypedAnswered DEF OutboxTyped
  <2> QED
    BY <1>10, <2>2, TypedRows DEF GroupTyped
<1> QED
  BY <1>7, <1>8, <1>9, <1>10

\* A failure changes the status of the page and the state of its manifest.
LEMMA TypedFailedHome ==
    ASSUME GroupTyped, NEW k, FailHome(k), UNCHANGED otherRows
    PROVE  PageTyped' /\ PageRevTyped' /\ MembersTyped' /\ ManifestsTyped' /\ ProjectionsTyped'
<1>1. UNCHANGED <<child, pageRev, childRev, pageProj, childProj>>
  BY DEF otherRows
<1>2. PICK p : p = [page EXCEPT !.status = "publish_failed"]
  OBVIOUS
<1>3. page' = p \/ page' = page
  BY <1>2 DEF FailHome
<1>4. /\ DOMAIN page' = {"status", "ver", "body", "pub"} /\ page'.status \in PageStatuses
      /\ page'.ver = page.ver /\ page'.body = page.body /\ page'.pub = page.pub
  BY <1>2, <1>3 DEF GroupTyped, PageTyped, PageStatuses
<1>5. PageTyped'
  BY <1>4 DEF GroupTyped, PageTyped, BodyTyped
<1>6. PageRevTyped'
  BY <1>1 DEF GroupTyped, PageRevTyped, BodyTyped
<1>7. page.ver \in Nat
  BY OutboxAssumption DEF GroupTyped, PageTyped, Versions
<1>8. MembersTyped' /\ ProjectionsTyped'
  BY <1>1, <1>4, <1>7, TypedOthers
<1>9. ManifestsTyped'
  <2>1. CASE UNCHANGED manifest
    BY <1>4, <1>7, <2>1, TypedOthers
  <2>2. CASE ~UNCHANGED manifest
    <3>1. k.ver \in DOMAIN manifest /\ manifest' = [manifest EXCEPT ![k.ver].state = "failed"]
      BY <2>2 DEF FailHome, IsPending
    <3> QED
      BY <1>4, <3>1, TypedState
  <2> QED
    BY <2>1, <2>2
<1> QED
  BY <1>5, <1>6, <1>8, <1>9

LEMMA TypedGroupFailure ==
    ASSUME GroupTyped, NEW w \in Workers, Fail(w) \/ FailContentPublish(w), UNCHANGED seen
    PROVE  GroupTyped'
<1>1. OutboxTyped'
  <2>1. CASE Fail(w)
    BY <2>1, TypedFailure DEF Fail, GroupTyped
  <2>2. CASE FailContentPublish(w)
    BY <2>2, TypedCompensation DEF FailContentPublish, GroupTyped, Busy
  <2> QED
    BY <2>1, <2>2
<1>2. \/ FailHome(work[w].key) /\ UNCHANGED otherRows
      \/ UNCHANGED groupRows
  BY DEF Fail, FailContentPublish
<1>3. PICK k : k = work[w].key
  OBVIOUS
<1>4. PageTyped' /\ PageRevTyped' /\ MembersTyped' /\ ManifestsTyped' /\ ProjectionsTyped'
  BY <1>2, <1>3, TypedFailedHome, TypedRows
<1> QED
  BY <1>1, <1>4 DEF GroupTyped

LEMMA TypedRead ==
    ASSUME GroupTyped, (ReadPage \/ ReadMembers) /\ UNCHANGED outboxVars
    PROVE  GroupTyped'
<1>1. UNCHANGED groupRows
  BY DEF ReadPage, ReadMembers
<1>2. "ver" \in DOMAIN seen' /\ seen'.ver \in 0 .. MaxVersion
  <2>1. page.ver \in 0 .. MaxVersion
    BY OutboxAssumption DEF GroupTyped, PageTyped, Versions
  <2>2. CASE ReadPage
    BY <2>1, <2>2 DEF ReadPage
  <2>3. CASE ReadMembers
    <3>1. PICK texts : texts = Texts
      OBVIOUS
    <3>2. seen' = [seen EXCEPT !.listed = TRUE, !.texts = texts]
      BY <2>3, <3>1 DEF ReadMembers
    <3> QED
      BY <3>2 DEF GroupTyped
  <2> QED
    BY <2>2, <2>3
<1>3. OutboxTyped'
  BY TypedEdit DEF GroupTyped, outboxVars, OutboxTyped
<1> QED
  BY <1>1, <1>2, <1>3, TypedRows DEF GroupTyped

LEMMA TypedGroupNext ==
    ASSUME GroupTyped, GroupNext \/ UNCHANGED groupVars
    PROVE  GroupTyped'
<1>1. ASSUME OutboxTyped', UNCHANGED <<groupRows, seen>>
      PROVE  GroupTyped'
  BY <1>1, TypedRows DEF GroupTyped
<1>2. ASSUME NEW w \in Workers, OutboxMoves(w), UNCHANGED <<groupRows, seen>>
      PROVE  GroupTyped'
  BY <1>1, <1>2, TypedMoves DEF GroupTyped
<1>3. ASSUME NEW w \in Workers, GroupWorker(w), UNCHANGED seen
      PROVE  GroupTyped'
  BY <1>2, <1>3, TypedHomeCompletion, TypedGroupFailure DEF GroupWorker, OutboxMoves
<1>4. CASE GroupEdit /\ UNCHANGED seen
  BY <1>4, TypedMember, TypedPageEdit, TypedPublish, TypedUnpublish, TypedHomeStart, TypedRestore
     DEF GroupEdit
<1>5. CASE UNCHANGED groupVars
  <2>1. OutboxTyped'
    BY <1>5, TypedEdit DEF GroupTyped, groupVars, outboxVars, OutboxTyped
  <2> QED
    BY <1>1, <1>5, <2>1 DEF groupVars
<1>6. CASE ReadPage \/ ReadMembers
  BY <1>6, TypedRead DEF ReadPage, ReadMembers
<1> QED
  BY <1>2, <1>3, <1>4, <1>5, <1>6 DEF GroupNext, OutboxMoves

LEMMA TypedMigration ==
    ASSUME GroupTyped, MigrationNext \/ UNCHANGED migrationVars
    PROVE  GroupTyped'
<1>1. CASE GroupNext \/ UNCHANGED groupVars
  BY <1>1, TypedGroupNext
<1>2. CASE ApplyMigration /\ UNCHANGED <<seen, outboxVars>>
  <2>1. PICK body : body = [template |-> "home.v2", text |-> Plan.text, banner |-> 0]
    OBVIOUS
  <2>2. BodyTyped(body)
    BY <2>1, OutboxAssumption DEF BodyTyped
  <2>3. Mutable
    BY <1>2 DEF ApplyMigration, CanPlan, Mutable, InFlight
  <2>4. UpdatePage(body)
    BY <1>2, <2>1, <2>3 DEF ApplyMigration, UpdatePage
  <2> QED
    BY <1>2, <2>2, <2>4, TypedUpdate
<1> QED
  BY <1>1, <1>2 DEF MigrationNext, PlanMigration, migrationVars, groupVars

LEMMA TypedGroupInit ==
    ASSUME GroupInit
    PROVE  GroupTyped
<1>1. PICK status, ver, body, first :
        /\ status = (IF Legacy THEN "published" ELSE "draft") /\ ver = (IF Legacy THEN 2 ELSE 1)
        /\ body = [template |-> IF PageKey = "home" THEN "home.v1" ELSE "about.v1",
                   text |-> Written(1), banner |-> 0]
        /\ first = CHOOSE c \in Children : TRUE
  OBVIOUS
<1>2. /\ page = [status |-> status, ver |-> ver, body |-> body, pub |-> NoRef]
      /\ pageRev = [v \in 1 .. page.ver |-> body]
      /\ pageProj = (IF Legacy THEN [ver |-> 2, body |-> body] ELSE NoPageProj)
  BY <1>1 DEF GroupInit
<1>3. ver \in Versions /\ ver \in Nat /\ 1 .. ver \subseteq Versions /\ 0 \in 0 .. MaxVersion
  BY <1>1, OutboxAssumption DEF Versions
<1>4. BodyTyped(body) /\ status \in PageStatuses
  BY <1>1, <1>3 DEF BodyTyped, PageStatuses
<1>5. PageTyped /\ PageRevTyped
  BY <1>2, <1>3, <1>4 DEF PageTyped, PageRevTyped
<1>6. ASSUME NEW c \in Children
      PROVE  MemberTyped(child[c], childRev[c], ver) /\ childProj[c].ver \in 0 .. ver
  <2>1. CASE Legacy /\ c = first
    <3>1. /\ child[c] = [status |-> "published", ver |-> 2, text |-> 1]
          /\ childRev[c] = [v \in 1 .. 2 |-> 1]
          /\ childProj[c] = [ver |-> 2, text |-> 1]
      BY <1>1, <2>1 DEF GroupInit
    <3>2. ver = 2
      BY <1>1, <2>1
    <3> QED
      BY <3>1, <3>2 DEF MemberTyped, MemberStatuses
  <2>2. CASE ~(Legacy /\ c = first)
    <3>1. /\ child[c] = [status |-> "absent", ver |-> 0, text |-> 0]
          /\ childRev[c] = [v \in {} |-> 0] /\ childProj[c] = NoChildProj
      BY <1>1, <2>2 DEF GroupInit, Gone
    <3>2. 0 \in 0 .. ver
      BY <1>3
    <3> QED
      BY <3>1, <3>2 DEF MemberTyped, MemberStatuses, NoChildProj
  <2> QED
    BY <2>1, <2>2
<1>7. MembersTyped
  <2>1. DOMAIN child = Children /\ DOMAIN childRev = Children /\ page.ver = ver
    BY <1>2 DEF GroupInit
  <2> QED
    BY <1>6, <2>1 DEF MembersTyped
<1>8. ProjectionsTyped
  <2>1. pageProj = NoPageProj \/ (pageProj.ver = 2 /\ ver = 2)
    BY <1>1, <1>2
  <2> QED
    BY <1>2, <1>6, <2>1 DEF ProjectionsTyped
<1>9. ManifestsTyped
  BY DEF GroupInit, ManifestsTyped
<1>10. "ver" \in DOMAIN seen /\ seen.ver \in 0 .. MaxVersion
  BY <1>3 DEF GroupInit
<1>11. OutboxTyped
  BY TypedOutboxInit DEF GroupInit
<1> QED
  BY <1>5, <1>7, <1>8, <1>9, <1>10, <1>11 DEF GroupTyped

\* All variables of a page group keep the values of their columns, whatever
\* editors, workers, crashes, lost leases and the migration do.  The members
\* have no limit of their own: what keeps their versions below MaxVersion is
\* that every transaction that writes a member counts up the page.
THEOREM GroupTypesHold == (GroupSpec \/ MigrationSpec) => []GroupTypeOK
<1>1. GroupInit => GroupTyped
  BY TypedGroupInit
<1>2. GroupTyped /\ [GroupNext]_groupVars => GroupTyped'
  BY TypedGroupNext
<1>3. GroupTyped /\ [MigrationNext]_migrationVars => GroupTyped'
  BY TypedMigration
<1>4. GroupTyped => GroupTypeOK
  BY TypedGroup
<1> QED
  BY <1>1, <1>2, <1>3, <1>4, PTL DEF GroupSpec, MigrationSpec
=============================================================================
