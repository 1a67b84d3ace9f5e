------------------------ MODULE PlainContentProofs ------------------------
(***************************************************************************)
(* What is public of a location or a page is complete, and no request takes*)
(* a locale away that it was not told to, whatever requests run at once and*)
(* however many locales and versions there are.  The service checks in a   *)
(* read before the transaction.  Between the two a request knows nothing,  *)
(* unless the version it holds is still the current one, and then what it  *)
(* checked still holds.                                                    *)
(***************************************************************************)
EXTENDS PlainContent, TLAPS

ItemOK ==
    /\ item.ver \in Nat
    /\ item.locales \subseteq Locales
    /\ item.status = "absent" => item.ver = 0 /\ item.locales = {}

\* What is public belongs to an entry that exists, and to a version of it.
ProjectionOK ==
    public # NotPublic =>
        /\ ItemExists
        /\ public.locales = Locales
        /\ public.ver <= item.ver /\ public.ver \in DOMAIN rev
        /\ rev[public.ver] = Locales

\* Revisions are of versions there were, and of supported locales.
RevisionsOK ==
    \A v \in DOMAIN rev : v \in Nat /\ v <= item.ver /\ rev[v] \subseteq Locales

Requested ==
    [pc : {"read", "write"}, kind : {"update", "restore", "publish", "unpublish", "delete"},
     expected : Nat, locales : SUBSET Locales, deleted : SUBSET Locales]

RequestOK(r) == r = NoRequest \/ r \in Requested

\* What a request was checked against still holds, if it holds the current
\* version: a publication is complete, an update or a restoration names every
\* locale there is.
CheckedOK(r, row) ==
    r # NoRequest =>
        \/ row.status = "deleted"
        \/ r.expected < row.ver
        \/ /\ r.expected = row.ver
           /\ (r.pc = "write" /\ r.kind = "publish") => row.locales = Locales
           /\ (r.pc = "write" /\ r.kind \in {"update", "restore"}) =>
                    row.locales \subseteq r.locales \cup r.deleted

PlainInv ==
    /\ ItemOK
    /\ ProjectionOK
    /\ RevisionsOK
    /\ DOMAIN req = Requests
    /\ \A q \in Requests : RequestOK(req[q]) /\ CheckedOK(req[q], item)

----------------------------------------------------------------------------
(* Each operation                                                          *)

LEMMA InitPlain == ASSUME PlainInit PROVE PlainInv
<1>1. ItemOK
  BY DEF PlainInit, ItemOK, GoneItem
<1>2. ProjectionOK
  BY DEF PlainInit, ProjectionOK
<1>3. RevisionsOK
  BY DEF PlainInit, RevisionsOK, GoneItem
<1>4. ASSUME NEW q \in Requests
      PROVE  RequestOK(req[q]) /\ CheckedOK(req[q], item)
  BY DEF PlainInit, RequestOK, CheckedOK
<1>5. DOMAIN req = Requests
  BY DEF PlainInit
<1> QED
  BY <1>1, <1>2, <1>3, <1>4, <1>5 DEF PlainInv

\* A request that was checked stays so when the entry gets a new version.
LEMMA OlderRequests ==
    ASSUME PlainInv, NEW q \in Requests, item.status # "deleted", item'.ver = item.ver + 1
    PROVE  CheckedOK(req[q], item')
<1>1. req[q] # NoRequest => req[q].expected \in Nat
  BY DEF PlainInv, RequestOK, Requested
<1>2. item.ver \in Nat /\ CheckedOK(req[q], item)
  BY DEF PlainInv, ItemOK
<1> QED
  BY <1>1, <1>2 DEF CheckedOK

LEMMA CreatePlain == ASSUME PlainInv, CreateContent PROVE PlainInv'
<1>1. PICK locales \in SUBSET Locales :
         /\ item' = [status |-> "draft", ver |-> 1, locales |-> locales]
         /\ rev' = [v \in {1} |-> locales]
  BY DEF CreateContent
<1>2. item.status = "absent" /\ public = NotPublic /\ public' = public /\ req' = req
  BY DEF PlainInv, ProjectionOK, CreateContent, ItemExists
<1>3. ItemOK' /\ ProjectionOK' /\ RevisionsOK'
  BY <1>1, <1>2 DEF ItemOK, ProjectionOK, RevisionsOK
<1>4. ASSUME NEW q \in Requests
      PROVE  CheckedOK(req[q], item')
  <2>1. req[q] # NoRequest => req[q].expected \in Nat
    BY DEF PlainInv, RequestOK, Requested
  <2>2. item.ver \in Nat /\ CheckedOK(req[q], item)
    BY DEF PlainInv, ItemOK
  <2>3. item.ver = 0
    BY <1>2 DEF PlainInv, ItemOK
  <2> QED
    BY <1>1, <1>2, <2>1, <2>2, <2>3 DEF CheckedOK
<1> QED
  BY <1>2, <1>3, <1>4 DEF PlainInv, RequestOK, Requested

\* Beginning and reading move a request and nothing else.
LEMMA OneRequest ==
    ASSUME PlainInv, NEW q \in Requests, NEW r, RequestOK(r), CheckedOK(r, item),
           req' = [req EXCEPT ![q] = r], UNCHANGED <<item, rev, public>>
    PROVE  PlainInv'
<1>1. ASSUME NEW x \in Requests
      PROVE  RequestOK(req'[x]) /\ CheckedOK(req'[x], item)
  <2>1. req'[x] = r \/ req'[x] = req[x]
    OBVIOUS
  <2> QED
    BY <2>1 DEF PlainInv
<1> QED
  BY <1>1 DEF PlainInv, ItemOK, ProjectionOK, RevisionsOK, ItemExists, RequestOK

LEMMA SentOK ==
    ASSUME NEW r \in Requested, r.kind \in {"unpublish", "delete"}, CheckedOK(r, item)
    PROVE  RequestOK([r EXCEPT !.pc = "write"]) /\ CheckedOK([r EXCEPT !.pc = "write"], item)
<1>1. [r EXCEPT !.pc = "write"] \in Requested /\ r # NoRequest
  BY DEF Requested, NoRequest
<1>2. /\ [r EXCEPT !.pc = "write"].kind = r.kind
      /\ [r EXCEPT !.pc = "write"].expected = r.expected
  BY DEF Requested
<1> QED
  BY <1>1, <1>2 DEF RequestOK, CheckedOK

LEMMA BeginPlain ==
    ASSUME PlainInv, NEW q \in Requests, BeginRequest(q)
    PROVE  PlainInv'
<1>1. item.ver \in Nat
  BY DEF PlainInv, ItemOK
<1>2. CASE \E kept \in SUBSET Locales \ {{}} : \E dropped \in SUBSET (Locales \ kept) :
             req' = [req EXCEPT ![q] = Request("update", kept, dropped)]
  <2>1. PICK kept \in SUBSET Locales, dropped \in SUBSET Locales :
             req' = [req EXCEPT ![q] = Request("update", kept, dropped)]
    BY <1>2
  <2>2. RequestOK(Request("update", kept, dropped)) /\ CheckedOK(Request("update", kept, dropped), item)
    BY <1>1 DEF RequestOK, Requested, CheckedOK, Request
  <2> QED
    BY <2>1, <2>2, OneRequest DEF BeginRequest
<1>3. CASE \E v \in DOMAIN rev : req' = [req EXCEPT ![q] = Request("restore", rev[v], {})]
  <2>1. PICK v \in DOMAIN rev : req' = [req EXCEPT ![q] = Request("restore", rev[v], {})]
    BY <1>3
  <2>2. rev[v] \subseteq Locales
    BY DEF PlainInv, RevisionsOK
  <2>3. RequestOK(Request("restore", rev[v], {})) /\ CheckedOK(Request("restore", rev[v], {}), item)
    BY <1>1, <2>2 DEF RequestOK, Requested, CheckedOK, Request
  <2> QED
    BY <2>1, <2>3, OneRequest DEF BeginRequest
<1>4. CASE req' = [req EXCEPT ![q] = Request("publish", {}, {})]
  <2>1. RequestOK(Request("publish", {}, {})) /\ CheckedOK(Request("publish", {}, {}), item)
    BY <1>1 DEF RequestOK, Requested, CheckedOK, Request
  <2> QED
    BY <1>4, <2>1, OneRequest DEF BeginRequest
<1>5. CASE \E kind \in {"unpublish", "delete"} :
             req' = [req EXCEPT ![q] = [Request(kind, {}, {}) EXCEPT !.pc = "write"]]
  <2>1. PICK kind \in {"unpublish", "delete"} :
             req' = [req EXCEPT ![q] = [Request(kind, {}, {}) EXCEPT !.pc = "write"]]
    BY <1>5
  <2>2. /\ Request(kind, {}, {}) \in Requested /\ Request(kind, {}, {}).kind = kind
        /\ CheckedOK(Request(kind, {}, {}), item)
    BY <1>1 DEF Requested, Request, CheckedOK
  <2> QED
    BY <2>1, <2>2, SentOK, OneRequest DEF BeginRequest
<1> QED
  BY <1>2, <1>3, <1>4, <1>5 DEF BeginRequest

LEMMA ReadPlain ==
    ASSUME PlainInv, NEW q \in Requests, ReadContent(q)
    PROVE  PlainInv'
<1>1. req[q] \in Requested /\ item.locales \subseteq Locales
  BY DEF PlainInv, ItemOK, ReadContent, RequestOK, NoRequest
<1> DEFINE refused == \/ ~ItemExists
                      \/ req[q].kind = "update" /\ LocaleSetMismatch(q)
                      \/ /\ req[q].kind = "publish"
                         /\ item.ver # req[q].expected \/ item.locales # Locales
           kept == IF req[q].kind = "restore" THEN item.locales ELSE {}
           checked == [req[q] EXCEPT !.pc = "write", !.locales = @ \cup kept]
           r == IF refused THEN NoRequest ELSE checked
<1>2. req' = [req EXCEPT ![q] = r] /\ UNCHANGED <<item, rev, public>>
  BY DEF ReadContent
<1>3. RequestOK(r)
  BY <1>1 DEF RequestOK, Requested
<1>4. CheckedOK(r, item)
  <2>1. CASE refused
    BY <2>1 DEF CheckedOK
  <2>2. CASE ~refused
    <3>1. /\ r = checked /\ checked.kind = req[q].kind /\ checked.expected = req[q].expected
          /\ checked.locales = req[q].locales \cup kept /\ checked.deleted = req[q].deleted
      BY <1>1, <2>2 DEF Requested
    <3>2. req[q].kind = "publish" => item.ver = req[q].expected /\ item.locales = Locales
      BY <2>2
    <3>3. req[q].kind \in {"update", "restore"} =>
                item.locales \subseteq checked.locales \cup checked.deleted
      BY <2>2, <3>1 DEF LocaleSetMismatch
    <3>4. CheckedOK(req[q], item) /\ req[q] # NoRequest
      BY <1>1 DEF PlainInv, Requested, NoRequest
    <3> QED
      BY <3>1, <3>2, <3>3, <3>4 DEF CheckedOK
  <2> QED
    BY <2>1, <2>2
<1> HIDE DEF r
<1> QED
  BY <1>2, <1>3, <1>4, OneRequest

\* The transactions: q is answered, and the entry is as Changed says.
LEMMA Answered ==
    ASSUME PlainInv, NEW q \in Requests, req' = [req EXCEPT ![q] = NoRequest],
           item.status # "deleted", item'.ver = item.ver + 1 \/ item'.status = "deleted",
           ItemOK', ProjectionOK', RevisionsOK'
    PROVE  PlainInv'
<1>1. ASSUME NEW x \in Requests
      PROVE  RequestOK(req'[x]) /\ CheckedOK(req'[x], item')
  <2>1. CheckedOK(req[x], item')
    <3>1. CASE item'.ver = item.ver + 1
      BY <3>1, OlderRequests
    <3>2. CASE item'.status = "deleted"
      BY <3>2 DEF CheckedOK
    <3> QED
      BY <3>1, <3>2
  <2>2. req'[x] = NoRequest \/ req'[x] = req[x]
    OBVIOUS
  <2>3. CheckedOK(NoRequest, item') /\ RequestOK(NoRequest) /\ RequestOK(req[x])
    BY DEF CheckedOK, RequestOK, PlainInv
  <2> QED
    BY <2>1, <2>2, <2>3
<1> QED
  BY <1>1 DEF PlainInv, RequestOK

\* A new version of the entry, with its revision.
LEMMA Saved ==
    ASSUME PlainInv, NEW status \in {"draft", "published", "unpublished"},
           NEW locales \in SUBSET Locales, Save(status, locales)
    PROVE  /\ item'.status = status /\ item'.ver = item.ver + 1 /\ item'.locales = locales
           /\ item.ver + 1 \in DOMAIN rev' /\ rev'[item.ver + 1] = locales
           /\ \A v \in DOMAIN rev : v \in DOMAIN rev' /\ rev'[v] = rev[v]
           /\ ItemOK' /\ RevisionsOK'
<1>1. item.ver \in Nat /\ \A v \in DOMAIN rev : v \in Nat /\ v <= item.ver /\ rev[v] \subseteq Locales
  BY DEF PlainInv, ItemOK, RevisionsOK
<1>2. item'.status = status /\ item'.ver = item.ver + 1 /\ item'.locales = locales
  BY DEF Save
<1>3. /\ DOMAIN rev' = DOMAIN rev \cup {item.ver + 1}
      /\ rev'[item.ver + 1] = locales
      /\ \A v \in DOMAIN rev : rev'[v] = rev[v]
  <2>1. \A v \in DOMAIN rev : v # item.ver + 1
    BY <1>1
  <2> QED
    BY <2>1 DEF Save
<1>4. ItemOK'
  BY <1>1, <1>2 DEF ItemOK
<1>5. RevisionsOK'
  <2> SUFFICES ASSUME NEW v \in DOMAIN rev'
               PROVE  v \in Nat /\ v <= item'.ver /\ rev'[v] \subseteq Locales
    BY DEF RevisionsOK
  <2>1. CASE v = item.ver + 1
    BY <2>1, <1>1, <1>2, <1>3
  <2>2. CASE v \in DOMAIN rev
    BY <2>2, <1>1, <1>2, <1>3
  <2> QED
    BY <2>1, <2>2, <1>3
<1> QED
  BY <1>2, <1>3, <1>4, <1>5

LEMMA WritePlain ==
    ASSUME PlainInv, NEW q \in Requests, Write(q)
    PROVE  PlainInv'
<1>1. req[q] \in Requested /\ req[q].pc = "write" /\ req[q] # NoRequest
  BY DEF PlainInv, Write, RequestOK, NoRequest
<1>2. req' = [req EXCEPT ![q] = NoRequest]
  BY DEF Write
<1>3. item.ver \in Nat /\ item.locales \subseteq Locales /\ CheckedOK(req[q], item)
  BY DEF PlainInv, ItemOK
<1>4. CASE WriteContent(q)
  <2>1. ItemExists /\ Save("draft", req[q].locales) /\ public' = public
    BY <1>4 DEF WriteContent, LockContentVersion
  <2>2. req[q].locales \in SUBSET Locales
    BY <1>1 DEF Requested
  <2>3. /\ item'.status = "draft" /\ item'.ver = item.ver + 1
        /\ \A v \in DOMAIN rev : v \in DOMAIN rev' /\ rev'[v] = rev[v]
        /\ ItemOK' /\ RevisionsOK'
    BY <2>1, <2>2, Saved
  <2>4. ProjectionOK'
    BY <1>3, <2>1, <2>3 DEF PlainInv, ProjectionOK, RevisionsOK, ItemExists
  <2> QED
    BY <1>2, <2>1, <2>3, <2>4, Answered DEF ItemExists
<1>5. CASE PublishContent(q)
  <2>1. /\ ItemExists /\ Save("published", item.locales)
        /\ public' = [ver |-> item.ver + 1, locales |-> item.locales]
        /\ item.ver = req[q].expected /\ req[q].kind = "publish"
    BY <1>5 DEF PublishContent, LockContentVersion
  <2>2. item.locales = Locales
    BY <1>1, <1>3, <2>1 DEF CheckedOK, ItemExists
  <2>3. /\ item'.status = "published" /\ item'.ver = item.ver + 1
        /\ item.ver + 1 \in DOMAIN rev' /\ rev'[item.ver + 1] = item.locales
        /\ ItemOK' /\ RevisionsOK'
    BY <1>3, <2>1, Saved
  <2>4. ProjectionOK'
    BY <1>3, <2>1, <2>2, <2>3 DEF ProjectionOK, ItemExists
  <2> QED
    BY <1>2, <2>1, <2>3, <2>4, Answered DEF ItemExists
<1>6. CASE UnpublishContent(q)
  <2>1. ItemExists /\ Save("unpublished", item.locales) /\ public' = NotPublic
    BY <1>6 DEF UnpublishContent, LockContentVersion
  <2>2. item'.ver = item.ver + 1 /\ ItemOK' /\ RevisionsOK'
    BY <1>3, <2>1, Saved
  <2>3. ProjectionOK'
    BY <2>1 DEF ProjectionOK
  <2> QED
    BY <1>2, <2>1, <2>2, <2>3, Answered DEF ItemExists
<1>7. CASE DeleteContent(q)
  <2>1. /\ ItemExists /\ public = NotPublic /\ public' = public
        /\ item' = [status |-> "deleted", ver |-> 0, locales |-> {}]
        /\ rev' = [v \in {} |-> {}]
    BY <1>7 DEF DeleteContent, CanDelete, GoneItem
  <2>2. ItemOK' /\ ProjectionOK' /\ RevisionsOK'
    BY <2>1 DEF ItemOK, ProjectionOK, RevisionsOK
  <2> QED
    BY <1>2, <2>1, <2>2, Answered DEF ItemExists
<1>8. CASE UNCHANGED <<item, rev, public>>
  <2>1. RequestOK(NoRequest) /\ CheckedOK(NoRequest, item)
    BY DEF RequestOK, CheckedOK
  <2> QED
    BY <1>2, <1>8, <2>1, OneRequest
<1> QED
  BY <1>4, <1>5, <1>6, <1>7, <1>8 DEF Write

LEMMA NextPlain ==
    ASSUME PlainInv, [PlainNext]_plainVars
    PROVE  PlainInv'
<1>1. CASE CreateContent
  BY <1>1, CreatePlain
<1>2. ASSUME NEW q \in Requests, BeginRequest(q) \/ ReadContent(q) \/ Write(q)
      PROVE  PlainInv'
  BY <1>2, BeginPlain, ReadPlain, WritePlain
<1>3. CASE UNCHANGED plainVars
  BY <1>3 DEF plainVars, PlainInv, ItemOK, ProjectionOK, RevisionsOK, ItemExists, RequestOK
<1> QED
  BY <1>1, <1>2, <1>3 DEF PlainNext

----------------------------------------------------------------------------
(* The theorems                                                            *)

\* Any number of requests may read and write as they like: what is public of
\* a location or of a page has all locales, as its revision has
\* (UpdateContent, PublishContent, RestoreContent, UnpublishContent and
\* DeleteContent of the service and of the repository).
THEOREM PublicIsComplete == PlainSpec => []PublicContentIsComplete
<1>1. PlainInit => PlainInv
  BY InitPlain
<1>2. PlainInv /\ [PlainNext]_plainVars => PlainInv'
  BY NextPlain
<1>3. PlainInv => PublicContentIsComplete
  BY DEF PlainInv, ProjectionOK, PublicContentIsComplete
<1> QED
  BY <1>1, <1>2, <1>3, PTL DEF PlainSpec

\* What one step does to the locales of the entry.
LEMMA LocalesStay ==
    ASSUME PlainInv, [PlainNext]_plainVars
    PROVE  LocalesAreKept
<1> SUFFICES ASSUME NEW l \in item.locales \ item'.locales, item'.status # "deleted"
             PROVE  \E q \in Requests : /\ req[q].pc = "write" /\ req'[q] = NoRequest
                                        /\ l \in req[q].deleted
  BY DEF LocalesAreKept
<1>1. ~CreateContent
  BY DEF PlainInv, ItemOK, CreateContent
<1>2. PICK q \in Requests : Write(q)
  BY <1>1 DEF PlainNext, plainVars, BeginRequest, ReadContent
<1>3. /\ req[q] \in Requested /\ req[q].pc = "write" /\ req[q] # NoRequest
      /\ CheckedOK(req[q], item)
  BY <1>2 DEF PlainInv, Write, RequestOK, NoRequest
<1>4. req'[q] = NoRequest
  BY <1>2 DEF Write, PlainInv
<1>5. WriteContent(q)
  BY <1>2 DEF Write, PublishContent, UnpublishContent, DeleteContent, Save, GoneItem
<1>6. /\ item.status # "deleted" /\ item.ver = req[q].expected
      /\ req[q].kind \in {"update", "restore"} /\ item'.locales = req[q].locales
  BY <1>5 DEF WriteContent, LockContentVersion, ItemExists, Save
<1>7. item.locales \subseteq req[q].locales \cup req[q].deleted
  <2>1. item.ver \in Nat
    BY DEF PlainInv, ItemOK
  <2> QED
    BY <1>3, <1>6, <2>1 DEF CheckedOK
<1>8. l \in req[q].deleted
  BY <1>6, <1>7
<1> QED
  BY <1>2, <1>3, <1>4, <1>8

\* No request takes away a locale it was not told to, not even one that was
\* added after the request was checked (UpdateContent and RestoreContent of the
\* service).
THEOREM LocalesRemain == PlainSpec => [][LocalesAreKept]_plainVars
<1>1. PlainInit => PlainInv
  BY InitPlain
<1>2. PlainInv /\ [PlainNext]_plainVars => PlainInv'
  BY NextPlain
<1>3. PlainInv /\ [PlainNext]_plainVars => [LocalesAreKept]_plainVars
  BY LocalesStay
<1> QED
  BY <1>1, <1>2, <1>3, PTL DEF PlainSpec

----------------------------------------------------------------------------
(* The types                                                               *)

PlainStatuses == {"absent", "deleted", "draft", "published", "unpublished"}

\* What PlainInv says nothing of.
ItemTyped ==
    /\ item.status \in PlainStatuses
    /\ item.ver \in 0 .. MaxItemVersion
    /\ DOMAIN rev \subseteq ItemVersions

LEMMA SavedItem ==
    ASSUME ItemTyped, NEW status \in PlainStatuses, NEW locales, Save(status, locales),
           item.ver < MaxItemVersion
    PROVE  ItemTyped'
<1>1. item'.status = status /\ item'.ver = item.ver + 1 /\ DOMAIN rev' = DOMAIN rev \cup {item.ver + 1}
  BY DEF Save
<1>2. item.ver + 1 \in 1 .. MaxItemVersion /\ item.ver + 1 \in 0 .. MaxItemVersion
  BY PlainAssumption DEF ItemTyped
<1> QED
  BY <1>1, <1>2 DEF ItemTyped, ItemVersions

LEMMA NextItem ==
    ASSUME ItemTyped, PlainNext \/ UNCHANGED plainVars
    PROVE  ItemTyped'
<1>1. CASE UNCHANGED <<item, rev>>
  BY <1>1 DEF ItemTyped
<1>2. CASE CreateContent
  <2>1. item'.status = "draft" /\ item'.ver = 1 /\ DOMAIN rev' = {1}
    BY <1>2 DEF CreateContent
  <2> QED
    BY <2>1, PlainAssumption DEF ItemTyped, PlainStatuses, ItemVersions
<1>3. ASSUME NEW q \in Requests, WriteContent(q) \/ PublishContent(q) \/ UnpublishContent(q)
      PROVE  ItemTyped'
  <2>1. /\ item.ver < MaxItemVersion
        /\ \/ Save("draft", req[q].locales)
           \/ Save("published", item.locales) \/ Save("unpublished", item.locales)
    BY <1>3 DEF WriteContent, PublishContent, UnpublishContent, LockContentVersion
  <2> QED
    BY <2>1, SavedItem DEF PlainStatuses
<1>4. ASSUME NEW q \in Requests, DeleteContent(q)
      PROVE  ItemTyped'
  <2>1. item'.status = "deleted" /\ item'.ver = 0 /\ DOMAIN rev' = {}
    BY <1>4 DEF DeleteContent, GoneItem
  <2> QED
    BY <2>1, PlainAssumption DEF ItemTyped, PlainStatuses
<1> QED
  BY <1>1, <1>2, <1>3, <1>4 DEF PlainNext, plainVars, BeginRequest, ReadContent, Write

\* All variables of a location or a page keep the values of their columns.
THEOREM PlainTypesHold == PlainSpec => []PlainTypeOK
<1>1. PlainInit => PlainInv /\ ItemTyped
  <2>1. ASSUME PlainInit
        PROVE  ItemTyped
    BY <2>1, PlainAssumption DEF PlainInit, ItemTyped, PlainStatuses, GoneItem, ItemVersions
  <2> QED
    BY <2>1, InitPlain
<1>2. PlainInv /\ ItemTyped /\ [PlainNext]_plainVars => PlainInv' /\ ItemTyped'
  BY NextPlain, NextItem
<1>3. ASSUME PlainInv, ItemTyped
      PROVE  PlainTypeOK
  <2>1. public.ver \in 0 .. MaxItemVersion
    <3>1. CASE public = NotPublic
      BY <3>1, PlainAssumption DEF NotPublic
    <3>2. CASE public # NotPublic
      <4>1. public.ver \in ItemVersions
        BY <1>3, <3>2 DEF PlainInv, ProjectionOK, ItemTyped
      <4> QED
        BY <4>1, PlainAssumption DEF ItemVersions
    <3> QED
      BY <3>1, <3>2
  <2>2. \A q \in Requests : req[q] = NoRequest \/ req[q].pc \in {"read", "write"}
    BY <1>3 DEF PlainInv, RequestOK, Requested
  <2> QED
    BY <1>3, <2>1, <2>2 DEF PlainInv, ItemOK, ItemTyped, PlainTypeOK, PlainStatuses
<1> QED
  BY <1>1, <1>2, <1>3, PTL DEF PlainSpec
=============================================================================
