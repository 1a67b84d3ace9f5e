--------------------------- MODULE ContentOutbox ---------------------------
(***************************************************************************)
(* The outbox and its workers as the content modules use them: events that *)
(* grant public access to the images of one news entry or of the home page *)
(* at asset-api and revoke it.  BulletinPublication has the events of the  *)
(* bulletins.  A module that extends this one adds the rows of its entry   *)
(* and what a transaction of a handler does to them.                       *)
(*                                                                         *)
(* An image is named by the version of the entry that attached it, and a   *)
(* grant by the version in its idempotency key; 0 is no image, no grant.   *)
(* Readiness of an image is a choice of the step that asks for it.  Every  *)
(* step that does not go well is one of at most MaxFaults.                 *)
(***************************************************************************)
EXTENDS Integers, FiniteSets

CONSTANTS
    Workers,        \* worker loops, one per replica
    LeaseLoss,      \* whether a live worker can lose its lease
    MaxAttempts,    \* OUTBOX_MAX_ATTEMPTS
    MaxVersion,     \* bound: versions of the entry
    MaxFaults       \* bound: crashes, lost leases and answers, failed calls

\* The bounds; the page of a group may have two versions from the start.
ASSUME OutboxAssumption ==
    /\ MaxAttempts \in Nat \ {0}
    /\ MaxVersion \in Nat \ {0, 1}
    /\ MaxFaults \in Nat

VARIABLES
    outbox,    \* outbox_event rows by idempotency key
    work,      \* where each worker is in its handler
    grants,    \* asset-api: the live public grants
    faults     \* steps so far that did not go well, whether a lease was lost, and
               \* (a history, no step reads it) the grants no attempt knows of

outboxVars == <<outbox, work, grants, faults>>

Versions == 1 .. MaxVersion
InFlight == {"publishing", "unpublishing"}

\* The usages of an image: two covers of news, in the order of the handler, and
\* the banner of home.
Detail    == 1
HomeCover == 2
Banner    == 3
Images    == {Detail, HomeCover, Banner}

\* A grant of an image: PublishedAsset.
Ref(i, a, g) == [image |-> i, asset |-> a, grant |-> g]
Refs == [image : Images, asset : Versions, grant : 0 .. MaxVersion]

\* Idempotency keys: of a publication its version, of a revocation the grant,
\* once for a replaced grant and once for a failed publication, of a deletion
\* the image.
Key(kind, v, i)    == [kind |-> kind, ver |-> v, image |-> i]
PublishKey(v)      == Key("publish", v, 0)
UnpublishKey(v)    == Key("unpublish", v, 0)
RevokeKey(r)       == Key("revoke", r.grant, r.image)
CompensateKey(r)   == Key("compensate", r.grant, r.image)
DeleteKey(r)       == Key("delete", r.asset, r.image)

Event(refs) == [status |-> "pending", attempts |-> 0, refs |-> refs]

Open(k) == k \in DOMAIN outbox /\ outbox[k].status \in {"pending", "processing"}

\* INSERT ... ON CONFLICT(destination,idempotency_key) DO NOTHING, for events
\* with the keys KeyOf of some references.
Insert(box, KeyOf(_), refs) ==
    LET new == {KeyOf(r) : r \in refs} \ DOMAIN box
    IN [k \in DOMAIN box \cup new |->
            IF k \in new THEN Event({r \in refs : KeyOf(r) = k}) ELSE box[k]]

InsertOne(box, k, refs) ==
    IF k \in DOMAIN box THEN box
    ELSE [x \in DOMAIN box \cup {k} |-> IF x = k THEN Event(refs) ELSE box[x]]

\* The first reference of a set, in the order of newsPublishReferences.
First(refs) == CHOOSE r \in refs : \A x \in refs : r.image <= x.image

Idle == [pc |-> "idle"]

Busy(w, pc)    == work[w].pc = pc
Goto(w, pc)    == work' = [work EXCEPT ![w].pc = pc]
Release(w)     == work' = [work EXCEPT ![w] = Idle]
Holds(w, k)    == work[w] # Idle /\ work[w].key = k
EventOf(w)      == outbox[work[w].key]
GoesWrong      == faults.count < MaxFaults /\ faults' = [faults EXCEPT !.count = @ + 1]
LosesLease     == /\ LeaseLoss /\ faults.count < MaxFaults
                  /\ faults' = [faults EXCEPT !.count = @ + 1, !.lost = TRUE]

\* The attempt of a publication ends, and with it its list of grants.
Unattended(w) ==
    IF work[w].key.kind = "publish" /\ EventOf(w).status = "processing"
    THEN work[w].done ELSE {}

\* processNext on an error that is neither terminal nor to be compensated.
AfterError(w) == IF work[w].att >= MaxAttempts THEN "fail" ELSE "retry"

FirstStep(k) == CASE k.kind = "publish" -> "get"
                  [] k.kind = "delete"  -> "delete"
                  [] OTHER              -> "revoke"

\* Claim: a pending event, or one whose lease has run out.  The attempts
\* saturate at MaxAttempts, which is all they are compared with.
Claim(w, k) ==
    /\ work[w] = Idle
    /\ k \in DOMAIN outbox
    /\ \/ outbox[k].status = "pending" /\ UNCHANGED faults
       \/ /\ outbox[k].status = "processing"
          /\ IF \E x \in Workers : Holds(x, k) THEN LosesLease
                                               ELSE UNCHANGED faults
    /\ LET n == IF outbox[k].attempts < MaxAttempts THEN outbox[k].attempts + 1
                                                    ELSE MaxAttempts
       IN /\ outbox' = [outbox EXCEPT ![k].status = "processing", ![k].attempts = n]
          /\ work' = [work EXCEPT ![w] = [pc |-> FirstStep(k), key |-> k, att |-> n,
                                          done |-> {}]]
    /\ UNCHANGED grants

\* The process stops; the event stays 'processing' until its lease runs out.
Crash(w) ==
    /\ work[w] # Idle
    /\ faults.count < MaxFaults
    /\ faults' = [faults EXCEPT !.count = @ + 1, !.stray = @ \cup Unattended(w)]
    /\ Release(w)
    /\ UNCHANGED <<outbox, grants>>

\* Retry, and Defer which gives the attempt back.
Reopen(w) ==
    /\ Busy(w, "retry") \/ Busy(w, "defer")
    /\ outbox' = IF EventOf(w).status # "processing" THEN outbox
                 ELSE [outbox EXCEPT ![work[w].key].status = "pending",
                        ![work[w].key].attempts = IF Busy(w, "defer") THEN @ - 1 ELSE @]
    /\ faults' = [faults EXCEPT !.stray = @ \cup Unattended(w)]
    /\ Release(w)
    /\ UNCHANGED grants

\* After the commit of a transaction the worker is done, unless the answer of
\* the commit gets lost.
Answered(w, after) ==
    \/ Release(w) /\ UNCHANGED faults
    \/ Goto(w, after) /\ GoesWrong

\* The transaction rolls back.
RollsBack(w, after) == Goto(w, after) /\ GoesWrong /\ UNCHANGED outbox

Mark(box, k, status) == [box EXCEPT ![k].status = status]

\* assets.Get and readyAsset of all images: ready, pending, pending past the
\* deadline or not usable, or no answer.
GetAssets(w) ==
    /\ Busy(w, "get")
    /\ \/ Goto(w, "grant") /\ UNCHANGED faults
       \/ \E pc \in {"defer", "fail", AfterError(w)} : Goto(w, pc) /\ GoesWrong
    /\ UNCHANGED <<outbox, grants>>

Granted(w) == {r.image : r \in work[w].done}

\* CreatePublicGrant of one image after the other, idempotent for its key.
CreatePublicGrant(w, onError) ==
    /\ Busy(w, "grant")
    /\ LET left == {r \in EventOf(w).refs : r.image \notin Granted(w)}
           r    == [First(left) EXCEPT !.grant = work[w].key.ver]
       IN \/ left = {} /\ Goto(w, "complete") /\ UNCHANGED <<grants, faults>>
          \/ /\ left # {}
             /\ grants' = grants \cup {r}
             /\ \/ /\ work' = [work EXCEPT ![w].done = @ \cup {r}]
                   /\ faults' = [faults EXCEPT !.stray = @ \ {r}]
                \/ /\ faults.count < MaxFaults                 \* the answer is lost
                   /\ faults' = [faults EXCEPT !.count = @ + 1, !.stray = @ \cup {r}]
                   /\ Goto(w, onError)
          \/ left # {} /\ Goto(w, onError) /\ GoesWrong /\ UNCHANGED grants
    /\ UNCHANGED outbox

\* handleContentPublishFailure of an error that is not ErrStalePublication.
AfterPublishError(w) == IF work[w].att < MaxAttempts THEN "retry" ELSE "confirm"

\* Mutant of EventDelivered: the event is not looked at.
CompensateAtOnce(w) ==
    /\ Busy(w, "confirm")
    /\ Goto(w, "compensate")
    /\ UNCHANGED <<outbox, grants, faults>>

\* EventDelivered, before the compensation, in a query of its own.
EventDelivered(w) ==
    /\ Busy(w, "confirm")
    /\ \/ EventOf(w).status = "delivered" /\ Release(w) /\ UNCHANGED faults
       \/ EventOf(w).status # "delivered" /\ Goto(w, "compensate") /\ UNCHANGED faults
       \/ Goto(w, "retry") /\ GoesWrong
    /\ UNCHANGED <<outbox, grants>>

\* RevokeGrant of one image after the other; a grant that is not found counts
\* as revoked, and every error is retried.
RevokeGrant(w) ==
    /\ Busy(w, "revoke")
    /\ LET left == {r \in EventOf(w).refs : r.image \notin Granted(w)}
       IN \/ left = {} /\ Goto(w, "finish") /\ UNCHANGED <<grants, faults>>
          \/ /\ left # {}
             /\ grants' = grants \ {First(left)}
             /\ \/ /\ work' = [work EXCEPT ![w].done = @ \cup {First(left)}]
                   /\ UNCHANGED faults
                \/ Goto(w, "retry") /\ GoesWrong
          \/ left # {} /\ Goto(w, "retry") /\ GoesWrong /\ UNCHANGED grants
    /\ UNCHANGED outbox

\* assets.Delete of retire; with the image its grants are gone.
DeleteAsset(w) ==
    /\ Busy(w, "delete")
    /\ \/ /\ grants' = {g \in grants : \A r \in EventOf(w).refs :
                            <<g.image, g.asset>> # <<r.image, r.asset>>}
          /\ \/ Goto(w, "finish") /\ UNCHANGED faults
             \/ Goto(w, "retry") /\ GoesWrong
       \/ Goto(w, "retry") /\ GoesWrong /\ UNCHANGED grants
    /\ UNCHANGED outbox

\* Complete, for revocations and deletions, whatever the status is.
Complete(w) ==
    /\ Busy(w, "finish") /\ work[w].key.kind \in {"revoke", "compensate", "delete"}
    /\ \/ /\ outbox' = Mark(outbox, work[w].key, "delivered")
          /\ Answered(w, AfterError(w))
       \/ RollsBack(w, AfterError(w))
    /\ UNCHANGED grants

\* The steps that touch no row of the entry.
OutboxStep(w) ==
    \/ Reopen(w) \/ GetAssets(w) \/ EventDelivered(w)
    \/ RevokeGrant(w) \/ DeleteAsset(w) \/ Complete(w)

OutboxInit ==
    /\ outbox = [k \in {} |-> Event({})]
    /\ work = [w \in Workers |-> Idle]
    /\ grants = {}
    /\ faults = [count |-> 0, lost |-> FALSE, stray |-> {}]

\* The values of the rows.
OutboxTypeOK ==
    /\ \A k \in DOMAIN outbox :
          /\ k.kind \in {"publish", "unpublish", "revoke", "compensate", "delete"}
          /\ k.ver \in Versions
          /\ outbox[k].status \in {"pending", "processing", "delivered", "failed"}
          /\ outbox[k].attempts \in 0 .. MaxAttempts
          /\ outbox[k].refs \subseteq Refs
    /\ \A w \in Workers : work[w] = Idle \/
          /\ work[w].pc \in {"get", "grant", "complete", "confirm", "compensate",
                             "revoke", "delete", "finish", "retry", "defer", "fail"}
          /\ work[w].key \in DOMAIN outbox
          /\ work[w].att \in 1 .. MaxAttempts
          /\ work[w].done \subseteq Refs
    /\ grants \subseteq Refs
    /\ faults \in [count : 0 .. MaxFaults, lost : BOOLEAN, stray : SUBSET Refs]

\* A live grant that no row records: an event is still to revoke it; or its
\* publication goes on; or its publication has failed, and the last attempt did
\* not know of the grant, which nothing revokes then.
Accounted(g) ==
    \/ \E k \in DOMAIN outbox : k.kind # "publish" /\ Open(k) /\ g \in outbox[k].refs
    \/ Open(PublishKey(g.grant))
    \/ /\ PublishKey(g.grant) \in DOMAIN outbox
       /\ outbox[PublishKey(g.grant)].status = "failed" /\ g \in faults.stray
=============================================================================
