---------------------------- MODULE PreviewProofs ----------------------------
(***************************************************************************)
(* Proofs about TranslationPreview: limits hold, previews are spaced, a    *)
(* failed call costs no waiting time and a text is not older than its      *)
(* version.  PreviewInv is the inductive invariant.  A counter may be      *)
(* deleted once its window is two days old; a request waits at most MaxWait*)
(* ticks for its reservation, so that its own counters are still there     *)
(* (Counted).  A cooldown row may be freed or replaced only when it has run*)
(* out or by the request that wrote it: its row is there, or its time is   *)
(* over (Held), and two requests never hold one row (Spaced).              *)
(***************************************************************************)
EXTENDS TranslationPreview, FiniteSetTheorems, TLAPS

\* A request whose preview was handed out, or still may be.
Active(r) == req[r].pc \in {"provider", "release"} \/ req[r].outcome = "success"

\* A request that can have left a cooldown row.
Cause(r) == req[r].pc \in {"provider", "release", "crashed"}
            \/ req[r].outcome \in {"success", "internal_failure"}

RequestOK(r) ==
    /\ req[r].pc \in {"new", "header", "text", "reserve", "provider"} => req[r].outcome = "none"
    /\ req[r].pc = "release" => req[r].outcome = "failure"
    /\ req[r].start <= clock
    /\ req[r].pc \in {"header", "text", "reserve"} => clock <= req[r].start + MaxWait
    /\ req[r].pc = "text" => req[r].version > 0 /\ (saved = 0 \/ req[r].version <= saved)
    /\ req[r].pc = "reserve" \/ Called(r) =>
          req[r].version > 0 /\ req[r].version = req[r].expected /\ req[r].text >= req[r].version
    /\ req[r].served => req[r].pc = "done" /\ req[r].outcome = "success"

\* The requests of a window that reached the provider.
Calls(c) == {r \in Requests : InWindow(r, c[1], c[2], c[3])}

Windows == Scopes \X Spans \X (0 .. MaxTime)

Counted(c) ==
    /\ Cardinality(Calls(c)) <= LimitOf(c[1], c[2])
    /\ c[3] >= clock - 2 * Day => Cardinality(Calls(c)) <= count[c]

RowHasCause(k) ==
    cooldown[k] # Free =>
        /\ cooldown[k].next = cooldown[k].updated + Cooldown
        /\ \E r \in Requests : req[r].version > 0 /\ Key(r) = k /\ req[r].start = cooldown[k].updated /\ Cause(r)

Held(r) == Active(r) => clock >= req[r].start + Cooldown \/ OwnCooldown(r)

Spaced(r, s) ==
    Active(r) /\ Active(s) /\ Key(r) = Key(s) =>
        \/ req[r].start >= req[s].start + Cooldown - MaxWait
        \/ req[s].start >= req[r].start + Cooldown - MaxWait

PreviewInv ==
    /\ PreviewTypeOK
    /\ \A r \in Requests : RequestOK(r)
    /\ \A c \in Windows : Counted(c)
    /\ \A k \in CooldownKeys : RowHasCause(k)
    /\ \A r \in Requests : Held(r)
    /\ \A r, s \in Requests : r # s => Spaced(r, s)

----------------------------------------------------------------------------
(* Constants, windows and keys                                             *)

LEMMA Constants ==
    /\ Minute \in Nat \ {0} /\ Day \in Nat \ {0} /\ Cooldown \in Nat \ {0}
    /\ MaxTime \in Nat /\ MaxWait \in Nat /\ MaxLife \in Nat /\ MaxFailures \in Nat
    /\ MaxSaves \in Nat \ {0} /\ MaxWait < Cooldown /\ MaxWait <= Day /\ Minute <= Day
    /\ IsFiniteSet(Requests) /\ \A r \in Requests : ActorOf[r] \in Actors /\ TargetOf[r] \in Targets
BY PreviewAssumption

\* A window begins at most a day before the instants it covers.
LEMMA WindowBegins ==
    ASSUME NEW span \in Spans, NEW t \in Nat
    PROVE  WindowStart(span, t) \in 0 .. t /\ t < WindowStart(span, t) + Day
<1>1. Length(span) \in Nat \ {0} /\ Length(span) <= Day BY Constants DEF Length
<1>2. \A n \in Nat, l \in Nat \ {0} : n % l \in 0 .. (l - 1) OBVIOUS
<1>3. \A n \in Nat, l \in Nat \ {0} : n % l <= n OBVIOUS
<1> DEFINE past == t % Length(span)
<1>4. past \in 0 .. (Length(span) - 1) /\ past <= t BY <1>1, <1>2, <1>3
<1>5. WindowStart(span, t) = t - past BY DEF WindowStart
<1> HIDE DEF past
<1> QED BY <1>1, <1>4, <1>5, Constants

LEMMA LimitType ==
    ASSUME NEW scope \in Scopes, NEW span \in Spans
    PROVE  LimitOf(scope, span) \in Nat
BY PreviewAssumption DEF LimitOf, Scopes, Spans

LEMMA CallsType ==
    ASSUME NEW c
    PROVE  IsFiniteSet(Calls(c)) /\ Cardinality(Calls(c)) \in Nat
BY Constants, FS_Subset, FS_CardinalityType DEF Calls

\* Fields of a request.
LEMMA RequestFields ==
    ASSUME PreviewTypeOK, NEW r \in Requests
    PROVE  /\ req[r] \in Request
           /\ req[r].start \in 0 .. MaxTime /\ req[r].expected \in 1 .. MaxSaves
           /\ req[r].version \in 0 .. MaxSaves /\ req[r].text \in 0 .. MaxSaves
           /\ req[r].outcome \in Outcomes /\ req[r].served \in BOOLEAN
BY DEF PreviewTypeOK, Request

LEMMA KeyType ==
    ASSUME PreviewTypeOK, NEW r \in Requests, req[r].version > 0
    PROVE  Key(r) \in CooldownKeys
BY RequestFields, Constants DEF Key, CooldownKeys

LEMMA CountersType ==
    ASSUME PreviewTypeOK, NEW r \in Requests, NEW c \in CountersOf(r)
    PROVE  /\ c \in Windows /\ c[1] \in {Deployment, ActorOf[r]} /\ c[2] \in Spans
           /\ c[3] = WindowStart(c[2], req[r].start)
           /\ c[3] <= req[r].start /\ req[r].start < c[3] + Day
<1>1. req[r].start \in 0 .. MaxTime /\ req[r].start \in Nat BY RequestFields, Constants
<1>2. PICK scope \in {Deployment, ActorOf[r]}, span \in Spans : c = <<scope, span, WindowStart(span, req[r].start)>>
  BY DEF CountersOf
<1>3. WindowStart(span, req[r].start) \in 0 .. req[r].start /\ req[r].start < WindowStart(span, req[r].start) + Day
  BY <1>1, WindowBegins
<1>4. c[1] = scope /\ c[2] = span /\ c[3] = WindowStart(span, req[r].start) BY <1>2
<1>5. scope \in Scopes BY Constants DEF Scopes
<1>6. WindowStart(span, req[r].start) \in 0 .. MaxTime BY <1>1, <1>3, Constants
<1> QED BY <1>2, <1>3, <1>4, <1>5, <1>6 DEF Windows

----------------------------------------------------------------------------
(* Steps of one request that change no row                                 *)

\* The request's new record: it has reached the provider if it had before, and
\* holds no cooldown row that it did not hold.
LEMMA Moves ==
    ASSUME PreviewInv, NEW r \in Requests, NEW new \in Request,
           req' = [req EXCEPT ![r] = new], UNCHANGED <<clock, saved, count, cooldown>>,
           failures' \in 0 .. MaxFailures, RequestOK(r)',
           Called(r)' <=> Called(r), Called(r) => new.start = req[r].start,
           Active(r)' => Active(r), Active(r) => new.start = req[r].start /\ new.version = req[r].version,
           Cause(r) => Cause(r)' /\ new.start = req[r].start /\ new.version = req[r].version
    PROVE  PreviewInv'
<1>1. /\ req' \in [Requests -> Request] /\ req'[r] = new
      /\ \A q \in Requests \ {r} : req'[q] = req[q]
  BY DEF PreviewInv, PreviewTypeOK
<1>2. PreviewTypeOK'
  BY <1>1 DEF PreviewInv, PreviewTypeOK
<1>3. \A q \in Requests : RequestOK(q)'
  <2> SUFFICES ASSUME NEW q \in Requests, q # r PROVE RequestOK(q)'
    OBVIOUS
  <2>1. RequestOK(q) /\ req'[q] = req[q] BY <1>1 DEF PreviewInv
  <2> QED BY <2>1 DEF RequestOK, Called
<1>4. ASSUME NEW c \in Windows PROVE Counted(c)'
  <2>1. \A q \in Requests : InWindow(q, c[1], c[2], c[3])' <=> InWindow(q, c[1], c[2], c[3])
    BY <1>1 DEF InWindow, Called
  <2>2. Calls(c)' = Calls(c) BY <2>1 DEF Calls
  <2> QED BY <2>2 DEF PreviewInv, Counted
<1>5. ASSUME NEW k \in CooldownKeys PROVE RowHasCause(k)'
  <2>1. RowHasCause(k) BY DEF PreviewInv
  <2>2. ASSUME NEW q \in Requests, Cause(q)
        PROVE  Cause(q)' /\ req'[q].start = req[q].start /\ req'[q].version = req[q].version
    BY <1>1, <2>2 DEF Cause
  <2> QED BY <2>1, <2>2 DEF RowHasCause, Key
<1>6. ASSUME NEW q \in Requests, Active(q)'
      PROVE  Active(q) /\ req'[q].start = req[q].start /\ req'[q].version = req[q].version
  BY <1>1, <1>6 DEF Active
<1>7. ASSUME NEW q \in Requests PROVE Held(q)'
  <2>1. Held(q) BY DEF PreviewInv
  <2> QED BY <2>1, <1>6 DEF Held, OwnCooldown, Key
<1>8. ASSUME NEW p \in Requests, NEW q \in Requests, p # q PROVE Spaced(p, q)'
  <2>1. Spaced(p, q) BY <1>8 DEF PreviewInv
  <2> QED BY <2>1, <1>6 DEF Spaced, Key
<1> QED BY <1>2, <1>3, <1>4, <1>5, <1>7, <1>8 DEF PreviewInv

LEMMA FailureType ==
    ASSUME PreviewInv, failures < MaxFailures, failures' = failures + 1
    PROVE  failures' \in 0 .. MaxFailures
BY Constants DEF PreviewInv, PreviewTypeOK

LEMMA StartInv ==
    ASSUME PreviewInv, NEW r \in Requests, Start(r)
    PROVE  PreviewInv'
<1>1. PICK e \in 1 .. MaxSaves : req' = [req EXCEPT ![r].pc = "header", ![r].start = clock, ![r].expected = e]
  BY DEF Start
<1> DEFINE new == [req[r] EXCEPT !.pc = "header", !.start = clock, !.expected = e]
<1>2. /\ req[r] \in Request /\ RequestOK(r) /\ req[r].pc = "new" /\ clock \in 0 .. MaxTime
      /\ req \in [Requests -> Request] /\ failures \in 0 .. MaxFailures
  BY DEF PreviewInv, PreviewTypeOK, Start
<1>3. req' = [req EXCEPT ![r] = new] BY <1>1
<1>4. /\ new \in Request /\ new.pc = "header" /\ new.start = clock /\ new.outcome = req[r].outcome
      /\ new.served = req[r].served /\ req[r].outcome = "none"
  BY <1>2 DEF Request, RequestOK
<1> HIDE DEF new
<1>5. req'[r] = new BY <1>2, <1>3
<1>6. UNCHANGED <<clock, saved, count, cooldown, failures>> BY DEF Start
<1>7. RequestOK(r)' BY <1>2, <1>4, <1>5, <1>6, Constants DEF RequestOK, Called
<1>8. /\ ~Called(r) /\ ~Called(r)' /\ ~Active(r) /\ ~Active(r)' /\ ~Cause(r)
  BY <1>2, <1>4, <1>5 DEF Called, Active, Cause
<1> QED BY <1>2, <1>3, <1>4, <1>6, <1>7, <1>8, Moves

LEMMA LoadHeaderInv ==
    ASSUME PreviewInv, NEW r \in Requests, LoadHeader(r)
    PROVE  PreviewInv'
<1>1. /\ req[r] \in Request /\ RequestOK(r) /\ req[r].pc = "header" /\ saved \in 0 .. MaxSaves
      /\ req \in [Requests -> Request] /\ failures \in 0 .. MaxFailures
  BY DEF PreviewInv, PreviewTypeOK, LoadHeader
<1>2. UNCHANGED <<clock, saved, count, cooldown, failures>> BY DEF LoadHeader
<1>3. ~Called(r) /\ ~Active(r) /\ ~Cause(r) /\ ~req[r].served /\ req[r].outcome = "none"
  BY <1>1 DEF RequestOK, Called, Active, Cause, Request
<1>4. CASE saved = 0
  <2> DEFINE new == [req[r] EXCEPT !.pc = "finish", !.outcome = "not_found"]
  <2>1. req' = [req EXCEPT ![r] = new] BY <1>4 DEF LoadHeader, Decide
  <2>2. /\ new \in Request /\ new.pc = "finish" /\ new.outcome = "not_found" /\ new.served = req[r].served
        /\ new.start = req[r].start
    BY <1>1 DEF Request, Outcomes
  <2> HIDE DEF new
  <2>3. req'[r] = new BY <1>1, <2>1
  <2>4. RequestOK(r)' BY <1>1, <1>2, <1>3, <2>2, <2>3 DEF RequestOK, Called
  <2>5. ~Called(r)' /\ ~Active(r)' BY <2>2, <2>3 DEF Called, Active
  <2> QED BY <1>1, <1>2, <1>3, <2>1, <2>2, <2>4, <2>5, Moves
<1>5. CASE saved # 0
  <2> DEFINE new == [req[r] EXCEPT !.pc = "text", !.version = saved]
  <2>1. req' = [req EXCEPT ![r] = new] BY <1>5 DEF LoadHeader
  <2>2. /\ new \in Request /\ new.pc = "text" /\ new.outcome = "none" /\ new.served = req[r].served
        /\ new.start = req[r].start /\ new.version = saved
    BY <1>1, <1>3 DEF Request
  <2> HIDE DEF new
  <2>3. req'[r] = new BY <1>1, <2>1
  <2>4. saved > 0 /\ saved <= saved BY <1>1, <1>5, Constants
  <2>5. RequestOK(r)' BY <1>1, <1>2, <1>3, <2>2, <2>3, <2>4 DEF RequestOK, Called
  <2>6. ~Called(r)' /\ ~Active(r)' BY <2>2, <2>3 DEF Called, Active
  <2> QED BY <1>1, <1>2, <1>3, <2>1, <2>2, <2>5, <2>6, Moves
<1> QED BY <1>4, <1>5

LEMMA LoadTextInv ==
    ASSUME PreviewInv, NEW r \in Requests, LoadText(r)
    PROVE  PreviewInv'
<1>1. /\ req[r] \in Request /\ RequestOK(r) /\ req[r].pc = "text" /\ saved \in 0 .. MaxSaves
      /\ req \in [Requests -> Request] /\ failures \in 0 .. MaxFailures
  BY DEF PreviewInv, PreviewTypeOK, LoadText
<1>2. UNCHANGED <<clock, saved, count, cooldown, failures>> BY DEF LoadText
<1>3. ~Called(r) /\ ~Active(r) /\ ~Cause(r) /\ ~req[r].served
  BY <1>1 DEF RequestOK, Called, Active, Cause, Request
<1> DEFINE verdict == Verdict(r, req[r].version, saved)
           pc == IF verdict = "none" THEN "reserve" ELSE "finish"
           new == [req[r] EXCEPT !.pc = pc, !.version = req[r].version, !.text = saved, !.outcome = verdict]
<1>4. req' = [req EXCEPT ![r] = new] BY DEF LoadText, Loaded
<1>5. /\ verdict \in {"none", "version_mismatch", "invalid", "existing_target"}
      /\ verdict = "none" => req[r].version = req[r].expected /\ saved # 0
  BY DEF Verdict
<1> HIDE DEF verdict
<1>6. /\ new \in Request /\ new.pc = pc /\ new.outcome = verdict /\ new.served = req[r].served
      /\ new.start = req[r].start /\ new.version = req[r].version /\ new.text = saved
      /\ new.expected = req[r].expected
  BY <1>1, <1>5 DEF Request, Outcomes
<1> HIDE DEF new
<1>7. req'[r] = new BY <1>1, <1>4
<1>8. verdict = "none" => /\ new.version > 0 /\ new.version = new.expected /\ new.text >= new.version
  BY <1>1, <1>5, <1>6, RequestFields, Constants DEF RequestOK, PreviewInv
<1>9. RequestOK(r)' BY <1>1, <1>2, <1>3, <1>5, <1>6, <1>7, <1>8 DEF RequestOK, Called
<1>10. ~Called(r)' /\ ~Active(r)' BY <1>5, <1>6, <1>7 DEF Called, Active
<1> QED BY <1>1, <1>2, <1>3, <1>4, <1>6, <1>9, <1>10, Moves

\* A request that goes on to pc with an outcome, and nothing else changes.
LEMMA Decides ==
    ASSUME PreviewInv, NEW r \in Requests, NEW outcome \in Outcomes,
           NEW pc \in {"provider", "release", "finish", "crashed"}, Decide(r, pc, outcome)
    PROVE  \E new \in Request :
              /\ req' = [req EXCEPT ![r] = new] /\ req'[r] = new
              /\ new.pc = pc /\ new.outcome = outcome /\ new.start = req[r].start
              /\ new.version = req[r].version /\ new.text = req[r].text
              /\ new.expected = req[r].expected /\ new.served = req[r].served
<1> DEFINE new == [req[r] EXCEPT !.pc = pc, !.outcome = outcome]
<1>1. req[r] \in Request /\ req \in [Requests -> Request] BY DEF PreviewInv, PreviewTypeOK
<1>2. req' = [req EXCEPT ![r] = new] BY DEF Decide
<1>3. /\ new.pc = pc /\ new.outcome = outcome /\ new.start = req[r].start
      /\ new.version = req[r].version /\ new.text = req[r].text
      /\ new.expected = req[r].expected /\ new.served = req[r].served
  BY <1>1 DEF Request
<1>4. new \in Request
  BY <1>1 DEF Request
<1>5. req'[r] = new BY <1>1, <1>2
<1> QED BY <1>2, <1>3, <1>4, <1>5

\* The steps after the reservation, and a crash at any point.
LEMMA DecisionMoves ==
    ASSUME PreviewInv, NEW r \in Requests, NEW pc \in {"release", "finish", "crashed"},
           NEW outcome \in Outcomes, Decide(r, pc, outcome),
           UNCHANGED <<clock, saved, count, cooldown>>, failures' \in 0 .. MaxFailures,
           ~req[r].served, pc = "release" => outcome = "failure",
           Called(r) <=> outcome \in {"success", "failure", "internal_failure"},
           pc = "release" \/ outcome = "success" => Active(r),
           Cause(r) => pc \in {"release", "crashed"} \/ outcome \in {"success", "internal_failure"}
    PROVE  PreviewInv'
<1>1. RequestOK(r) BY DEF PreviewInv
<1>2. PICK new \in Request :
         /\ req' = [req EXCEPT ![r] = new] /\ req'[r] = new
         /\ new.pc = pc /\ new.outcome = outcome /\ new.start = req[r].start
         /\ new.version = req[r].version /\ new.text = req[r].text
         /\ new.expected = req[r].expected /\ new.served = req[r].served
  BY Decides
<1>3. (Called(r)' <=> Called(r)) /\ (Active(r)' => Active(r)) /\ (Cause(r) => Cause(r)')
  BY <1>2 DEF Called, Active, Cause
<1>4. RequestOK(r)' BY <1>1, <1>2, <1>3 DEF RequestOK
<1> QED BY <1>2, <1>3, <1>4, Moves

LEMMA ProviderAnswersInv ==
    ASSUME PreviewInv, NEW r \in Requests, ProviderAnswers(r)
    PROVE  PreviewInv'
<1>1. /\ req[r].pc = "provider" /\ ~req[r].served /\ Called(r) /\ Active(r)
      /\ UNCHANGED <<clock, saved, count, cooldown>> /\ failures' \in 0 .. MaxFailures
  BY DEF ProviderAnswers, PreviewInv, PreviewTypeOK, RequestOK, Called, Active
<1>2. Decide(r, "finish", "success") \/ Decide(r, "release", "failure") BY DEF ProviderAnswers
<1>3. CASE Decide(r, "finish", "success") BY <1>1, <1>3, DecisionMoves DEF Outcomes
<1>4. CASE Decide(r, "release", "failure") BY <1>1, <1>4, DecisionMoves DEF Outcomes
<1> QED BY <1>2, <1>3, <1>4

LEMMA ReleaseFailsInv ==
    ASSUME PreviewInv, NEW r \in Requests, ReleaseFails(r)
    PROVE  PreviewInv'
<1>1. /\ req[r].pc = "release" /\ ~req[r].served /\ Called(r) /\ Active(r)
      /\ UNCHANGED <<clock, saved, count, cooldown>> /\ Decide(r, "finish", "internal_failure")
  BY DEF ReleaseFails, PreviewInv, RequestOK, Called, Active
<1>2. failures' \in 0 .. MaxFailures BY FailureType DEF ReleaseFails
<1> QED BY <1>1, <1>2, DecisionMoves DEF Outcomes

LEMMA RateLimitedInv ==
    ASSUME PreviewInv, NEW r \in Requests, req[r].pc = "reserve", Decide(r, "finish", "rate_limited"),
           UNCHANGED <<clock, saved, count, cooldown, failures>>
    PROVE  PreviewInv'
<1>1. /\ ~req[r].served /\ ~Called(r) /\ ~Cause(r) /\ failures' \in 0 .. MaxFailures
  BY DEF PreviewInv, PreviewTypeOK, RequestOK, Called, Cause
<1> QED BY <1>1, DecisionMoves DEF Outcomes

LEMMA RequestCrashesInv ==
    ASSUME PreviewInv, NEW r \in Requests, RequestCrashes(r)
    PROVE  PreviewInv'
<1> DEFINE outcome == IF req[r].pc = "provider" THEN "failure" ELSE req[r].outcome
<1>1. RequestOK(r) /\ req[r] \in Request /\ req[r].outcome \in Outcomes BY RequestFields DEF PreviewInv
<1>2. failures' \in 0 .. MaxFailures BY FailureType DEF RequestCrashes
<1>3. Decide(r, "crashed", outcome) /\ UNCHANGED <<clock, saved, count, cooldown>> /\ outcome \in Outcomes
  BY <1>1 DEF RequestCrashes, Outcomes
<1>4. req[r].pc # "done" BY DEF RequestCrashes, InFlight
<1>5. Called(r) <=> outcome \in {"success", "failure", "internal_failure"}
  BY <1>1 DEF RequestOK, Called
<1>6. outcome = "success" => Active(r) BY DEF Active
<1>7. ~req[r].served BY <1>1, <1>4 DEF RequestOK
<1> HIDE DEF outcome
<1> QED BY <1>2, <1>3, <1>5, <1>6, <1>7, DecisionMoves

LEMMA EndInv ==
    ASSUME PreviewInv, NEW r \in Requests, Finish(r) \/ AuditFails(r)
    PROVE  PreviewInv'
<1>1. /\ req[r] \in Request /\ RequestOK(r) /\ req[r].pc = "finish" /\ req \in [Requests -> Request]
      /\ UNCHANGED <<clock, saved, count, cooldown>>
  BY DEF PreviewInv, PreviewTypeOK, Finish, AuditFails
<1>2. failures' \in 0 .. MaxFailures
  BY FailureType DEF Finish, AuditFails, PreviewInv, PreviewTypeOK
<1>3. PICK served \in BOOLEAN : /\ req' = [req EXCEPT ![r].pc = "done", ![r].served = served]
                                /\ served => req[r].outcome = "success"
  <2>1. CASE Finish(r) BY <2>1 DEF Finish
  <2>2. CASE AuditFails(r)
    <3>1. [req[r] EXCEPT !.pc = "done", !.served = FALSE] = [req[r] EXCEPT !.pc = "done"]
      BY <1>1 DEF Request, RequestOK
    <3> QED BY <2>2, <3>1, <1>1 DEF AuditFails
  <2> QED BY <2>1, <2>2
<1> DEFINE new == [req[r] EXCEPT !.pc = "done", !.served = served]
<1>4. req' = [req EXCEPT ![r] = new] BY <1>3
<1>5. /\ new \in Request /\ new.pc = "done" /\ new.outcome = req[r].outcome /\ new.start = req[r].start
      /\ new.version = req[r].version /\ new.text = req[r].text
      /\ new.expected = req[r].expected /\ new.served = served
  BY <1>1 DEF Request
<1> HIDE DEF new
<1>6. req'[r] = new BY <1>1, <1>4
<1>7. (Called(r)' <=> Called(r)) /\ (Active(r)' => Active(r)) /\ (Cause(r) => Cause(r)')
  BY <1>1, <1>5, <1>6 DEF Called, Active, Cause
<1>8. RequestOK(r)' BY <1>1, <1>3, <1>5, <1>6, <1>7 DEF RequestOK
<1> QED BY <1>1, <1>2, <1>4, <1>5, <1>7, <1>8, Moves

----------------------------------------------------------------------------
(* The reservation and the release                                         *)

LEMMA ReserveInv ==
    ASSUME PreviewInv, NEW r \in Requests, Reserve(r)
    PROVE  PreviewInv'
<1> DEFINE now == req[r].start
           own == [next |-> now + Cooldown, updated |-> now]
           kept == [k \in CooldownKeys |-> IF k = Key(r) THEN own ELSE cooldown[k]]
           new == [req[r] EXCEPT !.pc = "provider"]
<1>1. CASE ~(WithinLimits(r) /\ CooledDown(r))
  BY <1>1, RateLimitedInv DEF Reserve
<1>2. CASE WithinLimits(r) /\ CooledDown(r)
  <2>1. /\ req[r] \in Request /\ RequestOK(r) /\ req[r].pc = "reserve" /\ clock \in 0 .. MaxTime
        /\ req \in [Requests -> Request] /\ PreviewTypeOK /\ now \in 0 .. MaxTime /\ now <= clock
        /\ clock <= now + MaxWait /\ req[r].version > 0 /\ Key(r) \in CooldownKeys
    BY KeyType DEF PreviewInv, PreviewTypeOK, Reserve, RequestOK, Request
  <2>2. /\ req' = [req EXCEPT ![r] = new]
        /\ count' = [c \in DOMAIN count |->
                    CASE c[3] < WindowStart("day", now) - 2 * Day -> 0
                      [] c \in CountersOf(r) -> count[c] + 1
                      [] OTHER -> count[c]]
        /\ cooldown' = [k \in CooldownKeys |-> IF kept[k].next < now - Day THEN Free ELSE kept[k]]
        /\ UNCHANGED <<clock, saved, failures>>
    BY <1>2 DEF Reserve
  <2>3. /\ new \in Request /\ new.pc = "provider" /\ new.outcome = req[r].outcome /\ new.start = now
        /\ new.version = req[r].version /\ new.text = req[r].text
        /\ new.expected = req[r].expected /\ new.served = req[r].served
    BY <2>1 DEF Request
  <2> HIDE DEF new
  <2>4. req'[r] = new /\ \A q \in Requests \ {r} : req'[q] = req[q]
    BY <2>1, <2>2
  <2>5. \A q \in Requests : Key(q)' = Key(q)
    BY <2>3, <2>4 DEF Key
  <2>6. ~Called(r) /\ Called(r)' /\ Active(r)' /\ Cause(r)' /\ ~Active(r)
    BY <2>1, <2>3, <2>4 DEF Called, Active, Cause, RequestOK
  <2>7. \A q \in Requests : RequestOK(q)'
    <3>1. RequestOK(r)' BY <2>1, <2>2, <2>3, <2>4 DEF RequestOK
    <3>2. \A q \in Requests \ {r} : RequestOK(q)'
      BY <2>2, <2>4 DEF PreviewInv, RequestOK, Called
    <3> QED BY <3>1, <3>2
  <2>8. own.next = now + Cooldown /\ own.updated = now
    OBVIOUS
  <2> HIDE DEF own
  <2>9. \A k \in CooldownKeys : /\ k # Key(r) => cooldown'[k] \in {Free, cooldown[k]}
                                /\ k # Key(r) /\ cooldown[k].next >= now => cooldown'[k] = cooldown[k]
    BY <2>1, <2>2, Constants DEF PreviewTypeOK
  <2>10. cooldown'[Key(r)] = own
    BY <2>1, <2>2, <2>8, Constants
  <2>11. ASSUME NEW c \in Windows PROVE Counted(c)'
    <3>1. /\ c[1] \in Scopes /\ c[2] \in Spans /\ c[3] \in 0 .. MaxTime /\ c = <<c[1], c[2], c[3]>>
          /\ c \in DOMAIN count /\ count[c] \in Nat /\ Counted(c) /\ c[3] \in Int
      BY <2>1 DEF Windows, PreviewTypeOK, PreviewInv
    <3>2. WindowStart("day", now) \in Int /\ WindowStart("day", now) <= now /\ now \in Nat /\ clock \in Nat
      BY <2>1, WindowBegins, Constants DEF Spans
    <3>3. \A q \in Requests \ {r} : InWindow(q, c[1], c[2], c[3])' <=> InWindow(q, c[1], c[2], c[3])
      BY <2>4 DEF InWindow, Called
    <3>4. r \notin Calls(c) BY <2>6 DEF Calls, InWindow
    <3>5. InWindow(r, c[1], c[2], c[3])' <=> c \in CountersOf(r)
      BY <3>1, <2>3, <2>4, <2>6 DEF InWindow, CountersOf
    <3>6. IsFiniteSet(Calls(c)) /\ Cardinality(Calls(c)) \in Nat BY CallsType
    <3>7. CASE c \in CountersOf(r)
      <4>1. Calls(c)' = Calls(c) \cup {r} BY <3>3, <3>5, <3>7 DEF Calls
      <4>2. Cardinality(Calls(c) \cup {r}) = Cardinality(Calls(c)) + 1 BY <3>4, <3>6, FS_AddElement
      <4>3. now < c[3] + Day BY <2>1, <3>7, CountersType
      <4>4. c[3] >= clock - 2 * Day /\ c[3] >= WindowStart("day", now) - 2 * Day
        BY <2>1, <3>1, <3>2, <4>3, Constants
      <4>5. count'[c] = count[c] + 1 BY <2>2, <3>1, <3>2, <3>7, <4>4, Constants
      <4>6. count[c] + 1 <= LimitOf(c[1], c[2]) BY <1>2, <3>7 DEF WithinLimits
      <4>7. Cardinality(Calls(c)) <= count[c] BY <3>1, <4>4 DEF Counted
      <4>8. LimitOf(c[1], c[2]) \in Nat BY <3>1, LimitType
      <4>9. Cardinality(Calls(c))' = Cardinality(Calls(c)) + 1 BY <4>1, <4>2
      <4> QED BY <3>1, <3>6, <4>5, <4>6, <4>7, <4>8, <4>9 DEF Counted
    <3>8. CASE c \notin CountersOf(r)
      <4>1. Calls(c)' = Calls(c) BY <3>3, <3>4, <3>5, <3>8 DEF Calls, InWindow
      <4>2. ASSUME c[3] >= clock - 2 * Day PROVE count'[c] = count[c]
        <5>1. c[3] >= WindowStart("day", now) - 2 * Day BY <2>1, <3>1, <3>2, <4>2, Constants
        <5> QED BY <2>2, <3>1, <3>2, <3>8, <5>1, Constants
      <4> QED BY <2>2, <3>1, <4>1, <4>2 DEF Counted
    <3> QED BY <3>7, <3>8
  <2>12. PreviewTypeOK'
    <3>1. \A c \in DOMAIN count : /\ count[c] \in Nat /\ count[c] <= LimitOf(c[1], c[2])
                                  /\ LimitOf(c[1], c[2]) \in Nat
      BY <2>1, LimitType DEF PreviewTypeOK
    <3>2. \A c \in DOMAIN count : c \in CountersOf(r) => count[c] + 1 <= LimitOf(c[1], c[2])
      BY <1>2 DEF WithinLimits
    <3>3. DOMAIN count' = DOMAIN count
          /\ \A c \in DOMAIN count : \/ count'[c] \in {0, count[c]}
                                     \/ c \in CountersOf(r) /\ count'[c] = count[c] + 1
      BY <2>2
    <3>4. /\ count' \in [Scopes \X Spans \X (0 .. MaxTime) -> Nat]
          /\ \A c \in DOMAIN count' : count'[c] <= LimitOf(c[1], c[2])
      <4>1. \A c \in DOMAIN count : count'[c] \in Nat /\ count'[c] <= LimitOf(c[1], c[2])
        BY <3>1, <3>2, <3>3
      <4>2. DOMAIN count = Scopes \X Spans \X (0 .. MaxTime) BY <2>1 DEF PreviewTypeOK
      <4> QED BY <2>2, <3>3, <4>1, <4>2
    <3>5. cooldown' \in [CooldownKeys -> [next : 0 .. MaxTime + Cooldown, updated : -1 .. MaxTime]]
      <4>1. own \in [next : 0 .. MaxTime + Cooldown, updated : -1 .. MaxTime]
        BY <2>1, Constants DEF own
      <4>2. Free \in [next : 0 .. MaxTime + Cooldown, updated : -1 .. MaxTime]
        BY Constants DEF Free
      <4>3. \A k \in CooldownKeys : cooldown'[k] \in {Free, own, cooldown[k]}
        BY <2>9, <2>10
      <4>4. cooldown' = [k \in CooldownKeys |-> cooldown'[k]] BY <2>2
      <4> QED BY <2>1, <4>1, <4>2, <4>3, <4>4 DEF PreviewTypeOK
    <3>6. req' \in [Requests -> Request] BY <2>1, <2>2, <2>3
    <3> QED BY <2>1, <2>2, <3>4, <3>5, <3>6 DEF PreviewTypeOK
  <2>13. ASSUME NEW k \in CooldownKeys PROVE RowHasCause(k)'
    <3>1. CASE k = Key(r)
      BY <3>1, <2>1, <2>3, <2>4, <2>5, <2>6, <2>8, <2>10 DEF RowHasCause
    <3>2. CASE k # Key(r) /\ cooldown'[k] # Free
      <4>1. cooldown'[k] = cooldown[k] BY <2>9, <3>2
      <4>2. PICK q \in Requests : /\ req[q].version > 0 /\ Key(q) = k
                                  /\ req[q].start = cooldown[k].updated /\ Cause(q)
        BY <3>2, <4>1 DEF PreviewInv, RowHasCause
      <4>3. q # r BY <3>2, <4>2
      <4>4. req'[q] = req[q] /\ Cause(q)' /\ Key(q)' = k BY <2>4, <2>5, <4>2, <4>3 DEF Cause
      <4> QED BY <4>1, <4>2, <4>4 DEF PreviewInv, RowHasCause
    <3>3. CASE k # Key(r) /\ cooldown'[k] = Free
      BY <3>3 DEF RowHasCause
    <3> QED BY <3>1, <3>2, <3>3
  <2>13a. ASSUME NEW q \in Requests \ {r}, Active(q), Key(q) = Key(r)
          PROVE  /\ clock >= req[q].start + Cooldown
                 /\ now >= req[q].start + Cooldown - MaxWait
    <3>1. Held(q) /\ req[q].start \in Nat BY <2>1, RequestFields, Constants DEF PreviewInv
    <3>2. CASE OwnCooldown(q)
      <4>1. cooldown[Key(r)].next = req[q].start + Cooldown BY <3>2, <2>13a DEF OwnCooldown
      <4>2. cooldown[Key(r)] # Free BY <3>1, <4>1, Constants DEF Free
      <4>3. req[q].start + Cooldown <= now BY <1>2, <4>1, <4>2 DEF CooledDown
      <4> QED BY <2>1, <3>1, <4>3, Constants
    <3>3. CASE clock >= req[q].start + Cooldown
      BY <2>1, <3>1, <3>3, Constants
    <3> QED BY <2>13a, <3>1, <3>2, <3>3 DEF Held
  <2>14. ASSUME NEW q \in Requests PROVE Held(q)'
    <3>1. CASE q = r
      BY <3>1, <2>3, <2>4, <2>5, <2>10 DEF Held, OwnCooldown, own
    <3>2. CASE q # r /\ Active(q) /\ Key(q) = Key(r)
      BY <3>2, <2>2, <2>4, <2>13a DEF Held
    <3>3. CASE q # r /\ Active(q) /\ Key(q) # Key(r)
      <4>1. Held(q) /\ req[q].start \in Nat /\ Called(q) /\ req[q].version > 0 /\ Key(q) \in CooldownKeys
        BY <2>1, <3>3, RequestFields, KeyType, Constants DEF PreviewInv, Active, Called, RequestOK
      <4>2. CASE clock >= req[q].start + Cooldown
        BY <4>2, <3>3, <2>2, <2>4 DEF Held
      <4>3. CASE OwnCooldown(q) /\ ~(clock >= req[q].start + Cooldown)
        <5>1. cooldown[Key(q)].next = req[q].start + Cooldown BY <4>3 DEF OwnCooldown
        <5>2. cooldown[Key(q)].next >= now BY <2>1, <4>1, <4>3, <5>1, Constants
        <5>3. cooldown'[Key(q)] = cooldown[Key(q)] BY <2>9, <3>3, <4>1, <5>2
        <5> QED BY <2>4, <2>5, <3>3, <4>3, <5>3 DEF Held, OwnCooldown
      <4> QED BY <3>3, <4>1, <4>2, <4>3 DEF Held
    <3>4. CASE q # r /\ ~Active(q)
      BY <3>4, <2>4 DEF Held, Active
    <3> QED BY <3>1, <3>2, <3>3, <3>4
  <2>15. ASSUME NEW p \in Requests, NEW q \in Requests, p # q PROVE Spaced(p, q)'
    <3>1. CASE p # r /\ q # r
      BY <3>1, <2>4, <2>5, <2>15 DEF PreviewInv, Spaced, Active
    <3>2. CASE p = r
      BY <3>2, <2>3, <2>4, <2>5, <2>13a, <2>15 DEF Spaced, Active
    <3>3. CASE q = r
      BY <3>3, <2>3, <2>4, <2>5, <2>13a, <2>15 DEF Spaced, Active
    <3> QED BY <3>1, <3>2, <3>3
  <2> QED BY <2>7, <2>11, <2>12, <2>13, <2>14, <2>15 DEF PreviewInv
<1> QED BY <1>1, <1>2

\* A release frees the row the request wrote, which no other active request
\* holds: two that held one row would have started at once.
LEMMA ReleaseInv ==
    ASSUME PreviewInv, NEW r \in Requests, Release(r)
    PROVE  PreviewInv'
<1>1. /\ RequestOK(r) /\ req[r].pc = "release" /\ req[r].outcome = "failure" /\ Called(r) /\ Active(r)
      /\ PreviewTypeOK /\ UNCHANGED <<clock, saved, count, failures>> /\ req[r].version > 0
      /\ req \in [Requests -> Request]
  BY DEF PreviewInv, PreviewTypeOK, Release, RequestOK, Called, Active
<1>2. PICK new \in Request :
         /\ req' = [req EXCEPT ![r] = new] /\ req'[r] = new
         /\ new.pc = "finish" /\ new.outcome = "failure" /\ new.start = req[r].start
         /\ new.version = req[r].version /\ new.text = req[r].text
         /\ new.expected = req[r].expected /\ new.served = req[r].served
  BY <1>1, Decides DEF Release, Outcomes
<1>3. \A q \in Requests \ {r} : req'[q] = req[q]
  BY <1>1, <1>2
<1>4. \A q \in Requests : Key(q)' = Key(q) /\ req'[q].start = req[q].start
  BY <1>2, <1>3 DEF Key
<1>5. Called(r)' /\ ~Active(r)'
  BY <1>2 DEF Called, Active
<1>6. cooldown' = IF OwnCooldown(r) THEN [cooldown EXCEPT ![Key(r)] = Free] ELSE cooldown
  BY DEF Release
<1>7. Key(r) \in CooldownKeys
  BY <1>1, KeyType
<1>8. /\ \A k \in CooldownKeys : k # Key(r) \/ ~OwnCooldown(r) => cooldown'[k] = cooldown[k]
      /\ OwnCooldown(r) => cooldown'[Key(r)] = Free
  BY <1>1, <1>6, <1>7 DEF PreviewTypeOK
<1>9. PreviewTypeOK'
  <2>1. Free \in [next : 0 .. MaxTime + Cooldown, updated : -1 .. MaxTime] BY Constants DEF Free
  <2>2. cooldown' \in [CooldownKeys -> [next : 0 .. MaxTime + Cooldown, updated : -1 .. MaxTime]]
    BY <1>1, <1>6, <2>1 DEF PreviewTypeOK
  <2> QED BY <1>1, <1>2, <2>2 DEF PreviewTypeOK
<1>10. \A q \in Requests : RequestOK(q)'
  <2>1. RequestOK(r)' BY <1>1, <1>2 DEF RequestOK, Called
  <2>2. \A q \in Requests \ {r} : RequestOK(q)' BY <1>1, <1>3 DEF PreviewInv, RequestOK, Called
  <2> QED BY <2>1, <2>2
<1>11. ASSUME NEW c \in Windows PROVE Counted(c)'
  <2>1. \A q \in Requests : InWindow(q, c[1], c[2], c[3])' <=> InWindow(q, c[1], c[2], c[3])
    BY <1>1, <1>2, <1>3, <1>5 DEF InWindow, Called
  <2>2. Calls(c)' = Calls(c) BY <2>1 DEF Calls
  <2> QED BY <1>1, <2>2 DEF PreviewInv, Counted
<1>12. ASSUME NEW k \in CooldownKeys PROVE RowHasCause(k)'
  <2>1. CASE cooldown'[k] # Free
    <3>1. cooldown'[k] = cooldown[k] BY <1>8, <2>1
    <3>2. PICK q \in Requests : /\ req[q].version > 0 /\ Key(q) = k
                                /\ req[q].start = cooldown[k].updated /\ Cause(q)
      BY <2>1, <3>1 DEF PreviewInv, RowHasCause
    <3>3. cooldown[k].next = cooldown[k].updated + Cooldown
      BY <2>1, <3>1 DEF PreviewInv, RowHasCause
    <3>4. q # r
      <4> SUFFICES ASSUME q = r PROVE FALSE
        OBVIOUS
      <4>1. cooldown[k] = [next |-> req[r].start + Cooldown, updated |-> req[r].start]
        BY <1>1, <3>2, <3>3 DEF PreviewTypeOK
      <4>2. OwnCooldown(r) BY <3>2, <4>1 DEF OwnCooldown
      <4> QED BY <1>8, <2>1, <3>2, <4>2
    <3>5. Cause(q)' /\ req'[q] = req[q] BY <1>3, <3>2, <3>4 DEF Cause
    <3> QED BY <1>4, <3>1, <3>2, <3>3, <3>5 DEF RowHasCause
  <2>2. CASE cooldown'[k] = Free BY <2>2 DEF RowHasCause
  <2> QED BY <2>1, <2>2
<1>13. ASSUME NEW q \in Requests, Active(q)' PROVE q # r /\ Active(q)
  BY <1>3, <1>5, <1>13 DEF Active
<1>14. ASSUME NEW q \in Requests, Active(q)' PROVE Held(q)'
  <2>1. q # r /\ Active(q) /\ Held(q) BY <1>13, <1>14 DEF PreviewInv
  <2>2. CASE clock >= req[q].start + Cooldown BY <1>1, <1>4, <2>2 DEF Held
  <2>3. CASE OwnCooldown(q)
    <3>1. Key(q) = Key(r) => Spaced(q, r) BY <2>1 DEF PreviewInv
    <3>2. Key(q) = Key(r) => req[q].start # req[r].start
      BY <1>1, <2>1, <3>1, RequestFields, Constants DEF Spaced
    <3>3. Key(q) = Key(r) => ~OwnCooldown(r)
      BY <2>3, <3>2 DEF OwnCooldown
    <3>4. Called(q) /\ RequestOK(q) BY <2>1 DEF PreviewInv, Active, Called, RequestOK
    <3>5. Key(q) \in CooldownKeys BY <1>1, <3>4, KeyType DEF RequestOK
    <3>6. cooldown'[Key(q)] = cooldown[Key(q)] BY <1>8, <3>3, <3>5
    <3> QED BY <1>4, <2>3, <3>6 DEF Held, OwnCooldown
  <2> QED BY <2>1, <2>2, <2>3 DEF Held
<1>15. ASSUME NEW p \in Requests, NEW q \in Requests, p # q PROVE Spaced(p, q)'
  <2>1. Spaced(p, q) BY <1>15 DEF PreviewInv
  <2> QED BY <1>4, <1>13, <2>1 DEF Spaced
<1> QED BY <1>9, <1>10, <1>11, <1>12, <1>14, <1>15 DEF PreviewInv, Held

----------------------------------------------------------------------------
(* The surroundings                                                        *)

LEMMA SourceInv ==
    ASSUME PreviewInv, SaveSource \/ DeleteSource
    PROVE  PreviewInv'
<1>1. /\ UNCHANGED <<clock, count, cooldown, req, failures>> /\ saved \in 0 .. MaxSaves
      /\ saved' = 0 \/ (saved' = saved + 1 /\ saved \in 1 .. MaxSaves - 1)
  BY DEF SaveSource, DeleteSource, PreviewInv, PreviewTypeOK
<1>2. PreviewTypeOK'
  BY <1>1, Constants DEF PreviewInv, PreviewTypeOK
<1>3. ASSUME NEW r \in Requests PROVE RequestOK(r)'
  <2>1. RequestOK(r) /\ req[r].version \in Nat BY RequestFields, Constants DEF PreviewInv
  <2>2. (saved = 0 \/ req[r].version <= saved) /\ req[r].version > 0
         => (saved' = 0 \/ req[r].version <= saved')
    BY <1>1, <2>1, Constants
  <2> QED BY <1>1, <2>1, <2>2 DEF RequestOK, Called
<1>4. /\ \A c \in Windows : Counted(c)'
      /\ \A k \in CooldownKeys : RowHasCause(k)'
      /\ \A r \in Requests : Held(r)'
      /\ \A r, s \in Requests : r # s => Spaced(r, s)'
  <2>1. \A c \in Windows : Counted(c)'
    BY <1>1 DEF PreviewInv, Counted, Calls, InWindow, Called
  <2>2. \A k \in CooldownKeys : RowHasCause(k)'
    BY <1>1 DEF PreviewInv, RowHasCause, Key, Cause
  <2>3. \A r \in Requests : Held(r)'
    BY <1>1 DEF PreviewInv, Held, Active, OwnCooldown, Key
  <2>4. \A r, s \in Requests : r # s => Spaced(r, s)'
    BY <1>1 DEF PreviewInv, Spaced, Active, Key
  <2> QED BY <2>1, <2>2, <2>3, <2>4
<1> QED BY <1>2, <1>3, <1>4 DEF PreviewInv

LEMMA TickInv ==
    ASSUME PreviewInv, Tick
    PROVE  PreviewInv'
<1>1. /\ UNCHANGED <<saved, count, cooldown, req, failures>> /\ clock \in 0 .. MaxTime /\ clock < MaxTime
      /\ clock' = clock + 1 /\ clock' \in 0 .. MaxTime
  BY Constants DEF Tick, PreviewInv, PreviewTypeOK
<1>2. PreviewTypeOK'
  BY <1>1 DEF PreviewInv, PreviewTypeOK
<1>3. ASSUME NEW r \in Requests PROVE RequestOK(r)'
  <2>1. RequestOK(r) /\ req[r].start \in Nat BY RequestFields, Constants DEF PreviewInv
  <2>2. ASSUME req[r].pc \in {"header", "text", "reserve"} PROVE clock' <= req[r].start + MaxWait
    <3>1. clock < req[r].start + MaxWait BY <2>2 DEF Tick, InFlight, Deadline
    <3> QED BY <1>1, <2>1, <3>1, Constants
  <2>3. req[r].start <= clock' BY <1>1, <2>1, Constants DEF RequestOK
  <2> QED BY <1>1, <2>1, <2>2, <2>3 DEF RequestOK, Called
<1>4. ASSUME NEW c \in Windows PROVE Counted(c)'
  <2>1. Calls(c)' = Calls(c) BY <1>1 DEF Calls, InWindow, Called
  <2>2. c[3] \in Int BY DEF Windows
  <2>3. c[3] >= clock' - 2 * Day => c[3] >= clock - 2 * Day BY <1>1, <2>2, Constants
  <2> QED BY <1>1, <2>1, <2>3 DEF PreviewInv, Counted
<1>5. \A k \in CooldownKeys : RowHasCause(k)'
  BY <1>1 DEF PreviewInv, RowHasCause, Key, Cause
<1>6. ASSUME NEW r \in Requests PROVE Held(r)'
  <2>1. Held(r) /\ req[r].start \in Nat BY RequestFields, Constants DEF PreviewInv
  <2> QED BY <1>1, <2>1, Constants DEF Held, Active, OwnCooldown, Key
<1>7. \A r, s \in Requests : r # s => Spaced(r, s)'
  BY <1>1 DEF PreviewInv, Spaced, Active, Key
<1> QED BY <1>2, <1>3, <1>4, <1>5, <1>6, <1>7 DEF PreviewInv

----------------------------------------------------------------------------
(* The theorems                                                            *)

LEMMA PreviewInitInv == PreviewInit => PreviewInv
<1> SUFFICES ASSUME PreviewInit PROVE PreviewInv
  OBVIOUS
<1>1. /\ Unasked \in Request /\ Unasked.pc = "new" /\ Unasked.outcome = "none" /\ ~Unasked.served
      /\ Unasked.start = 0 /\ Unasked.version = 0
  BY Constants DEF Unasked, Request, Outcomes
<1>2. \A r \in Requests : req[r] = Unasked BY DEF PreviewInit
<1>3. \A r \in Requests : ~Called(r) /\ ~Active(r)
  BY <1>1, <1>2 DEF Called, Active
<1>4. PreviewTypeOK
  <2>1. \A c \in DOMAIN count : count[c] <= LimitOf(c[1], c[2])
    BY LimitType DEF PreviewInit
  <2>2. Free \in [next : 0 .. MaxTime + Cooldown, updated : -1 .. MaxTime] BY Constants DEF Free
  <2> QED BY <1>1, <2>1, <2>2, Constants DEF PreviewTypeOK, PreviewInit
<1>5. \A r \in Requests : RequestOK(r)
  BY <1>1, <1>2, <1>3, Constants DEF RequestOK, PreviewInit
<1>6. ASSUME NEW c \in Windows PROVE Counted(c)
  <2>1. Calls(c) = {} BY <1>3 DEF Calls, InWindow
  <2>2. Cardinality({}) = 0 BY FS_EmptySet
  <2>3. LimitOf(c[1], c[2]) \in Nat BY LimitType DEF Windows
  <2>4. count[c] = 0 BY DEF PreviewInit, Windows
  <2> QED BY <2>1, <2>2, <2>3, <2>4 DEF Counted
<1>7. \A k \in CooldownKeys : RowHasCause(k) BY DEF RowHasCause, PreviewInit
<1> QED BY <1>3, <1>4, <1>5, <1>6, <1>7 DEF PreviewInv, Held, Spaced

LEMMA PreviewNextInv == PreviewInv /\ [PreviewNext]_previewVars => PreviewInv'
<1> SUFFICES ASSUME PreviewInv, [PreviewNext]_previewVars PROVE PreviewInv'
  OBVIOUS
<1>1. ASSUME NEW r \in Requests, Step(r) PROVE PreviewInv'
  BY <1>1, StartInv, LoadHeaderInv, LoadTextInv, ReserveInv, ProviderAnswersInv, ReleaseInv,
     ReleaseFailsInv, EndInv, RequestCrashesInv DEF Step
<1>2. CASE UNCHANGED previewVars
  <2>1. UNCHANGED <<clock, saved, count, cooldown, req, failures>> BY <1>2 DEF previewVars
  <2>2. PreviewTypeOK' BY <2>1 DEF PreviewInv, PreviewTypeOK
  <2>3. \A r \in Requests : RequestOK(r)' BY <2>1 DEF PreviewInv, RequestOK, Called
  <2>4. \A c \in Windows : Counted(c)'
    BY <2>1 DEF PreviewInv, Counted, Calls, InWindow, Called
  <2>5. \A k \in CooldownKeys : RowHasCause(k)'
    BY <2>1 DEF PreviewInv, RowHasCause, Key, Cause
  <2>6. \A r \in Requests : Held(r)'
    BY <2>1 DEF PreviewInv, Held, Active, OwnCooldown, Key
  <2>7. \A r, s \in Requests : r # s => Spaced(r, s)'
    BY <2>1 DEF PreviewInv, Spaced, Active, Key
  <2> QED BY <2>2, <2>3, <2>4, <2>5, <2>6, <2>7 DEF PreviewInv
<1> QED BY <1>1, <1>2, SourceInv, TickInv DEF PreviewNext

LEMMA PreviewInvariant == PreviewSpec => []PreviewInv
BY PreviewInitInv, PreviewNextInv, PTL DEF PreviewSpec

\* The rows and requests have the values PreviewTypeOK says, and no counter
\* passes its limit.
THEOREM PreviewTypesHold == PreviewSpec => []PreviewTypeOK
<1>1. PreviewInv => PreviewTypeOK BY DEF PreviewInv
<1> QED BY <1>1, PreviewInvariant, PTL

\* CallsWithinLimits for any number of requests, actors and locales and any
\* limits: of the requests of a minute or a day, those that crash during the
\* call included, no more reach the provider than an actor and the deployment may.
THEOREM LimitsHold == PreviewSpec => []CallsWithinLimits
<1>1. PreviewInv => CallsWithinLimits
  <2> SUFFICES ASSUME PreviewInv, NEW scope \in Scopes, NEW span \in Spans, NEW t \in 0 .. clock
               PROVE  Cardinality({r \in Requests : InWindow(r, scope, span, t)}) <= LimitOf(scope, span)
    BY DEF CallsWithinLimits
  <2> DEFINE c == <<scope, span, t>>
  <2>1. t \in 0 .. MaxTime BY Constants DEF PreviewInv, PreviewTypeOK
  <2>2. c \in Windows /\ c[1] = scope /\ c[2] = span /\ c[3] = t BY <2>1 DEF Windows
  <2>3. Counted(c) BY <2>2 DEF PreviewInv
  <2> QED BY <2>2, <2>3 DEF Counted, Calls
<1> QED BY <1>1, PreviewInvariant, PTL

\* PreviewsAreSpaced for any number of requests and any interleaving of their
\* reservations and releases: what is handed out is a cooldown apart, less the
\* wait for a reservation.
THEOREM PreviewsKeepDistance == PreviewSpec => []PreviewsAreSpaced
<1>1. PreviewInv => PreviewsAreSpaced
  BY DEF PreviewInv, PreviewsAreSpaced, RequestOK, Active, Spaced
<1> QED BY <1>1, PreviewInvariant, PTL

\* CooldownHasCause for any number of requests: a cooldown row is of a request
\* that runs, ended well, crashed or could not delete it.
THEOREM CooldownsHaveCauses == PreviewSpec => []CooldownHasCause
<1>1. PreviewInv => CooldownHasCause
  BY DEF PreviewInv, CooldownHasCause, RowHasCause, Cause
<1> QED BY <1>1, PreviewInvariant, PTL

\* TextNotOlder for any number of requests and saves: the text that is handed
\* out is at least as new as its version, though they are read apart.
THEOREM TextsAreNotOlder == PreviewSpec => []TextNotOlder
<1>1. PreviewInv => TextNotOlder
  BY DEF PreviewInv, TextNotOlder, RequestOK, Called
<1> QED BY <1>1, PreviewInvariant, PTL

=============================================================================
