----------------------------- MODULE SeedProofs -----------------------------
(***************************************************************************)
(* Proofs about ContentSeed: whatever fails, crashes or is not answered, a *)
(* run leaves its whole manifest behind or nothing, and a seed version is  *)
(* applied once.  SeedInv is the inductive invariant: what an importer     *)
(* knows and has written (ImporterOK), what two of them may not share      *)
(* (Apart), and what is committed (AllOrNothing, OneSuccess).              *)
(***************************************************************************)
EXTENDS ContentSeed, FiniteSetTheorems, TLAPS

Targets == RunIds \cup {None, Editor}

ProvRow == [run : RunIds, key : Keys, hash : {HashOf[m][k] : m \in Manifests, k \in Keys},
            target : Targets]

Pcs == {"idle", "lookup", "plan", "write", "rollback", "fail", "unlock"}

Importer == [pc : Pcs, run : RunIds \cup {0}, plan : [Keys -> {"none", "insert", "skip", "conflict"}],
             found : [Keys -> Targets], todo : SUBSET Keys, inserted : SUBSET Keys,
             rows : SUBSET ProvRow, marked : BOOLEAN, result : {"none", "ok", "prior", "error"}]

\* An importer that has a run row of its own.
HasRun(i) == imp[i].pc \in {"write", "rollback", "fail"}

\* A record that will be inserted, or whose target was found.
PlanOK(i, k) == imp[i].plan[k] = "insert" \/ imp[i].found[k] # None

\* What an open transaction has written: a row for each record that is done.
WrittenOK(i) ==
    /\ imp[i].todo \subseteq Records(i)
    /\ \A k \in Records(i) : PlanOK(i, k)
    /\ \A k \in Records(i) \ imp[i].todo : \E p \in imp[i].rows : p.key = k
    /\ \A p \in imp[i].rows : /\ p.run = imp[i].run /\ p.key \in Records(i) \ imp[i].todo
                              /\ p.target = IF imp[i].plan[p.key] = "insert"
                                            THEN imp[i].run ELSE imp[i].found[p.key]
    /\ \A k \in imp[i].inserted : k \in Records(i) \ imp[i].todo /\ imp[i].plan[k] = "insert"

\* The manifest has been applied.
Applied(m) == \E r \in RunIds : runs[r].status = "succeeded" /\ runs[r].manifest = m

ImporterOK(i) ==
    /\ imp[i].pc # "idle" <=> lock[ManifestOf[i]] = i
    /\ HasRun(i) => /\ imp[i].run \in RunIds /\ runs[imp[i].run].manifest = ManifestOf[i]
                    /\ runs[imp[i].run].status # "none"
    /\ imp[i].pc \in {"write", "rollback"} => runs[imp[i].run].status = "started"
    /\ imp[i].pc = "plan" => \A k \in Records(i) \ imp[i].todo : PlanOK(i, k)
    /\ imp[i].pc \in {"lookup", "plan"} => imp[i].inserted = {} /\ imp[i].rows = {}
    /\ imp[i].pc = "write" => WrittenOK(i)
    /\ imp[i].marked => /\ imp[i].pc \in {"write", "rollback"} /\ imp[i].todo = {}
                        /\ Succeeded(VersionOf[ManifestOf[i]]) = {}
    /\ imp[i].result \in {"ok", "prior"} => Applied(ManifestOf[i])

\* Two importers have different runs, and never both the success of a version.
Apart(i, j) ==
    /\ HasRun(i) /\ HasRun(j) => imp[i].run # imp[j].run
    /\ imp[i].marked /\ imp[j].marked => VersionOf[ManifestOf[i]] # VersionOf[ManifestOf[j]]

OneSuccess ==
    \A r, s \in RunIds :
        /\ runs[r].status = "succeeded" /\ runs[s].status = "succeeded"
        /\ VersionOf[runs[r].manifest] = VersionOf[runs[s].manifest]
        => r = s

SeedInv ==
    /\ SeedTypeOK /\ AllOrNothing /\ OneSuccess
    /\ imp \in [Importers -> Importer]
    /\ \A r \in RunIds : runs[r].status # "none" => runs[r].manifest \in Manifests
    /\ \A m \in Manifests : lock[m] # None => ManifestOf[lock[m]] = m
    /\ \A i \in Importers : ImporterOK(i)
    /\ \A i, j \in Importers : i # j => Apart(i, j)

----------------------------------------------------------------------------
(* Steps in which one importer moves and commits nothing                   *)

\* The importer's new record and what it may rely on, stated once for all steps
\* that change neither rows nor runs nor provenance.
LEMMA ImporterMoves ==
    ASSUME SeedInv, NEW i \in Importers, NEW new \in Importer,
           imp' = [imp EXCEPT ![i] = new], UNCHANGED <<target, runs, prov>>,
           faults' \in 0 .. MaxFaults,
           lock' \in [Manifests -> Importers \cup {None}],
           \A m \in Manifests : m # ManifestOf[i] => lock'[m] = lock[m],
           lock'[ManifestOf[i]] \in {lock[ManifestOf[i]], i, None},
           lock'[ManifestOf[i]] # lock[ManifestOf[i]] => lock[ManifestOf[i]] \in {i, None},
           ImporterOK(i)',
           \A j \in Importers \ {i} : Apart(i, j)' /\ Apart(j, i)'
    PROVE  SeedInv'
<1> USE SeedAssumption
<1>1. imp' \in [Importers -> Importer] /\ imp'[i] = new /\ \A j \in Importers \ {i} : imp'[j] = imp[j]
  BY DEF SeedInv
<1>2. ManifestOf[i] \in Manifests /\ lock \in [Manifests -> Importers \cup {None}]
  BY DEF SeedInv, SeedTypeOK
<1>3. lock'[ManifestOf[i]] = i <=> imp'[i].pc # "idle"
  BY DEF ImporterOK
<1>4. ASSUME NEW m \in Manifests, lock'[m] # None
      PROVE  imp'[lock'[m]].pc # "idle" /\ ManifestOf[lock'[m]] = m
  <2>1. CASE m # ManifestOf[i]
    <3>1. lock'[m] = lock[m] /\ lock[m] \in Importers /\ lock[m] # i /\ ManifestOf[lock[m]] = m
      BY <1>4, <2>1, <1>2 DEF SeedInv
    <3> QED BY <3>1, <1>1, <1>4 DEF SeedInv, SeedTypeOK
  <2>2. CASE m = ManifestOf[i] /\ lock'[m] = i
    BY <2>2, <1>3
  <2>3. CASE m = ManifestOf[i] /\ lock'[m] # i
    <3>1. lock'[m] = lock[m] /\ lock[m] \in Importers /\ lock[m] # i
      BY <2>3, <1>4, <1>2
    <3> QED BY <3>1, <1>1, <1>4 DEF SeedInv, SeedTypeOK
  <2> QED BY <2>1, <2>2, <2>3
<1>5. SeedTypeOK'
  BY <1>4 DEF SeedInv, SeedTypeOK
<1>6. AllOrNothing' /\ OneSuccess'
  BY DEF SeedInv, AllOrNothing, OneSuccess
<1>7. ASSUME NEW j \in Importers, j # i PROVE ImporterOK(j)'
  <2>1. ImporterOK(j) /\ imp'[j] = imp[j] /\ ManifestOf[j] \in Manifests
    BY <1>1, <1>7 DEF SeedInv
  <2>2. lock'[ManifestOf[j]] = j <=> lock[ManifestOf[j]] = j
    BY <1>2, <1>7, <2>1
  <2> QED BY <2>1, <2>2 DEF ImporterOK, HasRun, PlanOK, WrittenOK, Applied, Records, Succeeded
<1>8. \A j, k \in Importers : j # k => Apart(j, k)'
  <2>1. \A j, k \in Importers \ {i} : j # k => Apart(j, k)'
    BY <1>1 DEF SeedInv, Apart, HasRun
  <2> QED BY <2>1
<1>9. \A r \in RunIds : runs'[r].status # "none" => runs'[r].manifest \in Manifests
  BY DEF SeedInv
<1> QED BY <1>1, <1>4, <1>5, <1>6, <1>7, <1>8, <1>9 DEF SeedInv

\* An importer's record after a step that only sets pc.
LEMMA MovesTo ==
    ASSUME SeedInv, NEW i \in Importers, NEW pc \in Pcs, Goto(i, pc)
    PROVE  \E new \in Importer : /\ imp' = [imp EXCEPT ![i] = new]
                                 /\ new = [imp[i] EXCEPT !.pc = pc]
<1> DEFINE new == [imp[i] EXCEPT !.pc = pc]
<1>1. imp[i] \in Importer BY DEF SeedInv
<1>2. new \in Importer BY <1>1 DEF Importer
<1>3. imp' = [imp EXCEPT ![i] = new] BY DEF Goto
<1> QED BY <1>2, <1>3

LEMMA IdleType ==
    ASSUME NEW result \in {"none", "ok", "prior", "error"}
    PROVE  Idle(result) \in Importer
BY DEF Idle, Importer, Pcs, Targets

LEMMA LockInv ==
    ASSUME SeedInv, NEW i \in Importers, Lock(i)
    PROVE  SeedInv'
<1> USE SeedAssumption
<1> DEFINE new == [Idle("none") EXCEPT !.pc = "lookup"]
<1>1. /\ new \in Importer /\ new.pc = "lookup" /\ ~new.marked /\ new.result = "none"
      /\ new.inserted = {} /\ new.rows = {}
  BY IdleType DEF Idle, Importer, Pcs
<1>2. imp' = [imp EXCEPT ![i] = new]
  BY DEF Lock
<1>3. imp'[i] = new /\ lock'[ManifestOf[i]] = i /\ ManifestOf[i] \in Manifests
  BY <1>2 DEF Lock, SeedInv, SeedTypeOK
<1> HIDE DEF new
<1>4. ImporterOK(i)'
  BY <1>1, <1>3 DEF ImporterOK, HasRun
<1>5. \A j \in Importers \ {i} : Apart(i, j)' /\ Apart(j, i)'
  BY <1>1, <1>3 DEF Apart, HasRun
<1>6. lock' \in [Manifests -> Importers \cup {None}]
  BY DEF Lock, SeedInv, SeedTypeOK
<1>7. /\ \A m \in Manifests : m # ManifestOf[i] => lock'[m] = lock[m]
      /\ lock[ManifestOf[i]] = None
      /\ UNCHANGED <<target, runs, prov>> /\ faults' \in 0 .. MaxFaults
  BY DEF Lock, SeedInv, SeedTypeOK
<1> QED BY <1>1, <1>2, <1>3, <1>4, <1>5, <1>6, <1>7, ImporterMoves

\* A step of an importer that has its lock, keeps it, and does not yet write.
LEMMA PlansOn ==
    ASSUME SeedInv, NEW i \in Importers, NEW new \in Importer,
           imp' = [imp EXCEPT ![i] = new], UNCHANGED <<target, runs, prov, lock, faults>>,
           imp[i].pc \in {"lookup", "plan"}, new.pc \in {"plan", "unlock"},
           new.marked = imp[i].marked, new.inserted = imp[i].inserted, new.rows = imp[i].rows,
           new.pc = "plan" => \A k \in Records(i) \ new.todo : new.plan[k] = "insert" \/ new.found[k] # None,
           new.result \in {"ok", "prior"} => Applied(ManifestOf[i])
    PROVE  SeedInv'
<1> USE SeedAssumption
<1>1. imp'[i] = new /\ ImporterOK(i) /\ lock \in [Manifests -> Importers \cup {None}]
  BY DEF SeedInv, SeedTypeOK
<1>2. ~new.marked
  BY <1>1 DEF ImporterOK
<1>3. ImporterOK(i)'
  BY <1>1, <1>2 DEF ImporterOK, HasRun, PlanOK, Records, Applied
<1>4. \A j \in Importers \ {i} : Apart(i, j)' /\ Apart(j, i)'
  BY <1>1, <1>2 DEF Apart, HasRun
<1>5. faults' \in 0 .. MaxFaults
  BY DEF SeedInv, SeedTypeOK
<1> QED BY <1>1, <1>3, <1>4, <1>5, ImporterMoves

LEMMA LookupInv ==
    ASSUME SeedInv, NEW i \in Importers, Lookup(i)
    PROVE  SeedInv'
<1>1. imp[i] \in Importer /\ imp[i].pc = "lookup" BY DEF Lookup, SeedInv
<1>2. Records(i) \subseteq Keys BY SeedAssumption DEF Records
<1>3. CASE Succeeded(VersionOf[ManifestOf[i]]) = {}
  <2> DEFINE new == [imp[i] EXCEPT !.pc = "plan", !.todo = Records(i)]
  <2>1. imp' = [imp EXCEPT ![i] = new] BY <1>3 DEF Lookup
  <2>2. /\ new \in Importer /\ new.pc = "plan" /\ new.marked = imp[i].marked /\ new.todo = Records(i)
        /\ new.result = imp[i].result /\ new.inserted = imp[i].inserted /\ new.rows = imp[i].rows
    BY <1>1, <1>2 DEF Importer, Pcs
  <2>3. new.result \in {"ok", "prior"} => Applied(ManifestOf[i])
    BY <2>2 DEF SeedInv, ImporterOK
  <2> HIDE DEF new
  <2>4. UNCHANGED <<target, runs, prov, lock, faults>> BY DEF Lookup
  <2> QED BY <1>1, <2>1, <2>2, <2>3, <2>4, PlansOn
<1>4. CASE Succeeded(VersionOf[ManifestOf[i]]) # {}
  <2>1. PICK result \in {"prior", "error"} :
            /\ imp' = [imp EXCEPT ![i].pc = "unlock", ![i].result = result]
            /\ result = "prior" => \E r \in Succeeded(VersionOf[ManifestOf[i]]) : runs[r].manifest = ManifestOf[i]
    BY <1>4 DEF Lookup, End
  <2> DEFINE new == [imp[i] EXCEPT !.pc = "unlock", !.result = result]
  <2>2. imp' = [imp EXCEPT ![i] = new] BY <2>1
  <2>3. /\ new \in Importer /\ new.pc = "unlock" /\ new.marked = imp[i].marked /\ new.result = result
        /\ new.inserted = imp[i].inserted /\ new.rows = imp[i].rows
    BY <1>1 DEF Importer, Pcs
  <2>4. result \in {"ok", "prior"} => Applied(ManifestOf[i])
    BY <2>1 DEF Applied, Succeeded
  <2> HIDE DEF new
  <2>5. UNCHANGED <<target, runs, prov, lock, faults>> BY DEF Lookup
  <2> QED BY <1>1, <2>2, <2>3, <2>4, <2>5, PlansOn
<1> QED BY <1>3, <1>4

LEMMA PlanRecordInv ==
    ASSUME SeedInv, NEW i \in Importers, PlanRecord(i)
    PROVE  SeedInv'
<1>1. imp[i] \in Importer /\ imp[i].pc = "plan" /\ target \in [Keys -> Targets]
  BY DEF PlanRecord, SeedInv, SeedTypeOK, Targets
<1>2. PICK k \in imp[i].todo, p \in {"insert", "skip", "conflict"} :
        /\ imp' = [imp EXCEPT ![i].todo = @ \ {k}, ![i].found[k] = target[k], ![i].plan[k] = p]
        /\ target[k] = None => p = "insert"
  BY DEF PlanRecord
<1> DEFINE new == [imp[i] EXCEPT !.todo = @ \ {k}, !.found[k] = target[k], !.plan[k] = p]
<1>3. imp' = [imp EXCEPT ![i] = new] BY <1>2
<1>4. k \in Keys /\ target[k] \in Targets BY <1>1 DEF Importer
<1>5. /\ new \in Importer /\ new.pc = "plan" /\ new.marked = imp[i].marked /\ new.result = imp[i].result
      /\ new.todo = imp[i].todo \ {k} /\ new.inserted = imp[i].inserted /\ new.rows = imp[i].rows
      /\ new.plan = [imp[i].plan EXCEPT ![k] = p] /\ new.found = [imp[i].found EXCEPT ![k] = target[k]]
  BY <1>1, <1>4 DEF Importer
<1> HIDE DEF new
<1>6. \A x \in Records(i) \ new.todo : new.plan[x] = "insert" \/ new.found[x] # None
  <2> SUFFICES ASSUME NEW x \in Records(i) \ new.todo
               PROVE  new.plan[x] = "insert" \/ new.found[x] # None
    OBVIOUS
  <2>0. x \in Keys BY SeedAssumption DEF Records
  <2>1. CASE x = k
    BY <2>1, <1>1, <1>2, <1>4, <1>5 DEF Importer
  <2>2. CASE x # k
    <3>1. PlanOK(i, x) BY <2>2, <1>1, <1>5 DEF SeedInv, ImporterOK
    <3> QED BY <3>1, <2>0, <2>2, <1>1, <1>5 DEF PlanOK, Importer
  <2> QED BY <2>1, <2>2
<1>7. new.result \in {"ok", "prior"} => Applied(ManifestOf[i])
  BY <1>5 DEF SeedInv, ImporterOK
<1>8. UNCHANGED <<target, runs, prov, lock, faults>> BY DEF PlanRecord
<1> QED BY <1>1, <1>3, <1>5, <1>6, <1>7, <1>8, PlansOn

----------------------------------------------------------------------------
(* Steps that write a run row                                              *)

Run == [status : {"none", "started", "succeeded", "failed"}, manifest : Manifests \cup {None}]

\* The row of a run that no other importer has, and that has not succeeded yet.
LEMMA RunMoves ==
    ASSUME SeedInv, NEW i \in Importers, NEW new \in Importer, NEW r \in RunIds, NEW row \in Run,
           imp' = [imp EXCEPT ![i] = new], runs' = [runs EXCEPT ![r] = row],
           row.manifest = ManifestOf[i], row.status # "none",
           runs[r].status # "succeeded",
           \A j \in Importers \ {i} : HasRun(j) => imp[j].run # r,
           row.status = "succeeded" =>
              /\ Succeeded(VersionOf[ManifestOf[i]]) = {}
              /\ \A j \in Importers \ {i} : imp[j].marked => VersionOf[ManifestOf[j]] # VersionOf[ManifestOf[i]],
           UNCHANGED lock, faults' \in 0 .. MaxFaults, imp[i].pc # "idle",
           target' \in [Keys -> RunIds \cup {None, Editor}],
           \A p \in prov' : p.run \in RunIds /\ p.key \in Keys /\ p.target \in RunIds \cup {Editor},
           AllOrNothing', ImporterOK(i)', \A j \in Importers \ {i} : Apart(i, j)' /\ Apart(j, i)'
    PROVE  SeedInv'
<1> USE SeedAssumption
<1>0. runs \in [RunIds -> Run] /\ imp \in [Importers -> Importer]
  BY DEF SeedInv, SeedTypeOK, Run
<1>1. /\ imp' \in [Importers -> Importer] /\ imp'[i] = new
      /\ \A j \in Importers \ {i} : imp'[j] = imp[j]
      /\ runs' \in [RunIds -> Run] /\ runs'[r] = row /\ \A q \in RunIds \ {r} : runs'[q] = runs[q]
  BY <1>0
<1>2. lock'[ManifestOf[i]] = i /\ lock' = lock
  BY DEF SeedInv, ImporterOK
<1>2a. imp'[i].pc # "idle"
  BY <1>2 DEF ImporterOK
<1>3. ASSUME NEW m \in Manifests, lock'[m] # None
      PROVE  imp'[lock'[m]].pc # "idle" /\ ManifestOf[lock'[m]] = m
  <2>1. lock[m] \in Importers /\ imp[lock[m]].pc # "idle" /\ ManifestOf[lock[m]] = m
    BY <1>2, <1>3 DEF SeedInv, SeedTypeOK
  <2> QED BY <2>1, <1>1, <1>2, <1>2a
<1>4. SeedTypeOK'
  BY <1>1, <1>2, <1>3 DEF SeedInv, SeedTypeOK, Run
<1>5. OneSuccess'
  <2> SUFFICES ASSUME NEW p \in RunIds, NEW q \in RunIds, p # q,
                      runs'[p].status = "succeeded", runs'[q].status = "succeeded",
                      VersionOf[runs'[p].manifest] = VersionOf[runs'[q].manifest]
               PROVE  FALSE
    BY DEF OneSuccess
  <2>1. CASE p # r /\ q # r
    BY <2>1, <1>1 DEF SeedInv, OneSuccess
  <2>2. CASE p = r
    BY <2>2, <1>1 DEF Succeeded
  <2>3. CASE q = r
    BY <2>3, <1>1 DEF Succeeded
  <2> QED BY <2>1, <2>2, <2>3
<1>6. ASSUME NEW j \in Importers, j # i PROVE ImporterOK(j)'
  <2>1. ImporterOK(j) /\ imp'[j] = imp[j] /\ imp[j] \in Importer
    BY <1>0, <1>1, <1>6 DEF SeedInv
  <2>2. HasRun(j) => imp[j].run \in RunIds /\ runs'[imp[j].run] = runs[imp[j].run]
    BY <2>1, <1>1, <1>6 DEF ImporterOK
  <2>3. Applied(ManifestOf[j]) => Applied(ManifestOf[j])'
    BY <1>1 DEF Applied
  <2>4. imp[j].marked => Succeeded(VersionOf[ManifestOf[j]])' = {}
    <3> SUFFICES ASSUME imp[j].marked, NEW q \in RunIds, runs'[q].status = "succeeded",
                        VersionOf[runs'[q].manifest] = VersionOf[ManifestOf[j]]
                 PROVE  FALSE
      BY DEF Succeeded
    <3>1. Succeeded(VersionOf[ManifestOf[j]]) = {} BY <2>1 DEF ImporterOK
    <3>2. CASE q # r BY <3>1, <3>2, <1>1 DEF Succeeded
    <3>3. CASE q = r BY <3>3, <1>1, <1>6
    <3> QED BY <3>2, <3>3
  <2>5. WrittenOK(j) => WrittenOK(j)'
    BY <2>1 DEF WrittenOK, PlanOK, Records
  <2>6. HasRun(j) <=> HasRun(j)'
    BY <2>1 DEF HasRun
  <2> QED BY <2>1, <2>2, <2>3, <2>4, <2>5, <2>6, <1>2 DEF ImporterOK, HasRun, PlanOK, Records
<1>7. \A j, k \in Importers : j # k => Apart(j, k)'
  <2>1. \A j, k \in Importers \ {i} : j # k => Apart(j, k)'
    BY <1>1 DEF SeedInv, Apart, HasRun
  <2> QED BY <2>1
<1>8. \A q \in RunIds : runs'[q].status # "none" => runs'[q].manifest \in Manifests
  BY <1>1 DEF SeedInv
<1> QED BY <1>1, <1>3, <1>4, <1>5, <1>6, <1>7, <1>8 DEF SeedInv

LEMMA BeginInv ==
    ASSUME SeedInv, NEW i \in Importers, Begin(i)
    PROVE  SeedInv'
<1> USE SeedAssumption
<1>0. /\ imp[i] \in Importer /\ imp[i].pc = "plan" /\ imp[i].todo = {}
      /\ runs \in [RunIds -> Run] /\ ImporterOK(i)
  BY DEF Begin, SeedInv, SeedTypeOK, Run
<1>1. UNCHANGED <<target, prov, lock, faults>>
  BY DEF Begin
<1>2. CASE \E k \in Records(i) : imp[i].plan[k] = "conflict"
  <2> DEFINE new == [imp[i] EXCEPT !.pc = "unlock", !.result = "error"]
  <2>1. imp' = [imp EXCEPT ![i] = new] /\ UNCHANGED runs
    BY <1>2 DEF Begin, End
  <2>2. /\ new \in Importer /\ new.pc = "unlock" /\ new.marked = imp[i].marked /\ new.result = "error"
        /\ new.inserted = imp[i].inserted /\ new.rows = imp[i].rows
    BY <1>0 DEF Importer, Pcs
  <2> HIDE DEF new
  <2> QED BY <1>0, <1>1, <2>1, <2>2, PlansOn
<1>3. CASE ~ \E k \in Records(i) : imp[i].plan[k] = "conflict"
  <2> DEFINE row == [status |-> "started", manifest |-> ManifestOf[i]]
  <2>0. PICK r \in RunIds :
          /\ \A q \in RunIds : runs[q] = NoRun <=> q >= r
          /\ runs' = [runs EXCEPT ![r] = row]
          /\ imp' = [imp EXCEPT ![i].pc = "write", ![i].run = r, ![i].todo = Records(i)]
    BY <1>3 DEF Begin
  <2>1. /\ runs[r] = NoRun
        /\ runs' = [runs EXCEPT ![r] = row]
        /\ imp' = [imp EXCEPT ![i].pc = "write", ![i].run = r, ![i].todo = Records(i)]
    BY <2>0 DEF RunIds
  <2> DEFINE new == [imp[i] EXCEPT !.pc = "write", !.run = r, !.todo = Records(i)]
  <2>2. imp' = [imp EXCEPT ![i] = new] BY <2>1
  <2>3. Records(i) \subseteq Keys /\ ManifestOf[i] \in Manifests BY DEF Records
  <2>4. /\ new \in Importer /\ new.pc = "write" /\ new.run = r /\ new.todo = Records(i)
        /\ new.marked = imp[i].marked /\ new.result = imp[i].result
        /\ new.plan = imp[i].plan /\ new.found = imp[i].found
        /\ new.inserted = imp[i].inserted /\ new.rows = imp[i].rows
    BY <1>0, <2>3 DEF Importer, Pcs
  <2>5. row \in Run /\ row.manifest = ManifestOf[i] /\ row.status = "started"
    BY <2>3 DEF Run
  <2>6. runs[r].status = "none"
    BY <2>1 DEF NoRun
  <2> HIDE DEF new, row
  <2>7. imp'[i] = new /\ runs'[r] = row /\ \A q \in RunIds \ {r} : runs'[q] = runs[q]
    BY <1>0, <2>1, <2>2 DEF SeedInv
  <2>8. \A j \in Importers \ {i} : HasRun(j) => imp[j].run # r
    BY <2>6 DEF SeedInv, ImporterOK
  <2>9. AllOrNothing'
    BY <2>5, <2>6, <2>7, <1>1 DEF SeedInv, AllOrNothing, SeedTypeOK
  <2>10. ~imp[i].marked /\ imp[i].inserted = {} /\ imp[i].rows = {}
    BY <1>0 DEF ImporterOK
  <2>11. WrittenOK(i)'
    BY <2>3, <2>4, <2>7, <2>10, <1>0 DEF WrittenOK, PlanOK, ImporterOK, Records
  <2>12. Applied(ManifestOf[i]) => Applied(ManifestOf[i])'
    BY <2>6, <2>7 DEF Applied
  <2>13. ImporterOK(i)'
    BY <1>0, <1>1, <2>4, <2>5, <2>7, <2>10, <2>11, <2>12 DEF ImporterOK, HasRun
  <2>14. \A j \in Importers \ {i} : Apart(i, j)' /\ Apart(j, i)'
    BY <2>2, <2>4, <2>8, <2>10 DEF Apart, HasRun, SeedInv
  <2>15. /\ faults' \in 0 .. MaxFaults /\ target' \in [Keys -> RunIds \cup {None, Editor}]
         /\ \A p \in prov' : p.run \in RunIds /\ p.key \in Keys /\ p.target \in RunIds \cup {Editor}
    BY <1>1 DEF SeedInv, SeedTypeOK
  <2> QED BY <1>0, <1>1, <2>1, <2>2, <2>4, <2>5, <2>6, <2>8, <2>9, <2>13, <2>14, <2>15, RunMoves
<1> QED BY <1>2, <1>3

----------------------------------------------------------------------------
(* The transaction                                                         *)

LEMMA RollsBack ==
    ASSUME SeedInv, NEW i \in Importers, imp[i].pc = "write", Goto(i, "rollback"),
           UNCHANGED <<target, runs, prov, lock>>, faults' \in 0 .. MaxFaults
    PROVE  SeedInv'
<1>1. PICK new \in Importer : imp' = [imp EXCEPT ![i] = new] /\ new = [imp[i] EXCEPT !.pc = "rollback"]
  BY MovesTo DEF Pcs
<1>2. imp[i] \in Importer /\ ImporterOK(i) /\ lock \in [Manifests -> Importers \cup {None}]
  BY DEF SeedInv, SeedTypeOK
<1>3. /\ imp'[i] = new /\ new.pc = "rollback" /\ new.run = imp[i].run /\ new.marked = imp[i].marked
      /\ new.todo = imp[i].todo /\ new.result = imp[i].result
  BY <1>1, <1>2 DEF SeedInv, Importer
<1>4. ImporterOK(i)'
  BY <1>2, <1>3 DEF ImporterOK, HasRun, Applied, Succeeded
<1>5. \A j \in Importers \ {i} : Apart(i, j)' /\ Apart(j, i)'
  BY <1>1, <1>3 DEF Apart, HasRun, SeedInv
<1> QED BY <1>1, <1>2, <1>4, <1>5, ImporterMoves

LEMMA FaultType ==
    ASSUME SeedInv, faults < MaxFaults, faults' = faults + 1
    PROVE  faults' \in 0 .. MaxFaults
BY SeedAssumption DEF SeedInv, SeedTypeOK

LEMMA StatementFailsInv ==
    ASSUME SeedInv, NEW i \in Importers, StatementFails(i)
    PROVE  SeedInv'
BY RollsBack, FaultType DEF StatementFails

LEMMA DeadlockVictimInv ==
    ASSUME SeedInv, NEW i \in Importers, DeadlockVictim(i)
    PROVE  SeedInv'
<1>1. imp[i].pc = "write" /\ faults' \in 0 .. MaxFaults
  BY DEF DeadlockVictim, WaitsForInsert, SeedInv, SeedTypeOK
<1> QED BY <1>1, RollsBack DEF DeadlockVictim

LEMMA WriteRecordInv ==
    ASSUME SeedInv, NEW i \in Importers, WriteRecord(i)
    PROVE  SeedInv'
<1> USE SeedAssumption
<1>1. imp[i] \in Importer /\ ImporterOK(i) /\ imp[i].pc = "write" /\ lock \in [Manifests -> Importers \cup {None}]
  BY DEF WriteRecord, SeedInv, SeedTypeOK
<1>2. UNCHANGED <<target, runs, prov, lock, faults>> /\ faults' \in 0 .. MaxFaults
  BY DEF WriteRecord, SeedInv, SeedTypeOK
<1>3. CASE Goto(i, "rollback")
  BY <1>1, <1>2, <1>3, RollsBack
<1>4. CASE ~Goto(i, "rollback")
  <2>1. PICK k \in imp[i].todo :
           imp' = [imp EXCEPT ![i].todo = @ \ {k},
                     ![i].inserted = IF imp[i].plan[k] = "insert" THEN @ \cup {k} ELSE @,
                     ![i].rows = @ \cup {Row(i, k)}]
    BY <1>4 DEF WriteRecord
  <2> DEFINE ins == IF imp[i].plan[k] = "insert" THEN imp[i].inserted \cup {k} ELSE imp[i].inserted
             w   == Row(i, k)
             new == [imp[i] EXCEPT !.todo = @ \ {k}, !.inserted = ins, !.rows = @ \cup {w}]
  <2>2. imp' = [imp EXCEPT ![i] = new] BY <2>1
  <2>3. /\ k \in Records(i) /\ k \in Keys /\ WrittenOK(i) /\ imp[i].run \in RunIds /\ PlanOK(i, k)
    BY <1>1 DEF ImporterOK, HasRun, WrittenOK, Importer
  <2>4. /\ w \in ProvRow /\ w.run = imp[i].run /\ w.key = k
        /\ w.target = IF imp[i].plan[k] = "insert" THEN imp[i].run ELSE imp[i].found[k]
    BY <1>1, <2>3 DEF Row, ProvRow, Importer, Targets, Hash
  <2>5. ins \in SUBSET Keys BY <1>1, <2>3 DEF Importer
  <2> HIDE DEF ins, w
  <2>6. /\ new \in Importer /\ new.pc = "write" /\ new.run = imp[i].run /\ new.plan = imp[i].plan
        /\ new.found = imp[i].found /\ new.todo = imp[i].todo \ {k} /\ new.inserted = ins
        /\ new.rows = imp[i].rows \cup {w} /\ new.marked = imp[i].marked /\ new.result = imp[i].result
    BY <1>1, <2>4, <2>5 DEF Importer
  <2> HIDE DEF new
  <2>7. imp'[i] = new BY <2>2 DEF SeedInv
  <2>8. ins \subseteq imp[i].inserted \cup {k} /\ (k \in ins => imp[i].plan[k] = "insert" \/ k \in imp[i].inserted)
    BY DEF ins
  <2>9. WrittenOK(i)'
    <3>1. new.todo \subseteq Records(i) /\ \A x \in Records(i) : PlanOK(i, x)'
      BY <2>3, <2>6, <2>7 DEF WrittenOK, PlanOK
    <3>2. \A x \in Records(i) \ new.todo : \E p \in new.rows : p.key = x
      BY <2>3, <2>4, <2>6 DEF WrittenOK
    <3>3. \A p \in new.rows : /\ p.run = new.run /\ p.key \in Records(i) \ new.todo
                              /\ p.target = IF new.plan[p.key] = "insert" THEN new.run ELSE new.found[p.key]
      BY <2>3, <2>4, <2>6 DEF WrittenOK
    <3>4. \A x \in new.inserted : x \in Records(i) \ new.todo /\ new.plan[x] = "insert"
      BY <2>3, <2>6, <2>8 DEF WrittenOK
    <3> QED BY <3>1, <3>2, <3>3, <3>4, <2>7 DEF WrittenOK, Records
  <2>10. ~imp[i].marked BY <1>1, <2>1 DEF ImporterOK
  <2>11. ImporterOK(i)'
    BY <1>1, <1>2, <2>6, <2>7, <2>9, <2>10 DEF ImporterOK, HasRun, Applied
  <2>12. \A j \in Importers \ {i} : Apart(i, j)' /\ Apart(j, i)'
    BY <1>1, <2>2, <2>6, <2>7 DEF Apart, HasRun, SeedInv
  <2> QED BY <1>1, <1>2, <2>2, <2>6, <2>11, <2>12, ImporterMoves
<1> QED BY <1>3, <1>4

LEMMA MarkSucceededInv ==
    ASSUME SeedInv, NEW i \in Importers, MarkSucceeded(i)
    PROVE  SeedInv'
<1>1. /\ imp[i] \in Importer /\ ImporterOK(i) /\ imp[i].pc = "write" /\ imp[i].todo = {}
      /\ lock \in [Manifests -> Importers \cup {None}]
  BY DEF MarkSucceeded, SeedInv, SeedTypeOK
<1>2. UNCHANGED <<target, runs, prov, lock, faults>> /\ faults' \in 0 .. MaxFaults
  BY DEF MarkSucceeded, SeedInv, SeedTypeOK
<1>3. CASE Goto(i, "rollback")
  BY <1>1, <1>2, <1>3, RollsBack
<1>4. CASE ~Goto(i, "rollback")
  <2> DEFINE new == [imp[i] EXCEPT !.marked = TRUE]
  <2>1. imp' = [imp EXCEPT ![i] = new] /\ Succeeded(VersionOf[ManifestOf[i]]) = {}
    BY <1>4 DEF MarkSucceeded
  <2>2. /\ new \in Importer /\ new.pc = "write" /\ new.run = imp[i].run /\ new.plan = imp[i].plan
        /\ new.found = imp[i].found /\ new.todo = imp[i].todo /\ new.inserted = imp[i].inserted
        /\ new.rows = imp[i].rows /\ new.marked = TRUE /\ new.result = imp[i].result
    BY <1>1 DEF Importer
  <2> HIDE DEF new
  <2>3. imp'[i] = new BY <2>1 DEF SeedInv
  <2>4. WrittenOK(i)'
    BY <1>1, <2>2, <2>3 DEF ImporterOK, WrittenOK, PlanOK, Records
  <2>5. ImporterOK(i)'
    BY <1>1, <1>2, <2>1, <2>2, <2>3, <2>4 DEF ImporterOK, HasRun, Applied, Succeeded
  <2>6. \A j \in Importers \ {i} : imp[j].marked => VersionOf[ManifestOf[i]] # VersionOf[ManifestOf[j]]
    BY DEF MarkSucceeded, WaitsForSuccess
  <2>7. \A j \in Importers \ {i} : Apart(i, j)' /\ Apart(j, i)'
    BY <1>1, <2>1, <2>2, <2>3, <2>6 DEF Apart, HasRun, SeedInv
  <2> QED BY <1>1, <1>2, <2>1, <2>2, <2>5, <2>7, ImporterMoves
<1> QED BY <1>3, <1>4

\* An importer's record when its transaction is over.
LEMMA AfterMoves ==
    ASSUME SeedInv, NEW i \in Importers, NEW pc \in Pcs, NEW result \in {"ok", "error"},
           After(i, pc, result)
    PROVE  \E new \in Importer : /\ imp' = [imp EXCEPT ![i] = new] /\ imp'[i] = new
                                 /\ new.pc = pc /\ new.run = imp[i].run /\ ~new.marked
                                 /\ new.result = result
<1> DEFINE new == [imp[i] EXCEPT !.pc = pc, !.inserted = {}, !.rows = {}, !.marked = FALSE,
                                 !.todo = {}, !.result = result]
<1>1. imp[i] \in Importer /\ imp \in [Importers -> Importer] BY DEF SeedInv
<1>2. new \in Importer /\ new.pc = pc /\ new.run = imp[i].run /\ ~new.marked /\ new.result = result
  BY <1>1 DEF Importer
<1>3. imp' = [imp EXCEPT ![i] = new] BY DEF After
<1> QED BY <1>1, <1>2, <1>3

\* The rows that a commit adds make the manifest whole.
LEMMA CommitIsWhole ==
    ASSUME SeedInv, NEW i \in Importers, imp[i].pc = "write", imp[i].marked, Committed(i)
    PROVE  /\ AllOrNothing'
           /\ target' \in [Keys -> RunIds \cup {None, Editor}]
           /\ \A p \in prov' : p.run \in RunIds /\ p.key \in Keys /\ p.target \in RunIds \cup {Editor}
<1> USE SeedAssumption
<1> DEFINE r == imp[i].run
<1>1. /\ imp[i] \in Importer /\ imp[i].todo = {} /\ WrittenOK(i) /\ r \in RunIds
      /\ runs[r].manifest = ManifestOf[i] /\ runs[r].status = "started" /\ runs \in [RunIds -> Run]
      /\ imp[i].rows \subseteq ProvRow
  BY DEF SeedInv, SeedTypeOK, ImporterOK, HasRun, Run, Importer
<1>2. /\ prov' = prov \cup imp[i].rows
      /\ \A k \in Keys : target'[k] = IF k \in imp[i].inserted THEN r ELSE target[k]
      /\ runs'[r].status = "succeeded" /\ runs'[r].manifest = ManifestOf[i]
      /\ \A q \in RunIds \ {r} : runs'[q] = runs[q]
  BY <1>1 DEF Committed, Run
<1>3. target' \in [Keys -> RunIds \cup {None, Editor}]
  BY <1>1 DEF Committed, SeedInv, SeedTypeOK
<1>4. \A p \in imp[i].rows : p.run = r /\ p.key \in Records(i) /\ p.target \in RunIds \cup {Editor}
  <2> SUFFICES ASSUME NEW p \in imp[i].rows
               PROVE  p.run = r /\ p.key \in Records(i) /\ p.target \in RunIds \cup {Editor}
    OBVIOUS
  <2>1. /\ p.run = r /\ p.key \in Records(i) /\ PlanOK(i, p.key)
        /\ p.target = IF imp[i].plan[p.key] = "insert" THEN r ELSE imp[i].found[p.key]
    BY <1>1 DEF WrittenOK
  <2>2. p.target \in Targets BY <1>1 DEF ProvRow
  <2> QED BY <1>1, <2>1, <2>2 DEF PlanOK, Targets
<1>5. \A p \in prov' : p.run \in RunIds /\ p.key \in Keys /\ p.target \in RunIds \cup {Editor}
  BY <1>1, <1>2, <1>4 DEF SeedInv, SeedTypeOK, Records
<1>6. \A p \in prov : p.run \in RunIds /\ p.run # r /\ runs[p.run].status = "succeeded"
  BY <1>1 DEF SeedInv, SeedTypeOK, AllOrNothing
<1>7. ASSUME NEW q \in RunIds, runs'[q].status = "succeeded"
      PROVE  {p.key : p \in {x \in prov' : x.run = q}} = RecordsOf[runs'[q].manifest]
  <2>1. CASE q = r
    <3>1. {x \in prov' : x.run = q} = imp[i].rows BY <1>2, <1>4, <1>6, <2>1
    <3>2. \A k \in Records(i) : \E p \in imp[i].rows : p.key = k BY <1>1 DEF WrittenOK
    <3>3. {p.key : p \in imp[i].rows} = Records(i) BY <1>4, <3>2
    <3> QED BY <3>1, <3>3, <1>2, <2>1 DEF Records
  <2>2. CASE q # r
    <3>1. {x \in prov' : x.run = q} = {x \in prov : x.run = q} BY <1>2, <1>4, <2>2
    <3>2. {p.key : p \in {x \in prov : x.run = q}} = RecordsOf[runs[q].manifest]
      BY <1>2, <1>7, <2>2 DEF SeedInv, AllOrNothing
    <3> QED BY <3>1, <3>2, <1>2, <2>2
  <2> QED BY <2>1, <2>2
<1>8. \A p \in prov' : runs'[p.run].status = "succeeded"
  BY <1>2, <1>4, <1>6
<1>9. ASSUME NEW k \in Keys, target'[k] \in RunIds
      PROVE  \E p \in prov' : p.run = target'[k] /\ p.key = k /\ p.target = target'[k]
  <2>1. CASE k \in imp[i].inserted
    <3>1. k \in Records(i) /\ imp[i].plan[k] = "insert" /\ target'[k] = r
      BY <1>1, <1>2, <2>1 DEF WrittenOK
    <3>2. PICK p \in imp[i].rows : p.key = k BY <1>1, <3>1 DEF WrittenOK
    <3>3. p.run = r /\ p.target = r BY <1>1, <3>1, <3>2 DEF WrittenOK
    <3> QED BY <1>2, <3>1, <3>2, <3>3
  <2>2. CASE k \notin imp[i].inserted
    BY <1>2, <1>9, <2>2 DEF SeedInv, AllOrNothing
  <2> QED BY <2>1, <2>2
<1> QED BY <1>3, <1>5, <1>7, <1>8, <1>9 DEF AllOrNothing

LEMMA Commits ==
    ASSUME SeedInv, NEW i \in Importers, imp[i].pc = "write", imp[i].marked, Committed(i),
           NEW pc \in {"unlock", "fail"}, NEW result \in {"ok", "error"}, After(i, pc, result),
           UNCHANGED lock, faults' \in 0 .. MaxFaults
    PROVE  SeedInv'
<1> USE SeedAssumption
<1> DEFINE r == imp[i].run
           row == [status |-> "succeeded", manifest |-> ManifestOf[i]]
<1>1. /\ ImporterOK(i) /\ r \in RunIds /\ runs[r].manifest = ManifestOf[i] /\ runs[r].status = "started"
      /\ runs \in [RunIds -> Run] /\ Succeeded(VersionOf[ManifestOf[i]]) = {}
  BY DEF SeedInv, SeedTypeOK, ImporterOK, HasRun, Run
<1>2. row \in Run /\ row.manifest = ManifestOf[i] /\ row.status = "succeeded"
  BY DEF Run
<1>3. runs' = [runs EXCEPT ![r] = row]
  <2>1. [runs[r] EXCEPT !.status = "succeeded"] = row BY <1>1 DEF Run
  <2> QED BY <2>1 DEF Committed
<1> HIDE DEF row
<1>4. runs'[r] = row BY <1>1, <1>3
<1>5. PICK new \in Importer : /\ imp' = [imp EXCEPT ![i] = new] /\ imp'[i] = new
                              /\ new.pc = pc /\ new.run = r /\ ~new.marked /\ new.result = result
  BY AfterMoves DEF Pcs
<1>6. Applied(ManifestOf[i])'
  BY <1>1, <1>2, <1>4 DEF Applied
<1>7. ImporterOK(i)'
  BY <1>1, <1>2, <1>4, <1>5, <1>6 DEF ImporterOK, HasRun
<1>8. \A j \in Importers \ {i} : /\ HasRun(j) => imp[j].run # r
                                 /\ imp[j].marked => VersionOf[ManifestOf[j]] # VersionOf[ManifestOf[i]]
  BY DEF SeedInv, Apart, HasRun
<1>9. \A j \in Importers \ {i} : Apart(i, j)' /\ Apart(j, i)'
  BY <1>5, <1>8 DEF Apart, HasRun, SeedInv
<1>10. /\ AllOrNothing' /\ target' \in [Keys -> RunIds \cup {None, Editor}]
       /\ \A p \in prov' : p.run \in RunIds /\ p.key \in Keys /\ p.target \in RunIds \cup {Editor}
  BY CommitIsWhole
<1>11. /\ row.status # "none" /\ runs[r].status # "succeeded" /\ imp[i].pc # "idle"
       /\ row.status = "succeeded" =>
            /\ Succeeded(VersionOf[ManifestOf[i]]) = {}
            /\ \A j \in Importers \ {i} : imp[j].marked => VersionOf[ManifestOf[j]] # VersionOf[ManifestOf[i]]
  BY <1>1, <1>2, <1>8
<1>12. r \in RunIds /\ \A j \in Importers \ {i} : HasRun(j) => imp[j].run # r
  BY <1>1, <1>8
<1>13. new \in Importer /\ imp' = [imp EXCEPT ![i] = new]
  BY <1>5
<1> HIDE DEF r
<1> QED BY <1>2, <1>3, <1>7, <1>9, <1>10, <1>11, <1>12, <1>13, RunMoves

LEMMA CommitInv ==
    ASSUME SeedInv, NEW i \in Importers, Commit(i)
    PROVE  SeedInv'
<1>1. faults' \in 0 .. MaxFaults BY DEF Commit, SeedInv, SeedTypeOK
<1> QED BY <1>1, Commits DEF Commit

\* The transaction is over and has left nothing.
LEMMA EndsWithout ==
    ASSUME SeedInv, NEW i \in Importers, imp[i].pc \in {"write", "rollback"}, After(i, "fail", "error"),
           UNCHANGED <<target, runs, prov, lock>>, faults' \in 0 .. MaxFaults
    PROVE  SeedInv'
<1>1. ImporterOK(i) /\ lock \in [Manifests -> Importers \cup {None}]
  BY DEF SeedInv, SeedTypeOK
<1>2. PICK new \in Importer : /\ imp' = [imp EXCEPT ![i] = new] /\ imp'[i] = new
                              /\ new.pc = "fail" /\ new.run = imp[i].run /\ ~new.marked
                              /\ new.result = "error"
  BY AfterMoves DEF Pcs
<1>3. ImporterOK(i)'
  BY <1>1, <1>2 DEF ImporterOK, HasRun
<1>4. \A j \in Importers \ {i} : Apart(i, j)' /\ Apart(j, i)'
  BY <1>2 DEF Apart, HasRun, SeedInv
<1> QED BY <1>1, <1>2, <1>3, <1>4, ImporterMoves

LEMMA CommitUnansweredInv ==
    ASSUME SeedInv, NEW i \in Importers, CommitUnanswered(i)
    PROVE  SeedInv'
<1>1. faults' \in 0 .. MaxFaults BY FaultType DEF CommitUnanswered
<1>2. CASE Committed(i) BY <1>1, <1>2, Commits DEF CommitUnanswered
<1>3. CASE UNCHANGED <<target, prov, runs>> BY <1>1, <1>3, EndsWithout DEF CommitUnanswered
<1> QED BY <1>2, <1>3 DEF CommitUnanswered

LEMMA RollbackInv ==
    ASSUME SeedInv, NEW i \in Importers, Rollback(i)
    PROVE  SeedInv'
<1>1. faults' \in 0 .. MaxFaults BY DEF Rollback, SeedInv, SeedTypeOK
<1> QED BY <1>1, EndsWithout DEF Rollback

----------------------------------------------------------------------------
(* After the transaction, and the editors                                  *)

LEMMA FailAttemptInv ==
    ASSUME SeedInv, NEW i \in Importers, FailAttempt(i)
    PROVE  SeedInv'
<1> USE SeedAssumption
<1> DEFINE r == imp[i].run
<1>1. /\ ImporterOK(i) /\ imp[i].pc = "fail" /\ r \in RunIds /\ runs[r].manifest = ManifestOf[i]
      /\ runs \in [RunIds -> Run] /\ runs[r].status # "none" /\ imp[i] \in Importer
      /\ lock \in [Manifests -> Importers \cup {None}]
  BY DEF FailAttempt, SeedInv, SeedTypeOK, ImporterOK, HasRun, Run
<1>2. UNCHANGED <<target, prov, lock, faults>> /\ faults' \in 0 .. MaxFaults
  BY DEF FailAttempt, SeedInv, SeedTypeOK
<1>3. PICK new \in Importer : imp' = [imp EXCEPT ![i] = new] /\ new = [imp[i] EXCEPT !.pc = "unlock"]
  BY MovesTo DEF Pcs, FailAttempt
<1>4. /\ imp'[i] = new /\ new.pc = "unlock" /\ new.marked = imp[i].marked /\ new.result = imp[i].result
  BY <1>1, <1>3 DEF SeedInv, Importer
<1>5. ~imp[i].marked BY <1>1 DEF ImporterOK
<1>6. \A j \in Importers \ {i} : Apart(i, j)' /\ Apart(j, i)'
  BY <1>3, <1>4, <1>5 DEF Apart, HasRun, SeedInv
<1>7. CASE runs[r].status = "started"
  <2> DEFINE row == [status |-> "failed", manifest |-> ManifestOf[i]]
  <2>1. row \in Run /\ row.manifest = ManifestOf[i] /\ row.status = "failed"
    BY DEF Run
  <2>2. runs' = [runs EXCEPT ![r] = row]
    <3>1. [runs[r] EXCEPT !.status = "failed"] = row BY <1>1 DEF Run
    <3> QED BY <1>7, <3>1 DEF FailAttempt
  <2> HIDE DEF row
  <2>3. runs'[r] = row /\ \A q \in RunIds \ {r} : runs'[q] = runs[q] BY <1>1, <2>2
  <2>4. AllOrNothing'
    BY <1>2, <1>7, <2>1, <2>3 DEF SeedInv, AllOrNothing, SeedTypeOK
  <2>5. Applied(ManifestOf[i]) => Applied(ManifestOf[i])'
    BY <1>7, <2>3 DEF Applied
  <2>6. ImporterOK(i)'
    BY <1>1, <1>2, <1>4, <1>5, <2>5 DEF ImporterOK, HasRun
  <2>7. \A j \in Importers \ {i} : HasRun(j) => imp[j].run # r
    BY <1>1 DEF SeedInv, Apart, HasRun
  <2>8. /\ target' \in [Keys -> RunIds \cup {None, Editor}]
        /\ \A p \in prov' : p.run \in RunIds /\ p.key \in Keys /\ p.target \in RunIds \cup {Editor}
    BY <1>2 DEF SeedInv, SeedTypeOK
  <2>9. row.status # "none" /\ row.status # "succeeded" /\ runs[r].status # "succeeded" /\ imp[i].pc # "idle"
    BY <1>1, <1>7, <2>1
  <2>10. r \in RunIds BY <1>1
  <2> HIDE DEF r
  <2> QED BY <1>2, <1>3, <1>6, <2>1, <2>2, <2>4, <2>6, <2>7, <2>8, <2>9, <2>10, RunMoves
<1>8. CASE runs[r].status # "started"
  <2>1. UNCHANGED runs
    <3>1. [runs[r] EXCEPT !.status = runs[r].status] = runs[r] BY <1>1 DEF Run
    <3>2. runs' = [runs EXCEPT ![r] = [runs[r] EXCEPT !.status = runs[r].status]]
      BY <1>8 DEF FailAttempt
    <3> QED BY <1>1, <3>1, <3>2
  <2>2. ImporterOK(i)'
    BY <1>1, <1>2, <1>4, <1>5, <2>1 DEF ImporterOK, HasRun, Applied
  <2> QED BY <1>1, <1>2, <1>3, <1>6, <2>1, <2>2, ImporterMoves
<1> QED BY <1>7, <1>8

\* The importer stops and its lock is free.
LEMMA Stops ==
    ASSUME SeedInv, NEW i \in Importers, imp[i].pc # "idle", NEW result \in {"none", "ok", "prior", "error"},
           result \in {"ok", "prior"} => result = imp[i].result,
           lock' = [lock EXCEPT ![ManifestOf[i]] = None], imp' = [imp EXCEPT ![i] = Idle(result)],
           UNCHANGED <<target, runs, prov>>, faults' \in 0 .. MaxFaults
    PROVE  SeedInv'
<1> USE SeedAssumption
<1> DEFINE new == Idle(result)
<1>1. new \in Importer /\ new.pc = "idle" /\ ~new.marked /\ new.result = result
  BY IdleType DEF Idle
<1> HIDE DEF new
<1>2. /\ ImporterOK(i) /\ lock[ManifestOf[i]] = i /\ ManifestOf[i] \in Manifests
      /\ lock \in [Manifests -> Importers \cup {None}]
  BY DEF SeedInv, SeedTypeOK, ImporterOK
<1>3. imp' = [imp EXCEPT ![i] = new] BY DEF new
<1>4. imp'[i] = new /\ lock'[ManifestOf[i]] = None /\ lock' \in [Manifests -> Importers \cup {None}]
      /\ \A m \in Manifests : m # ManifestOf[i] => lock'[m] = lock[m]
  BY <1>2, <1>3 DEF SeedInv
<1>5. ImporterOK(i)'
  BY <1>1, <1>2, <1>4 DEF ImporterOK, HasRun, Applied
<1>6. \A j \in Importers \ {i} : Apart(i, j)' /\ Apart(j, i)'
  BY <1>1, <1>4 DEF Apart, HasRun
<1> QED BY <1>1, <1>2, <1>3, <1>4, <1>5, <1>6, ImporterMoves

LEMMA UnlockInv ==
    ASSUME SeedInv, NEW i \in Importers, Unlock(i)
    PROVE  SeedInv'
<1>1. imp[i].result \in {"none", "ok", "prior", "error"} BY DEF SeedInv, Importer
<1>2. faults' \in 0 .. MaxFaults BY DEF Unlock, SeedInv, SeedTypeOK
<1> QED BY <1>1, <1>2, Stops DEF Unlock

LEMMA CrashInv ==
    ASSUME SeedInv, NEW i \in Importers, Crash(i)
    PROVE  SeedInv'
<1>1. faults' \in 0 .. MaxFaults BY FaultType DEF Crash
<1> QED BY <1>1, Stops DEF Crash

LEMMA EditInv ==
    ASSUME SeedInv, NEW k \in Keys, Edit(k)
    PROVE  SeedInv'
<1> USE SeedAssumption
<1>1. /\ target' \in [Keys -> RunIds \cup {None, Editor}]
      /\ \A x \in Keys : target'[x] = target[x] \/ target'[x] \in {None, Editor}
  BY DEF Edit, SeedInv, SeedTypeOK
<1>2. UNCHANGED <<runs, prov, lock, imp, faults>> BY DEF Edit
<1>3. SeedTypeOK' BY <1>1, <1>2 DEF SeedInv, SeedTypeOK
<1>4. AllOrNothing' BY <1>1, <1>2 DEF SeedInv, AllOrNothing
<1>5. OneSuccess' BY <1>2 DEF SeedInv, OneSuccess
<1>6. \A i \in Importers : ImporterOK(i)'
  BY <1>2 DEF SeedInv, ImporterOK, HasRun, PlanOK, WrittenOK, Applied, Records, Succeeded
<1>7. \A i, j \in Importers : i # j => Apart(i, j)'
  BY <1>2 DEF SeedInv, Apart, HasRun
<1> QED BY <1>2, <1>3, <1>4, <1>5, <1>6, <1>7 DEF SeedInv

----------------------------------------------------------------------------
(* The theorems                                                            *)

LEMMA SeedInitInv == SeedInit => SeedInv
<1> USE SeedAssumption
<1> SUFFICES ASSUME SeedInit PROVE SeedInv
  OBVIOUS
<1> DEFINE new == Idle("none")
<1>1. /\ new \in Importer /\ new.pc = "idle" /\ ~new.marked /\ new.result = "none"
  BY IdleType DEF Idle
<1> HIDE DEF new
<1>2. /\ imp = [i \in Importers |-> new] /\ \A r \in RunIds : runs[r] = NoRun
      /\ NoRun \in Run /\ NoRun.status = "none" /\ \A m \in Manifests : lock[m] = None
  BY DEF SeedInit, new, NoRun, Run
<1>3. SeedTypeOK
  BY <1>2 DEF SeedTypeOK, SeedInit, Run
<1>4. AllOrNothing /\ OneSuccess
  BY <1>2 DEF AllOrNothing, OneSuccess, SeedInit
<1>5. \A i \in Importers : ImporterOK(i)
  BY <1>1, <1>2 DEF ImporterOK, HasRun
<1>6. \A i, j \in Importers : i # j => Apart(i, j)
  BY <1>1, <1>2 DEF Apart, HasRun
<1> QED BY <1>1, <1>2, <1>3, <1>4, <1>5, <1>6 DEF SeedInv

LEMMA SeedNextInv == SeedInv /\ [SeedNext]_seedVars => SeedInv'
<1> SUFFICES ASSUME SeedInv, [SeedNext]_seedVars PROVE SeedInv'
  OBVIOUS
<1>1. ASSUME NEW i \in Importers, Import(i) PROVE SeedInv'
  BY <1>1, LookupInv, PlanRecordInv, BeginInv, WriteRecordInv, MarkSucceededInv, CommitInv,
     DeadlockVictimInv, RollbackInv, FailAttemptInv, UnlockInv DEF Import
<1>2. ASSUME NEW i \in Importers, Lock(i) \/ StatementFails(i) \/ CommitUnanswered(i) \/ Crash(i)
      PROVE  SeedInv'
  BY <1>2, LockInv, StatementFailsInv, CommitUnansweredInv, CrashInv
<1>3. ASSUME NEW k \in Keys, Edit(k) PROVE SeedInv'
  BY <1>3, EditInv
<1>4. CASE UNCHANGED seedVars
  <2>1. UNCHANGED <<target, runs, prov, lock, imp, faults>> BY <1>4 DEF seedVars
  <2>2. SeedTypeOK' /\ AllOrNothing' /\ OneSuccess'
    BY <2>1 DEF SeedInv, SeedTypeOK, AllOrNothing, OneSuccess
  <2>3. \A i \in Importers : ImporterOK(i)'
    BY <2>1 DEF SeedInv, ImporterOK, HasRun, PlanOK, WrittenOK, Applied, Records, Succeeded
  <2>4. \A i, j \in Importers : i # j => Apart(i, j)'
    BY <2>1 DEF SeedInv, Apart, HasRun
  <2> QED BY <2>1, <2>2, <2>3, <2>4 DEF SeedInv
<1> QED BY <1>1, <1>2, <1>3, <1>4 DEF SeedNext

LEMMA SeedInvariant == SeedSpec => []SeedInv
BY SeedInitInv, SeedNextInv, PTL DEF SeedSpec

\* SeedTypeOK holds: in particular only an importer that runs holds a lock, so
\* that an end of any kind frees it (the deferred unlock of apply).
THEOREM SeedTypesHold == SeedSpec => []SeedTypeOK
<1>1. SeedInv => SeedTypeOK BY DEF SeedInv
<1> QED BY <1>1, SeedInvariant, PTL

\* AllOrNothing for any number of importers, manifests, records and runs: what a
\* run leaves behind is its whole manifest with its provenance, or nothing.
THEOREM SeedsAreWhole == SeedSpec => []AllOrNothing
<1>1. SeedInv => AllOrNothing BY DEF SeedInv
<1> QED BY <1>1, SeedInvariant, PTL

\* ReportedIsApplied for any number of importers and manifests: a success that
\* is reported is of the manifest, and the only one of its seed version.
THEOREM ReportsAreTrue == SeedSpec => []ReportedIsApplied
<1>1. SeedInv => ReportedIsApplied
  <2> SUFFICES ASSUME SeedInv, NEW i \in Importers, imp[i].result \in {"ok", "prior"}
               PROVE  /\ \E r \in RunIds : runs[r] = [status |-> "succeeded", manifest |-> ManifestOf[i]]
                      /\ Cardinality(Succeeded(VersionOf[ManifestOf[i]])) = 1
    BY DEF ReportedIsApplied
  <2>1. PICK r \in RunIds : runs[r].status = "succeeded" /\ runs[r].manifest = ManifestOf[i]
    BY DEF SeedInv, ImporterOK, Applied
  <2>2. runs[r] \in Run BY DEF SeedInv, SeedTypeOK, Run
  <2>3. runs[r] = [status |-> "succeeded", manifest |-> ManifestOf[i]]
    BY <2>1, <2>2 DEF Run
  <2>4. Succeeded(VersionOf[ManifestOf[i]]) = {r}
    BY <2>1 DEF Succeeded, SeedInv, OneSuccess
  <2>5. Cardinality({r}) = 1 BY FS_Singleton
  <2> QED BY <2>3, <2>4, <2>5
<1> QED BY <1>1, SeedInvariant, PTL

=============================================================================
