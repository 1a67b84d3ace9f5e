---------------------------- MODULE ContentSeed ----------------------------
(***************************************************************************)
(* The import of seeded content.  A manifest is applied under an advisory  *)
(* lock of its seed version and SHA: the records are planned outside of a  *)
(* transaction, a run row is inserted, and the inserts, their provenance   *)
(* and the run's success are one transaction.  Several importers may run,  *)
(* of one manifest or of different manifests, and fail or crash anywhere.  *)
(*                                                                         *)
(* Abstracted: a record's payload is its hash; a target is named by the    *)
(* run that inserted it; the order of a manifest's records is left open.   *)
(***************************************************************************)
EXTENDS Integers, FiniteSets

CONSTANTS
    Importers,    \* processes of content-import
    Manifests,    \* manifests, one per seed version and SHA
    ManifestOf,   \* [Importers -> Manifests]
    VersionOf,    \* [Manifests -> seed versions]
    Keys,         \* source keys: locations, pages, the site layout
    RecordsOf,    \* [Manifests -> SUBSET Keys]
    HashOf,       \* [Manifests -> [Keys -> record hashes]]
    Editor,       \* the maker of targets that are not seeded
    None,         \* no target, no holder
    MaxRuns,      \* bound: run rows
    MaxFaults     \* bound: crashes, failed statements and lost answers

VARIABLES
    target,   \* the content rows by natural key: None, Editor or a run
    runs,     \* content_seed_run rows
    prov,     \* content_seed_source rows
    lock,     \* advisory locks: the importer that holds a manifest's lock
    imp,      \* where each importer is
    faults

seedVars == <<target, runs, prov, lock, imp, faults>>

RunIds == 1 .. MaxRuns

ASSUME SeedAssumption ==
    /\ ManifestOf \in [Importers -> Manifests] /\ RecordsOf \in [Manifests -> SUBSET Keys]
    /\ MaxRuns \in Nat /\ MaxFaults \in Nat
    /\ None \notin Importers \cup Manifests \cup RunIds \cup {Editor} /\ Editor \notin RunIds

NoRun  == [status |-> "none", manifest |-> None]

\* An importer that is not running.  `todo' are the records still to write,
\* `inserted' and `rows' what its open transaction has written.
Idle(result) == [pc |-> "idle", run |-> 0, plan |-> [k \in Keys |-> "none"], found |-> [k \in Keys |-> None],
                 todo |-> {}, inserted |-> {}, rows |-> {}, marked |-> FALSE, result |-> result]

SeedInit ==
    /\ target = [k \in Keys |-> None]
    /\ runs = [r \in RunIds |-> NoRun]
    /\ prov = {}
    /\ lock = [m \in Manifests |-> None]
    /\ imp = [i \in Importers |-> Idle("none")]
    /\ faults = 0

Records(i) == RecordsOf[ManifestOf[i]]
Hash(i, k) == HashOf[ManifestOf[i]][k]

Goto(i, pc) == imp' = [imp EXCEPT ![i].pc = pc]

End(i, result) == imp' = [imp EXCEPT ![i].pc = "unlock", ![i].result = result]

Succeeded(version) == {r \in RunIds : runs[r].status = "succeeded"
                                      /\ VersionOf[runs[r].manifest] = version}

----------------------------------------------------------------------------
(* Before the transaction                                                  *)

\* An importer that may still insert a run row.
Planning(i) == imp[i].pc \in {"lookup", "plan"}

\* pg_advisory_lock, on a connection of the importer's own.  MaxRuns bounds
\* the imports that start, and never stops one that has.
Lock(i) ==
    /\ Cardinality({r \in RunIds : runs[r] # NoRun}) + Cardinality({j \in Importers : Planning(j)}) < MaxRuns
    /\ imp[i].pc = "idle"
    /\ lock[ManifestOf[i]] = None
    /\ lock' = [lock EXCEPT ![ManifestOf[i]] = i]
    /\ imp' = [imp EXCEPT ![i] = [Idle("none") EXCEPT !.pc = "lookup"]]
    /\ UNCHANGED <<target, runs, prov, faults>>

\* Mutant of Lookup: any success of the version is taken for this manifest's.
LookupVersionOnly(i) ==
    /\ imp[i].pc = "lookup"
    /\ IF Succeeded(VersionOf[ManifestOf[i]]) # {}
       THEN End(i, "prior")
       ELSE imp' = [imp EXCEPT ![i].pc = "plan", ![i].todo = Records(i)]
    /\ UNCHANGED <<target, runs, prov, lock, faults>>

\* A success of this seed version: its report again, or a refusal.
Lookup(i) ==
    /\ imp[i].pc = "lookup"
    /\ LET prior == Succeeded(VersionOf[ManifestOf[i]])
       IN IF prior = {}
          THEN imp' = [imp EXCEPT ![i].pc = "plan", ![i].todo = Records(i)]
          ELSE End(i, IF \E r \in prior : runs[r].manifest = ManifestOf[i]
                      THEN "prior" ELSE "error")
    /\ UNCHANGED <<target, runs, prov, lock, faults>>

\* A target this record was seeded into before, by a run that succeeded.
Provenance(i, k) ==
    \E p \in prov : /\ p.key = k /\ p.hash = Hash(i, k) /\ p.target = target[k]
                    /\ runs[p.run].status = "succeeded"

\* plan: one record at a time, each against the committed rows.
PlanRecord(i) ==
    /\ imp[i].pc = "plan"
    /\ \E k \in imp[i].todo :
        imp' = [imp EXCEPT ![i].todo = @ \ {k}, ![i].found[k] = target[k],
                  ![i].plan[k] = CASE target[k] = None -> "insert"
                                   [] target[k] # None /\ Provenance(i, k) -> "skip"
                                   [] OTHER -> "conflict"]
    /\ UNCHANGED <<target, runs, prov, lock, faults>>

\* A conflict ends the import; otherwise the run row is inserted.
Begin(i) ==
    /\ imp[i].pc = "plan" /\ imp[i].todo = {}
    /\ IF \E k \in Records(i) : imp[i].plan[k] = "conflict"
       THEN End(i, "error") /\ UNCHANGED runs
       ELSE \E r \in RunIds :
              /\ \A s \in RunIds : runs[s] = NoRun <=> s >= r
              /\ runs' = [runs EXCEPT ![r] = [status |-> "started", manifest |-> ManifestOf[i]]]
              /\ imp' = [imp EXCEPT ![i].pc = "write", ![i].run = r, ![i].todo = Records(i)]
    /\ UNCHANGED <<target, prov, lock, faults>>

----------------------------------------------------------------------------
(* The transaction.  An insert waits for an uncommitted one of the same    *)
(* key, and fails when a committed one is there; so does the success of a  *)
(* seed version, which a partial unique index allows once.                 *)

Row(i, k) == [run |-> imp[i].run, key |-> k, hash |-> Hash(i, k),
              target |-> IF imp[i].plan[k] = "insert" THEN imp[i].run ELSE imp[i].found[k]]

WaitsForInsert(i, j) ==
    /\ i # j /\ imp[i].pc = "write"
    /\ \A k \in imp[i].todo : imp[i].plan[k] = "insert" /\ k \in imp[j].inserted

WaitsForSuccess(i, j) ==
    /\ i # j /\ imp[i].pc = "write" /\ imp[i].todo = {} /\ ~imp[i].marked
    /\ imp[j].marked /\ VersionOf[ManifestOf[i]] = VersionOf[ManifestOf[j]]

WriteRecord(i) ==
    /\ imp[i].pc = "write"
    /\ \E k \in imp[i].todo :
        LET inserts == imp[i].plan[k] = "insert"
        IN /\ inserts => \A j \in Importers : k \notin imp[j].inserted
           /\ IF inserts /\ target[k] # None
              THEN Goto(i, "rollback")
              ELSE imp' = [imp EXCEPT ![i].todo = @ \ {k},
                             ![i].inserted = IF inserts THEN @ \cup {k} ELSE @,
                             ![i].rows = @ \cup {Row(i, k)}]
    /\ UNCHANGED <<target, runs, prov, lock, faults>>

\* Mutant of MarkSucceeded: without the unique index on the version.
MarkWithoutIndex(i) ==
    /\ imp[i].pc = "write" /\ imp[i].todo = {} /\ ~imp[i].marked
    /\ imp' = [imp EXCEPT ![i].marked = TRUE]
    /\ UNCHANGED <<target, runs, prov, lock, faults>>

MarkSucceeded(i) ==
    /\ imp[i].pc = "write" /\ imp[i].todo = {} /\ ~imp[i].marked
    /\ \A j \in Importers : ~WaitsForSuccess(i, j)
    /\ IF Succeeded(VersionOf[ManifestOf[i]]) # {}
       THEN Goto(i, "rollback")
       ELSE imp' = [imp EXCEPT ![i].marked = TRUE]
    /\ UNCHANGED <<target, runs, prov, lock, faults>>

\* What the commit makes visible.
Committed(i) ==
    /\ target' = [k \in Keys |-> IF k \in imp[i].inserted THEN imp[i].run ELSE target[k]]
    /\ prov' = prov \cup imp[i].rows
    /\ runs' = [runs EXCEPT ![imp[i].run].status = "succeeded"]

\* The transaction of i is over, and it goes on at pc with `result'.
After(i, pc, result) ==
    imp' = [imp EXCEPT ![i].pc = pc, ![i].inserted = {}, ![i].rows = {},
                       ![i].marked = FALSE, ![i].todo = {}, ![i].result = result]

Commit(i) ==
    /\ imp[i].pc = "write" /\ imp[i].marked
    /\ Committed(i)
    /\ After(i, "unlock", "ok")
    /\ UNCHANGED <<lock, faults>>

\* The answer of the commit is lost, after it was made or before.
CommitUnanswered(i) ==
    /\ imp[i].pc = "write" /\ imp[i].marked
    /\ faults < MaxFaults
    /\ faults' = faults + 1
    /\ Committed(i) \/ UNCHANGED <<target, prov, runs>>
    /\ After(i, "fail", "error")
    /\ UNCHANGED lock

\* A statement of the transaction fails or is cancelled.
StatementFails(i) ==
    /\ imp[i].pc = "write"
    /\ faults < MaxFaults
    /\ faults' = faults + 1
    /\ Goto(i, "rollback")
    /\ UNCHANGED <<target, runs, prov, lock>>

\* Two importers wait for each other's inserts: Postgres aborts one.
DeadlockVictim(i) ==
    /\ \E j \in Importers : WaitsForInsert(i, j) /\ WaitsForInsert(j, i)
                            /\ imp[i].todo # {} /\ imp[j].todo # {}
    /\ Goto(i, "rollback")
    /\ UNCHANGED <<target, runs, prov, lock, faults>>

\* Mutant of Rollback: the records were not written in the transaction.
RollbackKeepsRecords(i) ==
    /\ imp[i].pc = "rollback"
    /\ target' = [k \in Keys |-> IF k \in imp[i].inserted THEN imp[i].run ELSE target[k]]
    /\ After(i, "fail", "error")
    /\ UNCHANGED <<runs, prov, lock, faults>>

Rollback(i) ==
    /\ imp[i].pc = "rollback"
    /\ After(i, "fail", "error")
    /\ UNCHANGED <<target, runs, prov, lock, faults>>

----------------------------------------------------------------------------
(* After the transaction                                                   *)

\* failAttempt: a run that is still 'started' becomes 'failed'.
FailAttempt(i) ==
    /\ imp[i].pc = "fail"
    /\ runs' = [runs EXCEPT ![imp[i].run].status = IF @ = "started" THEN "failed" ELSE @]
    /\ Goto(i, "unlock")
    /\ UNCHANGED <<target, prov, lock, faults>>

\* Mutant of Unlock: the lock is given back after a success only.
UnlockAfterSuccess(i) ==
    /\ imp[i].pc = "unlock"
    /\ lock' = IF imp[i].result = "error" THEN lock
               ELSE [lock EXCEPT ![ManifestOf[i]] = None]
    /\ imp' = [imp EXCEPT ![i] = Idle(imp[i].result)]
    /\ UNCHANGED <<target, runs, prov, faults>>

\* The deferred pg_advisory_unlock.  When it fails the connection is thrown
\* away, which frees the lock too.
Unlock(i) ==
    /\ imp[i].pc = "unlock"
    /\ lock' = [lock EXCEPT ![ManifestOf[i]] = None]
    /\ imp' = [imp EXCEPT ![i] = Idle(imp[i].result)]
    /\ UNCHANGED <<target, runs, prov, faults>>

\* The process dies: Postgres ends its session, with transaction and lock.
Crash(i) ==
    /\ imp[i].pc # "idle"
    /\ faults < MaxFaults
    /\ faults' = faults + 1
    /\ lock' = [lock EXCEPT ![ManifestOf[i]] = None]
    /\ imp' = [imp EXCEPT ![i] = Idle("none")]
    /\ UNCHANGED <<target, runs, prov>>

\* Editors create and delete content with the same keys.
Edit(k) ==
    /\ \A j \in Importers : k \notin imp[j].inserted
    /\ target' = [target EXCEPT ![k] = IF @ = None THEN Editor ELSE None]
    /\ UNCHANGED <<runs, prov, lock, imp, faults>>

Import(i) ==
    \/ Lookup(i) \/ PlanRecord(i) \/ Begin(i) \/ WriteRecord(i) \/ MarkSucceeded(i)
    \/ Commit(i) \/ DeadlockVictim(i) \/ Rollback(i) \/ FailAttempt(i) \/ Unlock(i)

SeedNext ==
    \/ \E i \in Importers : \/ Lock(i) \/ Import(i) \/ StatementFails(i)
                            \/ CommitUnanswered(i) \/ Crash(i)
    \/ \E k \in Keys : Edit(k)

\* An importer that holds its lock goes on.
SeedFairness == \A i \in Importers : WF_seedVars(Import(i))

SeedSpec == SeedInit /\ [][SeedNext]_seedVars /\ SeedFairness

----------------------------------------------------------------------------
(* Properties                                                              *)

SeedTypeOK ==
    /\ target \in [Keys -> RunIds \cup {None, Editor}]
    /\ runs \in [RunIds -> [status : {"none", "started", "succeeded", "failed"},
                            manifest : Manifests \cup {None}]]
    /\ \A p \in prov : p.run \in RunIds /\ p.key \in Keys /\ p.target \in RunIds \cup {Editor}
    /\ lock \in [Manifests -> Importers \cup {None}]
    /\ \A m \in Manifests : lock[m] # None => imp[lock[m]].pc # "idle"
    /\ faults \in 0 .. MaxFaults

\* A run leaves all of its manifest behind or nothing: a run that succeeded has
\* a provenance row for every record of its manifest, and every target seeded
\* by a run, or recorded by one, belongs to a run that succeeded.  No failure,
\* lost answer or crash shows visitors half of a seed (apply, rollbackAndFail).
AllOrNothing ==
    /\ \A r \in RunIds : runs[r].status = "succeeded" =>
          {p.key : p \in {q \in prov : q.run = r}} = RecordsOf[runs[r].manifest]
    /\ \A p \in prov : runs[p.run].status = "succeeded"
    /\ \A k \in Keys : target[k] \in RunIds =>
          \E p \in prov : p.run = target[k] /\ p.key = k /\ p.target = target[k]

\* A seed version is applied once, from one manifest, and an importer that
\* reports success reports that manifest's: two importers of different
\* manifests of a version never both succeed, although their locks differ.
ReportedIsApplied ==
    \A i \in Importers :
        imp[i].result \in {"ok", "prior"} =>
            /\ \E r \in RunIds : runs[r] = [status |-> "succeeded", manifest |-> ManifestOf[i]]
            /\ Cardinality(Succeeded(VersionOf[ManifestOf[i]])) = 1

\* However an import ends, the lock of its manifest is freed, so that the next
\* attempt does not wait for ever (the deferred unlock of apply).
LocksAreReleased == \A m \in Manifests : lock[m] # None ~> lock[m] = None

=============================================================================
