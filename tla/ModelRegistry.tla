--------------------------- MODULE ModelRegistry ---------------------------
(***************************************************************************)
(* The model registry of one model type (model_registry.py), the artifact  *)
(* store it publishes to (artifact_store.py) and the fixture seeding that  *)
(* writes the same table (seed.py).                                        *)
(*                                                                         *)
(* Operators run the private commands "register" and "rollback", each one  *)
(* PostgreSQL transaction (READ COMMITTED).  The advisory lock, the unique *)
(* index and the resolver's cache are all per model type, so one type is   *)
(* enough.  Nothing a transaction writes is seen before it commits: its    *)
(* writes and its commit are one step, its reads are steps of their own.   *)
(***************************************************************************)
EXTENDS Integers, SequencesExt

CONSTANTS
  Operators,         \* processes of the private command
  Versions,          \* names of model versions
  Candidates,        \* the names candidates are registered under
  Baseline,          \* the contract's baseline_version
  Digests,           \* artifacts, told apart by SHA-256
  Evaluation,        \* [Digests -> Metrics]: metrics on the held-out split
  Prevalence,        \* metrics of the declared baseline
  Fixture,           \* metrics the seed stores for the baseline version
  MaxCalibrationError,
  Files,             \* model.joblib in each output directory of the trainer
  Backends,          \* storage configurations considered
  MaxActivations,    \* bound: entries of model_activations
  MaxMishaps,        \* bound: failures and changes from outside
  NoVersion, NoDigest, NoOperator

Metrics == [brier_score : Nat, log_loss : Nat, expected_calibration_error : Nat]

ASSUME RegistryConstants ==
  /\ Baseline \in Versions /\ Candidates \subseteq Versions /\ Files # {}
  /\ NoVersion \notin Versions
  /\ NoDigest \notin Digests
  /\ NoOperator \notin Operators
  /\ Evaluation \in [Digests -> Metrics]
  /\ Prevalence \in Metrics /\ Fixture \in Metrics
  /\ MaxCalibrationError \in Nat /\ MaxActivations \in Nat /\ MaxMishaps \in Nat
  /\ Backends \subseteq {"path", "managed", "s3"}

VARIABLES
  backend,      \* model_artifact_backend, with or without a managed root
  runtime,      \* the Python and library versions deployed now
  disk,         \* [Files -> Digests]: what each file holds
  object,       \* [Versions \X Digests -> state]: the store's keys
  row,          \* [Versions -> Row]: committed rows of model_versions
  activations,  \* model_activations, in commit order
  typeLock,     \* pg_advisory_xact_lock of the type
  operator,     \* where each operator's transaction is
  seeder,       \* the seeding transaction (they exclude each other)
  mishaps

registryVars ==
  <<backend, runtime, disk, object, row, activations, typeLock, operator, seeder, mishaps>>

\* "intact": the object's bytes have the digest in its key.
ObjectState == {"absent", "intact", "damaged", "lost"}

\* A row that is not registered is not in the table.  "metrics" is the artifact
\* whose evaluation is stored, or NoDigest for the fixture's numbers.
Row == [status : {"none", "active", "retired"}, digest : Digests \cup {NoDigest},
        file : Files, runtime : Nat, metrics : Digests \cup {NoDigest}]

NoRow(f) ==
  [status |-> "none", digest |-> NoDigest, file |-> f, runtime |-> 0, metrics |-> NoDigest]

Active == {v \in Versions : row[v].status = "active"}

\* session.scalar of the active row.
ActiveVersion == IF Active = {} THEN NoVersion ELSE CHOOSE v \in Active : TRUE

Registered == {v \in Versions : row[v].status # "none"}

NoIncumbent == [version |-> NoVersion, digest |-> NoDigest]

Idle(f) ==
  [pc |-> "idle", version |-> Baseline, digest |-> NoDigest, file |-> f, runtime |-> 0,
   incumbent |-> NoIncumbent, active |-> NoVersion, existed |-> FALSE]

AnyFile == CHOOSE f \in Files : TRUE

IdleSeeder == [pc |-> "idle", active |-> NoVersion, existed |-> FALSE, stale |-> FALSE]

RegistryInit ==
  /\ backend \in Backends
  /\ runtime = 1
  /\ disk \in [Files -> Digests]
  /\ object = [k \in Versions \X Digests |-> "absent"]
  /\ row = [v \in Versions |-> NoRow(AnyFile)]
  /\ activations = <<>>
  /\ typeLock = NoOperator
  /\ operator = [o \in Operators |-> Idle(AnyFile)]
  /\ seeder = IdleSeeder
  /\ mishaps = 0

(***************************************************************************)
(* The artifact store                                                      *)
(***************************************************************************)

\* The artifact a row's URI leads to: without a managed root the URI is the
\* path it was registered from, otherwise a key of version and digest.
BytesAt(v, r) ==
  IF backend = "path" THEN disk[r.file]
  ELSE IF object[<<v, r.digest>>] = "intact" THEN r.digest
  ELSE NoDigest

\* read_verified: the bytes are hashed on every read.
ReadVerified(v, r) == BytesAt(v, r) = r.digest

\* publish_sync re-reads the file.  A managed object that exists is verified
\* and kept, an S3 object is written over; without a root nothing is copied.
CanPublish(m) ==
  /\ disk[m.file] = m.digest
  /\ backend = "managed" => object[<<m.version, m.digest>>] # "damaged"

StoreObject(m) ==
  object' = IF backend = "path" THEN object
            ELSE [object EXCEPT ![<<m.version, m.digest>>] = "intact"]

(***************************************************************************)
(* What happens around the registry                                        *)
(***************************************************************************)

Mishap == mishaps < MaxMishaps /\ mishaps' = mishaps + 1

\* The trainer writes model.joblib again, into the same directory.
Retrain(f, d) ==
  /\ disk[f] # d
  /\ disk' = [disk EXCEPT ![f] = d]
  /\ UNCHANGED <<backend, runtime, object, row, activations, typeLock, operator, seeder, mishaps>>

\* A stored object is altered or disappears.
Damage(k, state) ==
  /\ Mishap
  /\ object[k] = "intact"
  /\ state \in {"damaged", "lost"}
  /\ object' = [object EXCEPT ![k] = state]
  /\ UNCHANGED <<backend, runtime, disk, row, activations, typeLock, operator, seeder>>

\* A deployment with other Python or library versions.
Upgrade ==
  /\ Mishap
  /\ runtime' = runtime + 1
  /\ UNCHANGED <<backend, disk, object, row, activations, typeLock, operator, seeder>>

(***************************************************************************)
(* register_and_activate                                                   *)
(***************************************************************************)

Rest == UNCHANGED <<backend, runtime, disk, row, activations, seeder>>

\* The transaction ends without a trace in the database.
Abort(o) ==
  /\ operator' = [operator EXCEPT ![o] = Idle(AnyFile)]
  /\ typeLock' = IF typeLock = o THEN NoOperator ELSE typeLock
  /\ Rest

Goto(o, pc) == operator' = [operator EXCEPT ![o].pc = pc]

\* A manifest as the trainer wrote it: it names the artifact its file held, and
\* an incumbent that was some registered artifact when it was trained.  The
\* checks before the first statement pass.
BeginRegister(o, v, f, incumbent) ==
  /\ operator[o].pc = "idle"
  /\ Len(activations) < MaxActivations
  /\ operator' = [operator EXCEPT
       ![o] = [Idle(f) EXCEPT !.pc = "register", !.version = v, !.digest = disk[f],
                              !.runtime = runtime, !.incumbent = incumbent]]
  /\ UNCHANGED <<object, typeLock, mishaps>>
  /\ Rest

\* _assert_improves
Improves(new, old) ==
  /\ new.brier_score < old.brier_score
  /\ new.log_loss < old.log_loss
  /\ new.expected_calibration_error <= MaxCalibrationError

MetricsOf(d) == IF d = NoDigest THEN Fixture ELSE Evaluation[d]

StoredMetrics(v) == MetricsOf(row[v].metrics)

\* Mutant of BeatsActive: the manifest's incumbent is believed.
BeatsDeclared(m, a) ==
  a # NoVersion =>
    IF row[a].digest = NoDigest THEN Improves(Evaluation[m.digest], StoredMetrics(a))
    ELSE /\ m.incumbent # NoIncumbent
         /\ Improves(Evaluation[m.digest], Evaluation[m.incumbent.digest])

\* An active artifact must be the incumbent the candidate was compared with.
BeatsActive(m, a) ==
  a # NoVersion =>
    IF row[a].digest = NoDigest THEN Improves(Evaluation[m.digest], StoredMetrics(a))
    ELSE /\ m.incumbent = [version |-> a, digest |-> row[a].digest]
         /\ Improves(Evaluation[m.digest], Evaluation[m.incumbent.digest])

\* The lock, the active row (FOR UPDATE) and the gates.
Gate(o) ==
  /\ operator[o].pc = "register"
  /\ Improves(Evaluation[operator[o].digest], Prevalence)
  /\ BeatsActive(operator[o], ActiveVersion)
  /\ typeLock = NoOperator /\ typeLock' = o
  /\ operator' = [operator EXCEPT ![o].pc = "gated", ![o].active = ActiveVersion]
  /\ UNCHANGED <<object, mishaps>>
  /\ Rest

GateRejects(o) ==
  /\ operator[o].pc = "register"
  /\ typeLock = NoOperator
  /\ \/ ~Improves(Evaluation[operator[o].digest], Prevalence)
     \/ ~BeatsActive(operator[o], ActiveVersion)
  /\ Abort(o)
  /\ UNCHANGED <<object, mishaps>>

\* Mutant of SameArtifact: a registered version may be given another artifact.
AnyArtifact(m) == TRUE

\* A version is never registered with a second artifact.
SameArtifact(m) == row[m.version].digest \in {NoDigest, m.digest}

\* The file still has the manifest's digest; the version's row is read
\* (FOR UPDATE).
CheckArtifact(o) ==
  LET m == operator[o]
  IN /\ m.pc = "gated"
     /\ IF disk[m.file] = m.digest /\ SameArtifact(m)
        THEN /\ operator' = [operator EXCEPT
                  ![o].pc = "checked", ![o].existed = m.version \in Registered]
             /\ UNCHANGED typeLock
             /\ Rest
        ELSE Abort(o)
     /\ UNCHANGED <<object, mishaps>>

\* Mutant of Publish: the artifact is left for later.
PublishNothing(o) ==
  /\ operator[o].pc = "checked"
  /\ Goto(o, "published")
  /\ UNCHANGED <<object, typeLock, mishaps>>
  /\ Rest

\* artifact_store.publish.  It is not undone if the transaction fails.  (The
\* optional calibration file goes the same way; nothing reads it back.)
Publish(o) ==
  /\ operator[o].pc = "checked"
  /\ IF CanPublish(operator[o])
     THEN /\ StoreObject(operator[o])
          /\ Goto(o, "published")
          /\ UNCHANGED typeLock
          /\ Rest
     ELSE Abort(o) /\ UNCHANGED object
  /\ UNCHANGED mishaps

\* Mutant of Unique: the table without uq_model_versions_active_type.
NotUnique(v, retired) == TRUE

\* The unique index lets v become active once "retired" is not.
Unique(v, retired) == Active \subseteq {v, retired}

\* v becomes active in place of "previous", with its new contents.
ActivateRow(v, contents, previous, action) ==
  /\ row' = [w \in Versions |->
       CASE w = v -> [contents EXCEPT !.status = "active"]
         [] w = previous /\ w # v -> [row[w] EXCEPT !.status = "retired"]
         [] OTHER -> row[w]]
  /\ activations' =
       Append(activations, [version |-> v, previous |-> previous, action |-> action])

\* The flushes and the commit.  They fail on the unique keys if the seed has
\* inserted or activated a row since this transaction looked.
Promote(o) ==
  LET m == operator[o]
      contents == [status |-> "active", digest |-> m.digest, file |-> m.file,
                   runtime |-> m.runtime, metrics |-> m.digest]
  IN /\ m.pc = "published"
     /\ IF Unique(m.version, m.active) /\ (m.existed \/ m.version \notin Registered)
        THEN /\ ActivateRow(m.version, contents, m.active, "promote")
             /\ operator' = [operator EXCEPT ![o] = Idle(AnyFile)]
             /\ typeLock' = NoOperator
             /\ UNCHANGED <<backend, runtime, disk, seeder>>
        ELSE Abort(o)
     /\ UNCHANGED <<object, mishaps>>

(***************************************************************************)
(* rollback                                                                *)
(***************************************************************************)

BeginRollback(o, v) ==
  /\ operator[o].pc = "idle"
  /\ Len(activations) < MaxActivations
  /\ operator' = [operator EXCEPT ![o] = [Idle(AnyFile) EXCEPT !.pc = "rollback", !.version = v]]
  /\ UNCHANGED <<object, typeLock, mishaps>>
  /\ Rest

\* The target is registered with an artifact this deployment can load.
Restorable(v) ==
  /\ v \in Registered
  /\ row[v].digest # NoDigest
  /\ row[v].runtime = runtime
  /\ ReadVerified(v, row[v])

\* The lock, both rows and the artifact.
VerifyTarget(o) ==
  /\ operator[o].pc = "rollback"
  /\ typeLock = NoOperator
  /\ IF Restorable(operator[o].version)
     THEN /\ typeLock' = o
          /\ operator' = [operator EXCEPT ![o].pc = "verified", ![o].active = ActiveVersion]
          /\ Rest
     ELSE Abort(o)
  /\ UNCHANGED <<object, mishaps>>

\* The target that is active already is left alone.
Restore(o) ==
  LET v == operator[o].version
      previous == operator[o].active
  IN /\ operator[o].pc = "verified"
     /\ IF Unique(v, previous) /\ previous # v
        THEN /\ ActivateRow(v, row[v], previous, "rollback")
             /\ operator' = [operator EXCEPT ![o] = Idle(AnyFile)]
             /\ typeLock' = NoOperator
             /\ UNCHANGED <<backend, runtime, disk, seeder>>
        ELSE Abort(o)
     /\ UNCHANGED <<object, mishaps>>

\* Any await raises, or the process dies: PostgreSQL rolls back and releases
\* the lock.
Fail(o) ==
  /\ operator[o].pc # "idle"
  /\ Mishap
  /\ Abort(o)
  /\ UNCHANGED object

(***************************************************************************)
(* seed_database: the baseline row.  It takes a lock of its own, not the   *)
(* registry's.                                                             *)
(***************************************************************************)

SeedReads ==
  /\ seeder.pc = "idle"
  /\ Len(activations) < MaxActivations
  /\ seeder' = [pc |-> "read", active |-> ActiveVersion, existed |-> Baseline \in Registered,
                stale |-> row[Baseline].metrics # NoDigest]
  /\ UNCHANGED <<backend, runtime, disk, object, row, activations, typeLock, operator, mishaps>>

\* A row some transaction selected FOR UPDATE cannot be updated.
Locked(v) ==
  \E o \in Operators :
    \/ operator[o].pc \in {"gated", "checked", "published", "verified"} /\ operator[o].active = v
    \/ operator[o].pc \in {"checked", "published", "verified"} /\ operator[o].version = v

SeedConflicts ==
  \/ ~seeder.existed /\ Baseline \in Registered
  \/ seeder.active = NoVersion /\ ~Unique(Baseline, NoVersion)

\* The row to write: what the ORM found unchanged it does not write.
SeededRow ==
  IF ~seeder.existed THEN [NoRow(AnyFile) EXCEPT !.status = "retired"]
  ELSE IF seeder.stale THEN [row[Baseline] EXCEPT !.metrics = NoDigest]
  ELSE row[Baseline]

SeedUpdates == seeder.existed /\ (seeder.stale \/ seeder.active = NoVersion)

SeedWrites ==
  /\ seeder.pc = "read"
  /\ SeedUpdates => ~Locked(Baseline)
  /\ seeder' = IdleSeeder
  /\ IF SeedConflicts THEN UNCHANGED <<row, activations>>
     ELSE IF seeder.active = NoVersion
     THEN ActivateRow(Baseline, SeededRow, NoVersion, "seed")
     ELSE row' = [row EXCEPT ![Baseline] = SeededRow] /\ UNCHANGED activations
  /\ UNCHANGED <<backend, runtime, disk, object, typeLock, operator, mishaps>>

SeedFails ==
  /\ seeder.pc = "read"
  /\ seeder' = IdleSeeder
  /\ UNCHANGED <<backend, runtime, disk, object, row, activations, typeLock, operator, mishaps>>

\* What a candidate can have been compared with: an artifact of the registry.
Incumbents ==
  {NoIncumbent} \cup
  {[version |-> v, digest |-> row[v].digest] : v \in {w \in Registered : row[w].digest # NoDigest}}

RegistryNext ==
  \/ \E o \in Operators :
       \/ \E v \in Versions : BeginRollback(o, v)
       \/ \E v \in Candidates, f \in Files, i \in Incumbents : BeginRegister(o, v, f, i)
       \/ Gate(o) \/ GateRejects(o) \/ CheckArtifact(o) \/ Publish(o) \/ Promote(o)
       \/ VerifyTarget(o) \/ Restore(o) \/ Fail(o)
  \/ SeedReads \/ SeedWrites \/ SeedFails
  \/ Upgrade
  \/ \E f \in Files, d \in Digests : Retrain(f, d)
  \/ \E k \in Versions \X Digests, state \in ObjectState : Damage(k, state)

RegistrySpec == RegistryInit /\ [][RegistryNext]_registryVars

(***************************************************************************)
(* Properties                                                              *)
(***************************************************************************)

Operation ==
  [pc : {"idle", "register", "gated", "checked", "published", "rollback", "verified"},
   version : Versions, digest : Digests \cup {NoDigest}, file : Files, runtime : Nat,
   incumbent : [version : Versions, digest : Digests] \cup {NoIncumbent},
   active : Versions \cup {NoVersion}, existed : BOOLEAN]

Activation ==
  [version : Versions, previous : Versions \cup {NoVersion},
   action : {"seed", "promote", "rollback"}]

RegistryTypeOK ==
  /\ backend \in Backends /\ runtime \in Nat /\ mishaps \in 0..MaxMishaps
  /\ disk \in [Files -> Digests]
  /\ object \in [Versions \X Digests -> ObjectState]
  /\ row \in [Versions -> Row]
  /\ activations \in Seq(Activation)
  /\ typeLock \in Operators \cup {NoOperator}
  /\ operator \in [Operators -> Operation]
  /\ seeder \in [pc : {"idle", "read"}, active : Versions \cup {NoVersion},
                  existed : BOOLEAN, stale : BOOLEAN]

\* The activation history is the history of the active row: promotions,
\* rollbacks and seeding that overlap leave one active version, the last one
\* activated, and each entry names the one before it as what it replaced.  (A
\* candidate under the baseline's own name may take over a baseline that was
\* seeded while it was being registered, and names nothing then.)
ActivationsAreChained ==
  /\ Active = IF activations = <<>> THEN {} ELSE {Last(activations).version}
  /\ \A i \in 1..Len(activations) :
       LET entry == activations[i]
       IN IF entry.previous = NoVersion
          THEN \A j \in 1..i : activations[j].version = entry.version
          ELSE i > 1 /\ entry.previous = activations[i - 1].version

\* No promotion replaces a model it was not compared with and found better
\* than, even if another one was promoted since the candidate was trained.
PromotionsImprove ==
  [][Len(activations') > Len(activations) /\ Last(activations').action = "promote" =>
       LET entry == Last(activations')
       IN entry.previous # NoVersion =>
            Improves(MetricsOf(row'[entry.version].digest), MetricsOf(row[entry.previous].digest))]_registryVars

\* A version that has an artifact keeps it: what a rollback or an answer names
\* by version is always the same model.
VersionsAreImmutable ==
  [][\A v \in Versions : row[v].digest # NoDigest => row'[v].digest = row[v].digest]_registryVars

\* An object is in the store before a row refers to it, whatever fails when.
ArtifactsAreKept ==
  \A v \in Versions :
    row[v].digest # NoDigest /\ backend # "path" => object[<<v, row[v].digest>>] # "absent"

\* README.md:179-180: "Replaced models remain registered as rollback targets",
\* with the fixture baseline as the example of README.md:240-242.
ReplacedCanBeRestored ==
  \A i \in 1..Len(activations) :
    activations[i].previous # NoVersion => Restorable(activations[i].previous)
=============================================================================
