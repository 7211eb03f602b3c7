----------------------------- MODULE ModelProofs -----------------------------
(* The registry and the resolver for any number of operators, versions,       *)
(* artifacts and requests, and any metrics.                                   *)
EXTENDS ModelResolver, TLAPS

(***************************************************************************)
(* The inductive invariant                                                 *)
(***************************************************************************)

Holding == {"gated", "checked", "published", "verified"}

\* The transactions past their first read are those with the type's lock.
LockIsHeld == \A o \in Operators : operator[o].pc \in Holding <=> typeLock = o

\* A row without an artifact has the seed's metrics; the first row that is
\* registered is activated.
RowsAreSound ==
  /\ \A v \in Versions :
       /\ row[v].status = "none" => row[v].digest = NoDigest
       /\ row[v].digest = NoDigest => row[v].metrics = NoDigest
  /\ activations = <<>> => Registered = {}

\* What a transaction read under the lock is still so: of what it looked at,
\* the seed can only have activated the baseline where nothing was active.
OperatorIsSound(o) ==
  LET m == operator[o] IN
  /\ m.pc \in {"register", "gated", "checked", "published"} => m.digest \in Digests
  /\ m.pc \in {"gated", "checked", "published"} /\ m.active # NoVersion =>
       Improves(Evaluation[m.digest], MetricsOf(row[m.active].digest))
  /\ m.pc \in {"checked", "published"} => SameArtifact(m)
  /\ m.pc = "published" /\ backend # "path" => object[<<m.version, m.digest>>] # "absent"
  /\ m.pc \in Holding =>
       IF m.active = NoVersion
       THEN \A j \in 1..Len(activations) : activations[j].version = Baseline
       ELSE activations # <<>> /\ Last(activations).version = m.active
  /\ m.pc = "verified" => m.active # NoVersion /\ row[m.version].digest # NoDigest

OperatorsAreSound == \A o \in Operators : OperatorIsSound(o)

\* The seed finds no active version only where nothing is registered.
SeederIsSound ==
  seeder.pc = "read" =>
    IF seeder.active = NoVersion THEN ~seeder.existed ELSE activations # <<>>

\* What is loaded has the digest of its version's row.
CacheIsSound ==
  \A model \in cache :
    /\ model.bytes = model.digest /\ model.bytes \in Servable
    /\ model.digest = row[model.version].digest

\* A request loads the artifact the row of its version names.
RequestIsSound(r) ==
  LET q == request[r] IN
  /\ q.pc \in {"idle", "waiting", "loading"} => q.model = Benchmark
  /\ q.pc \in {"waiting", "loading"} =>
       q.version \in Versions /\ q.row.digest \in Digests /\ q.row.digest = row[q.version].digest
  /\ q.model # Benchmark =>
       /\ q.model.version = q.version /\ q.model.bytes \in Servable
       /\ q.model.bytes = row[q.version].digest

RequestsAreSound == \A r \in Requests : RequestIsSound(r)

RegistryInv ==
  /\ RegistryTypeOK /\ LockIsHeld /\ RowsAreSound /\ OperatorsAreSound /\ SeederIsSound
  /\ ActivationsAreChained /\ ArtifactsAreKept

IInv == TypeOK /\ RegistryInv /\ CacheIsSound /\ RequestsAreSound /\ OneModelLoaded

\* No step gives a version another artifact.
DigestsAreKept ==
  \A v \in Versions : row[v].digest # NoDigest => row'[v].digest = row[v].digest

(***************************************************************************)
(* Lemmas about the operators                                              *)
(***************************************************************************)

\* The active row is the one activated last.
LEMMA ActiveVersionIs ==
  ASSUME RegistryInv
  PROVE  /\ activations = <<>> => ActiveVersion = NoVersion
         /\ activations # <<>> => /\ ActiveVersion = Last(activations).version
                                  /\ ActiveVersion \in Active
         /\ ActiveVersion \in Versions \cup {NoVersion}
         /\ NoVersion \notin Versions
<1>1. Active \subseteq Versions /\ NoVersion \notin Versions
  BY RegistryConstants DEF Active
<1>2. CASE activations = <<>>
  <2>1. Active = {}
    BY <1>2 DEF RegistryInv, ActivationsAreChained
  <2> QED BY <1>1, <1>2, <2>1 DEF ActiveVersion
<1>3. CASE activations # <<>>
  <2>1. Active = {Last(activations).version}
    BY <1>3 DEF RegistryInv, ActivationsAreChained
  <2>2. ActiveVersion \in Active
    BY <2>1 DEF ActiveVersion
  <2> QED BY <1>1, <1>3, <2>1, <2>2
<1> QED BY <1>2, <1>3

\* The file a handler starts from is one of the trainer's.
LEMMA AnyFileIsAFile == AnyFile \in Files
BY RegistryConstants DEF AnyFile

\* Where a transaction starts and ends, and the row of an unregistered version.
LEMMA IdleIsSound ==
  /\ Idle(AnyFile) \in Operation
  /\ Idle(AnyFile).pc = "idle"
  /\ \A f \in Files : NoRow(f) \in Row /\ NoRow(f).status = "none" /\ NoRow(f).digest = NoDigest
                      /\ NoRow(f).metrics = NoDigest
BY AnyFileIsAFile, RegistryConstants DEF Idle, Operation, NoIncumbent, NoRow, Row

\* A row at the end of the history, chained to it, leaves one active row.
LEMMA ActivateRowIs ==
  ASSUME RegistryInv, NEW v \in Versions, NEW contents \in Row,
         NEW previous \in Versions \cup {NoVersion}, NEW action \in {"seed", "promote", "rollback"},
         ActivateRow(v, contents, previous, action), Unique(v, previous),
         contents.digest = NoDigest => contents.metrics = NoDigest,
         row[v].digest # NoDigest => contents.digest = row[v].digest,
         contents.digest # NoDigest /\ backend # "path" =>
           object[<<v, contents.digest>>] # "absent",
         IF previous = NoVersion THEN \A j \in 1..Len(activations) : activations[j].version = v
         ELSE activations # <<>> /\ Last(activations).version = previous,
         UNCHANGED <<backend, object>>
  PROVE  /\ row' \in [Versions -> Row] /\ activations' \in Seq(Activation)
         /\ RowsAreSound' /\ ActivationsAreChained' /\ ArtifactsAreKept' /\ DigestsAreKept
         /\ activations' # <<>> /\ Last(activations').version = v
         /\ \A w \in Versions \ {v} : row'[w].digest = row[w].digest
         /\ row'[v].digest = contents.digest
<1> DEFINE entry == [version |-> v, previous |-> previous, action |-> action]
           n == Len(activations)
<1>1. /\ row \in [Versions -> Row] /\ activations \in Seq(Activation)
      /\ NoVersion \notin Versions
  BY RegistryConstants DEF RegistryInv, RegistryTypeOK
<1>2. /\ row' = [w \in Versions |->
           CASE w = v -> [contents EXCEPT !.status = "active"]
             [] w = previous /\ w # v -> [row[w] EXCEPT !.status = "retired"]
             [] OTHER -> row[w]]
      /\ activations' = Append(activations, entry)
  BY DEF ActivateRow
<1>3. /\ row'[v] \in Row /\ row'[v].status = "active" /\ row'[v].digest = contents.digest
      /\ row'[v].metrics = contents.metrics
  BY <1>2 DEF Row
<1>4. ASSUME NEW w \in Versions, w # v
      PROVE  /\ row'[w] \in Row /\ row'[w].digest = row[w].digest /\ row'[w].metrics = row[w].metrics
             /\ row'[w].status = IF w = previous THEN "retired" ELSE row[w].status
  <2>1. row[w] \in Row
    BY <1>1
  <2>2. row'[w] = IF w = previous THEN [row[w] EXCEPT !.status = "retired"] ELSE row[w]
    BY <1>2, <1>4
  <2> QED BY <2>1, <2>2 DEF Row
<1>5. row' \in [Versions -> Row]
  <2>1. row' = [w \in Versions |-> row'[w]]
    BY <1>2
  <2> QED BY <1>3, <1>4, <2>1
<1>6. /\ n \in Nat /\ entry \in Activation
      /\ activations' \in Seq(Activation)
      /\ Len(activations') = n + 1 /\ activations' # <<>>
      /\ activations'[n + 1] = entry
      /\ \A i \in 1..n : activations'[i] = activations[i]
  BY <1>1, <1>2 DEF Activation
<1>7. entry.version = v /\ entry.previous = previous
  OBVIOUS
<1> HIDE DEF entry
<1>8. Last(activations') = entry
  BY <1>6 DEF Last
<1>9. Active' = {v}
  <2>1. \A w \in Versions : w # v => row'[w].status # "active"
    <3>1. \A w \in Versions : row[w].status = "active" => w \in {v, previous}
      BY DEF Unique, Active
    <3> QED BY <1>4, <3>1
  <2> QED BY <1>3, <2>1 DEF Active
<1>10. RowsAreSound'
  <2>1. \A w \in Versions : /\ row'[w].status = "none" => row'[w].digest = NoDigest
                            /\ row'[w].digest = NoDigest => row'[w].metrics = NoDigest
    BY <1>3, <1>4 DEF RegistryInv, RowsAreSound
  <2> QED BY <1>6, <2>1 DEF RowsAreSound
<1>11. ActivationsAreChained'
  <2>1. ASSUME NEW i \in 1..n
        PROVE  IF activations'[i].previous = NoVersion
               THEN \A j \in 1..i : activations'[j].version = activations'[i].version
               ELSE i > 1 /\ activations'[i].previous = activations'[i - 1].version
    <3>1. /\ activations'[i] = activations[i]
          /\ \A j \in 1..i : activations'[j] = activations[j]
          /\ i > 1 => activations'[i - 1] = activations[i - 1]
      BY <1>6
    <3> QED BY <1>6, <3>1 DEF RegistryInv, ActivationsAreChained
  <2>2. CASE previous = NoVersion
    <3>1. \A j \in 1..(n + 1) : activations'[j].version = v
      <4>1. \A j \in 1..(n + 1) : j \in 1..n \/ j = n + 1
        BY <1>6
      <4> QED BY <1>6, <1>7, <2>2, <4>1
    <3> QED BY <1>6, <1>7, <1>8, <1>9, <2>1, <2>2, <3>1 DEF ActivationsAreChained
  <2>3. CASE previous # NoVersion
    <3>1. /\ n > 0 /\ activations[n].version = previous
          /\ activations'[n] = activations[n]
      BY <1>1, <1>6, <2>3 DEF Last
    <3>2. n + 1 > 1 /\ activations'[n + 1].previous = activations'[(n + 1) - 1].version
      BY <1>6, <1>7, <3>1
    <3>3. \A i \in 1..(n + 1) : i \in 1..n \/ i = n + 1
      BY <1>6
    <3> QED BY <1>6, <1>7, <1>8, <1>9, <2>1, <2>3, <3>2, <3>3 DEF ActivationsAreChained
  <2> QED BY <2>2, <2>3
<1>12. ArtifactsAreKept' /\ DigestsAreKept
  BY <1>3, <1>4 DEF RegistryInv, ArtifactsAreKept, DigestsAreKept
<1> QED BY <1>3, <1>4, <1>5, <1>6, <1>7, <1>8, <1>10, <1>11, <1>12
(***************************************************************************)
(* Initial states, and steps that write no row                             *)
(***************************************************************************)

\* The registry starts empty.
LEMMA InitRegistryInv == RegistryInit => RegistryInv
<1> SUFFICES ASSUME RegistryInit PROVE RegistryInv
  OBVIOUS
<1> USE DEF RegistryInit
<1>1. RegistryTypeOK
  BY IdleIsSound, AnyFileIsAFile, RegistryConstants DEF RegistryTypeOK, ObjectState, IdleSeeder
<1>2. /\ \A v \in Versions : /\ row[v].status = "none" /\ row[v].digest = NoDigest
                             /\ row[v].metrics = NoDigest
      /\ \A o \in Operators : operator[o].pc = "idle"
  BY IdleIsSound, AnyFileIsAFile
<1>3. LockIsHeld /\ OperatorsAreSound /\ SeederIsSound
  BY <1>2, RegistryConstants DEF LockIsHeld, Holding, OperatorsAreSound, OperatorIsSound, SeederIsSound,
                                 IdleSeeder
<1>4. RowsAreSound /\ ArtifactsAreKept
  BY <1>2 DEF RowsAreSound, Registered, ArtifactsAreKept
<1>5. ActivationsAreChained
  BY <1>2 DEF ActivationsAreChained, Active
<1> QED BY <1>1, <1>3, <1>4, <1>5 DEF RegistryInv

\* What is said of rows, history and seed needs no more than these variables.
LEMMA RowsUnchanged ==
  ASSUME RegistryInv, UNCHANGED <<backend, row, activations, seeder>>,
         object' \in [Versions \X Digests -> ObjectState],
         \A k \in Versions \X Digests : object[k] # "absent" => object'[k] # "absent"
  PROVE  /\ RowsAreSound' /\ SeederIsSound' /\ ActivationsAreChained' /\ ArtifactsAreKept'
         /\ DigestsAreKept
<1>1. RowsAreSound' /\ SeederIsSound' /\ DigestsAreKept
  BY DEF RegistryInv, RowsAreSound, Registered, SeederIsSound, DigestsAreKept
<1>2. ActivationsAreChained'
  BY DEF RegistryInv, ActivationsAreChained, Active
<1>3. ArtifactsAreKept'
  <2>1. \A v \in Versions : row[v].digest # NoDigest => <<v, row[v].digest>> \in Versions \X Digests
    BY DEF RegistryInv, RegistryTypeOK, Row
  <2> QED BY <2>1 DEF RegistryInv, ArtifactsAreKept
<1> QED BY <1>1, <1>2, <1>3

\* The rest of the world moves.
LEMMA AroundIsSound ==
  ASSUME RegistryInv,
         (\E f \in Files, d \in Digests : Retrain(f, d)) \/ Upgrade
           \/ (\E k \in Versions \X Digests, state \in ObjectState : Damage(k, state))
  PROVE  RegistryInv' /\ DigestsAreKept
<1>1. UNCHANGED <<backend, row, activations, typeLock, operator, seeder>>
  BY DEF Retrain, Upgrade, Damage
<1>2. /\ object' \in [Versions \X Digests -> ObjectState]
      /\ \A k \in Versions \X Digests : object[k] # "absent" => object'[k] # "absent"
      /\ runtime' \in Nat /\ mishaps' \in 0..MaxMishaps /\ disk' \in [Files -> Digests]
  <2>1. CASE \E f \in Files, d \in Digests : Retrain(f, d)
    BY <2>1 DEF Retrain, RegistryInv, RegistryTypeOK
  <2>2. CASE Upgrade
    BY <2>2, RegistryConstants DEF Upgrade, Mishap, RegistryInv, RegistryTypeOK
  <2>3. ASSUME NEW k \in Versions \X Digests, NEW state \in ObjectState, Damage(k, state)
        PROVE  /\ object' \in [Versions \X Digests -> ObjectState]
               /\ \A j \in Versions \X Digests : object[j] # "absent" => object'[j] # "absent"
               /\ runtime' \in Nat /\ mishaps' \in 0..MaxMishaps /\ disk' \in [Files -> Digests]
    BY <2>3, RegistryConstants DEF Damage, Mishap, RegistryInv, RegistryTypeOK, ObjectState
  <2> QED BY <2>1, <2>2, <2>3
<1>3. RegistryTypeOK' /\ LockIsHeld'
  BY <1>1, <1>2 DEF RegistryInv, RegistryTypeOK, LockIsHeld
<1>4. OperatorsAreSound'
  <2>1. \A o \in Operators : operator[o] \in Operation
    BY DEF RegistryInv, RegistryTypeOK
  <2>2. ASSUME NEW o \in Operators PROVE OperatorIsSound(o)'
    <3>1. OperatorIsSound(o)
      BY DEF RegistryInv, OperatorsAreSound
    <3>2. operator[o].pc = "published" => <<operator[o].version, operator[o].digest>> \in Versions \X Digests
      BY <2>1, <3>1 DEF OperatorIsSound, Operation
    <3> QED BY <1>1, <1>2, <3>1, <3>2 DEF OperatorIsSound, SameArtifact
  <2> QED BY <2>2 DEF OperatorsAreSound
<1> QED BY <1>1, <1>2, <1>3, <1>4, RowsUnchanged DEF RegistryInv

\* A step of one transaction that writes no row.
LEMMA OperatorChange ==
  ASSUME RegistryInv, NEW o \in Operators, UNCHANGED <<backend, runtime, disk, row, activations, seeder>>,
         object' \in [Versions \X Digests -> ObjectState],
         \A k \in Versions \X Digests : object[k] # "absent" => object'[k] # "absent",
         mishaps' \in 0..MaxMishaps,
         operator' \in [Operators -> Operation],
         \A p \in Operators : p # o => operator'[p] = operator[p],
         typeLock' \in Operators \cup {NoOperator},
         \A p \in Operators : p # o => (typeLock' = p <=> typeLock = p),
         operator'[o].pc \in Holding <=> typeLock' = o,
         OperatorIsSound(o)'
  PROVE  RegistryInv' /\ DigestsAreKept
<1>1. RegistryTypeOK' /\ LockIsHeld'
  BY DEF RegistryInv, RegistryTypeOK, LockIsHeld
<1>2. OperatorsAreSound'
  <2>1. ASSUME NEW p \in Operators, p # o PROVE OperatorIsSound(p)'
    <3>1. OperatorIsSound(p) /\ operator[p] \in Operation
      BY DEF RegistryInv, RegistryTypeOK, OperatorsAreSound
    <3>2. operator[p].pc = "published" => <<operator[p].version, operator[p].digest>> \in Versions \X Digests
      BY <3>1 DEF OperatorIsSound, Operation
    <3>3. operator'[p] = operator[p]
      BY <2>1
    <3> QED BY <3>1, <3>2, <3>3 DEF OperatorIsSound, SameArtifact
  <2> QED BY <2>1 DEF OperatorsAreSound
<1> QED BY <1>1, <1>2, RowsUnchanged DEF RegistryInv

\* The types of a transaction's state.
LEMMA OperatorTypes ==
  ASSUME RegistryInv, NEW o \in Operators
  PROVE  /\ operator \in [Operators -> Operation] /\ operator[o] \in Operation
         /\ typeLock \in Operators \cup {NoOperator} /\ NoOperator \notin Operators
         /\ operator[o].pc \in Holding <=> typeLock = o
         /\ OperatorIsSound(o)
         /\ object \in [Versions \X Digests -> ObjectState]
         /\ mishaps \in 0..MaxMishaps /\ MaxMishaps \in Nat
         /\ row \in [Versions -> Row] /\ disk \in [Files -> Digests] /\ runtime \in Nat
         /\ Baseline \in Versions /\ NoDigest \notin Digests /\ NoVersion \notin Versions
BY RegistryConstants DEF RegistryInv, RegistryTypeOK, LockIsHeld, OperatorsAreSound

\* A transaction that ends without a trace leaves nothing behind but objects.
LEMMA AbortIsSound ==
  ASSUME RegistryInv, NEW o \in Operators, Abort(o), UNCHANGED object, mishaps' \in 0..MaxMishaps
  PROVE  RegistryInv' /\ DigestsAreKept
<1>1. /\ operator' = [operator EXCEPT ![o] = Idle(AnyFile)]
      /\ typeLock' = IF typeLock = o THEN NoOperator ELSE typeLock
      /\ UNCHANGED <<backend, runtime, disk, row, activations, seeder>>
  BY DEF Abort, Rest
<1>2. /\ operator' \in [Operators -> Operation] /\ operator'[o].pc = "idle"
      /\ \A p \in Operators : p # o => operator'[p] = operator[p]
      /\ typeLock' \in Operators \cup {NoOperator} /\ typeLock' # o
      /\ \A p \in Operators : p # o => (typeLock' = p <=> typeLock = p)
  BY <1>1, OperatorTypes, IdleIsSound
<1>3. "idle" \notin Holding
  BY DEF Holding
<1>4. OperatorIsSound(o)'
  BY <1>2, <1>3 DEF OperatorIsSound
<1>5. /\ object' \in [Versions \X Digests -> ObjectState]
      /\ \A k \in Versions \X Digests : object[k] # "absent" => object'[k] # "absent"
  BY OperatorTypes
<1> QED BY <1>1, <1>2, <1>3, <1>4, <1>5, OperatorChange

\* A candidate's manifest, or a rollback's target.
LEMMA BeginIsSound ==
  ASSUME RegistryInv, NEW o \in Operators,
         \/ \E v \in Versions : BeginRollback(o, v)
         \/ \E v \in Candidates, f \in Files, i \in Incumbents : BeginRegister(o, v, f, i)
  PROVE  RegistryInv' /\ DigestsAreKept
<1>1. ASSUME NEW m \in Operation, m.pc \in {"register", "rollback"},
             m.pc = "register" => m.digest \in Digests,
             operator[o].pc = "idle", operator' = [operator EXCEPT ![o] = m],
             UNCHANGED <<backend, runtime, disk, object, row, activations, typeLock, seeder, mishaps>>
      PROVE  RegistryInv' /\ DigestsAreKept
  <2>1. /\ operator' \in [Operators -> Operation] /\ operator'[o] = m
        /\ \A p \in Operators : p # o => operator'[p] = operator[p]
    BY <1>1, OperatorTypes
  <2>2. m.pc \notin Holding /\ typeLock # o
    BY <1>1, OperatorTypes DEF Holding
  <2>3. OperatorIsSound(o)'
    BY <1>1, <2>1, <2>2 DEF OperatorIsSound, Holding
  <2>4. /\ object' \in [Versions \X Digests -> ObjectState]
        /\ \A k \in Versions \X Digests : object[k] # "absent" => object'[k] # "absent"
        /\ mishaps' \in 0..MaxMishaps /\ typeLock' \in Operators \cup {NoOperator}
    BY <1>1, OperatorTypes
  <2> QED BY <1>1, <2>1, <2>2, <2>3, <2>4, OperatorChange
<1>2. ASSUME NEW v \in Versions, BeginRollback(o, v)
      PROVE  RegistryInv' /\ DigestsAreKept
  <2> DEFINE m == [Idle(AnyFile) EXCEPT !.pc = "rollback", !.version = v]
  <2>1. m \in Operation /\ m.pc = "rollback"
    BY IdleIsSound DEF Operation
  <2>2. /\ operator[o].pc = "idle" /\ operator' = [operator EXCEPT ![o] = m]
        /\ UNCHANGED <<backend, runtime, disk, object, row, activations, typeLock, seeder, mishaps>>
    BY <1>2 DEF BeginRollback, Rest
  <2> HIDE DEF m
  <2> QED BY <1>1, <2>1, <2>2
<1>3. ASSUME NEW v \in Candidates, NEW f \in Files, NEW i \in Incumbents, BeginRegister(o, v, f, i)
      PROVE  RegistryInv' /\ DigestsAreKept
  <2> DEFINE m == [Idle(f) EXCEPT !.pc = "register", !.version = v, !.digest = disk[f],
                                  !.runtime = runtime, !.incumbent = i]
  <2>1. Idle(f) \in Operation
    BY RegistryConstants DEF Idle, Operation, NoIncumbent
  <2>2. i \in [version : Versions, digest : Digests] \cup {NoIncumbent}
    <3>1. \A w \in Versions : row[w].digest \in Digests \cup {NoDigest}
      BY OperatorTypes DEF Row
    <3> QED BY <3>1 DEF Incumbents, Registered
  <2>3. v \in Versions /\ disk[f] \in Digests /\ runtime \in Nat
    BY RegistryConstants DEF RegistryInv, RegistryTypeOK
  <2>4. m \in Operation /\ m.pc = "register" /\ m.digest \in Digests
    BY <2>1, <2>2, <2>3 DEF Operation
  <2>5. /\ operator[o].pc = "idle" /\ operator' = [operator EXCEPT ![o] = m]
        /\ UNCHANGED <<backend, runtime, disk, object, row, activations, typeLock, seeder, mishaps>>
    BY <1>3 DEF BeginRegister, Rest
  <2> HIDE DEF m
  <2> QED BY <1>1, <2>4, <2>5
<1> QED BY <1>2, <1>3

\* What the gate saw under the lock: the candidate beats the active row's
\* artifact, whatever stands in its manifest.
LEMMA GateIsSound ==
  ASSUME RegistryInv, NEW o \in Operators, Gate(o)
  PROVE  RegistryInv' /\ DigestsAreKept
<1> DEFINE a == ActiveVersion
           m == operator'[o]
<1>1. /\ operator[o].pc = "register" /\ typeLock = NoOperator /\ typeLock' = o
      /\ BeatsActive(operator[o], a)
      /\ operator' = [operator EXCEPT ![o].pc = "gated", ![o].active = a]
      /\ UNCHANGED <<backend, runtime, disk, object, row, activations, seeder, mishaps>>
  BY DEF Gate, Rest
<1>2. /\ a \in Versions \cup {NoVersion}
      /\ activations = <<>> => a = NoVersion
      /\ activations # <<>> => a = Last(activations).version /\ a # NoVersion
      /\ a # NoVersion => a \in Versions
  BY ActiveVersionIs DEF Active
<1> HIDE DEF a
<1>3. operator[o] \in Operation /\ operator[o].digest \in Digests
  BY <1>1, OperatorTypes DEF OperatorIsSound
<1>4. /\ operator' \in [Operators -> Operation]
      /\ m.pc = "gated" /\ m.active = a /\ m.digest = operator[o].digest
      /\ \A p \in Operators : p # o => operator'[p] = operator[p]
  <2> DEFINE next == [operator[o] EXCEPT !.pc = "gated", !.active = a]
  <2>1. a \in Versions \cup {NoVersion}
    BY <1>2
  <2>2. /\ next \in Operation
        /\ next.pc = "gated" /\ next.active = a /\ next.digest = operator[o].digest
    BY <1>3, <2>1 DEF Operation
  <2>3. operator' = [operator EXCEPT ![o] = next]
    BY <1>1
  <2> HIDE DEF next
  <2> QED BY <2>2, <2>3, OperatorTypes
<1>5. a # NoVersion => Improves(Evaluation[m.digest], MetricsOf(row[a].digest))
  <2>1. CASE a # NoVersion /\ row[a].digest = NoDigest
    <3>1. row[a].metrics = NoDigest
      BY <1>2, <2>1 DEF RegistryInv, RowsAreSound
    <3> QED BY <1>1, <1>4, <2>1, <3>1 DEF BeatsActive, StoredMetrics
  <2>2. CASE a # NoVersion /\ row[a].digest # NoDigest
    <3>1. operator[o].incumbent.digest = row[a].digest
      BY <1>1, <2>2 DEF BeatsActive
    <3> QED BY <1>1, <1>4, <2>2, <3>1 DEF BeatsActive, MetricsOf
  <2> QED BY <2>1, <2>2
<1>6. OperatorIsSound(o)'
  <2>1. a = NoVersion => activations = <<>> /\ Len(activations) = 0
    BY <1>2
  <2> QED BY <1>1, <1>2, <1>3, <1>4, <1>5, <2>1 DEF OperatorIsSound
<1>7. /\ object' \in [Versions \X Digests -> ObjectState]
      /\ \A k \in Versions \X Digests : object[k] # "absent" => object'[k] # "absent"
      /\ mishaps' \in 0..MaxMishaps /\ "gated" \in Holding
      /\ \A p \in Operators : p # o => (typeLock' = p <=> typeLock = p)
  BY <1>1, OperatorTypes DEF Holding
<1> QED BY <1>1, <1>4, <1>6, <1>7, OperatorChange

\* The version has no other artifact, and cannot get one while the lock is held.
LEMMA CheckArtifactIsSound ==
  ASSUME RegistryInv, NEW o \in Operators, CheckArtifact(o)
  PROVE  RegistryInv' /\ DigestsAreKept
<1> DEFINE existed == operator[o].version \in Registered
           m == operator'[o]
<1>1. CASE disk[operator[o].file] = operator[o].digest /\ SameArtifact(operator[o])
  <2>1. /\ operator[o].pc = "gated"
        /\ operator' = [operator EXCEPT ![o].pc = "checked", ![o].existed = existed]
        /\ UNCHANGED <<backend, runtime, disk, object, row, activations, typeLock, seeder, mishaps>>
    BY <1>1 DEF CheckArtifact, Rest
  <2>2. existed \in BOOLEAN
    OBVIOUS
  <2> HIDE DEF existed
  <2>3. /\ operator' \in [Operators -> Operation]
        /\ \A p \in Operators : p # o => operator'[p] = operator[p]
        /\ m.pc = "checked" /\ m.active = operator[o].active /\ m.digest = operator[o].digest
        /\ m.version = operator[o].version
    <3> DEFINE next == [operator[o] EXCEPT !.pc = "checked", !.existed = existed]
    <3>1. operator[o] \in Operation
      BY OperatorTypes
    <3>2. /\ next \in Operation
          /\ next.pc = "checked" /\ next.active = operator[o].active
          /\ next.digest = operator[o].digest /\ next.version = operator[o].version
      BY <2>2, <3>1 DEF Operation
    <3>3. operator' = [operator EXCEPT ![o] = next]
      BY <2>1
    <3> HIDE DEF next
    <3> QED BY <3>2, <3>3, OperatorTypes
  <2>4. m = operator'[o]
    OBVIOUS
  <2>5. OperatorIsSound(o)'
    <3>1. OperatorIsSound(o)
      BY OperatorTypes
    <3> QED BY <1>1, <2>1, <2>3, <2>4, <3>1 DEF OperatorIsSound, Holding, SameArtifact
  <2>6. /\ object' \in [Versions \X Digests -> ObjectState]
        /\ \A k \in Versions \X Digests : object[k] # "absent" => object'[k] # "absent"
        /\ mishaps' \in 0..MaxMishaps /\ "checked" \in Holding /\ "gated" \in Holding
        /\ typeLock' = o /\ typeLock = o
    BY <2>1, OperatorTypes DEF Holding
  <2> QED BY <2>1, <2>3, <2>4, <2>5, <2>6, OperatorChange
<1>2. CASE ~(disk[operator[o].file] = operator[o].digest /\ SameArtifact(operator[o]))
  <2>1. Abort(o) /\ UNCHANGED <<object, mishaps>>
    BY <1>2 DEF CheckArtifact
  <2> QED BY <2>1, OperatorTypes, AbortIsSound
<1> QED BY <1>1, <1>2

\* The object is in the store before the row is written.
LEMMA PublishIsSound ==
  ASSUME RegistryInv, NEW o \in Operators, Publish(o)
  PROVE  RegistryInv' /\ DigestsAreKept
<1> DEFINE m == operator'[o]
           key == <<operator[o].version, operator[o].digest>>
<1>1. CASE CanPublish(operator[o])
  <2>1. /\ operator[o].pc = "checked" /\ StoreObject(operator[o])
        /\ operator' = [operator EXCEPT ![o].pc = "published"]
        /\ UNCHANGED <<backend, runtime, disk, row, activations, typeLock, seeder, mishaps>>
    BY <1>1 DEF Publish, Goto, Rest
  <2>2. /\ operator' \in [Operators -> Operation]
        /\ \A p \in Operators : p # o => operator'[p] = operator[p]
        /\ m.pc = "published" /\ m.active = operator[o].active /\ m.digest = operator[o].digest
        /\ m.version = operator[o].version
    BY <2>1, OperatorTypes DEF Operation
  <2>3. m = operator'[o]
    OBVIOUS
  <2>4. key \in Versions \X Digests
    BY <2>1, OperatorTypes DEF Operation, OperatorIsSound
  <2> HIDE DEF key
  <2>5. /\ object' \in [Versions \X Digests -> ObjectState]
        /\ \A k \in Versions \X Digests : object[k] # "absent" => object'[k] # "absent"
        /\ backend # "path" => object'[key] # "absent"
    BY <2>1, <2>4, OperatorTypes DEF StoreObject, ObjectState, key
  <2>6. OperatorIsSound(o)'
    <3>1. OperatorIsSound(o)
      BY OperatorTypes
    <3> QED BY <2>1, <2>2, <2>3, <2>5, <3>1 DEF OperatorIsSound, Holding, SameArtifact, key
  <2>7. /\ mishaps' \in 0..MaxMishaps /\ "checked" \in Holding /\ "published" \in Holding
        /\ typeLock' = o /\ typeLock = o
    BY <2>1, OperatorTypes DEF Holding
  <2> QED BY <2>1, <2>2, <2>3, <2>5, <2>6, <2>7, OperatorChange
<1>2. CASE ~CanPublish(operator[o])
  <2>1. Abort(o) /\ UNCHANGED <<object, mishaps>>
    BY <1>2 DEF Publish
  <2> QED BY <2>1, OperatorTypes, AbortIsSound
<1> QED BY <1>1, <1>2

\* A target with an artifact is registered, so some version is active.
LEMMA VerifyTargetIsSound ==
  ASSUME RegistryInv, NEW o \in Operators, VerifyTarget(o)
  PROVE  RegistryInv' /\ DigestsAreKept
<1> DEFINE a == ActiveVersion
           m == operator'[o]
<1>1. CASE Restorable(operator[o].version)
  <2>1. /\ operator[o].pc = "rollback" /\ typeLock = NoOperator /\ typeLock' = o
        /\ operator' = [operator EXCEPT ![o].pc = "verified", ![o].active = a]
        /\ UNCHANGED <<backend, runtime, disk, object, row, activations, seeder, mishaps>>
    BY <1>1 DEF VerifyTarget, Rest
  <2>2. activations # <<>>
    BY <1>1 DEF Restorable, RegistryInv, RowsAreSound
  <2>3. a \in Versions /\ a # NoVersion /\ a = Last(activations).version
    BY <2>2, ActiveVersionIs DEF Active
  <2> HIDE DEF a
  <2>4. /\ operator' \in [Operators -> Operation]
        /\ \A p \in Operators : p # o => operator'[p] = operator[p]
        /\ m.pc = "verified" /\ m.active = a /\ m.version = operator[o].version
    <3> HIDE DEF m
    <3>1. operator \in [Operators -> Operation] /\ operator[o] \in Operation
      BY OperatorTypes
    <3> DEFINE n == [operator[o] EXCEPT !.pc = "verified", !.active = a]
    <3>2. n \in Operation /\ n.pc = "verified" /\ n.active = a /\ n.version = operator[o].version
      BY <3>1, <2>3 DEF Operation
    <3> HIDE DEF n
    <3>3. operator' = [operator EXCEPT ![o] = n]
      BY <2>1, <3>1 DEF n
    <3>4. m = n
      BY <3>1, <3>3 DEF m
    <3> QED BY <3>1, <3>2, <3>3, <3>4
  <2>5. m = operator'[o]
    OBVIOUS
  <2>6. OperatorIsSound(o)'
    <3>1. row[operator[o].version].digest # NoDigest
      BY <1>1 DEF Restorable
    <3>2. /\ activations' = activations /\ row' = row /\ typeLock' = o
          /\ activations' # <<>> /\ a = Last(activations').version
      BY <2>1, <2>2, <2>3
    <3> HIDE DEF m
    <3> QED BY <2>3, <2>4, <2>5, <3>1, <3>2 DEF OperatorIsSound
  <2>7. /\ object' \in [Versions \X Digests -> ObjectState]
        /\ \A k \in Versions \X Digests : object[k] # "absent" => object'[k] # "absent"
        /\ mishaps' \in 0..MaxMishaps /\ "verified" \in Holding
        /\ \A p \in Operators : p # o => (typeLock' = p <=> typeLock = p)
    BY <2>1, OperatorTypes DEF Holding
  <2> QED BY <2>1, <2>4, <2>5, <2>6, <2>7, OperatorChange
<1>2. CASE ~Restorable(operator[o].version)
  <2>1. Abort(o) /\ UNCHANGED <<object, mishaps>>
    BY <1>2 DEF VerifyTarget
  <2> QED BY <2>1, OperatorTypes, AbortIsSound
<1> QED BY <1>1, <1>2

(***************************************************************************)
(* Steps that write rows                                                   *)
(***************************************************************************)

\* The holder of the lock activates a row and ends: nobody else has read
\* anything that could have changed.
LEMMA HolderActivates ==
  ASSUME RegistryInv, NEW o \in Operators, typeLock = o,
         NEW v \in Versions, NEW contents \in Row, NEW previous \in Versions \cup {NoVersion},
         NEW action \in {"promote", "rollback"},
         ActivateRow(v, contents, previous, action), Unique(v, previous),
         contents.digest \in Digests, row[v].digest # NoDigest => contents.digest = row[v].digest,
         backend # "path" => object[<<v, contents.digest>>] # "absent",
         IF previous = NoVersion THEN \A j \in 1..Len(activations) : activations[j].version = v
         ELSE activations # <<>> /\ Last(activations).version = previous,
         operator' = [operator EXCEPT ![o] = Idle(AnyFile)], typeLock' = NoOperator,
         UNCHANGED <<backend, runtime, disk, object, seeder, mishaps>>
  PROVE  RegistryInv' /\ DigestsAreKept
<1>1. /\ row' \in [Versions -> Row] /\ activations' \in Seq(Activation)
      /\ RowsAreSound' /\ ActivationsAreChained' /\ ArtifactsAreKept' /\ DigestsAreKept
      /\ activations' # <<>>
  <2>1. /\ contents.digest = NoDigest => contents.metrics = NoDigest
        /\ contents.digest # NoDigest /\ backend # "path" =>
             object[<<v, contents.digest>>] # "absent"
        /\ action \in {"seed", "promote", "rollback"}
        /\ UNCHANGED <<backend, object>>
    BY RegistryConstants
  <2> QED BY <2>1, ActivateRowIs
<1>2. /\ operator' \in [Operators -> Operation] /\ operator'[o].pc = "idle"
      /\ \A p \in Operators : p # o => operator'[p] = operator[p] /\ operator[p].pc \notin Holding
      /\ NoOperator \notin Operators /\ "idle" \notin Holding
  BY IdleIsSound, OperatorTypes DEF Holding
<1>3. RegistryTypeOK' /\ LockIsHeld'
  BY <1>1, <1>2 DEF RegistryInv, RegistryTypeOK, LockIsHeld
<1>4. OperatorsAreSound'
  <2>1. ASSUME NEW p \in Operators PROVE OperatorIsSound(p)'
    <3>1. operator'[p].pc \notin Holding
      BY <1>2
    <3>2. operator'[p].pc = "register" => operator'[p].digest \in Digests
      BY <1>2, OperatorTypes DEF OperatorIsSound
    <3> QED BY <3>1, <3>2 DEF OperatorIsSound, Holding
  <2> QED BY <2>1 DEF OperatorsAreSound
<1>5. SeederIsSound'
  BY <1>1 DEF RegistryInv, SeederIsSound
<1> QED BY <1>1, <1>3, <1>4, <1>5 DEF RegistryInv

\* What a promotion relies on: the artifact is the version's, it is in the
\* store, and the history ends with what it replaces.
LEMMA PromoteIsSound ==
  ASSUME RegistryInv, NEW o \in Operators, Promote(o)
  PROVE  RegistryInv' /\ DigestsAreKept
<1> DEFINE m == operator[o]
           v == m.version
           previous == m.active
           contents == [status |-> "active", digest |-> m.digest, file |-> m.file,
                        runtime |-> m.runtime, metrics |-> m.digest]
<1>1. m.pc = "published" /\ UNCHANGED <<object, mishaps>>
  BY DEF Promote
<1>2. CASE Unique(v, previous) /\ (m.existed \/ v \notin Registered)
  <2>1. /\ ActivateRow(v, contents, previous, "promote")
        /\ operator' = [operator EXCEPT ![o] = Idle(AnyFile)]
        /\ typeLock' = NoOperator
        /\ UNCHANGED <<backend, runtime, disk, object, seeder, mishaps>>
    BY <1>2 DEF Promote
  <2>2. /\ m \in Operation /\ OperatorIsSound(o) /\ "published" \in Holding
        /\ typeLock = o
    BY <1>1, OperatorTypes DEF Holding
  <2>3. /\ v \in Versions /\ previous \in Versions \cup {NoVersion} /\ m.digest \in Digests
        /\ contents \in Row
        /\ contents.digest = m.digest
    BY <1>1, <2>2 DEF Operation, OperatorIsSound, Row
  <2>4. /\ row[v].digest # NoDigest => contents.digest = row[v].digest
        /\ backend # "path" => object[<<v, contents.digest>>] # "absent"
    BY <1>1, <2>2, <2>3 DEF OperatorIsSound, SameArtifact
  <2>5. IF previous = NoVersion THEN \A j \in 1..Len(activations) : activations[j].version = v
        ELSE activations # <<>> /\ Last(activations).version = previous
    <3>1. CASE previous # NoVersion
      BY <1>1, <2>2, <3>1 DEF OperatorIsSound
    <3>2. CASE previous = NoVersion /\ activations # <<>>
      \* The seed came in between: the candidate has the baseline's name.
      <4>1. \A j \in 1..Len(activations) : activations[j].version = Baseline
        BY <1>1, <2>2, <3>2 DEF OperatorIsSound
      <4>2. Len(activations) \in 1..Len(activations)
        BY <3>2 DEF RegistryInv, RegistryTypeOK
      <4>3. Baseline \in Active
        BY <3>2, <4>1, <4>2 DEF RegistryInv, ActivationsAreChained, Last
      <4>4. v = Baseline
        BY <1>2, <2>3, <3>2, <4>3, OperatorTypes DEF Unique
      <4> QED BY <3>2, <4>1, <4>4
    <3>3. CASE previous = NoVersion /\ activations = <<>>
      BY <3>3
    <3> QED BY <3>1, <3>2, <3>3
  <2> HIDE DEF contents, m, v, previous
  <2> QED BY <1>2, <2>1, <2>2, <2>3, <2>4, <2>5, HolderActivates
<1>3. CASE ~(Unique(v, previous) /\ (m.existed \/ v \notin Registered))
  <2>1. Abort(o)
    BY <1>3 DEF Promote
  <2> QED BY <1>1, <2>1, OperatorTypes, AbortIsSound
<1> QED BY <1>2, <1>3

\* A rollback activates a row as it is.
LEMMA RestoreIsSound ==
  ASSUME RegistryInv, NEW o \in Operators, Restore(o)
  PROVE  RegistryInv' /\ DigestsAreKept
<1> DEFINE v == operator[o].version
           previous == operator[o].active
<1>1. operator[o].pc = "verified" /\ UNCHANGED <<object, mishaps>>
  BY DEF Restore
<1>2. CASE Unique(v, previous) /\ previous # v
  <2>1. /\ ActivateRow(v, row[v], previous, "rollback")
        /\ operator' = [operator EXCEPT ![o] = Idle(AnyFile)]
        /\ typeLock' = NoOperator
        /\ UNCHANGED <<backend, runtime, disk, object, seeder, mishaps>>
    BY <1>2 DEF Restore
  <2>2. /\ operator[o] \in Operation /\ OperatorIsSound(o) /\ "verified" \in Holding
        /\ typeLock = o /\ row \in [Versions -> Row]
    BY <1>1, OperatorTypes DEF Holding
  <2>3. /\ v \in Versions /\ previous \in Versions \cup {NoVersion} /\ row[v] \in Row
        /\ row[v].digest \in Digests
        /\ backend # "path" => object[<<v, row[v].digest>>] # "absent"
        /\ activations # <<>> /\ Last(activations).version = previous /\ previous # NoVersion
    BY <1>1, <2>2 DEF Operation, OperatorIsSound, Row, RegistryInv, ArtifactsAreKept
  <2> HIDE DEF v, previous
  <2> QED BY <1>2, <2>1, <2>2, <2>3, HolderActivates
<1>3. CASE ~(Unique(v, previous) /\ previous # v)
  <2>1. Abort(o)
    BY <1>3 DEF Restore
  <2> QED BY <1>1, <2>1, OperatorTypes, AbortIsSound
<1> QED BY <1>2, <1>3

\* The transactions that are rolled back.
LEMMA FailuresAreSound ==
  ASSUME RegistryInv, NEW o \in Operators, GateRejects(o) \/ Fail(o)
  PROVE  RegistryInv' /\ DigestsAreKept
<1>1. Abort(o) /\ UNCHANGED object
  BY DEF GateRejects, Fail
<1>2. mishaps' \in 0..MaxMishaps
  BY OperatorTypes DEF GateRejects, Fail, Mishap
<1> QED BY <1>1, <1>2, AbortIsSound

(***************************************************************************)
(* The seed                                                                *)
(***************************************************************************)

\* What the seed reads is consistent with the history; a failed seed leaves nothing.
LEMMA SeedReadsIsSound ==
  ASSUME RegistryInv, SeedReads \/ SeedFails
  PROVE  RegistryInv' /\ DigestsAreKept
<1>1. UNCHANGED <<backend, runtime, disk, object, row, activations, typeLock, operator, mishaps>>
  BY DEF SeedReads, SeedFails
<1>2. /\ seeder' \in [pc : {"idle", "read"}, active : Versions \cup {NoVersion},
                      existed : BOOLEAN, stale : BOOLEAN]
      /\ SeederIsSound'
  <2>1. CASE SeedReads
    <3> DEFINE existed == Baseline \in Registered
               stale == row[Baseline].metrics # NoDigest
    <3>1. /\ seeder' = [pc |-> "read", active |-> ActiveVersion, existed |-> existed, stale |-> stale]
          /\ existed \in BOOLEAN /\ stale \in BOOLEAN
      BY <2>1 DEF SeedReads
    <3>2. ActiveVersion \in Versions \cup {NoVersion}
      BY ActiveVersionIs
    <3>3. ActiveVersion = NoVersion => activations = <<>>
      BY ActiveVersionIs DEF Active
    <3>4. activations = <<>> => ~existed
      BY DEF RegistryInv, RowsAreSound
    <3> HIDE DEF existed, stale
    <3>5. seeder' \in [pc : {"idle", "read"}, active : Versions \cup {NoVersion},
                       existed : BOOLEAN, stale : BOOLEAN]
      BY <3>1, <3>2
    <3>6. /\ seeder'.active = ActiveVersion /\ seeder'.existed = existed
          /\ activations' = activations /\ NoVersion \notin Versions
      BY <1>1, <3>1, RegistryConstants
    <3>7. ActiveVersion = NoVersion => ~seeder'.existed
      BY <3>3, <3>4, <3>6
    <3>8. ActiveVersion # NoVersion => activations' # <<>>
      BY <3>6, ActiveVersionIs
    <3> QED BY <3>5, <3>6, <3>7, <3>8 DEF SeederIsSound
  <2>2. CASE SeedFails
    BY <2>2, RegistryConstants DEF SeedFails, IdleSeeder, SeederIsSound
  <2> QED BY <2>1, <2>2
<1>3. RegistryTypeOK' /\ LockIsHeld'
  BY <1>1, <1>2 DEF RegistryInv, RegistryTypeOK, LockIsHeld
<1>4. OperatorsAreSound'
  BY <1>1 DEF RegistryInv, OperatorsAreSound, OperatorIsSound, SameArtifact
<1>5. RowsAreSound' /\ ActivationsAreChained' /\ ArtifactsAreKept' /\ DigestsAreKept
  BY <1>1 DEF RegistryInv, RowsAreSound, Registered, ActivationsAreChained, Active, ArtifactsAreKept,
              DigestsAreKept
<1> QED BY <1>2, <1>3, <1>4, <1>5 DEF RegistryInv

\* The row the seed writes has the artifact it had, or none yet.
LEMMA SeededRowIs ==
  ASSUME RegistryInv, seeder.pc = "read", ~SeedConflicts
  PROVE  /\ SeededRow \in Row
         /\ SeededRow.digest = row[Baseline].digest
         /\ SeededRow.digest = NoDigest => SeededRow.metrics = NoDigest
         /\ SeededRow.status = "none" => SeededRow.digest = NoDigest
         /\ SeededRow.status = "active" <=> row[Baseline].status = "active"
<1>1. row[Baseline] \in Row /\ Baseline \in Versions
  BY RegistryConstants DEF RegistryInv, RegistryTypeOK
<1>2. CASE ~seeder.existed
  <2>1. Baseline \notin Registered
    BY <1>2 DEF SeedConflicts
  <2>2. row[Baseline].status = "none" /\ row[Baseline].digest = NoDigest
    BY <1>1, <2>1 DEF Registered, RegistryInv, RowsAreSound
  <2>3. /\ SeededRow = [NoRow(AnyFile) EXCEPT !.status = "retired"]
        /\ NoRow(AnyFile) \in Row /\ NoRow(AnyFile).digest = NoDigest
        /\ NoRow(AnyFile).metrics = NoDigest
    BY <1>2, IdleIsSound, AnyFileIsAFile DEF SeededRow
  <2> QED BY <2>2, <2>3 DEF Row
<1>3. CASE seeder.existed /\ seeder.stale
  <2>1. SeededRow = [row[Baseline] EXCEPT !.metrics = NoDigest]
    BY <1>3 DEF SeededRow
  <2> QED BY <1>1, <2>1 DEF Row, RegistryInv, RowsAreSound
<1>4. CASE seeder.existed /\ ~seeder.stale
  BY <1>1, <1>4 DEF SeededRow, RegistryInv, RowsAreSound
<1> QED BY <1>2, <1>3, <1>4

\* The seed activates the baseline only as the first version of all, and
\* changes no artifact.
LEMMA SeedWritesIsSound ==
  ASSUME RegistryInv, SeedWrites
  PROVE  RegistryInv' /\ DigestsAreKept
<1>1. /\ seeder.pc = "read" /\ seeder' = IdleSeeder
      /\ UNCHANGED <<backend, runtime, disk, object, typeLock, operator, mishaps>>
      /\ IdleSeeder \in [pc : {"idle", "read"}, active : Versions \cup {NoVersion},
                         existed : BOOLEAN, stale : BOOLEAN]
      /\ IdleSeeder.pc = "idle"
  BY DEF SeedWrites, IdleSeeder
<1>2. row \in [Versions -> Row] /\ activations \in Seq(Activation) /\ Baseline \in Versions
  BY RegistryConstants DEF RegistryInv, RegistryTypeOK
<1>3. /\ row' \in [Versions -> Row] /\ activations' \in Seq(Activation)
      /\ RowsAreSound' /\ ActivationsAreChained' /\ ArtifactsAreKept'
      /\ \A v \in Versions : row'[v].digest = row[v].digest
      /\ \/ activations' = activations
         \/ /\ activations = <<>>
            /\ \A j \in 1..Len(activations') : activations'[j].version = Baseline
  <2>1. CASE SeedConflicts
    <3>1. UNCHANGED <<row, activations>>
      BY <2>1 DEF SeedWrites
    <3> QED BY <1>1, <1>2, <3>1 DEF RegistryInv, RowsAreSound, Registered, ActivationsAreChained, Active,
                                    ArtifactsAreKept
  <2>2. CASE ~SeedConflicts /\ seeder.active = NoVersion
    <3>1. ActivateRow(Baseline, SeededRow, NoVersion, "seed")
      BY <2>2 DEF SeedWrites
    <3>2. /\ ~seeder.existed /\ Baseline \notin Registered /\ Active \subseteq {Baseline, NoVersion}
      BY <1>1, <2>2 DEF SeedConflicts, Unique, RegistryInv, SeederIsSound
    <3>3. activations = <<>>
      <4>1. Baseline \notin Active /\ NoVersion \notin Active
        BY <3>2, RegistryConstants DEF Registered, Active
      <4>2. Active = {}
        BY <3>2, <4>1
      <4> QED BY <4>2 DEF RegistryInv, ActivationsAreChained
    <3>4. /\ Len(activations) = 0
          /\ \A j \in 1..Len(activations) : activations[j].version = Baseline
          /\ Unique(Baseline, NoVersion)
          /\ NoVersion \in Versions \cup {NoVersion} /\ "seed" \in {"seed", "promote", "rollback"}
          /\ UNCHANGED <<backend, object>>
      BY <1>1, <2>2, <3>3 DEF SeedConflicts
    <3>5. /\ SeededRow \in Row /\ SeededRow.digest = row[Baseline].digest
          /\ SeededRow.digest = NoDigest => SeededRow.metrics = NoDigest
          /\ row[Baseline].digest # NoDigest => SeededRow.digest = row[Baseline].digest
          /\ SeededRow.digest # NoDigest /\ backend # "path" =>
               object[<<Baseline, SeededRow.digest>>] # "absent"
      BY <1>1, <1>2, <2>2, SeededRowIs DEF RegistryInv, ArtifactsAreKept
    <3>6. /\ row' \in [Versions -> Row] /\ activations' \in Seq(Activation)
          /\ RowsAreSound' /\ ActivationsAreChained' /\ ArtifactsAreKept'
          /\ \A w \in Versions \ {Baseline} : row'[w].digest = row[w].digest
          /\ row'[Baseline].digest = SeededRow.digest
      BY <1>2, <3>1, <3>4, <3>5, ActivateRowIs
    <3>7. \A j \in 1..Len(activations') : activations'[j].version = Baseline
      <4>1. activations' = <<[version |-> Baseline, previous |-> NoVersion, action |-> "seed"]>>
        BY <3>1, <3>3 DEF ActivateRow
      <4> QED BY <4>1
    <3> QED BY <3>3, <3>5, <3>6, <3>7
  <2>3. CASE ~SeedConflicts /\ seeder.active # NoVersion
    <3>1. row' = [row EXCEPT ![Baseline] = SeededRow] /\ activations' = activations
      BY <2>3 DEF SeedWrites
    <3>2. /\ SeededRow \in Row /\ SeededRow.digest = row[Baseline].digest
          /\ SeededRow.digest = NoDigest => SeededRow.metrics = NoDigest
          /\ SeededRow.status = "none" => SeededRow.digest = NoDigest
          /\ SeededRow.status = "active" <=> row[Baseline].status = "active"
      BY <1>1, <2>3, SeededRowIs
    <3>3. activations # <<>>
      BY <1>1, <2>3 DEF RegistryInv, SeederIsSound
    <3>4. /\ row' \in [Versions -> Row] /\ row'[Baseline] = SeededRow
          /\ \A v \in Versions : v # Baseline => row'[v] = row[v]
          /\ \A v \in Versions : row'[v].digest = row[v].digest
      BY <1>2, <3>1, <3>2
    <3>5. RowsAreSound'
      BY <3>1, <3>2, <3>3, <3>4 DEF RegistryInv, RowsAreSound
    <3>6. Active' = Active
      BY <1>2, <3>2, <3>4 DEF Active
    <3>7. ActivationsAreChained' /\ ArtifactsAreKept'
      BY <1>1, <3>1, <3>4, <3>6 DEF RegistryInv, ActivationsAreChained, ArtifactsAreKept
    <3> QED BY <1>2, <3>1, <3>4, <3>5, <3>7
  <2> QED BY <2>1, <2>2, <2>3
<1>4. RegistryTypeOK' /\ LockIsHeld' /\ SeederIsSound' /\ DigestsAreKept
  BY <1>1, <1>3 DEF RegistryInv, RegistryTypeOK, LockIsHeld, SeederIsSound, DigestsAreKept
<1>5. OperatorsAreSound'
  <2>1. ASSUME NEW o \in Operators PROVE OperatorIsSound(o)'
    <3>1. OperatorIsSound(o) /\ operator[o] \in Operation
      BY OperatorTypes
    <3>2. /\ operator[o].active # NoVersion =>
               row'[operator[o].active].digest = row[operator[o].active].digest
          /\ row'[operator[o].version].digest = row[operator[o].version].digest
      BY <1>3, <3>1 DEF Operation
    <3> QED BY <1>1, <1>3, <3>1, <3>2 DEF OperatorIsSound, SameArtifact
  <2> QED BY <2>1 DEF OperatorsAreSound
<1> QED BY <1>3, <1>4, <1>5 DEF RegistryInv

\* Every step of the registry.
LEMMA RegistryNextIsSound ==
  ASSUME RegistryInv, RegistryNext
  PROVE  RegistryInv' /\ DigestsAreKept
<1>1. ASSUME NEW o \in Operators,
             \/ \E v \in Versions : BeginRollback(o, v)
             \/ \E v \in Candidates, f \in Files, i \in Incumbents : BeginRegister(o, v, f, i)
      PROVE  RegistryInv' /\ DigestsAreKept
  BY <1>1, BeginIsSound
<1>2. ASSUME NEW o \in Operators,
             Gate(o) \/ GateRejects(o) \/ CheckArtifact(o) \/ Publish(o) \/ Promote(o)
      PROVE  RegistryInv' /\ DigestsAreKept
  BY <1>2, GateIsSound, FailuresAreSound, CheckArtifactIsSound, PublishIsSound, PromoteIsSound
<1>3. ASSUME NEW o \in Operators, VerifyTarget(o) \/ Restore(o) \/ Fail(o)
      PROVE  RegistryInv' /\ DigestsAreKept
  BY <1>3, VerifyTargetIsSound, RestoreIsSound, FailuresAreSound
<1>4. CASE SeedReads \/ SeedWrites \/ SeedFails
  BY <1>4, SeedReadsIsSound, SeedWritesIsSound
<1>5. CASE (\E f \in Files, d \in Digests : Retrain(f, d)) \/ Upgrade
             \/ (\E k \in Versions \X Digests, state \in ObjectState : Damage(k, state))
  BY <1>5, AroundIsSound
<1> QED BY <1>1, <1>2, <1>3, <1>4, <1>5 DEF RegistryNext

(***************************************************************************)
(* The resolver                                                            *)
(***************************************************************************)

RequestState ==
  [pc : {"idle", "waiting", "loading", "resolved"}, version : Versions \cup {NoVersion},
   row : [digest : Digests \cup {NoDigest}, file : Files], model : LoadedModel \cup {Benchmark}]

\* A request starts with nothing read and nothing loaded.
LEMMA IdleRequestIsSound ==
  IdleRequest \in RequestState /\ IdleRequest.pc = "idle" /\ IdleRequest.model = Benchmark
BY AnyFileIsAFile DEF IdleRequest, RequestState, NoArtifact

\* The registry is empty and nothing is loaded.
LEMMA InitIInv == Init => IInv
<1> SUFFICES ASSUME Init PROVE IInv
  OBVIOUS
<1>1. RegistryInv
  BY InitRegistryInv DEF Init
<1>2. TypeOK /\ RequestsAreSound
  BY <1>1, IdleRequestIsSound
     DEF Init, RegistryInv, TypeOK, RequestState, RequestsAreSound, RequestIsSound
<1>3. CacheIsSound /\ OneModelLoaded
  BY DEF Init, CacheIsSound, OneModelLoaded
<1> QED BY <1>1, <1>2, <1>3 DEF IInv

\* What the resolver and its requests hold stays right under a registry that
\* gives no version another artifact.
LEMMA RegistryStepIInv ==
  ASSUME IInv, RegistryInv', DigestsAreKept, UNCHANGED resolverVars
  PROVE  IInv'
<1>1. UNCHANGED <<cache, loadLock, request>> /\ NoDigest \notin Digests
  BY RegistryConstants DEF resolverVars
<1>2. TypeOK'
  BY <1>1 DEF IInv, TypeOK, RegistryInv
<1>3. CacheIsSound' /\ OneModelLoaded'
  <2>1. \A model \in cache : model.version \in Versions /\ model.digest # NoDigest
    BY <1>1 DEF IInv, TypeOK, LoadedModel
  <2> QED BY <1>1, <2>1 DEF IInv, CacheIsSound, OneModelLoaded, DigestsAreKept
<1>4. RequestsAreSound'
  <2>1. ASSUME NEW r \in Requests PROVE RequestIsSound(r)'
    <3>1. /\ request[r] \in RequestState /\ RequestIsSound(r)
          /\ request'[r] = request[r]
      BY <1>1 DEF IInv, TypeOK, RequestState, RequestsAreSound
    <3>2. CASE request[r].pc \in {"waiting", "loading"}
      <4>1. /\ request[r].version \in Versions /\ row[request[r].version].digest # NoDigest
            /\ request[r].model = Benchmark
        BY <1>1, <3>1, <3>2 DEF RequestIsSound
      <4> QED BY <3>1, <4>1 DEF RequestIsSound, DigestsAreKept
    <3>3. CASE request[r].pc \notin {"waiting", "loading"} /\ request[r].model # Benchmark
      <4>1. request[r].model \in LoadedModel
        BY <3>1, <3>3 DEF RequestState
      <4>2. request[r].version \in Versions /\ row[request[r].version].digest # NoDigest
        BY <1>1, <3>1, <3>3, <4>1 DEF RequestIsSound, LoadedModel
      <4> QED BY <3>1, <3>3, <4>2 DEF RequestIsSound, DigestsAreKept
    <3>4. CASE request[r].pc \notin {"waiting", "loading"} /\ request[r].model = Benchmark
      BY <3>1, <3>4 DEF RequestIsSound
    <3> QED BY <3>2, <3>3, <3>4
  <2> QED BY <2>1 DEF RequestsAreSound
<1> QED BY <1>2, <1>3, <1>4 DEF IInv

\* The registry's part of the invariant reads the registry's variables only.
LEMMA RegistryUnchanged ==
  ASSUME RegistryInv, UNCHANGED registryVars
  PROVE  RegistryInv' /\ DigestsAreKept
<1>1. UNCHANGED <<backend, runtime, disk, object, row, activations, typeLock, operator, seeder, mishaps>>
  BY DEF registryVars
<1>2. RegistryTypeOK' /\ LockIsHeld' /\ RowsAreSound' /\ SeederIsSound' /\ DigestsAreKept
  BY <1>1 DEF RegistryInv, RegistryTypeOK, LockIsHeld, RowsAreSound, Registered, SeederIsSound,
              DigestsAreKept
<1>3. OperatorsAreSound'
  BY <1>1 DEF RegistryInv, OperatorsAreSound, OperatorIsSound, SameArtifact
<1>4. ActivationsAreChained' /\ ArtifactsAreKept'
  BY <1>1 DEF RegistryInv, ActivationsAreChained, Active, ArtifactsAreKept
<1> QED BY <1>2, <1>3, <1>4 DEF RegistryInv

\* A step of one request.
LEMMA RequestChange ==
  ASSUME IInv, NEW r \in Requests, UNCHANGED registryVars,
         request' \in [Requests -> RequestState],
         \A q \in Requests : q # r => request'[q] = request[q],
         RequestIsSound(r)',
         cache' \subseteq LoadedModel, CacheIsSound', OneModelLoaded',
         loadLock' \in Requests \cup {NoRequest}
  PROVE  IInv'
<1>1. RegistryInv' /\ row' = row
  BY RegistryUnchanged DEF IInv, registryVars
<1>2. RequestsAreSound'
  BY <1>1 DEF IInv, RequestsAreSound, RequestIsSound
<1> QED BY <1>1, <1>2 DEF IInv, TypeOK, RegistryInv, RequestState

\* What a step of one request finds.
LEMMA RequestTypes ==
  ASSUME IInv, NEW r \in Requests
  PROVE  /\ request \in [Requests -> RequestState] /\ request[r] \in RequestState
         /\ RequestIsSound(r) /\ cache \subseteq LoadedModel /\ CacheIsSound /\ OneModelLoaded
         /\ loadLock \in Requests \cup {NoRequest}
         /\ row \in [Versions -> Row] /\ RegistryInv
         /\ NoVersion \notin Versions /\ NoDigest \notin Digests /\ Servable \subseteq Digests
BY RegistryConstants, ResolverConstants
   DEF IInv, TypeOK, RequestState, RequestsAreSound, RegistryInv, RegistryTypeOK

\* The cache is only read.
LEMMA CacheUnchanged ==
  ASSUME IInv, UNCHANGED registryVars, UNCHANGED cache
  PROVE  cache' \subseteq LoadedModel /\ CacheIsSound' /\ OneModelLoaded'
BY DEF IInv, TypeOK, CacheIsSound, OneModelLoaded, registryVars

\* A request ends its resolve with the benchmark, or with the model of its row.
LEMMA ResolveIsSound ==
  ASSUME IInv, NEW r \in Requests, NEW model, Resolve(r, model), UNCHANGED row,
         \/ model = Benchmark
         \/ /\ model \in LoadedModel /\ model.version = request[r].version
            /\ model.bytes \in Servable /\ model.bytes = row[request[r].version].digest
  PROVE  /\ request' \in [Requests -> RequestState]
         /\ \A q \in Requests : q # r => request'[q] = request[q]
         /\ RequestIsSound(r)'
<1> DEFINE next == [request[r] EXCEPT !.pc = "resolved", !.model = model]
<1>1. /\ request \in [Requests -> RequestState] /\ request[r] \in RequestState
  BY RequestTypes
<1>2. /\ next \in RequestState /\ next.pc = "resolved" /\ next.model = model
      /\ next.version = request[r].version
  BY <1>1 DEF RequestState
<1>3. request' = [request EXCEPT ![r] = next]
  BY <1>1 DEF Resolve
<1> HIDE DEF next
<1>4. /\ request' \in [Requests -> RequestState] /\ request'[r] = next
      /\ \A q \in Requests : q # r => request'[q] = request[q]
  BY <1>1, <1>2, <1>3
<1> QED BY <1>2, <1>4 DEF RequestIsSound

\* The active row is read.
LEMMA ReadActiveIInv ==
  ASSUME IInv, NEW r \in Requests, ReadActive(r), UNCHANGED registryVars
  PROVE  IInv'
<1>1. UNCHANGED <<cache, loadLock, row>> /\ request[r].pc = "idle"
  BY DEF ReadActive, registryVars
<1>2. /\ request' \in [Requests -> RequestState]
      /\ \A q \in Requests : q # r => request'[q] = request[q]
      /\ RequestIsSound(r)'
  <2>1. CASE Resolve(r, Benchmark)
    BY <1>1, <2>1, ResolveIsSound
  <2>2. CASE ~Resolve(r, Benchmark)
    <3> DEFINE v == ActiveVersion
               next == [request[r] EXCEPT !.pc = "waiting", !.version = v, !.row = Artifact(v)]
    <3>1. /\ v # NoVersion /\ Acceptable(v)
          /\ request' = [request EXCEPT ![r].pc = "waiting", ![r].version = v, ![r].row = Artifact(v)]
      BY <2>2 DEF ReadActive
    <3>2. v \in Versions
      BY <3>1, RequestTypes, ActiveVersionIs
    <3> HIDE DEF v
    <3>3. /\ row[v].digest \in Digests /\ row[v].file \in Files
          /\ Artifact(v) \in [digest : Digests \cup {NoDigest}, file : Files]
          /\ Artifact(v).digest = row[v].digest
      BY <3>1, <3>2, RequestTypes DEF Acceptable, Row, Artifact
    <3>4. request \in [Requests -> RequestState] /\ request[r] \in RequestState
          /\ request[r].model = Benchmark
      BY <1>1, RequestTypes DEF RequestIsSound
    <3>5. /\ next \in RequestState /\ next.pc = "waiting" /\ next.version = v
          /\ next.row = Artifact(v) /\ next.model = Benchmark
      BY <3>2, <3>3, <3>4 DEF RequestState
    <3>6. request' = [request EXCEPT ![r] = next]
      BY <3>1, <3>4
    <3> HIDE DEF next
    <3>7. /\ request' \in [Requests -> RequestState] /\ request'[r] = next
          /\ \A q \in Requests : q # r => request'[q] = request[q]
      BY <3>4, <3>5, <3>6
    <3> QED BY <1>1, <3>2, <3>3, <3>5, <3>7 DEF RequestIsSound
  <2> QED BY <2>1, <2>2
<1>3. loadLock' \in Requests \cup {NoRequest}
  BY <1>1, RequestTypes
<1> QED BY <1>1, <1>2, <1>3, CacheUnchanged, RequestChange

\* A loaded model answers for its own version and digest.
LEMMA UseCachedIInv ==
  ASSUME IInv, NEW r \in Requests, UseCached(r), UNCHANGED registryVars
  PROVE  IInv'
<1>1. UNCHANGED <<cache, loadLock, row>> /\ request[r].pc = "waiting"
  BY DEF UseCached, registryVars
<1>2. PICK model \in cache :
        /\ model.version = request[r].version /\ model.digest = request[r].row.digest
        /\ Resolve(r, model)
  BY DEF UseCached, Cached
<1>3. /\ model \in LoadedModel /\ model.bytes \in Servable
      /\ model.bytes = row[request[r].version].digest
  BY <1>1, <1>2, RequestTypes DEF CacheIsSound, RequestIsSound
<1>4. /\ request' \in [Requests -> RequestState]
      /\ \A q \in Requests : q # r => request'[q] = request[q]
      /\ RequestIsSound(r)'
  BY <1>1, <1>2, <1>3, ResolveIsSound
<1>5. loadLock' \in Requests \cup {NoRequest}
  BY <1>1, RequestTypes
<1> QED BY <1>1, <1>4, <1>5, CacheUnchanged, RequestChange

\* The load lock is taken.
LEMMA EnterLoadIInv ==
  ASSUME IInv, NEW r \in Requests, EnterLoad(r), UNCHANGED registryVars
  PROVE  IInv'
<1> DEFINE next == [request[r] EXCEPT !.pc = "loading"]
<1>1. /\ UNCHANGED <<cache, row>> /\ request[r].pc = "waiting" /\ loadLock' = r
      /\ request' = [request EXCEPT ![r].pc = "loading"]
  BY DEF EnterLoad, registryVars
<1>2. request \in [Requests -> RequestState] /\ request[r] \in RequestState /\ RequestIsSound(r)
  BY RequestTypes
<1>3. /\ next \in RequestState /\ next.pc = "loading" /\ next.model = request[r].model
      /\ next.version = request[r].version /\ next.row = request[r].row
  BY <1>2 DEF RequestState
<1>4. request' = [request EXCEPT ![r] = next]
  BY <1>1, <1>2
<1> HIDE DEF next
<1>5. /\ request' \in [Requests -> RequestState] /\ request'[r] = next
      /\ \A q \in Requests : q # r => request'[q] = request[q]
  BY <1>2, <1>3, <1>4
<1>6. RequestIsSound(r)'
  BY <1>1, <1>2, <1>3, <1>5 DEF RequestIsSound
<1> QED BY <1>1, <1>5, <1>6, CacheUnchanged, RequestChange

\* What was read is hashed, so what is kept has its row's digest.
LEMMA LoadIInv ==
  ASSUME IInv, NEW r \in Requests, Load(r), UNCHANGED registryVars
  PROVE  IInv'
<1> DEFINE v == request[r].version
           entry == request[r].row
           bytes == BytesAt(v, entry)
           loaded == [version |-> v, digest |-> entry.digest, bytes |-> bytes]
<1>1. /\ request[r].pc = "loading" /\ loadLock' = NoRequest /\ UNCHANGED row
      /\ IF ReadVerified(v, entry) /\ bytes \in Servable
         THEN cache' = Evict \cup {loaded} /\ Resolve(r, loaded)
         ELSE UNCHANGED cache /\ Resolve(r, Benchmark)
  BY DEF Load, registryVars
<1>2. v \in Versions /\ entry.digest \in Digests /\ entry.digest = row[v].digest
  BY <1>1, RequestTypes DEF RequestIsSound
<1>3. CASE ReadVerified(v, entry) /\ bytes \in Servable
  <2>1. cache' = {loaded} /\ Resolve(r, loaded) /\ bytes = entry.digest
    BY <1>1, <1>3 DEF ReadVerified, Evict
  <2>2. /\ loaded \in LoadedModel /\ loaded.version = v /\ loaded.digest = entry.digest
        /\ loaded.bytes = entry.digest /\ loaded.bytes \in Servable
    BY <1>2, <1>3, <2>1 DEF LoadedModel
  <2> HIDE DEF loaded
  <2>3. /\ request' \in [Requests -> RequestState]
        /\ \A q \in Requests : q # r => request'[q] = request[q]
        /\ RequestIsSound(r)'
    BY <1>1, <1>2, <2>1, <2>2, ResolveIsSound
  <2>4. cache' \subseteq LoadedModel /\ CacheIsSound' /\ OneModelLoaded'
    BY <1>1, <1>2, <2>1, <2>2 DEF CacheIsSound, OneModelLoaded
  <2> QED BY <1>1, <2>3, <2>4, RequestChange
<1>4. CASE ~(ReadVerified(v, entry) /\ bytes \in Servable)
  <2>1. UNCHANGED cache /\ Resolve(r, Benchmark)
    BY <1>1, <1>4
  <2>2. /\ request' \in [Requests -> RequestState]
        /\ \A q \in Requests : q # r => request'[q] = request[q]
        /\ RequestIsSound(r)'
    BY <1>1, <2>1, ResolveIsSound
  <2> QED BY <1>1, <2>1, <2>2, CacheUnchanged, RequestChange
<1> QED BY <1>3, <1>4

\* The request is answered.
LEMMA AnswerIInv ==
  ASSUME IInv, NEW r \in Requests, Answer(r), UNCHANGED registryVars
  PROVE  IInv'
<1>1. /\ UNCHANGED <<cache, loadLock>>
      /\ request' = [request EXCEPT ![r] = IdleRequest]
  BY DEF Answer
<1>2. /\ request' \in [Requests -> RequestState] /\ request'[r] = IdleRequest
      /\ \A q \in Requests : q # r => request'[q] = request[q]
      /\ loadLock' \in Requests \cup {NoRequest}
  BY <1>1, RequestTypes, IdleRequestIsSound
<1>3. RequestIsSound(r)'
  BY <1>2, IdleRequestIsSound DEF RequestIsSound
<1> QED BY <1>1, <1>2, <1>3, CacheUnchanged, RequestChange

(***************************************************************************)
(* The theorems                                                            *)
(***************************************************************************)

\* The invariant is inductive, and no step touches a registered artifact.
LEMMA NextIInv == IInv /\ [Next]_vars => IInv' /\ DigestsAreKept
<1> SUFFICES ASSUME IInv, [Next]_vars PROVE IInv' /\ DigestsAreKept
  OBVIOUS
<1>1. CASE RegistryNext /\ UNCHANGED resolverVars
  BY <1>1, RegistryNextIsSound, RegistryStepIInv DEF IInv
<1>2. ASSUME NEW r \in Requests, UNCHANGED registryVars,
             ReadActive(r) \/ UseCached(r) \/ EnterLoad(r) \/ Load(r) \/ Answer(r)
      PROVE  IInv' /\ DigestsAreKept
  <2>1. DigestsAreKept
    BY <1>2, RegistryUnchanged DEF IInv
  <2> QED BY <1>2, <2>1, ReadActiveIInv, UseCachedIInv, EnterLoadIInv, LoadIInv, AnswerIInv
<1>3. CASE UNCHANGED vars
  <2>1. UNCHANGED registryVars /\ UNCHANGED resolverVars
    BY <1>3 DEF vars
  <2> QED BY <2>1, RegistryUnchanged, RegistryStepIInv DEF IInv
<1> QED BY <1>1, <1>2, <1>3 DEF Next, ResolverNext

\* Every reachable state satisfies the inductive invariant.
LEMMA Invariance == Spec => []IInv
BY InitIInv, NextIInv, PTL DEF Spec

\* Registry, transactions, seed, cache and requests have their types
\* (model_registry.py, seed.py, inference.py).
THEOREM TypeCorrect == Spec => []TypeOK
<1>1. IInv => TypeOK
  BY DEF IInv
<1> QED BY <1>1, Invariance, PTL

\* One version is active, the one activated last, and every entry of
\* model_activations names the version it replaced, with any number of
\* operators promoting and rolling back and the seed beside them.
THEOREM ActivationsAreChainedHolds == Spec => []ActivationsAreChained
<1>1. IInv => ActivationsAreChained
  BY DEF IInv, RegistryInv
<1> QED BY <1>1, Invariance, PTL

\* A row never refers to an object that was not published, whatever failed
\* between publish and commit.
THEOREM ArtifactsAreKeptHolds == Spec => []ArtifactsAreKept
<1>1. IInv => ArtifactsAreKept
  BY DEF IInv, RegistryInv
<1> QED BY <1>1, Invariance, PTL

\* Every answer of a model is the registered artifact of the version it is
\* given under, whatever happened to registry, file or object meanwhile.
THEOREM AnswersAreVerifiedHolds == Spec => []AnswersAreVerified
<1>1. ASSUME IInv PROVE AnswersAreVerified
  <2>1. ASSUME NEW r \in Requests, request[r].model # Benchmark
        PROVE  /\ request[r].model.version = request[r].version
               /\ request[r].model.bytes = row[request[r].model.version].digest
               /\ request[r].model.bytes \in Servable
    BY <1>1, <2>1 DEF IInv, RequestsAreSound, RequestIsSound
  <2> QED BY <2>1 DEF AnswersAreVerified
<1> QED BY <1>1, Invariance, PTL

\* The process keeps one model of a type in memory.
THEOREM OneModelLoadedHolds == Spec => []OneModelLoaded
<1>1. IInv => OneModelLoaded
  BY DEF IInv
<1> QED BY <1>1, Invariance, PTL

\* No step gives a version that has an artifact another one.
THEOREM VersionsAreImmutableHolds == Spec => VersionsAreImmutable
<1>1. IInv /\ [Next]_vars =>
        [\A v \in Versions : row[v].digest # NoDigest => row'[v].digest = row[v].digest]_registryVars
  BY NextIInv DEF DigestsAreKept
<1> QED BY <1>1, Invariance, PTL DEF Spec, VersionsAreImmutable
\* A promotion improves on what it replaces.
Improvement ==
  Len(activations') > Len(activations) /\ Last(activations').action = "promote" =>
    LET entry == Last(activations')
    IN entry.previous # NoVersion =>
         Improves(MetricsOf(row'[entry.version].digest), MetricsOf(row[entry.previous].digest))

\* The entry a step appends.
LEMMA ActivationIs ==
  ASSUME RegistryInv, NEW v \in Versions, NEW contents, NEW previous, NEW action,
         ActivateRow(v, contents, previous, action)
  PROVE  /\ Last(activations').version = v /\ Last(activations').previous = previous
         /\ Last(activations').action = action
<1> DEFINE entry == [version |-> v, previous |-> previous, action |-> action]
<1>1. activations' = Append(activations, entry) /\ activations \in Seq(Activation)
  BY DEF ActivateRow, RegistryInv, RegistryTypeOK
<1>2. entry.version = v /\ entry.previous = previous /\ entry.action = action
  OBVIOUS
<1> HIDE DEF entry
<1>3. Last(activations') = entry
  BY <1>1 DEF Last
<1> QED BY <1>2, <1>3

\* The gates compared the candidate with what is still active when it commits.
LEMMA PromotionImproves ==
  ASSUME RegistryInv, NEW o \in Operators, Promote(o)
  PROVE  Improvement
<1> DEFINE m == operator[o]
           v == m.version
           contents == [status |-> "active", digest |-> m.digest, file |-> m.file,
                        runtime |-> m.runtime, metrics |-> m.digest]
<1>1. CASE ~ActivateRow(v, contents, m.active, "promote")
  <2>1. UNCHANGED activations
    BY <1>1 DEF Promote, Abort, Rest
  <2> QED BY <2>1 DEF Improvement, RegistryInv, RegistryTypeOK
<1>2. CASE ActivateRow(v, contents, m.active, "promote")
  <2>1. /\ m.pc = "published" /\ m \in Operation /\ OperatorIsSound(o) /\ NoDigest \notin Digests
        /\ v \in Versions /\ m.digest \in Digests
    BY OperatorTypes DEF Promote, OperatorIsSound, Operation
  <2>2. Last(activations').version = v /\ Last(activations').previous = m.active
    BY <1>2, <2>1, ActivationIs
  <2>3. row'[v].digest = m.digest
    BY <1>2, <2>1 DEF ActivateRow
  <2>4. MetricsOf(m.digest) = Evaluation[m.digest]
    BY <2>1 DEF MetricsOf
  <2>5. m.active # NoVersion => Improves(Evaluation[m.digest], MetricsOf(row[m.active].digest))
    BY <2>1 DEF OperatorIsSound
  <2> HIDE DEF m, v
  <2> QED BY <2>2, <2>3, <2>4, <2>5 DEF Improvement
<1> QED BY <1>1, <1>2

\* A rollback and the seed say what they are.
LEMMA OthersDoNotPromote ==
  ASSUME RegistryInv, (\E o \in Operators : Restore(o)) \/ SeedWrites
  PROVE  Improvement
<1>1. CASE UNCHANGED activations
  BY <1>1 DEF Improvement, RegistryInv, RegistryTypeOK
<1>2. ASSUME NEW o \in Operators, Restore(o), activations' # activations
      PROVE  Last(activations').action = "rollback"
  <2>1. /\ ActivateRow(operator[o].version, row[operator[o].version], operator[o].active, "rollback")
        /\ operator[o].version \in Versions
    BY <1>2, OperatorTypes DEF Restore, Abort, Rest, Operation
  <2> QED BY <2>1, ActivationIs
<1>3. ASSUME SeedWrites, activations' # activations
      PROVE  Last(activations').action = "seed"
  <2>1. ActivateRow(Baseline, SeededRow, NoVersion, "seed") /\ Baseline \in Versions
    BY <1>3, RegistryConstants DEF SeedWrites
  <2> QED BY <2>1, ActivationIs
<1> QED BY <1>1, <1>2, <1>3 DEF Improvement

\* Every other step leaves the history alone.
LEMMA NextImproves == RegistryInv /\ [RegistryNext]_registryVars => [Improvement]_registryVars
<1> SUFFICES ASSUME RegistryInv, RegistryNext PROVE Improvement
  OBVIOUS
<1>1. ASSUME UNCHANGED activations PROVE Improvement
  BY <1>1 DEF Improvement, RegistryInv, RegistryTypeOK
<1>2. ASSUME NEW o \in Operators,
             \/ \E v \in Versions : BeginRollback(o, v)
             \/ \E v \in Candidates, f \in Files, i \in Incumbents : BeginRegister(o, v, f, i)
             \/ Gate(o) \/ GateRejects(o) \/ CheckArtifact(o) \/ Publish(o)
             \/ VerifyTarget(o) \/ Fail(o)
      PROVE  Improvement
  <2>1. UNCHANGED activations
    BY <1>2 DEF BeginRollback, BeginRegister, Gate, GateRejects, CheckArtifact, Publish, VerifyTarget,
                Fail, Abort, Rest
  <2> QED BY <1>1, <2>1
<1>3. ASSUME \/ SeedReads \/ SeedFails \/ Upgrade
             \/ \E f \in Files, d \in Digests : Retrain(f, d)
             \/ \E k \in Versions \X Digests, state \in ObjectState : Damage(k, state)
      PROVE  Improvement
  <2>1. UNCHANGED activations
    BY <1>3 DEF SeedReads, SeedFails, Upgrade, Retrain, Damage
  <2> QED BY <1>1, <2>1
<1> QED BY <1>2, <1>3, PromotionImproves, OthersDoNotPromote DEF RegistryNext

\* No promotion replaces a model the candidate was not found better than, even
\* one promoted, rolled back to or re-seeded while the candidate was on its way.
THEOREM PromotionsImproveHolds == Spec => PromotionsImprove
<1>1. IInv /\ [Next]_vars => [Improvement]_registryVars
  BY NextImproves DEF IInv, Next, vars
<1> QED BY <1>1, Invariance, PTL DEF Spec, PromotionsImprove, Improvement

=============================================================================
