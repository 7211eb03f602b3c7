--------------------------- MODULE ModelResolver ---------------------------
(***************************************************************************)
(* How one API process turns the active registry row into a loaded model   *)
(* (inference.py, ActiveModelResolver) and answers with it, or with the    *)
(* deterministic benchmark (ml.py, prediction_runtime.py), while the       *)
(* registry changes underneath.                                            *)
(***************************************************************************)
EXTENDS ModelRegistry

CONSTANTS
  Requests,    \* request handlers of the process
  Servable,    \* artifacts that fit the model contract and load
  NoRequest

ASSUME ResolverConstants == Servable \subseteq Digests /\ NoRequest \notin Requests

VARIABLES
  cache,     \* loaded models: version, digest and the bytes they came from
  loadLock,  \* the request inside "async with self._load_lock"
  request    \* where each handler is, with the row it read and its model

resolverVars == <<cache, loadLock, request>>
vars == <<registryVars, resolverVars>>

LoadedModel == [version : Versions, digest : Digests, bytes : Digests]

Benchmark == [version |-> NoVersion, digest |-> NoDigest, bytes |-> NoDigest]

\* What a request keeps of the row: the digest and where it leads.
NoArtifact == [digest |-> NoDigest, file |-> AnyFile]
Artifact(v) == [digest |-> row[v].digest, file |-> row[v].file]

IdleRequest ==
  [pc |-> "idle", version |-> NoVersion, row |-> NoArtifact, model |-> Benchmark]

Init ==
  /\ RegistryInit
  /\ cache = {}
  /\ loadLock = NoRequest
  /\ request = [r \in Requests |-> IdleRequest]

Resolve(r, model) == request' = [request EXCEPT ![r].pc = "resolved", ![r].model = model]

\* Mutant of Cached: looked up by the model type alone.
CachedForType(v, entry) == cache

\* self._cache.get((model_type, version, artifact_sha256))
Cached(v, entry) == {model \in cache : model.version = v /\ model.digest = entry.digest}

\* The row has an artifact, for this contract and these library versions.
Acceptable(v) == row[v].digest # NoDigest /\ row[v].runtime = runtime

\* resolve, up to the load lock.
ReadActive(r) ==
  LET v == ActiveVersion
  IN /\ request[r].pc = "idle"
     /\ IF v = NoVersion \/ ~Acceptable(v)
        THEN Resolve(r, Benchmark)
        ELSE request' = [request EXCEPT ![r].pc = "waiting", ![r].version = v, ![r].row = Artifact(v)]
     /\ UNCHANGED <<cache, loadLock>>

\* The look-up, before the lock or once it is held: a hit ends the resolve.
UseCached(r) ==
  /\ request[r].pc = "waiting"
  /\ \E model \in Cached(request[r].version, request[r].row) : Resolve(r, model)
  /\ UNCHANGED <<cache, loadLock>>

EnterLoad(r) ==
  /\ request[r].pc = "waiting"
  /\ Cached(request[r].version, request[r].row) = {}
  /\ loadLock = NoRequest /\ loadLock' = r
  /\ request' = [request EXCEPT ![r].pc = "loading"]
  /\ UNCHANGED cache

\* Mutant of Evict: what was loaded before stays.
KeepAll == cache

\* Every other model of the type is dropped.
Evict == {}

\* Mutant of Load: what could not be read is remembered too.
LoadUnchecked(r) ==
  LET v == request[r].version
      entry == request[r].row
      loaded == [version |-> v, digest |-> entry.digest, bytes |-> BytesAt(v, entry)]
  IN /\ request[r].pc = "loading"
     /\ loadLock' = NoRequest
     /\ cache' = Evict \cup {loaded}
     /\ Resolve(r, loaded)

\* _load_artifact, in a thread: any failure means the benchmark.
Load(r) ==
  LET v == request[r].version
      entry == request[r].row
      loaded == [version |-> v, digest |-> entry.digest, bytes |-> BytesAt(v, entry)]
  IN /\ request[r].pc = "loading"
     /\ loadLock' = NoRequest
     /\ IF ReadVerified(v, entry) /\ BytesAt(v, entry) \in Servable
        THEN cache' = Evict \cup {loaded} /\ Resolve(r, loaded)
        ELSE UNCHANGED cache /\ Resolve(r, Benchmark)

\* The answer: the model's, or the benchmark's if it fails on these features.
Answer(r) ==
  /\ request[r].pc = "resolved"
  /\ request' = [request EXCEPT ![r] = IdleRequest]
  /\ UNCHANGED <<cache, loadLock>>

ResolverNext ==
  \E r \in Requests :
    ReadActive(r) \/ UseCached(r) \/ EnterLoad(r) \/ Load(r) \/ Answer(r)

Next ==
  \/ RegistryNext /\ UNCHANGED resolverVars
  \/ ResolverNext /\ UNCHANGED registryVars

Spec == Init /\ [][Next]_vars

(***************************************************************************)
(* Properties                                                              *)
(***************************************************************************)

TypeOK ==
  /\ RegistryTypeOK
  /\ cache \subseteq LoadedModel
  /\ loadLock \in Requests \cup {NoRequest}
  /\ request \in [Requests -> [pc : {"idle", "waiting", "loading", "resolved"},
                               version : Versions \cup {NoVersion}, row : [digest : Digests \cup {NoDigest}, file : Files],
                               model : LoadedModel \cup {Benchmark}]]

\* A model answers under the version that was active when its request asked,
\* and that version's registered artifact is what was loaded, whatever was
\* promoted, rolled back, overwritten or damaged while it was being loaded.
AnswersAreVerified ==
  \A r \in Requests :
    LET model == request[r].model
    IN model # Benchmark =>
         /\ model.version = request[r].version
         /\ model.bytes = row[model.version].digest
         /\ model.bytes \in Servable

\* Loads of a replaced and of its replacing version that overlap leave one
\* model in memory.
OneModelLoaded == \A a, b \in cache : a = b
=============================================================================
