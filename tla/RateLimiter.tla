----------------------------- MODULE RateLimiter -----------------------------
(***************************************************************************)
(* RateLimiter.check (rate_limit.py) as enforce_public_rate_limit calls it *)
(* for the public requests of one client: counts of different clients have *)
(* different keys in both stores.  The clock is the number of the window.  *)
(***************************************************************************)
EXTENDS EventBus, Integers, FiniteSets

CONSTANTS
  GeneralLimit, ShotQualityLimit,
  Calls,       \* bound: requests at one time
  MaxArrivals, \* bound: requests
  MaxWindow    \* bound: the clock

ASSUME LimiterConstants ==
  /\ GeneralLimit \in Nat /\ ShotQualityLimit \in Nat
  /\ IsFiniteSet(Calls) /\ MaxArrivals \in Nat /\ MaxWindow \in Nat

VARIABLES
  clock,   \* now // window_seconds
  calls,   \* checks that wait for Redis
  shared,  \* courtvision:rate:<bucket>:<window>:<client> in Redis
  memory,  \* _memory_counts; a missing count is 0
  tally    \* history: what arrived, was refused, was let in during its own window,
           \* let in during a later one, and carried over into a window

limiterVars == <<clock, calls, shared, memory, tally>>

Bucket == {"public-read", "shot-quality"}
Window == 0..MaxWindow
Key == Bucket \X Window
Store == {"redis", "memory"}

Limit(bucket) == IF bucket = "shot-quality" THEN ShotQualityLimit ELSE GeneralLimit

NoCall == [pc |-> "none", key |-> <<"public-read", 0>>]
NoCounts == [k \in Key |-> 0]

LimiterInit ==
  /\ clock = 0
  /\ calls = [c \in Calls |-> NoCall]
  /\ shared = NoCounts /\ memory = NoCounts
  /\ tally = [requests |-> 0, arrived |-> NoCounts, refused |-> {},
              admitted |-> [store \in Store |-> NoCounts], late |-> NoCounts, carried |-> NoCounts]

\* The requests of a bucket that wait for Redis.
Held(bucket) == {c \in Calls : calls[c].pc # "none" /\ calls[c].key[1] = bucket}

Tick ==
  /\ clock < MaxWindow
  /\ clock' = clock + 1
  /\ tally' = [tally EXCEPT !.carried =
       [key \in Key |-> IF key[2] = clock + 1 THEN Cardinality(Held(key[1])) ELSE @[key]]]
  /\ UNCHANGED <<busVars, calls, shared, memory>>

Arrived(key) == [tally EXCEPT !.requests = @ + 1, !.arrived[key] = @ + 1]

\* The RateLimitDecision, from the count in one of the stores: the count is of
\* the key's window, also when the clock has gone on since.
Decided(t, key, store, count) ==
  IF count > Limit(key[1]) THEN [t EXCEPT !.refused = @ \cup {key}]
  ELSE IF clock = key[2] THEN [t EXCEPT !.admitted[store][key] = @ + 1]
  ELSE [t EXCEPT !.late[<<key[1], clock>>] = @ + 1]

\* _increment_memory: counts older than the previous window are dropped.
CountInMemory(t, key) ==
  LET count == memory[key] + 1
  IN /\ memory' = [k \in Key |-> IF k = key THEN count
                                 ELSE IF k[2] >= key[2] - 1 THEN memory[k] ELSE 0]
     /\ tally' = Decided(t, key, "memory", count)

\* Mutant of KeyOf: the bucket is left out of the key.
KeyForAll(bucket) == <<"public-read", clock>>

KeyOf(bucket) == <<bucket, clock>>

\* A request under /api/v1/ comes in.
Arrive(c, bucket) ==
  /\ calls[c].pc = "none"
  /\ tally.requests < MaxArrivals
  /\ LET key == KeyOf(bucket) IN
       \/ /\ redis
          /\ calls' = [calls EXCEPT ![c] = [pc |-> "incr", key |-> key]]
          /\ tally' = Arrived(<<bucket, clock>>)
          /\ UNCHANGED memory
       \/ /\ ~redis
          /\ CountInMemory(Arrived(<<bucket, clock>>), key)
          /\ UNCHANGED calls
  /\ UNCHANGED <<busVars, clock, shared>>

\* INCR answers; the first count of a key is given its expiry next.
Increment(c) ==
  /\ calls[c].pc = "incr"
  /\ answers
  /\ LET key == calls[c].key
         count == shared[key] + 1
     IN /\ shared' = [shared EXCEPT ![key] = count]
        /\ IF count = 1
           THEN /\ calls' = [calls EXCEPT ![c].pc = "expire"]
                /\ UNCHANGED tally
           ELSE /\ calls' = [calls EXCEPT ![c] = NoCall]
                /\ tally' = Decided(tally, key, "redis", count)
  /\ UNCHANGED <<busVars, clock, memory>>

\* EXPIRE answers.
SetExpiry(c) ==
  /\ calls[c].pc = "expire"
  /\ answers
  /\ calls' = [calls EXCEPT ![c] = NoCall]
  /\ tally' = Decided(tally, calls[c].key, "redis", 1)
  /\ UNCHANGED <<busVars, clock, shared, memory>>

\* INCR (applied or not) or EXPIRE raises: the request is counted in memory.
RedisRaises(c) ==
  /\ calls[c].pc # "none"
  /\ \/ UNCHANGED shared
     \/ /\ calls[c].pc = "incr" /\ answers
        /\ shared' = [shared EXCEPT ![calls[c].key] = @ + 1]
  /\ CountInMemory(tally, calls[c].key)
  /\ calls' = [calls EXCEPT ![c] = NoCall]
  /\ UNCHANGED <<busVars, clock>>

\* Mutant of Lapsed: the expiry is shorter than what is left of the window.
LapsedEarly(key) == clock >= key[2]

\* window_seconds + 1 after the first count the window is over.
Lapsed(key) == clock > key[2]

\* Redis drops a key that has expired.
KeyExpires(key) ==
  /\ shared[key] > 0
  /\ Lapsed(key)
  /\ \A c \in Calls : calls[c].pc = "expire" => calls[c].key # key
  /\ shared' = [shared EXCEPT ![key] = 0]
  /\ UNCHANGED <<busVars, clock, calls, memory, tally>>

LimiterNext ==
  \/ Tick
  \/ \E c \in Calls :
       (\E bucket \in Bucket : Arrive(c, bucket)) \/ Increment(c) \/ SetExpiry(c) \/ RedisRaises(c)
  \/ \E key \in Key : KeyExpires(key)
  \/ (ListenerFails \/ ServerChanges) /\ UNCHANGED limiterVars

LimiterTypeOK ==
  /\ clock \in Window
  /\ calls \in [Calls -> [pc : {"none", "incr", "expire"}, key : Key]]
  /\ shared \in [Key -> 0..MaxArrivals] /\ memory \in [Key -> 0..MaxArrivals]
  /\ tally \in [requests : 0..MaxArrivals, arrived : [Key -> 0..MaxArrivals], refused : SUBSET Key,
                admitted : [Store -> [Key -> 0..MaxArrivals]], late : [Key -> Nat],
                carried : [Key -> Nat]]

\* Whatever Redis does, and however calls overlap the turn of a window: during a
\* window each store lets in at most the limit of a bucket's requests of that
\* window, and what is let in on top, on the count of an earlier window, is at
\* most what waited for Redis when the window began.  (So a window can see twice
\* the limit, when Redis fails in the middle of it, and what was carried over.)
\* A request is refused only when its own bucket has seen more requests than the
\* limit in its window.
LimitIsKept ==
  /\ \A store \in Store, key \in Key : tally.admitted[store][key] <= Limit(key[1])
  /\ \A key \in Key : tally.late[key] <= tally.carried[key]
  /\ \A key \in tally.refused : tally.arrived[key] > Limit(key[1])
=============================================================================
