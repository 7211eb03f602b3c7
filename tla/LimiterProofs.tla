---------------------------- MODULE LimiterProofs ----------------------------
(* What RateLimiter keeps, for any limits, clients' calls and windows: the    *)
(* lemmas the theorems of ServicesProofs rest on.                             *)
EXTENDS RateLimiter, FiniteSetTheorems, TLAPS

(***************************************************************************)
(* The inductive invariant                                                 *)
(***************************************************************************)

Call == [pc : {"none", "incr", "expire"}, key : Key]

Tally == [requests : Nat, arrived : [Key -> Nat], refused : SUBSET Key,
          admitted : [Store -> [Key -> Nat]], late : [Key -> Nat], carried : [Key -> Nat]]

\* The bounds of the counts follow from what they count.
LimiterShape ==
  /\ clock \in Window /\ calls \in [Calls -> Call]
  /\ shared \in [Key -> Nat] /\ memory \in [Key -> Nat]
  /\ tally \in Tally /\ tally.requests <= MaxArrivals

Waiting(key) == {c \in Calls : calls[c].pc # "none" /\ calls[c].key = key}
Uncounted(key) == {c \in Calls : calls[c].pc = "incr" /\ calls[c].key = key}
Expiring(key) == {c \in Calls : calls[c].pc = "expire" /\ calls[c].key = key}

\* A request is counted at most once in each store, so a count that is over the
\* limit stands for that many requests.
CountsAreBacked(key) ==
  /\ shared[key] + Cardinality(Uncounted(key)) <= tally.arrived[key]
  /\ memory[key] + Cardinality(Waiting(key)) <= tally.arrived[key]
  /\ tally.arrived[key] <= tally.requests
  /\ key \in tally.refused => tally.arrived[key] > Limit(key[1])

\* While a window lasts neither store forgets what it let in; the call that
\* waits for EXPIRE has the first place, and is counted before it is let in.
AdmittedAreCounted(key) ==
  /\ \A store \in Store : /\ tally.admitted[store][key] <= Limit(key[1])
                          /\ tally.admitted[store][key] <= tally.arrived[key]
  /\ \A c, d \in Expiring(key) : c = d
  /\ Expiring(key) # {} => shared[key] > 0
  /\ clock <= key[2] =>
       /\ tally.admitted["memory"][key] <= memory[key]
       /\ tally.admitted["redis"][key] <= shared[key]
       /\ Expiring(key) # {} =>
            /\ tally.admitted["redis"][key] < shared[key]
            /\ Limit(key[1]) > 0 => tally.admitted["redis"][key] < Limit(key[1])

KeyIsSound(key) == CountsAreBacked(key) /\ AdmittedAreCounted(key)

\* No call counts for a window that is still to come.
CallsAreDue == \A c \in Calls : calls[c].pc # "none" => calls[c].key[2] <= clock

CountsInv == LimiterShape /\ CallsAreDue /\ \A key \in Key : KeyIsSound(key)

\* The requests that will be decided on the count of an earlier window.
LateCalls(bucket) == {c \in Held(bucket) : calls[c].key[2] < clock}

\* Each call that was carried over into a window is let in late once at most.
LateInv ==
  \A key \in Key :
    /\ tally.late[key] <= tally.carried[key]
    /\ clock = key[2] => tally.late[key] + Cardinality(LateCalls(key[1])) <= tally.carried[key]
    /\ clock < key[2] => tally.late[key] = 0

LimiterInv == CountsInv /\ LateInv

(***************************************************************************)
(* Lemmas about the operators                                              *)
(***************************************************************************)

\* Keys name a window and a bucket with a limit.
LEMMA KeyTypes ==
  /\ \A key \in Key : key[2] \in Window /\ key[2] \in Nat /\ Limit(key[1]) \in Nat
  /\ \A bucket \in Bucket : clock \in Window => KeyOf(bucket) \in Key /\ KeyOf(bucket)[2] = clock
  /\ NoCall \in Call /\ NoCall.pc = "none"
BY LimiterConstants DEF Key, Window, Limit, KeyOf, NoCall, Call, Bucket

One(P) == IF P THEN 1 ELSE 0

\* The size of a set that changes at one element.
LEMMA SizeChange ==
  ASSUME NEW S, NEW T, NEW c, IsFiniteSet(S), S \ {c} = T \ {c}
  PROVE  /\ Cardinality(S) \in Nat /\ Cardinality(T) \in Nat
         /\ Cardinality(T) + One(c \in S) = Cardinality(S) + One(c \in T)
         /\ c \in S => Cardinality(S) >= 1
<1> DEFINE R == S \ {c}
<1>1. /\ IsFiniteSet(R) /\ c \notin R
      /\ Cardinality(R) = IF c \in S THEN Cardinality(S) - 1 ELSE Cardinality(S)
  BY FS_RemoveElement
<1>2. IsFiniteSet(R \cup {c}) /\ Cardinality(R \cup {c}) = Cardinality(R) + 1
  BY <1>1, FS_AddElement
<1>3. Cardinality(R) \in Nat /\ Cardinality(S) \in Nat
  BY <1>1, FS_CardinalityType
<1>4. T = IF c \in T THEN R \cup {c} ELSE R
  OBVIOUS
<1> HIDE DEF R
<1>5. CASE c \in T
  <2>1. T = R \cup {c}
    BY <1>4, <1>5
  <2>2. Cardinality(T) = Cardinality(R) + 1
    BY <1>2, <2>1
  <2> QED BY <1>1, <1>3, <1>5, <2>2 DEF One
<1>6. CASE c \notin T
  <2>1. T = R
    BY <1>4, <1>6
  <2> QED BY <1>1, <1>3, <1>6, <2>1 DEF One
<1> QED BY <1>5, <1>6

\* What a step of one call does to the sets of calls of a key.
LEMMA CallStep ==
  ASSUME LimiterShape, NEW c \in Calls, NEW new \in Call, calls' = [calls EXCEPT ![c] = new],
         NEW key \in Key
  PROVE  /\ Cardinality(Waiting(key)) \in Nat /\ Cardinality(Waiting(key)') \in Nat
         /\ Cardinality(Uncounted(key)) \in Nat /\ Cardinality(Uncounted(key)') \in Nat
         /\ Cardinality(Waiting(key)') + One(calls[c].pc # "none" /\ calls[c].key = key)
              = Cardinality(Waiting(key)) + One(new.pc # "none" /\ new.key = key)
         /\ Cardinality(Uncounted(key)') + One(calls[c].pc = "incr" /\ calls[c].key = key)
              = Cardinality(Uncounted(key)) + One(new.pc = "incr" /\ new.key = key)
         /\ calls[c].pc # "none" /\ calls[c].key = key => Cardinality(Waiting(key)) >= 1
         /\ calls[c].pc = "incr" /\ calls[c].key = key => Cardinality(Uncounted(key)) >= 1
         /\ \A d \in Calls : d # c => (d \in Expiring(key)' <=> d \in Expiring(key))
         /\ c \in Expiring(key)' <=> new.pc = "expire" /\ new.key = key
<1>1. /\ calls \in [Calls -> Call] /\ calls'[c] = new
      /\ \A d \in Calls : d # c => calls'[d] = calls[d]
  BY DEF LimiterShape
<1>2. /\ IsFiniteSet(Waiting(key)) /\ IsFiniteSet(Uncounted(key))
  <2>1. Waiting(key) \in SUBSET Calls /\ Uncounted(key) \in SUBSET Calls
    BY DEF Waiting, Uncounted
  <2> QED BY <2>1, FS_Subset, LimiterConstants
<1>3. Waiting(key) \ {c} = Waiting(key)' \ {c} /\ Uncounted(key) \ {c} = Uncounted(key)' \ {c}
  BY <1>1 DEF Waiting, Uncounted
<1>4. /\ c \in Waiting(key) <=> calls[c].pc # "none" /\ calls[c].key = key
      /\ c \in Waiting(key)' <=> new.pc # "none" /\ new.key = key
      /\ c \in Uncounted(key) <=> calls[c].pc = "incr" /\ calls[c].key = key
      /\ c \in Uncounted(key)' <=> new.pc = "incr" /\ new.key = key
  BY <1>1 DEF Waiting, Uncounted
<1>5. /\ Cardinality(Waiting(key)) \in Nat /\ Cardinality(Waiting(key)') \in Nat
      /\ Cardinality(Waiting(key)') + One(c \in Waiting(key))
           = Cardinality(Waiting(key)) + One(c \in Waiting(key)')
      /\ c \in Waiting(key) => Cardinality(Waiting(key)) >= 1
  BY <1>2, <1>3, SizeChange
<1>6. /\ Cardinality(Uncounted(key)) \in Nat /\ Cardinality(Uncounted(key)') \in Nat
      /\ Cardinality(Uncounted(key)') + One(c \in Uncounted(key))
           = Cardinality(Uncounted(key)) + One(c \in Uncounted(key)')
      /\ c \in Uncounted(key) => Cardinality(Uncounted(key)) >= 1
  BY <1>2, <1>3, SizeChange
<1>7. /\ \A d \in Calls : d # c => (d \in Expiring(key)' <=> d \in Expiring(key))
      /\ c \in Expiring(key)' <=> new.pc = "expire" /\ new.key = key
  BY <1>1 DEF Expiring
<1> QED BY <1>4, <1>5, <1>6, <1>7 DEF One

\* A decision refuses, lets in during the window, or lets in too late to count.
LEMMA DecidedIs ==
  ASSUME clock \in Window, NEW t \in Tally, NEW key \in Key, NEW store \in Store, NEW count \in Nat,
         NEW u, u = Decided(t, key, store, count)
  PROVE  /\ u \in Tally /\ u.requests = t.requests /\ u.arrived = t.arrived
         /\ \A k \in Key :
              /\ k \in u.refused <=> k \in t.refused \/ (k = key /\ count > Limit(key[1]))
              /\ u.admitted["redis"][k] =
                   IF store = "redis" /\ k = key /\ count <= Limit(key[1]) /\ clock = key[2]
                   THEN t.admitted["redis"][k] + 1 ELSE t.admitted["redis"][k]
              /\ u.admitted["memory"][k] =
                   IF store = "memory" /\ k = key /\ count <= Limit(key[1]) /\ clock = key[2]
                   THEN t.admitted["memory"][k] + 1 ELSE t.admitted["memory"][k]
<1> DEFINE refused == [t EXCEPT !.refused = t.refused \cup {key}]
           admitted == [t EXCEPT !.admitted[store][key] = t.admitted[store][key] + 1]
<1>0. Limit(key[1]) \in Nat
  BY KeyTypes
<1>1. CASE count > Limit(key[1])
  <2>1. u = refused
    BY <1>1 DEF Decided
  <2> QED BY <1>0, <1>1, <2>1 DEF Tally
<1>2. CASE ~(count > Limit(key[1])) /\ clock = key[2]
  <2>1. u = admitted
    BY <1>2 DEF Decided
  <2>2. /\ admitted \in Tally /\ admitted.requests = t.requests /\ admitted.arrived = t.arrived
        /\ admitted.refused = t.refused
        /\ \A s \in Store, k \in Key :
             admitted.admitted[s][k] = IF s = store /\ k = key THEN t.admitted[s][k] + 1
                                       ELSE t.admitted[s][k]
    <3> DEFINE row == [t.admitted[store] EXCEPT ![key] = t.admitted[store][key] + 1]
               all == [t.admitted EXCEPT ![store] = row]
    <3>1. t.admitted \in [Store -> [Key -> Nat]] /\ t.admitted[store] \in [Key -> Nat]
      BY DEF Tally
    <3>2. /\ row \in [Key -> Nat]
          /\ \A k \in Key : row[k] = IF k = key THEN t.admitted[store][k] + 1 ELSE t.admitted[store][k]
      BY <3>1
    <3>3. admitted = [t EXCEPT !.admitted = all]
      BY <3>1 DEF Tally
    <3> HIDE DEF row
    <3>4. /\ all \in [Store -> [Key -> Nat]]
          /\ \A s \in Store : all[s] = IF s = store THEN row ELSE t.admitted[s]
      BY <3>1, <3>2
    <3> HIDE DEF all, admitted
    <3>5. /\ admitted \in Tally /\ admitted.requests = t.requests /\ admitted.arrived = t.arrived
          /\ admitted.refused = t.refused /\ admitted.admitted = all
      BY <3>3, <3>4 DEF Tally
    <3> QED BY <3>2, <3>4, <3>5
  <2> HIDE DEF admitted
  <2> QED BY <1>0, <1>2, <2>1, <2>2 DEF Store
<1>3. CASE ~(count > Limit(key[1])) /\ clock # key[2]
  <2> DEFINE next == [t.late EXCEPT ![<<key[1], clock>>] = t.late[<<key[1], clock>>] + 1]
  <2>1. u = [t EXCEPT !.late = next]
    BY <1>3 DEF Decided, Tally
  <2>2. next \in [Key -> Nat]
    BY DEF Tally, Key
  <2> HIDE DEF next
  <2>3. u \in Tally /\ u.requests = t.requests /\ u.arrived = t.arrived /\ u.refused = t.refused
        /\ u.admitted = t.admitted
    BY <2>1, <2>2 DEF Tally
  <2> QED BY <1>0, <1>3, <2>3
<1> QED BY <1>1, <1>2, <1>3

\* A decision lets a request in late only when its window is over.
LEMMA DecidedLate ==
  ASSUME clock \in Window, NEW t \in Tally, NEW key \in Key, NEW store, NEW count,
         NEW u, u = Decided(t, key, store, count)
  PROVE  /\ u.carried = t.carried
         /\ \/ u.late = t.late
            \/ clock # key[2]
               /\ u.late = [t.late EXCEPT ![<<key[1], clock>>] = t.late[<<key[1], clock>>] + 1]
BY DEF Decided, Tally
\* The decision on a count in memory.
LEMMA DecidedInMemory ==
  ASSUME clock \in Window, NEW t \in Tally, NEW key \in Key, NEW count \in Nat,
         NEW u, u = Decided(t, key, "memory", count)
  PROVE  /\ u \in Tally /\ u.requests = t.requests /\ u.arrived = t.arrived
         /\ \A k \in Key :
              /\ k \in u.refused <=> k \in t.refused \/ (k = key /\ count > Limit(key[1]))
              /\ u.admitted["redis"][k] = t.admitted["redis"][k]
              /\ u.admitted["memory"][k] =
                   IF k = key /\ count <= Limit(key[1]) /\ clock = key[2]
                   THEN t.admitted["memory"][k] + 1 ELSE t.admitted["memory"][k]
<1>1. "memory" \in Store
  BY DEF Store
<1>2. u \in Tally /\ u.requests = t.requests /\ u.arrived = t.arrived
  BY <1>1, DecidedIs
<1>3. ASSUME NEW k \in Key
      PROVE  k \in u.refused <=> k \in t.refused \/ (k = key /\ count > Limit(key[1]))
  BY <1>1, DecidedIs
<1>4. ASSUME NEW k \in Key
      PROVE  u.admitted["redis"][k] = t.admitted["redis"][k]
  BY <1>1, DecidedIs
<1>5. ASSUME NEW k \in Key
      PROVE  u.admitted["memory"][k] = IF k = key /\ count <= Limit(key[1]) /\ clock = key[2]
                                       THEN t.admitted["memory"][k] + 1 ELSE t.admitted["memory"][k]
  BY <1>1, DecidedIs
<1> QED BY <1>2, <1>3, <1>4, <1>5

\* The decision on a count in Redis.
LEMMA DecidedInRedis ==
  ASSUME clock \in Window, NEW t \in Tally, NEW key \in Key, NEW count \in Nat,
         NEW u, u = Decided(t, key, "redis", count)
  PROVE  /\ u \in Tally /\ u.requests = t.requests /\ u.arrived = t.arrived
         /\ \A k \in Key :
              /\ k \in u.refused <=> k \in t.refused \/ (k = key /\ count > Limit(key[1]))
              /\ u.admitted["memory"][k] = t.admitted["memory"][k]
              /\ k = key /\ count <= Limit(key[1]) /\ clock = key[2]
                   => u.admitted["redis"][k] = t.admitted["redis"][k] + 1
              /\ ~(k = key /\ count <= Limit(key[1]) /\ clock = key[2])
                   => u.admitted["redis"][k] = t.admitted["redis"][k]
<1>1. "redis" \in Store
  BY DEF Store
<1>2. u \in Tally /\ u.requests = t.requests /\ u.arrived = t.arrived
  BY <1>1, DecidedIs
<1>3. ASSUME NEW k \in Key
      PROVE  k \in u.refused <=> k \in t.refused \/ (k = key /\ count > Limit(key[1]))
  BY <1>1, DecidedIs
<1>4. ASSUME NEW k \in Key
      PROVE  u.admitted["memory"][k] = t.admitted["memory"][k]
  BY <1>1, DecidedIs
<1>5. ASSUME NEW k \in Key
      PROVE  u.admitted["redis"][k] = IF k = key /\ count <= Limit(key[1]) /\ clock = key[2]
                                       THEN t.admitted["redis"][k] + 1 ELSE t.admitted["redis"][k]
  <2>1. CASE k = key /\ count <= Limit(key[1]) /\ clock = key[2]
    BY <1>1, <2>1, DecidedIs
  <2>2. CASE ~(k = key /\ count <= Limit(key[1]) /\ clock = key[2])
    BY <1>1, <2>2, DecidedIs
  <2> QED BY <2>1, <2>2
<1> QED BY <1>2, <1>3, <1>4, <1>5

\* A request that came in is one more of its key.
LEMMA ArrivedIs ==
  ASSUME tally \in Tally, NEW key \in Key, NEW u, u = Arrived(key)
  PROVE  /\ u \in Tally /\ u.requests = tally.requests + 1
         /\ u.refused = tally.refused /\ u.admitted = tally.admitted
         /\ u.late = tally.late /\ u.carried = tally.carried
         /\ \A k \in Key : u.arrived[k] = IF k = key THEN tally.arrived[k] + 1 ELSE tally.arrived[k]
<1> DEFINE next == [tally.arrived EXCEPT ![key] = tally.arrived[key] + 1]
<1>1. tally.arrived \in [Key -> Nat]
  BY DEF Tally
<1>2. /\ next \in [Key -> Nat]
      /\ \A k \in Key : next[k] = IF k = key THEN tally.arrived[k] + 1 ELSE tally.arrived[k]
  BY <1>1
<1>3. u = [tally EXCEPT !.requests = tally.requests + 1, !.arrived = next]
  BY <1>1 DEF Arrived, Tally
<1> HIDE DEF next
<1>5. tally.requests + 1 \in Nat
  BY DEF Tally
<1>4. /\ u \in Tally /\ u.requests = tally.requests + 1 /\ u.arrived = next
      /\ u.refused = tally.refused /\ u.admitted = tally.admitted
      /\ u.late = tally.late /\ u.carried = tally.carried
  BY <1>2, <1>3, <1>5 DEF Tally
<1> QED BY <1>2, <1>4

\* A count in memory; a count that is dropped is of a window that is over.
LEMMA CountInMemoryIs ==
  ASSUME memory \in [Key -> Nat], NEW t \in Tally, NEW key \in Key, CountInMemory(t, key)
  PROVE  /\ memory' \in [Key -> Nat] /\ memory'[key] = memory[key] + 1
         /\ \A k \in Key : k # key => /\ memory'[k] <= memory[k]
                                      /\ k[2] >= key[2] => memory'[k] = memory[k]
         /\ tally' = Decided(t, key, "memory", memory[key] + 1)
<1>1. /\ memory' = [k \in Key |-> IF k = key THEN memory[key] + 1
                                  ELSE IF k[2] >= key[2] - 1 THEN memory[k] ELSE 0]
      /\ tally' = Decided(t, key, "memory", memory[key] + 1)
  BY DEF CountInMemory
<1>2. \A k \in Key : k[2] \in Nat
  BY KeyTypes
<1> QED BY <1>1, <1>2

\* What counting a request in memory does to the numbers of a key.
LEMMA CountedInMemory ==
  ASSUME LimiterShape, NEW t \in Tally, NEW key \in Key, CountInMemory(t, key), NEW k \in Key
  PROVE  /\ memory' \in [Key -> Nat]
         /\ tally' \in Tally /\ tally'.requests = t.requests /\ tally'.arrived = t.arrived
         /\ memory'[key] = memory[key] + 1
         /\ k # key => /\ memory'[k] <= memory[k]
                       /\ k[2] >= key[2] => memory'[k] = memory[k]
         /\ k \in tally'.refused <=> k \in t.refused \/ (k = key /\ memory[key] + 1 > Limit(key[1]))
         /\ tally'.admitted["redis"][k] = t.admitted["redis"][k]
         /\ tally'.admitted["memory"][k] =
              IF k = key /\ memory[key] + 1 <= Limit(key[1]) /\ clock = key[2]
              THEN t.admitted["memory"][k] + 1 ELSE t.admitted["memory"][k]
<1> DEFINE count == memory[key] + 1
<1>0. clock \in Window
  BY DEF LimiterShape
<1>1. memory \in [Key -> Nat]
  BY DEF LimiterShape
<1>2. /\ memory' \in [Key -> Nat] /\ memory'[key] = memory[key] + 1
      /\ k # key => /\ memory'[k] <= memory[k]
                    /\ k[2] >= key[2] => memory'[k] = memory[k]
  BY <1>1, CountInMemoryIs
<1>3. tally' = Decided(t, key, "memory", count)
  BY <1>1, CountInMemoryIs
<1>4. count \in Nat
  BY <1>1
<1> HIDE DEF count
<1>5. tally' \in Tally /\ tally'.requests = t.requests /\ tally'.arrived = t.arrived
  BY <1>0, <1>3, <1>4, DecidedInMemory
<1>6. k \in tally'.refused <=> k \in t.refused \/ (k = key /\ count > Limit(key[1]))
  BY <1>0, <1>3, <1>4, DecidedInMemory
<1>7. tally'.admitted["redis"][k] = t.admitted["redis"][k]
  BY <1>0, <1>3, <1>4, DecidedInMemory
<1>8. tally'.admitted["memory"][k] =
        IF k = key /\ count <= Limit(key[1]) /\ clock = key[2]
        THEN t.admitted["memory"][k] + 1 ELSE t.admitted["memory"][k]
  <2>1. CASE k = key /\ count <= Limit(key[1]) /\ clock = key[2]
    BY <1>0, <1>3, <1>4, <2>1, DecidedInMemory
  <2>2. CASE ~(k = key /\ count <= Limit(key[1]) /\ clock = key[2])
    BY <1>0, <1>3, <1>4, <2>2, DecidedInMemory
  <2> QED BY <2>1, <2>2
<1> QED BY <1>2, <1>5, <1>6, <1>7, <1>8 DEF count

\* Calls that are left alone stay in their sets.
LEMMA CallsUnchanged ==
  ASSUME LimiterShape, UNCHANGED calls, NEW key \in Key
  PROVE  /\ Waiting(key)' = Waiting(key) /\ Uncounted(key)' = Uncounted(key)
         /\ Expiring(key)' = Expiring(key)
         /\ Cardinality(Waiting(key)) \in Nat /\ Cardinality(Uncounted(key)) \in Nat
<1>1. Waiting(key) \in SUBSET Calls /\ Uncounted(key) \in SUBSET Calls
  BY DEF Waiting, Uncounted
<1>2. IsFiniteSet(Waiting(key)) /\ IsFiniteSet(Uncounted(key))
  BY <1>1, FS_Subset, LimiterConstants
<1> QED BY <1>2, FS_CardinalityType DEF Waiting, Uncounted, Expiring

\* The numbers a step of a key's counts is about.
LEMMA KeyNumbers ==
  ASSUME CountsInv, NEW key \in Key
  PROVE  /\ shared[key] \in Nat /\ memory[key] \in Nat /\ tally.arrived[key] \in Nat
         /\ tally.requests \in Nat /\ Limit(key[1]) \in Nat /\ clock \in Nat /\ key[2] \in Nat
         /\ tally.admitted["redis"][key] \in Nat /\ tally.admitted["memory"][key] \in Nat
         /\ Store = {"redis", "memory"} /\ tally \in Tally
         /\ KeyIsSound(key) /\ Expiring(key) \subseteq Calls
BY KeyTypes DEF CountsInv, LimiterShape, Tally, Store, Window, Expiring

(***************************************************************************)
(* The steps                                                               *)
(***************************************************************************)

\* The tally of a window that begins.
LEMMA TickedTally ==
  ASSUME LimiterShape, Tick
  PROVE  /\ tally' \in Tally /\ tally'.requests = tally.requests /\ tally'.arrived = tally.arrived
         /\ tally'.refused = tally.refused /\ tally'.admitted = tally.admitted
         /\ tally'.late = tally.late
         /\ \A key \in Key : tally'.carried[key] = IF key[2] = clock + 1 THEN Cardinality(Held(key[1]))
                                                   ELSE tally.carried[key]
<1> DEFINE carried == [key \in Key |-> IF key[2] = clock + 1 THEN Cardinality(Held(key[1]))
                                        ELSE tally.carried[key]]
<1>1. tally \in Tally /\ tally' = [tally EXCEPT !.carried = carried]
  BY DEF Tick, LimiterShape
<1>2. \A bucket : Cardinality(Held(bucket)) \in Nat
  <2>1. \A bucket : Held(bucket) \in SUBSET Calls
    BY DEF Held
  <2> QED BY <2>1, FS_Subset, FS_CardinalityType, LimiterConstants
<1>3. carried \in [Key -> Nat]
  BY <1>1, <1>2 DEF Tally
<1>4. \A key \in Key : carried[key] = IF key[2] = clock + 1 THEN Cardinality(Held(key[1]))
                                     ELSE tally.carried[key]
  OBVIOUS
<1> HIDE DEF carried
<1>5. /\ tally' \in Tally /\ tally'.requests = tally.requests /\ tally'.arrived = tally.arrived
      /\ tally'.refused = tally.refused /\ tally'.admitted = tally.admitted
      /\ tally'.late = tally.late /\ tally'.carried = carried
  BY <1>1, <1>3 DEF Tally
<1> QED BY <1>4, <1>5

\* Time passes: fewer windows last.
LEMMA TickInv ==
  ASSUME CountsInv, Tick
  PROVE  CountsInv'
<1>1. /\ clock < MaxWindow /\ clock' = clock + 1 /\ UNCHANGED <<calls, shared, memory>>
      /\ clock \in Window /\ MaxWindow \in Nat /\ LimiterShape
  BY LimiterConstants DEF Tick, CountsInv, LimiterShape
<1>2. /\ tally' \in Tally /\ tally'.requests = tally.requests /\ tally'.arrived = tally.arrived
      /\ tally'.refused = tally.refused /\ tally'.admitted = tally.admitted
  BY <1>1, TickedTally
<1>3. LimiterShape'
  BY <1>1, <1>2 DEF LimiterShape, Window
<1>4. CallsAreDue'
  BY <1>1, KeyTypes DEF CountsInv, LimiterShape, CallsAreDue, Window, Call
<1>5. ASSUME NEW key \in Key PROVE KeyIsSound(key)'
  BY <1>1, <1>2, KeyNumbers, CallsUnchanged DEF KeyIsSound, CountsAreBacked, AdmittedAreCounted
<1> QED BY <1>3, <1>4, <1>5 DEF CountsInv

\* A request is sent to Redis, or counted in memory at once.
LEMMA ArriveInv ==
  ASSUME CountsInv, NEW c \in Calls, NEW bucket \in Bucket, Arrive(c, bucket)
  PROVE  CountsInv'
<1> DEFINE key == KeyOf(bucket)
           new == [pc |-> "incr", key |-> key]
<1>1. /\ calls[c].pc = "none" /\ tally.requests < MaxArrivals /\ UNCHANGED <<clock, shared>>
      /\ LimiterShape /\ CallsAreDue
  BY DEF Arrive, CountsInv
<1>2. key \in Key /\ key[2] = clock /\ key = <<bucket, clock>>
  BY <1>1, KeyTypes DEF LimiterShape, KeyOf
<1> HIDE DEF key
<1>3. CASE UNCHANGED memory /\ calls' = [calls EXCEPT ![c] = new] /\ tally' = Arrived(key)
  <2>1. new \in Call /\ new.pc = "incr" /\ new.key = key
    BY <1>2 DEF Call
  <2> HIDE DEF new
  <2>2. LimiterShape'
    <3>1. tally' \in Tally /\ tally'.requests = tally.requests + 1 /\ tally.requests \in Nat
      BY <1>1, <1>2, <1>3, ArrivedIs DEF LimiterShape, Tally
    <3> QED BY <1>1, <1>3, <2>1, <3>1, LimiterConstants DEF LimiterShape
  <2>3. CallsAreDue'
    BY <1>1, <1>2, <1>3, <2>1 DEF LimiterShape, CallsAreDue, Window
  <2>4. ASSUME NEW k \in Key PROVE KeyIsSound(k)'
    <3>1. /\ Cardinality(Waiting(k)) \in Nat /\ Cardinality(Uncounted(k)) \in Nat
          /\ Cardinality(Waiting(k)') = Cardinality(Waiting(k)) + One(k = key)
          /\ Cardinality(Uncounted(k)') = Cardinality(Uncounted(k)) + One(k = key)
          /\ Expiring(k)' = Expiring(k)
      <4>1. c \notin Expiring(k) /\ c \notin Expiring(k)' /\ Expiring(k) \subseteq Calls /\ Expiring(k)' \subseteq Calls
        BY <1>1, <1>3, <2>1 DEF Expiring, LimiterShape
      <4>2. /\ Cardinality(Waiting(k)) \in Nat /\ Cardinality(Uncounted(k)) \in Nat
            /\ Cardinality(Waiting(k)') \in Nat /\ Cardinality(Uncounted(k)') \in Nat
            /\ Cardinality(Waiting(k)') + One(calls[c].pc # "none" /\ calls[c].key = k)
                 = Cardinality(Waiting(k)) + One(new.pc # "none" /\ new.key = k)
            /\ Cardinality(Uncounted(k)') + One(calls[c].pc = "incr" /\ calls[c].key = k)
                 = Cardinality(Uncounted(k)) + One(new.pc = "incr" /\ new.key = k)
            /\ \A d \in Calls : d # c => (d \in Expiring(k)' <=> d \in Expiring(k))
        BY <1>1, <1>3, <2>1, CallStep
      <4>3. Expiring(k)' = Expiring(k)
        BY <4>1, <4>2
      <4> QED BY <1>1, <2>1, <4>2, <4>3 DEF One
    <3>2. /\ tally'.requests = tally.requests + 1 /\ tally'.refused = tally.refused
          /\ tally'.admitted = tally.admitted
          /\ tally'.arrived[k] = IF k = key THEN tally.arrived[k] + 1 ELSE tally.arrived[k]
      BY <1>1, <1>2, <1>3, ArrivedIs DEF LimiterShape
    <3> QED BY <1>1, <1>3, <3>1, <3>2, KeyNumbers DEF KeyIsSound, CountsAreBacked, AdmittedAreCounted, One
  <2> QED BY <2>2, <2>3, <2>4 DEF CountsInv
<1>4. CASE UNCHANGED calls /\ CountInMemory(Arrived(key), key)
  <2> DEFINE tallied == Arrived(key)
  <2>1. /\ tallied \in Tally /\ tallied.requests = tally.requests + 1
        /\ tallied.refused = tally.refused /\ tallied.admitted = tally.admitted
        /\ \A k \in Key : tallied.arrived[k] = IF k = key THEN tally.arrived[k] + 1 ELSE tally.arrived[k]
    BY <1>1, <1>2, ArrivedIs DEF LimiterShape
  <2> HIDE DEF tallied
  <2>2. CountInMemory(tallied, key)
    BY <1>4 DEF tallied
  <2>3. /\ memory' \in [Key -> Nat] /\ tally' \in Tally
        /\ tally'.requests = tallied.requests /\ tally'.arrived = tallied.arrived
    BY <1>1, <1>2, <2>1, <2>2, CountedInMemory
  <2>5. LimiterShape' /\ CallsAreDue'
    BY <1>1, <1>4, <2>1, <2>3, LimiterConstants DEF LimiterShape, CallsAreDue, Tally
  <2>6. ASSUME NEW k \in Key PROVE KeyIsSound(k)'
    <3>1. /\ memory'[key] = memory[key] + 1
          /\ k # key => memory'[k] <= memory[k] /\ (k[2] >= key[2] => memory'[k] = memory[k])
          /\ k \in tally'.refused <=> k \in tallied.refused \/ (k = key /\ memory[key] + 1 > Limit(key[1]))
          /\ tally'.admitted["redis"][k] = tallied.admitted["redis"][k]
          /\ tally'.admitted["memory"][k] =
               IF k = key /\ memory[key] + 1 <= Limit(key[1]) /\ clock = key[2]
               THEN tallied.admitted["memory"][k] + 1 ELSE tallied.admitted["memory"][k]
      BY <1>1, <1>2, <2>1, <2>2, CountedInMemory
    <3>2. tally'.arrived[k] = IF k = key THEN tally.arrived[k] + 1 ELSE tally.arrived[k]
      BY <2>1, <2>3
    <3>3. /\ Waiting(k)' = Waiting(k) /\ Uncounted(k)' = Uncounted(k) /\ Expiring(k)' = Expiring(k)
          /\ Cardinality(Waiting(k)) \in Nat /\ Cardinality(Uncounted(k)) \in Nat
      BY <1>1, <1>4, CallsUnchanged
    <3>4. CountsAreBacked(k)'
      BY <1>1, <2>1, <2>3, <3>1, <3>2, <3>3, KeyNumbers DEF KeyIsSound, CountsAreBacked, LimiterShape
    <3>5. AdmittedAreCounted(k)'
      BY <1>1, <1>2, <2>1, <2>3, <3>1, <3>2, <3>3, KeyNumbers DEF KeyIsSound, AdmittedAreCounted, LimiterShape
    <3> QED BY <3>4, <3>5 DEF KeyIsSound
  <2> QED BY <2>5, <2>6 DEF CountsInv
<1> QED BY <1>2, <1>3, <1>4 DEF Arrive, key
\* What a decision on a count in Redis does to the numbers of a key.
LEMMA CountedInRedis ==
  ASSUME clock \in Window, tally \in Tally, NEW key \in Key, NEW count \in Nat,
         tally' = Decided(tally, key, "redis", count), NEW k \in Key
  PROVE  /\ tally' \in Tally /\ tally'.requests = tally.requests /\ tally'.arrived = tally.arrived
         /\ k \in tally'.refused <=> k \in tally.refused \/ (k = key /\ count > Limit(key[1]))
         /\ tally'.admitted["memory"][k] = tally.admitted["memory"][k]
         /\ tally'.admitted["redis"][k] =
              IF k = key /\ count <= Limit(key[1]) /\ clock = key[2]
              THEN tally.admitted["redis"][k] + 1 ELSE tally.admitted["redis"][k]
<1>1. tally' \in Tally /\ tally'.requests = tally.requests /\ tally'.arrived = tally.arrived
  BY DecidedInRedis
<1>2. k \in tally'.refused <=> k \in tally.refused \/ (k = key /\ count > Limit(key[1]))
  BY DecidedInRedis
<1>3. tally'.admitted["memory"][k] = tally.admitted["memory"][k]
  BY DecidedInRedis
<1>4. tally'.admitted["redis"][k] =
        IF k = key /\ count <= Limit(key[1]) /\ clock = key[2]
        THEN tally.admitted["redis"][k] + 1 ELSE tally.admitted["redis"][k]
  <2>1. CASE k = key /\ count <= Limit(key[1]) /\ clock = key[2]
    BY <2>1, DecidedInRedis
  <2>2. CASE ~(k = key /\ count <= Limit(key[1]) /\ clock = key[2])
    BY <2>2, DecidedInRedis
  <2> QED BY <2>1, <2>2
<1> QED BY <1>1, <1>2, <1>3, <1>4

\* A call that ends leaves the sets of its key.
LEMMA CallEnds ==
  ASSUME LimiterShape, NEW c \in Calls, calls[c].pc # "none",
         calls' = [calls EXCEPT ![c] = NoCall], NEW k \in Key
  PROVE  /\ Cardinality(Waiting(k)) \in Nat /\ Cardinality(Waiting(k)') \in Nat
         /\ Cardinality(Uncounted(k)) \in Nat /\ Cardinality(Uncounted(k)') \in Nat
         /\ Cardinality(Waiting(k)') + One(calls[c].key = k) = Cardinality(Waiting(k))
         /\ Cardinality(Uncounted(k)') + One(calls[c].pc = "incr" /\ calls[c].key = k)
              = Cardinality(Uncounted(k))
         /\ Expiring(k)' = Expiring(k) \ {c}
<1>1. NoCall \in Call /\ NoCall.pc = "none"
  BY KeyTypes
<1>2. /\ Cardinality(Waiting(k)) \in Nat /\ Cardinality(Waiting(k)') \in Nat
      /\ Cardinality(Uncounted(k)) \in Nat /\ Cardinality(Uncounted(k)') \in Nat
      /\ Cardinality(Waiting(k)') + One(calls[c].pc # "none" /\ calls[c].key = k)
           = Cardinality(Waiting(k)) + One(NoCall.pc # "none" /\ NoCall.key = k)
      /\ Cardinality(Uncounted(k)') + One(calls[c].pc = "incr" /\ calls[c].key = k)
           = Cardinality(Uncounted(k)) + One(NoCall.pc = "incr" /\ NoCall.key = k)
      /\ \A d \in Calls : d # c => (d \in Expiring(k)' <=> d \in Expiring(k))
      /\ c \in Expiring(k)' <=> NoCall.pc = "expire" /\ NoCall.key = k
  BY <1>1, CallStep
<1>3. Expiring(k) \subseteq Calls /\ Expiring(k)' \subseteq Calls
  BY DEF Expiring
<1> QED BY <1>1, <1>2, <1>3 DEF One

\* The shape and the due calls after a call ended.
LEMMA EndedShape ==
  ASSUME LimiterShape, CallsAreDue, NEW c \in Calls, calls' = [calls EXCEPT ![c] = NoCall],
         UNCHANGED clock, shared' \in [Key -> Nat], memory' \in [Key -> Nat],
         tally' \in Tally, tally'.requests = tally.requests
  PROVE  LimiterShape' /\ CallsAreDue'
<1>1. NoCall \in Call /\ NoCall.pc = "none"
  BY KeyTypes
<1>2. LimiterShape'
  BY <1>1 DEF LimiterShape
<1>3. CallsAreDue'
  BY <1>1 DEF LimiterShape, CallsAreDue
<1> QED BY <1>2, <1>3

\* EXPIRE answers: the first count of the key is decided on.
LEMMA SetExpiryInv ==
  ASSUME CountsInv, NEW c \in Calls, SetExpiry(c)
  PROVE  CountsInv'
<1> DEFINE key == calls[c].key
<1>0. clock \in Window
  BY DEF CountsInv, LimiterShape
<1>1. /\ calls[c].pc = "expire" /\ calls' = [calls EXCEPT ![c] = NoCall]
      /\ tally' = Decided(tally, key, "redis", 1) /\ UNCHANGED <<clock, shared, memory>>
      /\ LimiterShape /\ CallsAreDue
  BY DEF SetExpiry, CountsInv
<1>2. key \in Key /\ tally \in Tally /\ shared \in [Key -> Nat] /\ memory \in [Key -> Nat]
  BY <1>1 DEF LimiterShape, Call
<1>3. c \in Expiring(key)
  BY <1>1 DEF Expiring
<1> HIDE DEF key
<1>4. LimiterShape' /\ CallsAreDue'
  <2>1. tally' \in Tally /\ tally'.requests = tally.requests
    BY <1>0, <1>1, <1>2, CountedInRedis
  <2>2. shared' \in [Key -> Nat] /\ memory' \in [Key -> Nat]
    BY <1>1, <1>2
  <2> QED BY <1>1, <2>1, <2>2, EndedShape
<1>5. ASSUME NEW k \in Key PROVE KeyIsSound(k)'
  <2>1. /\ tally'.requests = tally.requests /\ tally'.arrived = tally.arrived
        /\ k \in tally'.refused <=> k \in tally.refused \/ (k = key /\ 1 > Limit(key[1]))
        /\ tally'.admitted["memory"][k] = tally.admitted["memory"][k]
        /\ tally'.admitted["redis"][k] =
             IF k = key /\ 1 <= Limit(key[1]) /\ clock = key[2]
             THEN tally.admitted["redis"][k] + 1 ELSE tally.admitted["redis"][k]
    BY <1>0, <1>1, <1>2, CountedInRedis
  <2>2. /\ Cardinality(Waiting(k)) \in Nat /\ Cardinality(Waiting(k)') \in Nat
        /\ Cardinality(Uncounted(k)) \in Nat /\ Cardinality(Uncounted(k)') \in Nat
        /\ Cardinality(Waiting(k)') <= Cardinality(Waiting(k))
        /\ Cardinality(Uncounted(k)') <= Cardinality(Uncounted(k))
        /\ Expiring(k)' = Expiring(k) \ {c}
    <3>1. /\ Cardinality(Waiting(k)) \in Nat /\ Cardinality(Waiting(k)') \in Nat
          /\ Cardinality(Uncounted(k)) \in Nat /\ Cardinality(Uncounted(k)') \in Nat
          /\ Cardinality(Waiting(k)') + One(calls[c].key = k) = Cardinality(Waiting(k))
          /\ Cardinality(Uncounted(k)') + One(calls[c].pc = "incr" /\ calls[c].key = k)
               = Cardinality(Uncounted(k))
          /\ Expiring(k)' = Expiring(k) \ {c}
      BY <1>1, CallEnds
    <3> QED BY <3>1 DEF One
  <2>3. k = key => Expiring(k)' = {} /\ shared[k] > 0
    BY <1>3, <2>2, KeyNumbers DEF KeyIsSound, AdmittedAreCounted
  <2>4. CountsAreBacked(k)'
    BY <1>1, <2>1, <2>2, <2>3, KeyNumbers DEF KeyIsSound, CountsAreBacked
  <2>5. AdmittedAreCounted(k)'
    <3>1. CASE k = key
      BY <1>1, <1>3, <2>1, <2>2, <2>3, <3>1, KeyNumbers DEF KeyIsSound, CountsAreBacked, AdmittedAreCounted
    <3>2. CASE k # key
      BY <1>1, <2>1, <2>2, <3>2, KeyNumbers DEF KeyIsSound, CountsAreBacked, AdmittedAreCounted
    <3> QED BY <3>1, <3>2
  <2> QED BY <2>4, <2>5 DEF KeyIsSound
<1> QED BY <1>4, <1>5 DEF CountsInv

\* The first count of a key: the call goes on to EXPIRE.
LEMMA FirstCountInv ==
  ASSUME CountsInv, NEW c \in Calls, calls[c].pc = "incr", shared[calls[c].key] = 0,
         shared' = [shared EXCEPT ![calls[c].key] = 1],
         calls' = [calls EXCEPT ![c].pc = "expire"], UNCHANGED <<clock, memory, tally>>
  PROVE  CountsInv'
<1> DEFINE key == calls[c].key
           new == [pc |-> "expire", key |-> key]
<1>1. LimiterShape /\ CallsAreDue /\ calls \in [Calls -> Call]
  BY DEF CountsInv, LimiterShape
<1>2. calls[c] \in Call /\ key \in Key /\ calls' = [calls EXCEPT ![c] = new]
  <2>1. calls[c] \in Call
    BY <1>1
  <2>2. key \in Key /\ [calls[c] EXCEPT !.pc = "expire"] = new
    BY <2>1 DEF Call
  <2>3. calls' = [calls EXCEPT ![c] = [calls[c] EXCEPT !.pc = "expire"]]
    OBVIOUS
  <2> HIDE DEF key, new
  <2> QED BY <2>1, <2>2, <2>3
<1>3. new \in Call /\ new.pc = "expire" /\ new.key = key
  BY <1>2 DEF Call
<1>4. /\ shared' = [shared EXCEPT ![key] = 1] /\ shared[key] = 0
      /\ calls[c].pc = "incr" /\ calls[c].key = key
  OBVIOUS
<1> HIDE DEF key, new
<1>5. LimiterShape'
  BY <1>1, <1>2, <1>3, <1>4 DEF LimiterShape
<1>6. CallsAreDue'
  BY <1>1, <1>2, <1>3, <1>4 DEF CallsAreDue
<1>7. ASSUME NEW k \in Key PROVE KeyIsSound(k)'
  <2>1. /\ Cardinality(Waiting(k)) \in Nat /\ Cardinality(Waiting(k)') \in Nat
        /\ Cardinality(Uncounted(k)) \in Nat /\ Cardinality(Uncounted(k)') \in Nat
        /\ Cardinality(Waiting(k)') + One(calls[c].pc # "none" /\ calls[c].key = k)
             = Cardinality(Waiting(k)) + One(new.pc # "none" /\ new.key = k)
        /\ Cardinality(Uncounted(k)') + One(calls[c].pc = "incr" /\ calls[c].key = k)
             = Cardinality(Uncounted(k)) + One(new.pc = "incr" /\ new.key = k)
        /\ \A d \in Calls : d # c => (d \in Expiring(k)' <=> d \in Expiring(k))
        /\ c \in Expiring(k)' <=> new.pc = "expire" /\ new.key = k
    BY <1>1, <1>2, <1>3, CallStep
  <2>2. /\ Cardinality(Waiting(k)') = Cardinality(Waiting(k))
        /\ Cardinality(Uncounted(k)') + One(key = k) = Cardinality(Uncounted(k))
    BY <1>3, <1>4, <2>1 DEF One
  <2>3. c \notin Expiring(k) /\ Expiring(k) \subseteq Calls /\ Expiring(k)' \subseteq Calls
    BY <1>4 DEF Expiring
  <2>4. /\ shared'[k] = IF k = key THEN 1 ELSE shared[k]
        /\ shared[k] \in Nat
    BY <1>1, <1>2, <1>4 DEF LimiterShape
  <2>5. CountsAreBacked(k)'
    BY <1>4, <2>1, <2>2, <2>4, KeyNumbers DEF KeyIsSound, CountsAreBacked, One
  <2>6. AdmittedAreCounted(k)'
    <3>1. CASE k = key
      <4>1. Expiring(k) = {}
        BY <1>4, <3>1, KeyNumbers DEF KeyIsSound, AdmittedAreCounted
      <4>2. Expiring(k)' = {c}
        BY <1>3, <2>1, <2>3, <3>1, <4>1
      <4> QED BY <1>4, <2>4, <3>1, <4>1, <4>2, KeyNumbers DEF KeyIsSound, AdmittedAreCounted
    <3>2. CASE k # key
      <4>1. Expiring(k)' = Expiring(k)
        BY <1>3, <2>1, <2>3, <3>2
      <4> QED BY <1>4, <2>4, <3>2, <4>1, KeyNumbers DEF KeyIsSound, AdmittedAreCounted
    <3> QED BY <3>1, <3>2
  <2> QED BY <2>5, <2>6 DEF KeyIsSound
<1> QED BY <1>5, <1>6, <1>7 DEF CountsInv

\* A later count of a key is decided on at once.
LEMMA LaterCountInv ==
  ASSUME CountsInv, NEW c \in Calls, calls[c].pc = "incr",
         shared' = [shared EXCEPT ![calls[c].key] = shared[calls[c].key] + 1],
         calls' = [calls EXCEPT ![c] = NoCall],
         tally' = Decided(tally, calls[c].key, "redis", shared[calls[c].key] + 1),
         UNCHANGED <<clock, memory>>
  PROVE  CountsInv'
<1> DEFINE key == calls[c].key
           count == shared[key] + 1
<1>0. clock \in Window
  BY DEF CountsInv, LimiterShape
<1>1. LimiterShape /\ CallsAreDue /\ calls \in [Calls -> Call]
  BY DEF CountsInv, LimiterShape
<1>2. /\ calls[c] \in Call /\ key \in Key /\ tally \in Tally
      /\ shared \in [Key -> Nat] /\ memory \in [Key -> Nat]
  BY <1>1 DEF Call, LimiterShape
<1>3. /\ shared' = [shared EXCEPT ![key] = count] /\ calls[c].pc = "incr" /\ calls[c].key = key
      /\ tally' = Decided(tally, key, "redis", count)
      /\ count = shared[key] + 1 /\ count \in Nat
  BY <1>2
<1> HIDE DEF key, count
<1>4. LimiterShape' /\ CallsAreDue'
  <2>1. tally' \in Tally /\ tally'.requests = tally.requests
    BY <1>0, <1>2, <1>3, CountedInRedis
  <2>2. shared' \in [Key -> Nat] /\ memory' \in [Key -> Nat]
    BY <1>2, <1>3
  <2> QED BY <1>1, <2>1, <2>2, EndedShape
<1>5. ASSUME NEW k \in Key PROVE KeyIsSound(k)'
  <2>1. /\ tally'.requests = tally.requests /\ tally'.arrived = tally.arrived
        /\ k \in tally'.refused <=> k \in tally.refused \/ (k = key /\ count > Limit(key[1]))
        /\ tally'.admitted["memory"][k] = tally.admitted["memory"][k]
        /\ tally'.admitted["redis"][k] =
             IF k = key /\ count <= Limit(key[1]) /\ clock = key[2]
             THEN tally.admitted["redis"][k] + 1 ELSE tally.admitted["redis"][k]
    BY <1>0, <1>2, <1>3, CountedInRedis
  <2>2. /\ Cardinality(Waiting(k)) \in Nat /\ Cardinality(Waiting(k)') \in Nat
        /\ Cardinality(Uncounted(k)) \in Nat /\ Cardinality(Uncounted(k)') \in Nat
        /\ Cardinality(Waiting(k)') <= Cardinality(Waiting(k))
        /\ Cardinality(Uncounted(k)') + One(key = k) = Cardinality(Uncounted(k))
        /\ Expiring(k)' = Expiring(k)
    <3>1. /\ Cardinality(Waiting(k)) \in Nat /\ Cardinality(Waiting(k)') \in Nat
          /\ Cardinality(Uncounted(k)) \in Nat /\ Cardinality(Uncounted(k)') \in Nat
          /\ Cardinality(Waiting(k)') + One(calls[c].key = k) = Cardinality(Waiting(k))
          /\ Cardinality(Uncounted(k)') + One(calls[c].pc = "incr" /\ calls[c].key = k)
               = Cardinality(Uncounted(k))
          /\ Expiring(k)' = Expiring(k) \ {c}
      BY <1>1, <1>3, CallEnds
    <3>2. c \notin Expiring(k)
      BY <1>3 DEF Expiring
    <3> QED BY <1>3, <3>1, <3>2 DEF One
  <2>3. shared'[k] = IF k = key THEN count ELSE shared[k]
    BY <1>2, <1>3
  <2>4. CountsAreBacked(k)'
    BY <1>3, <2>1, <2>2, <2>3, KeyNumbers DEF KeyIsSound, CountsAreBacked, One
  <2>5. AdmittedAreCounted(k)'
    <3>1. CASE k = key
      <4>1. Cardinality(Uncounted(k)) >= 1
        BY <2>2, <3>1 DEF One
      <4> QED BY <1>3, <2>1, <2>2, <2>3, <3>1, <4>1, KeyNumbers
              DEF KeyIsSound, CountsAreBacked, AdmittedAreCounted
    <3>2. CASE k # key
      BY <1>3, <2>1, <2>2, <2>3, <3>2, KeyNumbers DEF KeyIsSound, AdmittedAreCounted
    <3> QED BY <3>1, <3>2
  <2> QED BY <2>4, <2>5 DEF KeyIsSound
<1> QED BY <1>4, <1>5 DEF CountsInv

\* INCR answers.
LEMMA IncrementInv ==
  ASSUME CountsInv, NEW c \in Calls, Increment(c)
  PROVE  CountsInv'
<1>1. calls[c].key \in Key /\ shared \in [Key -> Nat]
  BY DEF CountsInv, LimiterShape, Call
<1>2. CASE shared[calls[c].key] + 1 = 1
  <2>1. shared[calls[c].key] = 0
    BY <1>1, <1>2
  <2> QED BY <1>2, <2>1, FirstCountInv DEF Increment
<1>3. CASE shared[calls[c].key] + 1 # 1
  BY <1>3, LaterCountInv DEF Increment
<1> QED BY <1>2, <1>3

\* Redis raises: the call is counted in memory, whether or not it was counted there.
LEMMA RedisRaisesInv ==
  ASSUME CountsInv, NEW c \in Calls, RedisRaises(c)
  PROVE  CountsInv'
<1> DEFINE key == calls[c].key
<1>1. /\ LimiterShape /\ CallsAreDue /\ calls[c].pc # "none" /\ UNCHANGED clock
      /\ calls' = [calls EXCEPT ![c] = NoCall] /\ CountInMemory(tally, key)
  BY DEF RedisRaises, CountsInv
<1>2. /\ key \in Key /\ tally \in Tally /\ shared \in [Key -> Nat]
      /\ key[2] <= clock /\ key[2] \in Nat /\ clock \in Nat
  BY <1>1, KeyTypes DEF LimiterShape, Call, CallsAreDue, Window
<1>3. /\ shared' \in [Key -> Nat]
      /\ \A k \in Key : \/ shared'[k] = shared[k]
                        \/ k = key /\ calls[c].pc = "incr" /\ shared'[k] = shared[k] + 1
  BY <1>2 DEF RedisRaises
<1>4. c \in Waiting(key)
  BY <1>1 DEF Waiting
<1>5. calls[c].key = key
  OBVIOUS
<1> HIDE DEF key
<1>6. LimiterShape' /\ CallsAreDue'
  <2>1. tally' \in Tally /\ tally'.requests = tally.requests /\ memory' \in [Key -> Nat]
    BY <1>1, <1>2, CountedInMemory
  <2> QED BY <1>1, <1>3, <2>1, EndedShape
<1>7. ASSUME NEW k \in Key PROVE KeyIsSound(k)'
  <2>1. /\ tally'.requests = tally.requests /\ tally'.arrived = tally.arrived
        /\ memory'[key] = memory[key] + 1
        /\ k # key => memory'[k] <= memory[k] /\ (k[2] >= key[2] => memory'[k] = memory[k])
        /\ memory' \in [Key -> Nat]
    BY <1>1, <1>2, CountedInMemory
  <2>2. /\ k \in tally'.refused <=> k \in tally.refused \/ (k = key /\ memory[key] + 1 > Limit(key[1]))
        /\ tally'.admitted["redis"][k] = tally.admitted["redis"][k]
        /\ tally'.admitted["memory"][k] =
             IF k = key /\ memory[key] + 1 <= Limit(key[1]) /\ clock = key[2]
             THEN tally.admitted["memory"][k] + 1 ELSE tally.admitted["memory"][k]
    BY <1>1, <1>2, CountedInMemory
  <2>3. /\ Cardinality(Waiting(k)) \in Nat /\ Cardinality(Waiting(k)') \in Nat
        /\ Cardinality(Uncounted(k)) \in Nat /\ Cardinality(Uncounted(k)') \in Nat
        /\ Cardinality(Waiting(k)') + One(calls[c].key = k) = Cardinality(Waiting(k))
        /\ Cardinality(Uncounted(k)') + One(calls[c].pc = "incr" /\ calls[c].key = k)
             = Cardinality(Uncounted(k))
        /\ Expiring(k)' = Expiring(k) \ {c}
    BY <1>1, CallEnds
  <2>4. shared[k] \in Nat /\ shared'[k] \in Nat /\ memory[k] \in Nat /\ memory'[k] \in Nat
    BY <1>2, <1>3, <2>1, KeyNumbers
  <2>5. CountsAreBacked(k)'
    <3>1. CASE k = key
      BY <1>3, <1>5, <2>1, <2>2, <2>3, <2>4, <3>1, KeyNumbers DEF KeyIsSound, CountsAreBacked, One
    <3>2. CASE k # key
      BY <1>3, <1>5, <2>1, <2>2, <2>3, <2>4, <3>2, KeyNumbers DEF KeyIsSound, CountsAreBacked, One
    <3> QED BY <3>1, <3>2
  <2>6. AdmittedAreCounted(k)'
    <3>1. CASE k = key
      <4>1. tally.admitted["memory"][k] <= memory[k] => tally.admitted["memory"][k] + 1 <= tally.arrived[k]
        BY <1>5, <2>3, <3>1, KeyNumbers DEF KeyIsSound, CountsAreBacked, One
      <4> QED BY <1>1, <1>2, <1>3, <2>1, <2>2, <2>3, <2>4, <3>1, <4>1, KeyNumbers
              DEF KeyIsSound, AdmittedAreCounted
    <3>2. CASE k # key
      BY <1>1, <1>2, <1>3, <2>1, <2>2, <2>3, <2>4, <3>2, KeyNumbers DEF KeyIsSound, AdmittedAreCounted
    <3> QED BY <3>1, <3>2
  <2> QED BY <2>5, <2>6 DEF KeyIsSound
<1> QED BY <1>6, <1>7 DEF CountsInv

\* A key that expires is of a window that is over, and nobody waits to expire it.
LEMMA KeyExpiresInv ==
  ASSUME CountsInv, NEW key \in Key, KeyExpires(key)
  PROVE  CountsInv'
<1>1. /\ LimiterShape /\ CallsAreDue /\ clock > key[2] /\ Expiring(key) = {}
      /\ shared' = [shared EXCEPT ![key] = 0] /\ UNCHANGED <<clock, calls, memory, tally>>
  BY DEF KeyExpires, Lapsed, CountsInv, Expiring
<1>2. LimiterShape' /\ CallsAreDue'
  BY <1>1 DEF LimiterShape, CallsAreDue
<1>3. ASSUME NEW k \in Key PROVE KeyIsSound(k)'
  <2>1. shared'[k] = IF k = key THEN 0 ELSE shared[k]
    BY <1>1 DEF LimiterShape
  <2> QED BY <1>1, <2>1, KeyNumbers, CallsUnchanged DEF KeyIsSound, CountsAreBacked, AdmittedAreCounted
<1> QED BY <1>2, <1>3 DEF CountsInv

\* Every step of the limiter keeps the counts.
LEMMA CountsStepInv ==
  ASSUME CountsInv, LimiterNext \/ UNCHANGED limiterVars
  PROVE  CountsInv'
<1>1. ASSUME UNCHANGED limiterVars PROVE CountsInv'
  <2>1. UNCHANGED <<clock, calls, shared, memory, tally>> /\ LimiterShape /\ CallsAreDue
    BY <1>1 DEF limiterVars, CountsInv
  <2>2. ASSUME NEW k \in Key PROVE KeyIsSound(k)'
    BY <2>1, KeyNumbers, CallsUnchanged DEF KeyIsSound, CountsAreBacked, AdmittedAreCounted
  <2> QED BY <2>1, <2>2 DEF CountsInv, LimiterShape, CallsAreDue
<1> QED BY <1>1, TickInv, ArriveInv, IncrementInv, SetExpiryInv, RedisRaisesInv, KeyExpiresInv DEF LimiterNext

(***************************************************************************)
(* What is let in on the count of an earlier window                        *)
(***************************************************************************)

\* The sizes that LateInv is about.
LEMMA LateNumbers ==
  ASSUME LimiterInv, NEW key \in Key
  PROVE  /\ tally \in Tally /\ tally.late[key] \in Nat /\ tally.carried[key] \in Nat
         /\ clock \in Window /\ clock \in Nat /\ key[2] \in Nat /\ key = <<key[1], key[2]>>
         /\ IsFiniteSet(LateCalls(key[1])) /\ Cardinality(LateCalls(key[1])) \in Nat
<1>1. LateCalls(key[1]) \in SUBSET Calls
  BY DEF LateCalls, Held
<1>2. IsFiniteSet(LateCalls(key[1])) /\ Cardinality(LateCalls(key[1])) \in Nat
  BY <1>1, FS_Subset, FS_CardinalityType, LimiterConstants
<1>3. tally \in Tally /\ clock \in Window /\ clock \in Nat
  BY LimiterConstants DEF LimiterInv, CountsInv, LimiterShape, Window
<1>4. key[2] \in Nat /\ key = <<key[1], key[2]>>
  BY KeyTypes DEF Key
<1> QED BY <1>2, <1>3, <1>4 DEF Tally

\* When a window begins, the calls that are held are those that are late in it.
LEMMA TickLate == ASSUME LimiterInv, Tick PROVE LateInv'
<1> SUFFICES ASSUME NEW key \in Key
             PROVE  /\ tally'.late[key] <= tally'.carried[key]
                    /\ clock' = key[2] => tally'.late[key] + Cardinality(LateCalls(key[1])') <= tally'.carried[key]
                    /\ clock' < key[2] => tally'.late[key] = 0
  BY DEF LateInv
<1>1. clock' = clock + 1 /\ calls' = calls /\ LimiterShape /\ CallsAreDue /\ LateInv
  BY DEF Tick, LimiterInv, CountsInv
<1>2. /\ tally'.late = tally.late
      /\ tally'.carried[key] = IF key[2] = clock + 1 THEN Cardinality(Held(key[1])) ELSE tally.carried[key]
  BY <1>1, TickedTally
<1>3. LateCalls(key[1])' = Held(key[1])
  <2>1. Held(key[1])' = Held(key[1]) /\ LateCalls(key[1])' = {c \in Held(key[1]) : calls[c].key[2] < clock + 1}
    BY <1>1 DEF Held, LateCalls
  <2>2. \A c \in Held(key[1]) : calls[c].key[2] <= clock /\ calls[c].key[2] \in Nat /\ clock \in Nat
    BY <1>1, KeyTypes, LateNumbers DEF Held, CallsAreDue, LimiterShape, Call
  <2> QED BY <2>1, <2>2
<1>4. Cardinality(Held(key[1])) \in Nat
  <2>1. Held(key[1]) \in SUBSET Calls
    BY DEF Held
  <2> QED BY <2>1, FS_Subset, FS_CardinalityType, LimiterConstants
<1> QED BY <1>1, <1>2, <1>3, <1>4, LateNumbers DEF LateInv

\* A call that begins or goes on is no later than it was.
LEMMA CallLate ==
  ASSUME LimiterInv, NEW c \in Calls, NEW new \in Call, calls' = [calls EXCEPT ![c] = new],
         clock' = clock, tally'.late = tally.late, tally'.carried = tally.carried,
         new.pc = "none" \/ new.key[2] = clock \/ (calls[c].pc # "none" /\ new.key = calls[c].key)
  PROVE  LateInv'
<1>1. calls \in [Calls -> Call]
  BY DEF LimiterInv, CountsInv, LimiterShape
<1>2. ASSUME NEW key \in Key
      PROVE  /\ LateCalls(key[1])' \subseteq LateCalls(key[1])
             /\ Cardinality(LateCalls(key[1])') \in Nat
             /\ Cardinality(LateCalls(key[1])') <= Cardinality(LateCalls(key[1]))
  <2>1. LateCalls(key[1])' \subseteq LateCalls(key[1])
    <3> SUFFICES ASSUME NEW d \in Calls, calls'[d].pc # "none", calls'[d].key[1] = key[1],
                        calls'[d].key[2] < clock
                 PROVE  d \in LateCalls(key[1])
      BY DEF LateCalls, Held
    <3>1. CASE d = c
      <4>1. calls'[d] = new /\ ~(new.key[2] = clock)
        BY <1>1, <3>1, LateNumbers
      <4> QED BY <3>1, <4>1 DEF LateCalls, Held
    <3>2. CASE d # c
      BY <1>1, <3>2 DEF LateCalls, Held
    <3> QED BY <3>1, <3>2
  <2>2. IsFiniteSet(LateCalls(key[1]))
    BY LateNumbers
  <2> QED BY <2>1, <2>2, FS_Subset, FS_CardinalityType
<1> QED BY <1>2, LateNumbers DEF LimiterInv, LateInv

\* A call that is decided on is no longer held.
LEMMA DecisionLate ==
  ASSUME LimiterInv, NEW c \in Calls, calls[c].pc # "none", calls' = [calls EXCEPT ![c] = NoCall],
         clock' = clock, NEW store, NEW count, tally' = Decided(tally, calls[c].key, store, count)
  PROVE  LateInv'
<1> DEFINE key == calls[c].key
           w == <<key[1], clock>>
<1>1. calls \in [Calls -> Call] /\ NoCall \in Call /\ NoCall.pc = "none"
  BY KeyTypes DEF LimiterInv, CountsInv, LimiterShape
<1>2. key \in Key /\ key[2] <= clock /\ clock \in Window /\ tally \in Tally
  BY <1>1 DEF LimiterInv, CountsInv, CallsAreDue, LimiterShape, Call
<1>3. /\ tally'.carried = tally.carried
      /\ \/ tally'.late = tally.late
         \/ clock # key[2] /\ tally'.late = [tally.late EXCEPT ![w] = tally.late[w] + 1]
  BY <1>2, DecidedLate
<1>4. CASE tally'.late = tally.late
  BY <1>1, <1>3, <1>4, CallLate
<1>5. CASE clock # key[2] /\ tally'.late = [tally.late EXCEPT ![w] = tally.late[w] + 1]
  <2>1. w \in Key /\ w[1] = key[1] /\ w[2] = clock /\ key[2] < clock
    BY <1>2, <1>5, LateNumbers DEF Key
  <2>2. ASSUME NEW k \in Key
        PROVE  /\ LateCalls(k[1])' = LateCalls(k[1]) \ {c}
               /\ k[1] = key[1] => c \in LateCalls(k[1])
    BY <1>1, <2>1 DEF LateCalls, Held
  <2> HIDE DEF key, w
  <2>3. ASSUME NEW k \in Key
        PROVE  /\ tally'.late[k] <= tally'.carried[k]
               /\ clock' = k[2] => tally'.late[k] + Cardinality(LateCalls(k[1])') <= tally'.carried[k]
               /\ clock' < k[2] => tally'.late[k] = 0
    <3>1. /\ Cardinality(LateCalls(k[1])') \in Nat
          /\ Cardinality(LateCalls(k[1])') =
               IF c \in LateCalls(k[1]) THEN Cardinality(LateCalls(k[1])) - 1 ELSE Cardinality(LateCalls(k[1]))
      <4>1. IsFiniteSet(LateCalls(k[1]))
        BY LateNumbers
      <4> QED BY <2>2, <4>1, FS_RemoveElement, FS_CardinalityType
    <3>2. tally'.late[k] = IF k = w THEN tally.late[k] + 1 ELSE tally.late[k]
      BY <1>2, <1>5, <2>1 DEF Tally
    <3>3. CASE k = w
      <4>1. clock = k[2] /\ c \in LateCalls(k[1])
        BY <2>1, <2>2, <3>3
      <4> QED BY <1>3, <3>1, <3>2, <3>3, <4>1, LateNumbers DEF LimiterInv, LateInv
    <3>4. CASE k # w
      BY <1>3, <3>1, <3>2, <3>4, LateNumbers DEF LimiterInv, LateInv
    <3> QED BY <3>3, <3>4
  <2> QED BY <2>3 DEF LateInv
<1> QED BY <1>3, <1>4, <1>5

\* A step that leaves the calls alone.
LEMMA SameLate ==
  ASSUME LimiterInv, UNCHANGED <<clock, calls>>, tally'.late = tally.late, tally'.carried = tally.carried
  PROVE  LateInv'
BY DEF LimiterInv, LateInv, LateCalls, Held

\* A request that is counted in its own window is not late.
LEMMA CountedInTime ==
  ASSUME memory \in [Key -> Nat], NEW t \in Tally, NEW key \in Key, CountInMemory(t, key), clock = key[2]
  PROVE  tally'.late = t.late /\ tally'.carried = t.carried
<1>1. tally' = Decided(t, key, "memory", memory[key] + 1)
  BY CountInMemoryIs
<1>2. \/ tally' = [t EXCEPT !.refused = t.refused \cup {key}]
      \/ tally' = [t EXCEPT !.admitted["memory"][key] = t.admitted["memory"][key] + 1]
  BY <1>1 DEF Decided
<1> QED BY <1>2 DEF Tally

\* A request is late only when the clock goes on before its answer.
LEMMA ArriveLate ==
  ASSUME LimiterInv, NEW c \in Calls, NEW bucket \in Bucket, Arrive(c, bucket)
  PROVE  LateInv'
<1> DEFINE key == <<bucket, clock>>
           new == [pc |-> "incr", key |-> key]
<1>1. /\ clock' = clock /\ clock \in Window /\ KeyOf(bucket) = key
      /\ \/ UNCHANGED memory /\ calls' = [calls EXCEPT ![c] = new] /\ tally' = Arrived(key)
         \/ UNCHANGED calls /\ CountInMemory(Arrived(key), key)
  BY DEF Arrive, KeyOf, LimiterInv, CountsInv, LimiterShape
<1>2. key \in Key /\ key[2] = clock /\ tally \in Tally /\ memory \in [Key -> Nat]
  BY <1>1 DEF Key, LimiterInv, CountsInv, LimiterShape
<1>3. new \in Call /\ new.key = key
  BY <1>2 DEF Call
<1> HIDE DEF key, new
<1>4. Arrived(key) \in Tally /\ Arrived(key).late = tally.late /\ Arrived(key).carried = tally.carried
  BY <1>2, ArrivedIs
<1>5. CASE calls' = [calls EXCEPT ![c] = new] /\ tally' = Arrived(key)
  BY <1>1, <1>2, <1>3, <1>4, <1>5, CallLate
<1>6. CASE UNCHANGED calls /\ CountInMemory(Arrived(key), key)
  <2>1. clock = key[2]
    BY <1>1, <1>2
  <2>2. tally'.late = Arrived(key).late /\ tally'.carried = Arrived(key).carried
    BY <1>2, <1>4, <1>6, <2>1, CountedInTime
  <2> QED BY <1>1, <1>4, <1>6, <2>2, SameLate
<1> QED BY <1>1, <1>5, <1>6

\* INCR answers: the call goes on to EXPIRE, or is decided on.
LEMMA IncrementLate ==
  ASSUME LimiterInv, NEW c \in Calls, Increment(c)
  PROVE  LateInv'
<1> DEFINE count == shared[calls[c].key] + 1
           new == [calls[c] EXCEPT !.pc = "expire"]
<1>1. calls[c].pc = "incr" /\ clock' = clock /\ calls[c] \in Call
  BY DEF Increment, LimiterInv, CountsInv, LimiterShape
<1>2. CASE calls' = [calls EXCEPT ![c].pc = "expire"] /\ UNCHANGED tally
  <2>1. new \in Call /\ new.key = calls[c].key
    BY <1>1 DEF Call
  <2>2. calls' = [calls EXCEPT ![c] = new]
    BY <1>2
  <2> HIDE DEF new
  <2> QED BY <1>1, <1>2, <2>1, <2>2, CallLate
<1>3. CASE calls' = [calls EXCEPT ![c] = NoCall] /\ tally' = Decided(tally, calls[c].key, "redis", count)
  BY <1>1, <1>3, DecisionLate
<1> QED BY <1>2, <1>3 DEF Increment

\* Every step of the limiter.
LEMMA LimiterStepInv ==
  ASSUME LimiterInv, LimiterNext \/ UNCHANGED limiterVars
  PROVE  LimiterInv'
<1>1. CountsInv'
  BY CountsStepInv DEF LimiterInv
<1>2. ASSUME Tick PROVE LateInv'
  BY <1>2, TickLate
<1>3. ASSUME NEW c \in Calls, SetExpiry(c) PROVE LateInv'
  BY <1>3, DecisionLate DEF SetExpiry
<1>4. ASSUME NEW c \in Calls, RedisRaises(c) PROVE LateInv'
  <2>1. /\ calls[c].key \in Key /\ tally \in Tally /\ memory \in [Key -> Nat]
    BY <1>4 DEF LimiterInv, CountsInv, LimiterShape, Call
  <2>2. tally' = Decided(tally, calls[c].key, "memory", memory[calls[c].key] + 1)
    BY <1>4, <2>1, CountInMemoryIs DEF RedisRaises
  <2> QED BY <1>4, <2>2, DecisionLate DEF RedisRaises
<1>5. ASSUME NEW key \in Key, KeyExpires(key) PROVE LateInv'
  BY <1>5, SameLate DEF KeyExpires
<1>6. ASSUME UNCHANGED limiterVars PROVE LateInv'
  BY <1>6, SameLate DEF limiterVars
<1> QED BY <1>1, <1>2, <1>3, <1>4, <1>5, <1>6, ArriveLate, IncrementLate DEF LimiterNext, LimiterInv

\* The limiter starts with nothing counted.
LEMMA LimiterInitInv ==
  ASSUME LimiterInit
  PROVE  LimiterInv
<1>1. NoCall \in Call /\ NoCall.pc = "none" /\ 0 \in Window /\ NoCounts \in [Key -> Nat]
  BY KeyTypes, LimiterConstants DEF NoCounts, Window
<1>2. LimiterShape
  BY <1>1, LimiterConstants DEF LimiterInit, LimiterShape, Tally
<1>3. CallsAreDue
  BY <1>1 DEF LimiterInit, CallsAreDue
<1>4. ASSUME NEW k \in Key PROVE KeyIsSound(k)
  <2>1. Waiting(k) = {} /\ Uncounted(k) = {} /\ Expiring(k) = {}
    BY <1>1 DEF LimiterInit, Waiting, Uncounted, Expiring
  <2>2. Cardinality({}) = 0
    BY FS_EmptySet
  <2>3. NoCounts[k] = 0
    BY DEF NoCounts
  <2> QED BY <2>1, <2>2, <2>3, KeyTypes
          DEF LimiterInit, KeyIsSound, CountsAreBacked, AdmittedAreCounted, Store
<1>5. ASSUME NEW key \in Key
      PROVE  tally.late[key] = 0 /\ tally.carried[key] = 0 /\ LateCalls(key[1]) = {}
  BY <1>1 DEF LimiterInit, NoCounts, LateCalls, Held
<1>6. LateInv
  BY <1>5, FS_EmptySet DEF LateInv
<1> QED BY <1>2, <1>3, <1>4, <1>6 DEF CountsInv, LimiterInv

\* The bounds of the counts, and the limits, follow.
LEMMA LimiterInvImplies ==
  ASSUME LimiterInv
  PROVE  LimiterTypeOK /\ LimitIsKept
<1>0. CountsInv
  BY DEF LimiterInv
<1>1. ASSUME NEW k \in Key
      PROVE  /\ shared[k] \in 0..MaxArrivals /\ memory[k] \in 0..MaxArrivals
             /\ tally.arrived[k] \in 0..MaxArrivals
             /\ \A store \in Store : /\ tally.admitted[store][k] \in 0..MaxArrivals
                                     /\ tally.admitted[store][k] <= Limit(k[1])
             /\ k \in tally.refused => tally.arrived[k] > Limit(k[1])
  <2>1. MaxArrivals \in Nat /\ tally.requests <= MaxArrivals /\ LimiterShape
    BY <1>0, LimiterConstants DEF CountsInv, LimiterShape
  <2>2. /\ Cardinality(Waiting(k)) \in Nat /\ Cardinality(Uncounted(k)) \in Nat
    <3>1. Waiting(k) \in SUBSET Calls /\ Uncounted(k) \in SUBSET Calls
      BY DEF Waiting, Uncounted
    <3> QED BY <3>1, FS_Subset, FS_CardinalityType, LimiterConstants
  <2> QED BY <1>0, <2>1, <2>2, KeyNumbers DEF KeyIsSound, CountsAreBacked, AdmittedAreCounted
<1>2. LimiterTypeOK
  <2>1. /\ clock \in Window /\ calls \in [Calls -> Call] /\ tally \in Tally
        /\ shared \in [Key -> Nat] /\ memory \in [Key -> Nat] /\ tally.requests \in 0..MaxArrivals
    BY <1>0, LimiterConstants DEF CountsInv, LimiterShape, Tally
  <2>2. shared \in [Key -> 0..MaxArrivals] /\ memory \in [Key -> 0..MaxArrivals]
    BY <1>1, <2>1
  <2>3. tally.arrived \in [Key -> 0..MaxArrivals]
    BY <1>1, <2>1 DEF Tally
  <2>4. tally.admitted \in [Store -> [Key -> 0..MaxArrivals]]
    <3>1. tally.admitted \in [Store -> [Key -> Nat]]
      BY <2>1 DEF Tally
    <3>2. ASSUME NEW store \in Store PROVE tally.admitted[store] \in [Key -> 0..MaxArrivals]
      BY <1>1, <3>1
    <3> QED BY <3>1, <3>2
  <2>5. tally \in [requests : 0..MaxArrivals, arrived : [Key -> 0..MaxArrivals], refused : SUBSET Key,
                   admitted : [Store -> [Key -> 0..MaxArrivals]], late : [Key -> Nat],
                   carried : [Key -> Nat]]
    BY <2>1, <2>3, <2>4 DEF Tally
  <2> QED BY <2>1, <2>2, <2>5 DEF LimiterTypeOK, Call
<1>3. LimitIsKept
  <2>1. tally.refused \subseteq Key
    BY <1>0 DEF CountsInv, LimiterShape, Tally
  <2> QED BY <1>1, <2>1 DEF LimitIsKept, LimiterInv, LateInv
<1> QED BY <1>2, <1>3
=============================================================================
