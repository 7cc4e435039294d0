--------------------------- MODULE TTLCacheProofs ---------------------------
(***************************************************************************)
(* Proofs about TTLCache for any callers, keys, TTLs and cap.  The         *)
(* inductive invariant is built in layers, each proved from the ones below *)
(* it: the types and which fields are set when (TypeInv), the agreement of *)
(* the in-flight table with the goroutines that run fn (Flight), the       *)
(* waiters with the call they wait on (Waiting), the entries with the runs *)
(* of fn they come from (Stored).                                          *)
(***************************************************************************)
EXTENDS TTLCache, FiniteSetTheorems, TLAPS

\* A goroutine inside Do has a key, and one that is past fn has an answer.
Asked == \A c \in Callers : pc[c] # "idle" => key[c] \in Keys
Answered == \A c \in Callers : pc[c] \in {"close", "ret"} => got[c] \in Result

TypeInv == TypeOK /\ Asked /\ Answered

\* The in-flight table names exactly the goroutines that run fn.
Registered == \A c \in Callers : pc[c] = "fn" => inflight[key[c]] = c
Accounted ==
  \A k \in Keys : inflight[k] # None => pc[inflight[k]] = "fn" /\ key[inflight[k]] = k

Flight == Registered /\ Accounted

\* Nobody started in the future; a published answer is for the leader's key and
\* is younger than the question of everyone who is waiting for it.
Started == \A c \in Callers : start[c] <= clock
Published ==
  \A c \in Callers : pc[c] = "close" =>
    /\ got[c].key = key[c]
    /\ got[c].at >= start[c]
    /\ \A w \in Callers : pc[w] = "wait" /\ on[w] = c => got[c].at >= start[w]

Waiting == Started /\ NoOrphan /\ Published

\* An entry holds an answer for its own key, and expires its TTL after it was
\* published.
Stored ==
  \A k \in Keys : m[k] # None =>
    /\ m[k].val.key = k
    /\ m[k].expires = m[k].val.at + TTL[m[k].val.out]

-----------------------------------------------------------------------------

\* What one store can do to an entry: leave it, drop it, or set the key that
\* was asked for; the entry it sets is live.
LEMMA StoreEffect ==
  ASSUME TypeOK, NEW v \in Result, Store(v)
  PROVE  /\ m' \in [Keys -> Entry \cup {None}]
         /\ \A k \in Keys :
              \/ m'[k] = m[k]
              \/ m'[k] = None
              \/ /\ k = v.key
                 /\ m'[k] = [val |-> v, expires |-> clock + TTL[v.out]]
  <1> DEFINE e == [val |-> v, expires |-> clock + TTL[v.out]]
             f == [m EXCEPT ![v.key] = e]
  <1>1. clock + TTL[v.out] \in Int
    BY CacheAssumption DEF TypeOK, Time, Result
  <1>2. e \in Entry
    BY <1>1 DEF Entry
  <1>3. f \in [Keys -> Entry \cup {None}]
    BY <1>2 DEF TypeOK, Result
  <1>4. CASE TTL[v.out] > 0
    <2>1. PICK s \in Survivors(f) : m' = [k \in Keys |-> IF k \in s THEN f[k] ELSE None]
      BY <1>4 DEF Store
    <2> QED
      BY <2>1, <1>3 DEF TypeOK, Result
  <1>5. CASE ~ (TTL[v.out] > 0)
    BY <1>5 DEF Store, TypeOK
  <1> QED
    BY <1>4, <1>5

-----------------------------------------------------------------------------
(* The types *)

LEMMA TypeInvInit == Init => TypeInv
  BY CacheAssumption DEF Init, TypeInv, TypeOK, Asked, Answered, Time

LEMMA TypeInvNext == TypeInv /\ [Next]_vars => TypeInv'
  <1> SUFFICES ASSUME TypeInv, [Next]_vars PROVE TypeInv'
    OBVIOUS
  <1> USE DEF TypeInv, TypeOK, Asked, Answered
  <1>1. ASSUME NEW c \in Callers, NEW k \in Keys, Hit(c, k) PROVE TypeInv'
    <2>1. m[k].val \in Result
      BY <1>1 DEF Hit, Live, Entry
    <2> QED
      BY <1>1, <2>1 DEF Hit
  <1>2. ASSUME NEW c \in Callers, NEW k \in Keys, Join(c, k) PROVE TypeInv'
    BY <1>2 DEF Join
  <1>3. ASSUME NEW c \in Callers, NEW k \in Keys, Lead(c, k) PROVE TypeInv'
    BY <1>3 DEF Lead
  <1>4. ASSUME NEW c \in Callers, NEW o \in Outcomes, Publish(c, o) PROVE TypeInv'
    <2> DEFINE v == [key |-> key[c], out |-> o, at |-> clock]
    <2>1. v \in Result
      BY <1>4 DEF Publish, Result
    <2>2. m' \in [Keys -> Entry \cup {None}]
      BY <1>4, <2>1, StoreEffect DEF Publish
    <2> QED
      BY <1>4, <2>1, <2>2 DEF Publish
  <1>5. ASSUME NEW c \in Callers, Close(c) PROVE TypeInv'
    BY <1>5 DEF Close
  <1>6. ASSUME NEW c \in Callers, Return(c) PROVE TypeInv'
    BY <1>6, CacheAssumption DEF Return, Time
  <1>7. ASSUME Tick PROVE TypeInv'
    BY <1>7, CacheAssumption DEF Tick, Time
  <1>8. ASSUME UNCHANGED vars PROVE TypeInv'
    BY <1>8 DEF vars
  <1> QED
    BY <1>1, <1>2, <1>3, <1>4, <1>5, <1>6, <1>7, <1>8 DEF Next, Call, Progress

\* TTLCache!TypeOK in every reachable state: the fields of a goroutine and of
\* an entry are set exactly when Do sets them.
THEOREM TypeCorrect == Spec => []TypeOK
  <1>1. TypeInv => TypeOK
    BY DEF TypeInv
  <1> QED
    BY <1>1, TypeInvInit, TypeInvNext, PTL DEF Spec

-----------------------------------------------------------------------------
(* The in-flight table *)

LEMMA FlightInit == Init => Flight
  BY DEF Init, Flight, Registered, Accounted

LEMMA FlightNext == TypeInv /\ Flight /\ [Next]_vars => Flight'
  <1> SUFFICES ASSUME TypeInv, Flight, [Next]_vars PROVE Flight'
    OBVIOUS
  <1> USE CacheAssumption
      DEF TypeInv, TypeOK, Asked, Flight, Registered, Accounted
  <1>1. ASSUME NEW c \in Callers, NEW k \in Keys, Hit(c, k) PROVE Flight'
    BY <1>1 DEF Hit
  <1>2. ASSUME NEW c \in Callers, NEW k \in Keys, Join(c, k) PROVE Flight'
    BY <1>2 DEF Join
  <1>3. ASSUME NEW c \in Callers, NEW k \in Keys, Lead(c, k) PROVE Flight'
    BY <1>3 DEF Lead
  <1>4. ASSUME NEW c \in Callers, NEW o \in Outcomes, Publish(c, o) PROVE Flight'
    BY <1>4 DEF Publish
  <1>5. ASSUME NEW c \in Callers, Close(c) PROVE Flight'
    BY <1>5 DEF Close
  <1>6. ASSUME NEW c \in Callers, Return(c) PROVE Flight'
    BY <1>6 DEF Return
  <1>7. ASSUME Tick PROVE Flight'
    BY <1>7 DEF Tick
  <1>8. ASSUME UNCHANGED vars PROVE Flight'
    BY <1>8 DEF vars
  <1> QED
    BY <1>1, <1>2, <1>3, <1>4, <1>5, <1>6, <1>7, <1>8 DEF Next, Call, Progress

LEMMA FlightSingle == TypeInv /\ Flight => SingleFlight
  BY DEF TypeInv, TypeOK, Asked, Flight, Registered, SingleFlight

\* TTLCache!SingleFlight in every reachable state: the registration and the
\* removal of a call are in different critical sections of Do, and between
\* them the table lets nobody else run fn for the key.
THEOREM SingleFlightCorrect == Spec => []SingleFlight
  <1>1. Init => TypeInv /\ Flight
    BY TypeInvInit, FlightInit
  <1>2. TypeInv /\ Flight /\ [Next]_vars => (TypeInv /\ Flight)'
    BY TypeInvNext, FlightNext
  <1> QED
    BY <1>1, <1>2, FlightSingle, PTL DEF Spec

-----------------------------------------------------------------------------
(* The waiters *)

LEMMA WaitingInit == Init => Waiting
  BY DEF Init, Waiting, Started, NoOrphan, Published

LEMMA WaitingNext == TypeInv /\ Flight /\ Waiting /\ [Next]_vars => Waiting'
  <1> SUFFICES ASSUME TypeInv, Flight, Waiting, [Next]_vars PROVE Waiting'
    OBVIOUS
  <1>0. clock \in Int /\ \A c \in Callers : start[c] \in Int
    BY DEF TypeInv, TypeOK, Time
  <1> USE CacheAssumption, <1>0
      DEF TypeInv, TypeOK, Asked, Waiting, Started, NoOrphan, Published
  <1>1. ASSUME NEW c \in Callers, NEW k \in Keys, Hit(c, k) PROVE Waiting'
    BY <1>1 DEF Hit
  <1>2. ASSUME NEW c \in Callers, NEW k \in Keys, Join(c, k) PROVE Waiting'
    <2>1. pc[inflight[k]] = "fn" /\ key[inflight[k]] = k /\ inflight[k] \in Callers
      BY <1>2 DEF Join, Flight, Accounted
    <2> QED
      BY <1>2, <2>1 DEF Join
  <1>3. ASSUME NEW c \in Callers, NEW k \in Keys, Lead(c, k) PROVE Waiting'
    BY <1>3 DEF Lead
  <1>4. ASSUME NEW c \in Callers, NEW o \in Outcomes, Publish(c, o) PROVE Waiting'
    <2>1. got'[c].key = key[c] /\ got'[c].at = clock
      BY <1>4 DEF Publish
    <2> QED
      BY <1>4, <2>1 DEF Publish
  <1>5. ASSUME NEW c \in Callers, Close(c) PROVE Waiting'
    BY <1>5 DEF Close
  <1>6. ASSUME NEW c \in Callers, Return(c) PROVE Waiting'
    BY <1>6 DEF Return, Time
  <1>7. ASSUME Tick PROVE Waiting'
    BY <1>7 DEF Tick
  <1>8. ASSUME UNCHANGED vars PROVE Waiting'
    BY <1>8 DEF vars
  <1> QED
    BY <1>1, <1>2, <1>3, <1>4, <1>5, <1>6, <1>7, <1>8 DEF Next, Call, Progress

\* TTLCache!NoOrphan in every reachable state: a goroutine blocked on a done
\* channel always has a leader that has yet to close that very channel.
THEOREM NoOrphanCorrect == Spec => []NoOrphan
  <1> DEFINE I == TypeInv /\ Flight /\ Waiting
  <1>1. Init => I
    BY TypeInvInit, FlightInit, WaitingInit
  <1>2. I /\ [Next]_vars => I'
    BY TypeInvNext, FlightNext, WaitingNext
  <1>3. I => NoOrphan
    BY DEF Waiting
  <1> QED
    BY <1>1, <1>2, <1>3, PTL DEF Spec

-----------------------------------------------------------------------------
(* The entries and the answers *)

LEMMA StoredInit == Init => Stored
  BY DEF Init, Stored

LEMMA StoredNext == TypeInv /\ Stored /\ [Next]_vars => Stored'
  <1> SUFFICES ASSUME TypeInv, Stored, [Next]_vars PROVE Stored'
    OBVIOUS
  <1> USE DEF Stored
  <1>1. ASSUME NEW c \in Callers, NEW o \in Outcomes, Publish(c, o) PROVE Stored'
    <2> DEFINE v == [key |-> key[c], out |-> o, at |-> clock]
    <2>1. v \in Result
      BY <1>1 DEF Publish, Result, TypeInv, TypeOK, Asked
    <2>2. \A k \in Keys :
            \/ m'[k] = m[k]
            \/ m'[k] = None
            \/ k = v.key /\ m'[k] = [val |-> v, expires |-> clock + TTL[v.out]]
      BY <1>1, <2>1, StoreEffect DEF Publish, TypeInv
    <2> QED
      BY <2>2
  <1>2. CASE UNCHANGED m
    BY <1>2
  <1> QED
    BY <1>1, <1>2 DEF Next, Call, Progress, Hit, Join, Lead, Close, Return, Tick, vars

\* An entry is always its key's answer and expires its own TTL after the run of fn
\* that gave it.
THEOREM StoredCorrect == Spec => []Stored
  <1>1. TypeInv /\ Stored /\ [Next]_vars => (TypeInv /\ Stored)'
    BY TypeInvNext, StoredNext
  <1> QED
    BY <1>1, TypeInvInit, StoredInit, PTL DEF Spec

LEMMA QueryInit == Init => NoWastedQuery
  BY DEF Init, NoWastedQuery

LEMMA QueryNext ==
  TypeInv /\ Flight /\ NoWastedQuery /\ [Next]_vars => NoWastedQuery'
  <1> SUFFICES ASSUME TypeInv, Flight, NoWastedQuery, [Next]_vars
               PROVE  NoWastedQuery'
    OBVIOUS
  <1> USE CacheAssumption DEF TypeInv, TypeOK, Asked, NoWastedQuery, Live
  <1>1. ASSUME NEW c \in Callers, NEW k \in Keys, Hit(c, k) PROVE NoWastedQuery'
    BY <1>1 DEF Hit
  <1>2. ASSUME NEW c \in Callers, NEW k \in Keys, Join(c, k) PROVE NoWastedQuery'
    BY <1>2 DEF Join
  <1>3. ASSUME NEW c \in Callers, NEW k \in Keys, Lead(c, k) PROVE NoWastedQuery'
    BY <1>3 DEF Lead
  <1>4. ASSUME NEW c \in Callers, NEW o \in Outcomes, Publish(c, o) PROVE NoWastedQuery'
    <2> DEFINE v == [key |-> key[c], out |-> o, at |-> clock]
    <2>1. v \in Result
      BY <1>4 DEF Publish, Result
    <2>2. \A k \in Keys : k # key[c] => m'[k] = m[k] \/ m'[k] = None
      BY <1>4, <2>1, StoreEffect DEF Publish
    <2>3. \A d \in Callers : pc'[d] = "fn" => d # c /\ pc[d] = "fn" /\ key[d] # key[c]
      BY <1>4 DEF Publish, Flight, Registered
    <2> QED
      BY <1>4, <2>2, <2>3 DEF Publish
  <1>5. ASSUME NEW c \in Callers, Close(c) PROVE NoWastedQuery'
    BY <1>5 DEF Close
  <1>6. ASSUME NEW c \in Callers, Return(c) PROVE NoWastedQuery'
    BY <1>6 DEF Return
  <1>7. ASSUME Tick PROVE NoWastedQuery'
    BY <1>7 DEF Tick, Time, Entry
  <1>8. ASSUME UNCHANGED vars PROVE NoWastedQuery'
    BY <1>8 DEF vars
  <1> QED
    BY <1>1, <1>2, <1>3, <1>4, <1>5, <1>6, <1>7, <1>8 DEF Next, Call, Progress

\* TTLCache!NoWastedQuery in every reachable state: while a goroutine runs fn
\* for a key, no other goroutine can make that key's entry live.
THEOREM NoWastedQueryCorrect == Spec => []NoWastedQuery
  <1> DEFINE I == TypeInv /\ Flight /\ NoWastedQuery
  <1>1. Init => I
    BY TypeInvInit, FlightInit, QueryInit
  <1>2. I /\ [Next]_vars => I'
    BY TypeInvNext, FlightNext, QueryNext
  <1> QED
    BY <1>1, <1>2, PTL DEF Spec

LEMMA FreshInit == Init => Fresh
  BY DEF Init, Fresh

LEMMA FreshNext ==
  TypeInv /\ Waiting /\ Stored /\ Fresh /\ [Next]_vars => Fresh'
  <1> SUFFICES ASSUME TypeInv, Waiting, Stored, Fresh, [Next]_vars
               PROVE  Fresh'
    OBVIOUS
  <1> USE DEF TypeInv, TypeOK, Fresh
  <1>1. ASSUME NEW c \in Callers, NEW k \in Keys, Hit(c, k) PROVE Fresh'
    BY <1>1 DEF Hit, Live, Stored
  <1>2. ASSUME NEW c \in Callers, NEW k \in Keys, Join(c, k) PROVE Fresh'
    BY <1>2 DEF Join
  <1>3. ASSUME NEW c \in Callers, NEW k \in Keys, Lead(c, k) PROVE Fresh'
    BY <1>3 DEF Lead
  <1>4. ASSUME NEW c \in Callers, NEW o \in Outcomes, Publish(c, o) PROVE Fresh'
    BY <1>4 DEF Publish
  <1>5. ASSUME NEW c \in Callers, Close(c) PROVE Fresh'
    BY <1>5 DEF Close, Waiting, Published, NoOrphan
  <1>6. ASSUME NEW c \in Callers, Return(c) PROVE Fresh'
    BY <1>6 DEF Return
  <1>7. ASSUME Tick PROVE Fresh'
    BY <1>7 DEF Tick
  <1>8. ASSUME UNCHANGED vars PROVE Fresh'
    BY <1>8 DEF vars
  <1> QED
    BY <1>1, <1>2, <1>3, <1>4, <1>5, <1>6, <1>7, <1>8 DEF Next, Call, Progress

\* TTLCache!Fresh in every reachable state: hit, waiter or leader, what Do
\* returns answers the caller's own key, and was within its TTL when the
\* caller asked or was produced later than that.
THEOREM FreshCorrect == Spec => []Fresh
  <1> DEFINE I == TypeInv /\ Flight /\ Waiting /\ Stored /\ Fresh
  <1>1. Init => I
    BY TypeInvInit, FlightInit, WaitingInit, StoredInit, FreshInit
  <1>2. I /\ [Next]_vars => I'
    BY TypeInvNext, FlightNext, WaitingNext, StoredNext, FreshNext
  <1> QED
    BY <1>1, <1>2, PTL DEF Spec

-----------------------------------------------------------------------------
(* The cap *)

\* After a store the map holds exactly the survivors of the eviction.
LEMMA StoreCaches ==
  ASSUME TypeOK, NEW v \in Result, TTL[v.out] > 0, Store(v)
  PROVE  LET f == [m EXCEPT ![v.key] = [val |-> v, expires |-> clock + TTL[v.out]]]
         IN  /\ f \in [Keys -> Entry \cup {None}]
             /\ \E s \in Survivors(f) :
                  /\ s \subseteq {k \in Keys : f[k] # None}
                  /\ m' = [k \in Keys |-> IF k \in s THEN f[k] ELSE None]
                  /\ Cached' = s
  <1> DEFINE e == [val |-> v, expires |-> clock + TTL[v.out]]
             f == [m EXCEPT ![v.key] = e]
  <1>1. f \in [Keys -> Entry \cup {None}]
    BY CacheAssumption DEF TypeOK, Time, Result, Entry
  <1>2. PICK s \in Survivors(f) : m' = [k \in Keys |-> IF k \in s THEN f[k] ELSE None]
    BY DEF Store
  <1>3. s \subseteq {k \in Keys : f[k] # None}
    BY <1>2 DEF Survivors
  <1>4. Cached' = s
    BY <1>2, <1>3 DEF Cached
  <1> QED
    BY <1>1, <1>2, <1>3, <1>4

\* The three ways evictLocked can end: within the cap already, within it once
\* the expired entries are gone, or cut down to it.
LEMMA SurvivorsBound ==
  ASSUME NEW f, NEW s \in Survivors(f), Max > 0
  PROVE  Cardinality(s) <= Max
  <1> DEFINE present == {k \in Keys : f[k] # None}
             live == {k \in present : clock < f[k].expires}
  <1>1. CASE Max <= 0 \/ Cardinality(present) <= Max
    <2>1. s = present
      BY <1>1 DEF Survivors
    <2> QED
      BY <1>1, <2>1, CacheAssumption
  <1>2. CASE ~ (Max <= 0 \/ Cardinality(present) <= Max) /\ Cardinality(live) <= Max
    <2>1. s = live
      BY <1>2 DEF Survivors
    <2> QED
      BY <1>2, <2>1
  <1>3. CASE ~ (Max <= 0 \/ Cardinality(present) <= Max) /\ ~ (Cardinality(live) <= Max)
    <2>1. s \in {t \in SUBSET live : Cardinality(t) = Max}
      BY <1>3 DEF Survivors
    <2> QED
      BY <2>1, CacheAssumption
  <1> QED
    BY <1>1, <1>2, <1>3

LEMMA BoundedNext == TypeInv /\ Bounded /\ [Next]_vars => Bounded'
  <1> SUFFICES ASSUME TypeInv, Bounded, [Next]_vars, Max > 0
               PROVE  Cardinality(Cached') <= Max
    BY DEF Bounded
  <1>1. ASSUME NEW c \in Callers, NEW o \in Outcomes, Publish(c, o), TTL[o] > 0
        PROVE  Cardinality(Cached') <= Max
    <2> DEFINE v == [key |-> key[c], out |-> o, at |-> clock]
               f == [m EXCEPT ![v.key] = [val |-> v, expires |-> clock + TTL[v.out]]]
    <2>1. v \in Result /\ Store(v)
      BY <1>1 DEF Publish, Result, TypeInv, TypeOK, Asked
    <2>2. Cached' \in Survivors(f)
      BY <1>1, <2>1, StoreCaches DEF TypeInv
    <2> HIDE DEF f
    <2> QED
      BY <2>2, SurvivorsBound
  <1>2. CASE UNCHANGED m
    BY <1>2 DEF Bounded, Cached
  <1>3. ASSUME NEW c \in Callers, NEW o \in Outcomes, Publish(c, o), ~ (TTL[o] > 0)
        PROVE  UNCHANGED m
    BY <1>3 DEF Publish, Store
  <1> QED
    BY <1>1, <1>2, <1>3 DEF Next, Call, Progress, Hit, Join, Lead, Close, Return, Tick, vars

LEMMA EvictStep ==
  ASSUME TypeInv, [Next]_vars, NEW k \in Keys, Live(k), m'[k] = None
  PROVE  /\ Cardinality(Cached') = Max
         /\ \A j \in Cached' : clock < m'[j].expires
  <1>1. ASSUME NEW c \in Callers, NEW o \in Outcomes, Publish(c, o)
        PROVE  /\ Cardinality(Cached') = Max
               /\ \A j \in Cached' : clock < m'[j].expires
    <2> DEFINE v == [key |-> key[c], out |-> o, at |-> clock]
               f == [m EXCEPT ![v.key] = [val |-> v, expires |-> clock + TTL[v.out]]]
               present == {j \in Keys : f[j] # None}
               live == {j \in present : clock < f[j].expires}
    <2>1. v \in Result /\ Store(v)
      BY <1>1 DEF Publish, Result, TypeInv, TypeOK, Asked
    <2>2. TTL[o] > 0
      BY <2>1 DEF Store, Live
    <2>3. PICK s \in Survivors(f) :
            /\ s \subseteq present
            /\ m' = [j \in Keys |-> IF j \in s THEN f[j] ELSE None]
            /\ Cached' = s
      BY <2>1, <2>2, StoreCaches DEF TypeInv
    <2>4. f \in [Keys -> Entry \cup {None}]
      BY <2>1, <2>2, StoreCaches DEF TypeInv
    <2>5. f[k] # None /\ clock < f[k].expires
      <3>1. CASE k = v.key
        <4>1. f[k] = [val |-> v, expires |-> clock + TTL[v.out]] /\ f[k] # None
          BY <3>1, <2>1, <2>2, CacheAssumption
             DEF TypeInv, TypeOK, Time, Result, Entry
        <4> QED
          BY <4>1, <2>2, CacheAssumption DEF TypeInv, TypeOK, Time
      <3>2. CASE k # v.key
        BY <3>2 DEF Live, TypeInv, TypeOK
      <3> QED
        BY <3>1, <3>2
    <2>6. k \in live /\ k \notin s
      BY <2>3, <2>5
    <2> HIDE DEF f
    <2>7. s \in {t \in SUBSET live : Cardinality(t) = Max}
      BY <2>3, <2>6 DEF Survivors
    <2> QED
      BY <2>3, <2>7
  <1> QED
    BY <1>1 DEF Next, Call, Progress, Hit, Join, Lead, Close, Return, Tick, vars, Live

\* TTLCache!EvictLiveLast for every step: a live entry goes only when the map
\* is left full, and with live entries alone.
THEOREM EvictLiveLastCorrect == Spec => EvictLiveLast
  <1>1. TypeInv /\ [Next]_vars =>
          [ (\E k \in Keys : Live(k) /\ m'[k] = None) =>
              /\ Cardinality(Cached') = Max
              /\ \A k \in Cached' : clock < m'[k].expires ]_vars
    BY EvictStep
  <1> QED
    BY <1>1, TypeInvInit, TypeInvNext, PTL DEF Spec, EvictLiveLast

\* TTLCache!Bounded in every reachable state: every insertion is followed by
\* an eviction in the same critical section, so the map never exceeds its cap.
THEOREM BoundedCorrect == Spec => []Bounded
  <1> DEFINE I == TypeInv /\ Bounded
  <1>1. Init => I
    <2>1. Init => Cached = {}
      BY DEF Init, Cached
    <2> QED
      BY <2>1, TypeInvInit, FS_EmptySet, CacheAssumption DEF Bounded
  <1>2. I /\ [Next]_vars => I'
    BY TypeInvNext, BoundedNext
  <1> QED
    BY <1>1, <1>2, PTL DEF Spec

-----------------------------------------------------------------------------
(* The service *)

Inv == TypeInv /\ Flight /\ Waiting /\ Stored /\ Fresh

\* The answers the cache can still give grow by nothing but what is published.
LEMMA KnownShrinks ==
  ASSUME TypeInv, NEW c \in Callers, NEW o \in Outcomes, Publish(c, o)
  PROVE  known' \subseteq known \cup {[key |-> key[c], out |-> o, at |-> clock]}
  <1> DEFINE v == [key |-> key[c], out |-> o, at |-> clock]
  <1>1. v \in Result
    BY DEF Publish, Result, TypeInv, TypeOK, Asked
  <1>2. ASSUME NEW k \in Cached'
        PROVE  (k \in Cached /\ m'[k].val = m[k].val) \/ m'[k].val = v
    <2>1. Store(v)
      BY DEF Publish
    <2>2. k \in Keys /\ m'[k] # None
      BY DEF Cached
    <2>3. m'[k] = m[k] \/ m'[k] = [val |-> v, expires |-> clock + TTL[v.out]]
      BY <1>1, <2>1, <2>2, StoreEffect DEF TypeInv
    <2> QED
      BY <2>2, <2>3 DEF Cached
  <1>3. \A d \in Callers : d # c => pc'[d] = pc[d] /\ got'[d] = got[d]
    BY DEF Publish, TypeInv, TypeOK
  <1>4. got'[c] = v
    BY DEF Publish, TypeInv, TypeOK
  <1> QED
    BY <1>2, <1>3, <1>4 DEF known

\* A step of a critical section is a step of the service, or none.
LEMMA ServiceStep == Inv /\ [Next]_vars => [Service!Next]_(Service!vars)
  <1> SUFFICES ASSUME Inv, [Next]_vars PROVE [Service!Next]_(Service!vars)
    OBVIOUS
  <1> USE CacheAssumption DEF Inv, TypeInv, TypeOK
  <1>1. ASSUME NEW c \in Callers, NEW k \in Keys, Hit(c, k) PROVE Service!Ask(c, k)
    <2>1. pending[c] = None /\ pending' = [pending EXCEPT ![c] = [key |-> k, asked |-> clock]]
      BY <1>1 DEF Hit, pending
    <2>2. running' = running
      BY <1>1 DEF Hit, running
    <2>3. known' = known
      BY <1>1 DEF Hit, known, Cached, Live
    <2> QED
      BY <1>1, <2>1, <2>2, <2>3 DEF Hit, Service!Ask
  <1>2. ASSUME NEW c \in Callers, NEW k \in Keys, Join(c, k) PROVE Service!Ask(c, k)
    <2>1. pending[c] = None /\ pending' = [pending EXCEPT ![c] = [key |-> k, asked |-> clock]]
      BY <1>2 DEF Join, pending
    <2>2. running' = running
      BY <1>2 DEF Join, running
    <2>3. known' = known
      BY <1>2 DEF Join, known, Cached
    <2> QED
      BY <1>2, <2>1, <2>2, <2>3 DEF Join, Service!Ask
  <1>3. ASSUME NEW c \in Callers, NEW k \in Keys, Lead(c, k) PROVE Service!Ask(c, k)
    <2>1. pending[c] = None /\ pending' = [pending EXCEPT ![c] = [key |-> k, asked |-> clock]]
      BY <1>3 DEF Lead, pending
    <2>2. ~ running[k]
      BY <1>3 DEF Lead, running, Flight, Registered
    <2>3. running' = [running EXCEPT ![k] = TRUE]
      BY <1>3 DEF Lead, running
    <2>4. known' = known
      BY <1>3 DEF Lead, known, Cached
    <2> QED
      BY <1>3, <2>1, <2>2, <2>3, <2>4 DEF Lead, Service!Ask
  <1>4. ASSUME NEW c \in Callers, NEW o \in Outcomes, Publish(c, o)
        PROVE  Service!Finish(key[c], o)
    <2>1. key[c] \in Keys /\ running[key[c]]
      BY <1>4 DEF Publish, running, Asked
    <2>2. \A d \in Callers : pc'[d] = "fn" <=> d # c /\ pc[d] = "fn"
      BY <1>4 DEF Publish
    <2>3. \A d \in Callers : d # c /\ pc[d] = "fn" => key[d] # key[c]
      BY <1>4 DEF Publish, Flight, Registered
    <2>4. running' = [running EXCEPT ![key[c]] = FALSE]
      BY <1>4, <2>1, <2>2, <2>3 DEF Publish, running
    <2>5. pending' = pending
      BY <1>4 DEF Publish, pending
    <2> QED
      BY <1>4, <2>1, <2>4, <2>5, KnownShrinks DEF Publish, Service!Finish
  <1>5. ASSUME NEW c \in Callers, Close(c) PROVE UNCHANGED Service!vars
    <2>1. pending' = pending /\ running' = running
      BY <1>5 DEF Close, pending, running
    <2>2. known' = known
      BY <1>5 DEF Close, known, Cached
    <2> QED
      BY <1>5, <2>1, <2>2 DEF Close, Service!vars
  <1>6. ASSUME NEW c \in Callers, Return(c) PROVE Service!Return(c)
    <2>1. pending[c] = [key |-> key[c], asked |-> start[c]]
      BY <1>6 DEF Return, pending
    <2>2. got[c] \in known /\ Service!Answers(got[c], pending[c])
      BY <1>6, <2>1 DEF Return, known, Fresh, Service!Answers
    <2>3. pending' = [pending EXCEPT ![c] = None]
      BY <1>6 DEF Return, pending
    <2>4. pending[c] \in Question
      BY <1>6, <2>1 DEF Return, Question, Asked
    <2>5. running' = running
      BY <1>6 DEF Return, running
    <2>6. known' \subseteq known
      BY <1>6 DEF Return, known, Cached
    <2> QED
      BY <1>6, <2>2, <2>3, <2>4, <2>5, <2>6 DEF Return, Service!Return
  <1>7. ASSUME Tick PROVE Service!Tick
    BY <1>7 DEF Tick, Service!Tick, pending, running, known, Cached
  <1>8. ASSUME UNCHANGED vars PROVE UNCHANGED Service!vars
    BY <1>8 DEF vars, Service!vars, pending, running, known, Cached
  <1>9. ASSUME NEW c \in Callers, Call(c) PROVE Service!Next
    BY <1>1, <1>2, <1>3, <1>9 DEF Call, Service!Next
  <1>10. ASSUME NEW c \in Callers, Progress(c) PROVE [Service!Next]_(Service!vars)
    <2>1. ASSUME NEW o \in Outcomes, Publish(c, o) PROVE Service!Next
      <3>1. key[c] \in Keys
        BY <2>1 DEF Publish, Asked
      <3> QED
        BY <1>4, <2>1, <3>1 DEF Service!Next
    <2>2. ASSUME Return(c) PROVE Service!Next
      BY <1>6, <2>2 DEF Service!Next
    <2> QED
      BY <1>5, <1>10, <2>1, <2>2 DEF Progress
  <1>11. ASSUME Tick PROVE Service!Next
    BY <1>7, <1>11 DEF Service!Next
  <1> QED
    BY <1>8, <1>9, <1>10, <1>11 DEF Next

\* TTLCache!Implements: for any callers, keys, TTLs and cap, the locks, the
\* in-flight table and the channels of Do amount to the service of LookupService.
THEOREM ImplementsCorrect == Spec => Implements
  <1>1. Init => Inv
    BY TypeInvInit, FlightInit, WaitingInit, StoredInit, FreshInit DEF Inv
  <1>2. Inv /\ [Next]_vars => Inv'
    BY TypeInvNext, FlightNext, WaitingNext, StoredNext, FreshNext DEF Inv
  <1>3. Init => Service!Init
    BY DEF Init, Service!Init, pending, running, known, Cached
  <1> QED
    BY <1>1, <1>2, <1>3, ServiceStep, PTL DEF Spec, Implements, Service!Spec

=============================================================================
