------------------------------ MODULE TTLCache ------------------------------
(***************************************************************************)
(* The bounded TTL cache with request coalescing of cache.go: one mutex,   *)
(* a map of entries, and a map of in-flight calls that later arrivals wait *)
(* on.  A caller is a goroutine inside Do.  The critical sections of Do    *)
(* are the steps of the model: the first one ends in Hit, Join or Lead,    *)
(* the second one is Publish, and Close is the close of the done channel,  *)
(* which the code does after it has released the mutex.                    *)
(*                                                                         *)
(* A result carries the key fn was run for and the time it was published,  *)
(* so that a property can tell which run of fn an answer comes from.  The  *)
(* value that fn returns is abstracted to an outcome with a TTL.           *)
(***************************************************************************)
EXTENDS Integers, FiniteSets

CONSTANTS
  Callers,    \* the goroutines that call Do
  Keys,       \* the keys they ask for
  Outcomes,   \* what fn may answer
  TTL,        \* TTL[o]: the time to live fn returns along with outcome o
  Max,        \* the entry cap; not positive means no cap
  MaxClock,   \* bound of the model: the clock stops there
  None        \* the nil of every map and pointer below

Time == 0..MaxClock
Result == [key : Keys, out : Outcomes, at : Time]
Entry == [val : Result, expires : Int]
Question == [key : Keys, asked : Time]

ASSUME CacheAssumption ==
  /\ TTL \in [Outcomes -> Int]
  /\ Max \in Int
  /\ MaxClock \in Nat
  /\ None \notin Keys \cup Callers \cup Result \cup Entry \cup Question

VARIABLES
  clock,      \* time.Now()
  m,          \* the entries: m[k] is None when k is not in the map
  inflight,   \* the call in flight for a key, named by the caller that leads it
  pc,         \* where each caller is in Do
  key,        \* the key each caller asked for
  start,      \* when it asked
  on,         \* the call a waiting caller is blocked on
  got         \* the value Do is about to return

vars == <<clock, m, inflight, pc, key, start, on, got>>

-----------------------------------------------------------------------------

Init ==
  /\ clock = 0
  /\ m = [k \in Keys |-> None]
  /\ inflight = [k \in Keys |-> None]
  /\ pc = [c \in Callers |-> "idle"]
  /\ key = [c \in Callers |-> None]
  /\ start = [c \in Callers |-> 0]
  /\ on = [c \in Callers |-> None]
  /\ got = [c \in Callers |-> None]

Cached == {k \in Keys : m[k] # None}

\* Mutant: an entry is served in the very instant it expires.
LiveAtExpiry(k) == m[k] # None /\ clock <= m[k].expires

\* The test of Get and of the head of Do: present, and Now is before expires.
Live(k) == m[k] # None /\ clock < m[k].expires

\* Do reads a live entry under the lock and returns it.
Hit(c, k) ==
  /\ pc[c] = "idle"
  /\ Live(k)
  /\ pc' = [pc EXCEPT ![c] = "ret"]
  /\ key' = [key EXCEPT ![c] = k]
  /\ start' = [start EXCEPT ![c] = clock]
  /\ got' = [got EXCEPT ![c] = m[k].val]
  /\ UNCHANGED <<clock, m, inflight, on>>

\* Someone is already computing the key: drop the lock, block on its channel.
Join(c, k) ==
  /\ pc[c] = "idle"
  /\ ~ Live(k)
  /\ inflight[k] # None
  /\ pc' = [pc EXCEPT ![c] = "wait"]
  /\ key' = [key EXCEPT ![c] = k]
  /\ start' = [start EXCEPT ![c] = clock]
  /\ on' = [on EXCEPT ![c] = inflight[k]]
  /\ UNCHANGED <<clock, m, inflight, got>>

\* Mutant: the in-flight table is not consulted.
LeadUnchecked(c, k) ==
  /\ pc[c] = "idle"
  /\ ~ Live(k)
  /\ inflight' = [inflight EXCEPT ![k] = c]
  /\ pc' = [pc EXCEPT ![c] = "fn"]
  /\ key' = [key EXCEPT ![c] = k]
  /\ start' = [start EXCEPT ![c] = clock]
  /\ UNCHANGED <<clock, m, on, got>>

\* Mutant: the table is consulted before the entries are.
LeadWithoutLooking(c, k) ==
  /\ pc[c] = "idle"
  /\ inflight[k] = None
  /\ inflight' = [inflight EXCEPT ![k] = c]
  /\ pc' = [pc EXCEPT ![c] = "fn"]
  /\ key' = [key EXCEPT ![c] = k]
  /\ start' = [start EXCEPT ![c] = clock]
  /\ UNCHANGED <<clock, m, on, got>>

\* Nobody is: register a call, drop the lock and run fn.
Lead(c, k) ==
  /\ pc[c] = "idle"
  /\ ~ Live(k)
  /\ inflight[k] = None
  /\ inflight' = [inflight EXCEPT ![k] = c]
  /\ pc' = [pc EXCEPT ![c] = "fn"]
  /\ key' = [key EXCEPT ![c] = k]
  /\ start' = [start EXCEPT ![c] = clock]
  /\ UNCHANGED <<clock, m, on, got>>

\* Mutant: eviction drops arbitrary entries without purging the expired first.
SurvivorsAnyAge(f) ==
  LET present == {k \in Keys : f[k] # None}
  IN  IF Max <= 0 \/ Cardinality(present) <= Max THEN {present}
      ELSE {s \in SUBSET present : Cardinality(s) = Max}

\* evictLocked: the sets of keys that may be left of the map f.  Nothing goes
\* while f is within the cap; otherwise every expired entry goes, then
\* arbitrary ones until the cap is met.
Survivors(f) ==
  LET present == {k \in Keys : f[k] # None}
      live == {k \in present : clock < f[k].expires}
  IN  IF Max <= 0 \/ Cardinality(present) <= Max THEN {present}
      ELSE IF Cardinality(live) <= Max THEN {live}
      ELSE {s \in SUBSET live : Cardinality(s) = Max}

\* Mutant: room is made before the insertion instead of after it.
StoreEvictFirst(v) ==
  IF TTL[v.out] > 0
  THEN LET e == [val |-> v, expires |-> clock + TTL[v.out]]
       IN  \E s \in Survivors(m) :
             m' = [k \in Keys |-> IF k = v.key THEN e ELSE IF k \in s THEN m[k] ELSE None]
  ELSE m' = m

\* Under the lock again with fn's answer: a positive TTL stores it.
Store(v) ==
  IF TTL[v.out] > 0
  THEN LET f == [m EXCEPT ![v.key] = [val |-> v, expires |-> clock + TTL[v.out]]]
       IN  \E s \in Survivors(f) : m' = [k \in Keys |-> IF k \in s THEN f[k] ELSE None]
  ELSE m' = m

\* Mutant: the call is taken off the table by the return, without its close.
PublishNoClose(c, o) ==
  LET v == [key |-> key[c], out |-> o, at |-> clock]
  IN  /\ pc[c] = "fn"
      /\ Store(v)
      /\ inflight' = [inflight EXCEPT ![key[c]] = None]
      /\ got' = [got EXCEPT ![c] = v]
      /\ pc' = [pc EXCEPT ![c] = "ret"]
      /\ UNCHANGED <<clock, key, start, on>>

\* fn returns outcome o; the second critical section of Do.
Publish(c, o) ==
  LET v == [key |-> key[c], out |-> o, at |-> clock]
  IN  /\ pc[c] = "fn"
      /\ Store(v)
      /\ inflight' = [inflight EXCEPT ![key[c]] = None]
      /\ got' = [got EXCEPT ![c] = v]
      /\ pc' = [pc EXCEPT ![c] = "close"]
      /\ UNCHANGED <<clock, key, start, on>>

\* Mutant: the waiters are woken by key, not by the call they wait on.
CloseByKey(c) ==
  LET woken == {w \in Callers : pc[w] = "wait" /\ key[w] = key[c]}
  IN  /\ pc[c] = "close"
      /\ pc' = [d \in Callers |-> IF d = c \/ d \in woken THEN "ret" ELSE pc[d]]
      /\ got' = [d \in Callers |-> IF d \in woken THEN got[c] ELSE got[d]]
      /\ on' = [d \in Callers |-> IF d \in woken THEN None ELSE on[d]]
      /\ UNCHANGED <<clock, m, inflight, key, start>>

\* close(ch.done): every receive blocked on the channel is ready, and ch.val
\* is not written again, so the waiters have their value from here on.
Close(c) ==
  LET woken == {w \in Callers : pc[w] = "wait" /\ on[w] = c}
  IN  /\ pc[c] = "close"
      /\ pc' = [d \in Callers |-> IF d = c \/ d \in woken THEN "ret" ELSE pc[d]]
      /\ got' = [d \in Callers |-> IF d \in woken THEN got[c] ELSE got[d]]
      /\ on' = [d \in Callers |-> IF d \in woken THEN None ELSE on[d]]
      /\ UNCHANGED <<clock, m, inflight, key, start>>

\* Do returns to its caller, which may call again.
Return(c) ==
  /\ pc[c] = "ret"
  /\ pc' = [pc EXCEPT ![c] = "idle"]
  /\ key' = [key EXCEPT ![c] = None]
  /\ start' = [start EXCEPT ![c] = 0]
  /\ got' = [got EXCEPT ![c] = None]
  /\ UNCHANGED <<clock, m, inflight, on>>

Tick ==
  /\ clock < MaxClock
  /\ clock' = clock + 1
  /\ UNCHANGED <<m, inflight, pc, key, start, on, got>>

Call(c) == \E k \in Keys : Hit(c, k) \/ Join(c, k) \/ Lead(c, k)

Progress(c) == (\E o \in Outcomes : Publish(c, o)) \/ Close(c) \/ Return(c)

Next == Tick \/ \E c \in Callers : Call(c) \/ Progress(c)

Spec == Init /\ [][Next]_vars

-----------------------------------------------------------------------------
(* Properties *)

\* The types, and which of the per-caller fields are set in which phase of Do.
TypeOK ==
  /\ clock \in Time
  /\ m \in [Keys -> Entry \cup {None}]
  /\ inflight \in [Keys -> Callers \cup {None}]
  /\ pc \in [Callers -> {"idle", "wait", "fn", "close", "ret"}]
  /\ key \in [Callers -> Keys \cup {None}]
  /\ start \in [Callers -> Time]
  /\ on \in [Callers -> Callers \cup {None}]
  /\ got \in [Callers -> Result \cup {None}]

\* Only one fn runs per key at a time (the promise on Do), although the
\* registration of a call and its removal are in different critical sections.
SingleFlight ==
  \A c, d \in Callers :
    pc[c] = "fn" /\ pc[d] = "fn" /\ key[c] = key[d] => c = d

\* The map is never left above its cap: the promise of the type's comment that
\* callers naming arbitrary addresses cannot grow it.
Bounded == Max > 0 => Cardinality(Cached) <= Max

\* What Do returns is an answer to the caller's own question, and one that was
\* either produced after the caller asked or was within its TTL when it asked.
Fresh ==
  \A c \in Callers : pc[c] = "ret" =>
    /\ got[c].key = key[c]
    /\ got[c].at >= start[c] \/ start[c] < got[c].at + TTL[got[c].out]

\* A query never runs for a key whose entry is live, however long ago the
\* leader looked: no outbound query is spent on an answer the cache has.
NoWastedQuery == \A c \in Callers : pc[c] = "fn" => ~ Live(key[c])

\* Every waiter's leader is still on its way to closing that waiter's channel,
\* for the waiter's key: nobody is blocked on a call that is over.
NoOrphan ==
  \A c \in Callers : pc[c] = "wait" =>
    /\ on[c] \in Callers
    /\ pc[on[c]] \in {"fn", "close"}
    /\ key[on[c]] = key[c]

\* evictLocked drops a live entry only when the map is full of live entries:
\* an expired one never survives at a live one's expense.
EvictLiveLast ==
  [][ (\E k \in Keys : Live(k) /\ m'[k] = None) =>
        /\ Cardinality(Cached') = Max
        /\ \A k \in Cached' : clock < m'[k].expires ]_vars

-----------------------------------------------------------------------------
(* The service the cache implements *)

pending ==
  [c \in Callers |-> IF pc[c] = "idle" THEN None ELSE [key |-> key[c], asked |-> start[c]]]
running == [k \in Keys |-> \E c \in Callers : pc[c] = "fn" /\ key[c] = k]
known == {m[k].val : k \in Cached} \cup {got[c] : c \in {d \in Callers : pc[d] \in {"close", "ret"}}}

Service == INSTANCE LookupService

\* Seen from its callers, the table, the in-flight calls and their channels are
\* a service that runs one query per key and answers each question with an
\* answer to that question, new or within its TTL.
Implements == Service!Spec

=============================================================================
