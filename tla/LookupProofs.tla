---------------------------- MODULE LookupProofs ----------------------------
(***************************************************************************)
(* Proofs about the two lookups that are built on TTLCache, WhoisCache and *)
(* AsnResolver, for any goroutines, keys, slots, caps, TTLs and timeouts.  *)
(* What they share: each is shown to use its caches as TTLCache specifies, *)
(* so that the theorems of TTLCacheProofs hold of them.                    *)
(*                                                                         *)
(* WHOIS.  The invariant ties the stage of fn to the place of its          *)
(* goroutine in the cache (Staged), the slots to the queries (Held), the   *)
(* deadlines to the time a query began (Timed) and the entries to what     *)
(* the queries returned (OnlyAnswersLast, which is inductive by itself).   *)
(*                                                                         *)
(* ASN resolver.  The invariant says where resolve may be while its        *)
(* goroutine is in either cache (Nested); who waits for whom follows from  *)
(* it and from what is proved of both caches.                              *)
(***************************************************************************)
EXTENDS WhoisCache, AsnResolver, FiniteSetTheorems, TLAPS

Stages == {"none", "queue", "dial", "read", "done"}

TypeInv ==
  /\ clock \in Int
  /\ m = [k \in Keys |-> m[k]]
  /\ pc \in [Callers -> {"idle", "wait", "fn", "close", "ret"}]
  /\ stage \in [Callers -> Stages]
  /\ began \in [Callers -> Int]
  /\ deadline \in [Callers -> Int]
  /\ answer \in [Callers -> Outcomes \cup {None}]

\* A goroutine is at one of the stages of fn exactly while it runs fn, and a finished
\* one has something to return.
Staged ==
  \A c \in Callers : /\ stage[c] # "none" <=> pc[c] = "fn"
                     /\ stage[c] = "done" => answer[c] \in Outcomes

Held == slots = Querying /\ IsFiniteSet(slots) /\ Cardinality(slots) <= Cap

Timed ==
  \A c \in Callers :
    /\ stage[c] = "dial" => clock <= deadline[c] /\ deadline[c] = began[c] + DialTimeout
    /\ stage[c] = "read" =>
         clock <= deadline[c] /\ deadline[c] <= began[c] + DialTimeout + ReadTimeout

Inv == TypeInv /\ Staged /\ Held /\ Timed /\ OnlyAnswersLast

-----------------------------------------------------------------------------

LEMMA InitInv == Init => Inv
  <1> SUFFICES ASSUME Init PROVE Inv
    OBVIOUS
  <1> USE WhoisAssumption DEF Init, Cache!Init
  <1>1. TypeInv /\ Staged /\ Timed /\ OnlyAnswersLast
    BY DEF TypeInv, Staged, Timed, OnlyAnswersLast, Stages, Outcomes
  <1>2. Held
    <2>1. slots = {} /\ Querying = {}
      BY DEF Querying
    <2> QED
      BY <2>1, FS_EmptySet DEF Held
  <1> QED
    BY <1>1, <1>2 DEF Inv

\* The steps of the cache outside of fn, which leave fn's variables alone and the
\* entries and the clock as they are.
LEMMA Outside ==
  ASSUME Inv, UNCHANGED <<clock, m, stage, slots, began, deadline, answer>>,
         pc' \in [Callers -> {"idle", "wait", "fn", "close", "ret"}],
         \A c \in Callers : pc[c] = "fn" <=> pc'[c] = "fn"
  PROVE  Inv'
  <1> USE DEF Inv
  <1>1. TypeInv' /\ Staged' /\ Timed' /\ OnlyAnswersLast'
    BY DEF TypeInv, Staged, Timed, OnlyAnswersLast
  <1>2. Held'
    BY DEF Held, Querying
  <1> QED
    BY <1>1, <1>2

LEMMA LookupKeeps == ASSUME Inv, NEW c \in Callers, NEW k \in Keys, Lookup(c, k) PROVE Inv'
  <1> USE DEF Inv
  <1>1. CASE (Cache!Hit(c, k) \/ Cache!Join(c, k)) /\ UNCHANGED fnVars
    BY <1>1, Outside DEF Cache!Hit, Cache!Join, fnVars, TypeInv
  <1>2. CASE /\ Cache!Lead(c, k)
             /\ stage' = [stage EXCEPT ![c] = "queue"]
             /\ UNCHANGED <<slots, began, deadline, answer>>
    <2>1. /\ pc[c] = "idle" /\ pc' = [pc EXCEPT ![c] = "fn"]
          /\ UNCHANGED <<clock, m>>
      BY <1>2 DEF Cache!Lead
    <2>2. stage[c] = "none"
      BY <2>1 DEF Staged, TypeInv
    <2>3. TypeInv' /\ Staged' /\ Timed' /\ OnlyAnswersLast'
      BY <1>2, <2>1 DEF TypeInv, Staged, Timed, OnlyAnswersLast, Stages
    <2>4. Querying' = Querying
      BY <1>2, <2>2 DEF Querying, TypeInv
    <2>5. Held'
      BY <1>2, <2>4 DEF Held
    <2> QED
      BY <2>3, <2>5
  <1> QED
    BY <1>1, <1>2 DEF Lookup

LEMMA AcquireKeeps == ASSUME Inv, NEW c \in Callers, Acquire(c) PROVE Inv'
  <1> USE DEF Inv
  <1>1. /\ stage[c] = "queue" /\ stage' = [stage EXCEPT ![c] = "dial"]
        /\ slots' = slots \cup {c} /\ Cardinality(slots) < Cap
        /\ began' = [began EXCEPT ![c] = clock]
        /\ deadline' = [deadline EXCEPT ![c] = clock + DialTimeout]
        /\ UNCHANGED <<clock, m, pc, answer>>
    BY DEF Acquire, cacheVars
  <1>2. TypeInv' /\ Staged' /\ Timed' /\ OnlyAnswersLast'
    BY <1>1, WhoisAssumption DEF TypeInv, Staged, Timed, OnlyAnswersLast, Stages
  <1>3. Held'
    <2>1. Querying' = Querying \cup {c} /\ c \notin Querying
      BY <1>1 DEF Querying, TypeInv
    <2>2. /\ IsFiniteSet(slots')
          /\ Cardinality(slots') = Cardinality(slots) + 1
          /\ Cardinality(slots) \in Nat
      BY <1>1, <2>1, FS_AddElement, FS_CardinalityType DEF Held
    <2> QED
      BY <1>1, <2>1, <2>2, WhoisAssumption DEF Held
  <1> QED
    BY <1>2, <1>3

LEMMA GiveUpKeeps == ASSUME Inv, NEW c \in Callers, GiveUp(c) PROVE Inv'
  <1> USE DEF Inv
  <1>1. /\ stage[c] = "queue" /\ stage' = [stage EXCEPT ![c] = "done"]
        /\ answer' = [answer EXCEPT ![c] = "gaveup"]
        /\ UNCHANGED <<clock, m, pc, slots, began, deadline>>
    BY DEF GiveUp, cacheVars
  <1>2. TypeInv' /\ Staged' /\ Timed' /\ OnlyAnswersLast'
    BY <1>1 DEF TypeInv, Staged, Timed, OnlyAnswersLast, Stages, Outcomes
  <1>3. Held'
    <2>1. Querying' = Querying
      BY <1>1 DEF Querying, TypeInv
    <2> QED
      BY <1>1, <2>1 DEF Held
  <1> QED
    BY <1>2, <1>3

LEMMA ConnectKeeps == ASSUME Inv, NEW c \in Callers, Connect(c) PROVE Inv'
  <1> USE DEF Inv
  <1>1. /\ stage[c] = "dial" /\ stage' = [stage EXCEPT ![c] = "read"]
        /\ deadline' = [deadline EXCEPT ![c] = clock + ReadTimeout]
        /\ UNCHANGED <<clock, m, pc, slots, began, answer>>
    BY DEF Connect, cacheVars
  <1>2. TypeInv' /\ Staged' /\ Timed' /\ OnlyAnswersLast'
    BY <1>1, WhoisAssumption DEF TypeInv, Staged, Timed, OnlyAnswersLast, Stages
  <1>3. Held'
    <2>1. Querying' = Querying
      BY <1>1 DEF Querying, TypeInv
    <2> QED
      BY <1>1, <2>1 DEF Held
  <1> QED
    BY <1>2, <1>3

LEMMA QueryReturnsKeeps ==
  ASSUME Inv, NEW c \in Callers, NEW o \in Outcomes, QueryReturns(c, o)
  PROVE  Inv'
  <1> USE DEF Inv
  <1>1. /\ stage[c] \in {"dial", "read"} /\ stage' = [stage EXCEPT ![c] = "done"]
        /\ slots' = slots \ {c}
        /\ answer' = [answer EXCEPT ![c] = o]
        /\ began' = [began EXCEPT ![c] = 0]
        /\ deadline' = [deadline EXCEPT ![c] = 0]
        /\ UNCHANGED <<clock, m, pc>>
    BY DEF QueryReturns, cacheVars
  <1>2. TypeInv' /\ Staged' /\ Timed' /\ OnlyAnswersLast'
    BY <1>1 DEF TypeInv, Staged, Timed, OnlyAnswersLast, Stages
  <1>3. Held'
    <2>1. Querying' = Querying \ {c}
      BY <1>1 DEF Querying, TypeInv
    <2>2. IsFiniteSet(slots') /\ Cardinality(slots') <= Cardinality(slots)
      BY <1>1, FS_Subset DEF Held
    <2>3. Cardinality(slots') \in Nat /\ Cardinality(slots) \in Nat
      BY <2>2, FS_CardinalityType DEF Held
    <2> QED
      BY <1>1, <2>1, <2>2, <2>3, WhoisAssumption DEF Held
  <1> QED
    BY <1>2, <1>3

\* What the second critical section of Do leaves of an entry: itself, the new
\* one, which an answer or a failure makes, or nothing.
LEMMA PublishEffect ==
  ASSUME Inv, NEW c \in Callers, Publish(c), NEW k \in Keys
  PROVE  \/ m'[k] = None
         \/ m'[k] = m[k]
         \/ /\ m'[k].val.out \in {"answered", "failed"}
            /\ m'[k].val.at = clock
            /\ m'[k].expires = clock + TTL[m'[k].val.out]
  <1> DEFINE o == answer[c]
             v == [key |-> key[c], out |-> o, at |-> clock]
             e == [val |-> v, expires |-> clock + TTL[v.out]]
             f == [m EXCEPT ![v.key] = e]
  <1>1. o \in Outcomes
    BY DEF Publish, Inv, Staged
  <1>2. Cache!Store(v)
    BY DEF Publish, Cache!Publish
  <1>0. v.out = o
    OBVIOUS
  <1>3. CASE ~ TTL[o] > 0
    BY <1>2, <1>3, <1>0 DEF Cache!Store
  <1>4. CASE TTL[o] > 0
    <2>1. o \in {"answered", "failed"}
      BY <1>1, <1>4 DEF Outcomes, TTL
    <2>2. PICK s \in Cache!Survivors(f) : m' = [i \in Keys |-> IF i \in s THEN f[i] ELSE None]
      <3>1. TTL[v.out] > 0
        BY <1>4, <1>0
      <3> HIDE DEF v
      <3> QED
        BY <1>2, <3>1 DEF Cache!Store
    <2>3. f[k] = m[k] \/ f[k] = e
      BY DEF Inv, TypeInv
    <2>4. e.val.out = o /\ e.val.at = clock /\ e.expires = clock + TTL[o]
      OBVIOUS
    <2> HIDE DEF e, f
    <2> QED
      BY <2>1, <2>2, <2>3, <2>4
  <1> QED
    BY <1>3, <1>4

LEMMA PublishKeeps == ASSUME Inv, NEW c \in Callers, Publish(c) PROVE Inv'
  <1> USE DEF Inv
  <1>1. /\ stage[c] = "done" /\ stage' = [stage EXCEPT ![c] = "none"]
        /\ answer' = [answer EXCEPT ![c] = None]
        /\ pc[c] = "fn" /\ pc' = [pc EXCEPT ![c] = "close"]
        /\ UNCHANGED <<clock, slots, began, deadline>>
    BY DEF Publish, Cache!Publish
  <1>2. m' = [k \in Keys |-> m'[k]]
    <2>1. \/ m' = m
          \/ \E f, s : m' = [k \in Keys |-> IF k \in s THEN f[k] ELSE None]
      BY DEF Publish, Cache!Publish, Cache!Store
    <2> QED
      BY <2>1 DEF TypeInv
  <1>3. TypeInv' /\ Staged' /\ Timed'
    BY <1>1, <1>2 DEF TypeInv, Staged, Timed, Stages
  <1>4. Held'
    <2>1. Querying' = Querying
      BY <1>1 DEF Querying, TypeInv
    <2> QED
      BY <1>1, <2>1 DEF Held
  <1>5. OnlyAnswersLast'
    <2> SUFFICES ASSUME NEW k \in Keys, m'[k] # None
                 PROVE  \/ m'[k].val.out = "answered"
                        \/ m'[k].val.out = "failed" /\ m'[k].expires <= m'[k].val.at + ErrorTTL
      BY DEF OnlyAnswersLast
    <2>1. CASE m'[k] = m[k]
      BY <2>1 DEF OnlyAnswersLast
    <2>2. CASE /\ m'[k].val.out \in {"answered", "failed"}
               /\ m'[k].val.at = clock
               /\ m'[k].expires = clock + TTL[m'[k].val.out]
      BY <2>2, WhoisAssumption DEF TTL, TypeInv
    <2> QED
      BY <2>1, <2>2, PublishEffect
  <1> QED
    BY <1>3, <1>4, <1>5

LEMMA TickKeeps == Inv /\ Tick => Inv'
  <1> SUFFICES ASSUME Inv, Tick PROVE Inv'
    OBVIOUS
  <1> USE DEF Inv
  <1>1. clock' = clock + 1 /\ UNCHANGED <<m, pc, stage, slots, began, deadline, answer>>
    BY DEF Tick, Cache!Tick, fnVars
  <1>2. TypeInv' /\ Staged' /\ OnlyAnswersLast'
    BY <1>1 DEF TypeInv, Staged, OnlyAnswersLast
  <1>3. Timed'
    BY <1>1 DEF Timed, Tick, TypeInv
  <1>4. Held'
    BY <1>1 DEF Held, Querying
  <1> QED
    BY <1>2, <1>3, <1>4

LEMMA NextKeeps == Inv /\ [Next]_vars => Inv'
  <1> SUFFICES ASSUME Inv, [Next]_vars PROVE Inv'
    OBVIOUS
  <1>1. CASE Tick
    BY <1>1, TickKeeps
  <1>2. ASSUME NEW c \in Callers, NEW k \in Keys, Lookup(c, k) PROVE Inv'
    BY <1>2, LookupKeeps
  <1>3. ASSUME NEW c \in Callers, Acquire(c) \/ GiveUp(c) \/ Query(c) PROVE Inv'
    BY <1>3, AcquireKeeps, GiveUpKeeps, ConnectKeeps, QueryReturnsKeeps DEF Query
  <1>4. ASSUME NEW c \in Callers, Publish(c) PROVE Inv'
    BY <1>4, PublishKeeps
  <1>5. ASSUME NEW c \in Callers, Close(c) \/ Return(c) PROVE Inv'
    <2>1. UNCHANGED <<clock, m, stage, slots, began, deadline, answer>>
      BY <1>5 DEF Close, Return, Cache!Close, Cache!Return, fnVars
    <2>2. /\ pc' \in [Callers -> {"idle", "wait", "fn", "close", "ret"}]
          /\ \A d \in Callers : pc[d] = "fn" <=> pc'[d] = "fn"
      BY <1>5 DEF Close, Return, Cache!Close, Cache!Return, Inv, TypeInv
    <2> QED
      BY <2>1, <2>2, Outside
  <1>6. CASE UNCHANGED vars
    BY <1>6, Outside DEF vars, cacheVars, fnVars, Inv, TypeInv
  <1> QED
    BY <1>1, <1>2, <1>3, <1>4, <1>5, <1>6 DEF Next

LEMMA Invariance == Spec => []Inv
  BY InitInv, NextKeeps, PTL DEF Spec

-----------------------------------------------------------------------------
(* The theorems *)

\* A slot is held exactly while a query runs, and at most Cap are.
THEOREM SlotsReturnedCorrect == Spec => []SlotsReturned
  <1>1. Inv => SlotsReturned
    BY DEF Inv, Held, SlotsReturned
  <1> QED
    BY <1>1, Invariance, PTL

\* No query keeps its slot for longer than the two timeouts together.
THEOREM HeldBrieflyCorrect == Spec => []HeldBriefly
  <1>1. Inv => HeldBriefly
    BY WhoisAssumption DEF Inv, Held, Querying, Timed, TypeInv, HeldBriefly
  <1> QED
    BY <1>1, Invariance, PTL

\* No entry is kept for the long TTL but an answer's.
THEOREM OnlyAnswersLastCorrect == Spec => []OnlyAnswersLast
  <1>1. Inv => OnlyAnswersLast
    BY DEF Inv
  <1> QED
    BY <1>1, Invariance, PTL

\* A WHOIS lookup is a use of the cache: each of its steps is a step of Do or
\* leaves the cache alone, so that what holds of TTLCache holds here.
THEOREM UsesTheCache == Spec => Cache!Spec
  <1>1. Init => Cache!Init
    BY DEF Init
  <1>2. Inv /\ [Next]_vars => [Cache!Next]_(Cache!vars)
    <2> SUFFICES ASSUME Inv, [Next]_vars PROVE Cache!Next \/ UNCHANGED Cache!vars
      OBVIOUS
    <2>1. CASE Tick
      BY <2>1 DEF Tick, Cache!Next
    <2>2. ASSUME NEW c \in Callers, NEW k \in Keys, Lookup(c, k) PROVE Cache!Next
      BY <2>2 DEF Lookup, Cache!Next, Cache!Call
    <2>3. ASSUME NEW c \in Callers, Acquire(c) \/ GiveUp(c) \/ Query(c) PROVE UNCHANGED Cache!vars
      BY <2>3 DEF Acquire, GiveUp, Query, Connect, QueryReturns, cacheVars, Cache!vars
    <2>4. ASSUME NEW c \in Callers, Publish(c) PROVE Cache!Next
      <3>1. answer[c] \in Outcomes /\ Cache!Publish(c, answer[c])
        BY <2>4 DEF Publish, Inv, Staged
      <3> QED
        BY <3>1 DEF Cache!Next, Cache!Progress
    <2>5. ASSUME NEW c \in Callers, Close(c) \/ Return(c) PROVE Cache!Next
      BY <2>5 DEF Close, Return, Cache!Next, Cache!Progress
    <2>6. CASE UNCHANGED vars
      BY <2>6 DEF vars, cacheVars, Cache!vars
    <2> QED
      BY <2>1, <2>2, <2>3, <2>4, <2>5, <2>6 DEF Next
  <1> QED
    BY <1>1, <1>2, Invariance, PTL DEF Spec, Cache!Spec

-----------------------------------------------------------------------------
(* What is proved of the cache, for WHOIS *)

Do == INSTANCE TTLCacheProofs

LEMMA SameStore == \A v : Cache!Store(v) = Do!Store(v)
  <1>1. \A s : Cache!Cardinality(s) = Do!Cardinality(s)
    BY DEF Cache!Cardinality, Do!Cardinality
  <1>2. \A f : Cache!Survivors(f) = Do!Survivors(f)
    BY <1>1 DEF Cache!Survivors, Do!Survivors
  <1> QED
    BY <1>2 DEF Cache!Store, Do!Store

LEMMA SameCache == Cache!Spec => Do!Spec
  <1>1. Cache!Init => Do!Init
    BY DEF Cache!Init, Do!Init
  <1>2. \A c, o : Cache!Publish(c, o) = Do!Publish(c, o)
    BY SameStore DEF Cache!Publish, Do!Publish
  <1>3. Cache!Next = Do!Next
    BY <1>2 DEF Cache!Next, Cache!Call, Cache!Progress, Cache!Live, Cache!Hit, Cache!Join,
                Cache!Lead, Cache!Close, Cache!Return, Cache!Tick,
                Do!Next, Do!Call, Do!Progress, Do!Live, Do!Hit, Do!Join,
                Do!Lead, Do!Close, Do!Return, Do!Tick
  <1>4. [Cache!Next]_(Cache!vars) => [Do!Next]_(Do!vars)
    BY <1>3 DEF Cache!vars, Do!vars
  <1> QED
    BY <1>1, <1>4, PTL DEF Cache!Spec, Do!Spec

\* What TTLCacheProofs asks of its constants.
LEMMA CacheConstants ==
  /\ TTL \in [Outcomes -> Int]
  /\ Max \in Int
  /\ MaxClock \in Nat
  /\ None \notin Keys \cup Callers \cup Do!Result \cup Do!Entry \cup Do!Question
  <1>1. TTL \in [Outcomes -> Int]
    BY WhoisAssumption DEF TTL, Outcomes
  <1>2. Cache!Result = Do!Result /\ Cache!Entry = Do!Entry /\ Cache!Question = Do!Question
    BY DEF Cache!Result, Cache!Entry, Cache!Question, Cache!Time,
           Do!Result, Do!Entry, Do!Question, Do!Time
  <1> QED
    BY <1>1, <1>2, WhoisAssumption

\* A WHOIS lookup is the service of LookupService, although its queries queue for
\* slots, time out and are given up: one query per network, and every request is
\* answered about its own network, newly or within the TTL.
THEOREM WhoisIsAService == Spec => Do!Implements
  BY UsesTheCache, SameCache, CacheConstants, Do!ImplementsCorrect, PTL

\* QueueEnds in every reachable state: whatever slots there are and however requests
\* come, give up and fail, whoever waits does so for a goroutine that is on its way.
THEOREM QueueEndsCorrect == Spec => []QueueEnds
  <1>1. Inv /\ Do!NoOrphan => QueueEnds
    <2> SUFFICES ASSUME Inv, Do!NoOrphan, NEW c \in Callers
                 PROVE  /\ pc[c] = "wait" =>
                             /\ on[c] \in Callers
                             /\ key[on[c]] = key[c]
                             /\ pc[on[c]] = "close" \/ stage[on[c]] # "none"
                        /\ Cardinality(slots) >= Cap =>
                             /\ slots # {}
                             /\ \A d \in slots : pc[d] = "fn" /\ stage[d] \in {"dial", "read"}
      BY DEF QueueEnds
    <2>1. ASSUME pc[c] = "wait"
          PROVE  /\ on[c] \in Callers
                 /\ key[on[c]] = key[c]
                 /\ pc[on[c]] \in {"fn", "close"}
      BY <2>1 DEF Do!NoOrphan
    <2>2. \A d \in slots : pc[d] = "fn" /\ stage[d] \in {"dial", "read"}
      BY DEF Inv, Held, Querying, Staged
    <2>3. Cardinality(slots) >= Cap => slots # {}
      BY WhoisAssumption, FS_EmptySet
    <2> QED
      BY <2>1, <2>2, <2>3 DEF Inv, Staged
  <1>2. Do!Spec => []Do!NoOrphan
    BY CacheConstants, Do!NoOrphanCorrect
  <1> QED
    BY <1>1, <1>2, Invariance, UsesTheCache, SameCache, PTL

-----------------------------------------------------------------------------
(* The ASN resolver *)

AddrDo == INSTANCE TTLCacheProofs WITH
  Keys <- Addresses, Outcomes <- AddrOutcomes, TTL <- AddrTTL, Max <- AddrMax,
  m <- am, inflight <- ainflight, pc <- apc, key <- akey, start <- astart,
  on <- aon, got <- agot

OrgDo == INSTANCE TTLCacheProofs WITH
  Keys <- Systems, Outcomes <- OrgOutcomes, TTL <- OrgTTL, Max <- OrgMax,
  m <- om, inflight <- oinflight, pc <- opc, key <- okey, start <- ostart,
  on <- oon, got <- ogot

LEMMA SameAddrStore == \A v : Addr!Store(v) = AddrDo!Store(v)
  <1>1. \A s : Addr!Cardinality(s) = AddrDo!Cardinality(s)
    BY DEF Addr!Cardinality, AddrDo!Cardinality
  <1>2. \A f : Addr!Survivors(f) = AddrDo!Survivors(f)
    BY <1>1 DEF Addr!Survivors, AddrDo!Survivors
  <1> QED
    BY <1>2 DEF Addr!Store, AddrDo!Store

LEMMA SameAddrCache == Addr!Spec => AddrDo!Spec
  <1>1. Addr!Init => AddrDo!Init
    BY DEF Addr!Init, AddrDo!Init
  <1>2. \A c, o : Addr!Publish(c, o) = AddrDo!Publish(c, o)
    BY SameAddrStore DEF Addr!Publish, AddrDo!Publish
  <1>3. Addr!Next = AddrDo!Next
    BY <1>2 DEF Addr!Next, Addr!Call, Addr!Progress, Addr!Live, Addr!Hit, Addr!Join,
                Addr!Lead, Addr!Close, Addr!Return, Addr!Tick,
                AddrDo!Next, AddrDo!Call, AddrDo!Progress, AddrDo!Live, AddrDo!Hit, AddrDo!Join,
                AddrDo!Lead, AddrDo!Close, AddrDo!Return, AddrDo!Tick
  <1>4. [Addr!Next]_(Addr!vars) => [AddrDo!Next]_(AddrDo!vars)
    BY <1>3 DEF Addr!vars, AddrDo!vars
  <1> QED
    BY <1>1, <1>4, PTL DEF Addr!Spec, AddrDo!Spec

LEMMA SameOrgStore == \A v : Org!Store(v) = OrgDo!Store(v)
  <1>1. \A s : Org!Cardinality(s) = OrgDo!Cardinality(s)
    BY DEF Org!Cardinality, OrgDo!Cardinality
  <1>2. \A f : Org!Survivors(f) = OrgDo!Survivors(f)
    BY <1>1 DEF Org!Survivors, OrgDo!Survivors
  <1> QED
    BY <1>2 DEF Org!Store, OrgDo!Store

LEMMA SameOrgCache == Org!Spec => OrgDo!Spec
  <1>1. Org!Init => OrgDo!Init
    BY DEF Org!Init, OrgDo!Init
  <1>2. \A c, o : Org!Publish(c, o) = OrgDo!Publish(c, o)
    BY SameOrgStore DEF Org!Publish, OrgDo!Publish
  <1>3. Org!Next = OrgDo!Next
    BY <1>2 DEF Org!Next, Org!Call, Org!Progress, Org!Live, Org!Hit, Org!Join,
                Org!Lead, Org!Close, Org!Return, Org!Tick,
                OrgDo!Next, OrgDo!Call, OrgDo!Progress, OrgDo!Live, OrgDo!Hit, OrgDo!Join,
                OrgDo!Lead, OrgDo!Close, OrgDo!Return, OrgDo!Tick
  <1>4. [Org!Next]_(Org!vars) => [OrgDo!Next]_(OrgDo!vars)
    BY <1>3 DEF Org!vars, OrgDo!vars
  <1> QED
    BY <1>1, <1>4, PTL DEF Org!Spec, OrgDo!Spec

\* What TTLCacheProofs asks of the constants of either cache.
LEMMA ResolverConstants ==
  /\ AddrTTL \in [AddrOutcomes -> Int] /\ OrgTTL \in [OrgOutcomes -> Int]
  /\ AddrMax \in Int /\ OrgMax \in Int /\ MaxClock \in Nat
  /\ None \notin Addresses \cup Callers \cup AddrDo!Result \cup AddrDo!Entry \cup AddrDo!Question
  /\ None \notin Systems \cup Callers \cup OrgDo!Result \cup OrgDo!Entry \cup OrgDo!Question
  <1> USE ResolverAssumption
  <1>1. AddrTTL \in [AddrOutcomes -> Int] /\ OrgTTL \in [OrgOutcomes -> Int]
    BY DEF AddrTTL, AddrOutcomes, OrgTTL, OrgOutcomes
  <1>2. /\ Addr!Result = AddrDo!Result
        /\ Addr!Entry = AddrDo!Entry
        /\ Addr!Question = AddrDo!Question
    BY DEF Addr!Result, Addr!Entry, Addr!Question, Addr!Time,
           AddrDo!Result, AddrDo!Entry, AddrDo!Question, AddrDo!Time
  <1>3. /\ Org!Result = OrgDo!Result
        /\ Org!Entry = OrgDo!Entry
        /\ Org!Question = OrgDo!Question
    BY DEF Org!Result, Org!Entry, Org!Question, Org!Time,
           OrgDo!Result, OrgDo!Entry, OrgDo!Question, OrgDo!Time
  <1> QED
    BY <1>1, <1>2, <1>3

Phases == {"idle", "wait", "fn", "close", "ret"}

ResolverTypes ==
  /\ apc \in [Callers -> Phases]
  /\ opc \in [Callers -> Phases]
  /\ akey = [c \in Callers |-> akey[c]]
  /\ okey = [c \in Callers |-> okey[c]]
  /\ astage \in [Callers -> {"none", "origin", "org", "done"}]
  /\ result = [c \in Callers |-> result[c]]

\* resolve runs exactly while its goroutine leads its address, and is in the
\* organisation cache exactly from the origin answer on, about that answer's AS.
Nested ==
  \A c \in Callers :
    /\ astage[c] # "none" <=> apc[c] = "fn"
    /\ astage[c] # "none" => akey[c] \in Addresses
    /\ astage[c] = "org" <=> opc[c] # "idle"
    /\ opc[c] # "idle" => okey[c] = OriginOf[akey[c]]
    /\ astage[c] = "done" => result[c] \in AddrOutcomes

ResolverInv == ResolverTypes /\ Nested

LEMMA ResolverInvInit == ResolverInit => ResolverInv
  BY DEF ResolverInit, Addr!Init, Org!Init, ResolverInv, ResolverTypes, Nested, Phases

LEMMA ResolverInvNext == ResolverInv /\ [ResolverNext]_resolverVars => ResolverInv'
  <1> SUFFICES ASSUME ResolverInv, [ResolverNext]_resolverVars PROVE ResolverInv'
    OBVIOUS
  <1> USE DEF ResolverInv, ResolverTypes, Nested, Phases
  <1>1. ASSUME NEW c \in Callers, NEW a \in Addresses, LookupAddr(c, a) PROVE ResolverInv'
    <2>1. CASE (Addr!Hit(c, a) \/ Addr!Join(c, a)) /\ UNCHANGED astage
      BY <1>1, <2>1 DEF LookupAddr, Addr!Hit, Addr!Join, orgVars
    <2>2. CASE Addr!Lead(c, a) /\ astage' = [astage EXCEPT ![c] = "origin"]
      BY <1>1, <2>2 DEF LookupAddr, Addr!Lead, orgVars
    <2> QED
      BY <1>1, <2>1, <2>2 DEF LookupAddr
  <1>2. ASSUME NEW c \in Callers, NEW o \in AddrOutcomes, OriginEnds(c, o) PROVE ResolverInv'
    BY <1>2 DEF OriginEnds, addrVars, orgVars
  <1>3. ASSUME NEW c \in Callers, LookupOrg(c) PROVE ResolverInv'
    <2> DEFINE as == OriginOf[akey[c]]
    <2>1. /\ astage[c] = "origin" /\ astage' = [astage EXCEPT ![c] = "org"]
          /\ UNCHANGED <<apc, akey, result>>
      BY <1>3 DEF LookupOrg, addrVars
    <2>2. /\ opc' \in {[opc EXCEPT ![c] = p] : p \in {"ret", "wait", "fn"}}
          /\ okey' = [okey EXCEPT ![c] = as]
      BY <1>3 DEF LookupOrg, Org!Hit, Org!Join, Org!Lead
    <2> QED
      BY <2>1, <2>2
  <1>4. ASSUME NEW c \in Callers, NEW o \in OrgOutcomes, PublishOrg(c, o) PROVE ResolverInv'
    BY <1>4 DEF PublishOrg, Org!Publish, addrVars
  <1>5. ASSUME NEW c \in Callers, CloseOrg(c) PROVE ResolverInv'
    BY <1>5 DEF CloseOrg, Org!Close, addrVars
  <1>6. ASSUME NEW c \in Callers, ReturnOrg(c) PROVE ResolverInv'
    BY <1>6 DEF ReturnOrg, Org!Return, addrVars, WithOrg, AddrOutcomes
  <1>7. ASSUME NEW c \in Callers, PublishAddr(c) PROVE ResolverInv'
    BY <1>7 DEF PublishAddr, Addr!Publish, orgVars
  <1>8. ASSUME NEW c \in Callers, CloseAddr(c) PROVE ResolverInv'
    BY <1>8 DEF CloseAddr, Addr!Close, orgVars
  <1>9. ASSUME NEW c \in Callers, ReturnAddr(c) PROVE ResolverInv'
    BY <1>9 DEF ReturnAddr, Addr!Return, orgVars
  <1>10. CASE ResolverTick
    BY <1>10 DEF ResolverTick, Addr!Tick, orgVars
  <1>11. CASE UNCHANGED resolverVars
    BY <1>11 DEF resolverVars, addrVars, orgVars
  <1> QED
    BY <1>1, <1>2, <1>3, <1>4, <1>5, <1>6, <1>7, <1>8, <1>9, <1>10, <1>11
       DEF ResolverNext, Progress

LEMMA ResolverInvariance == ResolverSpec => []ResolverInv
  BY ResolverInvInit, ResolverInvNext, PTL DEF ResolverSpec

\* Each step of the resolver is a step of Do on the addresses, on the systems, on
\* both (time passes for both) or on neither.
LEMMA ResolverStep ==
  ResolverInv /\ [ResolverNext]_resolverVars =>
    [Addr!Next]_(Addr!vars) /\ [Org!Next]_(Org!vars)
  <1> SUFFICES ASSUME ResolverInv, [ResolverNext]_resolverVars
               PROVE  /\ Addr!Next \/ UNCHANGED Addr!vars
                      /\ Org!Next \/ UNCHANGED Org!vars
    OBVIOUS
  <1> USE DEF addrVars, orgVars, Addr!vars, Org!vars
  <1>1. ASSUME NEW c \in Callers, NEW a \in Addresses, LookupAddr(c, a)
        PROVE  Addr!Next /\ UNCHANGED Org!vars
    <2>1. Addr!Call(c)
      BY <1>1 DEF LookupAddr, Addr!Call
    <2>2. UNCHANGED clock
      BY <1>1 DEF LookupAddr, Addr!Hit, Addr!Join, Addr!Lead
    <2> QED
      BY <1>1, <2>1, <2>2 DEF LookupAddr, Addr!Next
  <1>2. ASSUME NEW c \in Callers, NEW o \in AddrOutcomes, OriginEnds(c, o)
        PROVE  UNCHANGED Addr!vars /\ UNCHANGED Org!vars
    BY <1>2 DEF OriginEnds
  <1>3. ASSUME NEW c \in Callers, LookupOrg(c)
        PROVE  UNCHANGED Addr!vars /\ Org!Next
    <2>1. OriginOf[akey[c]] \in Systems
      BY <1>3, ResolverAssumption DEF LookupOrg, ResolverInv, Nested
    <2>2. Org!Call(c)
      BY <1>3, <2>1 DEF LookupOrg, Org!Call
    <2>3. UNCHANGED clock
      BY <1>3 DEF LookupOrg, Org!Hit, Org!Join, Org!Lead
    <2> QED
      BY <1>3, <2>2, <2>3 DEF LookupOrg, Org!Next
  <1>4. ASSUME NEW c \in Callers, NEW o \in OrgOutcomes, PublishOrg(c, o)
        PROVE  UNCHANGED Addr!vars /\ Org!Next
    BY <1>4 DEF PublishOrg, Org!Publish, Org!Next, Org!Progress
  <1>5. ASSUME NEW c \in Callers, CloseOrg(c) \/ ReturnOrg(c)
        PROVE  UNCHANGED Addr!vars /\ Org!Next
    BY <1>5 DEF CloseOrg, ReturnOrg, Org!Close, Org!Return,
                Org!Next, Org!Progress
  <1>6. ASSUME NEW c \in Callers, PublishAddr(c)
        PROVE  Addr!Next /\ UNCHANGED Org!vars
    <2>1. result[c] \in AddrOutcomes
      BY <1>6 DEF PublishAddr, ResolverInv, Nested
    <2> QED
      BY <1>6, <2>1 DEF PublishAddr, Addr!Publish, Addr!Next, Addr!Progress
  <1>7. ASSUME NEW c \in Callers, CloseAddr(c) \/ ReturnAddr(c)
        PROVE  Addr!Next /\ UNCHANGED Org!vars
    BY <1>7 DEF CloseAddr, ReturnAddr, Addr!Close, Addr!Return,
                Addr!Next, Addr!Progress
  <1>8. CASE ResolverTick
    BY <1>8 DEF ResolverTick, Addr!Tick, Addr!Next, Org!Tick, Org!Next
  <1>9. CASE UNCHANGED resolverVars
    BY <1>9 DEF resolverVars
  <1> QED
    BY <1>1, <1>2, <1>3, <1>4, <1>5, <1>6, <1>7, <1>8, <1>9 DEF ResolverNext, Progress

LEMMA ResolverUsesCaches == ResolverSpec => AddrDo!Spec /\ OrgDo!Spec
  <1>1. ResolverInit => Addr!Init /\ Org!Init
    BY DEF ResolverInit
  <1>2. ResolverSpec => Addr!Spec /\ Org!Spec
    BY <1>1, ResolverInvariance, ResolverStep, PTL DEF ResolverSpec, Addr!Spec, Org!Spec
  <1> QED
    BY <1>2, SameAddrCache, SameOrgCache, PTL

-----------------------------------------------------------------------------
(* The theorems about the resolver *)

\* The resolver uses each of its caches as TTLCache specifies, so that both are the
\* service of LookupService: one query per address and one per AS at a time, and
\* answers that are new or within their TTL, although a query of the one cache
\* waits for the other.
THEOREM ResolverIsTwoServices == ResolverSpec => AddrDo!Implements /\ OrgDo!Implements
  <1>1. AddrDo!Spec => AddrDo!Implements
    BY ResolverConstants, AddrDo!ImplementsCorrect
  <1>2. OrgDo!Spec => OrgDo!Implements
    BY ResolverConstants, OrgDo!ImplementsCorrect
  <1> QED
    BY <1>1, <1>2, ResolverUsesCaches, PTL

\* WaitsEnd in every reachable state: a goroutine that waits does so for
\* one that is on its way out of a cache, and after at most one more wait; there is
\* no circle, for any number of goroutines, addresses and systems.
THEOREM WaitsEndCorrect == ResolverSpec => []WaitsEnd
  <1>1. ResolverInv /\ AddrDo!NoOrphan /\ OrgDo!NoOrphan => WaitsEnd
    <2> SUFFICES ASSUME ResolverInv, AddrDo!NoOrphan, OrgDo!NoOrphan,
                        NEW c \in Callers, NEW d \in WaitsFor(c)
                 PROVE  /\ apc[d] \in {"fn", "close"}
                        /\ \A e \in WaitsFor(d) : apc[e] = "fn" /\ WaitsFor(e) = {}
      BY DEF WaitsEnd
    <2> USE DEF ResolverInv, Nested, ResolverTypes, Phases
    <2>1. ASSUME NEW b \in Callers, opc[b] = "wait"
          PROVE  oon[b] \in Callers /\ apc[oon[b]] = "fn" /\ WaitsFor(oon[b]) = {}
      BY <2>1 DEF OrgDo!NoOrphan, WaitsFor
    <2>2. ASSUME apc[c] = "wait"
          PROVE  d \in Callers /\ apc[d] \in {"fn", "close"}
      BY <2>2 DEF AddrDo!NoOrphan, WaitsFor
    <2>3. ASSUME NEW b \in Callers, apc[b] # "wait", NEW e \in WaitsFor(b)
          PROVE  opc[b] = "wait" /\ e = oon[b]
      BY <2>3 DEF WaitsFor
    <2> QED
      BY <2>1, <2>2, <2>3
  <1>2. AddrDo!Spec => []AddrDo!NoOrphan
    BY ResolverConstants, AddrDo!NoOrphanCorrect
  <1>3. OrgDo!Spec => []OrgDo!NoOrphan
    BY ResolverConstants, OrgDo!NoOrphanCorrect
  <1> QED
    BY <1>1, <1>2, <1>3, ResolverInvariance, ResolverUsesCaches, PTL

\* OneOrgQuery in every reachable state: one organisation query per AS,
\* for the AS of the address its goroutine resolves, however many are resolved.
THEOREM OneOrgQueryCorrect == ResolverSpec => []OneOrgQuery
  <1>1. ResolverInv /\ OrgDo!SingleFlight => OneOrgQuery
    BY DEF ResolverInv, Nested, OrgDo!SingleFlight, OneOrgQuery
  <1>2. OrgDo!Spec => []OrgDo!SingleFlight
    BY ResolverConstants, OrgDo!SingleFlightCorrect
  <1> QED
    BY <1>1, <1>2, ResolverInvariance, ResolverUsesCaches, PTL

\* What is true of BlipsAreBrief, which TLC refutes: a failed origin query is asked
\* again within AsnErrorTTL, and only an organisation's name that was lost stays away,
\* for as long as a name would.
THEOREM OnlyNamesStayLost ==
  ResolverSpec => [](\A a \in Addresses : am[a] # None =>
                       /\ am[a].val.out = "failed" => am[a].expires = am[a].val.at + AsnErrorTTL
                       /\ am[a].val.out = "lost" => am[a].expires = am[a].val.at + AsnTTL)
  <1>1. AddrDo!Stored =>
          \A a \in Addresses : am[a] # None =>
            /\ am[a].val.out = "failed" => am[a].expires = am[a].val.at + AsnErrorTTL
            /\ am[a].val.out = "lost" => am[a].expires = am[a].val.at + AsnTTL
    BY DEF AddrDo!Stored, AddrTTL
  <1>2. AddrDo!Spec => []AddrDo!Stored
    BY ResolverConstants, AddrDo!StoredCorrect
  <1> QED
    BY <1>1, <1>2, ResolverUsesCaches, PTL

=============================================================================
