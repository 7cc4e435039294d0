------------------------- MODULE RateLimiterProofs -------------------------
(***************************************************************************)
(* Proofs about RateLimiter for any number of goroutines and clients, any  *)
(* cost, burst and cap.  The times that reach a bucket are out of order,   *)
(* so neither its tokens nor its last time is monotone; the inductive      *)
(* invariant is stated on the balance they define together.                *)
(***************************************************************************)
EXTENDS RateLimiter, FiniteSetTheorems, TLAPS

\* What the wait for the lock can do: a goroutine in the critical section has
\* read a time at most MaxSkew ago.
Recent == \A c \in Callers : pc[c] = "lock" => /\ clock - now[c] <= MaxSkew
                                              /\ client[c] \in Clients

\* No bucket is overdrawn by the real time, and none has paid out more than
\* its burst and the refill since its birth, the tokens it still has included.
Solvent ==
  \A k \in Held :
    /\ Balance(buckets[k], clock) >= 0
    /\ buckets[k].tokens + buckets[k].spent <= Burst + (buckets[k].last - buckets[k].born)

\* The balance of a bucket is that of a limiter with one time, or above it by
\* the longest wait for the lock at most.
Fair ==
  \A k \in Held :
    /\ Balance(buckets[k], clock) >= Burst - OnMeter(buckets[k], clock)
    /\ buckets[k].full > clock =>
         Balance(buckets[k], clock) <= Burst - (buckets[k].full - clock) + MaxSkew

IInv == TypeOK /\ Recent /\ Solvent /\ Budget /\ Fair

-----------------------------------------------------------------------------

\* What a bucket has to satisfy, one conjunct per clause of IInv about it.
Sound(b) ==
  /\ b \in Bucket
  /\ b.tokens \in (- MaxSkew)..Burst
  /\ b.last \in 0..clock
  /\ b.born \in 0..clock
  /\ Balance(b, clock) >= 0
  /\ b.tokens + b.spent <= Burst + (b.last - b.born)
  /\ b.spent <= Burst + (clock - b.born)
  /\ Balance(b, clock) >= Burst - OnMeter(b, clock)
  /\ b.full > clock => Balance(b, clock) <= Burst - (b.full - clock) + MaxSkew

LEMMA SoundBuckets ==
  ASSUME IInv
  PROVE  \A k \in Clients : buckets[k] # None => Sound(buckets[k])
  BY DEF IInv, TypeOK, Solvent, Budget, Fair, Held, Sound

\* A refill with a recent time keeps a bucket sound, in whichever direction it
\* moves the bucket's time.
LEMMA RefillSound ==
  ASSUME NEW b, Sound(b), clock \in Nat, NEW t \in 0..clock, clock - t <= MaxSkew
  PROVE  /\ Sound(Refill(b, t))
         /\ Refill(b, t).last = t
         /\ Refill(b, t).spent = b.spent
         /\ Refill(b, t).born = b.born
         /\ Refill(b, t).full = b.full
         /\ Refill(b, t).tokens <= Burst
  <1> DEFINE filled == b.tokens + (t - b.last)
             r == Refill(b, t)
  <1>1. b \in [tokens : Int, last : Int, born : Int, spent : Nat, full : Int]
    BY DEF Sound, Bucket
  <1>2. r = [tokens |-> IF filled > Burst THEN Burst ELSE filled, last |-> t,
             born |-> b.born, spent |-> b.spent, full |-> b.full]
    BY DEF Refill
  <1>3. filled \in Int /\ filled >= t - clock /\ filled >= - MaxSkew
    BY <1>1, LimiterAssumption DEF Sound, Balance
  <1> HIDE DEF filled, r
  <1>4. r.tokens \in Int /\ r.tokens <= Burst /\ r.tokens >= - MaxSkew
        /\ r.tokens >= t - clock /\ r.tokens <= filled
    BY <1>2, <1>3, LimiterAssumption
  <1>5. r \in Bucket
    BY <1>1, <1>2, <1>4 DEF Bucket
  <1>6. r.tokens + r.spent <= Burst + (r.last - r.born)
    BY <1>1, <1>2, <1>4, LimiterAssumption DEF Sound, filled
  <1>7. r.last = t /\ r.born = b.born /\ r.spent = b.spent /\ r.full = b.full
    BY <1>2
  <1>8. Balance(r, clock) >= 0
    BY <1>4, <1>7 DEF Balance
  <1>9. r.spent <= Burst + (clock - r.born)
    BY <1>1, <1>7 DEF Sound
  <1>10. r.tokens = filled \/ r.tokens = Burst
    BY <1>2
  <1>11. Balance(b, clock) = filled + (clock - t)
    BY <1>1 DEF Balance, filled
  <1>12. Balance(r, clock) = r.tokens + (clock - t)
    BY <1>7 DEF Balance
  <1>13. /\ Balance(r, clock) >= Burst - OnMeter(r, clock)
         /\ r.full > clock => Balance(r, clock) <= Burst - (r.full - clock) + MaxSkew
    BY <1>1, <1>3, <1>4, <1>7, <1>10, <1>11, <1>12, LimiterAssumption DEF Sound, OnMeter
  <1>14. Sound(r)
    BY <1>1, <1>4, <1>5, <1>6, <1>7, <1>8, <1>9, <1>13, LimiterAssumption DEF Sound
  <1> QED
    BY <1>4, <1>7, <1>14 DEF r

\* Every step below changes the buckets of a step's client alone, or drops some.
LEMMA BucketsNext ==
  ASSUME IInv, clock' = clock,
         pc' \in [Callers -> {"idle", "lock", "allowed", "denied"}],
         UNCHANGED <<client, now>>, \A c \in Callers : pc'[c] = "lock" => pc[c] = "lock",
         buckets' \in [Clients -> Bucket \cup {None}],
         \A k \in Clients : buckets'[k] # None => Sound(buckets'[k])
  PROVE  IInv'
  BY NoneAssumption DEF IInv, TypeOK, Recent, Solvent, Budget, Fair, Held, Sound, Balance, OnMeter

LEMMA AllowNext == ASSUME IInv, NEW c \in Callers, Allow(c) PROVE IInv'
  <1> DEFINE k == client[c]
             t == now[c]
  <1>1. pc[c] = "lock" /\ k \in Clients /\ t \in 0..clock /\ clock - t <= MaxSkew
        /\ clock \in Nat
    BY DEF Allow, Admit, Take, Refuse, IInv, TypeOK, Recent
  <1>2. \A j \in Clients : buckets[j] # None => Sound(buckets[j])
    BY SoundBuckets
  <1>3. buckets \in [Clients -> Bucket \cup {None}]
    BY DEF IInv, TypeOK
  <1>4. /\ clock' = clock
        /\ UNCHANGED <<client, now>>
        /\ pc' \in [Callers -> {"idle", "lock", "allowed", "denied"}]
        /\ \A d \in Callers : pc'[d] = "lock" => pc[d] = "lock"
    BY DEF Allow, Admit, Take, Refuse, IInv, TypeOK
  <1>5. CASE Admit(c)
    <2> DEFINE b == [tokens |-> Burst - Cost, last |-> t, born |-> t, spent |-> Cost,
                    full |-> clock + Cost]
    <2>1. b \in Bucket /\ Sound(b)
      BY <1>1, LimiterAssumption DEF Sound, Bucket, Balance, OnMeter
    <2> HIDE DEF b
    <2>2. PICK s \in Survivors(t) :
            buckets' = [j \in Clients |-> IF j = k THEN b
                                          ELSE IF j \in s THEN buckets[j] ELSE None]
      BY <1>5 DEF Admit, b
    <2>3. buckets' \in [Clients -> Bucket \cup {None}]
      BY <1>3, <2>1, <2>2
    <2>4. \A j \in Clients : buckets'[j] # None => Sound(buckets'[j])
      BY <1>2, <2>1, <2>2
    <2> QED
      BY <1>4, <2>3, <2>4, BucketsNext
  <1>6. CASE Take(c)
    <2> DEFINE r == Refill(buckets[k], t)
               b == Pay(r)
    <2>1. buckets[k] # None /\ r.tokens >= Cost /\ buckets' = [buckets EXCEPT ![k] = b]
      BY <1>6 DEF Take
    <2>2. Sound(r) /\ r.last = t /\ r.tokens <= Burst
      BY <1>1, <1>2, <2>1, RefillSound
    <2> HIDE DEF r
    <2>3. r \in [tokens : Int, last : Int, born : Int, spent : Nat, full : Int]
      BY <2>2 DEF Sound, Bucket
    <2>4. b = [tokens |-> r.tokens - Cost, last |-> t, born |-> r.born,
               spent |-> r.spent + Cost,
               full |-> (IF r.full > clock THEN r.full ELSE clock) + Cost]
      BY <2>2 DEF Pay
    <2>5. b \in Bucket
      BY <2>3, <2>4, <1>1, LimiterAssumption DEF Bucket
    <2> HIDE DEF b
    <2>6. Sound(b)
      BY <1>1, <2>1, <2>2, <2>3, <2>4, <2>5, LimiterAssumption
         DEF Sound, Balance, OnMeter
    <2> QED
      BY <1>1, <1>2, <1>3, <1>4, <2>1, <2>5, <2>6, BucketsNext
  <1>7. CASE Refuse(c)
    <2> DEFINE r == Refill(buckets[k], t)
    <2>1. buckets[k] # None /\ buckets' = [buckets EXCEPT ![k] = r]
      BY <1>7 DEF Refuse
    <2>2. Sound(r)
      BY <1>1, <1>2, <2>1, RefillSound
    <2>3. r \in Bucket
      BY <2>2 DEF Sound
    <2> HIDE DEF r
    <2> QED
      BY <1>1, <1>2, <1>3, <1>4, <2>1, <2>2, <2>3, BucketsNext
  <1> QED
    BY <1>5, <1>6, <1>7 DEF Allow

LEMMA InvInit == Init => IInv
  BY LimiterAssumption DEF Init, IInv, TypeOK, Recent, Solvent, Budget, Fair, Held

LEMMA InvNext == IInv /\ [Next]_vars => IInv'
  <1> SUFFICES ASSUME IInv, [Next]_vars PROVE IInv'
    OBVIOUS
  <1>1. ASSUME NEW c \in Callers, NEW k \in Clients, Enter(c, k) PROVE IInv'
    BY <1>1, LimiterAssumption
       DEF Enter, IInv, TypeOK, Recent, Solvent, Budget, Fair, Held, Balance, OnMeter
  <1>2. ASSUME NEW c \in Callers, Allow(c) PROVE IInv'
    BY <1>2, AllowNext
  <1>3. ASSUME NEW c \in Callers, Leave(c) PROVE IInv'
    BY <1>3, LimiterAssumption
       DEF Leave, IInv, TypeOK, Recent, Solvent, Budget, Fair, Held, Balance, OnMeter
  <1>4. ASSUME Tick PROVE IInv'
    <2>1. clock \in Nat /\ clock' \in 0..MaxClock /\ clock' = clock + 1
      BY <1>4, LimiterAssumption DEF Tick, IInv, TypeOK
    <2>2. \A k \in Clients : buckets[k] # None => Sound(buckets[k])
      BY SoundBuckets
    <2>3. \A k \in Clients : buckets[k] # None => Sound(buckets[k])'
      BY <1>4, <2>1, <2>2, LimiterAssumption DEF Tick, Sound, Balance, Bucket, OnMeter
    <2>4. Recent'
      BY <1>4, <2>1, LimiterAssumption DEF Tick, IInv, TypeOK, Recent
    <2> QED
      BY <1>4, <2>1, <2>3, <2>4
         DEF Tick, IInv, TypeOK, Solvent, Budget, Fair, Held, Sound
  <1>5. CASE UNCHANGED vars
    BY <1>5 DEF vars, IInv, TypeOK, Recent, Solvent, Budget, Fair, Held, Balance, OnMeter
  <1> QED
    BY <1>1, <1>2, <1>3, <1>4, <1>5 DEF Next

LEMMA InvCorrect == Spec => []IInv
  BY InvInit, InvNext, PTL DEF Spec

\* RateLimiter!TypeOK in every reachable state: a bucket holds at most Burst,
\* and owes at most what the longest wait for the lock can take from it.
THEOREM TypeCorrect == Spec => []TypeOK
  <1>1. IInv => TypeOK
    BY DEF IInv
  <1> QED
    BY <1>1, InvCorrect, PTL

\* RateLimiter!Budget in every reachable state: over the life of a bucket the
\* client is granted at most its burst and the refill of the time passed.
THEOREM BudgetCorrect == Spec => []Budget
  <1>1. IInv => Budget
    BY DEF IInv
  <1> QED
    BY <1>1, InvCorrect, PTL

-----------------------------------------------------------------------------
(* A refusal *)

LEMMA RefuseStep ==
  ASSUME IInv, Next, NEW c \in Callers, pc[c] = "lock", pc'[c] = "denied"
  PROVE  Balance(buckets'[client[c]], clock) = Balance(buckets[client[c]], clock)
  <1> DEFINE k == client[c]
             t == now[c]
             r == Refill(buckets[k], t)
             filled == buckets[k].tokens + (t - buckets[k].last)
  <1>1. Refuse(c)
    BY DEF Next, Tick, Enter, Allow, Admit, Take, Refuse, Leave, IInv, TypeOK
  <1>2. /\ buckets[k] # None /\ k \in Clients /\ t \in Int /\ clock \in Int
        /\ buckets[k].tokens \in Int /\ buckets[k].last \in Int
    BY <1>1 DEF Refuse, IInv, TypeOK, Recent, Held
  <1>3. r.tokens < Cost /\ buckets'[k] = r
    BY <1>1, <1>2 DEF Refuse, IInv, TypeOK
  <1>4. r.tokens = (IF filled > Burst THEN Burst ELSE filled) /\ r.last = t
    BY DEF Refill
  <1>5. r.tokens = filled
    BY <1>3, <1>4, LimiterAssumption
  <1> QED
    BY <1>2, <1>3, <1>4, <1>5 DEF Balance

\* RateLimiter!RefusalIsFree for every step: the refill that a refused request
\* leaves in the bucket and the time it leaves on it cancel out.
THEOREM RefusalIsFreeCorrect == Spec => RefusalIsFree
  <1>1. IInv /\ [Next]_vars =>
          [ \A c \in Callers : pc[c] = "lock" /\ pc'[c] = "denied" =>
              Balance(buckets'[client[c]], clock)
                = Balance(buckets[client[c]], clock) ]_vars
    BY RefuseStep
  <1> QED
    BY <1>1, InvCorrect, PTL DEF Spec, RefusalIsFree

-----------------------------------------------------------------------------
(* The cap *)

HeldInv == IsFiniteSet(Held) /\ Bounded

\* Room is made before the insertion: one place is free after the eviction.
LEMMA SurvivorsBound ==
  ASSUME HeldInv, NEW t, NEW s \in Survivors(t)
  PROVE  IsFiniteSet(s) /\ s \subseteq Held /\ Cardinality(s) <= Max - 1
  <1> DEFINE active == {k \in Held : ~ Idle(buckets[k], t)}
  <1>0. IsFiniteSet(Held) /\ Cardinality(Held) \in Nat
    BY FS_CardinalityType DEF HeldInv
  <1>1. s \subseteq Held
    BY DEF Survivors
  <1>2. IsFiniteSet(s) /\ Cardinality(s) \in Nat
    BY <1>0, <1>1, FS_Subset, FS_CardinalityType
  <1>3. IsFiniteSet(active) /\ Cardinality(active) \in Nat
    BY <1>0, FS_Subset, FS_CardinalityType
  <1> HIDE DEF active
  <1>4. \/ s = Held /\ Cardinality(Held) < Max
        \/ s = active /\ Cardinality(active) < Max
        \/ Cardinality(s) = Max - 1
    BY DEF Survivors, active
  <1> QED
    BY <1>0, <1>1, <1>2, <1>3, <1>4, LimiterAssumption

LEMMA AdmitHeld ==
  ASSUME IInv, NEW c \in Callers, Admit(c)
  PROVE  \E s \in Survivors(now[c]) :
           /\ Held' = s \cup {client[c]}
           /\ client[c] \notin Held
           /\ \A k \in s : k \in Held /\ buckets'[k] = buckets[k]
  <1> DEFINE b == [tokens |-> Burst - Cost, last |-> now[c], born |-> now[c], spent |-> Cost,
                    full |-> clock + Cost]
  <1>1. now[c] \in Int /\ clock \in Int /\ client[c] \in Clients
    BY DEF Admit, IInv, TypeOK, Recent
  <1>2. b # None
    BY <1>1, LimiterAssumption, NoneAssumption DEF Bucket
  <1> HIDE DEF b
  <1>3. PICK s \in Survivors(now[c]) :
          buckets' = [k \in Clients |-> IF k = client[c] THEN b
                                        ELSE IF k \in s THEN buckets[k] ELSE None]
    BY DEF Admit, b
  <1>4. s \subseteq Held /\ client[c] \notin Held
    BY DEF Survivors, Held, Admit
  <1> QED
    BY <1>1, <1>2, <1>3, <1>4 DEF Held

LEMMA HeldNext == IInv /\ HeldInv /\ [Next]_vars => HeldInv'
  <1> SUFFICES ASSUME IInv, HeldInv, [Next]_vars PROVE HeldInv'
    OBVIOUS
  <1>1. ASSUME NEW c \in Callers, Admit(c) PROVE HeldInv'
    <2>1. PICK s \in Survivors(now[c]) : Held' = s \cup {client[c]}
      BY <1>1, AdmitHeld
    <2>2. IsFiniteSet(s) /\ Cardinality(s) <= Max - 1 /\ Cardinality(s) \in Nat
      BY SurvivorsBound, FS_CardinalityType
    <2>3. /\ IsFiniteSet(s \cup {client[c]})
          /\ Cardinality(s \cup {client[c]}) \in {Cardinality(s), Cardinality(s) + 1}
      BY <2>2, FS_AddElement
    <2> QED
      BY <2>1, <2>2, <2>3, LimiterAssumption DEF HeldInv, Bounded
  <1>2. ASSUME NEW c \in Callers, Take(c) \/ Refuse(c) PROVE HeldInv'
    <2>1. buckets[client[c]] # None /\ client[c] \in Clients
      BY <1>2 DEF Take, Refuse, IInv, Recent
    <2>2. buckets \in [Clients -> Bucket \cup {None}]
      BY DEF IInv, TypeOK
    <2>3. \A k \in Clients : k # client[c] => buckets'[k] = buckets[k]
      BY <1>2, <2>2 DEF Take, Refuse
    <2>4. Held' \subseteq Held
      BY <2>1, <2>3 DEF Held
    <2> QED
      BY <2>4, FS_Subset, FS_CardinalityType, LimiterAssumption DEF HeldInv, Bounded
  <1>3. CASE UNCHANGED buckets
    BY <1>3 DEF HeldInv, Bounded, Held
  <1> QED
    BY <1>1, <1>2, <1>3 DEF Next, Allow, Tick, Enter, Leave, vars

LEMMA HeldCorrect == Spec => []HeldInv
  <1>1. Init => HeldInv
    <2>1. Init => Held = {}
      BY DEF Init, Held
    <2> QED
      BY <2>1, FS_EmptySet, LimiterAssumption DEF HeldInv, Bounded
  <1> QED
    BY <1>1, HeldNext, InvCorrect, PTL DEF Spec

\* RateLimiter!Bounded in every reachable state: the eviction always frees the
\* place that the new bucket takes.
THEOREM BoundedCorrect == Spec => []Bounded
  <1>1. HeldInv => Bounded
    BY DEF HeldInv
  <1> QED
    BY <1>1, HeldCorrect, PTL

\* An idle bucket is full by the real time, whatever it was left owing: this is
\* where the wait for the lock must not exceed the time that fills a bucket.
LEMMA IdleIsFull ==
  ASSUME IInv, NEW k \in Held, NEW t \in 0..clock, Idle(buckets[k], t)
  PROVE  Balance(buckets[k], clock) >= Burst
  BY LimiterAssumption DEF IInv, TypeOK, Idle, Balance

LEMMA EvictStep ==
  ASSUME IInv, HeldInv, Next, NEW c \in Callers, pc[c] = "lock", pc'[c] = "allowed",
         NEW k \in Held, buckets'[k] = None, Balance(buckets[k], clock) < Burst
  PROVE  /\ Cardinality(Held') = Max
         /\ \A j \in Held \cap Held' : ~ Idle(buckets[j], now[c])
  <1> DEFINE t == now[c]
             active == {j \in Held : ~ Idle(buckets[j], t)}
  <1>1. Admit(c) \/ Take(c)
    BY DEF Next, Tick, Enter, Allow, Admit, Take, Refuse, Leave, IInv, TypeOK
  <1>2. ~ Take(c)
    <2> SUFFICES ASSUME Take(c) PROVE FALSE
      OBVIOUS
    <2>1. k \in Clients /\ buckets[k] # None /\ client[c] \in Clients
      BY DEF Held, IInv, Recent
    <2>2. Pay(Refill(buckets[client[c]], t)) # None
      <3>1. Sound(buckets[client[c]])
        BY <2>1, SoundBuckets DEF Take
      <3>2. t \in 0..clock /\ clock - t <= MaxSkew /\ clock \in Nat
        BY DEF IInv, TypeOK, Recent
      <3>3. Refill(buckets[client[c]], t) \in Bucket
        BY <3>1, <3>2, RefillSound DEF Sound
      <3>4. Pay(Refill(buckets[client[c]], t)) \in Bucket
        BY <3>2, <3>3, LimiterAssumption DEF Pay, Bucket
      <3> QED
        BY <3>4, NoneAssumption
    <2> QED
      BY <2>1, <2>2 DEF Take, IInv, TypeOK
  <1>3. PICK s \in Survivors(t) :
          /\ Held' = s \cup {client[c]}
          /\ client[c] \notin Held
          /\ \A j \in s : j \in Held /\ buckets'[j] = buckets[j]
    BY <1>1, <1>2, AdmitHeld
  <1>4. k \in active /\ k \notin s
    <2>1. t \in 0..clock /\ clock \in Int
      BY DEF IInv, TypeOK
    <2>2. ~ (Balance(buckets[k], clock) >= Burst)
      BY <2>1, LimiterAssumption DEF IInv, TypeOK, Balance
    <2>3. ~ Idle(buckets[k], t)
      BY <2>1, <2>2, IdleIsFull
    <2>4. buckets[k] # None
      BY DEF Held
    <2> QED
      BY <1>3, <2>3, <2>4
  <1>5. s \in {u \in SUBSET active : Cardinality(u) = Max - 1}
    BY <1>4 DEF Survivors
  <1>6. IsFiniteSet(s)
    BY SurvivorsBound
  <1>7. Cardinality(Held') = Max
    <2>1. client[c] \notin s
      BY <1>3
    <2>2. Cardinality(s \cup {client[c]}) = Cardinality(s) + 1
      BY <1>6, <2>1, FS_AddElement
    <2> QED
      BY <1>3, <1>5, <2>2, LimiterAssumption
  <1> QED
    BY <1>3, <1>5, <1>7

\* RateLimiter!EvictionSparesTheActive for every step: a bucket that records
\* something goes only from a map full of buckets that are in use.
THEOREM EvictionSparesTheActiveCorrect == Spec => EvictionSparesTheActive
  <1>1. IInv /\ HeldInv /\ [Next]_vars =>
          [ \A c \in Callers :
              /\ pc[c] = "lock" /\ pc'[c] = "allowed"
              /\ \E k \in Held : buckets'[k] = None /\ Balance(buckets[k], clock) < Burst
              => /\ Cardinality(Held') = Max
                 /\ \A k \in Held \cap Held' : ~ Idle(buckets[k], now[c]) ]_vars
    BY EvictStep
  <1> QED
    BY <1>1, InvCorrect, HeldCorrect, PTL DEF Spec, EvictionSparesTheActive

-----------------------------------------------------------------------------
(* The service *)

\* Every goroutine in Allow asks for a client.
Asking == \A c \in Callers : pc[c] = "idle" <=> client[c] = None

LEMMA AskingNext == IInv /\ Asking /\ [Next]_vars => Asking'
  <1> SUFFICES ASSUME IInv, Asking, [Next]_vars PROVE Asking'
    OBVIOUS
  <1>1. ASSUME NEW c \in Callers, NEW k \in Clients, Enter(c, k) PROVE Asking'
    BY <1>1, LimiterAssumption DEF Enter, Asking, IInv, TypeOK
  <1>2. ASSUME NEW c \in Callers, Allow(c) PROVE Asking'
    BY <1>2 DEF Allow, Admit, Take, Refuse, Asking, IInv, TypeOK
  <1>3. ASSUME NEW c \in Callers, Leave(c) PROVE Asking'
    BY <1>3 DEF Leave, Asking, IInv, TypeOK
  <1>4. CASE Tick \/ UNCHANGED vars
    BY <1>4 DEF Tick, vars, Asking
  <1> QED
    BY <1>1, <1>2, <1>3, <1>4 DEF Next

LEMMA AskingCorrect == Spec => []Asking
  <1>1. Init => Asking
    BY DEF Init, Asking
  <1> QED
    BY <1>1, AskingNext, InvCorrect, PTL DEF Spec

ServiceInv == IInv /\ HeldInv /\ Asking

LEMMA ServiceInit == Init => Service!Init
  BY DEF Init, Service!Init, asks, answer, meter, Held

\* What an admission makes of the meters: the new client pays for its token from
\* now on, those that are dropped owe nothing any more.
LEMMA AdmitIsGrant ==
  ASSUME ServiceInv, NEW c \in Callers, Admit(c)
  PROVE  Service!Grant(c, client[c])
  <1> DEFINE k == client[c]
             b == [tokens |-> Burst - Cost, last |-> now[c], born |-> now[c], spent |-> Cost,
                   full |-> clock + Cost]
  <1>1. k \in Clients /\ now[c] \in Int /\ clock \in Int /\ pc[c] = "lock" /\ buckets[k] = None
    BY DEF Admit, ServiceInv, IInv, TypeOK, Recent
  <1>2. b # None /\ b.full = clock + Cost
    BY <1>1, LimiterAssumption, NoneAssumption DEF Bucket
  <1> HIDE DEF b
  <1>3. PICK s \in Survivors(now[c]) :
          buckets' = [j \in Clients |-> IF j = k THEN b ELSE IF j \in s THEN buckets[j] ELSE None]
    BY DEF Admit, b
  <1>4. s \subseteq Held /\ k \notin Held
    BY <1>1 DEF Survivors, Held
  <1>5. Held' = s \cup {k}
    BY <1>1, <1>2, <1>3, <1>4 DEF Held
  <1>6. s \in Service!Remembered(k)
    <2>1. IsFiniteSet(Held)
      BY DEF ServiceInv, HeldInv
    <2>2. Cardinality(Held) \in Nat
      BY <2>1, FS_CardinalityType
    <2>3. s # Held => Cardinality(Held) >= Max
      BY <2>2, LimiterAssumption DEF Survivors
    <2>4. \A x : Service!Cardinality(x) = Cardinality(x)
      BY DEF Cardinality, Service!Cardinality
    <2>5. Cardinality(s \cup {k}) <= Max
      BY <1>5, HeldNext DEF Next, Allow, ServiceInv, HeldInv, Bounded
    <2> QED
      BY <1>4, <2>3, <2>4, <2>5 DEF Service!Remembered
  <1>7. meter[k] = 0
    BY <1>1 DEF meter
  <1>8. meter' = [j \in Clients |-> IF j = k THEN meter[k] + Cost
                                    ELSE IF j \in s THEN meter[j] ELSE 0]
    <2>1. clock' = clock
      BY DEF Admit
    <2>2. ASSUME NEW j \in Clients
          PROVE  meter'[j] = IF j = k THEN Cost ELSE IF j \in s THEN meter[j] ELSE 0
      <3>1. meter'[j] = IF buckets'[j] # None THEN OnMeter(buckets'[j], clock') ELSE 0
        BY DEF meter
      <3>2. CASE j = k
        BY <1>1, <1>2, <1>3, <2>1, <3>1, <3>2, LimiterAssumption DEF OnMeter
      <3>3. CASE j # k
        BY <1>3, <2>1, <3>1, <3>3 DEF OnMeter, meter
      <3> QED
        BY <3>2, <3>3
    <2> QED
      BY <1>7, <2>2, LimiterAssumption DEF meter
  <1>9. answer[c] = "none" /\ answer' = [answer EXCEPT ![c] = "allowed"]
    BY <1>1 DEF answer, Admit, ServiceInv, IInv, TypeOK
  <1>10. asks[c] = k /\ asks' = asks
    BY DEF asks, Admit
  <1>11. meter[k] + Cost <= Burst + MaxSkew
    BY <1>7, LimiterAssumption
  <1> QED
    BY <1>5, <1>6, <1>8, <1>9, <1>10, <1>11 DEF Service!Grant

\* A token is there only if the meter leaves room for it.
LEMMA TakeIsGrant ==
  ASSUME ServiceInv, NEW c \in Callers, Take(c)
  PROVE  Service!Grant(c, client[c])
  <1> DEFINE k == client[c]
             t == now[c]
             q == buckets[k]
             r == Refill(q, t)
             b == Pay(r)
  <1>1. /\ k \in Clients /\ t \in 0..clock /\ clock - t <= MaxSkew /\ clock \in Nat
        /\ pc[c] = "lock" /\ q # None
    BY DEF Take, ServiceInv, IInv, TypeOK, Recent
  <1>2. Sound(q)
    BY <1>1, SoundBuckets DEF ServiceInv
  <1>3. Sound(r) /\ r.full = q.full /\ r.last = t
    BY <1>1, <1>2, RefillSound
  <1>4. r.tokens >= Cost /\ buckets' = [buckets EXCEPT ![k] = b]
    BY DEF Take
  <1>5. b.full = (IF q.full > clock THEN q.full ELSE clock) + Cost
    BY <1>3 DEF Pay
  <1>6. b # None
    BY <1>1, <1>3, LimiterAssumption, NoneAssumption DEF Pay, Sound, Bucket
  <1>7. q.full \in Int /\ r.tokens \in Int
    BY <1>2, <1>3 DEF Sound, Bucket
  <1>8. meter[k] = OnMeter(q, clock)
    BY <1>1 DEF meter
  <1>9. meter[k] + Cost <= Burst + MaxSkew
    <2>1. Balance(r, clock) >= Cost
      BY <1>1, <1>3, <1>4, <1>7, LimiterAssumption DEF Balance
    <2>2. r.full > clock => Balance(r, clock) <= Burst - (r.full - clock) + MaxSkew
      BY <1>3 DEF Sound
    <2>3. Balance(r, clock) \in Int
      BY <1>1, <1>3, <1>7 DEF Balance
    <2> QED
      BY <1>1, <1>3, <1>7, <1>8, <2>1, <2>2, <2>3, LimiterAssumption DEF OnMeter
  <1>10. OnMeter(b, clock) = OnMeter(q, clock) + Cost
    BY <1>1, <1>5, <1>7, LimiterAssumption DEF OnMeter
  <1> HIDE DEF b, r
  <1>11. clock' = clock /\ asks' = asks
    BY DEF Take, asks
  <1>12. buckets \in [Clients -> Bucket \cup {None}]
    BY DEF ServiceInv, IInv, TypeOK
  <1>13. Held' = Held /\ k \in Held
    BY <1>1, <1>4, <1>6, <1>12 DEF Held
  <1>14. meter' = [j \in Clients |-> IF j = k THEN meter[k] + Cost
                                     ELSE IF j \in Held THEN meter[j] ELSE 0]
    <2>1. ASSUME NEW j \in Clients
          PROVE  meter'[j] = IF j = k THEN meter[k] + Cost ELSE IF j \in Held THEN meter[j] ELSE 0
      <3>1. CASE j = k
        BY <1>1, <1>4, <1>6, <1>8, <1>10, <1>11, <1>12, <3>1 DEF meter
      <3>2. CASE j # k
        BY <1>4, <1>11, <1>12, <3>2 DEF meter, Held
      <3> QED
        BY <3>1, <3>2
    <2> QED
      BY <2>1 DEF meter
  <1>15. answer[c] = "none" /\ answer' = [answer EXCEPT ![c] = "allowed"] /\ asks[c] = k
    BY <1>1 DEF answer, asks, Take, ServiceInv, IInv, TypeOK
  <1>16. Held \in Service!Remembered(k) /\ Held' = Held \cup {k}
    <2>1. Held \cup {k} = Held
      BY <1>13
    <2>2. Cardinality(Held) <= Max
      BY DEF ServiceInv, HeldInv, Bounded
    <2>3. Service!Cardinality(Held) = Cardinality(Held)
      BY DEF Cardinality, Service!Cardinality
    <2> QED
      BY <1>13, <2>1, <2>2, <2>3 DEF Service!Remembered
  <1> QED
    BY <1>9, <1>11, <1>14, <1>15, <1>16 DEF Service!Grant

\* There is no token only if the meter is near the burst.
LEMMA RefuseIsDeny ==
  ASSUME ServiceInv, NEW c \in Callers, Refuse(c)
  PROVE  Service!Deny(c, client[c])
  <1> DEFINE k == client[c]
             t == now[c]
             q == buckets[k]
             r == Refill(q, t)
  <1>1. /\ k \in Clients /\ t \in 0..clock /\ clock - t <= MaxSkew /\ clock \in Nat
        /\ pc[c] = "lock" /\ q # None
    BY DEF Refuse, ServiceInv, IInv, TypeOK, Recent
  <1>2. Sound(q)
    BY <1>1, SoundBuckets DEF ServiceInv
  <1>3. Sound(r) /\ r.full = q.full /\ r.last = t
    BY <1>1, <1>2, RefillSound
  <1>4. r.tokens < Cost /\ buckets' = [buckets EXCEPT ![k] = r]
    BY DEF Refuse
  <1>5. q.full \in Int /\ r.tokens \in Int /\ r # None
    BY <1>2, <1>3, NoneAssumption DEF Sound, Bucket
  <1>6. meter[k] = OnMeter(q, clock)
    BY <1>1 DEF meter
  <1>7. meter[k] + Cost > Burst - MaxSkew
    <2>1. Balance(r, clock) < Cost + MaxSkew
      BY <1>1, <1>3, <1>4, <1>5, LimiterAssumption DEF Balance
    <2>2. Balance(r, clock) >= Burst - OnMeter(r, clock) /\ OnMeter(r, clock) = meter[k]
      BY <1>3, <1>6 DEF Sound, OnMeter
    <2>3. Balance(r, clock) \in Int /\ meter[k] \in Int
      BY <1>1, <1>3, <1>5, <1>6 DEF Balance, OnMeter
    <2> QED
      BY <2>1, <2>2, <2>3, LimiterAssumption
  <1> HIDE DEF r
  <1>8. clock' = clock /\ asks' = asks
    BY DEF Refuse, asks
  <1>9. buckets \in [Clients -> Bucket \cup {None}]
    BY DEF ServiceInv, IInv, TypeOK
  <1>10. Held' = Held /\ k \in Held
    BY <1>1, <1>4, <1>5, <1>9 DEF Held
  <1>11. meter' = meter
    <2>1. ASSUME NEW j \in Clients PROVE meter'[j] = meter[j]
      <3>1. CASE j = k
        BY <1>1, <1>3, <1>4, <1>5, <1>8, <1>9, <3>1 DEF meter, OnMeter
      <3>2. CASE j # k
        BY <1>4, <1>8, <1>9, <3>2 DEF meter
      <3> QED
        BY <3>1, <3>2
    <2> QED
      BY <2>1 DEF meter
  <1>12. answer[c] = "none" /\ answer' = [answer EXCEPT ![c] = "denied"] /\ asks[c] = k
    BY <1>1 DEF answer, asks, Refuse, ServiceInv, IInv, TypeOK
  <1> QED
    BY <1>7, <1>8, <1>10, <1>11, <1>12 DEF Service!Deny

\* A tick takes one off every meter that is not at zero.
LEMMA TickIsTick == ASSUME ServiceInv, Tick PROVE Service!Tick
  <1>1. clock \in Nat /\ clock' = clock + 1 /\ buckets' = buckets
    BY LimiterAssumption DEF Tick, ServiceInv, IInv, TypeOK
  <1>2. ASSUME NEW k \in Clients
        PROVE  meter'[k] = IF meter[k] = 0 THEN 0 ELSE meter[k] - 1
    <2>1. CASE buckets[k] = None
      BY <1>1, <2>1 DEF meter
    <2>2. CASE buckets[k] # None
      <3>1. buckets[k].full \in Int
        BY <2>2 DEF ServiceInv, IInv, TypeOK, Bucket
      <3> QED
        BY <1>1, <2>2, <3>1 DEF meter, OnMeter
    <2> QED
      BY <2>1, <2>2
  <1>3. meter' = [k \in Clients |-> IF meter[k] = 0 THEN 0 ELSE meter[k] - 1]
    BY <1>2 DEF meter
  <1>4. UNCHANGED <<asks, answer, Held>>
    BY DEF Tick, asks, answer, Held
  <1> QED
    BY <1>3, <1>4 DEF Service!Tick

LEMMA ServiceNext ==
  ASSUME ServiceInv, [Next]_vars PROVE [Service!Next]_(Service!vars)
  <1>1. ASSUME NEW c \in Callers, NEW k \in Clients, Enter(c, k) PROVE Service!Ask(c, k)
    BY <1>1, LimiterAssumption
       DEF Enter, Service!Ask, asks, answer, meter, Held, ServiceInv, Asking, IInv, TypeOK
  <1>2. ASSUME NEW c \in Callers, Allow(c) PROVE Service!Next
    <2>1. client[c] \in Clients
      BY <1>2 DEF Allow, Admit, Take, Refuse, ServiceInv, IInv, Recent
    <2> QED
      BY <1>2, <2>1, AdmitIsGrant, TakeIsGrant, RefuseIsDeny DEF Allow, Service!Next
  <1>3. ASSUME NEW c \in Callers, Leave(c) PROVE Service!Return(c)
    BY <1>3 DEF Leave, Service!Return, asks, answer, meter, Held, ServiceInv, IInv, TypeOK
  <1>4. CASE UNCHANGED vars
    BY <1>4 DEF vars, Service!vars, asks, answer, meter, Held
  <1> QED
    BY <1>1, <1>2, <1>3, <1>4, TickIsTick DEF Next, Service!Next

\* RateLimiter!Implements: every step of Allow is a step of LimiterService, in
\* which there is one time; what the goroutines' times can change is within the
\* longest wait for the lock.
THEOREM ImplementsCorrect == Spec => Implements
  <1>1. Spec => []ServiceInv
    BY InvCorrect, HeldCorrect, AskingCorrect, PTL DEF ServiceInv
  <1> QED
    BY <1>1, ServiceInit, ServiceNext, PTL DEF Spec, Implements, Service!Spec

-----------------------------------------------------------------------------
(* Any stretch of time *)

PaidOut(k) == IF buckets[k] # None THEN buckets[k].spent ELSE 0

\* Since time s, when client k had been paid g, each token has put its cost on
\* the meter, which cannot have been further back than s.
MeteredSince(k, g, s) ==
  clock >= s /\ (PaidOut(k) <= g \/ buckets[k].full >= s + (PaidOut(k) - g))

LEMMA MeteredNext ==
  ASSUME NEW k \in Clients, NEW g \in Nat, NEW s \in Nat, IInv, MeteredSince(k, g, s), [Next]_vars
  PROVE  MeteredSince(k, g, s)'
  <1>0. clock \in Nat
    BY LimiterAssumption DEF IInv, TypeOK
  <1>1. buckets \in [Clients -> Bucket \cup {None}]
    BY DEF IInv, TypeOK
  <1>2. ASSUME NEW c \in Callers, Admit(c) PROVE MeteredSince(k, g, s)'
    <2> DEFINE b == [tokens |-> Burst - Cost, last |-> now[c], born |-> now[c], spent |-> Cost,
                     full |-> clock + Cost]
    <2>1. b.spent = Cost /\ b.full = clock + Cost
      OBVIOUS
    <2> HIDE DEF b
    <2>2. PICK u \in Survivors(now[c]) :
            buckets' = [j \in Clients |-> IF j = client[c] THEN b
                                          ELSE IF j \in u THEN buckets[j] ELSE None]
      BY <1>2 DEF Admit, b
    <2>3. buckets'[k] \in {b, buckets[k], None} /\ clock' = clock
      BY <1>2, <2>2 DEF Admit
    <2> QED
      BY <1>0, <2>1, <2>3, LimiterAssumption DEF MeteredSince, PaidOut
  <1>3. ASSUME NEW c \in Callers, Take(c) PROVE MeteredSince(k, g, s)'
    <2> DEFINE q == buckets[client[c]]
               b == Pay(Refill(q, now[c]))
    <2>1. q # None /\ client[c] \in Clients /\ buckets' = [buckets EXCEPT ![client[c]] = b]
          /\ clock' = clock
      BY <1>3 DEF Take, IInv, Recent
    <2>2. q.full \in Int /\ q.spent \in Nat
      BY <1>1, <2>1 DEF Bucket
    <2>3. b.spent = q.spent + Cost /\ b.full = (IF q.full > clock THEN q.full ELSE clock) + Cost
      BY DEF Pay, Refill
    <2> HIDE DEF b
    <2>4. CASE k = client[c]
      BY <1>0, <1>1, <2>1, <2>2, <2>3, <2>4, LimiterAssumption DEF MeteredSince, PaidOut
    <2>5. CASE k # client[c]
      BY <1>1, <2>1, <2>5 DEF MeteredSince, PaidOut
    <2> QED
      BY <2>4, <2>5
  <1>4. ASSUME NEW c \in Callers, Refuse(c) PROVE MeteredSince(k, g, s)'
    <2> DEFINE q == buckets[client[c]]
               r == Refill(q, now[c])
    <2>1. q # None /\ client[c] \in Clients /\ buckets' = [buckets EXCEPT ![client[c]] = r]
          /\ clock' = clock
      BY <1>4 DEF Refuse, IInv, Recent
    <2>2. r.spent = q.spent /\ r.full = q.full
      BY DEF Refill
    <2> HIDE DEF r
    <2> QED
      BY <1>1, <2>1, <2>2 DEF MeteredSince, PaidOut
  <1>5. CASE UNCHANGED buckets /\ clock' \in {clock, clock + 1}
    BY <1>0, <1>5 DEF MeteredSince, PaidOut
  <1> QED
    BY <1>2, <1>3, <1>4, <1>5 DEF Next, Allow, Tick, Enter, Leave, vars

\* The budget of any stretch of time, not of the life of a bucket alone: whenever
\* client k has been paid g at time s, what it is paid from then on is at most a
\* burst, the refill of the time since s, and the longest wait for the lock; a
\* client that is forgotten meanwhile is counted anew.
THEOREM BudgetSince ==
  ASSUME NEW k \in Clients, NEW g \in Nat, NEW s \in Nat
  PROVE  Spec => []( clock = s /\ PaidOut(k) = g =>
                       [](PaidOut(k) <= g + Burst + MaxSkew + (clock - s)) )
  <1> DEFINE From == clock = s /\ PaidOut(k) = g
             M == MeteredSince(k, g, s)
             Within == PaidOut(k) <= g + Burst + MaxSkew + (clock - s)
  <1>1. From => M
    BY DEF MeteredSince
  <1>2. IInv /\ M /\ [Next]_vars => M'
    BY MeteredNext
  <1>3. IInv /\ M => Within
    <2> SUFFICES ASSUME IInv, M PROVE Within
      OBVIOUS
    <2>1. clock \in Nat /\ clock >= s
      BY LimiterAssumption DEF IInv, TypeOK, MeteredSince
    <2>2. CASE buckets[k] = None
      BY <2>1, <2>2, LimiterAssumption DEF PaidOut
    <2>3. CASE buckets[k] # None
      <3>1. Sound(buckets[k])
        BY <2>3, SoundBuckets
      <3>2. buckets[k].full \in Int /\ buckets[k].spent \in Nat
        BY <3>1 DEF Sound, Bucket
      <3>3. buckets[k].full <= clock + Burst + MaxSkew
        <4>1. Balance(buckets[k], clock) \in Int /\ Balance(buckets[k], clock) >= 0
          BY <2>1, <3>1 DEF Sound, Bucket, Balance
        <4> QED
          BY <2>1, <3>1, <3>2, <4>1, LimiterAssumption DEF Sound
      <3> QED
        BY <2>1, <2>3, <3>2, <3>3, LimiterAssumption DEF MeteredSince, PaidOut
    <2> QED
      BY <2>2, <2>3
  <1> HIDE DEF From, M, Within
  <1>4. Spec => [](From => []Within)
    BY <1>1, <1>2, <1>3, InvCorrect, PTL DEF Spec
  <1> QED
    BY <1>4 DEF From, Within

=============================================================================
