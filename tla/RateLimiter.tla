----------------------------- MODULE RateLimiter -----------------------------
(***************************************************************************)
(* The token bucket limiter of ratelimit.go that throttles lookups of      *)
(* other people's addresses: one mutex, one bucket per client, a capped    *)
(* map of buckets.  Allow reads the time BEFORE it takes the mutex, so     *)
(* goroutines reach the bucket with times that are out of order: Enter is  *)
(* the read of the time, Admit, Take and Refuse are the critical section.  *)
(*                                                                         *)
(* Tokens are counted in what one tick of the clock refills, which makes   *)
(* the refill rate one and a token worth Cost; the source's float64 is     *)
(* exact here.  A bucket carries three history fields: when it was born,   *)
(* what it has paid out since, and until when a limiter that did all this  *)
(* in one step would be paying it back.                                    *)
(***************************************************************************)
EXTENDS Integers, FiniteSets

CONSTANTS
  Callers,    \* the goroutines that serve requests
  Clients,    \* what limiterKey tells apart: v4 addresses, v6 /64s, "unknown"
  Cost,       \* one token
  Burst,      \* the capacity of a bucket, in the unit of Cost
  Max,        \* the cap of the bucket map
  MaxSkew,    \* bound of the model: ticks between reading the time and the lock
  MaxClock,   \* bound of the model: the clock stops there
  None        \* no bucket, no client

ASSUME LimiterAssumption ==
  /\ Cost \in Nat \ {0}
  /\ Burst \in Nat
  /\ Cost <= Burst
  /\ Max \in Nat \ {0}
  /\ MaxSkew \in Nat
  /\ MaxSkew <= Burst
  /\ MaxClock \in Nat
  /\ None \notin Clients

Bucket == [tokens : Int, last : Int, born : Int, spent : Nat, full : Int]

ASSUME NoneAssumption == None \notin Bucket

VARIABLES
  clock,     \* time.Now()
  buckets,   \* buckets[k] is None when the map has no bucket for k
  pc,        \* "idle", "lock" (time read, mutex wanted), "allowed" or "denied"
  client,    \* the client each goroutine asks for
  now        \* the time it read

vars == <<clock, buckets, pc, client, now>>

-----------------------------------------------------------------------------

Init ==
  /\ clock = 0
  /\ buckets = [k \in Clients |-> None]
  /\ pc = [c \in Callers |-> "idle"]
  /\ client = [c \in Callers |-> None]
  /\ now = [c \in Callers |-> 0]

Held == {k \in Clients : buckets[k] # None}

\* now := time.Now(), before the mutex.
Enter(c, k) ==
  /\ pc[c] = "idle"
  /\ pc' = [pc EXCEPT ![c] = "lock"]
  /\ client' = [client EXCEPT ![c] = k]
  /\ now' = [now EXCEPT ![c] = clock]
  /\ UNCHANGED <<clock, buckets>>

\* evictLocked: a bucket is idle after twice the time that fills an empty one.
Idle(b, t) == t - b.last > 2 * Burst

\* Mutant: eviction takes any bucket, idle or not.
SurvivorsAnyAge(t) ==
  IF Cardinality(Held) < Max THEN {Held}
  ELSE {s \in SUBSET Held : Cardinality(s) = Max - 1}

\* Allow makes room before it inserts: nothing goes while the map is below the
\* cap, else the idle buckets, then arbitrary ones until one place is free.
Survivors(t) ==
  LET active == {k \in Held : ~ Idle(buckets[k], t)}
  IN  IF Cardinality(Held) < Max THEN {Held}
      ELSE IF Cardinality(active) < Max THEN {active}
      ELSE {s \in SUBSET active : Cardinality(s) = Max - 1}

\* A client without a bucket gets a full one, less the token it came for.
Admit(c) ==
  LET b == [tokens |-> Burst - Cost, last |-> now[c], born |-> now[c], spent |-> Cost,
            full |-> clock + Cost]
  IN  /\ pc[c] = "lock"
      /\ buckets[client[c]] = None
      /\ \E s \in Survivors(now[c]) :
           buckets' = [k \in Clients |-> IF k = client[c] THEN b
                                         ELSE IF k \in s THEN buckets[k] ELSE None]
      /\ pc' = [pc EXCEPT ![c] = "allowed"]
      /\ UNCHANGED <<clock, client, now>>

\* Mutant: a bucket that nobody touches fills beyond its burst.
RefillUncapped(b, t) ==
  [tokens |-> b.tokens + (t - b.last), last |-> t,
   born |-> b.born, spent |-> b.spent, full |-> b.full]

\* The refill for the time since the bucket was last touched, capped at Burst.
\* With a time read before another goroutine's it is negative, and takes the
\* bucket back to that time.
Refill(b, t) ==
  LET filled == b.tokens + (t - b.last)
  IN  [tokens |-> IF filled > Burst THEN Burst ELSE filled, last |-> t,
       born |-> b.born, spent |-> b.spent, full |-> b.full]

\* One token paid out.
Pay(b) == [tokens |-> b.tokens - Cost, last |-> b.last,
           born |-> b.born, spent |-> b.spent + Cost,
           full |-> (IF b.full > clock THEN b.full ELSE clock) + Cost]

Take(c) ==
  /\ pc[c] = "lock"
  /\ buckets[client[c]] # None
  /\ LET b == Refill(buckets[client[c]], now[c])
     IN  /\ b.tokens >= Cost
         /\ buckets' = [buckets EXCEPT ![client[c]] = Pay(b)]
  /\ pc' = [pc EXCEPT ![c] = "allowed"]
  /\ UNCHANGED <<clock, client, now>>

\* Mutant: a refusal leaves the refill in the bucket and the old time on it.
RefuseOldTime(c) ==
  /\ pc[c] = "lock"
  /\ buckets[client[c]] # None
  /\ LET b == Refill(buckets[client[c]], now[c])
     IN  /\ b.tokens < Cost
         /\ buckets' = [buckets EXCEPT ![client[c]].tokens = b.tokens]
  /\ pc' = [pc EXCEPT ![c] = "denied"]
  /\ UNCHANGED <<clock, client, now>>

\* Mutant: a refusal empties the bucket.
RefuseEmptying(c) ==
  /\ pc[c] = "lock"
  /\ buckets[client[c]] # None
  /\ LET b == Refill(buckets[client[c]], now[c])
     IN  /\ b.tokens < Cost
         /\ buckets' = [buckets EXCEPT ![client[c]] = [b EXCEPT !.tokens = 0]]
  /\ pc' = [pc EXCEPT ![c] = "denied"]
  /\ UNCHANGED <<clock, client, now>>

Refuse(c) ==
  /\ pc[c] = "lock"
  /\ buckets[client[c]] # None
  /\ LET b == Refill(buckets[client[c]], now[c])
     IN  /\ b.tokens < Cost
         /\ buckets' = [buckets EXCEPT ![client[c]] = b]
  /\ pc' = [pc EXCEPT ![c] = "denied"]
  /\ UNCHANGED <<clock, client, now>>

Leave(c) ==
  /\ pc[c] \in {"allowed", "denied"}
  /\ pc' = [pc EXCEPT ![c] = "idle"]
  /\ client' = [client EXCEPT ![c] = None]
  /\ now' = [now EXCEPT ![c] = 0]
  /\ UNCHANGED <<clock, buckets>>

Tick ==
  /\ clock < MaxClock
  /\ \A c \in Callers : pc[c] = "lock" => clock - now[c] < MaxSkew
  /\ clock' = clock + 1
  /\ UNCHANGED <<buckets, pc, client, now>>

Allow(c) == Admit(c) \/ Take(c) \/ Refuse(c)

Next ==
  \/ Tick
  \/ \E c \in Callers : (\E k \in Clients : Enter(c, k)) \/ Allow(c) \/ Leave(c)

Spec == Init /\ [][Next]_vars

-----------------------------------------------------------------------------
(* Properties *)

\* What bucket b holds at time t, were it refilled then and not capped.
Balance(b, t) == b.tokens + (t - b.last)

\* A bucket never holds more than Burst, nor owes more than the longest wait
\* for the lock can have made it owe; its times are times already past.
TypeOK ==
  /\ clock \in 0..MaxClock
  /\ buckets \in [Clients -> Bucket \cup {None}]
  /\ \A k \in Held : /\ buckets[k].tokens \in (- MaxSkew)..Burst
                     /\ buckets[k].last \in 0..clock
                     /\ buckets[k].born \in 0..clock
  /\ pc \in [Callers -> {"idle", "lock", "allowed", "denied"}]
  /\ client \in [Callers -> Clients \cup {None}]
  /\ now \in [Callers -> 0..clock]

\* The limiter is not itself a memory lever: at most Max buckets.
Bounded == Cardinality(Held) <= Max

\* Over the life of a bucket a client is granted no more than a burst plus the
\* refill of the time that has passed, whatever the order in which goroutines
\* with older and newer times reach the bucket.
Budget ==
  \A k \in Held : buckets[k].spent <= Burst + (clock - buckets[k].born)

\* A refused request costs nothing: the client's balance at any time is
\* what it would have been had it not asked, so hammering does not starve it.
RefusalIsFree ==
  [][ \A c \in Callers : pc[c] = "lock" /\ pc'[c] = "denied" =>
        Balance(buckets'[client[c]], clock) = Balance(buckets[client[c]], clock) ]_vars

\* A bucket that is not full, the memory of what a client has used, is dropped
\* only when every place but the new client's is held by an active client.
EvictionSparesTheActive ==
  [][ \A c \in Callers :
        /\ pc[c] = "lock" /\ pc'[c] = "allowed"
        /\ \E k \in Held : buckets'[k] = None /\ Balance(buckets[k], clock) < Burst
        => /\ Cardinality(Held') = Max
           /\ \A k \in Held \cap Held' : ~ Idle(buckets[k], now[c]) ]_vars

-----------------------------------------------------------------------------
(* The service the limiter implements *)

asks == client
answer == [c \in Callers |-> IF pc[c] \in {"allowed", "denied"} THEN pc[c] ELSE "none"]
OnMeter(b, t) == IF b.full > t THEN b.full - t ELSE 0
meter == [k \in Clients |-> IF buckets[k] # None THEN OnMeter(buckets[k], clock) ELSE 0]

Service == INSTANCE LimiterService WITH known <- Held, Slack <- MaxSkew

\* Seen from its callers, the buckets with their times out of order are a limiter
\* with one time and a meter per client, but for as much as a goroutine may wait
\* for the mutex: nobody is granted more than that above its burst in any stretch
\* of time, and nobody is refused who has more than that left.
Implements == Service!Spec

=============================================================================
