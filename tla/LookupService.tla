---------------------------- MODULE LookupService ----------------------------
(***************************************************************************)
(* What the cache of cache.go promises the lookups that are built on it    *)
(* (asn.go, signals.go), with no table, lock or channel: callers ask about *)
(* keys, at most one query runs per key, and a caller gets an answer to    *)
(* its own question that is new to it or was still within its TTL when it  *)
(* asked.  Answers may be forgotten at any time.  TTLCache implements this.*)
(***************************************************************************)
EXTENDS Integers

CONSTANTS Callers, Keys, Outcomes, TTL, None

VARIABLES
  clock,     \* the time
  pending,   \* the question of each caller, [key, asked], or None
  running,   \* running[k]: a query for k is under way
  known      \* the answers the service can still give

vars == <<clock, pending, running, known>>

Init ==
  /\ clock = 0
  /\ pending = [c \in Callers |-> None]
  /\ running = [k \in Keys |-> FALSE]
  /\ known = {}

\* A caller asks; its question may start the query of the key, if none runs.
Ask(c, k) ==
  /\ pending[c] = None
  /\ pending' = [pending EXCEPT ![c] = [key |-> k, asked |-> clock]]
  /\ \/ UNCHANGED running
     \/ ~ running[k] /\ running' = [running EXCEPT ![k] = TRUE]
  /\ UNCHANGED <<clock, known>>

\* The query of a key ends with an outcome.
Finish(k, o) ==
  /\ running[k]
  /\ running' = [running EXCEPT ![k] = FALSE]
  /\ known' \subseteq known \cup {[key |-> k, out |-> o, at |-> clock]}
  /\ UNCHANGED <<clock, pending>>

\* Whether answer r may be given to question q.
Answers(r, q) ==
  /\ r.key = q.key
  /\ r.at >= q.asked \/ q.asked < r.at + TTL[r.out]

\* A caller gets its answer.
Return(c) ==
  /\ pending[c] # None
  /\ \E r \in known : Answers(r, pending[c])
  /\ pending' = [pending EXCEPT ![c] = None]
  /\ known' \subseteq known
  /\ UNCHANGED <<clock, running>>

Tick ==
  /\ clock' = clock + 1
  /\ UNCHANGED <<pending, running, known>>

Next ==
  \/ Tick
  \/ \E c \in Callers : Return(c) \/ \E k \in Keys : Ask(c, k)
  \/ \E k \in Keys, o \in Outcomes : Finish(k, o)

Spec == Init /\ [][Next]_vars

=============================================================================
