----------------------------- MODULE WhoisCache -----------------------------
(***************************************************************************)
(* The WHOIS lookup of signals.go: a TTLCache keyed by announced prefix    *)
(* and registry, whose fn waits for one of Cap semaphore slots, dials a    *)
(* port-43 server and reads its answer.  The wait for a slot is given up   *)
(* when the request's context ends; the dial and the read are not bounded  *)
(* by one deadline but by one each.                                        *)
(*                                                                         *)
(* The variables of the cache are those of TTLCache, used through INSTANCE: *)
(* a goroutine whose pc is "fn" there is at some stage of fn here.         *)
(***************************************************************************)
EXTENDS Integers, FiniteSets, Goroutines

CONSTANTS
  Keys, Max,     \* as in TTLCache
  AnswerTTL,     \* whoisTTL
  ErrorTTL,      \* whoisErrorTTL
  Cap,           \* whoisMaxInFlight
  DialTimeout,   \* net.Dialer.Timeout
  ReadTimeout    \* the deadline set on a connection

\* Mutant: a failed query is remembered as long as an answer.
TTLFlat == [answered |-> AnswerTTL, failed |-> AnswerTTL, gaveup |-> 0]

\* What fn returns: an answer, with or without a brand, a transport error, or
\* nothing because the request ended in the queue; and how long each is cached.
TTL == [answered |-> AnswerTTL, failed |-> ErrorTTL, gaveup |-> 0]
Outcomes == {"answered", "failed", "gaveup"}

VARIABLES
  m, inflight, pc, key, start, on, got,   \* as in TTLCache
  stage,      \* where fn is: "none", "queue", "dial", "read", "done"
  slots,      \* the goroutines whose element is in the channel sem
  began,      \* when queryWhois was called
  deadline,   \* when the dial or the read times out
  answer      \* what queryWhois returned

Cache == INSTANCE TTLCache

ASSUME WhoisAssumption ==
  /\ AnswerTTL \in Nat /\ ErrorTTL \in Nat \ {0} /\ ErrorTTL < AnswerTTL
  /\ Cap \in Nat \ {0}
  /\ DialTimeout \in Nat \ {0} /\ ReadTimeout \in Nat \ {0}
  /\ Max \in Int /\ MaxClock \in Nat
  /\ None \notin Keys \cup Callers \cup Cache!Result \cup Cache!Entry \cup Cache!Question

cacheVars == <<clock, m, inflight, pc, key, start, on, got>>
fnVars == <<stage, slots, began, deadline, answer>>
vars == <<cacheVars, fnVars>>

-----------------------------------------------------------------------------

Init ==
  /\ Cache!Init
  /\ stage = [c \in Callers |-> "none"]
  /\ slots = {}
  /\ began = [c \in Callers |-> 0]
  /\ deadline = [c \in Callers |-> 0]
  /\ answer = [c \in Callers |-> None]

\* A request asks about a network: the cache answers, the request joins a query
\* in flight, or it leads one and first has to get a slot.
Lookup(c, k) ==
  \/ (Cache!Hit(c, k) \/ Cache!Join(c, k)) /\ UNCHANGED fnVars
  \/ /\ Cache!Lead(c, k)
     /\ stage' = [stage EXCEPT ![c] = "queue"]
     /\ UNCHANGED <<slots, began, deadline, answer>>

\* case c.sem <- struct{}{}: taken even when the context is done as well, since
\* select chooses freely among the cases that are ready.
Acquire(c) ==
  /\ stage[c] = "queue"
  /\ Cardinality(slots) < Cap
  /\ slots' = slots \cup {c}
  /\ stage' = [stage EXCEPT ![c] = "dial"]
  /\ began' = [began EXCEPT ![c] = clock]
  /\ deadline' = [deadline EXCEPT ![c] = clock + DialTimeout]
  /\ UNCHANGED <<cacheVars, answer>>

\* Mutant: giving up returns from Do and leaves the call in flight.
GiveUpAndVanish(c) ==
  /\ stage[c] = "queue"
  /\ stage' = [stage EXCEPT ![c] = "none"]
  /\ pc' = [pc EXCEPT ![c] = "ret"]
  /\ UNCHANGED <<clock, m, inflight, key, start, on, got>>
  /\ UNCHANGED <<slots, began, deadline, answer>>

\* case <-ctx.Done(): the client of the leading request disconnects, which may
\* happen at any time and is looked at only here and by the dial.
GiveUp(c) ==
  /\ stage[c] = "queue"
  /\ stage' = [stage EXCEPT ![c] = "done"]
  /\ answer' = [answer EXCEPT ![c] = "gaveup"]
  /\ UNCHANGED <<cacheVars, slots, began, deadline>>

\* Mutant: an error returns before the deferred release is in place.
QueryReturnsLeaky(c, o) ==
  /\ \/ stage[c] = "read" /\ o \in {"answered", "failed"}
     \/ stage[c] = "dial" /\ o = "failed"
  /\ slots' = IF o = "failed" THEN slots ELSE slots \ {c}
  /\ stage' = [stage EXCEPT ![c] = "done"]
  /\ answer' = [answer EXCEPT ![c] = o]
  /\ began' = [began EXCEPT ![c] = 0]
  /\ deadline' = [deadline EXCEPT ![c] = 0]
  /\ UNCHANGED cacheVars

\* Mutant: the connection is read without a deadline.
ConnectForever(c) ==
  /\ stage[c] = "dial"
  /\ stage' = [stage EXCEPT ![c] = "read"]
  /\ deadline' = [deadline EXCEPT ![c] = MaxClock + ReadTimeout]
  /\ UNCHANGED <<cacheVars, slots, began, answer>>

\* The connection is made and gets its own deadline.
Connect(c) ==
  /\ stage[c] = "dial"
  /\ stage' = [stage EXCEPT ![c] = "read"]
  /\ deadline' = [deadline EXCEPT ![c] = clock + ReadTimeout]
  /\ UNCHANGED <<cacheVars, slots, began, answer>>

\* queryWhois returns, and the deferred receive frees the slot: the dial fails,
\* times out or is cancelled, or the read ends with an answer or an error.
QueryReturns(c, o) ==
  /\ \/ stage[c] = "read" /\ o \in {"answered", "failed"}
     \/ stage[c] = "dial" /\ o = "failed"
  /\ slots' = slots \ {c}
  /\ stage' = [stage EXCEPT ![c] = "done"]
  /\ answer' = [answer EXCEPT ![c] = o]
  /\ began' = [began EXCEPT ![c] = 0]
  /\ deadline' = [deadline EXCEPT ![c] = 0]
  /\ UNCHANGED cacheVars

\* fn has returned; Do publishes what it returned.
Publish(c) ==
  /\ stage[c] = "done"
  /\ Cache!Publish(c, answer[c])
  /\ stage' = [stage EXCEPT ![c] = "none"]
  /\ answer' = [answer EXCEPT ![c] = None]
  /\ UNCHANGED <<slots, began, deadline>>

Close(c) == Cache!Close(c) /\ UNCHANGED fnVars

\* Lookup returns.
Return(c) == Cache!Return(c) /\ UNCHANGED fnVars

\* Timeouts fire on time: the clock does not pass a deadline.
Tick ==
  /\ Cache!Tick
  /\ \A c \in Callers : stage[c] \in {"dial", "read"} => clock < deadline[c]
  /\ UNCHANGED fnVars

Query(c) == Connect(c) \/ \E o \in Outcomes : QueryReturns(c, o)

Next ==
  \/ Tick
  \/ \E c \in Callers :
       \/ \E k \in Keys : Lookup(c, k)
       \/ Acquire(c) \/ GiveUp(c) \/ Query(c)
       \/ Publish(c) \/ Close(c) \/ Return(c)

Spec == Init /\ [][Next]_vars

\* Goroutines keep running and a query ends at its deadline at the latest; the
\* runtime queues the senders of a channel, so a request waiting for a slot is
\* not passed over for ever.  No client need disconnect and time need not pass.
FairSpec ==
  /\ Spec
  /\ \A c \in Callers : /\ SF_vars(Acquire(c))
                        /\ WF_vars(Query(c))
                        /\ WF_vars(Publish(c) \/ Close(c) \/ Return(c))

-----------------------------------------------------------------------------
(* Properties *)

Querying == {c \in Callers : stage[c] \in {"dial", "read"}}

\* A slot is held exactly while a query runs, so no more than Cap run at once:
\* none leaks on any path, of the timeouts, the errors, the abandoned requests.
SlotsReturned == slots = Querying /\ Cardinality(Querying) <= Cap

\* A slow registry keeps a slot, and with it its place in the queue of all the
\* others, for the dial's timeout and the read deadline together, no longer.
HeldBriefly == \A c \in slots : clock - began[c] <= DialTimeout + ReadTimeout

\* Only an answer of the registry masks a network for the long TTL: a failure is
\* forgotten after the short one, and a request that gave up leaves no trace.
OnlyAnswersLast ==
  \A k \in Keys : m[k] # None =>
    \/ m[k].val.out = "answered"
    \/ m[k].val.out = "failed" /\ m[k].expires <= m[k].val.at + ErrorTTL

\* No wait of a lookup is for a goroutine that has left, or in a circle: a follower
\* waits for one with its key that is still at some stage of fn or about to close its
\* call, and one in the queue for queries alone, which wait for nobody.
QueueEnds ==
  \A c \in Callers :
    /\ pc[c] = "wait" =>
         /\ on[c] \in Callers
         /\ key[on[c]] = key[c]
         /\ pc[on[c]] = "close" \/ stage[on[c]] # "none"
    /\ stage[c] = "queue" /\ Cardinality(slots) >= Cap =>
         slots # {} /\ \A d \in slots : pc[d] = "fn" /\ stage[d] \in {"dial", "read"}

\* Every lookup returns, although slots are scarce, leaders queue for them and
\* followers wait for leaders whatever becomes of their own requests.
EveryLookupReturns == \A c \in Callers : pc[c] # "idle" ~> pc[c] = "idle"

=============================================================================
