--------------------------- MODULE LimiterService ---------------------------
(***************************************************************************)
(* What the limiter of ratelimit.go promises to the callers of Allow, with *)
(* no mutex, bucket or time of one's own.  There is one time, and a meter  *)
(* per client: a grant puts its cost on the meter, which runs back by one  *)
(* a tick, down to zero.  A client whose meter has room for another cost   *)
(* below Burst is granted what it asks for, and one whose meter has not is *)
(* refused; Slack is how near to Burst the answer may be either.  A client *)
(* is forgotten only to make room for another.                             *)
(***************************************************************************)
EXTENDS Integers, FiniteSets

CONSTANTS Callers, Clients, Cost, Burst, Max, Slack, None

VARIABLES
  asks,     \* the client each caller asks for, or None
  answer,   \* "none", "allowed" or "denied"
  known,    \* the clients that are remembered
  meter     \* what each client has on its meter

vars == <<asks, answer, known, meter>>

Init ==
  /\ asks = [c \in Callers |-> None]
  /\ answer = [c \in Callers |-> "none"]
  /\ known = {}
  /\ meter = [k \in Clients |-> 0]

Ask(c, k) ==
  /\ asks[c] = None
  /\ asks' = [asks EXCEPT ![c] = k]
  /\ UNCHANGED <<answer, known, meter>>

\* The clients that can be remembered next to one that is granted: all, unless it
\* is new and there is no room for it; with it they are never more than Max.
Remembered(k) ==
  {s \in SUBSET known : /\ s # known => k \notin known /\ Cardinality(known) >= Max
                        /\ Cardinality(s \cup {k}) <= Max}

Grant(c, k) ==
  /\ asks[c] = k /\ answer[c] = "none"
  /\ meter[k] + Cost <= Burst + Slack
  /\ \E s \in Remembered(k) :
       /\ known' = s \cup {k}
       /\ meter' = [j \in Clients |-> IF j = k THEN meter[k] + Cost
                                      ELSE IF j \in s THEN meter[j] ELSE 0]
  /\ answer' = [answer EXCEPT ![c] = "allowed"]
  /\ UNCHANGED asks

\* A client that is not remembered is never refused.
Deny(c, k) ==
  /\ asks[c] = k /\ answer[c] = "none"
  /\ k \in known
  /\ meter[k] + Cost > Burst - Slack
  /\ answer' = [answer EXCEPT ![c] = "denied"]
  /\ UNCHANGED <<asks, known, meter>>

Return(c) ==
  /\ answer[c] # "none"
  /\ asks' = [asks EXCEPT ![c] = None]
  /\ answer' = [answer EXCEPT ![c] = "none"]
  /\ UNCHANGED <<known, meter>>

Tick ==
  /\ meter' = [k \in Clients |-> IF meter[k] = 0 THEN 0 ELSE meter[k] - 1]
  /\ UNCHANGED <<asks, answer, known>>

Next ==
  \/ Tick
  \/ \E c \in Callers : Return(c) \/ \E k \in Clients : Ask(c, k) \/ Grant(c, k) \/ Deny(c, k)

Spec == Init /\ [][Next]_vars

=============================================================================
