----------------------------- MODULE VpnRefresh -----------------------------
(***************************************************************************)
(* The refresh loop of vpn.go: one goroutine per feed fetches and sends    *)
(* its result on a buffered channel; the loop waits for all of them, lays  *)
(* what came over the data it has, and publishes a new snapshot through an *)
(* atomic pointer that the request handlers read.  Then it sleeps until    *)
(* its ticker or the end of the process wakes it.                          *)
(*                                                                         *)
(* A feed's data is abstracted to the number of the refresh that fetched   *)
(* it, 0 standing for no data.  What is derived from the data is the       *)
(* subject of VpnSnapshot.                                                 *)
(***************************************************************************)
EXTENDS Integers, FiniteSets

CONSTANTS
  Sources,     \* the feeds
  MaxRounds    \* bound of the model: refreshes before the ticker stops

ASSUME RefreshAssumption ==
  /\ IsFiniteSet(Sources)
  /\ MaxRounds \in Nat \ {0}

VARIABLES
  pc,         \* the loop: "refresh", "wait", "mark", "select" or "exit"
  round,      \* the number of refreshes begun
  jobs,       \* the goroutine of each feed: "none", "fetch", "send" or "done"
  fetched,    \* what the goroutine of each feed has got
  ch,         \* the results in the channel's buffer
  snap,       \* the published snapshot: the data of each feed, and ready
  fresh,      \* how many feeds the last refresh renewed
  loadedAt,   \* server.loadedAt, as the refresh that set it; 0 is nil
  ticked,     \* a tick waits in the ticker's channel
  stopped,    \* the context of the process is done
  good        \* history: the last good data any goroutine fetched, by feed

vars == <<pc, round, jobs, fetched, ch, snap, fresh, loadedAt, ticked, stopped, good>>

-----------------------------------------------------------------------------

NoResult(s) == [name |-> s, data |-> 0, err |-> TRUE]

\* newVPNDB publishes an empty snapshot that says it is not ready.
Init ==
  /\ pc = "refresh"
  /\ round = 0
  /\ jobs = [s \in Sources |-> "none"]
  /\ fetched = [s \in Sources |-> NoResult(s)]
  /\ ch = {}
  /\ snap = [sources |-> [s \in Sources |-> 0], ready |-> FALSE]
  /\ fresh = 0
  /\ loadedAt = 0
  /\ ticked = FALSE
  /\ stopped = FALSE
  /\ good = [s \in Sources |-> 0]

\* refresh starts every fetch at once.
Start ==
  /\ pc = "refresh"
  /\ pc' = "wait"
  /\ round' = round + 1
  /\ jobs' = [s \in Sources |-> "fetch"]
  /\ UNCHANGED <<fetched, ch, snap, fresh, loadedAt, ticked, stopped, good>>

\* What a fetcher makes of a body: data; nothing, when no record of a valid
\* payload has an address that parses; or an error, when the payload is not valid.
Parsed(s) ==
  {[name |-> s, data |-> round, err |-> FALSE], [name |-> s, data |-> 0, err |-> FALSE],
   NoResult(s)}

\* A fetch ends: with what the body gives, or with an error of the transport, the
\* status or the size, which is all it can end with once the context is done.
Fetch(s) ==
  /\ jobs[s] = "fetch"
  /\ jobs' = [jobs EXCEPT ![s] = "send"]
  /\ \E r \in IF stopped THEN {NoResult(s)} ELSE Parsed(s) :
       /\ fetched' = [fetched EXCEPT ![s] = r]
       /\ good' = [good EXCEPT ![s] = IF r.data # 0 THEN r.data ELSE good[s]]
  /\ UNCHANGED <<pc, round, ch, snap, fresh, loadedAt, ticked, stopped>>

\* Mutant: the buffer has one place too few.
CapacityShort == Cardinality(Sources) - 1

\* make(chan fetchResult, total): the loop does not receive before every
\* goroutine has sent.
Capacity == Cardinality(Sources)

\* The send, and then the goroutine's wg.Done.
Send(s) ==
  /\ jobs[s] = "send"
  /\ Cardinality(ch) < Capacity
  /\ ch' = ch \cup {fetched[s]}
  /\ jobs' = [jobs EXCEPT ![s] = "done"]
  /\ UNCHANGED <<pc, round, fetched, snap, fresh, loadedAt, ticked, stopped, good>>

\* Mutant: a payload without entries is taken for an answer.
RenewedAnyPayload == {r.name : r \in {q \in ch : ~ q.err}}

\* The feeds that gave data: neither an error nor an empty payload.
Renewed == {r.name : r \in {q \in ch : ~ q.err /\ q.data # 0}}

\* Mutant: the new snapshot is made of this refresh's data alone.
OverlayNothing(s) == IF s \in Renewed THEN fetched[s].data ELSE 0

\* A feed that gave nothing keeps the data of the previous snapshot.
Overlay(s) == IF s \in Renewed THEN fetched[s].data ELSE snap.sources[s]

\* wg.Wait, the loop over the results, buildSnapshot and the publication.
Publish ==
  LET sources == [s \in Sources |-> Overlay(s)]
  IN  /\ pc = "wait"
      /\ \A s \in Sources : jobs[s] = "done"
      /\ snap' = [sources |-> sources, ready |-> \E s \in Sources : sources[s] # 0]
      /\ fresh' = Cardinality(Renewed)
      /\ ch' = {}
      /\ jobs' = [s \in Sources |-> "none"]
      /\ fetched' = [s \in Sources |-> NoResult(s)]
      /\ pc' = "mark"
      /\ UNCHANGED <<round, loadedAt, ticked, stopped, good>>

\* if d.Ready() { markLoaded() }, whatever this refresh brought.
Mark ==
  /\ pc = "mark"
  /\ loadedAt' = IF snap.ready THEN round ELSE loadedAt
  /\ pc' = "select"
  /\ UNCHANGED <<round, jobs, fetched, ch, snap, fresh, ticked, stopped, good>>

\* The two cases of the select; it chooses freely when both are ready.
Wake ==
  /\ pc = "select"
  /\ ticked
  /\ ticked' = FALSE
  /\ pc' = "refresh"
  /\ UNCHANGED <<round, jobs, fetched, ch, snap, fresh, loadedAt, stopped, good>>

Exit ==
  /\ pc = "select"
  /\ stopped
  /\ pc' = "exit"
  /\ UNCHANGED <<round, jobs, fetched, ch, snap, fresh, loadedAt, ticked, stopped, good>>

\* Six hours have passed since the last tick.  The ticker is made after the
\* first refresh, and its channel holds one tick: a slow refresh loses others.
TickerFires ==
  /\ IF pc = "refresh" THEN round + 1 < MaxRounds ELSE round < MaxRounds
  /\ pc # "exit"
  /\ round > 1 \/ pc = "select"
  /\ ticked' = TRUE
  /\ UNCHANGED <<pc, round, jobs, fetched, ch, snap, fresh, loadedAt, stopped, good>>

\* SIGTERM, SIGINT, or the listener's error.
Stop ==
  /\ ~ stopped
  /\ stopped' = TRUE
  /\ UNCHANGED <<pc, round, jobs, fetched, ch, snap, fresh, loadedAt, ticked, good>>

Loop == Start \/ Publish \/ Mark \/ Wake \/ Exit

Next == Loop \/ TickerFires \/ Stop \/ \E s \in Sources : Fetch(s) \/ Send(s)

Spec == Init /\ [][Next]_vars

\* The loop and the fetches keep running: the HTTP client has a timeout.
RefreshFairness ==
  /\ WF_vars(Loop)
  /\ \A s \in Sources : WF_vars(Fetch(s)) /\ WF_vars(Send(s))

-----------------------------------------------------------------------------
(* Properties *)

\* Between two refreshes the snapshot serves, for every feed, the last data the
\* feed ever gave: none is lost to an error, an empty payload, the failure of
\* another feed or a refresh that the shutdown cut short.
LastKnownGood == pc \notin {"refresh", "wait"} => snap.sources = good

\* Once there is detection data the process never says again that there is none.
StaysReady == [][snap.ready /\ round' # 0 => snap'.ready]_vars

\* Every refresh ends, with the process if not before, although nothing is
\* received before everything is sent.
RefreshEnds == pc = "wait" ~> pc \in {"mark", "exit"}

\* "loadedAt is set when the VPN DB has its first successful refresh": a refresh
\* that renewed no feed does not set it.
LoadedBySuccess == [][loadedAt' # loadedAt => fresh > 0]_vars

=============================================================================
