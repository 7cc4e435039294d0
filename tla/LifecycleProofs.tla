-------------------------- MODULE LifecycleProofs --------------------------
(***************************************************************************)
(* Proofs about Lifecycle, and with it about the refresh loop of           *)
(* VpnRefresh, for any feeds, connections, grace period and number of      *)
(* refreshes and crashes.  The invariant of the loop says what a feed's    *)
(* goroutine and the channel hold of it at each stage of a refresh; that   *)
(* of the server, that a request of a draining server is at least as old   *)
(* as the drain, or its connection is.                                     *)
(***************************************************************************)
EXTENDS Lifecycle, FiniteSetTheorems, TLAPS

CONSTANTS
  Feeds, Brands, Addresses, V4, Routable, NoAddr, TrustCF,   \* see Verdict and Request
  TablesOf   \* TablesOf[d]: what the tables made of the feeds' data d tell of an address

TypeInv ==
  /\ round \in Nat
  /\ jobs \in [Sources -> {"none", "fetch", "send", "done"}]
  /\ fetched \in [Sources -> [name : Sources, data : Nat, err : BOOLEAN]]
  /\ snap \in [sources : [Sources -> Nat], ready : BOOLEAN]
  /\ good \in [Sources -> Nat]

\* Whether what the goroutine of feed s has got is data.
Got(s) == ~ fetched[s].err /\ fetched[s].data # 0

\* Between two refreshes no goroutine runs, the channel is empty and the snapshot
\* has the last good data.
Resting ==
  pc # "wait" =>
    /\ \A s \in Sources : jobs[s] = "none"
    /\ ch = {}
    /\ snap.sources = good

\* During a refresh the last good data of a feed is what its goroutine got, or
\* else what the snapshot still has; and the channel holds what was sent.
Fetching ==
  pc = "wait" =>
    /\ ch = {fetched[s] : s \in {t \in Sources : jobs[t] = "done"}}
    /\ \A s \in Sources : /\ jobs[s] # "none"
                          /\ jobs[s] = "fetch" => good[s] = snap.sources[s]

Carried ==
  \A s \in Sources : jobs[s] \in {"send", "done"} =>
    /\ fetched[s].name = s
    /\ good[s] = IF Got(s) THEN fetched[s].data ELSE snap.sources[s]

ReadyInv == snap.ready <=> \E s \in Sources : snap.sources[s] # 0

LoopInv == TypeInv /\ Resting /\ Fetching /\ Carried /\ ReadyInv

-----------------------------------------------------------------------------
(* The refresh loop *)

LEMMA FetchedType ==
  ASSUME NEW s \in Sources
  PROVE  NoResult(s) \in [name : Sources, data : Nat, err : BOOLEAN]
  BY DEF NoResult

LEMMA InitLoop == Init => LoopInv
  <1> SUFFICES ASSUME Init PROVE LoopInv
    OBVIOUS
  <1> USE DEF Init
  <1>1. TypeInv
    BY FetchedType DEF TypeInv
  <1>2. Resting /\ Fetching /\ Carried /\ ReadyInv
    BY DEF Resting, Fetching, Carried, ReadyInv
  <1> QED
    BY <1>1, <1>2 DEF LoopInv

LEMMA StartKeeps == LoopInv /\ Start => LoopInv'
  <1> SUFFICES ASSUME LoopInv, Start PROVE LoopInv'
    OBVIOUS
  <1> USE DEF LoopInv, Start
  <1>1. TypeInv'
    BY DEF TypeInv
  <1>2. Resting' /\ Carried' /\ ReadyInv'
    BY DEF Resting, Carried, ReadyInv, TypeInv
  <1>3. Fetching'
    <2>1. {fetched'[s] : s \in {t \in Sources : jobs'[t] = "done"}} = {}
      OBVIOUS
    <2> QED
      BY <2>1 DEF Fetching, Resting
  <1> QED
    BY <1>1, <1>2, <1>3

LEMMA FetchKeeps == ASSUME LoopInv, NEW s \in Sources, Fetch(s) PROVE LoopInv'
  <1> USE DEF LoopInv
  <1>1. PICK r \in Parsed(s) \cup {NoResult(s)} :
          /\ fetched' = [fetched EXCEPT ![s] = r]
          /\ good' = [good EXCEPT ![s] = IF r.data # 0 THEN r.data ELSE good[s]]
    BY DEF Fetch
  <1>2. /\ r \in [name : Sources, data : Nat, err : BOOLEAN]
        /\ r.name = s
        /\ r.err => r.data = 0
    <2>1. CASE r = NoResult(s)
      BY <2>1, FetchedType DEF NoResult
    <2>2. CASE r # NoResult(s)
      <3>1. \/ r = [name |-> s, data |-> round, err |-> FALSE]
            \/ r = [name |-> s, data |-> 0, err |-> FALSE]
        BY <1>1, <2>2 DEF Parsed
      <3>2. r.name = s /\ r.err = FALSE
        BY <3>1
      <3>3. r \in [name : Sources, data : Nat, err : BOOLEAN]
        <4>1. round \in Nat /\ 0 \in Nat
          BY DEF TypeInv
        <4>2. \A d \in Nat : [name |-> s, data |-> d, err |-> FALSE]
                               \in [name : Sources, data : Nat, err : BOOLEAN]
          OBVIOUS
        <4> QED
          BY <3>1, <4>1, <4>2
      <3> QED
        BY <3>2, <3>3
    <2> QED
      BY <2>1, <2>2
  <1>3. pc = "wait" /\ jobs[s] = "fetch" /\ jobs' = [jobs EXCEPT ![s] = "send"]
    BY DEF Fetch, Resting, TypeInv
  <1>4. UNCHANGED <<pc, round, ch, snap>>
    BY DEF Fetch
  <1>5. TypeInv'
    BY <1>1, <1>2, <1>3, <1>4 DEF TypeInv
  <1>6. Resting' /\ ReadyInv'
    BY <1>3, <1>4 DEF Resting, ReadyInv
  <1>7. Fetching'
    <2>1. \A t \in Sources : jobs'[t] = "done" <=> jobs[t] = "done"
      BY <1>3 DEF TypeInv
    <2>2. \A t \in Sources : jobs[t] = "done" => fetched'[t] = fetched[t]
      BY <1>1, <1>3 DEF TypeInv
    <2>3. \A t \in Sources : /\ jobs'[t] # "none"
                             /\ jobs'[t] = "fetch" => good'[t] = snap.sources[t]
      BY <1>1, <1>3 DEF TypeInv, Fetching
    <2>4. {fetched'[t] : t \in {u \in Sources : jobs'[u] = "done"}} = ch
      BY <1>3, <2>1, <2>2 DEF Fetching
    <2> QED
      BY <1>3, <1>4, <2>3, <2>4 DEF Fetching
  <1>8. Carried'
    <2> SUFFICES ASSUME NEW t \in Sources, jobs'[t] \in {"send", "done"}
                 PROVE  /\ fetched'[t].name = t
                        /\ good'[t] = IF Got(t)' THEN fetched'[t].data ELSE snap'.sources[t]
      BY DEF Carried
    <2>1. CASE t = s
      <3>1. fetched'[s] = r /\ good'[s] = IF r.data # 0 THEN r.data ELSE good[s]
        BY <1>1 DEF TypeInv
      <3>2. good[s] = snap.sources[s]
        BY <1>3 DEF Fetching
      <3> QED
        BY <2>1, <3>1, <3>2, <1>2, <1>4 DEF Got
    <2>2. CASE t # s
      <3>1. fetched'[t] = fetched[t] /\ good'[t] = good[t] /\ jobs'[t] = jobs[t]
        BY <2>2, <1>1, <1>3 DEF TypeInv
      <3> QED
        BY <3>1, <1>4 DEF Carried, Got
    <2> QED
      BY <2>1, <2>2
  <1> QED
    BY <1>5, <1>6, <1>7, <1>8

LEMMA SendKeeps == ASSUME LoopInv, NEW s \in Sources, Send(s) PROVE LoopInv'
  <1> USE DEF LoopInv
  <1>1. /\ pc = "wait" /\ jobs[s] = "send"
        /\ jobs' = [jobs EXCEPT ![s] = "done"]
        /\ ch' = ch \cup {fetched[s]}
        /\ UNCHANGED <<pc, round, fetched, snap, good>>
    BY DEF Send, Resting, TypeInv
  <1>2. TypeInv' /\ Resting' /\ ReadyInv'
    BY <1>1 DEF TypeInv, Resting, ReadyInv
  <1>3. Carried'
    BY <1>1 DEF Carried, Got, TypeInv
  <1>4. Fetching'
    <2>1. \A t \in Sources : jobs'[t] = "done" <=> jobs[t] = "done" \/ t = s
      BY <1>1 DEF TypeInv
    <2>2. ch' = {fetched[t] : t \in {u \in Sources : jobs'[u] = "done"}}
      BY <1>1, <2>1 DEF Fetching
    <2>3. \A t \in Sources : /\ jobs'[t] # "none"
                             /\ jobs'[t] = "fetch" => good[t] = snap.sources[t]
      BY <1>1 DEF TypeInv, Fetching
    <2> QED
      BY <1>1, <2>2, <2>3 DEF Fetching
  <1> QED
    BY <1>2, <1>3, <1>4

\* What a refresh renews is what its goroutines got.
LEMMA RenewedIsGot ==
  ASSUME LoopInv, pc = "wait", \A s \in Sources : jobs[s] = "done"
  PROVE  \A s \in Sources : s \in Renewed <=> Got(s)
  <1>1. ch = {fetched[s] : s \in Sources}
    BY DEF LoopInv, Fetching
  <1>2. \A s \in Sources : fetched[s].name = s
    BY DEF LoopInv, Carried
  <1> QED
    BY <1>1, <1>2 DEF Renewed, Got

LEMMA PublishEffect ==
  ASSUME LoopInv, Publish
  PROVE  /\ snap' \in [sources : [Sources -> Nat], ready : BOOLEAN]
         /\ snap'.sources = good
         /\ snap'.ready <=> \E s \in Sources : snap'.sources[s] # 0
         /\ snap.ready => snap'.ready
  <1> DEFINE sources == [s \in Sources |-> Overlay(s)]
  <1>1. pc = "wait" /\ \A s \in Sources : jobs[s] = "done"
    BY DEF Publish
  <1>2. snap' = [sources |-> sources, ready |-> \E s \in Sources : sources[s] # 0]
    BY DEF Publish
  <1>3. \A s \in Sources : Overlay(s) = good[s]
    BY <1>1, RenewedIsGot DEF Overlay, LoopInv, Carried
  <1>4. sources = good /\ good \in [Sources -> Nat]
    BY <1>3 DEF LoopInv, TypeInv
  <1>5. ASSUME snap.ready PROVE \E s \in Sources : good[s] # 0
    <2>1. PICK s \in Sources : snap.sources[s] # 0
      BY <1>5 DEF LoopInv, ReadyInv
    <2>2. good[s] # 0
      BY <1>1, <2>1 DEF LoopInv, Carried, Got
    <2> QED
      BY <2>2
  <1> HIDE DEF sources
  <1>6. snap'.sources = good /\ (snap'.ready <=> \E s \in Sources : good[s] # 0)
    BY <1>2, <1>4
  <1>7. snap' \in [sources : [Sources -> Nat], ready : BOOLEAN]
    BY <1>2, <1>4
  <1> QED
    BY <1>5, <1>6, <1>7

LEMMA PublishKeeps == LoopInv /\ Publish => LoopInv'
  <1> SUFFICES ASSUME LoopInv, Publish PROVE LoopInv'
    OBVIOUS
  <1>1. /\ pc' = "mark" /\ ch' = {} /\ good' = good /\ round' = round
        /\ jobs' = [s \in Sources |-> "none"]
        /\ fetched' = [s \in Sources |-> NoResult(s)]
    BY DEF Publish
  <1>2. TypeInv'
    BY <1>1, PublishEffect, FetchedType DEF LoopInv, TypeInv
  <1>3. Resting' /\ Fetching' /\ Carried'
    BY <1>1, PublishEffect DEF Resting, Fetching, Carried
  <1>4. ReadyInv'
    BY PublishEffect DEF ReadyInv
  <1> QED
    BY <1>2, <1>3, <1>4 DEF LoopInv

\* The steps that touch neither the data nor the goroutines, and do not enter or
\* leave a refresh.
LEMMA LoopFrame ==
  ASSUME LoopInv, UNCHANGED <<round, jobs, fetched, ch, snap, good>>,
         pc' = pc \/ (pc # "wait" /\ pc' # "wait")
  PROVE  LoopInv'
  <1> USE DEF LoopInv
  <1>1. TypeInv' /\ ReadyInv'
    BY DEF TypeInv, ReadyInv
  <1>2. Resting' /\ Fetching'
    BY DEF Resting, Fetching
  <1>3. Carried'
    BY DEF Carried, Got
  <1> QED
    BY <1>1, <1>2, <1>3

LEMMA RefreshKeeps == LoopInv /\ Refresh => LoopInv'
  <1> SUFFICES ASSUME LoopInv, Refresh PROVE LoopInv'
    OBVIOUS
  <1>1. CASE Start
    BY <1>1, StartKeeps
  <1>2. CASE Publish
    BY <1>2, PublishKeeps
  <1>3. CASE Mark \/ Wake \/ Exit \/ TickerFires \/ Stop
    BY <1>3, LoopFrame DEF Mark, Wake, Exit, TickerFires, Stop
  <1>4. CASE \E s \in Sources : Fetch(s) \/ Send(s)
    BY <1>4, FetchKeeps, SendKeeps
  <1> QED
    BY <1>1, <1>2, <1>3, <1>4 DEF Refresh, Loop

\* What is left of a process that has died.
LEMMA DieKeeps == Die => LoopInv'
  <1> SUFFICES ASSUME Die PROVE LoopInv'
    OBVIOUS
  <1> USE DEF Die
  <1>1. TypeInv'
    BY FetchedType DEF TypeInv
  <1>2. Resting' /\ Fetching' /\ Carried' /\ ReadyInv'
    BY DEF Resting, Fetching, Carried, ReadyInv
  <1> QED
    BY <1>1, <1>2 DEF LoopInv

-----------------------------------------------------------------------------
(* The server *)

\* A draining server takes no connections, keeps none that is idle, and every
\* request it still serves, or else its connection, is as old as the drain; so is a
\* connection from which a first request may yet come.
ServerInv ==
  /\ main \in {"serving", "draining", "gone"}
  /\ unit # "running" => main = "gone" /\ pc = "exit"
  /\ waited \in 0..Grace
  /\ crashes \in Nat
  /\ conn \in [Conns -> {"none", "new", "idle", "active", "late"}]
  /\ age \in [Conns -> 0..Grace]
  /\ main # "draining" => waited = 0
  /\ main = "draining" =>
       /\ listener = "closed"
       /\ \A c \in Conns : conn[c] # "idle" /\ (conn[c] # "none" => age[c] >= waited)

LEMMA ServerInit == LifeInit => ServerInv
  BY LifecycleAssumption DEF LifeInit, ServerInv

LEMMA ServerKeeps == ServerInv /\ LifeNext => ServerInv'
  <1> SUFFICES ASSUME ServerInv, LifeNext PROVE ServerInv'
    OBVIOUS
  <1> USE LifecycleAssumption DEF ServerInv
  <1>1. CASE Bind
    BY <1>1 DEF Bind
  <1>2. CASE ListenerFails
    BY <1>2 DEF ListenerFails
  <1>3. CASE Drain
    BY <1>3 DEF Drain
  <1>4. CASE unit = "running" /\ Tick
    BY <1>4 DEF Tick, Older, vars
  <1>5. CASE MainReturns \/ Crash
    BY <1>5 DEF MainReturns, Crash, Die
  <1>6. ASSUME NEW c \in Conns, unit = "running", Request(c) PROVE ServerInv'
    BY <1>6 DEF Request, vars
  <1>7. ASSUME NEW c \in Conns, unit = "running", Respond(c) PROVE ServerInv'
    BY <1>7 DEF Respond, vars
  <1>8. ASSUME NEW c \in Conns, unit = "running", Hangup(c) PROVE ServerInv'
    BY <1>8 DEF Hangup, vars
  <1>11. ASSUME NEW c \in Conns, unit = "running", Accept(c) PROVE ServerInv'
    BY <1>11 DEF Accept, vars
  <1>9. CASE unit = "running" /\ Refresh /\ UNCHANGED <<unit, serverVars, crashes>>
    BY <1>9 DEF serverVars
  <1>10. CASE Restart
    BY <1>10 DEF Restart
  <1> QED
    BY <1>1, <1>2, <1>3, <1>4, <1>5, <1>6, <1>7, <1>8, <1>9, <1>10, <1>11 DEF LifeNext, Running

-----------------------------------------------------------------------------
(* The theorems *)

LifeInv == LoopInv /\ ServerInv

LEMMA LifeKeeps == LifeInv /\ LifeNext => LifeInv'
  <1> SUFFICES ASSUME LoopInv, ServerInv, LifeNext PROVE LoopInv'
    BY ServerKeeps DEF LifeInv
  <1>1. CASE \/ Bind \/ Drain \/ Tick
             \/ \E c \in Conns : Accept(c) \/ Request(c) \/ Respond(c) \/ Hangup(c)
    BY <1>1, LoopFrame DEF Bind, Drain, Tick, Accept, Request, Respond, Hangup, vars
  <1>2. CASE ListenerFails
    BY <1>2, LoopFrame DEF ListenerFails
  <1>3. CASE MainReturns \/ Crash
    BY <1>3, DieKeeps DEF MainReturns, Crash
  <1>4. CASE Refresh
    BY <1>4, RefreshKeeps
  <1>5. CASE Restart
    BY <1>5, LoopFrame DEF Restart, ServerInv
  <1> QED
    BY <1>1, <1>2, <1>3, <1>4, <1>5 DEF LifeNext, Running

LEMMA Invariance == LifeSpec => []LifeInv
  <1>1. LifeInit => LifeInv
    BY InitLoop, ServerInit DEF LifeInit, LifeInv
  <1>2. LifeInv /\ UNCHANGED lifeVars => LifeInv'
    <2> SUFFICES ASSUME LifeInv, UNCHANGED lifeVars PROVE LifeInv'
      OBVIOUS
    <2>1. LoopInv'
      BY LoopFrame DEF LifeInv, lifeVars, vars
    <2>2. ServerInv'
      BY DEF LifeInv, ServerInv, lifeVars, vars, serverVars
    <2> QED
      BY <2>1, <2>2 DEF LifeInv
  <1> QED
    BY <1>1, <1>2, LifeKeeps, PTL DEF LifeSpec

\* Whatever becomes of the feeds and whenever the process is stopped or dies, the
\* snapshot between two refreshes has the last good data of every feed.
THEOREM LastKnownGoodCorrect == LifeSpec => []LastKnownGood
  <1>1. LifeInv => LastKnownGood
    BY DEF LifeInv, LoopInv, Resting, LastKnownGood
  <1> QED
    BY <1>1, Invariance, PTL

\* A process that has had detection data never publishes a snapshot without.
THEOREM StaysReadyCorrect == LifeSpec => StaysReady
  <1>1. LifeInv /\ [LifeNext]_lifeVars => [snap.ready /\ round' # 0 => snap'.ready]_vars
    <2> SUFFICES ASSUME LifeInv, [LifeNext]_lifeVars, snap.ready, round' # 0
                 PROVE  snap'.ready
      OBVIOUS
    <2>1. CASE snap' = snap
      BY <2>1
    <2>2. CASE Publish
      BY <2>2, PublishEffect DEF LifeInv
    <2>3. CASE Die
      BY <2>3 DEF Die
    <2> QED
      BY <2>1, <2>2, <2>3
      DEF LifeNext, Running, Refresh, Loop, Start, Fetch, Send, Mark, Wake, Exit, TickerFires,
          Stop, Bind, ListenerFails, Accept, Request, Respond, Hangup, Drain, Tick, MainReturns,
          Crash, Restart, lifeVars, vars
  <1> QED
    BY <1>1, Invariance, PTL DEF LifeSpec, StaysReady

\* A request that the end of the process cuts short has had the grace period, or,
\* if it is a first one that came during it, its connection has been open for as long.
THEOREM NoneCutYoungCorrect == LifeSpec => NoneCutYoung
  <1>1. LifeInv /\ [LifeNext]_lifeVars =>
          [\A c \in Conns : unit' = "down" /\ crashes' = crashes /\ conn[c] \in {"active", "late"} =>
             age[c] = Grace]_lifeVars
    <2> SUFFICES ASSUME LifeInv, LifeNext, NEW c \in Conns,
                        unit' = "down", crashes' = crashes, conn[c] \in {"active", "late"}
                 PROVE  age[c] = Grace
      OBVIOUS
    <2>1. MainReturns
      BY DEF LifeInv, ServerInv, LifeNext, Running, Bind, ListenerFails, Accept, Request, Respond,
             Hangup, Drain, Tick, Crash, Restart
    <2> QED
      BY <2>1, LifecycleAssumption DEF LifeInv, ServerInv, MainReturns
  <1> QED
    BY <1>1, Invariance, PTL DEF LifeSpec, NoneCutYoung

\* No goroutine of a refresh is ever blocked on its send, although the loop receives
\* nothing before all have sent: the buffer has room for whoever is left.  It is the
\* safety half of RefreshEnds.
THEOREM SendNeverBlocks ==
  LifeSpec => [](\A s \in Sources : jobs[s] = "send" => Cardinality(ch) < Capacity)
  <1>1. LifeInv => \A s \in Sources : jobs[s] = "send" => Cardinality(ch) < Capacity
    <2> SUFFICES ASSUME LifeInv, NEW s \in Sources, jobs[s] = "send"
                 PROVE  Cardinality(ch) < Capacity
      OBVIOUS
    <2> DEFINE sent == {t \in Sources : jobs[t] = "done"}
               f == [t \in sent |-> fetched[t]]
    <2>1. ch = {fetched[t] : t \in sent}
      BY DEF LifeInv, LoopInv, Resting, Fetching
    <2>2. /\ IsFiniteSet(sent)
          /\ Cardinality(sent) \in Nat /\ Cardinality(Sources) \in Nat
          /\ Cardinality(sent) < Cardinality(Sources)
      <3>1. sent \in SUBSET Sources /\ sent # Sources
        OBVIOUS
      <3> QED
        BY <3>1, RefreshAssumption, FS_Subset, FS_CardinalityType
    <2>3. f \in Surjection(sent, ch)
      BY <2>1 DEF Surjection
    <2>4. Cardinality(ch) <= Cardinality(sent) /\ IsFiniteSet(ch)
      BY <2>2, <2>3, FS_Surjection DEF ExistsSurjection
    <2> QED
      BY <2>2, <2>4, FS_CardinalityType DEF Capacity
  <1> QED
    BY <1>1, Invariance, PTL

-----------------------------------------------------------------------------
(* The loop that Request assumes *)

V == INSTANCE Verdict

\* A snapshot as its readers see it.  VpnSnapshotProofs shows that the tables of one
\* that is not ready tell nothing.
Served(d) ==
  LET ready == \E s \in Sources : d[s] # 0
  IN  [ready |-> ready,
       facts |-> IF ready THEN TablesOf[d] ELSE [a \in Addresses |-> V!NoFacts]]

\* Of Request, the loop alone: nobody asks.
Nobody == [c \in {} |-> c]

R == INSTANCE Request WITH
  Callers <- {}, Snapshots <- {Served(d) : d \in [Sources -> Nat]},
  snap <- Served(snap.sources), rounds <- IF pc = "wait" THEN round - 1 ELSE round,
  marking <- (pc = "mark"), told <- FALSE,
  pc <- Nobody, ip <- Nobody, cf <- Nobody, override <- Nobody, target <- Nobody,
  lookup <- Nobody, status <- Nobody, asn <- Nobody, verdict <- Nobody, rdns <- Nobody,
  country <- Nobody, seen <- Nobody, late <- Nobody

\* The ticker stops in time for the bound, and a new process counts from 0.
Counted ==
  /\ round <= MaxRounds
  /\ pc = "refresh" => round < MaxRounds
  /\ pc = "wait" => round > 0
  /\ ticked => IF pc = "refresh" THEN round + 1 < MaxRounds ELSE round < MaxRounds
  /\ unit # "running" => round = 0 /\ ~ ticked

LEMMA CountedKeeps == LifeInv /\ Counted /\ [LifeNext]_lifeVars => Counted'
  <1> SUFFICES ASSUME LifeInv, Counted, [LifeNext]_lifeVars PROVE Counted'
    OBVIOUS
  <1>0. round \in Nat /\ MaxRounds \in Nat \ {0}
    BY RefreshAssumption DEF LifeInv, LoopInv, TypeInv
  <1> USE <1>0 DEF Counted
  <1>1. CASE unit = "running" /\ Refresh /\ UNCHANGED <<unit, serverVars, crashes>>
    <2>1. CASE Start
      BY <1>1, <2>1 DEF Start
    <2>2. CASE Wake
      BY <1>1, <2>2 DEF Wake
    <2>3. CASE TickerFires
      BY <1>1, <2>3 DEF TickerFires
    <2>4. CASE Publish \/ Mark \/ Exit \/ Stop \/ \E s \in Sources : Fetch(s) \/ Send(s)
      BY <1>1, <2>4 DEF Publish, Mark, Exit, Stop, Fetch, Send
    <2> QED
      BY <1>1, <2>1, <2>2, <2>3, <2>4 DEF Refresh, Loop
  <1>2. CASE MainReturns \/ Crash
    BY <1>2 DEF MainReturns, Crash, Die
  <1>3. CASE Restart
    BY <1>3 DEF Restart
  <1>4. CASE UNCHANGED <<pc, round, ticked, unit>>
    BY <1>4
  <1> QED
    BY <1>1, <1>2, <1>3, <1>4
    DEF LifeNext, Running, Bind, ListenerFails, Accept, Request, Respond, Hangup, Drain, Tick,
        lifeVars, vars

LEMMA NobodyIs == \A x : [c \in {} |-> x] = Nobody
  BY DEF Nobody

\* A process begins as Request does, and so does the next one.
LEMMA BeginsAsRequest ==
  /\ LifeInit => R!Init
  /\ Die => R!Init'
  <1>1. ASSUME LifeInit PROVE R!Init
    <2>1. ~ \E s \in Sources : snap.sources[s] # 0
      BY <1>1 DEF LifeInit, Init
    <2>2. Served(snap.sources) = R!EmptySnapshot
      BY <2>1 DEF Served, R!EmptySnapshot, V!NoFacts, R!NoFacts, V!Nil, R!Nil
    <2> QED
      BY <1>1, <2>2, NobodyIs DEF LifeInit, Init, R!Init
  <1>2. ASSUME Die PROVE R!Init'
    <2>1. ~ \E s \in Sources : snap'.sources[s] # 0
      BY <1>2 DEF Die
    <2>2. Served(snap.sources)' = R!EmptySnapshot
      BY <2>1 DEF Served, R!EmptySnapshot, V!NoFacts, R!NoFacts, V!Nil, R!Nil
    <2>3. pc' = "exit" /\ round' = 0 /\ loadedAt' = 0
      BY <1>2 DEF Die
    <2> QED
      BY <2>2, <2>3, NobodyIs DEF R!Init
  <1> QED
    BY <1>1, <1>2

LEMMA PublishServes ==
  ASSUME LifeInv, Counted, Publish
  PROVE  \E s \in {Served(d) : d \in [Sources -> Nat]} : R!Publish(s)
  <1>1. /\ snap'.sources \in [Sources -> Nat]
        /\ (\E s \in Sources : snap.sources[s] # 0) => \E s \in Sources : snap'.sources[s] # 0
    BY PublishEffect DEF LifeInv, LoopInv, ReadyInv
  <1>2. pc = "wait" /\ pc' = "mark" /\ round' = round /\ loadedAt' = loadedAt
    BY DEF Publish
  <1>3. round \in Nat /\ round <= MaxRounds
    BY DEF LifeInv, LoopInv, TypeInv, Counted
  <1>4. Served(snap.sources).ready => Served(snap'.sources).ready
    BY <1>1 DEF Served
  <1>5. Served(snap.sources)' = Served(snap'.sources)
    OBVIOUS
  <1>6. R!Publish(Served(snap'.sources))
    BY <1>2, <1>3, <1>4, <1>5, NobodyIs, RefreshAssumption DEF R!Publish, R!requestVars
  <1> QED
    BY <1>1, <1>6

LEMMA MarkServes ==
  ASSUME LifeInv, Mark
  PROVE  R!MarkLoaded
  <1>1. snap.ready = Served(snap.sources).ready
    BY DEF LifeInv, LoopInv, ReadyInv, TypeInv, Served
  <1>2. /\ pc = "mark" /\ pc' = "select" /\ round' = round /\ snap' = snap
        /\ loadedAt' = IF snap.ready THEN round ELSE loadedAt
    BY DEF Mark
  <1> QED
    BY <1>1, <1>2 DEF R!MarkLoaded, R!requestVars

\* Under every life of the process, crashes and stops included, the loop is the one
\* that Request puts next to its requests: snapshots of it are published one by one,
\* never a ready one before one that is not, and loadedAt follows each.
THEOREM LoopServesRequests == LifeSpec => R!Init /\ [][R!Next \/ R!Init']_(R!vars)
  <1> DEFINE I == LifeInv /\ Counted
  <1>1. LifeInit => Counted
    BY RefreshAssumption DEF LifeInit, Init, Counted
  <1>2. I /\ [LifeNext]_lifeVars => [R!Next \/ R!Init']_(R!vars)
    <2> SUFFICES ASSUME LifeInv, Counted, [LifeNext]_lifeVars
                 PROVE  R!Next \/ R!Init' \/ UNCHANGED R!vars
      OBVIOUS
    <2>1. CASE Publish
      BY <2>1, PublishServes DEF R!Next
    <2>2. CASE Mark
      BY <2>2, MarkServes DEF R!Next
    <2>3. CASE Die
      BY <2>3, BeginsAsRequest
    <2>4. CASE Start
      <3>1. pc = "refresh" /\ pc' = "wait" /\ round' = round + 1 /\ UNCHANGED <<snap, loadedAt>>
        BY <2>4 DEF Start
      <3>2. round \in Nat
        BY DEF LifeInv, LoopInv, TypeInv
      <3> QED
        BY <3>1, <3>2 DEF R!vars, R!loopVars
    <2>5. CASE /\ UNCHANGED <<snap, loadedAt, round>>
               /\ pc' = pc \/ (pc \notin {"wait", "mark"} /\ pc' \notin {"wait", "mark"})
      BY <2>5 DEF R!vars, R!loopVars
    <2> QED
      BY <2>1, <2>2, <2>3, <2>4, <2>5
      DEF LifeNext, Running, Refresh, Loop, Fetch, Send, Wake, Exit, TickerFires,
          Stop, Bind, ListenerFails, Accept, Request, Respond, Hangup, Drain, Tick, MainReturns,
          Crash, Restart, LifeInv, ServerInv, lifeVars, vars
  <1> QED
    BY <1>1, <1>2, BeginsAsRequest, Invariance, CountedKeeps, PTL DEF LifeSpec

=============================================================================
