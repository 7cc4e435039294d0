----------------------------- MODULE Lifecycle -----------------------------
(***************************************************************************)
(* The life of the process: main of main.go, which starts the refresh loop *)
(* (VpnRefresh) and the listener, waits until its context is done, drains  *)
(* the HTTP server for a grace period and returns; and the systemd unit    *)
(* of deploy/ that runs it.  All the program knows is in its memory, so a  *)
(* restart begins again with an empty snapshot, at Init of VpnRefresh.     *)
(*                                                                         *)
(* net/http is external and modelled from how main uses it: Shutdown       *)
(* closes the listener and the idle connections, then waits for the others *)
(* until its context ends: those that serve a request, and those that are  *)
(* accepted and have not sent one yet, which it does not take for idle.    *)
(***************************************************************************)
EXTENDS VpnRefresh

CONSTANTS
  Conns,       \* connections the server may hold at once
  Grace,       \* the timeout of Shutdown's context
  MaxCrashes   \* bound of the model: how often the process dies of something else

ASSUME LifecycleAssumption ==
  /\ IsFiniteSet(Conns)
  /\ Grace \in Nat \ {0}
  /\ MaxCrashes \in Nat

VARIABLES
  unit,       \* the systemd unit: "running", "restarting" or "down"
  main,       \* where main is: "serving" (it waits for ctx.Done), "draining" or "gone"
  listener,   \* "binding", "open" or "closed"
  conn,       \* each connection: "none", "new" (accepted, no request yet), "idle" (between
              \* requests), "active" (one is served), or "late" (its first one is served, and
              \* began while the server drained)
  age,        \* for how long its request has been served, or for how long a connection
              \* that is "new" or "late" has been open; counted up to Grace
  waited,     \* for how long Shutdown has waited
  crashes     \* crashes so far

serverVars == <<main, listener, conn, age, waited>>
lifeVars == <<vars, unit, serverVars, crashes>>

-----------------------------------------------------------------------------

LifeInit ==
  /\ Init
  /\ unit = "running"
  /\ main = "serving"
  /\ listener = "binding"
  /\ conn = [c \in Conns |-> "none"]
  /\ age = [c \in Conns |-> 0]
  /\ waited = 0
  /\ crashes = 0

\* Mutant: the server listens once the lists are loaded.
BindWhenReady ==
  /\ listener = "binding" /\ main = "serving" /\ snap.ready
  /\ listener' = "open"
  /\ UNCHANGED <<vars, unit, main, conn, age, waited, crashes>>

\* ListenAndServe binds its address; the kernel accepts from here on.
Bind ==
  /\ listener = "binding" /\ main = "serving"
  /\ listener' = "open"
  /\ UNCHANGED <<vars, unit, main, conn, age, waited, crashes>>

\* ListenAndServe returns an error other than ErrServerClosed: the address is
\* taken, or Accept fails for good.  Its goroutine calls cancel.
ListenerFails ==
  /\ listener # "closed" /\ main = "serving"
  /\ listener' = "closed"
  /\ stopped' = TRUE
  /\ UNCHANGED <<pc, round, jobs, fetched, ch, snap, fresh, loadedAt, ticked, good>>
  /\ UNCHANGED <<unit, main, conn, age, waited, crashes>>

\* A connection is accepted and waits for its first request.
Accept(c) ==
  /\ conn[c] = "none" /\ listener = "open"
  /\ conn' = [conn EXCEPT ![c] = "new"]
  /\ age' = [age EXCEPT ![c] = 0]
  /\ UNCHANGED <<vars, unit, main, listener, waited, crashes>>

\* A request comes on a new connection, which a draining server still serves, or on
\* one that is kept alive.
Request(c) ==
  /\ conn[c] \in {"new", "idle"}
  /\ \/ main = "draining" /\ conn' = [conn EXCEPT ![c] = "late"] /\ UNCHANGED age
     \/ main # "draining" /\ conn' = [conn EXCEPT ![c] = "active"]
                          /\ age' = [age EXCEPT ![c] = 0]
  /\ UNCHANGED <<vars, unit, main, listener, waited, crashes>>

\* Its handler returns; a draining server does not keep the connection.
Respond(c) ==
  /\ conn[c] \in {"active", "late"}
  /\ conn' = [conn EXCEPT ![c] = IF main = "draining" THEN "none" ELSE "idle"]
  /\ age' = [age EXCEPT ![c] = 0]
  /\ UNCHANGED <<vars, unit, main, listener, waited, crashes>>

\* A connection without a request ends: the client closes it, ReadHeaderTimeout or
\* IdleTimeout is over, or Shutdown takes one that has been new for 5 s for idle.
Hangup(c) ==
  /\ conn[c] \in {"new", "idle"}
  /\ conn' = [conn EXCEPT ![c] = "none"]
  /\ age' = [age EXCEPT ![c] = 0]
  /\ UNCHANGED <<vars, unit, main, listener, waited, crashes>>

\* Mutant: the grace period begins before the listener is closed.
DrainOpen ==
  /\ main = "serving" /\ stopped
  /\ main' = "draining"
  /\ conn' = [c \in Conns |-> IF conn[c] = "idle" THEN "none" ELSE conn[c]]
  /\ UNCHANGED <<vars, unit, listener, age, waited, crashes>>

\* ctx.Done: main calls Shutdown.  A connection that is new stays.
Drain ==
  /\ main = "serving" /\ stopped
  /\ main' = "draining"
  /\ listener' = "closed"
  /\ conn' = [c \in Conns |-> IF conn[c] = "idle" THEN "none" ELSE conn[c]]
  /\ UNCHANGED <<vars, unit, age, waited, crashes>>

Older(n) == IF n < Grace THEN n + 1 ELSE n

\* Time passes, for a draining server until its grace period is over.
Tick ==
  /\ main = "draining" => waited < Grace
  /\ age' = [c \in Conns |-> IF conn[c] \in {"none", "idle"} THEN 0 ELSE Older(age[c])]
  /\ waited' = IF main = "draining" THEN waited + 1 ELSE waited
  /\ UNCHANGED <<vars, unit, main, listener, conn, crashes>>

\* The process is gone, and its memory and connections with it: what is left is what
\* a new process begins with.
Die ==
  /\ main' = "gone"
  /\ listener' = "closed"
  /\ conn' = [c \in Conns |-> "none"]
  /\ age' = [c \in Conns |-> 0]
  /\ waited' = 0
  /\ pc' = "exit"
  /\ round' = 0
  /\ jobs' = [s \in Sources |-> "none"]
  /\ fetched' = [s \in Sources |-> NoResult(s)]
  /\ ch' = {}
  /\ snap' = [sources |-> [s \in Sources |-> 0], ready |-> FALSE]
  /\ fresh' = 0
  /\ loadedAt' = 0
  /\ ticked' = FALSE
  /\ stopped' = FALSE
  /\ good' = [s \in Sources |-> 0]

\* Mutant: Shutdown is called with a context that never ends.
MainReturnsPatiently ==
  /\ main = "draining"
  /\ \A c \in Conns : conn[c] = "none"
  /\ unit' = "down"
  /\ Die
  /\ UNCHANGED crashes

\* Shutdown returns, without error or with its context's, and so does main,
\* without waiting for the loop.  The exit code is 0 whatever ended the context,
\* and a unit with Restart=on-failure stays down after it.
MainReturns ==
  /\ main = "draining"
  /\ waited = Grace \/ \A c \in Conns : conn[c] = "none"
  /\ unit' = "down"
  /\ Die
  /\ UNCHANGED crashes

\* The process dies of something else: a panic in a goroutine that is not a
\* handler's, or the kernel at the unit's MemoryMax.  The unit is restarted unless
\* it was being stopped.
Crash ==
  /\ crashes < MaxCrashes
  /\ crashes' = crashes + 1
  /\ unit' \in IF stopped THEN {"restarting", "down"} ELSE {"restarting"}
  /\ Die

\* RestartSec after the crash a new process begins, with what Die left: nothing.
Restart ==
  /\ unit = "restarting"
  /\ unit' = "running"
  /\ main' = "serving"
  /\ listener' = "binding"
  /\ pc' = "refresh"
  /\ UNCHANGED <<round, jobs, fetched, ch, snap, fresh, loadedAt, ticked, stopped, good>>
  /\ UNCHANGED <<conn, age, waited, crashes>>

Refresh == Loop \/ TickerFires \/ Stop \/ \E s \in Sources : Fetch(s) \/ Send(s)

Running ==
  \/ Bind \/ ListenerFails \/ Drain \/ Tick \/ MainReturns \/ Crash
  \/ \E c \in Conns : Accept(c) \/ Request(c) \/ Respond(c) \/ Hangup(c)
  \/ Refresh /\ UNCHANGED <<unit, serverVars, crashes>>

LifeNext == (unit = "running" /\ Running) \/ Restart

\* The refresh loop's fairness; and main's goroutine runs, a bind ends, time passes,
\* and systemd restarts.  A handler need not return and a client need not hang up.
LifeSpec ==
  /\ LifeInit /\ [][LifeNext]_lifeVars
  /\ RefreshFairness
  /\ WF_lifeVars(Bind)
  /\ WF_lifeVars(Drain) /\ WF_lifeVars(Tick) /\ WF_lifeVars(MainReturns) /\ WF_lifeVars(Restart)

-----------------------------------------------------------------------------
(* Properties *)

\* When the process ends and nothing crashed (main.go:194-199), a request that its end
\* cuts short had been served for the whole grace period, or it is the first one of a
\* connection that had been open for as long: the server takes no connection while
\* it waits, and no second request on one.  The age of a first request is not bounded
\* from below, for Shutdown keeps the connections that have not sent one yet.
NoneCutYoung ==
  [][\A c \in Conns : unit' = "down" /\ crashes' = crashes /\ conn[c] \in {"active", "late"} =>
       age[c] = Grace]_lifeVars

\* Told to stop, the process ends, whatever its handlers, its clients and its
\* refresh are doing; nobody waits for a fetch.
StopEnds == stopped ~> unit # "running"

\* After a crash the service listens again, although it has lost its lists and
\* whatever becomes of the feeds, unless it is stopped or its listener fails.
ServesAgain == unit = "restarting" ~> listener = "open" \/ stopped

=============================================================================
