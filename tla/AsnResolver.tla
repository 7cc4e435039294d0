----------------------------- MODULE AsnResolver -----------------------------
(***************************************************************************)
(* The ASN lookup of asn.go: two TTLCaches, one nested in the other.  The  *)
(* fn of the address cache makes the origin query, and when that names an  *)
(* AS calls Do on the organisation cache, keyed by the AS, whose fn makes  *)
(* the organisation query.  A goroutine can thus wait for a leader that is *)
(* itself waiting for another leader.                                      *)
(*                                                                         *)
(* Variables that start with a are the address cache's, those with o the   *)
(* organisation cache's; both read the same clock.                         *)
(***************************************************************************)
EXTENDS Integers, FiniteSets, Goroutines

CONSTANTS
  Addresses,     \* the addresses the goroutines ask about
  Systems,       \* the autonomous systems
  OriginOf,      \* OriginOf[a]: the AS that announces address a
  AddrMax,       \* asnCacheMax
  OrgMax,        \* orgCacheMax
  AsnTTL,        \* asnCacheTTL
  AsnErrorTTL    \* asnErrorTTL

\* What resolve returns: an AS with what its record says of the organisation, an
\* AS whose name was lost to a failed query (to the code the same as a record
\* without a name), no AS (NXDOMAIN, no record, or one that does not parse), or
\* a failure.
AddrTTL == [named |-> AsnTTL, lost |-> AsnTTL, none |-> AsnTTL, failed |-> AsnErrorTTL]
AddrOutcomes == {"named", "lost", "none", "failed"}

\* What lookupOrg returns: the name in the record, which is empty when the record
\* is too short, or the empty string of a query that failed or found none.
OrgTTL == [org |-> AsnTTL, failed |-> AsnErrorTTL]
OrgOutcomes == {"org", "failed"}

VARIABLES
  am, ainflight, apc, akey, astart, aon, agot,    \* the address cache
  om, oinflight, opc, okey, ostart, oon, ogot,    \* the organisation cache
  astage,    \* where resolve is: "none", "origin", "org", "done"
  result     \* what resolve returns

Addr == INSTANCE TTLCache WITH
  Keys <- Addresses, Outcomes <- AddrOutcomes, TTL <- AddrTTL, Max <- AddrMax,
  m <- am, inflight <- ainflight, pc <- apc, key <- akey, start <- astart,
  on <- aon, got <- agot

Org == INSTANCE TTLCache WITH
  Keys <- Systems, Outcomes <- OrgOutcomes, TTL <- OrgTTL, Max <- OrgMax,
  m <- om, inflight <- oinflight, pc <- opc, key <- okey, start <- ostart,
  on <- oon, got <- ogot

ASSUME ResolverAssumption ==
  /\ OriginOf \in [Addresses -> Systems]
  /\ AsnTTL \in Nat /\ AsnErrorTTL \in Nat \ {0} /\ AsnErrorTTL < AsnTTL
  /\ AddrMax \in Int /\ OrgMax \in Int /\ MaxClock \in Nat
  /\ None \notin Callers \cup Addresses \cup Addr!Result \cup Addr!Entry \cup Addr!Question
  /\ None \notin Systems \cup Org!Result \cup Org!Entry \cup Org!Question

addrVars == <<am, ainflight, apc, akey, astart, aon, agot>>
orgVars == <<om, oinflight, opc, okey, ostart, oon, ogot>>
resolverVars == <<clock, addrVars, orgVars, astage, result>>

-----------------------------------------------------------------------------

ResolverInit ==
  /\ Addr!Init
  /\ Org!Init
  /\ astage = [c \in Callers |-> "none"]
  /\ result = [c \in Callers |-> None]

\* Lookup: the address cache answers, the request joins a resolution in flight,
\* or it leads one, which starts with the origin query.
LookupAddr(c, a) ==
  /\ \/ (Addr!Hit(c, a) \/ Addr!Join(c, a)) /\ UNCHANGED astage
     \/ Addr!Lead(c, a) /\ astage' = [astage EXCEPT ![c] = "origin"]
  /\ UNCHANGED <<orgVars, result>>

\* The origin query names no AS, or fails: a timeout, a SERVFAIL, or the end of
\* the request that leads the resolution.
OriginEnds(c, o) ==
  /\ astage[c] = "origin"
  /\ o \in {"none", "failed"}
  /\ astage' = [astage EXCEPT ![c] = "done"]
  /\ result' = [result EXCEPT ![c] = o]
  /\ UNCHANGED <<clock, addrVars, orgVars>>

\* The origin query names the AS: on to the organisation cache.
LookupOrg(c) ==
  LET as == OriginOf[akey[c]]
  IN  /\ astage[c] = "origin"
      /\ Org!Hit(c, as) \/ Org!Join(c, as) \/ Org!Lead(c, as)
      /\ astage' = [astage EXCEPT ![c] = "org"]
      /\ UNCHANGED <<addrVars, result>>

\* The organisation query ends; Do publishes what it found.
PublishOrg(c, o) == Org!Publish(c, o) /\ UNCHANGED <<addrVars, astage, result>>

\* Mutant: the organisation's leader leaves without waking who waits for it.
CloseOrgForgets(c) ==
  /\ opc[c] = "close"
  /\ opc' = [opc EXCEPT ![c] = "ret"]
  /\ UNCHANGED <<clock, om, oinflight, okey, ostart, oon, ogot, addrVars, astage, result>>

CloseOrg(c) == Org!Close(c) /\ UNCHANGED <<addrVars, astage, result>>

\* What resolve makes of what lookupOrg returned: an AS without a name is an
\* answer, whatever the reason.
WithOrg(o) == IF o = "org" THEN "named" ELSE "lost"

\* lookupOrg returns, and with it resolve.
ReturnOrg(c) ==
  /\ Org!Return(c)
  /\ astage' = [astage EXCEPT ![c] = "done"]
  /\ result' = [result EXCEPT ![c] = WithOrg(ogot[c].out)]
  /\ UNCHANGED addrVars

\* resolve has returned; Do publishes the answer about the address.
PublishAddr(c) ==
  /\ astage[c] = "done"
  /\ Addr!Publish(c, result[c])
  /\ astage' = [astage EXCEPT ![c] = "none"]
  /\ result' = [result EXCEPT ![c] = None]
  /\ UNCHANGED orgVars

CloseAddr(c) == Addr!Close(c) /\ UNCHANGED <<orgVars, astage, result>>

ReturnAddr(c) == Addr!Return(c) /\ UNCHANGED <<orgVars, astage, result>>

ResolverTick == Addr!Tick /\ UNCHANGED <<orgVars, astage, result>>

Progress(c) ==
  \/ \E o \in AddrOutcomes : OriginEnds(c, o)
  \/ LookupOrg(c)
  \/ \E o \in OrgOutcomes : PublishOrg(c, o)
  \/ CloseOrg(c) \/ ReturnOrg(c)
  \/ PublishAddr(c) \/ CloseAddr(c) \/ ReturnAddr(c)

ResolverNext == ResolverTick \/ \E c \in Callers : (\E a \in Addresses : LookupAddr(c, a)) \/ Progress(c)

ResolverSpec == ResolverInit /\ [][ResolverNext]_resolverVars

-----------------------------------------------------------------------------
(* Properties *)

\* What a goroutine waits for, if it waits: the leader of its address or, for a
\* leader, the leader of its AS.
WaitsFor(c) == IF apc[c] = "wait" THEN {aon[c]}
               ELSE IF opc[c] = "wait" THEN {oon[c]} ELSE {}

\* No wait is circular, none is longer than two, and nobody waits for a call that
\* is over: a waiter's leader may wait for the organisation, and the organisation's
\* leader waits for nobody.
WaitsEnd ==
  \A c \in Callers : \A d \in WaitsFor(c) :
    /\ apc[d] \in {"fn", "close"}
    /\ \A e \in WaitsFor(d) : apc[e] = "fn" /\ WaitsFor(e) = {}

\* However many addresses of an AS are being resolved, its name is asked for
\* once, and for the AS that announces the address.
OneOrgQuery ==
  \A c, d \in Callers : opc[c] = "fn" =>
    /\ okey[c] = OriginOf[akey[c]]
    /\ opc[d] = "fn" /\ okey[d] = okey[c] => c = d

\* "failures are cached for 60s only, so a DNS blip doesn't mask an address for
\* half a day": what either query's failure withholds is asked for again soon.
BlipsAreBrief ==
  \A a \in Addresses : am[a] # None /\ am[a].val.out \in {"failed", "lost"} =>
    am[a].expires <= am[a].val.at + AsnErrorTTL

=============================================================================
