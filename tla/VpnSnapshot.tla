---------------------------- MODULE VpnSnapshot ----------------------------
(***************************************************************************)
(* buildSnapshot of vpn.go: the lookup tables of a snapshot, derived from  *)
(* the data of the feeds.  The relays of the feeds go first, feed by feed  *)
(* in the order of their names; the Tor exits go over them; and the        *)
(* neighbourhood table is made of the result, in the order in which Go     *)
(* happens to range over a map, which is no order at all.                  *)
(*                                                                         *)
(* A feed's relays are a sequence of relays and a relay is the set of the  *)
(* addresses it publishes; what else a relay record holds is named by its  *)
(* place.  The published ranges are the subject of CidrIndex.              *)
(***************************************************************************)
EXTENDS Integers, Sequences

CONSTANTS
  Names,        \* the relay feeds, in the order of sort.Strings
  Addresses,    \* canonical addresses
  Nets,         \* the /24s and /64s
  NetOf,        \* NetOf[a]: the net of address a
  RelayAddrs,   \* the sets of addresses that one relay may publish
  MaxRelays     \* bound of the model: the relays of one feed

\* The empty string: no provider.
Nil == ""

Feeds == {Names[j] : j \in 1..Len(Names)}

ASSUME SnapshotAssumption ==
  /\ Names \in Seq(STRING)
  /\ \A j, k \in 1..Len(Names) : Names[j] = Names[k] => j = k
  /\ Feeds \cap {Nil, "tor", "multi"} = {}
  /\ NetOf \in [Addresses -> Nets]
  /\ RelayAddrs \subseteq (SUBSET Addresses) \ {{}}
  /\ MaxRelays \in Nat

RelayLists == UNION {[1..l -> RelayAddrs] : l \in 0..MaxRelays}
RelayAt == [feed : Feeds, place : 1..MaxRelays]
NoRelay == [feed |-> Nil, place |-> 0]

VARIABLES
  sources,   \* the data: the relays of each feed, the exits, whether there are ranges
  ready,     \* whether some feed has data
  pc,        \* "relays", "exits", "nets" or "done"
  j, k,      \* the feed and the relay the first loop is at
  ips,       \* ips[a]: the provider of address a, Nil when it has none
  relays,    \* relays[a]: the relay that publishes address a
  todo,      \* the addresses the last loop has still to visit
  ipNets     \* ipNets[p]: the provider of the net p, "multi" for several

vars == <<sources, ready, pc, j, k, ips, relays, todo, ipNets>>

-----------------------------------------------------------------------------

Init ==
  /\ sources \in [relays : [Feeds -> RelayLists], exits : SUBSET Addresses, ranges : BOOLEAN]
  /\ ready = FALSE
  /\ pc = "relays"
  /\ j = 1
  /\ k = 1
  /\ ips = [a \in Addresses |-> Nil]
  /\ relays = [a \in Addresses |-> NoRelay]
  /\ todo = {}
  /\ ipNets = [p \in Nets |-> Nil]

ListAt(i) == sources.relays[Names[i]]

\* One relay: all of its addresses name its provider and its record.
AddRelay ==
  /\ pc = "relays"
  /\ j <= Len(Names)
  /\ k <= Len(ListAt(j))
  /\ LET addrs == ListAt(j)[k]
     IN  /\ ips' = [a \in Addresses |-> IF a \in addrs THEN Names[j] ELSE ips[a]]
         /\ relays' = [a \in Addresses |->
                         IF a \in addrs THEN [feed |-> Names[j], place |-> k] ELSE relays[a]]
  /\ k' = k + 1
  /\ UNCHANGED <<sources, ready, pc, j, todo, ipNets>>

\* Mutant: the feed that sorts last decides whether there is data.
NextFeedAlone ==
  /\ pc = "relays"
  /\ j <= Len(Names)
  /\ k > Len(ListAt(j))
  /\ j' = j + 1
  /\ k' = 1
  /\ ready' = (ListAt(j) # <<>>)
  /\ UNCHANGED <<sources, pc, ips, relays, todo, ipNets>>

\* The end of a feed's relays; a feed that is not empty makes the snapshot ready.
NextFeed ==
  /\ pc = "relays"
  /\ j <= Len(Names)
  /\ k > Len(ListAt(j))
  /\ j' = j + 1
  /\ k' = 1
  /\ ready' = (ready \/ ListAt(j) # <<>>)
  /\ UNCHANGED <<sources, pc, ips, relays, todo, ipNets>>

\* The exit list and the ranges are feeds of the same loop, without relays.
RelaysDone ==
  /\ pc = "relays"
  /\ j > Len(Names)
  /\ ready' = (ready \/ sources.exits # {} \/ sources.ranges)
  /\ pc' = "exits"
  /\ UNCHANGED <<sources, j, k, ips, relays, todo, ipNets>>

\* Mutant: an exit that a feed publishes as well is left to the feed.
AddExitsIfNew ==
  LET new == {a \in sources.exits : ips[a] = Nil}
  IN  /\ pc = "exits"
      /\ ips' = [a \in Addresses |-> IF a \in new THEN "tor" ELSE ips[a]]
      /\ todo' = {a \in Addresses : ips'[a] # Nil}
      /\ pc' = "nets"
      /\ UNCHANGED <<sources, ready, j, k, relays, ipNets>>

\* The exits last and unconditionally; then the last loop ranges over ips.
AddExits ==
  /\ pc = "exits"
  /\ ips' = [a \in Addresses |-> IF a \in sources.exits THEN "tor" ELSE ips[a]]
  /\ relays' = [a \in Addresses |-> IF a \in sources.exits THEN NoRelay ELSE relays[a]]
  /\ todo' = {a \in Addresses : ips'[a] # Nil}
  /\ pc' = "nets"
  /\ UNCHANGED <<sources, ready, j, k, ipNets>>

\* Mutant: the third address of a net that is several providers' sets it again.
MarkForgetful(was, provider) == IF was # Nil /\ was # provider /\ was # "multi" THEN "multi" ELSE provider

\* What the entry of a net becomes when one more of its addresses is visited.
Mark(was, provider) ==
  IF was # Nil /\ was # provider THEN "multi" ELSE IF was = Nil THEN provider ELSE was

\* One address, any of those not visited yet; the exits are left out.
Visit(a) ==
  /\ pc = "nets"
  /\ a \in todo
  /\ todo' = todo \ {a}
  /\ ipNets' = IF ips[a] = "tor" THEN ipNets
               ELSE [ipNets EXCEPT ![NetOf[a]] = Mark(ipNets[NetOf[a]], ips[a])]
  /\ UNCHANGED <<sources, ready, pc, j, k, ips, relays>>

Finish ==
  /\ pc = "nets"
  /\ todo = {}
  /\ pc' = "done"
  /\ UNCHANGED <<sources, ready, j, k, ips, relays, todo, ipNets>>

Next ==
  \/ AddRelay \/ NextFeed \/ RelaysDone \/ AddExits \/ Finish
  \/ \E a \in Addresses : Visit(a)

Spec == Init /\ [][Next]_vars

-----------------------------------------------------------------------------
(* Properties *)

Provider == Feeds \cup {Nil, "tor"}

TypeOK ==
  /\ sources \in [relays : [Feeds -> RelayLists], exits : SUBSET Addresses, ranges : BOOLEAN]
  /\ ready \in BOOLEAN
  /\ pc \in {"relays", "exits", "nets", "done"}
  /\ j \in 1..(Len(Names) + 1)
  /\ k \in 1..(MaxRelays + 1)
  /\ ips \in [Addresses -> Provider]
  /\ relays \in [Addresses -> RelayAt \cup {NoRelay}]
  /\ todo \in SUBSET Addresses
  /\ ipNets \in [Nets -> Feeds \cup {Nil, "multi"}]

\* The feeds that publish an address, as places in the order of the names.
Publishers(a) ==
  {i \in 1..Len(Names) : \E x \in 1..Len(ListAt(i)) : a \in ListAt(i)[x]}

\* "An address appearing in two feeds always resolves the same way across
\* restarts", and a Tor exit is a Tor exit even if a feed also lists it: both
\* tables are functions of the data, the exits first, then the feed that sorts
\* last, and of its relays that publish the address the last one.
Resolved ==
  pc = "done" => \A a \in Addresses :
    IF a \in sources.exits THEN ips[a] = "tor" /\ relays[a] = NoRelay
    ELSE IF Publishers(a) = {} THEN ips[a] = Nil /\ relays[a] = NoRelay
    ELSE \E i \in Publishers(a) :
           /\ \A x \in Publishers(a) : x <= i
           /\ ips[a] = Names[i]
           /\ relays[a].feed = Names[i]
           /\ a \in ListAt(i)[relays[a].place]
           /\ \A x \in 1..Len(ListAt(i)) : a \in ListAt(i)[x] => x <= relays[a].place

\* The neighbourhood table does not depend on the order of the last loop: a net
\* has a provider when all of its published addresses but the exits agree on
\* one, and "multi" when they do not.
Agreed ==
  pc = "done" => \A p \in Nets :
    LET owners == {ips[a] : a \in {x \in Addresses : NetOf[x] = p}} \ {Nil, "tor"}
    IN  IF owners = {} THEN ipNets[p] = Nil
        ELSE IF \E o \in owners : owners = {o} THEN owners = {ipNets[p]}
        ELSE ipNets[p] = "multi"

\* The service calls itself ready exactly when there is something to look up, in
\* the table of addresses or among the ranges.
ReadyMeansData == pc = "done" => (ready <=> sources.ranges \/ \E a \in Addresses : ips[a] # Nil)

=============================================================================
