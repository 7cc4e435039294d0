------------------------- MODULE VpnSnapshotProofs -------------------------
(***************************************************************************)
(* Proofs about VpnSnapshot, for any feeds, relays, addresses and nets.    *)
(* The invariant says what each table holds of the part of the data that   *)
(* its loop has visited; at the end that part is all of it.                *)
(***************************************************************************)
EXTENDS VpnSnapshot, TLAPS

\* Relay x of feed i publishes address a; and the first loop has been there.
Publishes(i, x, a) ==
  i \in 1..Len(Names) /\ x \in 1..Len(ListAt(i)) /\ a \in ListAt(i)[x]

Before(i, x) == i < j \/ (i = j /\ x < k)

\* What the first loop has found for an address: nothing, or the last relay
\* that publishes it, of those it has been at.
Unpublished(a) ==
  /\ \A i, x \in Nat : ~ (Publishes(i, x, a) /\ Before(i, x))
  /\ ips[a] = Nil /\ relays[a] = NoRelay

LastAt(i, x, a) ==
  /\ Publishes(i, x, a) /\ Before(i, x)
  /\ \A u, y \in Nat : Publishes(u, y, a) /\ Before(u, y) => u < i \/ (u = i /\ y <= x)
  /\ ips[a] = Names[i] /\ relays[a] = [feed |-> Names[i], place |-> x]

Walked(a) == Unpublished(a) \/ \E i, x \in Nat : LastAt(i, x, a)

Tables ==
  \A a \in Addresses :
    IF pc \in {"nets", "done"} /\ a \in sources.exits
      THEN ips[a] = "tor" /\ relays[a] = NoRelay
      ELSE Walked(a)

\* The feeds that have relays, of those the first loop is done with.
Readiness ==
  ready <=> \/ \E i \in 1..Len(Names) : i < j /\ ListAt(i) # <<>>
            \/ pc # "relays" /\ (sources.exits # {} \/ sources.ranges)

\* What the last loop has made of a net: of the addresses it has visited there
\* is none, all are one provider's, or two are not.
Visited(a, p) == NetOf[a] = p /\ ips[a] \notin {Nil, "tor"} /\ a \notin todo

Marked(p) ==
  \/ ipNets[p] = Nil /\ \A a \in Addresses : ~ Visited(a, p)
  \/ /\ ipNets[p] \in Feeds
     /\ \E a \in Addresses : Visited(a, p) /\ ips[a] = ipNets[p]
     /\ \A a \in Addresses : Visited(a, p) => ips[a] = ipNets[p]
  \/ /\ ipNets[p] = "multi"
     /\ \E a, b \in Addresses : Visited(a, p) /\ Visited(b, p) /\ ips[a] # ips[b]

Netted ==
  /\ pc \in {"relays", "exits"} => ipNets = [p \in Nets |-> Nil]
  /\ pc \in {"nets", "done"} => \A p \in Nets : Marked(p)

Places ==
  /\ pc # "relays" => j > Len(Names)
  /\ pc = "done" => todo = {}

\* The last loop visits addresses that are published.
Listed == pc = "nets" => \A a \in todo : ips[a] # Nil

Inv == TypeOK /\ Places /\ Tables /\ Readiness /\ Netted /\ Listed

-----------------------------------------------------------------------------
(* The data *)

LEMMA NilApart == Nil \notin {"tor", "multi"}
  BY Zenon DEF Nil

LEMMA NamesAre ==
  /\ Len(Names) \in Nat
  /\ \A i \in 1..Len(Names) : Names[i] \in Feeds /\ Names[i] # Nil /\ Names[i] \notin {"tor", "multi"}
  <1>1. Len(Names) \in Nat
    BY SnapshotAssumption
  <1>2. \A i \in 1..Len(Names) : Names[i] \in Feeds
    BY DEF Feeds
  <1> QED
    BY <1>1, <1>2, SnapshotAssumption

LEMMA ListIs ==
  ASSUME NEW s \in RelayLists
  PROVE  s \in Seq(RelayAddrs) /\ Len(s) \in 0..MaxRelays /\ (s = <<>> <=> Len(s) = 0)
  <1>1. PICK l \in 0..MaxRelays : s \in [1..l -> RelayAddrs]
    BY DEF RelayLists
  <1>2. l \in Nat
    BY <1>1, SnapshotAssumption
  <1>3. s \in Seq(RelayAddrs) /\ Len(s) = l
    BY <1>1, <1>2
  <1> QED
    BY <1>3

LEMMA ListAtIs ==
  ASSUME TypeOK, NEW i \in 1..Len(Names)
  PROVE  /\ ListAt(i) \in Seq(RelayAddrs) /\ Len(ListAt(i)) \in 0..MaxRelays
         /\ ListAt(i) = <<>> <=> Len(ListAt(i)) = 0
         /\ \A x \in 1..Len(ListAt(i)) : ListAt(i)[x] \subseteq Addresses /\ ListAt(i)[x] # {}
  <1>1. ListAt(i) \in RelayLists
    BY NamesAre DEF TypeOK, ListAt
  <1>2. /\ ListAt(i) \in Seq(RelayAddrs) /\ Len(ListAt(i)) \in 0..MaxRelays
        /\ ListAt(i) = <<>> <=> Len(ListAt(i)) = 0
    BY <1>1, ListIs
  <1>3. \A x \in 1..Len(ListAt(i)) : ListAt(i)[x] \in RelayAddrs
    BY <1>2
  <1>4. \A r \in RelayAddrs : r \subseteq Addresses /\ r # {}
    <2>1. RelayAddrs \subseteq (SUBSET Addresses) \ {{}}
      BY SnapshotAssumption
    <2> QED
      BY <2>1, Zenon
  <1>5. \A x \in 1..Len(ListAt(i)) : ListAt(i)[x] \subseteq Addresses /\ ListAt(i)[x] # {}
    BY <1>3, <1>4, Zenon
  <1> QED
    BY <1>2, <1>5

-----------------------------------------------------------------------------
(* The steps *)

LEMMA InitInv == Init => Inv
  <1> SUFFICES ASSUME Init PROVE Inv
    OBVIOUS
  <1>1. TypeOK
    <2>1. j \in 1..(Len(Names) + 1) /\ k \in 1..(MaxRelays + 1)
      BY NamesAre, SnapshotAssumption DEF Init
    <2>2. ips \in [Addresses -> Provider] /\ relays \in [Addresses -> RelayAt \cup {NoRelay}]
          /\ ipNets \in [Nets -> Feeds \cup {Nil, "multi"}]
      BY DEF Init, Provider
    <2> QED
      BY <2>1, <2>2 DEF Init, TypeOK
  <1>2. \A i, x \in Nat : \A a : Publishes(i, x, a) => ~ Before(i, x)
    BY NamesAre DEF Init, Publishes, Before
  <1>3. Tables
    BY <1>2 DEF Init, Tables, Walked, Unpublished
  <1>4. Readiness
    BY NamesAre DEF Init, Readiness
  <1>5. Places /\ Netted /\ Listed
    BY DEF Init, Places, Netted, Listed
  <1> QED
    BY <1>1, <1>3, <1>4, <1>5 DEF Inv

LEMMA AddRelayKeeps ==
  ASSUME Inv, AddRelay
  PROVE  Inv'
  <1> DEFINE addrs == ListAt(j)[k]
             here == [feed |-> Names[j], place |-> k]
  <1>1. /\ pc = "relays" /\ j \in 1..Len(Names) /\ k \in 1..Len(ListAt(j))
        /\ ips' = [a \in Addresses |-> IF a \in addrs THEN Names[j] ELSE ips[a]]
        /\ relays' = [a \in Addresses |-> IF a \in addrs THEN here ELSE relays[a]]
        /\ k' = k + 1
        /\ UNCHANGED <<sources, ready, pc, j, todo, ipNets>>
        /\ j \in Nat /\ k \in Nat /\ TypeOK
    BY NamesAre, SnapshotAssumption DEF AddRelay, Inv, TypeOK
  <1>2. Len(ListAt(j)) \in 0..MaxRelays /\ addrs \subseteq Addresses
    BY <1>1, ListAtIs
  <1>3. TypeOK'
    <2>1. Names[j] \in Feeds /\ here \in RelayAt
      BY <1>1, <1>2, NamesAre, SnapshotAssumption DEF RelayAt
    <2>2. k + 1 \in 1..(MaxRelays + 1)
      BY <1>1, <1>2, SnapshotAssumption
    <2> HIDE DEF here, addrs
    <2> QED
      BY <1>1, <2>1, <2>2 DEF TypeOK, Provider
  <1>4. ASSUME NEW i \in Nat, NEW x \in Nat, NEW a
        PROVE  /\ Publishes(i, x, a)' <=> Publishes(i, x, a)
               /\ Before(i, x)' <=> Before(i, x) \/ (i = j /\ x = k)
    BY <1>1 DEF Publishes, Before, ListAt
  <1>5. Tables'
    <2>1. SUFFICES ASSUME NEW a \in Addresses PROVE Walked(a)'
      BY <1>1 DEF Tables
    <2>2. Walked(a)
      BY <1>1 DEF Inv, Tables
    <2>3. Publishes(j, k, a) <=> a \in addrs
      BY <1>1 DEF Publishes
    <2>4. CASE a \in addrs
      <3>1. PICK i \in Nat, x \in Nat : i = j /\ x = k
        BY <1>1
      <3>2. ips'[a] = Names[i] /\ relays'[a] = [feed |-> Names[i], place |-> x]
        BY <1>1, <2>4, <3>1
      <3>3. Publishes(i, x, a)' /\ Before(i, x)'
        BY <1>1, <1>4, <2>3, <2>4, <3>1
      <3>4. ASSUME NEW u \in Nat, NEW y \in Nat, Publishes(u, y, a)', Before(u, y)'
            PROVE  u < i \/ (u = i /\ y <= x)
        BY <1>1, <1>4, <3>1, <3>4 DEF Before
      <3>5. LastAt(i, x, a)'
        BY <3>2, <3>3, <3>4 DEF LastAt
      <3> QED
        BY <3>5 DEF Walked
    <2>5. CASE a \notin addrs
      <3>1. ips'[a] = ips[a] /\ relays'[a] = relays[a]
        BY <1>1, <2>5
      <3>2. \A u, y \in Nat : (Publishes(u, y, a) /\ Before(u, y))' <=> Publishes(u, y, a) /\ Before(u, y)
        BY <1>1, <1>4, <2>3, <2>5
      <3>3. CASE Unpublished(a)
        BY <3>1, <3>2, <3>3 DEF Unpublished, Walked
      <3>4. ASSUME NEW i \in Nat, NEW x \in Nat, LastAt(i, x, a)
            PROVE  LastAt(i, x, a)'
        BY <3>1, <3>2, <3>4 DEF LastAt
      <3> QED
        BY <2>2, <3>3, <3>4 DEF Walked
    <2> QED
      BY <2>4, <2>5
  <1>6. Readiness'
    BY <1>1 DEF Inv, Readiness, ListAt
  <1>7. Places' /\ Netted' /\ Listed'
    BY <1>1 DEF Inv, Places, Netted, Listed
  <1> QED
    BY <1>3, <1>5, <1>6, <1>7 DEF Inv

\* A step that leaves the tables of addresses and what they cover alone.
LEMMA WalkedSame ==
  ASSUME NEW a, Walked(a), UNCHANGED <<sources, ips, relays>>,
         \A u, y \in Nat : Publishes(u, y, a) => (Before(u, y)' <=> Before(u, y))
  PROVE  Walked(a)'
  <1>1. \A u, y \in Nat : Publishes(u, y, a)' <=> Publishes(u, y, a)
    BY DEF Publishes, ListAt
  <1>2. CASE Unpublished(a)
    BY <1>1, <1>2 DEF Unpublished, Walked
  <1>3. ASSUME NEW i \in Nat, NEW x \in Nat, LastAt(i, x, a)
        PROVE  LastAt(i, x, a)'
    BY <1>1, <1>3 DEF LastAt
  <1> QED
    BY <1>2, <1>3 DEF Walked

LEMMA NextFeedKeeps ==
  ASSUME Inv, NextFeed
  PROVE  Inv'
  <1>1. /\ pc = "relays" /\ j \in 1..Len(Names) /\ k > Len(ListAt(j))
        /\ j' = j + 1 /\ k' = 1
        /\ ready' = (ready \/ ListAt(j) # <<>>)
        /\ UNCHANGED <<sources, pc, ips, relays, todo, ipNets>>
        /\ j \in Nat /\ k \in Nat /\ TypeOK
    BY NamesAre, SnapshotAssumption DEF NextFeed, Inv, TypeOK
  <1>2. TypeOK'
    BY <1>1, NamesAre, SnapshotAssumption DEF TypeOK
  <1>3. ASSUME NEW u \in Nat, NEW y \in Nat, NEW a, Publishes(u, y, a)
        PROVE  Before(u, y)' <=> Before(u, y)
    <2>1. y \in 1..Len(ListAt(u)) /\ u \in 1..Len(Names)
      BY <1>3 DEF Publishes
    <2>2. Len(ListAt(u)) \in Nat
      BY <1>1, <2>1, ListAtIs, SnapshotAssumption
    <2>3. u = j => y < k
      BY <1>1, <2>1, <2>2
    <2> QED
      BY <1>1, <2>1, <2>2, <2>3 DEF Before
  <1>4. Tables'
    BY <1>1, <1>3, WalkedSame DEF Inv, Tables
  <1>5. Readiness'
    <2>1. (\E i \in 1..Len(Names) : i < j' /\ ListAt(i)' # <<>>)
            <=> (\E i \in 1..Len(Names) : i < j /\ ListAt(i) # <<>>) \/ ListAt(j) # <<>>
      BY <1>1, NamesAre DEF ListAt
    <2> QED
      BY <1>1, <2>1 DEF Inv, Readiness
  <1>6. Places' /\ Netted' /\ Listed'
    BY <1>1 DEF Inv, Places, Netted, Listed
  <1> QED
    BY <1>2, <1>4, <1>5, <1>6 DEF Inv

LEMMA RelaysDoneKeeps ==
  ASSUME Inv, RelaysDone
  PROVE  Inv'
  <1>1. /\ pc = "relays" /\ pc' = "exits" /\ j > Len(Names)
        /\ ready' = (ready \/ sources.exits # {} \/ sources.ranges)
        /\ UNCHANGED <<sources, j, k, ips, relays, todo, ipNets>>
        /\ TypeOK
    BY DEF RelaysDone, Inv
  <1>2. TypeOK'
    BY <1>1 DEF TypeOK
  <1>3. Tables'
    BY <1>1, WalkedSame DEF Inv, Tables, Before
  <1>4. Readiness'
    BY <1>1 DEF Inv, Readiness, ListAt
  <1>5. Places' /\ Netted' /\ Listed'
    BY <1>1 DEF Inv, Places, Netted, Listed
  <1> QED
    BY <1>2, <1>3, <1>4, <1>5 DEF Inv

LEMMA AddExitsKeeps ==
  ASSUME Inv, AddExits
  PROVE  Inv'
  <1>1. /\ pc = "exits" /\ pc' = "nets"
        /\ ips' = [a \in Addresses |-> IF a \in sources.exits THEN "tor" ELSE ips[a]]
        /\ relays' = [a \in Addresses |-> IF a \in sources.exits THEN NoRelay ELSE relays[a]]
        /\ todo' = {a \in Addresses : ips'[a] # Nil}
        /\ UNCHANGED <<sources, ready, j, k, ipNets>>
        /\ TypeOK
    BY DEF AddExits, Inv
  <1>2. TypeOK'
    BY <1>1 DEF TypeOK, Provider
  <1>3. Tables'
    <2>1. SUFFICES ASSUME NEW a \in Addresses, a \notin sources.exits PROVE Walked(a)'
      BY <1>1 DEF Tables
    <2>2. Walked(a) /\ ips'[a] = ips[a] /\ relays'[a] = relays[a]
      BY <1>1, <2>1 DEF Inv, Tables
    <2>3. \A u, y \in Nat : (Publishes(u, y, a)' <=> Publishes(u, y, a))
                            /\ (Before(u, y)' <=> Before(u, y))
      BY <1>1 DEF Publishes, ListAt, Before
    <2>4. CASE Unpublished(a)
      BY <2>2, <2>3, <2>4 DEF Unpublished, Walked
    <2>5. ASSUME NEW i \in Nat, NEW x \in Nat, LastAt(i, x, a)
          PROVE  LastAt(i, x, a)'
      BY <2>2, <2>3, <2>5 DEF LastAt
    <2> QED
      BY <2>2, <2>4, <2>5 DEF Walked
  <1>4. Readiness'
    BY <1>1 DEF Inv, Readiness, ListAt
  <1>5. Places' /\ Listed'
    BY <1>1 DEF Inv, Places, Listed
  <1>6. Netted'
    BY <1>1 DEF Inv, Netted, Marked, Visited
  <1> QED
    BY <1>2, <1>3, <1>4, <1>5, <1>6 DEF Inv

LEMMA VisitKeeps ==
  ASSUME Inv, NEW a \in Addresses, Visit(a)
  PROVE  Inv'
  <1>1. /\ pc = "nets" /\ pc' = pc /\ a \in todo /\ todo' = todo \ {a}
        /\ ipNets' = IF ips[a] = "tor" THEN ipNets
                     ELSE [ipNets EXCEPT ![NetOf[a]] = Mark(ipNets[NetOf[a]], ips[a])]
        /\ UNCHANGED <<sources, ready, j, k, ips, relays>>
        /\ TypeOK
        /\ NetOf[a] \in Nets
    BY SnapshotAssumption DEF Visit, Inv
  <1>2. ips[a] \in Feeds \cup {"tor"}
    BY <1>1 DEF Inv, Listed, TypeOK, Provider
  <1>3. TypeOK'
    BY <1>1, <1>2 DEF TypeOK, Mark
  <1>4. Tables'
    BY <1>1, WalkedSame DEF Inv, Tables, Before
  <1>5. Readiness' /\ Places' /\ Listed'
    BY <1>1 DEF Inv, Readiness, ListAt, Places, Listed
  <1>6. ASSUME NEW p \in Nets PROVE Marked(p)'
    <2>1. Marked(p)
      BY <1>1 DEF Inv, Netted
    <2>2. CASE ips[a] = "tor" \/ NetOf[a] # p
      <3>1. ipNets'[p] = ipNets[p] /\ \A b \in Addresses : Visited(b, p)' <=> Visited(b, p)
        BY <1>1, <2>2 DEF Visited, TypeOK
      <3> QED
        BY <1>1, <2>1, <3>1 DEF Marked
    <2>3. CASE ips[a] # "tor" /\ NetOf[a] = p
      <3>1. ips[a] \in Feeds /\ ips[a] # Nil /\ ips[a] # "multi"
        BY <1>2, <2>3, SnapshotAssumption
      <3>2. ipNets'[p] = Mark(ipNets[p], ips[a])
        BY <1>1, <2>3 DEF TypeOK
      <3>3. /\ Visited(a, p)'
            /\ \A b \in Addresses : Visited(b, p)' <=> Visited(b, p) \/ b = a
        BY <1>1, <2>3, <3>1 DEF Visited
      <3>4. ips' = ips
        BY <1>1
      <3>5. CASE ipNets[p] = Nil /\ \A b \in Addresses : ~ Visited(b, p)
        <4>1. ipNets'[p] = ips[a]
          BY <3>1, <3>2, <3>5 DEF Mark
        <4> QED
          BY <3>1, <3>3, <3>4, <3>5, <4>1 DEF Marked
      <3>6. CASE /\ ipNets[p] \in Feeds
                 /\ \E b \in Addresses : Visited(b, p) /\ ips[b] = ipNets[p]
                 /\ \A b \in Addresses : Visited(b, p) => ips[b] = ipNets[p]
        <4>1. ipNets[p] # Nil
          BY <3>6, SnapshotAssumption
        <4>2. CASE ips[a] = ipNets[p]
          <5>1. ipNets'[p] = ipNets[p]
            BY <3>2, <4>1, <4>2 DEF Mark
          <5> QED
            BY <3>3, <3>4, <3>6, <4>2, <5>1 DEF Marked
        <4>3. CASE ips[a] # ipNets[p]
          <5>1. ipNets'[p] = "multi"
            BY <3>2, <4>1, <4>3 DEF Mark
          <5> QED
            BY <3>3, <3>4, <3>6, <4>3, <5>1 DEF Marked
        <4> QED
          BY <4>2, <4>3
      <3>7. CASE /\ ipNets[p] = "multi"
                 /\ \E b, d \in Addresses : Visited(b, p) /\ Visited(d, p) /\ ips[b] # ips[d]
        <4>1. ipNets'[p] = "multi"
          BY <3>1, <3>2, <3>7, NilApart DEF Mark
        <4> QED
          BY <3>3, <3>4, <3>7, <4>1 DEF Marked
      <3> QED
        BY <2>1, <3>5, <3>6, <3>7 DEF Marked
    <2> QED
      BY <2>2, <2>3
  <1>7. Netted'
    BY <1>1, <1>6 DEF Netted
  <1> QED
    BY <1>3, <1>4, <1>5, <1>7 DEF Inv

LEMMA FinishKeeps ==
  ASSUME Inv, Finish
  PROVE  Inv'
  <1>1. /\ pc = "nets" /\ pc' = "done" /\ todo = {}
        /\ UNCHANGED <<sources, ready, j, k, ips, relays, todo, ipNets>>
        /\ TypeOK
    BY DEF Finish, Inv
  <1>2. TypeOK'
    BY <1>1 DEF TypeOK
  <1>3. Tables'
    BY <1>1, WalkedSame DEF Inv, Tables, Before
  <1>4. Readiness' /\ Places' /\ Listed'
    BY <1>1 DEF Inv, Readiness, ListAt, Places, Listed
  <1>5. Netted'
    BY <1>1 DEF Inv, Netted, Marked, Visited
  <1> QED
    BY <1>2, <1>3, <1>4, <1>5 DEF Inv

LEMMA NextKeeps ==
  ASSUME Inv, [Next]_vars
  PROVE  Inv'
  <1>1. ASSUME NEW a \in Addresses, Visit(a) PROVE Inv'
    BY <1>1, VisitKeeps
  <1>2. ASSUME UNCHANGED vars PROVE Inv'
    <2> USE <1>2 DEF vars, Inv
    <2>1. TypeOK' /\ Places' /\ Readiness' /\ Listed'
      BY DEF TypeOK, Places, Readiness, ListAt, Listed
    <2>2. Tables'
      BY WalkedSame DEF Tables, Before
    <2>3. Netted'
      BY DEF Netted, Marked, Visited
    <2> QED
      BY <2>1, <2>2, <2>3
  <1> QED
    BY <1>1, <1>2, AddRelayKeeps, NextFeedKeeps, RelaysDoneKeeps, AddExitsKeeps, FinishKeeps
    DEF Next

LEMMA Invariance == Spec => []Inv
  BY InitInv, NextKeeps, PTL DEF Spec

-----------------------------------------------------------------------------
(* The properties *)

\* Both tables of addresses are functions of the data, for any number of feeds
\* and relays: an exit is an exit, and of several feeds the last by name wins.
THEOREM ResolvedCorrect == Spec => []Resolved
  <1>1. ASSUME Inv PROVE Resolved
    <2>1. SUFFICES ASSUME pc = "done", NEW a \in Addresses, a \notin sources.exits
                   PROVE  IF Publishers(a) = {} THEN ips[a] = Nil /\ relays[a] = NoRelay
                          ELSE \E i \in Publishers(a) :
                                 /\ \A x \in Publishers(a) : x <= i
                                 /\ ips[a] = Names[i]
                                 /\ relays[a].feed = Names[i]
                                 /\ a \in ListAt(i)[relays[a].place]
                                 /\ \A x \in 1..Len(ListAt(i)) :
                                      a \in ListAt(i)[x] => x <= relays[a].place
      BY <1>1 DEF Inv, Tables, Resolved
    <2>2. Walked(a) /\ TypeOK /\ j > Len(Names) /\ Len(Names) \in Nat
      BY <1>1, <2>1, NamesAre DEF Inv, Tables, Places
    <2>3. ASSUME NEW i \in Publishers(a)
          PROVE  i \in Nat /\ \E x \in Nat : Publishes(i, x, a)
      BY <2>2, <2>3, ListAtIs, SnapshotAssumption DEF Publishers, Publishes
    <2>4. ASSUME NEW i \in Nat, NEW x \in Nat, Publishes(i, x, a)
          PROVE  i \in Publishers(a) /\ Before(i, x)
      BY <2>2, <2>4 DEF TypeOK, Publishers, Publishes, Before
    <2>5. CASE Unpublished(a)
      BY <2>3, <2>4, <2>5 DEF Unpublished
    <2>6. ASSUME NEW i \in Nat, NEW x \in Nat, LastAt(i, x, a)
          PROVE  \E u \in Publishers(a) :
                   /\ \A y \in Publishers(a) : y <= u
                   /\ ips[a] = Names[u]
                   /\ relays[a].feed = Names[u]
                   /\ a \in ListAt(u)[relays[a].place]
                   /\ \A y \in 1..Len(ListAt(u)) : a \in ListAt(u)[y] => y <= relays[a].place
      <3>1. /\ Publishes(i, x, a)
            /\ \A u, y \in Nat : Publishes(u, y, a) => u < i \/ (u = i /\ y <= x)
            /\ ips[a] = Names[i] /\ relays[a].feed = Names[i] /\ relays[a].place = x
        BY <2>4, <2>6 DEF LastAt
      <3>2. i \in Publishers(a)
        BY <2>4, <3>1
      <3>3. \A y \in Publishers(a) : y <= i
        BY <2>3, <3>1
      <3>4. a \in ListAt(i)[x] /\ i \in 1..Len(Names)
        BY <3>1 DEF Publishes
      <3>5. \A y \in 1..Len(ListAt(i)) : a \in ListAt(i)[y] => y <= x
        <4>1. Len(ListAt(i)) \in Nat
          BY <2>2, <3>4, ListAtIs, SnapshotAssumption
        <4> QED
          BY <3>1, <3>4, <4>1 DEF Publishes
      <3> QED
        BY <3>1, <3>2, <3>3, <3>4, <3>5
    <2>7. ASSUME NEW i \in Nat, NEW x \in Nat, LastAt(i, x, a)
          PROVE  Publishers(a) # {}
      BY <2>4, <2>7 DEF LastAt
    <2> QED
      BY <2>2, <2>5, <2>6, <2>7 DEF Walked
  <1> QED
    BY <1>1, Invariance, PTL

\* The table of neighbours comes out the same in whatever order Go ranges over
\* the map of addresses.
THEOREM AgreedCorrect == Spec => []Agreed
  <1>1. ASSUME Inv PROVE Agreed
    <2>1. SUFFICES ASSUME pc = "done", NEW p \in Nets
                   PROVE  LET owners == {ips[a] : a \in {x \in Addresses : NetOf[x] = p}}
                                          \ {Nil, "tor"}
                          IN  IF owners = {} THEN ipNets[p] = Nil
                              ELSE IF \E o \in owners : owners = {o} THEN owners = {ipNets[p]}
                              ELSE ipNets[p] = "multi"
      BY DEF Agreed
    <2> DEFINE owners == {ips[a] : a \in {x \in Addresses : NetOf[x] = p}} \ {Nil, "tor"}
    <2>2. Marked(p) /\ todo = {}
      BY <1>1, <2>1 DEF Inv, Netted, Places
    <2>3. \A a \in Addresses : Visited(a, p) => ips[a] \in owners
      BY DEF Visited
    <2>4. \A o \in owners : \E a \in Addresses : Visited(a, p) /\ ips[a] = o
      BY <2>2 DEF Visited
    <2> HIDE DEF owners
    <2>5. IF owners = {} THEN ipNets[p] = Nil
          ELSE IF \E o \in owners : owners = {o} THEN owners = {ipNets[p]}
          ELSE ipNets[p] = "multi"
      <3>1. CASE ipNets[p] = Nil /\ \A a \in Addresses : ~ Visited(a, p)
        BY <2>4, <3>1
      <3>2. CASE /\ ipNets[p] \in Feeds
                 /\ \E a \in Addresses : Visited(a, p) /\ ips[a] = ipNets[p]
                 /\ \A a \in Addresses : Visited(a, p) => ips[a] = ipNets[p]
        <4>1. owners = {ipNets[p]}
          BY <2>3, <2>4, <3>2
        <4> QED
          BY <4>1
      <3>3. CASE /\ ipNets[p] = "multi"
                 /\ \E a, b \in Addresses : Visited(a, p) /\ Visited(b, p) /\ ips[a] # ips[b]
        <4>1. PICK o \in owners, q \in owners : o # q
          BY <2>3, <3>3
        <4> QED
          BY <3>3, <4>1
      <3> QED
        BY <2>2, <3>1, <3>2, <3>3 DEF Marked
    <2> QED
      BY <2>5 DEF owners
  <1> QED
    BY <1>1, Invariance, PTL

\* A snapshot is ready exactly when it has an address or a range to look up: no
\* feed counts as data whose relays publish nothing.
THEOREM ReadyMeansDataCorrect == Spec => []ReadyMeansData
  <1>1. ASSUME Inv PROVE ReadyMeansData
    <2>1. SUFFICES ASSUME pc = "done"
                   PROVE  ready <=> sources.ranges \/ \E a \in Addresses : ips[a] # Nil
      BY DEF ReadyMeansData
    <2>2. /\ TypeOK /\ j > Len(Names) /\ Len(Names) \in Nat /\ j \in Nat
          /\ sources.exits \subseteq Addresses
      BY <1>1, <2>1, NamesAre DEF Inv, Places, TypeOK
    <2>3. ready <=> \/ \E i \in 1..Len(Names) : ListAt(i) # <<>>
                    \/ sources.exits # {} \/ sources.ranges
      BY <1>1, <2>1, <2>2 DEF Inv, Readiness
    <2>4. ASSUME NEW i \in 1..Len(Names), ListAt(i) # <<>>
          PROVE  \E a \in Addresses : ips[a] # Nil
      <3>1. /\ Len(ListAt(i)) \in Nat /\ 1 \in 1..Len(ListAt(i))
            /\ ListAt(i)[1] \subseteq Addresses /\ ListAt(i)[1] # {}
        BY <2>2, <2>4, ListAtIs, SnapshotAssumption
      <3>2. PICK a \in Addresses : a \in ListAt(i)[1]
        BY <3>1
      <3>3. CASE a \in sources.exits
        BY <1>1, <2>1, <3>3, NilApart DEF Inv, Tables
      <3>4. CASE a \notin sources.exits
        <4>1. Publishes(i, 1, a) /\ Before(i, 1) /\ i \in Nat /\ Walked(a)
          BY <1>1, <2>1, <2>2, <3>1, <3>2, <3>4 DEF Publishes, Before, Inv, Tables
        <4>2. PICK u \in Nat, y \in Nat : LastAt(u, y, a)
          BY <4>1 DEF Walked, Unpublished
        <4>3. ips[a] = Names[u] /\ u \in 1..Len(Names)
          BY <4>2 DEF LastAt, Publishes
        <4> QED
          BY <4>3, NamesAre
      <3> QED
        BY <3>3, <3>4
    <2>5. ASSUME NEW a \in Addresses, ips[a] # Nil, a \notin sources.exits
          PROVE  \E i \in 1..Len(Names) : ListAt(i) # <<>>
      <3>1. PICK u \in Nat, y \in Nat : LastAt(u, y, a)
        BY <1>1, <2>1, <2>5 DEF Inv, Tables, Walked, Unpublished
      <3>2. u \in 1..Len(Names) /\ y \in 1..Len(ListAt(u))
        BY <3>1 DEF LastAt, Publishes
      <3>3. ListAt(u) # <<>>
        BY <2>2, <3>2, ListAtIs
      <3> QED
        BY <3>2, <3>3
    <2>6. ASSUME NEW a \in sources.exits PROVE a \in Addresses /\ ips[a] # Nil
      BY <1>1, <2>1, <2>2, <2>6, NilApart DEF Inv, Tables
    <2> QED
      BY <2>3, <2>4, <2>5, <2>6
  <1> QED
    BY <1>1, Invariance, PTL

-----------------------------------------------------------------------------
(* What Verdict and Request take from the tables *)

V == INSTANCE Verdict WITH Brands <- {}

\* What the tables tell of an address, next to what its relay's record and the
\* index of the ranges say.
Told(a, located, inRange) ==
  [exact |-> ips[a],
   relay |-> IF relays[a] = NoRelay THEN Nil ELSE IF located THEN "located" ELSE "bare",
   net |-> ipNets[NetOf[a]],
   range |-> inRange]

\* Every snapshot that buildSnapshot makes is one that Request assumes of the loop
\* (RequestAssumption): its tables fit together, an address with a relay has a feed
\* and that feed's net or a shared one, and without data nothing is told of anybody.
THEOREM TablesFitCorrect ==
  Spec => [](pc = "done" =>
    \A a \in Addresses : \A located, inRange \in BOOLEAN : (inRange => sources.ranges) =>
      /\ Told(a, located, inRange) \in V!Facts
      /\ V!Possible(Told(a, located, inRange))
      /\ ~ ready => Told(a, located, inRange) = V!NoFacts)
  <1>1. Inv /\ Resolved /\ ReadyMeansData =>
          (pc = "done" =>
            \A a \in Addresses : \A located, inRange \in BOOLEAN : (inRange => sources.ranges) =>
              /\ Told(a, located, inRange) \in V!Facts
              /\ V!Possible(Told(a, located, inRange))
              /\ ~ ready => Told(a, located, inRange) = V!NoFacts)
    <2> SUFFICES ASSUME Inv, Resolved, ReadyMeansData, pc = "done", NEW a \in Addresses,
                        NEW located \in BOOLEAN, NEW inRange \in BOOLEAN, inRange => sources.ranges
                 PROVE  /\ Told(a, located, inRange) \in V!Facts
                        /\ V!Possible(Told(a, located, inRange))
                        /\ ~ ready => Told(a, located, inRange) = V!NoFacts
      OBVIOUS
    <2>1. /\ ips[a] \in Feeds \cup {Nil, "tor"}
          /\ ipNets[NetOf[a]] \in Feeds \cup {Nil, "multi"} /\ NetOf[a] \in Nets
      BY SnapshotAssumption DEF Inv, TypeOK, Provider
    <2>2. Nil = V!Nil /\ Nil \notin {"located", "bare"}
      BY Zenon DEF Nil, V!Nil
    <2>3. Told(a, located, inRange) \in V!Facts
      BY <2>1, <2>2 DEF Told, V!Facts
    <2>4. relays[a] # NoRelay <=> ips[a] \in Feeds
      <3>1. CASE a \in sources.exits
        BY <3>1, SnapshotAssumption DEF Resolved
      <3>2. CASE a \notin sources.exits /\ Publishers(a) = {}
        BY <3>2, SnapshotAssumption DEF Resolved
      <3>3. CASE a \notin sources.exits /\ Publishers(a) # {}
        <4>1. PICK i \in Publishers(a) : ips[a] = Names[i] /\ relays[a].feed = Names[i]
          BY <3>3 DEF Resolved
        <4>2. Names[i] \in Feeds /\ Names[i] # Nil
          BY <4>1, NamesAre DEF Publishers
        <4> QED
          BY <4>1, <4>2 DEF NoRelay
      <3> QED
        BY <3>1, <3>2, <3>3
    <2>5. ips[a] \in Feeds => ipNets[NetOf[a]] \in {ips[a], "multi"}
      <3> SUFFICES ASSUME ips[a] \in Feeds PROVE ipNets[NetOf[a]] \in {ips[a], "multi"}
        OBVIOUS
      <3>1. Visited(a, NetOf[a])
        BY SnapshotAssumption DEF Visited, Inv, Places
      <3>2. Marked(NetOf[a])
        BY <2>1 DEF Inv, Netted
      <3> QED
        BY <3>1, <3>2 DEF Marked
    <2>6. V!Possible(Told(a, located, inRange))
      BY <2>2, <2>4, <2>5 DEF Told, V!Possible
    <2>7. ASSUME ~ ready PROVE Told(a, located, inRange) = V!NoFacts
      <3>1. inRange = FALSE /\ \A x \in Addresses : ips[x] = Nil
        BY <2>7 DEF ReadyMeansData
      <3>2. Marked(NetOf[a])
        BY <2>1 DEF Inv, Netted
      <3>3. ipNets[NetOf[a]] = Nil
        BY <3>1, <3>2 DEF Marked, Visited
      <3>4. relays[a] = NoRelay
        BY <2>4, <3>1, SnapshotAssumption
      <3> QED
        BY <2>2, <3>1, <3>3, <3>4 DEF Told, V!NoFacts
    <2> QED
      BY <2>3, <2>6, <2>7
  <1> QED
    BY <1>1, Invariance, ResolvedCorrect, ReadyMeansDataCorrect, PTL

=============================================================================
