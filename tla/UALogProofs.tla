---------------------------- MODULE UALogProofs ----------------------------
(***************************************************************************)
(* Proofs about UALog for any strings, agents, cap and TTL.  The two sets  *)
(* do not touch each other, so the inductive invariant is about one set:   *)
(* its entries are the last hits (Recorded), "" is none of them (Named),   *)
(* the eviction loop keeps the oldest of what it has visited (Scanned),    *)
(* and what was forgotten was pushed out by others (Flooded).              *)
(*                                                                         *)
(* That agents name themselves (NamesItself) is about single requests: the *)
(* brand found in a list does not depend on its order (AnyOrder).          *)
(***************************************************************************)
EXTENDS UALog, FiniteSetTheorems, TLAPS

Map == [Texts -> Int \cup {None}]

TypeInv ==
  /\ clock \in Int
  /\ items \in [Buckets -> Map]
  /\ hits \in [Buckets -> Map]
  /\ scan \in [Buckets -> [phase : {"free", "loop"}, todo : SUBSET Texts, oldest : Texts \cup {Empty}]]

Recorded(b) ==
  \A x \in Texts : /\ items[b][x] # None => items[b][x] = hits[b][x]
                   /\ hits[b][x] # None => hits[b][x] <= clock

Named(b) == \A x \in Present(b) : x # Empty

Visited(b) == Present(b) \ scan[b].todo

\* While the loop runs the map is one over its cap at most, and the candidate is
\* the oldest of what was visited and is left, if anything is.
Scanned(b) ==
  /\ Free(b) => scan[b].todo = {} /\ Cardinality(Present(b)) <= Cap
  /\ ~ Free(b) =>
       /\ scan[b].todo \subseteq Present(b)
       /\ Cardinality(Present(b)) <= Cap + 1
       /\ scan[b].oldest = Empty => Visited(b) = {}
       /\ scan[b].oldest # Empty =>
            /\ scan[b].oldest \in Visited(b)
            /\ \A y \in Visited(b) : items[b][scan[b].oldest] <= items[b][y]

Since(b, x) == {y \in Texts \ {x} : hits[b][y] # None /\ hits[b][y] >= hits[b][x]}

Flooded(b) ==
  \A x \in Texts :
    hits[b][x] # None /\ clock - hits[b][x] < TTL /\ items[b][x] = None =>
      Cardinality(Since(b, x)) >= Cap

SetInv(b) == Recorded(b) /\ Named(b) /\ Scanned(b) /\ Flooded(b)

Inv == TypeInv /\ \A b \in Buckets : SetInv(b)

-----------------------------------------------------------------------------
(* What a step does to a set *)

LEMMA PresentFinite == \A b \in Buckets : IsFiniteSet(Present(b)) /\ Present(b) \subseteq Texts
  <1>1. \A b \in Buckets : Present(b) \subseteq Texts
    BY DEF Present
  <1> QED
    BY <1>1, FS_Subset, UALogAssumption

\* More hits make a flood no smaller.
LEMMA SinceGrows ==
  ASSUME NEW b \in Buckets, NEW x \in Texts, Since(b, x) \subseteq Since(b, x)',
         Cardinality(Since(b, x)) >= Cap
  PROVE  Cardinality(Since(b, x)') >= Cap
  <1>1. IsFiniteSet(Since(b, x)')
    <2>1. Since(b, x)' \subseteq Texts
      BY DEF Since
    <2> QED
      BY <2>1, FS_Subset, UALogAssumption
  <1>2. Cardinality(Since(b, x)) <= Cardinality(Since(b, x)')
    BY <1>1, FS_Subset
  <1>3. /\ Cardinality(Since(b, x)) \in Nat
        /\ Cardinality(Since(b, x)') \in Nat
    BY <1>1, FS_Subset, FS_CardinalityType
  <1> QED
    BY <1>2, <1>3, UALogAssumption

\* A set that a step leaves alone keeps its invariant.
LEMMA Frame ==
  ASSUME NEW b \in Buckets, SetInv(b), clock' = clock,
         items'[b] = items[b], hits'[b] = hits[b], scan'[b] = scan[b]
  PROVE  SetInv(b)'
  <1>1. Present(b)' = Present(b) /\ \A x \in Texts : Since(b, x)' = Since(b, x)
    BY DEF Present, Since
  <1> QED
    BY <1>1 DEF SetInv, Recorded, Named, Scanned, Visited, Flooded, Free

LEMMA SeenEffect ==
  ASSUME TypeInv, NEW b \in Buckets, NEW x \in Texts, FirstSeen(b, x)
  PROVE  /\ TypeInv'
         /\ clock' = clock
         /\ \A d \in Buckets \ {b} :
              items'[d] = items[d] /\ hits'[d] = hits[d] /\ scan'[d] = scan[d]
         /\ \A y \in Texts : items'[b][y] = IF y = x THEN clock ELSE items[b][y]
         /\ \A y \in Texts : hits'[b][y] = IF y = x THEN clock ELSE hits[b][y]
         /\ Present(b)' = Present(b) \cup {x}
  <1> USE UALogAssumption DEF TypeInv, Map
  <1>1. clock' = clock
    BY DEF FirstSeen
  <1>2. items' \in [Buckets -> Map] /\ hits' \in [Buckets -> Map]
    BY DEF FirstSeen
  <1>3. scan' \in [Buckets -> [phase : {"free", "loop"}, todo : SUBSET Texts, oldest : Texts \cup {Empty}]]
    <2> DEFINE r == [phase |-> "loop", todo |-> Present(b) \cup {x}, oldest |-> Empty]
    <2>1. r \in [phase : {"free", "loop"}, todo : SUBSET Texts, oldest : Texts \cup {Empty}]
      BY PresentFinite
    <2>2. scan' = [scan EXCEPT ![b] = r] \/ scan' = scan
      BY DEF FirstSeen
    <2> QED
      BY <2>1, <2>2
  <1>4. \A d \in Buckets \ {b} :
          items'[d] = items[d] /\ hits'[d] = hits[d] /\ scan'[d] = scan[d]
    BY DEF FirstSeen
  <1>5. \A y \in Texts : items'[b][y] = IF y = x THEN clock ELSE items[b][y]
    BY DEF FirstSeen
  <1>6. \A y \in Texts : hits'[b][y] = IF y = x THEN clock ELSE hits[b][y]
    BY DEF FirstSeen
  <1>7. Present(b)' = Present(b) \cup {x}
    BY <1>5 DEF Present
  <1> QED
    BY <1>1, <1>2, <1>3, <1>4, <1>5, <1>6, <1>7

LEMMA SeenKeeps ==
  ASSUME Inv, NEW b \in Buckets, NEW x \in Texts, x # Empty, FirstSeen(b, x)
  PROVE  Inv'
  <1>1. TypeInv'
    BY SeenEffect DEF Inv
  <1>2. ASSUME NEW d \in Buckets, d # b PROVE SetInv(d)'
    BY <1>2, SeenEffect, Frame DEF Inv
  <1>3. /\ clock' = clock
        /\ \A y \in Texts : items'[b][y] = IF y = x THEN clock ELSE items[b][y]
        /\ \A y \in Texts : hits'[b][y] = IF y = x THEN clock ELSE hits[b][y]
        /\ Present(b)' = Present(b) \cup {x}
    BY SeenEffect DEF Inv
  <1>0. clock \in Int /\ Recorded(b)
    BY DEF Inv, TypeInv, SetInv
  <1>4. Recorded(b)'
    <2> SUFFICES ASSUME NEW y \in Texts
                 PROVE  /\ items'[b][y] # None => items'[b][y] = hits'[b][y]
                        /\ hits'[b][y] # None => hits'[b][y] <= clock'
      BY DEF Recorded
    <2>1. CASE y = x
      BY <2>1, <1>0, <1>3
    <2>2. CASE y # x
      <3>1. items'[b][y] = items[b][y] /\ hits'[b][y] = hits[b][y] /\ clock' = clock
        BY <2>2, <1>3
      <3> QED
        BY <3>1, <1>0 DEF Recorded
    <2> QED
      BY <2>1, <2>2
  <1>5. Named(b)'
    BY <1>3 DEF Inv, SetInv, Named
  <1>6. Scanned(b)'
    <2>0. Free(b)
      BY DEF FirstSeen
    <2>1. scan[b].todo = {} /\ Cardinality(Present(b)) <= Cap
      BY <2>0 DEF Inv, SetInv, Scanned
    <2>2. Cardinality(Present(b) \cup {x}) \in Nat /\ Cardinality(Present(b) \cup {x}) <= Cap + 1
      <3>1. IsFiniteSet(Present(b)) /\ Cardinality(Present(b)) \in Nat
        BY PresentFinite, FS_CardinalityType
      <3>2. Cardinality(Present(b) \cup {x}) = IF x \in Present(b) THEN Cardinality(Present(b)) ELSE Cardinality(Present(b)) + 1
        BY <3>1, FS_AddElement
      <3> QED
        BY <2>1, <3>1, <3>2, UALogAssumption
    <2>3. CASE ~ Remembered(b, x) /\ Cardinality(Present(b) \cup {x}) > Cap
      <3>1. scan'[b] = [phase |-> "loop", todo |-> Present(b) \cup {x}, oldest |-> Empty]
        BY <2>3 DEF FirstSeen, Inv, TypeInv
      <3>2. /\ Visited(b)' = {} /\ ~ Free(b)' /\ scan'[b].oldest = Empty
            /\ scan'[b].todo \subseteq Present(b)'
        BY <3>1, <1>3 DEF Visited, Free
      <3> QED
        BY <3>2, <2>2, <1>3 DEF Scanned
    <2>4. CASE Remembered(b, x)
      <3>1. Present(b) \cup {x} = Present(b) /\ scan' = scan
        BY <2>4 DEF Remembered, Present, FirstSeen
      <3> QED
        BY <3>1, <2>0, <2>1, <1>3 DEF Scanned, Free
    <2>5. CASE ~ (Cardinality(Present(b) \cup {x}) > Cap)
      <3>1. scan' = scan
        BY <2>5 DEF FirstSeen
      <3> QED
        BY <3>1, <2>0, <2>1, <2>2, <2>5, <1>3, UALogAssumption DEF Scanned, Free
    <2> QED
      BY <2>3, <2>4, <2>5
  <1>7. Flooded(b)'
    <2>1. SUFFICES ASSUME NEW y \in Texts, y # x, hits[b][y] # None,
                          clock - hits[b][y] < TTL, items[b][y] = None
                   PROVE  Cardinality(Since(b, y)') >= Cap
      BY <1>3, UALogAssumption DEF Flooded, Inv, TypeInv
    <2>2. Cardinality(Since(b, y)) >= Cap
      BY <2>1 DEF Inv, SetInv, Flooded
    <2>3. Since(b, y) \subseteq Since(b, y)'
      BY <2>1, <1>3, UALogAssumption DEF Since, Inv, TypeInv, Map, SetInv, Recorded
    <2> QED
      BY <2>2, <2>3, SinceGrows
  <1> QED
    BY <1>1, <1>2, <1>4, <1>5, <1>6, <1>7 DEF Inv, SetInv

\* A request that is recorded has a text.
LEMMA RecordKeeps ==
  ASSUME Inv, NEW a \in Agents, Record(a)
  PROVE  Inv'
  <1>1. PICK r \in Requests(a) :
          \/ UNCHANGED <<clock, items, scan, hits>>
          \/ \E b \in Bucket(a.text, r.ua) : FirstSeen(b, a.text)
    BY DEF Record
  <1>2. CASE UNCHANGED <<clock, items, scan, hits>>
    <2>1. TypeInv'
      BY <1>2 DEF Inv, TypeInv
    <2>2. \A b \in Buckets : SetInv(b)'
      BY <1>2, Frame DEF Inv
    <2> QED
      BY <2>1, <2>2 DEF Inv
  <1>3. ASSUME NEW b \in Bucket(a.text, r.ua), FirstSeen(b, a.text) PROVE Inv'
    <2>1. b \in Buckets /\ a.text # Empty
      BY DEF Bucket, Buckets
    <2> QED
      BY <1>3, <2>1, SeenKeeps, UALogAssumption
  <1> QED
    BY <1>1, <1>2, <1>3

LEMMA DropEffect ==
  ASSUME TypeInv, NEW b \in Buckets, NEW k \in Texts, items' = [items EXCEPT ![b][k] = None]
  PROVE  /\ items' \in [Buckets -> Map]
         /\ \A d \in Buckets \ {b} : items'[d] = items[d]
         /\ \A y \in Texts : items'[b][y] = IF y = k THEN None ELSE items[b][y]
         /\ Present(b)' = Present(b) \ {k}
  <1>1. \A y \in Texts : items'[b][y] = IF y = k THEN None ELSE items[b][y]
    BY DEF TypeInv, Map
  <1> QED
    BY <1>1 DEF TypeInv, Map, Present

LEMMA VisitKeeps ==
  ASSUME Inv, NEW b \in Buckets, Visit(b)
  PROVE  Inv'
  <1> DEFINE o == scan[b].oldest
  <1>0. /\ TypeInv /\ Recorded(b) /\ Named(b) /\ Scanned(b) /\ Flooded(b)
        /\ clock \in Int /\ IsFiniteSet(Present(b)) /\ Present(b) \subseteq Texts
    BY PresentFinite DEF Inv, SetInv, TypeInv
  <1>1. PICK k \in scan[b].todo :
          LET expired == clock - items[b][k] >= TTL
              older == o = Empty \/ items[b][k] < items[b][o]
          IN  /\ items' = IF expired THEN [items EXCEPT ![b][k] = None] ELSE items
              /\ scan' = [scan EXCEPT ![b].todo = @ \ {k},
                                      ![b].oldest = IF ~ expired /\ older THEN k ELSE @]
              /\ UNCHANGED <<clock, hits, last>>
    BY DEF Visit
  <1>2. ~ Free(b) /\ k \in Texts /\ k \in Present(b) /\ k # Empty /\ k \notin Visited(b)
    BY <1>0, <1>1 DEF Scanned, Named, Visited
  <1>3. /\ ~ Free(b)' /\ scan'[b].todo = scan[b].todo \ {k}
        /\ scan' \in [Buckets -> [phase : {"free", "loop"}, todo : SUBSET Texts,
                                 oldest : Texts \cup {Empty}]]
        /\ \A d \in Buckets \ {b} : scan'[d] = scan[d]
    BY <1>0, <1>1, <1>2 DEF TypeInv, Free
  <1>4. CASE clock - items[b][k] >= TTL
    <2>1. items' = [items EXCEPT ![b][k] = None] /\ scan'[b].oldest = o
      BY <1>0, <1>1, <1>4 DEF TypeInv
    <2>2. /\ items' \in [Buckets -> Map]
          /\ \A d \in Buckets \ {b} : items'[d] = items[d]
          /\ \A y \in Texts : items'[b][y] = IF y = k THEN None ELSE items[b][y]
          /\ Present(b)' = Present(b) \ {k}
      BY <1>0, <1>2, <2>1, DropEffect
    <2>3. TypeInv' /\ \A d \in Buckets \ {b} : SetInv(d)'
      BY <1>1, <1>3, <2>2, Frame DEF Inv, TypeInv
    <2>4. Recorded(b)' /\ Named(b)'
      BY <1>0, <1>1, <2>2 DEF Recorded, Named
    <2>5. Scanned(b)'
      <3>1. Visited(b)' = Visited(b)
        BY <1>1, <1>2, <1>3, <2>2 DEF Visited
      <3>2. scan'[b].todo \subseteq Present(b)'
        BY <1>0, <1>2, <1>3, <2>2 DEF Scanned
      <3>3. Cardinality(Present(b)') <= Cap + 1
        <4>1. /\ Cardinality(Present(b)) \in Nat /\ Cardinality(Present(b) \ {k}) \in Nat
              /\ Cardinality(Present(b) \ {k}) = Cardinality(Present(b)) - 1
          BY <1>0, <1>2, FS_RemoveElement, FS_CardinalityType
        <4> QED
          BY <4>1, <1>0, <1>2, <2>2, UALogAssumption DEF Scanned
      <3>4. \A y \in Visited(b) : items'[b][y] = items[b][y]
        BY <1>0, <1>2, <2>2 DEF Visited
      <3> QED
        BY <1>0, <1>2, <1>3, <2>1, <3>1, <3>2, <3>3, <3>4 DEF Scanned
    <2>6. Flooded(b)'
      <3>1. \A x \in Texts : Since(b, x)' = Since(b, x)
        BY <1>1 DEF Since
      <3>2. clock - hits[b][k] >= TTL /\ hits[b][k] \in Int
        BY <1>0, <1>2, <1>4 DEF Recorded, Present, TypeInv, Map
      <3>3. ~ (clock - hits[b][k] < TTL)
        BY <3>2, <1>0, UALogAssumption
      <3> QED
        BY <1>0, <1>1, <2>2, <3>1, <3>3 DEF Flooded
    <2> QED
      BY <2>3, <2>4, <2>5, <2>6 DEF Inv, SetInv
  <1>5. CASE ~ (clock - items[b][k] >= TTL)
    <2>1. items' = items /\ UNCHANGED <<clock, hits>>
      BY <1>1, <1>5
    <2>2. TypeInv' /\ \A d \in Buckets \ {b} : SetInv(d)'
      BY <1>3, <2>1, Frame DEF Inv, TypeInv
    <2>3. Present(b)' = Present(b) /\ \A x \in Texts : Since(b, x)' = Since(b, x)
      BY <2>1 DEF Present, Since
    <2>4. Visited(b)' = Visited(b) \cup {k}
      BY <1>2, <1>3, <2>3 DEF Visited
    <2>5. Scanned(b)'
      <3>1. \A y \in Present(b) : items[b][y] \in Int
        BY <1>0 DEF Present, TypeInv, Map
      <3>2. CASE o = Empty \/ items[b][k] < items[b][o]
        <4>1. scan'[b].oldest = k
          BY <1>0, <1>1, <1>5, <3>2 DEF TypeInv
        <4>2. \A y \in Visited(b) \cup {k} : items[b][k] <= items[b][y]
          BY <1>0, <1>2, <3>1, <3>2 DEF Scanned, Visited
        <4> QED
          BY <1>0, <1>2, <1>3, <2>1, <2>3, <2>4, <4>1, <4>2 DEF Scanned
      <3>3. CASE ~ (o = Empty \/ items[b][k] < items[b][o])
        <4>1. scan'[b].oldest = o
          BY <1>0, <1>1, <1>5, <3>3 DEF TypeInv
        <4>2. o \in Visited(b) /\ \A y \in Visited(b) \cup {k} : items[b][o] <= items[b][y]
          BY <1>0, <1>2, <3>1, <3>3 DEF Scanned, Visited
        <4> QED
          BY <1>0, <1>2, <1>3, <2>1, <2>3, <2>4, <3>3, <4>1, <4>2 DEF Scanned
      <3> QED
        BY <3>2, <3>3
    <2> QED
      BY <1>0, <2>1, <2>2, <2>3, <2>5 DEF Inv, SetInv, Recorded, Named, Flooded
  <1> QED
    BY <1>4, <1>5

LEMMA EndScanKeeps ==
  ASSUME Inv, NEW b \in Buckets, EndScan(b)
  PROVE  Inv'
  <1> DEFINE o == scan[b].oldest
  <1>0. /\ TypeInv /\ Recorded(b) /\ Named(b) /\ Scanned(b) /\ Flooded(b)
        /\ clock \in Int /\ IsFiniteSet(Present(b)) /\ Present(b) \subseteq Texts
        /\ Cardinality(Present(b)) \in Nat
    BY PresentFinite, FS_CardinalityType DEF Inv, SetInv, TypeInv
  <1>1. /\ ~ Free(b) /\ scan[b].todo = {}
        /\ items' = IF Cardinality(Present(b)) > Cap /\ o # Empty
                    THEN [items EXCEPT ![b][o] = None] ELSE items
        /\ UNCHANGED <<clock, hits>>
    BY DEF EndScan
  <1>2. Visited(b) = Present(b)
    BY <1>1 DEF Visited
  <1>3. /\ Free(b)' /\ scan'[b].todo = {}
        /\ scan' \in [Buckets -> [phase : {"free", "loop"}, todo : SUBSET Texts,
                                 oldest : Texts \cup {Empty}]]
        /\ \A d \in Buckets \ {b} : scan'[d] = scan[d]
    BY <1>0 DEF EndScan, Idle, TypeInv, Free
  <1>4. \A x \in Texts : Since(b, x)' = Since(b, x)
    BY <1>1 DEF Since
  <1>5. CASE Cardinality(Present(b)) > Cap
    <2>1. o # Empty
      BY <1>0, <1>1, <1>2, <1>5, FS_EmptySet, UALogAssumption DEF Scanned
    <2>2. o \in Present(b) /\ \A y \in Present(b) : items[b][o] <= items[b][y]
      BY <1>0, <1>1, <1>2, <2>1 DEF Scanned
    <2>3. o \in Texts /\ items' = [items EXCEPT ![b][o] = None]
      BY <1>0, <1>1, <1>5, <2>1, <2>2
    <2>4. /\ items' \in [Buckets -> Map]
          /\ \A d \in Buckets \ {b} : items'[d] = items[d]
          /\ \A y \in Texts : items'[b][y] = IF y = o THEN None ELSE items[b][y]
          /\ Present(b)' = Present(b) \ {o}
      BY <1>0, <2>3, DropEffect
    <2>5. TypeInv' /\ \A d \in Buckets \ {b} : SetInv(d)'
      BY <1>1, <1>3, <2>4, Frame DEF Inv, TypeInv
    <2>6. Recorded(b)' /\ Named(b)'
      BY <1>0, <1>1, <2>4 DEF Recorded, Named
    <2>7. /\ Cardinality(Present(b) \ {o}) = Cardinality(Present(b)) - 1
          /\ IsFiniteSet(Present(b) \ {o})
      BY <1>0, <2>2, FS_RemoveElement
    <2>8. Cardinality(Present(b) \ {o}) = Cap
      BY <1>0, <1>1, <1>5, <2>7, UALogAssumption DEF Scanned
    <2>9. Scanned(b)'
      BY <1>3, <2>4, <2>8, UALogAssumption DEF Scanned
    <2>10. Flooded(b)'
      <3>1. Present(b) \ {o} \subseteq Since(b, o)
        BY <1>0, <2>2 DEF Since, Recorded, Present
      <3>2. IsFiniteSet(Since(b, o))
        <4>1. Since(b, o) \subseteq Texts
          BY DEF Since
        <4> QED
          BY <4>1, FS_Subset, UALogAssumption
      <3>3. Cardinality(Since(b, o)) >= Cap
        <4>1. Cardinality(Present(b) \ {o}) <= Cardinality(Since(b, o))
          BY <3>1, <3>2, FS_Subset
        <4> QED
          BY <4>1, <3>2, <2>8, FS_CardinalityType, UALogAssumption
      <3> QED
        BY <1>0, <1>1, <1>4, <2>4, <3>3 DEF Flooded
    <2> QED
      BY <2>5, <2>6, <2>9, <2>10 DEF Inv, SetInv
  <1>6. CASE ~ (Cardinality(Present(b)) > Cap)
    <2>1. UNCHANGED <<clock, items, hits>>
      BY <1>1, <1>6
    <2>2. TypeInv' /\ \A d \in Buckets \ {b} : SetInv(d)'
      BY <1>3, <2>1, Frame DEF Inv, TypeInv
    <2>3. Present(b)' = Present(b)
      BY <2>1 DEF Present
    <2>4. Scanned(b)'
      BY <1>0, <1>3, <1>6, <2>3, UALogAssumption DEF Scanned
    <2> QED
      BY <1>0, <1>4, <2>1, <2>2, <2>3, <2>4 DEF Inv, SetInv, Recorded, Named, Flooded
  <1> QED
    BY <1>5, <1>6

\* Time lets entries expire, and makes no flood needed that was not.
LEMMA TickKeeps == ASSUME Inv, Tick PROVE Inv'
  <1>1. clock' = clock + 1 /\ UNCHANGED <<items, scan, hits>> /\ clock \in Int
    BY DEF Tick, Inv, TypeInv
  <1>2. TypeInv'
    BY <1>1 DEF Inv, TypeInv
  <1>3. ASSUME NEW b \in Buckets PROVE SetInv(b)'
    <2>1. \A x \in Texts : hits[b][x] # None => hits[b][x] \in Int
      BY DEF Inv, TypeInv, Map
    <2>2. Present(b)' = Present(b) /\ \A x \in Texts : Since(b, x)' = Since(b, x)
      BY <1>1 DEF Present, Since
    <2>3. Recorded(b)'
      BY <1>1, <2>1 DEF Inv, SetInv, Recorded
    <2>4. Named(b)' /\ Scanned(b)'
      BY <1>1, <2>2 DEF Inv, SetInv, Named, Scanned, Visited, Free
    <2>5. Flooded(b)'
      BY <1>1, <2>1, <2>2, UALogAssumption DEF Inv, SetInv, Flooded
    <2> QED
      BY <2>3, <2>4, <2>5 DEF SetInv
  <1> QED
    BY <1>2, <1>3 DEF Inv

-----------------------------------------------------------------------------

LEMMA InvInit == Init => Inv
  <1> SUFFICES ASSUME Init PROVE Inv
    OBVIOUS
  <1>1. TypeInv
    BY DEF Init, TypeInv, Map, Idle
  <1>2. ASSUME NEW b \in Buckets PROVE SetInv(b)
    <2>1. Present(b) = {} /\ Free(b) /\ scan[b].todo = {}
      BY DEF Init, Present, Free, Idle
    <2>2. Cardinality(Present(b)) <= Cap
      BY <2>1, FS_EmptySet, UALogAssumption
    <2> QED
      BY <2>1, <2>2 DEF Init, SetInv, Recorded, Named, Scanned, Flooded
  <1> QED
    BY <1>1, <1>2 DEF Inv

LEMMA InvNext == Inv /\ [Next]_vars => Inv'
  <1>1. ASSUME Inv, UNCHANGED vars PROVE Inv'
    <2>1. UNCHANGED <<clock, items, scan, hits>>
      BY <1>1 DEF vars
    <2> QED
      BY <1>1, <2>1, Frame DEF Inv, TypeInv
  <1> QED
    BY <1>1, RecordKeeps, VisitKeeps, EndScanKeeps, TickKeeps DEF Next

LEMMA InvImplies == Inv => Bounded /\ ForgottenByFlood
  <1> SUFFICES ASSUME Inv PROVE Bounded /\ ForgottenByFlood
    OBVIOUS
  <1>1. Bounded
    BY DEF Inv, SetInv, Scanned, Bounded
  <1>2. ForgottenByFlood
    BY DEF Inv, SetInv, Flooded, Since, ForgottenByFlood
  <1> QED
    BY <1>1, <1>2

\* UALog!Bounded in every reachable state: the loop always has a candidate when
\* the map is over its cap, because "" is never an entry, and one is enough.
THEOREM BoundedCorrect == Spec => []Bounded
  BY InvInit, InvNext, InvImplies, PTL DEF Spec

\* UALog!ForgottenByFlood in every reachable state: what the loop drops is older
\* than everything it leaves, whatever order the map is visited in.
THEOREM ForgottenByFloodCorrect == Spec => []ForgottenByFlood
  BY InvInit, InvNext, InvImplies, PTL DEF Spec

-----------------------------------------------------------------------------
(* The brand of a list of client hints *)

\* A set of numbers, if there is one in it, has a least one.
LEMMA Least ==
  ASSUME NEW T \in SUBSET Nat, T # {}
  PROVE  \E i \in T : \A j \in T : i <= j
  <1>1. PICK n \in T : TRUE
    OBVIOUS
  <1> DEFINE Upto(k) == T \cap 0..k
             D == {Upto(k) : k \in T \cap 0..n}
             R == StrictSubsetOrdering(0..n)
  <1>2. D \subseteq FiniteSubsetsOf(0..n) /\ Upto(n) \in D
    <2>1. IsFiniteSet(0..n)
      BY FS_Interval
    <2>2. ASSUME NEW k \in T \cap 0..n PROVE Upto(k) \in SUBSET (0..n) /\ IsFiniteSet(Upto(k))
      <3>1. Upto(k) \in SUBSET (0..n)
        OBVIOUS
      <3> QED
        BY <3>1, <2>1, FS_Subset
    <2> QED
      BY <2>2 DEF FiniteSubsetsOf
  <1>3. PICK x \in D : \A y \in D : ~ (<<y, x>> \in R)
    BY <1>2, FS_Interval, FS_StrictSubsetOrderingWellFounded, WFMin, Zenon
  <1>4. PICK k \in T \cap 0..n : x = Upto(k)
    OBVIOUS
  <1>5. ASSUME NEW j \in T, j < k PROVE FALSE
    <2>1. Upto(j) \in D /\ Upto(j) \subseteq Upto(k) /\ k \in Upto(k) \ Upto(j)
      BY <1>5
    <2>2. Upto(j) \in SUBSET (0..n) /\ Upto(k) \in SUBSET (0..n)
      BY <1>5
    <2>3. <<Upto(j), Upto(k)>> \in R
      BY <2>1, <2>2 DEF StrictSubsetOrdering
    <2> QED
      BY <2>1, <2>3, <1>3, <1>4
  <1> QED
    BY <1>4, <1>5

\* FirstIn finds an entry that is wanted, when the list has one.
LEMMA FirstInFinds ==
  ASSUME NEW s, DOMAIN s \subseteq Nat, NEW S, \E i \in DOMAIN s : s[i] \in S
  PROVE  FirstIn(s, S) \in S /\ \E i \in DOMAIN s : FirstIn(s, S) = s[i]
  <1>1. PICK i \in {j \in DOMAIN s : s[j] \in S} : \A j \in {k \in DOMAIN s : s[k] \in S} : i <= j
    BY Least
  <1>2. \E k \in DOMAIN s : s[k] \in S /\ \A j \in DOMAIN s : s[j] \in S => k <= j
    BY <1>1
  <1> QED
    BY <1>2 DEF FirstIn

\* The brand that ChooseBrand finds depends on what a browser lists and not on the
\* order, which browsers shuffle, as long as one of the preferred brands is there
\* or at most one that is neither Chromium nor taken for GREASE.
THEOREM AnyOrder ==
  ASSUME NEW l1, NEW l2, DOMAIN l1 \subseteq Nat, DOMAIN l2 \subseteq Nat,
         Sent(l1) = Sent(l2),
         \/ \E i \in DOMAIN Preferred : Preferred[i] \in Sent(l1)
         \/ \A b, c \in Others(l1) : b = c
  PROVE  ChooseBrand(l1) = ChooseBrand(l2)
  <1>1. Others(l1) = Others(l2)
    BY DEF Others
  <1>2. CASE \E i \in DOMAIN Preferred : Preferred[i] \in Sent(l1)
    BY <1>2 DEF ChooseBrand
  <1>3. CASE ~ \E i \in DOMAIN Preferred : Preferred[i] \in Sent(l1)
    <2>1. ASSUME NEW l \in {l1, l2}, Others(l) # {}
          PROVE  FirstIn(Cut(l), Others(l)) \in Others(l)
      <3>1. DOMAIN Cut(l) \subseteq Nat /\ \E i \in DOMAIN Cut(l) : Cut(l)[i] \in Others(l)
        BY <2>1 DEF Others, Sent, Cut
      <3> QED
        BY <3>1, FirstInFinds
    <2> QED
      BY <1>1, <1>3, <2>1 DEF ChooseBrand
  <1> QED
    BY <1>2, <1>3

\* The places of a list of three brands at most are numbers.
LEMMA ListDomain ==
  ASSUME NEW x, NEW y, NEW z, NEW S, NEW l \in [1..Cardinality({x, y, z}) -> S]
  PROVE  DOMAIN l \subseteq Nat
  <1> DEFINE n == Cardinality({x, y, z})
  <1>1. n \in Nat
    <2>1. IsFiniteSet({x} \cup {y}) /\ IsFiniteSet({z})
      BY FS_Singleton, FS_Union, Zenon
    <2>2. IsFiniteSet(({x} \cup {y}) \cup {z})
      BY <2>1, FS_Union, Zenon
    <2>3. {x, y, z} = ({x} \cup {y}) \cup {z}
      BY Zenon
    <2> QED
      BY <2>2, <2>3, FS_CardinalityType
  <1>2. DOMAIN l = 1..n
    OBVIOUS
  <1> HIDE DEF n
  <1> QED
    BY <1>1, <1>2

\* Chromium is not a preferred brand.
LEMMA PreferredFacts ==
  DOMAIN Preferred \subseteq Nat /\ \A i \in DOMAIN Preferred : Preferred[i] # "Chromium"
  <1>1. DOMAIN Preferred = 1..6
    BY DEF Preferred
  <1>2. \A i \in 1..6 : i = 1 \/ i = 2 \/ i = 3 \/ i = 4 \/ i = 5 \/ i = 6
    OBVIOUS
  <1>3. /\ Preferred[1] # "Chromium" /\ Preferred[2] # "Chromium" /\ Preferred[3] # "Chromium"
        /\ Preferred[4] # "Chromium" /\ Preferred[5] # "Chromium" /\ Preferred[6] # "Chromium"
    BY DEF Preferred
  <1> QED
    BY <1>1, <1>2, <1>3

\* A browser that sends a legible list is known by its own brand.
LEMMA ChosenBrand ==
  ASSUME NEW a \in Agents, a.brand # "", NEW list \in Lists(a), Legible(a, list)
  PROVE  ChooseBrand(list) = a.brand
  <1> DEFINE Chromium == "Chromium"
  <1>0. CutBrand[Chromium] = Chromium /\ \A i \in DOMAIN Preferred : Preferred[i] # Chromium
    BY AgentsAssumption, PreferredFacts
  <1>1. PICK g \in Grease :
          /\ list \in [1..Cardinality({a.brand, Chromium, g}) -> {a.brand, Chromium, g}]
          /\ \A b \in {a.brand, Chromium, g} : \E i \in DOMAIN list : list[i] = b
    BY DEF Lists
  <1> HIDE DEF Chromium
  <1>2. DOMAIN list \subseteq Nat
    BY <1>1, ListDomain, Zenon
  <1>3. Sent(list) = {a.brand, Chromium, CutBrand[g]}
    <2>1. CutBrand[a.brand] = a.brand
      BY AgentsAssumption
    <2>2. Sent(list) = {CutBrand[a.brand], CutBrand[Chromium], CutBrand[g]}
      <3>1. \A i \in DOMAIN list : list[i] \in {a.brand, Chromium, g}
        BY <1>1
      <3>2. \A b \in {a.brand, Chromium, g} : \E i \in DOMAIN list : list[i] = b
        BY <1>1
      <3> QED
        BY <3>1, <3>2 DEF Sent, Cut
    <2> QED
      BY <1>0, <2>1, <2>2, Zenon
  <1>4. \A i \in DOMAIN Preferred : Preferred[i] \in Sent(list) => Preferred[i] = a.brand
    BY <1>0, <1>3, AgentsAssumption
  <1>5. CASE \E i \in DOMAIN Preferred : Preferred[i] = a.brand
    <2>1. \E i \in DOMAIN Preferred : Preferred[i] \in Sent(list)
      BY <1>3, <1>5
    <2>2. FirstIn(Preferred, Sent(list)) = a.brand
      BY <2>1, <1>4, FirstInFinds, PreferredFacts
    <2> QED
      BY <2>1, <2>2 DEF ChooseBrand
  <1>6. CASE ~ \E i \in DOMAIN Preferred : Preferred[i] = a.brand
    <2>1. CutBrand[g] = g /\ IsGrease(g) /\ ~ IsGrease(a.brand)
      BY <1>1, <1>6, AgentsAssumption DEF Legible, IsGrease
    <2>2. Others(list) = {a.brand} \ {Chromium}
      BY <1>3, <2>1 DEF Others, Chromium
    <2>3. ~ \E i \in DOMAIN Preferred : Preferred[i] \in Sent(list)
      BY <1>4, <1>6
    <2>4. ASSUME a.brand # Chromium PROVE FirstIn(Cut(list), Others(list)) = a.brand
      <3>1. DOMAIN Cut(list) \subseteq Nat /\ \E i \in DOMAIN Cut(list) : Cut(list)[i] \in Others(list)
        BY <1>2, <2>2, <2>4 DEF Others, Sent, Cut
      <3> QED
        BY <3>1, <2>2, FirstInFinds
    <2> QED
      BY <1>3, <2>2, <2>3, <2>4 DEF ChooseBrand, Chromium
  <1> QED
    BY <1>5, <1>6

\* NamesItself in every reachable state, for every agent, every list it may send and
\* whatever words its text has.
THEOREM NamesItselfCorrect == Spec => []NamesItself
  <1>1. ASSUME NEW a \in Agents, NEW r \in Requests(a), r.legible
        PROVE  r.ua.slug = IF r.hinted THEN r.agent.slug ELSE r.agent.textSlug
    <2>1. ChooseBrand(<<>>) = ""
      BY DEF ChooseBrand, Others, Sent, Cut
    <2>2. CASE r = [agent |-> a, hinted |-> FALSE, legible |-> TRUE,
                    ua |-> ParseUA(a.text, ParseClientHints(<<>>, "", FALSE))]
      BY <2>1, <2>2, AgentsAssumption DEF ParseUA, ParseClientHints
    <2>3. ASSUME NEW list \in Lists(a),
                 r = [agent |-> a, hinted |-> a.brand # "", legible |-> Legible(a, list),
                      ua |-> ParseUA(a.text, ParseClientHints(list, a.platform, a.mobile))]
          PROVE  r.ua.slug = IF r.hinted THEN r.agent.slug ELSE r.agent.textSlug
      <3>1. ChooseBrand(list) = a.brand
        BY <1>1, <2>1, <2>3, ChosenBrand DEF Lists
      <3>2. r.ua.slug = IF a.text = "" THEN ""
                        ELSE IF a.brand # "" THEN FirstRow(BrandTable, BrandWords[a.brand])
                        ELSE FirstRow(BrowserTable, UAWords[a.text])
        BY <2>3, <3>1 DEF ParseUA, ParseClientHints
      <3> QED
        BY <2>3, <3>2, AgentsAssumption
    <2> QED
      BY <2>2, <2>3 DEF Requests
  <1>2. Init => NamesItself
    BY DEF Init, NamesItself
  <1>3. NamesItself /\ [Next]_vars => NamesItself'
    <2> SUFFICES ASSUME NamesItself, [Next]_vars PROVE NamesItself'
      OBVIOUS
    <2>1. ASSUME NEW a \in Agents, Record(a) PROVE NamesItself'
      BY <1>1, <2>1 DEF Record, NamesItself
    <2>2. CASE UNCHANGED last
      BY <2>2 DEF NamesItself
    <2> QED
      BY <2>1, <2>2 DEF Next, Tick, Visit, EndScan, vars
  <1> QED
    BY <1>2, <1>3, PTL DEF Spec

=============================================================================
