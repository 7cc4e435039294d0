-------------------------- MODULE CidrIndexProofs --------------------------
(***************************************************************************)
(* For every address family, set of prefixes and list length: the merge in *)
(* place keeps the index disjoint and loses no entry, and Lookup answers   *)
(* what a linear scan of the entries does.                                 *)
(*                                                                         *)
(* The invariant comes in three layers.  Arrays says which part of rs is   *)
(* sorted, disjoint or still to be read; Coverage says that the ranges     *)
(* that count cover the entries and nothing else; Search bounds what the   *)
(* bisection has excluded.                                                 *)
(***************************************************************************)
EXTENDS CidrIndex, TLAPS

Whole(r) == r.first <= r.last

\* The order of what is read after what is out, and among what is read.
Pending ==
  pc = "merge" =>
    /\ \A x \in 1..w, y \in i..n : rs[x].first <= rs[y].first
    /\ \A x, y \in i..n : x < y => rs[x].first <= rs[y].first

Arrays ==
  /\ TypeOK
  /\ pc = "sort" => rs = given /\ w = 0
  /\ pc = "merge" => 1 <= w
  /\ \A x \in 1..n : Whole(rs[x]) /\ Whole(given[x])
  /\ Pending
  /\ Disjoint

In(a, r) == r.first <= a /\ a <= r.last

\* No range that counts reaches an address that no entry of its source does.
NothingAdded ==
  pc # "sort" => \A x \in Live : \A a \in Address : In(a, rs[x]) =>
    \E g \in 1..n : In(a, given[g]) /\ given[g].provider = rs[x].provider

\* Two entries with an address in common have the same source.
OneOwner ==
  \A x, y \in 1..n : \A a \in Address :
    In(a, given[x]) /\ In(a, given[y]) => given[x].provider = given[y].provider

Coverage == OneOwner /\ NothingLost /\ NothingAdded

\* What the bisection has excluded, and what it answers with.
Search ==
  /\ pc = "search" =>
       /\ \A x \in 1..lo : rs[x].first <= ip
       /\ \A x \in (hi + 1)..w : ip < rs[x].first
  /\ MatchesLinearScan

IInv == Arrays /\ Coverage /\ Search

-----------------------------------------------------------------------------

\* The bounds of a range are numbers.
LEMMA Bounds ==
  ASSUME NEW r \in Range
  PROVE  r.first \in Nat /\ r.last \in Nat /\ r.first \in Address /\ r.last \in Address
BY IndexAssumption DEF Range, Address

\* The entries are whole ranges of one owner each, and nothing has been built.
LEMMA InitIInv == Init => IInv
<1> SUFFICES ASSUME Init PROVE IInv
  OBVIOUS
<1> USE IndexAssumption DEF Init, Address
<1>1. \A x \in 1..n : rs[x] \in Range /\ Whole(rs[x])
  BY DEF Range, Whole
<1>2. rs \in [1..n -> Range]
  BY <1>1
<1>3. TypeOK
  BY <1>2 DEF TypeOK
<1>4. Arrays
  BY <1>1, <1>3 DEF Arrays, Pending, Disjoint
<1>5. OneOwner
  <2> SUFFICES ASSUME NEW x \in 1..n, NEW y \in 1..n, NEW a \in Address,
                      In(a, given[x]), In(a, given[y])
               PROVE  given[x].provider = given[y].provider
    BY DEF OneOwner
  <2>1. rs[x].first <= rs[y].last /\ rs[y].first <= rs[x].last
    BY <1>1 DEF In, Range
  <2> QED BY <2>1 DEF Attributable
<1> QED BY <1>4, <1>5 DEF IInv, Coverage, NothingLost, NothingAdded, Search, MatchesLinearScan

\* Sorting rearranges the entries and none of them is lost or changed.
LEMMA SortIInv == IInv /\ Sort => IInv'
<1> SUFFICES ASSUME IInv, Sort PROVE IInv'
  OBVIOUS
<1> USE IndexAssumption DEF Address
<1>1. PICK p \in [1..n -> 1..n] :
        /\ \A z \in 1..n : \E x \in 1..n : p[x] = z
        /\ \A x, y \in 1..n : x < y => Before(rs[p[x]], rs[p[y]])
        /\ rs' = [x \in 1..n |-> rs[p[x]]]
  BY DEF Sort
<1>2. /\ pc = "sort" /\ rs = given /\ n' = n /\ given' = given /\ ip' = ip
      /\ lo' = lo /\ hi' = hi /\ hit' = hit /\ i' = 2 /\ w = 0
      /\ n \in 0..MaxEntries /\ rs \in [1..n -> Range]
  BY DEF IInv, Arrays, TypeOK, Sort
<1>3. \/ pc' = "merge" /\ w' = 1 /\ n >= 2
      \/ pc' = "ready" /\ w' = n /\ n < 2
  BY <1>2 DEF Sort
<1>4. \A x \in 1..n : rs'[x] = given[p[x]] /\ rs'[x] \in Range /\ Whole(rs'[x])
  BY <1>1, <1>2 DEF IInv, Arrays
<1>5. ASSUME NEW x \in 1..n, NEW y \in 1..n, x < y
      PROVE  rs'[x].first <= rs'[y].first
  <2>1. Before(rs'[x], rs'[y])
    BY <1>1, <1>5
  <2> QED BY <1>4, <2>1, Bounds DEF Before
<1>6. TypeOK'
  <2>1. rs' \in [1..n -> Range]
    BY <1>1, <1>4
  <2>2. pc' \in {"merge", "ready"} /\ w' \in 0..n /\ (pc' = "merge" => w' < i' /\ i' <= n + 1)
    BY <1>2, <1>3
  <2>3. hi = 0 /\ lo = 0
    BY <1>2 DEF IInv, Arrays, TypeOK
  <2> QED BY <1>2, <2>1, <2>2, <2>3 DEF IInv, Arrays, TypeOK
<1>7. Arrays'
  <2>1. Pending'
    BY <1>2, <1>3, <1>5 DEF Pending
  <2>2. Disjoint'
    BY <1>2, <1>3 DEF Disjoint
  <2> QED BY <1>2, <1>3, <1>4, <1>6, <2>1, <2>2 DEF IInv, Arrays
<1>8. Live' = 1..n
  BY <1>2, <1>3 DEF Live
<1>9. NothingLost'
  <2> SUFFICES ASSUME NEW g \in 1..n
               PROVE  \E x \in 1..n : /\ rs'[x].first <= given[g].first
                                      /\ given[g].last <= rs'[x].last
                                      /\ rs'[x].provider = given[g].provider
    BY <1>2, <1>8 DEF NothingLost
  <2>1. PICK x \in 1..n : p[x] = g
    BY <1>1
  <2>2. rs'[x] = given[g] /\ rs'[x] \in Range
    BY <1>4, <2>1
  <2> QED BY <2>2, Bounds
<1>10. NothingAdded'
  BY <1>1, <1>2, <1>4, <1>8 DEF NothingAdded
<1>11. Coverage'
  BY <1>2, <1>9, <1>10 DEF IInv, Coverage, OneOwner
<1>12. Search'
  BY <1>3 DEF Search, MatchesLinearScan
<1> QED BY <1>7, <1>11, <1>12 DEF IInv

\* What the loop sees before it handles the range at i.
LEMMA LoopHead ==
  ASSUME IInv, Merging
  PROVE  /\ pc = "merge" /\ 1 <= w /\ w < i /\ i <= n /\ n \in Nat /\ w \in Nat /\ i \in Int
         /\ w \in 1..n /\ i \in 1..n /\ w + 1 \in 1..n
         /\ rs \in [1..n -> Range] /\ given \in [1..n -> Range]
         /\ \A x \in 1..n : Whole(rs[x]) /\ Whole(given[x])
         /\ rs[w].first <= rs[i].first
         /\ Live = (1..w) \cup (i..n)
BY DEF IInv, Arrays, TypeOK, Merging, Pending, Live

\* The range read is added to the last one of out, which it touches.
LEMMA ExtendIInv == IInv /\ Extend => IInv'
<1> SUFFICES ASSUME IInv, Extend PROVE IInv'
  OBVIOUS
<1> USE IndexAssumption DEF Address
<1>1. Merging
  BY DEF Extend
<1> DEFINE q == rs[w]
           r == rs[i]
           longest == IF r.last > q.last THEN r.last ELSE q.last
<1>2. /\ pc' = pc /\ n' = n /\ w' = w /\ i' = i + 1 /\ given' = given
      /\ ip' = ip /\ lo' = lo /\ hi' = hi /\ hit' = hit
      /\ q.provider = r.provider /\ Touches(r, q)
  BY DEF Extend
<1>3. q \in Range /\ r \in Range
  BY <1>1, LoopHead
<1>4. /\ rs' \in [1..n -> Range]
      /\ \A x \in 1..n : x # w => rs'[x] = rs[x]
      /\ rs'[w].first = q.first /\ rs'[w].provider = q.provider
      /\ rs'[w].last = longest
  <2>1. CASE r.last > q.last
    <3>1. rs' = [rs EXCEPT ![w] = [q EXCEPT !.last = r.last]]
      BY <2>1 DEF Extend
    <3>2. [q EXCEPT !.last = r.last] \in Range
      BY <1>3 DEF Range
    <3> QED BY <2>1, <3>1, <3>2, <1>1, <1>3, LoopHead DEF Range
  <2>2. CASE ~ (r.last > q.last)
    BY <2>2, <1>1, <1>3, LoopHead DEF Extend, Range
  <2> QED BY <2>1, <2>2
<1> HIDE DEF q, r
<1>5. q.first <= r.first /\ q.last <= longest /\ r.last <= longest
  BY <1>1, <1>3, LoopHead DEF q, r, Range
<1>6. \A x \in 1..n : Whole(rs'[x])
  <2> SUFFICES ASSUME NEW x \in 1..n PROVE Whole(rs'[x])
    OBVIOUS
  <2>1. Whole(rs[x]) /\ Whole(q)
    BY <1>1, LoopHead DEF q
  <2>2. q.first \in Nat /\ q.last \in Nat /\ r.last \in Nat
    BY <1>3, Bounds
  <2> QED BY <1>4, <1>5, <2>1, <2>2 DEF Whole
<1>7. Arrays'
  <2>1. TypeOK'
    BY <1>1, <1>2, <1>4, LoopHead DEF IInv, Arrays, TypeOK
  <2>2. Pending'
    <3>1. \A x \in 1..n : rs'[x].first = rs[x].first
      BY <1>4 DEF q
    <3>2. /\ \A x \in 1..w, y \in i..n : rs[x].first <= rs[y].first
          /\ \A x, y \in i..n : x < y => rs[x].first <= rs[y].first
      BY <1>1, LoopHead DEF IInv, Arrays, Pending
    <3>3. (1..w) \subseteq 1..n /\ ((i + 1)..n) \subseteq i..n /\ (i..n) \subseteq 1..n
      BY <1>1, LoopHead
    <3> QED BY <1>2, <3>1, <3>2, <3>3 DEF Pending
  <2>3. Disjoint'
    <3> SUFFICES ASSUME NEW x \in 1..w, NEW y \in 1..w, x < y
                 PROVE  rs'[x].last < rs'[y].first
      BY <1>2 DEF Disjoint
    <3>1. x # w /\ x \in 1..n /\ y \in 1..n /\ rs[x].last < rs[y].first
      BY <1>1, LoopHead DEF IInv, Arrays, Disjoint
    <3> QED BY <1>4, <3>1 DEF q
  <2> QED BY <1>1, <1>2, <1>6, <2>1, <2>2, <2>3, LoopHead DEF Arrays
<1>8. Live' = (1..w) \cup ((i + 1)..n)
  BY <1>1, <1>2, LoopHead DEF Live
<1>9. NothingLost'
  <2> SUFFICES ASSUME NEW g \in 1..n
               PROVE  \E x \in Live' : /\ rs'[x].first <= given[g].first
                                       /\ given[g].last <= rs'[x].last
                                       /\ rs'[x].provider = given[g].provider
    BY <1>2 DEF NothingLost
  <2>1. PICK x \in Live : /\ rs[x].first <= given[g].first
                          /\ given[g].last <= rs[x].last
                          /\ rs[x].provider = given[g].provider
    BY <1>1, LoopHead DEF IInv, Coverage, NothingLost
  <2>2. given[g] \in Range
    BY <1>1, LoopHead
  <2>3. CASE x \in {w, i}
    <3>1. w \in Live'
      BY <1>1, <1>8, LoopHead
    <3>2. /\ rs'[w].first <= given[g].first /\ given[g].last <= rs'[w].last
          /\ rs'[w].provider = given[g].provider
      BY <1>2, <1>3, <1>4, <1>5, <2>1, <2>2, <2>3 DEF q, r, Range
    <3> QED BY <3>1, <3>2
  <2>4. CASE x \notin {w, i}
    <3>1. x \in Live' /\ x \in 1..n
      BY <1>1, <1>8, <2>4, LoopHead
    <3> QED BY <1>4, <2>1, <2>4, <3>1
  <2> QED BY <2>3, <2>4
<1>10. NothingAdded'
  <2> SUFFICES ASSUME NEW x \in Live', NEW a \in Address, In(a, rs'[x])
               PROVE  \E g \in 1..n : In(a, given[g]) /\ given[g].provider = rs'[x].provider
    BY <1>2 DEF NothingAdded
  <2>1. \A z \in Live : In(a, rs[z]) =>
           \E g \in 1..n : In(a, given[g]) /\ given[g].provider = rs[z].provider
    BY <1>1, LoopHead DEF IInv, Coverage, NothingAdded
  <2>2. x \in 1..n /\ x \in Live /\ w \in Live /\ i \in Live
    BY <1>1, <1>8, LoopHead
  <2>3. CASE x # w
    BY <1>4, <2>1, <2>2, <2>3
  <2>4. CASE x = w
    <3>1. In(a, q) \/ In(a, r)
      BY <1>2, <1>3, <1>4, <2>4 DEF In, Touches, Range
    <3> QED BY <1>2, <1>4, <2>1, <2>2, <2>4, <3>1 DEF q, r
  <2> QED BY <2>3, <2>4
<1>11. Coverage'
  BY <1>2, <1>9, <1>10 DEF IInv, Coverage, OneOwner
<1>12. Search'
  BY <1>1, <1>2, LoopHead DEF Search, MatchesLinearScan
<1> QED BY <1>7, <1>11, <1>12 DEF IInv

\* The range read becomes the last one of out, past the end of the one before.
LEMMA AppendIInv == IInv /\ Append => IInv'
<1> SUFFICES ASSUME IInv, Append PROVE IInv'
  OBVIOUS
<1> USE IndexAssumption DEF Address
<1>1. Merging
  BY DEF Append
<1> DEFINE q == rs[w]
           r == rs[i]
<1>2. /\ pc' = pc /\ n' = n /\ w' = w + 1 /\ i' = i + 1 /\ given' = given
      /\ ip' = ip /\ lo' = lo /\ hi' = hi /\ hit' = hit
      /\ q.provider # r.provider \/ ~ Touches(r, q)
  BY DEF Append
<1>3. q \in Range /\ r \in Range /\ q.first <= r.first /\ Whole(q) /\ Whole(r)
  BY <1>1, LoopHead
<1>4. /\ rs' \in [1..n -> Range]
      /\ \A x \in 1..n : x # w + 1 => rs'[x] = rs[x]
      /\ rs'[w + 1] = r
  BY <1>1, <1>3, LoopHead DEF Append
<1> HIDE DEF q, r
<1>5. q.last < r.first
  <2>1. CASE q.provider # r.provider
    <3> SUFFICES ASSUME ~ (q.last < r.first) PROVE FALSE
      OBVIOUS
    <3>1. In(r.first, q) /\ In(r.first, r) /\ r.first \in Address
      BY <1>3, Bounds DEF In, Whole
    <3>2. \A z \in Live : \A a \in Address : In(a, rs[z]) =>
             \E g \in 1..n : In(a, given[g]) /\ given[g].provider = rs[z].provider
      BY <1>1, LoopHead DEF IInv, Coverage, NothingAdded
    <3>3. w \in Live /\ i \in Live
      BY <1>1, LoopHead
    <3>4. PICK g \in 1..n : In(r.first, given[g]) /\ given[g].provider = q.provider
      BY <3>1, <3>2, <3>3 DEF q
    <3>5. PICK h \in 1..n : In(r.first, given[h]) /\ given[h].provider = r.provider
      BY <3>1, <3>2, <3>3 DEF r
    <3> QED BY <2>1, <3>1, <3>4, <3>5 DEF IInv, Coverage, OneOwner
  <2>2. CASE ~ Touches(r, q)
    BY <1>3, <2>2, Bounds DEF Touches
  <2> QED BY <1>2, <2>1, <2>2
<1>6. Arrays'
  <2>1. TypeOK'
    BY <1>1, <1>2, <1>4, LoopHead DEF IInv, Arrays, TypeOK
  <2>2. /\ \A x \in 1..w, y \in i..n : rs[x].first <= rs[y].first
        /\ \A x, y \in i..n : x < y => rs[x].first <= rs[y].first
    BY <1>1, LoopHead DEF IInv, Arrays, Pending
  <2>3. /\ \A y \in (i + 1)..n : y \in i..n /\ y \in 1..n /\ rs'[y] = rs[y] /\ i < y
        /\ \A x \in 1..w : x \in 1..n /\ rs'[x] = rs[x]
        /\ \A x \in 1..(w + 1) : x \in 1..w \/ x = w + 1
    BY <1>1, <1>4, LoopHead
  <2>4. Pending'
    <3>1. \A x \in 1..(w + 1), y \in (i + 1)..n : rs'[x].first <= rs'[y].first
      <4> SUFFICES ASSUME NEW x \in 1..(w + 1), NEW y \in (i + 1)..n
                   PROVE  rs'[x].first <= rs'[y].first
        OBVIOUS
      <4>1. CASE x \in 1..w
        BY <2>2, <2>3, <4>1
      <4>2. CASE x = w + 1
        <5>1. i \in i..n
          BY <1>1, LoopHead
        <5> QED BY <1>4, <2>2, <2>3, <4>2, <5>1 DEF r
      <4> QED BY <2>3, <4>1, <4>2
    <3>2. \A x, y \in (i + 1)..n : x < y => rs'[x].first <= rs'[y].first
      BY <2>2, <2>3
    <3> QED BY <1>2, <3>1, <3>2 DEF Pending
  <2>5. Disjoint'
    <3> SUFFICES ASSUME NEW x \in 1..(w + 1), NEW y \in 1..(w + 1), x < y
                 PROVE  rs'[x].last < rs'[y].first
      BY <1>2 DEF Disjoint
    <3>1. \A u, v \in 1..w : u < v => rs[u].last < rs[v].first
      BY <1>1, LoopHead DEF IInv, Arrays, Disjoint
    <3>2. x \in 1..w
      BY <1>1, LoopHead
    <3>3. CASE y \in 1..w
      BY <2>3, <3>1, <3>2, <3>3
    <3>4. CASE y = w + 1
      <4>1. rs[x].last <= q.last
        <5>1. CASE x = w
          BY <1>3, <5>1, Bounds DEF q
        <5>2. CASE x # w
          <6>1. rs[x].last < q.first
            BY <1>1, <3>1, <3>2, <5>2, LoopHead DEF q
          <6>2. rs[x] \in Range
            BY <1>1, <2>3, <3>2, LoopHead
          <6> QED BY <1>3, <6>1, <6>2, Bounds DEF Whole
        <5> QED BY <5>1, <5>2
      <4>2. rs[x] \in Range
        BY <1>1, <2>3, <3>2, LoopHead
      <4> QED BY <1>3, <1>4, <1>5, <2>3, <3>2, <3>4, <4>1, <4>2, Bounds
    <3> QED BY <2>3, <3>3, <3>4
  <2>6. \A x \in 1..n : Whole(rs'[x])
    BY <1>1, <1>3, <1>4, LoopHead
  <2> QED BY <1>1, <1>2, <2>1, <2>4, <2>5, <2>6, LoopHead DEF Arrays
<1>7. Live' = (1..(w + 1)) \cup ((i + 1)..n)
  BY <1>1, <1>2, LoopHead DEF Live
<1>8. /\ Live' \subseteq 1..n /\ w + 1 \in Live' /\ i \in Live
      /\ \A x \in Live' : x # w + 1 => x \in Live
      /\ \A x \in Live : x # i => x \in Live' /\ x # w + 1
  BY <1>1, <1>7, LoopHead
<1>9. NothingLost'
  <2> SUFFICES ASSUME NEW g \in 1..n
               PROVE  \E x \in Live' : /\ rs'[x].first <= given[g].first
                                       /\ given[g].last <= rs'[x].last
                                       /\ rs'[x].provider = given[g].provider
    BY <1>2 DEF NothingLost
  <2>1. PICK x \in Live : /\ rs[x].first <= given[g].first
                          /\ given[g].last <= rs[x].last
                          /\ rs[x].provider = given[g].provider
    BY <1>1, LoopHead DEF IInv, Coverage, NothingLost
  <2>2. CASE x = i
    BY <1>4, <1>8, <2>1, <2>2 DEF r
  <2>3. CASE x # i
    BY <1>4, <1>8, <2>1, <2>3
  <2> QED BY <2>2, <2>3
<1>10. NothingAdded'
  <2> SUFFICES ASSUME NEW x \in Live', NEW a \in Address, In(a, rs'[x])
               PROVE  \E g \in 1..n : In(a, given[g]) /\ given[g].provider = rs'[x].provider
    BY <1>2 DEF NothingAdded
  <2>1. \A z \in Live : In(a, rs[z]) =>
           \E g \in 1..n : In(a, given[g]) /\ given[g].provider = rs[z].provider
    BY <1>1, LoopHead DEF IInv, Coverage, NothingAdded
  <2>2. CASE x = w + 1
    BY <1>4, <1>8, <2>1, <2>2 DEF r
  <2>3. CASE x # w + 1
    BY <1>4, <1>8, <2>1, <2>3
  <2> QED BY <2>2, <2>3
<1>11. Coverage'
  BY <1>2, <1>9, <1>10 DEF IInv, Coverage, OneOwner
<1>12. Search'
  BY <1>1, <1>2, LoopHead DEF Search, MatchesLinearScan
<1> QED BY <1>6, <1>11, <1>12 DEF IInv

\* The loop ends with nothing left to read.
LEMMA BuiltIInv == IInv /\ Built => IInv'
<1> SUFFICES ASSUME IInv, Built PROVE IInv'
  OBVIOUS
<1>1. /\ pc = "merge" /\ i > n /\ pc' = "ready"
      /\ UNCHANGED <<rs, n, w, i, ip, lo, hi, hit, given>>
  BY DEF Built
<1>2. n \in Nat /\ i \in Nat /\ w \in 0..n
  BY IndexAssumption DEF IInv, Arrays, TypeOK
<1>3. Live = 1..w /\ Live' = 1..w
  BY <1>1, <1>2 DEF Live
<1>4. Arrays'
  BY <1>1, <1>2 DEF IInv, Arrays, TypeOK, Pending, Disjoint
<1>5. NothingLost'
  BY <1>1, <1>3 DEF IInv, Coverage, NothingLost
<1>6. NothingAdded'
  BY <1>1, <1>3 DEF IInv, Coverage, NothingAdded
<1>7. Coverage'
  BY <1>1, <1>5, <1>6 DEF IInv, Coverage, OneOwner
<1> QED BY <1>1, <1>4, <1>7 DEF IInv, Search, MatchesLinearScan

\* A step of a lookup leaves the index alone.
LEMMA IndexKept ==
  ASSUME IInv, UNCHANGED <<rs, n, w, i, given>>,
         pc \in {"ready", "search", "found"}, pc' \in {"ready", "search", "found"},
         ip' \in Address, hi' \in 0..w, lo' \in 0..hi', hit' \in Providers \cup {None}
  PROVE  Arrays' /\ Coverage'
<1>1. Live = 1..w /\ Live' = 1..w
  BY DEF Live
<1>2. Arrays'
  BY DEF IInv, Arrays, TypeOK, Pending, Disjoint
<1>3. NothingLost' /\ NothingAdded'
  BY <1>1 DEF IInv, Coverage, NothingLost, NothingAdded
<1> QED BY <1>2, <1>3 DEF IInv, Coverage, OneOwner

\* A search starts with nothing excluded.
LEMMA AskIInv == ASSUME NEW a \in Address PROVE IInv /\ Ask(a) => IInv'
<1> SUFFICES ASSUME IInv, Ask(a) PROVE IInv'
  OBVIOUS
<1>1. w \in Nat
  BY IndexAssumption DEF IInv, Arrays, TypeOK
<1>2. Arrays' /\ Coverage'
  BY <1>1, IndexKept DEF Ask
<1> QED BY <1>1, <1>2 DEF Ask, IInv, Search, MatchesLinearScan

\* A probe excludes one side of the middle, since the ranges are in order.
LEMMA ProbeIInv == IInv /\ Probe => IInv'
<1> SUFFICES ASSUME IInv, Probe PROVE IInv'
  OBVIOUS
<1> DEFINE h == (lo + hi) \div 2
<1>1. /\ pc = "search" /\ lo < hi /\ UNCHANGED <<pc, rs, n, w, i, ip, hit, given>>
      /\ \/ rs[h + 1].first > ip /\ hi' = h /\ lo' = lo
         \/ ~ (rs[h + 1].first > ip) /\ lo' = h + 1 /\ hi' = hi
  BY DEF Probe
<1>2. w \in Nat /\ n \in Nat /\ w <= n /\ hi \in 0..w /\ lo \in 0..hi /\ ip \in Nat
      /\ rs \in [1..n -> Range]
  BY IndexAssumption DEF IInv, Arrays, TypeOK, Address
<1>3. h \in lo..(hi - 1) /\ h \in Nat
  BY <1>1, <1>2
<1> HIDE DEF h
<1>4. Arrays' /\ Coverage'
  BY <1>1, <1>2, <1>3, IndexKept DEF IInv, Arrays, TypeOK
<1>5. \A x \in 1..w : rs[x] \in Range /\ rs[x].first \in Nat /\ Whole(rs[x])
  BY <1>2, Bounds DEF IInv, Arrays
<1>6. \A x, y \in 1..w : x < y => rs[x].first < rs[y].first
  <2> SUFFICES ASSUME NEW x \in 1..w, NEW y \in 1..w, x < y PROVE rs[x].first < rs[y].first
    OBVIOUS
  <2>1. rs[x].last < rs[y].first
    BY <1>1 DEF IInv, Arrays, Disjoint
  <2> QED BY <1>5, <2>1, Bounds DEF Whole
<1>7. h + 1 \in 1..w
  BY <1>2, <1>3
<1>8. CASE rs[h + 1].first > ip /\ hi' = h /\ lo' = lo
  <2>1. \A x \in (h + 1)..w : ip < rs[x].first
    BY <1>2, <1>3, <1>5, <1>6, <1>7, <1>8
  <2> QED BY <1>1, <1>4, <1>8, <2>1 DEF IInv, Search, MatchesLinearScan
<1>9. CASE ~ (rs[h + 1].first > ip) /\ lo' = h + 1 /\ hi' = hi
  <2>1. \A x \in 1..(h + 1) : rs[x].first <= ip
    BY <1>2, <1>3, <1>5, <1>6, <1>7, <1>9
  <2> QED BY <1>1, <1>4, <1>9, <2>1 DEF IInv, Search, MatchesLinearScan
<1> QED BY <1>1, <1>8, <1>9

\* Only the last range that starts at or below ip can contain it.
LEMMA AnswerIInv == IInv /\ Answer => IInv'
<1> SUFFICES ASSUME IInv, Answer PROVE IInv'
  OBVIOUS
<1>1. /\ pc = "search" /\ lo = hi /\ pc' = "found"
      /\ UNCHANGED <<rs, n, w, i, ip, lo, hi, given>>
      /\ hit' = IF lo > 0 /\ ip <= rs[lo].last THEN rs[lo].provider ELSE None
  BY DEF Answer
<1>2. /\ w \in Nat /\ n \in Nat /\ w <= n /\ lo \in 0..w /\ hi \in 0..w
      /\ ip \in Nat /\ ip \in Address
      /\ rs \in [1..n -> Range] /\ given \in [1..n -> Range]
  BY <1>1, IndexAssumption DEF IInv, Arrays, TypeOK, Address
<1>3. \A x \in 1..w : rs[x] \in Range /\ rs[x].provider \in Providers
  BY <1>2 DEF Range
<1>4. Arrays' /\ Coverage'
  <2>1. hit' \in Providers \cup {None}
    BY <1>1, <1>2, <1>3
  <2> QED BY <1>1, <1>2, <2>1, IndexKept
<1>5. /\ \A x \in 1..lo : rs[x].first <= ip
      /\ \A x \in (lo + 1)..w : ip < rs[x].first
  BY <1>1 DEF IInv, Search
<1> DEFINE owner == {x \in 1..n : given[x].first <= ip /\ ip <= given[x].last}
           owners == {given[g].provider : g \in owner}
<1>6. Live = 1..w
  BY <1>1 DEF Live
<1>7. ASSUME lo > 0 /\ ip <= rs[lo].last
      PROVE  hit' \in owners
  <2>1. lo \in 1..w /\ In(ip, rs[lo])
    BY <1>2, <1>5, <1>7 DEF In
  <2>2. PICK g \in 1..n : In(ip, given[g]) /\ given[g].provider = rs[lo].provider
    BY <1>1, <1>2, <1>6, <2>1 DEF IInv, Coverage, NothingAdded
  <2>3. g \in owner /\ hit' = given[g].provider
    BY <1>1, <1>7, <2>2 DEF In
  <2> QED BY <2>3
<1>8. ASSUME ~ (lo > 0 /\ ip <= rs[lo].last)
      PROVE  owners = {} /\ hit' = None
  <2>1. ASSUME NEW g \in owner PROVE FALSE
    <3>1. PICK x \in 1..w : rs[x].first <= given[g].first /\ given[g].last <= rs[x].last
      BY <1>1, <1>6, <2>1 DEF IInv, Coverage, NothingLost
    <3>2. /\ given[g].first \in Nat /\ given[g].last \in Nat
          /\ rs[x].first \in Nat /\ rs[x].last \in Nat
      BY <1>2, <1>3, <2>1, Bounds
    <3>3. rs[x].first <= ip /\ ip <= rs[x].last
      BY <1>2, <2>1, <3>1, <3>2
    <3>4. x \in 1..lo
      BY <1>2, <1>5, <3>2, <3>3
    <3>5. CASE x = lo
      BY <1>2, <1>8, <3>3, <3>4, <3>5
    <3>6. CASE x # lo
      <4>1. lo \in 1..w /\ x < lo
        BY <1>2, <3>4, <3>6
      <4>2. rs[x].last < rs[lo].first
        BY <1>1, <4>1 DEF IInv, Arrays, Disjoint
      <4>3. rs[lo].first <= ip /\ rs[lo].first \in Nat
        BY <1>2, <1>3, <1>5, <4>1, Bounds
      <4> QED BY <1>2, <3>2, <3>3, <4>2, <4>3
    <3> QED BY <3>5, <3>6
  <2>2. owner = {}
    BY <2>1
  <2> QED BY <1>1, <1>8, <2>2
<1>9. IF owners = {} THEN hit' = None ELSE hit' \in owners
  BY <1>7, <1>8
<1>10. MatchesLinearScan'
  BY <1>1, <1>9 DEF MatchesLinearScan
<1> QED BY <1>1, <1>4, <1>10 DEF IInv, Search

-----------------------------------------------------------------------------

\* The three layers hold at every step of the merge and of every lookup.
THEOREM Invariance == Spec => []IInv
<1>1. IInv /\ [Next]_vars => IInv'
  <2> SUFFICES ASSUME IInv, [Next]_vars PROVE IInv'
    OBVIOUS
  <2>1. CASE UNCHANGED vars
    <3>1. /\ pc' = pc /\ rs' = rs /\ n' = n /\ w' = w /\ i' = i /\ ip' = ip
          /\ lo' = lo /\ hi' = hi /\ hit' = hit /\ given' = given
      BY <2>1 DEF vars
    <3>2. Arrays'
      BY <3>1 DEF IInv, Arrays, TypeOK, Pending, Disjoint
    <3>3. Coverage'
      <4>1. Live' = Live
        BY <3>1 DEF Live
      <4> QED BY <3>1, <4>1 DEF IInv, Coverage, OneOwner, NothingLost, NothingAdded
    <3>4. Search'
      BY <3>1 DEF IInv, Search, MatchesLinearScan
    <3> QED BY <3>2, <3>3, <3>4 DEF IInv
  <2> QED BY <2>1, SortIInv, ExtendIInv, AppendIInv, BuiltIInv, ProbeIInv, AnswerIInv, AskIInv
             DEF Next
<1> QED BY <1>1, InitIInv, PTL DEF Spec

\* The cursors stay in the array, and out behind the loop that reads it.
THEOREM TypeCorrect == Spec => []TypeOK
BY Invariance, PTL DEF IInv, Arrays

\* The ranges of the index are in order and do not overlap.
THEOREM DisjointCorrect == Spec => []Disjoint
BY Invariance, PTL DEF IInv, Arrays

\* Merging in place loses no entry.
THEOREM NothingLostCorrect == Spec => []NothingLost
BY Invariance, PTL DEF IInv, Coverage

\* Lookup answers what the linear scan it replaced would.
THEOREM LookupCorrect == Spec => []MatchesLinearScan
BY Invariance, PTL DEF IInv, Search

=============================================================================
