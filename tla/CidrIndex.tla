----------------------------- MODULE CidrIndex -----------------------------
(***************************************************************************)
(* The sorted-range index of cidrindex.go over one address family.         *)
(* buildCIDRIndex turns prefixes into ranges, and sortMerge sorts them and *)
(* merges them IN PLACE: out is a slice of the array it is reading, so an  *)
(* append to out overwrites a range of the input.  Lookup is a binary      *)
(* search for the last range that starts at or below the address.          *)
(*                                                                         *)
(* An address is a number up to Top, which is 2^32-1 or 2^128-1.  The      *)
(* array is a function on 1..n; out is its first w places and r the one at *)
(* i.  The two families are built and searched apart, by the same code.    *)
(***************************************************************************)
EXTENDS Integers

CONSTANTS
  Top,         \* the highest address of the family
  Providers,   \* the sources that publish ranges
  Prefixes,    \* the prefixes they may publish, as the pairs of their bounds
  MaxEntries,  \* bound of the model: the length of a published list
  None         \* no provider

Address == 0..Top
Range == [first : Address, last : Address, provider : Providers]

ASSUME IndexAssumption ==
  /\ Top \in Nat
  /\ MaxEntries \in Nat
  /\ \A p \in Prefixes : /\ p.first \in Address /\ p.last \in Address
                         /\ p.first <= p.last
  /\ None \notin Providers

VARIABLES
  pc,      \* "sort", "merge", "ready", "search" or "found"
  rs,      \* the array of ranges
  n,       \* its length
  w,       \* the length of out
  i,       \* the place of the range that the loop reads next
  ip,      \* the address looked up
  lo, hi,  \* the bounds of sort.Search
  hit,     \* what Lookup returns: a provider, or None
  given    \* history: the entries as they came

vars == <<pc, rs, n, w, i, ip, lo, hi, hit, given>>

-----------------------------------------------------------------------------

\* Whether two entries that share an address come from the same source, as they
\* do in the program, where only one source publishes ranges.
Attributable(f, k) ==
  \A x, y \in 1..k : f[x].first <= f[y].last /\ f[y].first <= f[x].last =>
    f[x].provider = f[y].provider

\* The entries' prefixes, masked and written as ranges, in the order they came.
Init ==
  /\ pc = "sort"
  /\ n \in 0..MaxEntries
  /\ rs \in [1..n -> {r \in Range : [first |-> r.first, last |-> r.last] \in Prefixes}]
  /\ Attributable(rs, n)
  /\ given = rs
  /\ w = 0
  /\ i = 0
  /\ ip = 0
  /\ lo = 0
  /\ hi = 0
  /\ hit = None

\* The order of sort.Slice: by start, and the wider range first.
Before(r, s) == r.first < s.first \/ (r.first = s.first /\ r.last >= s.last)

\* Mutant: the loop is over all of rs, and not over what follows the first.
SortFromFirst ==
  /\ pc = "sort"
  /\ \E p \in [1..n -> 1..n] :
       /\ \A x, y \in 1..n : p[x] = p[y] => x = y
       /\ \A z \in 1..n : \E x \in 1..n : p[x] = z
       /\ \A x, y \in 1..n : x < y => Before(rs[p[x]], rs[p[y]])
       /\ rs' = [x \in 1..n |-> rs[p[x]]]
  /\ pc' = IF n < 2 THEN "ready" ELSE "merge"
  /\ w' = IF n < 2 THEN n ELSE 1
  /\ i' = 1
  /\ UNCHANGED <<n, ip, lo, hi, hit, given>>

\* sort.Slice is not stable: any arrangement that respects the order.
Sort ==
  /\ pc = "sort"
  /\ \E p \in [1..n -> 1..n] :
       /\ \A x, y \in 1..n : p[x] = p[y] => x = y
       /\ \A z \in 1..n : \E x \in 1..n : p[x] = z
       /\ \A x, y \in 1..n : x < y => Before(rs[p[x]], rs[p[y]])
       /\ rs' = [x \in 1..n |-> rs[p[x]]]
  /\ pc' = IF n < 2 THEN "ready" ELSE "merge"
  /\ w' = IF n < 2 THEN n ELSE 1
  /\ i' = 2
  /\ UNCHANGED <<n, ip, lo, hi, hit, given>>

\* Mutant: a range that starts at the last address of prev is not inside it.
TouchesInside(r, prev) == r.first < prev.last \/ (prev.last < Top /\ r.first = prev.last + 1)

\* r starts inside prev, or immediately after it; nothing comes after Top.
Touches(r, prev) == r.first <= prev.last \/ (prev.last < Top /\ r.first = prev.last + 1)

Merging == pc = "merge" /\ i <= n

\* Mutant: the contained range shortens the one it lies in.
ExtendAlways ==
  /\ Merging
  /\ rs[w].provider = rs[i].provider /\ Touches(rs[i], rs[w])
  /\ rs' = [rs EXCEPT ![w].last = rs[i].last]
  /\ i' = i + 1
  /\ UNCHANGED <<pc, n, w, ip, lo, hi, hit, given>>

\* prev.last = r.last, when that is further.
Extend ==
  /\ Merging
  /\ rs[w].provider = rs[i].provider /\ Touches(rs[i], rs[w])
  /\ rs' = IF rs[i].last > rs[w].last THEN [rs EXCEPT ![w].last = rs[i].last] ELSE rs
  /\ i' = i + 1
  /\ UNCHANGED <<pc, n, w, ip, lo, hi, hit, given>>

\* out = append(out, r), into the array that is being read.
Append ==
  /\ Merging
  /\ rs[w].provider # rs[i].provider \/ ~ Touches(rs[i], rs[w])
  /\ rs' = [rs EXCEPT ![w + 1] = rs[i]]
  /\ w' = w + 1
  /\ i' = i + 1
  /\ UNCHANGED <<pc, n, ip, lo, hi, hit, given>>

Built ==
  /\ pc = "merge"
  /\ i > n
  /\ pc' = "ready"
  /\ UNCHANGED <<rs, n, w, i, ip, lo, hi, hit, given>>

\* Lookup of an address: sort.Search over the w ranges of out.
Ask(a) ==
  /\ pc \in {"ready", "found"}
  /\ pc' = "search"
  /\ ip' = a
  /\ lo' = 0
  /\ hi' = w
  /\ hit' = None
  /\ UNCHANGED <<rs, n, w, i, given>>

\* One step of the bisection: does the range at the middle start above ip?
Probe ==
  LET h == (lo + hi) \div 2
  IN  /\ pc = "search"
      /\ lo < hi
      /\ IF rs[h + 1].first > ip THEN hi' = h /\ lo' = lo ELSE lo' = h + 1 /\ hi' = hi
      /\ UNCHANGED <<pc, rs, n, w, i, ip, hit, given>>

\* Mutant: the last address of a range is not in it.
AnswerBeforeLast ==
  /\ pc = "search"
  /\ lo = hi
  /\ pc' = "found"
  /\ hit' = IF lo > 0 /\ ip < rs[lo].last THEN rs[lo].provider ELSE None
  /\ UNCHANGED <<rs, n, w, i, ip, lo, hi, given>>

\* The range before the one found, if there is one and it reaches ip.
Answer ==
  /\ pc = "search"
  /\ lo = hi
  /\ pc' = "found"
  /\ hit' = IF lo > 0 /\ ip <= rs[lo].last THEN rs[lo].provider ELSE None
  /\ UNCHANGED <<rs, n, w, i, ip, lo, hi, given>>

Next == Sort \/ Extend \/ Append \/ Built \/ Probe \/ Answer \/ \E a \in Address : Ask(a)

Spec == Init /\ [][Next]_vars

-----------------------------------------------------------------------------
(* Properties *)

\* The types, and the cursors: out never catches up with the loop that reads.
TypeOK ==
  /\ pc \in {"sort", "merge", "ready", "search", "found"}
  /\ n \in 0..MaxEntries
  /\ rs \in [1..n -> Range]
  /\ given \in [1..n -> Range]
  /\ w \in 0..n
  /\ i \in Nat
  /\ pc = "merge" => w < i /\ i <= n + 1
  /\ ip \in Address
  /\ hi \in 0..w
  /\ lo \in 0..hi
  /\ hit \in Providers \cup {None}

\* "Ranges are disjoint and sorted", which the search relies on.
Disjoint ==
  pc # "sort" => \A x, y \in 1..w : x < y => rs[x].last < rs[y].first

\* The ranges that count: those of out, and those the loop has still to read.
Live == (1..w) \cup (IF pc = "merge" THEN i..n ELSE {})

\* Every entry is inside a range that counts, at every step of the merge: what
\* is written to out never overwrites a range that has still to be read.
NothingLost ==
  pc # "sort" => \A g \in 1..n : \E x \in Live :
    /\ rs[x].first <= given[g].first /\ given[g].last <= rs[x].last
    /\ rs[x].provider = given[g].provider

\* "it must not change a single answer": Lookup returns the provider of an entry
\* that contains the address, and none exactly when a linear scan finds none.
MatchesLinearScan ==
  pc = "found" =>
    LET owners == {given[g].provider : g \in {x \in 1..n : given[x].first <= ip /\ ip <= given[x].last}}
    IN  IF owners = {} THEN hit = None ELSE hit \in owners

=============================================================================
