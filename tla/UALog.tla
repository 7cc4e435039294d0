------------------------------- MODULE UALog -------------------------------
(***************************************************************************)
(* The deduplication of the log lines about User-Agent strings: recordUA   *)
(* of main.go and the two uaSeenSet of ua.go behind it, each a map from    *)
(* strings to the time of their last hit under a mutex of its own.         *)
(*                                                                         *)
(* firstSeen looks at the clock once, under its lock, so no time passes in *)
(* the model while a set is held.  The eviction loop is modelled visit by  *)
(* visit, in any order of the map.                                         *)
(***************************************************************************)
EXTENDS UserAgent

CONSTANTS
  Texts,     \* User-Agent strings, "" among them
  Cap,       \* the cap of each set
  TTL,       \* the ttl of each set
  MaxClock,  \* bound of the model: the clock stops there
  None       \* no entry in the map

Buckets == {"bot", "unknown"}
Time == 0..MaxClock

\* The string that recordUA ignores, and that stands for no candidate in the loop.
Empty == ""

ASSUME UALogAssumption ==
  /\ IsFiniteSet(Texts)
  /\ \A a \in Agents : a.text \in Texts
  /\ Cap \in Nat \ {0}
  /\ TTL \in Nat \ {0}
  /\ MaxClock \in Nat
  /\ None \notin Int

VARIABLES
  clock,   \* time.Now()
  items,   \* the map of each set
  scan,    \* its eviction loop: its phase, what it has to visit, and oldest
  hits,    \* history: when each text was last recorded in each set
  last     \* history: the last request and what it was parsed to, see Requests

vars == <<clock, items, scan, hits, last>>

Idle == [phase |-> "free", todo |-> {}, oldest |-> Empty]

Init ==
  /\ clock = 0
  /\ items = [b \in Buckets |-> [x \in Texts |-> None]]
  /\ scan = [b \in Buckets |-> Idle]
  /\ hits = [b \in Buckets |-> [x \in Texts |-> None]]
  /\ last = None

Free(b) == scan[b].phase = "free"

Present(b) == {x \in Texts : items[b][x] # None}

\* The answer of firstSeen for a text that is remembered is false: no log line.
Remembered(b, x) == items[b][x] # None /\ clock - items[b][x] < TTL

\* firstSeen up to its eviction loop; a repeated hit refreshes the entry.
FirstSeen(b, x) ==
  /\ Free(b)
  /\ items' = [items EXCEPT ![b][x] = clock]
  /\ hits' = [hits EXCEPT ![b][x] = clock]
  /\ scan' = IF ~ Remembered(b, x) /\ Cardinality(Present(b) \cup {x}) > Cap
             THEN [scan EXCEPT ![b] = [phase |-> "loop", todo |-> Present(b) \cup {x}, oldest |-> Empty]]
             ELSE scan
  /\ UNCHANGED clock

\* Mutant: a request without a User-Agent is recorded too.
BucketOfEmpty(text, ua) ==
  IF ua.bot THEN {"bot"} ELSE IF ua.browser = "" THEN {"unknown"} ELSE {}

\* recordUA: the set a request is recorded in, if any.
Bucket(text, ua) ==
  IF text = Empty THEN {} ELSE IF ua.bot THEN {"bot"} ELSE IF ua.browser = "" THEN {"unknown"} ELSE {}

\* data and recordUA: a request is parsed and recorded.
Record(a) ==
  \E r \in Requests(a) :
    /\ last' = r
    /\ \/ Bucket(a.text, r.ua) = {} /\ UNCHANGED <<clock, items, scan, hits>>
       \/ \E b \in Bucket(a.text, r.ua) : FirstSeen(b, a.text)

\* Mutant: the candidate is not the least recently hit but the most recently hit.
VisitNewest(b) ==
  \E k \in scan[b].todo :
    LET expired == clock - items[b][k] >= TTL
        older == scan[b].oldest = Empty \/ items[b][k] > items[b][scan[b].oldest]
    IN  /\ items' = IF expired THEN [items EXCEPT ![b][k] = None] ELSE items
        /\ scan' = [scan EXCEPT ![b].todo = @ \ {k},
                                ![b].oldest = IF ~ expired /\ older THEN k ELSE @]
        /\ UNCHANGED <<clock, hits, last>>

\* One turn of the loop over the map, which deletes from it what has expired.
Visit(b) ==
  \E k \in scan[b].todo :
    LET expired == clock - items[b][k] >= TTL
        older == scan[b].oldest = Empty \/ items[b][k] < items[b][scan[b].oldest]
    IN  /\ items' = IF expired THEN [items EXCEPT ![b][k] = None] ELSE items
        /\ scan' = [scan EXCEPT ![b].todo = @ \ {k},
                                ![b].oldest = IF ~ expired /\ older THEN k ELSE @]
        /\ UNCHANGED <<clock, hits, last>>

\* The end of the loop: the oldest goes if the map is still over its cap.
EndScan(b) ==
  /\ ~ Free(b) /\ scan[b].todo = {}
  /\ items' = IF Cardinality(Present(b)) > Cap /\ scan[b].oldest # Empty
              THEN [items EXCEPT ![b][scan[b].oldest] = None] ELSE items
  /\ scan' = [scan EXCEPT ![b] = Idle]
  /\ UNCHANGED <<clock, hits, last>>

Tick ==
  /\ clock < MaxClock
  /\ \A b \in Buckets : Free(b)
  /\ clock' = clock + 1
  /\ UNCHANGED <<items, scan, hits, last>>

Next ==
  \/ Tick
  \/ \E a \in Agents : Record(a)
  \/ \E b \in Buckets : Visit(b) \/ EndScan(b)

Spec == Init /\ [][Next]_vars

-----------------------------------------------------------------------------
(* Properties *)

\* Whatever strings clients send, a set is within its cap whenever it is free:
\* one deletion is enough, and the loop has a candidate when one is needed.
Bounded == \A b \in Buckets : Free(b) => Cardinality(Present(b)) <= Cap

\* A text is forgotten, so that its next hit is logged again, less than a TTL
\* after its last hit only when as many others as the set holds have been hit
\* since: a scraper cannot flood the log on its own.
ForgottenByFlood ==
  \A b \in Buckets, x \in Texts :
    Free(b) /\ hits[b][x] # None /\ clock - hits[b][x] < TTL /\ items[b][x] = None =>
      Cardinality({y \in Texts \ {x} : hits[b][y] # None /\ hits[b][y] >= hits[b][x]}) >= Cap

\* "We want the most-specific brand, skipping GREASE entries and Chromium": an
\* agent is named by its hints, in whatever order it lists them, and by its text as
\* what the text shows, although texts name the browsers they imitate as well.  A
\* made-up brand with a semicolon in it is the exception: its first part passes
\* for a brand where none of the preferred ones is listed.
NamesItself ==
  last # None /\ last.legible =>
    last.ua.slug = IF last.hinted THEN last.agent.slug ELSE last.agent.textSlug

\* With hints and without, an agent has the system it runs on and the device it is,
\* although the texts of Android and ChromeOS name Linux and X11 as well (ua.go:111-115).
\* Two kinds of Android are the exceptions: a tablet whose text does not say "Tablet",
\* as those of Chrome do not, passes for a phone (ua.go:154-156), whatever its hints;
\* and one that names no version has no system unless its hints name it (ua.go:112).
SamePlatform ==
  last # None =>
    LET a == last.agent
        ua == last.ua
        words == UAWords[a.text]
    IN  /\ ua.os # a.os =>
             a.os = "android" /\ "Android #" \notin words /\ ~ last.hinted /\ ua.os = ""
        /\ ua.device # a.device =>
             a.os = "android" /\ a.device = "tablet" /\ "Tablet" \notin words /\ ua.device = "mobile"

=============================================================================
