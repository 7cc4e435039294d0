------------------------------ MODULE Request ------------------------------
(***************************************************************************)
(* The way of a request through gather: inspect and targetIP, the ASN      *)
(* lookup, Check, the reverse lookup, Augment with its WHOIS lookup, and   *)
(* the answer.  Meanwhile the refresh loop stores snapshots and sets       *)
(* loadedAt, each with an atomic store of its own.                         *)
(*                                                                         *)
(* A request loads the snapshot once, in Check, after it has waited for    *)
(* the ASN lookup and before it waits for the others.  The lookups return  *)
(* anything: AsnResolver and WhoisCache are about how they do.  So does    *)
(* Allow: RateLimiter is.  A published snapshot is one that VpnSnapshot    *)
(* and VpnRefresh allow: its tables fit together, and it is ready when the *)
(* one before it was.                                                      *)
(***************************************************************************)
EXTENDS Verdict, FiniteSets

CONSTANTS
  Callers,     \* the goroutines that serve requests
  Addresses,   \* addresses, whatever form they are written in
  V4,          \* those of IPv4
  Routable,    \* those that isRoutable accepts
  NoAddr,      \* what a text that does not parse names
  TrustCF,     \* cfg.trustCFHeaders
  Snapshots,   \* the snapshots that the loop may publish
  MaxRounds    \* bound of the model: refreshes

\* A netip.Addr: an address in one of the forms that ParseAddr tells apart.  An IPv4
\* address may be mapped into IPv6, an IPv6 address may have a zone.
Forms(a) == {"plain", IF a \in V4 THEN "mapped" ELSE "zoned"}
Addr == {v \in [addr : Addresses, form : {"plain", "mapped", "zoned"}] : v.form \in Forms(v.addr)}
Zero == [addr |-> NoAddr, form |-> "plain"]

\* canonicalIP: unmapped, and without a zone.
CanonicalIP(v) == IF v.form \in {"mapped", "zoned"} THEN [v EXCEPT !.form = "plain"] ELSE v

\* isRoutable, which canonicalises its argument itself.
IsRoutable(v) == CanonicalIP(v).addr \in Routable

\* What the tables of hints make of a reverse name, and of a registry's answer:
\* the label of the first hint in it, or none.
Labels == Brands \cup {Nil}

\* A text is an address in some form, nothing, or no address.
Absent == [addr |-> NoAddr, form |-> "absent"]
Junk == [addr |-> NoAddr, form |-> "junk"]
Texts == Addr \cup {Absent, Junk}

\* ParseAddr keeps the form; of a text that is no address there is the zero value.
Parse(t) == IF t \in Addr THEN t ELSE Zero

EmptySnapshot == [ready |-> FALSE, facts |-> [a \in Addresses |-> NoFacts]]

Snapshot == [ready : BOOLEAN, facts : [Addresses -> Facts]]

ASSUME RequestAssumption ==
  /\ Routable \subseteq Addresses /\ V4 \subseteq Addresses
  /\ NoAddr \notin Addresses
  /\ TrustCF \in BOOLEAN
  /\ Snapshots \subseteq Snapshot
  /\ \A s \in Snapshots : /\ \A a \in Addresses : Possible(s.facts[a])
                          /\ ~ s.ready => s = EmptySnapshot
  /\ MaxRounds \in Nat

Asn == [tier : Tiers, country : BOOLEAN]
NoAsn == [tier |-> "none", country |-> FALSE]

VARIABLES
  snap,      \* the published snapshot
  loadedAt,  \* the refresh after which loadedAt was set last, 0 before the first
  rounds,    \* the refreshes so far
  marking,   \* whether the loop is between refresh and markLoaded
  pc,        \* "idle", "target", "asn", "check", "ptr", "augment", "whois", "answer" or "done"
  ip,        \* the requester's address, a netip.Addr
  cf,        \* whether the edge named the requester's country
  override,  \* the address the request asks about, as a text
  target,    \* the address that is looked up, a netip.Addr
  lookup,    \* isLookup
  status,    \* 200, 400 or 429
  asn,       \* the AS of the target
  verdict,   \* the verdict so far
  rdns,      \* the label of the reverse name
  country,   \* CountrySource
  seen,      \* history: the snapshots published while the request was under way
  told,      \* history: whether an answer or /ready has said that lists are loaded
  late       \* history: whether the request came after that

loopVars == <<snap, loadedAt, rounds, marking>>
vars == <<loopVars, pc, ip, cf, override, target, lookup, status, asn, verdict, rdns,
          country, seen, told, late>>

-----------------------------------------------------------------------------

Init ==
  /\ snap = EmptySnapshot
  /\ loadedAt = 0
  /\ rounds = 0
  /\ marking = FALSE
  /\ pc = [c \in Callers |-> "idle"]
  /\ ip = [c \in Callers |-> Zero]
  /\ cf = [c \in Callers |-> FALSE]
  /\ override = [c \in Callers |-> Absent]
  /\ target = [c \in Callers |-> Zero]
  /\ lookup = [c \in Callers |-> FALSE]
  /\ status = [c \in Callers |-> 200]
  /\ asn = [c \in Callers |-> NoAsn]
  /\ verdict = [c \in Callers |-> Blank(FALSE)]
  /\ rdns = [c \in Callers |-> Nil]
  /\ country = [c \in Callers |-> Nil]
  /\ seen = [c \in Callers |-> {}]
  /\ told = FALSE
  /\ late = [c \in Callers |-> FALSE]

-----------------------------------------------------------------------------
(* inspect and targetIP *)

\* The first header that is there and trusted, or the peer of the connection.
RequesterText(connecting, real, peer) ==
  IF TrustCF /\ connecting # Absent THEN connecting
  ELSE IF real # Absent THEN real
  ELSE peer

\* Mutant: the requester's address stays in the form in which it came.
RequesterAsSent(connecting, real, peer) == Parse(RequesterText(connecting, real, peer))

Requester(connecting, real, peer) == CanonicalIP(Parse(RequesterText(connecting, real, peer)))

Arrive(c) ==
  /\ pc[c] = "idle"
  /\ \E connecting \in Texts, real \in Texts, peer \in Texts \ {Absent} :
       ip' = [ip EXCEPT ![c] = Requester(connecting, real, peer)]
  /\ \E b \in {FALSE, TrustCF} : cf' = [cf EXCEPT ![c] = b]
  /\ \E o \in Texts : override' = [override EXCEPT ![c] = o]
  /\ pc' = [pc EXCEPT ![c] = "target"]
  /\ seen' = [seen EXCEPT ![c] = {snap}]
  /\ late' = [late EXCEPT ![c] = told]
  /\ UNCHANGED <<loopVars, target, lookup, status, asn, verdict, rdns, country, told>>

TargetVars == <<loopVars, ip, cf, override, asn, verdict, rdns, country, seen, told, late>>

\* No override: the request is about the requester.
OwnAddress(c) ==
  /\ pc[c] = "target"
  /\ override[c] = Absent
  /\ target' = [target EXCEPT ![c] = ip[c]]
  /\ pc' = [pc EXCEPT ![c] = "asn"]
  /\ UNCHANGED <<TargetVars, lookup, status>>

\* The address that the request names.
Wanted(c) == CanonicalIP(Parse(override[c]))

\* A text that is no address, or an address that is not routable.
Reject(c) ==
  /\ pc[c] = "target"
  /\ override[c] # Absent
  /\ override[c] = Junk \/ ~ IsRoutable(Wanted(c))
  /\ status' = [status EXCEPT ![c] = 400]
  /\ pc' = [pc EXCEPT ![c] = "done"]
  /\ UNCHANGED <<TargetVars, target, lookup>>

\* The two values are compared, their forms too.
IsLookup(c) == Wanted(c) # ip[c]

\* The override is taken, for an address of somebody else if the limiter allows.
Accept(c) ==
  /\ pc[c] = "target"
  /\ IsRoutable(Wanted(c))
  /\ target' = [target EXCEPT ![c] = Wanted(c)]
  /\ lookup' = [lookup EXCEPT ![c] = IsLookup(c)]
  /\ pc' = [pc EXCEPT ![c] = "asn"]
  /\ UNCHANGED <<TargetVars, status>>

Throttle(c) ==
  /\ pc[c] = "target"
  /\ IsRoutable(Wanted(c))
  /\ IsLookup(c)
  /\ status' = [status EXCEPT ![c] = 429]
  /\ pc' = [pc EXCEPT ![c] = "done"]
  /\ UNCHANGED <<TargetVars, target, lookup>>

-----------------------------------------------------------------------------
(* gather *)

\* asn.Lookup: nothing is asked about an address that is not routable.
LookupASN(c) ==
  /\ pc[c] = "asn"
  /\ IF IsRoutable(target[c])
       THEN \E i \in Asn : /\ i.tier = "none" => i = NoAsn
                           /\ asn' = [asn EXCEPT ![c] = i]
       ELSE UNCHANGED asn
  /\ pc' = [pc EXCEPT ![c] = "check"]
  /\ UNCHANGED <<loopVars, ip, cf, override, target, lookup, status, verdict, rdns, country,
                 seen, told, late>>

\* Mutant: the flag is that of the snapshot the request began with.
CheckSnapshotOld(c) ==
  /\ pc[c] = "check"
  /\ \E s \in seen[c] :
       verdict' = [verdict EXCEPT ![c] =
                     IF target[c] = Zero THEN Blank(s.ready)
                     ELSE Check(s.ready, snap.facts[CanonicalIP(target[c]).addr], asn[c].tier)]
  /\ pc' = [pc EXCEPT ![c] = "ptr"]
  /\ UNCHANGED <<loopVars, ip, cf, override, target, lookup, status, asn, rdns, country, seen,
                 told, late>>

\* vpn.Check: one load of the snapshot, and everything else from it.
CheckSnapshot(c) ==
  /\ pc[c] = "check"
  /\ verdict' = [verdict EXCEPT ![c] =
                   IF target[c] = Zero THEN Blank(snap.ready)
                   ELSE Check(snap.ready, snap.facts[CanonicalIP(target[c]).addr], asn[c].tier)]
  /\ pc' = [pc EXCEPT ![c] = "ptr"]
  /\ UNCHANGED <<loopVars, ip, cf, override, target, lookup, status, asn, rdns, country, seen,
                 told, late>>

\* lookupReverse: asked about every valid address.
LookupReverse(c) ==
  /\ pc[c] = "ptr"
  /\ IF target[c] # Zero
       THEN \E b \in Labels : rdns' = [rdns EXCEPT ![c] = b]
       ELSE UNCHANGED rdns
  /\ pc' = [pc EXCEPT ![c] = "augment"]
  /\ UNCHANGED <<loopVars, ip, cf, override, target, lookup, status, asn, verdict, country, seen,
                 told, late>>

Augment(c) ==
  /\ pc[c] = "augment"
  /\ LET v == WithName(verdict[c], rdns[c])
     IN  /\ verdict' = [verdict EXCEPT ![c] = v]
         /\ pc' = [pc EXCEPT ![c] = IF AsksWhois(v, asn[c].tier) THEN "whois" ELSE "answer"]
  /\ UNCHANGED <<loopVars, ip, cf, override, target, lookup, status, asn, rdns, country, seen,
                 told, late>>

\* whois.Lookup; the target of a request that gets here has an AS.
LookupWhois(c) ==
  /\ pc[c] = "whois"
  /\ \E b \in Labels :
       verdict' = [verdict EXCEPT ![c] = WithRegistry(verdict[c], b)]
  /\ pc' = [pc EXCEPT ![c] = "answer"]
  /\ UNCHANGED <<loopVars, ip, cf, override, target, lookup, status, asn, rdns, country, seen,
                 told, late>>

\* Mutant: the edge's country is used for whatever address was asked about.
CountrySourceOfEdge(c) ==
  IF verdict[c].relay = "located" THEN "relay"
  ELSE IF cf[c] THEN "cf"
  ELSE IF asn[c].country THEN "rir"
  ELSE Nil

\* The operator's record first; the edge's country for the requester only.
CountrySource(c) ==
  IF verdict[c].relay = "located" THEN "relay"
  ELSE IF cf[c] /\ ~ lookup[c] THEN "cf"
  ELSE IF asn[c].country THEN "rir"
  ELSE Nil

\* The answer tells the verdict and vpnLoadedAt, which is read only now.
Answer(c) ==
  /\ pc[c] = "answer"
  /\ country' = [country EXCEPT ![c] = CountrySource(c)]
  /\ told' = (told \/ verdict[c].ready \/ loadedAt # 0)
  /\ pc' = [pc EXCEPT ![c] = "done"]
  /\ UNCHANGED <<loopVars, ip, cf, override, target, lookup, status, asn, verdict, rdns, seen,
                 late>>

\* The goroutine has written its answer and goes.
Leave(c) ==
  /\ pc[c] = "done"
  /\ pc' = [pc EXCEPT ![c] = "idle"]
  /\ ip' = [ip EXCEPT ![c] = Zero]
  /\ cf' = [cf EXCEPT ![c] = FALSE]
  /\ override' = [override EXCEPT ![c] = Absent]
  /\ target' = [target EXCEPT ![c] = Zero]
  /\ lookup' = [lookup EXCEPT ![c] = FALSE]
  /\ status' = [status EXCEPT ![c] = 200]
  /\ asn' = [asn EXCEPT ![c] = NoAsn]
  /\ verdict' = [verdict EXCEPT ![c] = Blank(FALSE)]
  /\ rdns' = [rdns EXCEPT ![c] = Nil]
  /\ country' = [country EXCEPT ![c] = Nil]
  /\ seen' = [seen EXCEPT ![c] = {}]
  /\ late' = [late EXCEPT ![c] = FALSE]
  /\ UNCHANGED <<loopVars, told>>

-----------------------------------------------------------------------------
(* The refresh loop, and the probe of readiness *)

requestVars == <<pc, ip, cf, override, target, lookup, status, asn, verdict, rdns, country,
                 told, late>>

\* The end of refresh: one store of the snapshot.
Publish(s) ==
  /\ ~ marking
  /\ rounds < MaxRounds
  /\ snap.ready => s.ready
  /\ snap' = s
  /\ rounds' = rounds + 1
  /\ marking' = TRUE
  /\ seen' = [c \in Callers |-> IF pc[c] = "idle" THEN {} ELSE seen[c] \cup {s}]
  /\ UNCHANGED <<loadedAt, requestVars>>

\* Mutant: loadedAt is set whether or not there is data.
MarkLoadedAlways ==
  /\ marking
  /\ marking' = FALSE
  /\ loadedAt' = rounds
  /\ UNCHANGED <<snap, rounds, seen, requestVars>>

MarkLoaded ==
  /\ marking
  /\ marking' = FALSE
  /\ loadedAt' = IF snap.ready THEN rounds ELSE loadedAt
  /\ UNCHANGED <<snap, rounds, seen, requestVars>>

\* GET /ready answers 200.
Ready ==
  /\ snap.ready
  /\ told' = TRUE
  /\ UNCHANGED <<loopVars, pc, ip, cf, override, target, lookup, status, asn, verdict, rdns,
                 country, seen, late>>

Serve(c) ==
  \/ Arrive(c) \/ OwnAddress(c) \/ Reject(c) \/ Accept(c) \/ Throttle(c)
  \/ LookupASN(c) \/ CheckSnapshot(c) \/ LookupReverse(c) \/ Augment(c) \/ LookupWhois(c)
  \/ Answer(c) \/ Leave(c)

Next ==
  \/ \E c \in Callers : Serve(c)
  \/ \E s \in Snapshots : Publish(s)
  \/ MarkLoaded \/ Ready

Spec == Init /\ [][Next]_vars

-----------------------------------------------------------------------------
(* Properties *)

Answered(c) == pc[c] = "done" /\ status[c] = 200

FactsIn(s, v) == IF v.addr = NoAddr THEN NoFacts ELSE s.facts[v.addr]

Named(net) == net \notin {Nil, "multi"}

\* Everything an answer takes from the lists comes from one snapshot, and from
\* one that was published while the request was under way: the flags, the relay,
\* the sources and ready never mix the lists before a refresh with those after.
OneSnapshot ==
  \A c \in Callers : Answered(c) => \E s \in seen[c] :
    LET v == verdict[c]
        f == FactsIn(s, target[c])
        layers == {v.source[x] : x \in DOMAIN v.source}
    IN  /\ v.ready = s.ready
        /\ v.relay = f.relay
        /\ v.tor = (f.exact = "tor")
        /\ v.proxy = (f.exact = Nil /\ f.range)
        /\ "ip-list" \in layers <=> f.exact # Nil
        /\ "ip-prefix" \in layers <=> f.exact = Nil /\ Named(f.net)
        /\ "cidr" \in layers <=> v.proxy

\* What the evidence on an address comes to, the strongest first.
StampOf(s, f, tier, label) ==
  IF f.exact = "tor" THEN "Tor"
  ELSE IF f.exact = Nil /\ f.range THEN "Private Relay"
  ELSE IF f.exact # Nil \/ Named(f.net) \/ tier = "rental" \/ label # Nil THEN "VPN"
  ELSE IF tier = "hosting" THEN "Hosting"
  ELSE IF s.ready THEN "Clean"
  ELSE "Unknown"

\* The word a visitor reads follows from the evidence, although five layers
\* write on the verdict: no cloud address is called a VPN for that alone, and
\* none is called clean before there are lists.
StampFollowsEvidence ==
  \A c \in Callers : Answered(c) => \E s \in seen[c] :
    Stamp(verdict[c]) = StampOf(s, FactsIn(s, target[c]), asn[c].tier, rdns[c])

\* The provider is the one that the strongest evidence names: the feed of the
\* address, the egress range, the neighbours, the reverse name, and the registry
\* only of a rental network and when there is nothing else; an exit has none.
\* So an answer with a relay names the relay's own provider.
ProviderOfBestEvidence ==
  \A c \in Callers : Answered(c) => \E s \in seen[c] :
    LET f == FactsIn(s, target[c])
        p == verdict[c].provider
    IN  IF f.exact = "tor" THEN p = Nil
        ELSE IF f.exact \in Feeds THEN p = f.exact
        ELSE IF f.range THEN p = RangeFeed
        ELSE IF Named(f.net) THEN p = f.net
        ELSE IF rdns[c] # Nil THEN p = rdns[c]
        ELSE p # Nil => p \in Brands /\ asn[c].tier = "rental"

\* "Self-lookups are unmetered" (main.go:102): a requester that names its own
\* address is never throttled nor marked as a lookup, whatever form it writes it in
\* and whatever form it is seen from, and what is looked up is then the very value
\* that is looked up for one that names none, the key of the caches; and any other
\* address is marked as a lookup.  main.go:256 and main.go:297 both have to
\* canonicalise, for main.go:304 compares the values.
OwnIsUnmetered ==
  \A c \in Callers :
    /\ status[c] = 429 => override[c].addr # ip[c].addr
    /\ pc[c] \notin {"idle", "target"} /\ status[c] = 200 =>
         IF target[c].addr = ip[c].addr THEN ~ lookup[c] /\ target[c] = ip[c] ELSE lookup[c]

\* "CF-IPCountry describes the requester, not the target": the edge's country is
\* never told of another address.
CountryIsTheTargets ==
  \A c \in Callers : Answered(c) /\ country[c] = "cf" => target[c] = ip[c] /\ cf[c]

\* Once an answer has shown ready or db_loaded, or /ready has said so, no request
\* that comes later is answered without lists.
ToldMeansReady == \A c \in Callers : Answered(c) /\ late[c] => verdict[c].ready

=============================================================================
