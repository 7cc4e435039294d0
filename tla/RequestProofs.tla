--------------------------- MODULE RequestProofs ---------------------------
(***************************************************************************)
(* Proofs about Verdict and Request, for any goroutines, addresses, feeds, *)
(* labels and snapshots.  The layers of a verdict are treated one by one   *)
(* (what each does to every field, given any verdict); the invariant of a  *)
(* request then says which layers have been applied, and to the facts of   *)
(* which snapshot.                                                         *)
(***************************************************************************)
EXTENDS Request, TLAPS

LayerNames == {"ip-list", "ip-prefix", "cidr", "asn", "asn-hosting", "rdns", "whois"}
Providers == Feeds \cup Brands \cup {Nil, RangeFeed}

VerdictType ==
  [vpn : BOOLEAN, hosting : BOOLEAN, tor : BOOLEAN, proxy : BOOLEAN, provider : Providers,
   relay : {Nil, "bare", "located"}, source : Seq(LayerNames), ready : BOOLEAN]

Layers(v) == {v.source[x] : x \in DOMAIN v.source}

-----------------------------------------------------------------------------
(* The layers *)

LEMMA NilApart == Nil \notin {"tor", "multi", "bare", "located", "cf", "relay", "rir"}
  BY Zenon DEF Nil

LEMMA AppendSourceAdds ==
  ASSUME NEW s \in Seq(LayerNames), NEW more \in LayerNames
  PROVE  /\ AppendSource(s, more) \in Seq(LayerNames)
         /\ {AppendSource(s, more)[x] : x \in DOMAIN AppendSource(s, more)}
              = {s[x] : x \in DOMAIN s} \cup {more}
  <1>1. CASE Contains(s, more)
    <2>1. more \in {s[x] : x \in DOMAIN s}
      BY <1>1 DEF Contains
    <2> QED
      BY <1>1, <2>1 DEF AppendSource
  <1>2. CASE ~ Contains(s, more)
    <2> DEFINE t == Append(s, more)
    <2>1. /\ t \in Seq(LayerNames) /\ DOMAIN t = DOMAIN s \cup {Len(s) + 1}
          /\ \A x \in DOMAIN s : t[x] = s[x]
          /\ t[Len(s) + 1] = more
      OBVIOUS
    <2>2. AppendSource(s, more) = t
      BY <1>2 DEF AppendSource
    <2> HIDE DEF t
    <2> QED
      BY <2>1, <2>2
  <1> QED
    BY <1>1, <1>2

LEMMA BlankType ==
  ASSUME NEW r \in BOOLEAN
  PROVE  Blank(r) \in VerdictType /\ Layers(Blank(r)) = {}
  BY DEF Blank, VerdictType, Layers, Providers

\* The layer of the lists.
LEMMA ListedIs ==
  ASSUME NEW v \in VerdictType, NEW f \in Facts, Possible(f),
         ~ v.vpn, ~ v.tor, v.provider = Nil, v.relay = Nil, Layers(v) = {}
  PROVE  LET w == Listed(v, f)
         IN  /\ w \in VerdictType
             /\ w.vpn <=> f.exact # Nil \/ Named(f.net)
             /\ w.tor <=> f.exact = "tor"
             /\ w.proxy = v.proxy /\ w.hosting = v.hosting /\ w.ready = v.ready
             /\ w.relay = f.relay
             /\ w.provider = IF f.exact = "tor" THEN Nil
                             ELSE IF f.exact # Nil THEN f.exact
                             ELSE IF Named(f.net) THEN f.net ELSE Nil
             /\ Layers(w) = IF f.exact # Nil THEN {"ip-list"}
                            ELSE IF Named(f.net) THEN {"ip-prefix"} ELSE {}
  <1> DEFINE w == Listed(v, f)
  <1> USE NilApart DEF Facts, Possible, Named
  <1>1. CASE f.exact # Nil
    <2>1. w = ListHit(v, f)
      BY <1>1 DEF Listed
    <2>2. w \in VerdictType
      <3> DEFINE s == <<"ip-list">>
                 p == IF f.exact = "tor" THEN Nil ELSE f.exact
                 r == IF f.exact = "tor" THEN Nil ELSE f.relay
      <3>1. s \in Seq(LayerNames) /\ p \in Providers /\ r \in {Nil, "bare", "located"}
        BY <1>1 DEF LayerNames, Providers
      <3>2. w = [v EXCEPT !.vpn = TRUE, !.source = s, !.tor = (f.exact = "tor"),
                          !.provider = p, !.relay = r]
        BY <2>1 DEF ListHit
      <3> HIDE DEF s, p, r
      <3> QED
        BY <3>1, <3>2 DEF VerdictType
    <2>3. /\ w.vpn = TRUE /\ w.tor = (f.exact = "tor")
          /\ w.proxy = v.proxy /\ w.hosting = v.hosting /\ w.ready = v.ready
          /\ w.relay = f.relay
          /\ w.provider = IF f.exact = "tor" THEN Nil ELSE f.exact
          /\ w.source = <<"ip-list">>
      BY <1>1, <2>1, VerdictAssumption DEF ListHit, VerdictType
    <2>4. Layers(w) = {"ip-list"}
      BY <2>3 DEF Layers
    <2> QED
      BY <1>1, <2>2, <2>3, <2>4
  <1>2. CASE f.exact = Nil /\ Named(f.net)
    <2>1. w = NetHit(v, f)
      BY <1>2 DEF Listed
    <2>2. w \in VerdictType
      <3> DEFINE s == <<"ip-prefix">>
      <3>1. s \in Seq(LayerNames) /\ f.net \in Providers
        BY <1>2 DEF LayerNames, Providers
      <3>2. w = [v EXCEPT !.vpn = TRUE, !.source = s, !.provider = f.net]
        BY <2>1 DEF NetHit
      <3> HIDE DEF s
      <3> QED
        BY <3>1, <3>2 DEF VerdictType
    <2>3. /\ w.vpn = TRUE /\ w.tor = v.tor
          /\ w.proxy = v.proxy /\ w.hosting = v.hosting /\ w.ready = v.ready
          /\ w.relay = v.relay
          /\ w.provider = f.net
          /\ w.source = <<"ip-prefix">>
      BY <2>1 DEF NetHit, VerdictType
    <2>4. Layers(w) = {"ip-prefix"}
      BY <2>3 DEF Layers
    <2>5. f.relay = Nil
      BY <1>2, VerdictAssumption
    <2> QED
      BY <1>2, <2>2, <2>3, <2>4, <2>5
  <1>3. CASE f.exact = Nil /\ ~ Named(f.net)
    <2>1. w = v
      BY <1>3 DEF Listed
    <2>2. f.relay = Nil
      BY <1>3, VerdictAssumption
    <2> QED
      BY <1>3, <2>1, <2>2
  <1> QED
    BY <1>1, <1>2, <1>3

\* The layer of the ranges.
LEMMA RangedIs ==
  ASSUME NEW v \in VerdictType, NEW f \in Facts
  PROVE  LET w == Ranged(v, f)
         IN  /\ w \in VerdictType
             /\ w.tor = v.tor /\ w.hosting = v.hosting /\ w.ready = v.ready /\ w.relay = v.relay
             /\ f.exact # Nil \/ ~ f.range => w = v
             /\ f.exact = Nil /\ f.range =>
                  /\ w.vpn /\ w.proxy /\ w.provider = RangeFeed
                  /\ Layers(w) = Layers(v) \cup {"cidr"}
  <1> DEFINE w == Ranged(v, f)
  <1>1. CASE f.exact # Nil \/ ~ f.range
    BY <1>1 DEF Ranged
  <1>2. CASE f.exact = Nil /\ f.range
    <2> DEFINE s == AppendSource(v.source, "cidr")
    <2>1. w = [v EXCEPT !.vpn = TRUE, !.proxy = TRUE, !.provider = RangeFeed, !.source = s]
      BY <1>2 DEF Ranged
    <2>2. s \in Seq(LayerNames) /\ {s[x] : x \in DOMAIN s} = Layers(v) \cup {"cidr"}
      BY AppendSourceAdds DEF VerdictType, LayerNames, Layers
    <2> HIDE DEF s
    <2>3. /\ w \in VerdictType
          /\ w.tor = v.tor /\ w.hosting = v.hosting /\ w.ready = v.ready /\ w.relay = v.relay
          /\ w.vpn = TRUE /\ w.proxy = TRUE /\ w.provider = RangeFeed /\ w.source = s
      BY <2>1, <2>2 DEF VerdictType, Providers
    <2> QED
      BY <1>2, <2>2, <2>3 DEF Layers
  <1> QED
    BY <1>1, <1>2

\* The layer of the AS.
LEMMA HostedIs ==
  ASSUME NEW v \in VerdictType, NEW tier \in Tiers
  PROVE  LET w == Hosted(v, tier)
         IN  /\ w \in VerdictType
             /\ w.tor = v.tor /\ w.proxy = v.proxy /\ w.provider = v.provider
             /\ w.ready = v.ready /\ w.relay = v.relay
             /\ w.vpn <=> v.vpn \/ tier = "rental"
             /\ w.hosting <=> v.hosting \/ tier = "hosting"
             /\ Layers(w) \subseteq Layers(v) \cup {"asn", "asn-hosting"}
             /\ Layers(v) \subseteq Layers(w)
             /\ tier \notin {"rental", "hosting"} => w = v
  <1> DEFINE w == Hosted(v, tier)
  <1>1. CASE tier = "rental"
    <2> DEFINE s == AppendSource(v.source, "asn")
    <2>1. w = [v EXCEPT !.vpn = TRUE, !.source = s]
      BY <1>1 DEF Hosted
    <2>2. s \in Seq(LayerNames) /\ {s[x] : x \in DOMAIN s} = Layers(v) \cup {"asn"}
      BY AppendSourceAdds DEF VerdictType, LayerNames, Layers
    <2> HIDE DEF s
    <2>3. /\ w \in VerdictType
          /\ w.tor = v.tor /\ w.proxy = v.proxy /\ w.provider = v.provider
          /\ w.ready = v.ready /\ w.relay = v.relay /\ w.hosting = v.hosting
          /\ w.vpn = TRUE /\ w.source = s
      BY <2>1, <2>2 DEF VerdictType
    <2>4. Layers(w) = Layers(v) \cup {"asn"}
      BY <2>2, <2>3 DEF Layers
    <2>5. (w.vpn <=> v.vpn \/ tier = "rental") /\ (w.hosting <=> v.hosting \/ tier = "hosting")
      <3> HIDE DEF w
      <3> QED
        BY <1>1, <2>3 DEF VerdictType
    <2>6. Layers(v) \subseteq Layers(w) /\ Layers(w) \subseteq Layers(v) \cup {"asn", "asn-hosting"}
      BY <2>4
    <2> QED
      BY <1>1, <2>3, <2>5, <2>6
  <1>2. CASE tier = "hosting"
    <2> DEFINE s == AppendSource(v.source, "asn-hosting")
    <2>1. w = [v EXCEPT !.hosting = TRUE, !.source = s]
      BY <1>2 DEF Hosted
    <2>2. s \in Seq(LayerNames) /\ {s[x] : x \in DOMAIN s} = Layers(v) \cup {"asn-hosting"}
      BY AppendSourceAdds DEF VerdictType, LayerNames, Layers
    <2> HIDE DEF s
    <2>3. /\ w \in VerdictType
          /\ w.tor = v.tor /\ w.proxy = v.proxy /\ w.provider = v.provider
          /\ w.ready = v.ready /\ w.relay = v.relay /\ w.vpn = v.vpn
          /\ w.hosting = TRUE /\ w.source = s
      BY <2>1, <2>2 DEF VerdictType
    <2>4. Layers(w) = Layers(v) \cup {"asn-hosting"}
      BY <2>2, <2>3 DEF Layers
    <2>5. (w.vpn <=> v.vpn \/ tier = "rental") /\ (w.hosting <=> v.hosting \/ tier = "hosting")
      <3> HIDE DEF w
      <3> QED
        BY <1>2, <2>3 DEF VerdictType
    <2>6. Layers(v) \subseteq Layers(w) /\ Layers(w) \subseteq Layers(v) \cup {"asn", "asn-hosting"}
      BY <2>4
    <2> QED
      BY <1>2, <2>3, <2>5, <2>6
  <1>3. CASE tier \notin {"rental", "hosting"}
    BY <1>3 DEF Hosted
  <1> QED
    BY <1>1, <1>2, <1>3

\* The layer of the reverse name.
LEMMA WithNameIs ==
  ASSUME NEW v \in VerdictType, NEW label \in Labels
  PROVE  LET w == WithName(v, label)
         IN  /\ w \in VerdictType
             /\ w.tor = v.tor /\ w.proxy = v.proxy /\ w.hosting = v.hosting
             /\ w.ready = v.ready /\ w.relay = v.relay
             /\ v.tor \/ v.proxy \/ label = Nil => w = v
             /\ ~ v.tor /\ ~ v.proxy /\ label # Nil =>
                  /\ w.vpn
                  /\ w.provider = IF v.provider = Nil THEN label ELSE v.provider
             /\ Layers(w) \subseteq Layers(v) \cup {"rdns"}
             /\ Layers(v) \subseteq Layers(w)
  <1> DEFINE w == WithName(v, label)
  <1>1. CASE v.tor \/ v.proxy \/ label = Nil
    BY <1>1 DEF WithName
  <1>2. CASE ~ v.tor /\ ~ v.proxy /\ label # Nil
    <2> DEFINE s == AppendSource(v.source, "rdns")
               p == IF v.provider = Nil THEN label ELSE v.provider
    <2>1. w = [v EXCEPT !.vpn = TRUE, !.provider = p, !.source = s]
      BY <1>2 DEF WithName
    <2>2. s \in Seq(LayerNames) /\ {s[x] : x \in DOMAIN s} = Layers(v) \cup {"rdns"}
      BY AppendSourceAdds DEF VerdictType, LayerNames, Layers
    <2>3. p \in Providers
      BY DEF Providers, Labels, VerdictType
    <2> HIDE DEF s, p
    <2>4. /\ w \in VerdictType
          /\ w.tor = v.tor /\ w.proxy = v.proxy /\ w.hosting = v.hosting
          /\ w.ready = v.ready /\ w.relay = v.relay
          /\ w.vpn = TRUE /\ w.provider = p /\ w.source = s
      BY <2>1, <2>2, <2>3 DEF VerdictType
    <2> QED
      BY <1>2, <2>2, <2>4 DEF Layers, p
  <1> QED
    BY <1>1, <1>2

\* The layer of the registry.
LEMMA WithRegistryIs ==
  ASSUME NEW v \in VerdictType, NEW label \in Labels
  PROVE  LET w == WithRegistry(v, label)
         IN  /\ w \in VerdictType
             /\ w.tor = v.tor /\ w.proxy = v.proxy /\ w.hosting = v.hosting
             /\ w.ready = v.ready /\ w.relay = v.relay
             /\ label = Nil => w = v
             /\ label # Nil => w.vpn /\ w.provider = label
             /\ Layers(w) \subseteq Layers(v) \cup {"whois"}
             /\ Layers(v) \subseteq Layers(w)
  <1> DEFINE w == WithRegistry(v, label)
  <1>1. CASE label = Nil
    BY <1>1 DEF WithRegistry
  <1>2. CASE label # Nil
    <2> DEFINE s == AppendSource(v.source, "whois")
    <2>1. w = [v EXCEPT !.vpn = TRUE, !.provider = label, !.source = s]
      BY <1>2 DEF WithRegistry
    <2>2. s \in Seq(LayerNames) /\ {s[x] : x \in DOMAIN s} = Layers(v) \cup {"whois"}
      BY AppendSourceAdds DEF VerdictType, LayerNames, Layers
    <2>3. label \in Providers
      BY DEF Providers, Labels
    <2> HIDE DEF s
    <2>4. /\ w \in VerdictType
          /\ w.tor = v.tor /\ w.proxy = v.proxy /\ w.hosting = v.hosting
          /\ w.ready = v.ready /\ w.relay = v.relay
          /\ w.vpn = TRUE /\ w.provider = label /\ w.source = s
      BY <2>1, <2>2, <2>3 DEF VerdictType
    <2> QED
      BY <1>2, <2>2, <2>4 DEF Layers
  <1> QED
    BY <1>1, <1>2

-----------------------------------------------------------------------------
(* What the layers come to *)

LEMMA CheckIs ==
  ASSUME NEW r \in BOOLEAN, NEW f \in Facts, Possible(f), NEW tier \in Tiers
  PROVE  LET v == Check(r, f, tier)
         IN  /\ v \in VerdictType
             /\ v.ready = r /\ v.relay = f.relay
             /\ v.tor <=> f.exact = "tor"
             /\ v.proxy <=> f.exact = Nil /\ f.range
             /\ v.vpn <=> f.exact # Nil \/ f.range \/ Named(f.net) \/ tier = "rental"
             /\ v.hosting <=> tier = "hosting"
             /\ v.provider = IF f.exact = "tor" THEN Nil
                             ELSE IF f.exact # Nil THEN f.exact
                             ELSE IF f.range THEN RangeFeed
                             ELSE IF Named(f.net) THEN f.net ELSE Nil
             /\ "ip-list" \in Layers(v) <=> f.exact # Nil
             /\ "ip-prefix" \in Layers(v) <=> f.exact = Nil /\ Named(f.net)
             /\ "cidr" \in Layers(v) <=> f.exact = Nil /\ f.range
  <1> DEFINE b == Blank(r)
             l == Listed(b, f)
             g == Ranged(l, f)
             v == Hosted(g, tier)
  <1>1. /\ b \in VerdictType /\ Layers(b) = {}
        /\ ~ b.vpn /\ ~ b.tor /\ ~ b.proxy /\ ~ b.hosting
        /\ b.provider = Nil /\ b.relay = Nil /\ b.ready = r
    BY BlankType DEF Blank
  <1> HIDE DEF b
  <1>2. /\ l \in VerdictType
        /\ l.vpn <=> f.exact # Nil \/ Named(f.net)
        /\ l.tor <=> f.exact = "tor"
        /\ ~ l.proxy /\ ~ l.hosting /\ l.ready = r
        /\ l.relay = f.relay
        /\ l.provider = IF f.exact = "tor" THEN Nil
                        ELSE IF f.exact # Nil THEN f.exact
                        ELSE IF Named(f.net) THEN f.net ELSE Nil
        /\ Layers(l) = IF f.exact # Nil THEN {"ip-list"}
                       ELSE IF Named(f.net) THEN {"ip-prefix"} ELSE {}
    BY <1>1, ListedIs
  <1> HIDE DEF l
  <1>3. /\ g \in VerdictType
        /\ g.tor = l.tor /\ g.hosting = l.hosting /\ g.ready = l.ready /\ g.relay = l.relay
        /\ f.exact # Nil \/ ~ f.range => g = l
        /\ f.exact = Nil /\ f.range =>
             /\ g.vpn /\ g.proxy /\ g.provider = RangeFeed
             /\ Layers(g) = Layers(l) \cup {"cidr"}
    BY <1>2, RangedIs
  <1> HIDE DEF g
  <1>4. /\ v \in VerdictType
        /\ v.tor = g.tor /\ v.proxy = g.proxy /\ v.provider = g.provider
        /\ v.ready = g.ready /\ v.relay = g.relay
        /\ v.vpn <=> g.vpn \/ tier = "rental"
        /\ v.hosting <=> g.hosting \/ tier = "hosting"
        /\ Layers(v) \subseteq Layers(g) \cup {"asn", "asn-hosting"}
        /\ Layers(g) \subseteq Layers(v)
    BY <1>3, HostedIs
  <1> HIDE DEF v
  <1>5. v = Check(r, f, tier)
    BY DEF Check, b, l, g, v
  <1>6. CASE f.exact # Nil \/ ~ f.range
    <2>1. g = l
      BY <1>3, <1>6
    <2>2. /\ v.vpn <=> f.exact # Nil \/ f.range \/ Named(f.net) \/ tier = "rental"
          /\ v.proxy <=> f.exact = Nil /\ f.range
          /\ v.hosting <=> tier = "hosting"
          /\ v.tor <=> f.exact = "tor"
      BY <1>2, <1>4, <1>6, <2>1
    <2>3. v.provider = IF f.exact = "tor" THEN Nil
                       ELSE IF f.exact # Nil THEN f.exact
                       ELSE IF f.range THEN RangeFeed
                       ELSE IF Named(f.net) THEN f.net ELSE Nil
      BY <1>2, <1>4, <1>6, <2>1
    <2>4. /\ "ip-list" \in Layers(v) <=> f.exact # Nil
          /\ "ip-prefix" \in Layers(v) <=> f.exact = Nil /\ Named(f.net)
          /\ "cidr" \in Layers(v) <=> f.exact = Nil /\ f.range
      BY <1>2, <1>4, <1>6, <2>1
    <2> QED
      BY <1>2, <1>4, <1>5, <2>1, <2>2, <2>3, <2>4
  <1>7. CASE f.exact = Nil /\ f.range
    <2>1. /\ v.vpn <=> f.exact # Nil \/ f.range \/ Named(f.net) \/ tier = "rental"
          /\ v.proxy <=> f.exact = Nil /\ f.range
          /\ v.hosting <=> tier = "hosting"
          /\ v.tor <=> f.exact = "tor"
      BY <1>2, <1>3, <1>4, <1>7
    <2>2. v.provider = RangeFeed
      BY <1>3, <1>4, <1>7
    <2>3. /\ "ip-list" \in Layers(v) <=> f.exact # Nil
          /\ "ip-prefix" \in Layers(v) <=> f.exact = Nil /\ Named(f.net)
          /\ "cidr" \in Layers(v) <=> f.exact = Nil /\ f.range
      BY <1>2, <1>3, <1>4, <1>7
    <2> QED
      BY <1>2, <1>3, <1>4, <1>5, <1>7, <2>1, <2>2, <2>3, NilApart
  <1> QED
    BY <1>6, <1>7 DEF Facts

\* What a verdict may be after Augment.
Final(r, f, tier, label, v) ==
  LET u == WithName(Check(r, f, tier), label)
  IN  v = u \/ (AsksWhois(u, tier) /\ \E b \in Labels : v = WithRegistry(u, b))

LEMMA FinalIs ==
  ASSUME NEW r \in BOOLEAN, NEW f \in Facts, Possible(f), NEW tier \in Tiers, NEW label \in Labels,
         NEW v, Final(r, f, tier, label, v)
  PROVE  /\ v \in VerdictType
         /\ v.ready = r /\ v.relay = f.relay
         /\ v.tor <=> f.exact = "tor"
         /\ v.proxy <=> f.exact = Nil /\ f.range
         /\ v.hosting <=> tier = "hosting"
         /\ "ip-list" \in Layers(v) <=> f.exact # Nil
         /\ "ip-prefix" \in Layers(v) <=> f.exact = Nil /\ Named(f.net)
         /\ "cidr" \in Layers(v) <=> f.exact = Nil /\ f.range
         /\ ~ v.tor /\ ~ v.proxy =>
              (v.vpn <=> f.exact # Nil \/ Named(f.net) \/ tier = "rental" \/ label # Nil)
         /\ f.exact = "tor" => v.provider = Nil
         /\ f.exact \in Feeds => v.provider = f.exact
         /\ f.exact = Nil /\ f.range => v.provider = RangeFeed
         /\ f.exact = Nil /\ ~ f.range /\ Named(f.net) => v.provider = f.net
         /\ f.exact = Nil /\ ~ f.range /\ ~ Named(f.net) /\ label # Nil => v.provider = label
         /\ f.exact = Nil /\ ~ f.range /\ ~ Named(f.net) /\ label = Nil /\ v.provider # Nil =>
              v.provider \in Brands /\ tier = "rental"
  <1> DEFINE c == Check(r, f, tier)
             u == WithName(c, label)
  <1>1. /\ c \in VerdictType
        /\ c.ready = r /\ c.relay = f.relay
        /\ c.tor <=> f.exact = "tor"
        /\ c.proxy <=> f.exact = Nil /\ f.range
        /\ c.vpn <=> f.exact # Nil \/ f.range \/ Named(f.net) \/ tier = "rental"
        /\ c.hosting <=> tier = "hosting"
        /\ c.provider = IF f.exact = "tor" THEN Nil
                        ELSE IF f.exact # Nil THEN f.exact
                        ELSE IF f.range THEN RangeFeed
                        ELSE IF Named(f.net) THEN f.net ELSE Nil
        /\ "ip-list" \in Layers(c) <=> f.exact # Nil
        /\ "ip-prefix" \in Layers(c) <=> f.exact = Nil /\ Named(f.net)
        /\ "cidr" \in Layers(c) <=> f.exact = Nil /\ f.range
    BY CheckIs
  <1> HIDE DEF c
  <1>2. /\ u \in VerdictType
        /\ u.tor = c.tor /\ u.proxy = c.proxy /\ u.hosting = c.hosting
        /\ u.ready = c.ready /\ u.relay = c.relay
        /\ c.tor \/ c.proxy \/ label = Nil => u = c
        /\ ~ c.tor /\ ~ c.proxy /\ label # Nil =>
             /\ u.vpn
             /\ u.provider = IF c.provider = Nil THEN label ELSE c.provider
        /\ Layers(u) \subseteq Layers(c) \cup {"rdns"}
        /\ Layers(c) \subseteq Layers(u)
    BY <1>1, WithNameIs
  <1> HIDE DEF u
  <1>3. Nil \notin Feeds /\ Nil # RangeFeed /\ "tor" \notin Feeds
    <2>1. Nil # RangeFeed
      BY Zenon DEF Nil, RangeFeed
    <2> QED
      BY <2>1, VerdictAssumption
  <1>4. f.exact \in Feeds \cup {Nil, "tor"} /\ f.range \in BOOLEAN /\ f.net \in Feeds \cup {Nil, "multi"}
    BY DEF Facts
  <1>5. CASE v = u
    BY <1>1, <1>2, <1>3, <1>4, <1>5, NilApart DEF Named
  <1>6. ASSUME AsksWhois(u, tier), NEW b \in Labels, v = WithRegistry(u, b)
        PROVE  /\ v \in VerdictType
               /\ v.tor = u.tor /\ v.proxy = u.proxy /\ v.hosting = u.hosting
               /\ v.ready = u.ready /\ v.relay = u.relay
               /\ b = Nil => v = u
               /\ b # Nil => v.vpn /\ v.provider = b
               /\ Layers(v) \subseteq Layers(u) \cup {"whois"}
               /\ Layers(u) \subseteq Layers(v)
    BY <1>2, <1>6, WithRegistryIs
  <1>7. CASE AsksWhois(u, tier) /\ \E b \in Labels : v = WithRegistry(u, b)
    <2>1. PICK b \in Labels : v = WithRegistry(u, b)
      BY <1>7
    <2>2. /\ ~ u.tor /\ ~ u.proxy /\ u.provider = Nil /\ tier = "rental"
      BY <1>7 DEF AsksWhois
    <2>3. CASE b = Nil
      <3>1. v = u
        BY <1>6, <1>7, <2>1, <2>3
      <3> QED
        BY <1>5, <3>1
    <2>4. CASE b # Nil
      <3>1. b \in Brands
        BY <2>4 DEF Labels, Nil
      <3>2. f.exact = Nil /\ ~ f.range /\ ~ Named(f.net) /\ label = Nil
        BY <1>1, <1>2, <1>3, <1>4, <2>2, NilApart DEF Named
      <3> QED
        BY <1>1, <1>2, <1>6, <1>7, <2>1, <2>2, <2>4, <3>1, <3>2, NilApart, <1>3
    <2> QED
      BY <2>3, <2>4
  <1> QED
    BY <1>5, <1>7 DEF Final, c, u

-----------------------------------------------------------------------------
(* The invariant *)

Published == Snapshots \cup {EmptySnapshot}

\* The values that a request works with: of each address one.
Canonical == [addr : Addresses \cup {NoAddr}, form : {"plain"}]

TypeInv ==
  /\ snap \in Published
  /\ loadedAt \in Nat /\ rounds \in Nat /\ marking \in BOOLEAN /\ told \in BOOLEAN
  /\ pc \in [Callers -> {"idle", "target", "asn", "check", "ptr", "augment", "whois", "answer",
                         "done"}]
  /\ ip \in [Callers -> Canonical]
  /\ cf \in [Callers -> BOOLEAN]
  /\ override \in [Callers -> Texts]
  /\ target \in [Callers -> Canonical]
  /\ lookup \in [Callers -> BOOLEAN]
  /\ status \in [Callers -> {200, 400, 429}]
  /\ asn \in [Callers -> Asn]
  /\ verdict \in [Callers -> VerdictType]
  /\ rdns \in [Callers -> Labels]
  /\ country \in [Callers -> {Nil, "relay", "cf", "rir"}]
  /\ seen \in [Callers -> SUBSET Published]
  /\ late \in [Callers -> BOOLEAN]

\* The fields that later steps rely on.
Routed(c) ==
  /\ pc[c] \in {"idle", "target"} => ~ lookup[c]
  /\ pc[c] \in {"idle", "target", "asn"} => asn[c] = NoAsn
  /\ target[c] = Zero => asn[c].tier = "none"
  /\ pc[c] # "done" => status[c] = 200

Metered(c) ==
  /\ status[c] = 429 => override[c].addr # ip[c].addr
  /\ pc[c] \notin {"idle", "target"} /\ status[c] = 200 => (lookup[c] <=> target[c] # ip[c])

Located(c) == Answered(c) /\ country[c] = "cf" => target[c] = ip[c] /\ cf[c]

Checked(c, s) == Check(s.ready, FactsIn(s, target[c]), asn[c].tier)

\* Which layers the verdict has at each stage, of one of the snapshots seen.
Layered(c) ==
  /\ pc[c] \in {"ptr", "augment"} => \E s \in seen[c] : verdict[c] = Checked(c, s)
  /\ pc[c] = "whois" =>
       /\ \E s \in seen[c] : verdict[c] = WithName(Checked(c, s), rdns[c])
       /\ AsksWhois(verdict[c], asn[c].tier)
  /\ pc[c] = "answer" \/ Answered(c) =>
       \E s \in seen[c] : Final(s.ready, FactsIn(s, target[c]), asn[c].tier, rdns[c], verdict[c])

\* The snapshots a request has seen are older than the current one, and ready
\* when somebody was told so before it came.
Watched(c) ==
  pc[c] # "idle" =>
    /\ snap \in seen[c]
    /\ \A s \in seen[c] : s.ready => snap.ready
    /\ late[c] => \A s \in seen[c] : s.ready

CallerInv(c) == Routed(c) /\ Metered(c) /\ Located(c) /\ Layered(c) /\ Watched(c)

Told == (told \/ loadedAt # 0) => snap.ready

Inv == TypeInv /\ Told /\ \A c \in Callers : CallerInv(c)

-----------------------------------------------------------------------------
(* Lemmas about the parts *)

\* canonicalIP makes of the forms of an address one, and of no other address.
LEMMA CanonicalIs ==
  ASSUME NEW v \in Addr \cup {Zero}
  PROVE  CanonicalIP(v) \in Canonical /\ CanonicalIP(v).addr = v.addr
  BY DEF CanonicalIP, Canonical, Addr, Zero

\* Two canonical values are equal when they are of one address.
LEMMA CanonicalEqual ==
  ASSUME NEW v \in Canonical, NEW w \in Canonical, v.addr = w.addr
  PROVE  v = w
  BY DEF Canonical

LEMMA ParseIs ==
  ASSUME NEW t \in Texts
  PROVE  /\ Parse(t) \in Addr \cup {Zero}
         /\ Parse(t).addr = t.addr
         /\ t \in Addr => t.addr \in Addresses
  BY DEF Parse, Texts, Absent, Junk, Zero, Addr

LEMMA WantedIs ==
  ASSUME TypeInv, NEW c \in Callers
  PROVE  Wanted(c) \in Canonical /\ Wanted(c).addr = override[c].addr
  <1>1. override[c] \in Texts
    BY DEF TypeInv
  <1> QED
    BY <1>1, ParseIs, CanonicalIs DEF Wanted

\* What is compared are values, and what differs are addresses.
LEMMA IsLookupIs ==
  ASSUME TypeInv, NEW c \in Callers
  PROVE  IsLookup(c) <=> override[c].addr # ip[c].addr
  <1>1. ip[c] \in Canonical
    BY DEF TypeInv
  <1> QED
    BY <1>1, WantedIs, CanonicalEqual DEF IsLookup

LEMMA ZeroIs == Zero \in Canonical /\ Zero.addr = NoAddr /\ CanonicalIP(Zero) = Zero
  BY DEF Zero, Canonical, CanonicalIP

LEMMA FactsPossible ==
  ASSUME NEW s \in Published, NEW a \in Canonical
  PROVE  s.ready \in BOOLEAN /\ FactsIn(s, a) \in Facts /\ Possible(FactsIn(s, a))
  <1>1. NoFacts \in Facts /\ Possible(NoFacts)
    BY VerdictAssumption DEF NoFacts, Facts, Possible
  <1>2. CASE s \in Snapshots
    <2>1. s \in Snapshot /\ \A b \in Addresses : Possible(s.facts[b])
      BY <1>2, RequestAssumption
    <2>2. s.ready \in BOOLEAN /\ \A b \in Addresses : s.facts[b] \in Facts
      BY <2>1 DEF Snapshot
    <2> QED
      BY <1>1, <2>1, <2>2 DEF FactsIn, Canonical
  <1>3. CASE s = EmptySnapshot
    BY <1>1, <1>3 DEF EmptySnapshot, FactsIn, Canonical
  <1> QED
    BY <1>2, <1>3 DEF Published

LEMMA CheckNothing ==
  ASSUME NEW r \in BOOLEAN
  PROVE  Check(r, NoFacts, "none") = Blank(r)
  <1>1. Listed(Blank(r), NoFacts) = Blank(r)
    BY NilApart DEF Listed, NoFacts
  <1>2. Ranged(Blank(r), NoFacts) = Blank(r)
    BY DEF Ranged, NoFacts
  <1>3. Hosted(Blank(r), "none") = Blank(r)
    BY DEF Hosted
  <1> QED
    BY <1>1, <1>2, <1>3 DEF Check

Same(d) ==
  /\ pc'[d] = pc[d] /\ ip'[d] = ip[d] /\ cf'[d] = cf[d] /\ override'[d] = override[d]
  /\ target'[d] = target[d] /\ lookup'[d] = lookup[d] /\ status'[d] = status[d]
  /\ asn'[d] = asn[d] /\ verdict'[d] = verdict[d] /\ rdns'[d] = rdns[d]
  /\ country'[d] = country[d] /\ late'[d] = late[d]

\* A request that a step leaves alone keeps its part of the invariant.
LEMMA Frame ==
  ASSUME NEW d \in Callers, CallerInv(d), Same(d), seen'[d] = seen[d], snap' = snap
  PROVE  CallerInv(d)'
  <1> USE DEF CallerInv, Same
  <1>1. Routed(d)' /\ Metered(d)'
    BY DEF Routed, Metered
  <1>2. Located(d)'
    BY DEF Located, Answered
  <1>3. Layered(d)'
    BY DEF Layered, Answered, Checked
  <1>4. Watched(d)'
    BY DEF Watched
  <1> QED
    BY <1>1, <1>2, <1>3, <1>4

\* A step of one request.
LEMMA OneCaller ==
  ASSUME Inv, NEW c \in Callers, TypeInv', CallerInv(c)', Told', snap' = snap,
         \A d \in Callers \ {c} : Same(d) /\ seen'[d] = seen[d]
  PROVE  Inv'
  <1>1. ASSUME NEW d \in Callers, d # c PROVE CallerInv(d)'
    BY <1>1, Frame DEF Inv
  <1> QED
    BY <1>1 DEF Inv

-----------------------------------------------------------------------------
(* The steps of a request *)

LEMMA InitInv == Init => Inv
  <1> SUFFICES ASSUME Init PROVE Inv
    OBVIOUS
  <1>1. TypeInv
    <2>1. /\ EmptySnapshot \in Published /\ Zero \in Canonical /\ Absent \in Texts
          /\ NoAsn \in Asn /\ Nil \in Labels /\ Blank(FALSE) \in VerdictType
      BY BlankType, ZeroIs DEF Published, Texts, NoAsn, Asn, Tiers, Labels
    <2> QED
      BY <2>1, Zenon DEF Init, TypeInv
  <1>2. Told
    BY DEF Init, Told
  <1>3. ASSUME NEW c \in Callers PROVE CallerInv(c)
    BY <1>3 DEF Init, CallerInv, Routed, Metered, Located, Layered, Watched, Answered, NoAsn
  <1> QED
    BY <1>1, <1>2, <1>3 DEF Inv

LEMMA ArriveKeeps ==
  ASSUME Inv, NEW c \in Callers, Arrive(c)
  PROVE  Inv'
  <1> USE DEF Inv, Arrive, loopVars
  <1>1. TypeInv'
    <2>1. \A t \in Texts : CanonicalIP(Parse(t)) \in Canonical
      BY CanonicalIs, ParseIs
    <2>2. ip' \in [Callers -> Canonical]
      <3>1. PICK connecting \in Texts, real \in Texts, peer \in Texts \ {Absent} :
              ip' = [ip EXCEPT ![c] = Requester(connecting, real, peer)]
        OBVIOUS
      <3>2. Requester(connecting, real, peer) \in Canonical
        BY <2>1 DEF Requester, RequesterText
      <3> QED
        BY <3>1, <3>2 DEF TypeInv
    <2>3. cf' \in [Callers -> BOOLEAN]
      <3>1. PICK b \in {FALSE, TrustCF} : cf' = [cf EXCEPT ![c] = b]
        OBVIOUS
      <3> QED
        BY <3>1, RequestAssumption DEF TypeInv
    <2>4. override' \in [Callers -> Texts]
      <3>1. PICK o \in Texts : override' = [override EXCEPT ![c] = o]
        OBVIOUS
      <3> QED
        BY <3>1 DEF TypeInv
    <2> QED
      BY <2>2, <2>3, <2>4 DEF TypeInv
  <1>2. CallerInv(c)'
    <2>1. Routed(c)' /\ Metered(c)' /\ Located(c)' /\ Layered(c)'
      BY DEF TypeInv, CallerInv, Routed, Metered, Located, Layered, Answered, Watched
    <2>2. Watched(c)'
      BY DEF TypeInv, Watched, Told
    <2> QED
      BY <2>1, <2>2 DEF CallerInv
  <1>3. Told'
    BY DEF Told
  <1>4. \A d \in Callers \ {c} : Same(d) /\ seen'[d] = seen[d]
    BY DEF TypeInv, Same
  <1> QED
    BY <1>1, <1>2, <1>3, <1>4, OneCaller

LEMMA OwnAddressKeeps ==
  ASSUME Inv, NEW c \in Callers, OwnAddress(c)
  PROVE  Inv'
  <1> USE DEF Inv, OwnAddress, TargetVars, loopVars
  <1>1. TypeInv'
    BY DEF TypeInv
  <1>2. CallerInv(c)'
    BY DEF TypeInv, CallerInv, Routed, Metered, Located, Layered, Answered, Watched, NoAsn
  <1>3. Told'
    BY DEF Told
  <1>4. \A d \in Callers \ {c} : Same(d) /\ seen'[d] = seen[d]
    BY DEF TypeInv, Same
  <1> QED
    BY <1>1, <1>2, <1>3, <1>4, OneCaller

LEMMA RejectKeeps ==
  ASSUME Inv, NEW c \in Callers, Reject(c)
  PROVE  Inv'
  <1> USE DEF Inv, Reject, TargetVars, loopVars
  <1>1. TypeInv'
    BY DEF TypeInv
  <1>2. CallerInv(c)'
    BY DEF TypeInv, CallerInv, Routed, Metered, Located, Layered, Answered, Watched, NoAsn
  <1>3. Told'
    BY DEF Told
  <1>4. \A d \in Callers \ {c} : Same(d) /\ seen'[d] = seen[d]
    BY DEF TypeInv, Same
  <1> QED
    BY <1>1, <1>2, <1>3, <1>4, OneCaller

LEMMA AcceptKeeps ==
  ASSUME Inv, NEW c \in Callers, Accept(c)
  PROVE  Inv'
  <1> USE DEF Inv, Accept, TargetVars, loopVars
  <1>1. TypeInv'
    <2>1. Wanted(c) \in Canonical
      BY WantedIs
    <2>2. IsLookup(c) \in BOOLEAN
      BY DEF IsLookup
    <2> QED
      BY <2>1, <2>2 DEF TypeInv
  <1>2. CallerInv(c)'
    <2>1. /\ lookup'[c] = (Wanted(c) # ip[c]) /\ target'[c] = Wanted(c)
          /\ ip'[c] = ip[c] /\ status'[c] = status[c] /\ override'[c] = override[c]
      BY DEF TypeInv, IsLookup
    <2>2. Metered(c)'
      BY <2>1 DEF TypeInv, CallerInv, Metered
    <2>3. Routed(c)' /\ Located(c)' /\ Layered(c)' /\ Watched(c)'
      BY <2>1 DEF TypeInv, CallerInv, Routed, Located, Layered, Answered, Watched, NoAsn
    <2> QED
      BY <2>2, <2>3 DEF CallerInv
  <1>3. Told'
    BY DEF Told
  <1>4. \A d \in Callers \ {c} : Same(d) /\ seen'[d] = seen[d]
    BY DEF TypeInv, Same
  <1> QED
    BY <1>1, <1>2, <1>3, <1>4, OneCaller

LEMMA ThrottleKeeps ==
  ASSUME Inv, NEW c \in Callers, Throttle(c)
  PROVE  Inv'
  <1> USE DEF Inv, Throttle, TargetVars, loopVars
  <1>1. TypeInv'
    BY DEF TypeInv
  <1>2. CallerInv(c)'
    <2>1. override[c].addr # ip[c].addr
      BY IsLookupIs
    <2> QED
      BY <2>1 DEF TypeInv, CallerInv, Routed, Metered, Located, Layered, Answered, Watched, NoAsn
  <1>3. Told'
    BY DEF Told
  <1>4. \A d \in Callers \ {c} : Same(d) /\ seen'[d] = seen[d]
    BY DEF TypeInv, Same
  <1> QED
    BY <1>1, <1>2, <1>3, <1>4, OneCaller

LEMMA LookupASNKeeps ==
  ASSUME Inv, NEW c \in Callers, LookupASN(c)
  PROVE  Inv'
  <1> USE DEF Inv, LookupASN, loopVars
  <1>1. TypeInv' /\ (target[c] = Zero => asn'[c].tier = "none")
    <2>1. CASE IsRoutable(target[c])
      <3>1. PICK i \in Asn : asn' = [asn EXCEPT ![c] = i]
        BY <2>1
      <3>2. target[c] # Zero
        BY <2>1, ZeroIs, RequestAssumption DEF IsRoutable
      <3> QED
        BY <3>1, <3>2 DEF TypeInv
    <2>2. CASE ~ IsRoutable(target[c])
      BY <2>2 DEF TypeInv, CallerInv, Routed
    <2> QED
      BY <2>1, <2>2
  <1>2. CallerInv(c)'
    <2>1. Routed(c)'
      BY <1>1 DEF TypeInv, CallerInv, Routed
    <2>2. Metered(c)' /\ Located(c)' /\ Layered(c)' /\ Watched(c)'
      BY DEF TypeInv, CallerInv, Metered, Located, Layered, Answered, Watched
    <2> QED
      BY <2>1, <2>2 DEF CallerInv
  <1>3. Told'
    BY DEF Told
  <1>4. \A d \in Callers \ {c} : Same(d) /\ seen'[d] = seen[d]
    BY DEF TypeInv, Same
  <1> QED
    BY <1>1, <1>2, <1>3, <1>4, OneCaller

LEMMA CheckSnapshotKeeps ==
  ASSUME Inv, NEW c \in Callers, CheckSnapshot(c)
  PROVE  Inv'
  <1> USE DEF Inv, CheckSnapshot, loopVars
  <1> DEFINE v == IF target[c] = Zero THEN Blank(snap.ready)
                  ELSE Check(snap.ready, snap.facts[CanonicalIP(target[c]).addr], asn[c].tier)
  <1>1. v = Checked(c, snap) /\ v \in VerdictType
    <2>1. /\ snap \in Published /\ target[c] \in Canonical
          /\ asn[c].tier \in Tiers
          /\ target[c] = Zero => asn[c].tier = "none"
      BY DEF TypeInv, CallerInv, Routed, Asn
    <2>2. /\ snap.ready \in BOOLEAN /\ FactsIn(snap, target[c]) \in Facts
          /\ Possible(FactsIn(snap, target[c]))
      BY <2>1, FactsPossible
    <2>3. v = Checked(c, snap)
      <3>1. target[c].addr = NoAddr => target[c] = Zero
        BY <2>1, ZeroIs, CanonicalEqual
      <3>2. CanonicalIP(target[c]) = target[c]
        BY <2>1 DEF Canonical, CanonicalIP
      <3> QED
        BY <2>2, <2>1, <3>1, <3>2, ZeroIs, CheckNothing DEF Checked, FactsIn
    <2>4. Checked(c, snap) \in VerdictType
      BY <2>1, <2>2, CheckIs DEF Checked
    <2> QED
      BY <2>3, <2>4
  <1>2. verdict' = [verdict EXCEPT ![c] = v]
    OBVIOUS
  <1> HIDE DEF v
  <1>3. TypeInv'
    BY <1>1, <1>2 DEF TypeInv
  <1>4. CallerInv(c)'
    <2>1. Routed(c)' /\ Metered(c)' /\ Located(c)' /\ Watched(c)'
      BY DEF TypeInv, CallerInv, Routed, Metered, Located, Answered, Watched
    <2>2. snap \in seen'[c] /\ verdict'[c] = Checked(c, snap)
      BY <1>1, <1>2 DEF TypeInv, CallerInv, Watched
    <2>3. Layered(c)'
      BY <2>2 DEF TypeInv, Layered, Checked, Answered
    <2> QED
      BY <2>1, <2>3 DEF CallerInv
  <1>5. Told'
    BY DEF Told
  <1>6. \A d \in Callers \ {c} : Same(d) /\ seen'[d] = seen[d]
    BY DEF TypeInv, Same
  <1> QED
    BY <1>3, <1>4, <1>5, <1>6, OneCaller

LEMMA LookupReverseKeeps ==
  ASSUME Inv, NEW c \in Callers, LookupReverse(c)
  PROVE  Inv'
  <1> USE DEF Inv, LookupReverse, loopVars
  <1>1. TypeInv'
    BY DEF TypeInv
  <1>2. CallerInv(c)'
    <2>1. Routed(c)' /\ Metered(c)' /\ Located(c)' /\ Watched(c)'
      BY DEF TypeInv, CallerInv, Routed, Metered, Located, Answered, Watched
    <2>2. Layered(c)'
      BY DEF TypeInv, CallerInv, Layered, Checked, Answered
    <2> QED
      BY <2>1, <2>2 DEF CallerInv
  <1>3. Told'
    BY DEF Told
  <1>4. \A d \in Callers \ {c} : Same(d) /\ seen'[d] = seen[d]
    BY DEF TypeInv, Same
  <1> QED
    BY <1>1, <1>2, <1>3, <1>4, OneCaller

LEMMA AugmentKeeps ==
  ASSUME Inv, NEW c \in Callers, Augment(c)
  PROVE  Inv'
  <1> USE DEF Inv, loopVars
  <1> DEFINE v == WithName(verdict[c], rdns[c])
  <1>1. v \in VerdictType
    BY WithNameIs DEF TypeInv
  <1>2. PICK s \in seen[c] : v = WithName(Checked(c, s), rdns[c])
    BY DEF CallerInv, Layered, Augment
  <1>3. /\ pc[c] = "augment"
        /\ verdict' = [verdict EXCEPT ![c] = v]
        /\ pc' = [pc EXCEPT ![c] = IF AsksWhois(v, asn[c].tier) THEN "whois" ELSE "answer"]
        /\ UNCHANGED <<loopVars, ip, cf, override, target, lookup, status, asn, rdns, country,
                       seen, told, late>>
    BY DEF Augment
  <1> HIDE DEF v
  <1>4. TypeInv'
    BY <1>1, <1>3 DEF TypeInv
  <1>5. CallerInv(c)'
    <2>1. Routed(c)' /\ Metered(c)' /\ Located(c)' /\ Watched(c)'
      BY <1>3 DEF TypeInv, CallerInv, Routed, Metered, Located, Answered, Watched
    <2>2. /\ verdict'[c] = v /\ asn'[c] = asn[c] /\ rdns'[c] = rdns[c] /\ target'[c] = target[c]
          /\ seen'[c] = seen[c]
          /\ pc'[c] = IF AsksWhois(v, asn[c].tier) THEN "whois" ELSE "answer"
      BY <1>3 DEF TypeInv
    <2>3. Checked(c, s)' = Checked(c, s)
      BY <2>2 DEF Checked
    <2>4. Final(s.ready, FactsIn(s, target[c]), asn[c].tier, rdns[c], v)
      BY <1>2 DEF Final, Checked
    <2>5. Layered(c)'
      <3>1. CASE AsksWhois(v, asn[c].tier)
        <4>1. verdict'[c] = WithName(Checked(c, s)', rdns'[c]) /\ s \in seen'[c]
          BY <1>2, <2>2, <2>3
        <4>2. AsksWhois(verdict'[c], asn'[c].tier) /\ pc'[c] = "whois"
          BY <2>2, <3>1
        <4> QED
          BY <4>1, <4>2 DEF Layered, Answered, Checked
      <3>2. CASE ~ AsksWhois(v, asn[c].tier)
        BY <1>2, <2>2, <2>4, <3>2 DEF Layered, Answered
      <3> QED
        BY <3>1, <3>2
    <2> QED
      BY <2>1, <2>5 DEF CallerInv
  <1>6. Told'
    BY <1>3 DEF Told
  <1>7. \A d \in Callers \ {c} : Same(d) /\ seen'[d] = seen[d]
    BY <1>3 DEF TypeInv, Same
  <1> QED
    BY <1>3, <1>4, <1>5, <1>6, <1>7, OneCaller

LEMMA LookupWhoisKeeps ==
  ASSUME Inv, NEW c \in Callers, LookupWhois(c)
  PROVE  Inv'
  <1> USE DEF Inv, loopVars
  <1>1. PICK b \in Labels : verdict' = [verdict EXCEPT ![c] = WithRegistry(verdict[c], b)]
    BY DEF LookupWhois
  <1> DEFINE v == WithRegistry(verdict[c], b)
  <1>2. v \in VerdictType
    BY WithRegistryIs DEF TypeInv
  <1>3. PICK s \in seen[c] : Final(s.ready, FactsIn(s, target[c]), asn[c].tier, rdns[c], v)
    BY DEF CallerInv, Layered, LookupWhois, Final, Checked
  <1>4. /\ pc[c] = "whois"
        /\ verdict' = [verdict EXCEPT ![c] = v]
        /\ pc' = [pc EXCEPT ![c] = "answer"]
        /\ UNCHANGED <<loopVars, ip, cf, override, target, lookup, status, asn, rdns, country,
                       seen, told, late>>
    BY <1>1 DEF LookupWhois
  <1> HIDE DEF v
  <1>5. TypeInv'
    BY <1>2, <1>4 DEF TypeInv
  <1>6. CallerInv(c)'
    <2>1. Routed(c)' /\ Metered(c)' /\ Located(c)' /\ Watched(c)'
      BY <1>4 DEF TypeInv, CallerInv, Routed, Metered, Located, Answered, Watched
    <2>2. Layered(c)'
      BY <1>3, <1>4 DEF TypeInv, Layered, Answered
    <2> QED
      BY <2>1, <2>2 DEF CallerInv
  <1>7. Told'
    BY <1>4 DEF Told
  <1>8. \A d \in Callers \ {c} : Same(d) /\ seen'[d] = seen[d]
    BY <1>4 DEF TypeInv, Same
  <1> QED
    BY <1>4, <1>5, <1>6, <1>7, <1>8, OneCaller

LEMMA AnswerKeeps ==
  ASSUME Inv, NEW c \in Callers, Answer(c)
  PROVE  Inv'
  <1> USE DEF Inv, Answer, loopVars
  <1>1. CountrySource(c) \in {Nil, "relay", "cf", "rir"}
        /\ (CountrySource(c) = "cf" => cf[c] /\ ~ lookup[c])
    BY NilApart DEF CountrySource
  <1>2. PICK s \in seen[c] :
          Final(s.ready, FactsIn(s, target[c]), asn[c].tier, rdns[c], verdict[c])
    BY DEF CallerInv, Layered
  <1>3. verdict[c].ready = s.ready /\ s.ready \in BOOLEAN
    <2>1. s \in Published /\ target[c] \in Canonical /\ asn[c].tier \in Tiers /\ rdns[c] \in Labels
      BY DEF TypeInv, Asn
    <2>2. /\ s.ready \in BOOLEAN /\ FactsIn(s, target[c]) \in Facts
          /\ Possible(FactsIn(s, target[c]))
      BY <2>1, FactsPossible
    <2> QED
      BY <1>2, <2>1, <2>2, FinalIs
  <1>4. TypeInv'
    BY <1>1, <1>3 DEF TypeInv
  <1>5. CallerInv(c)'
    <2>1. Routed(c)' /\ Metered(c)' /\ Watched(c)'
      BY DEF TypeInv, CallerInv, Routed, Metered, Watched
    <2>2. Located(c)'
      BY <1>1 DEF TypeInv, CallerInv, Routed, Metered, Located, Answered
    <2>3. Layered(c)'
      BY <1>2 DEF TypeInv, Layered, Answered
    <2> QED
      BY <2>1, <2>2, <2>3 DEF CallerInv
  <1>6. Told'
    BY <1>3 DEF Told, CallerInv, Watched
  <1>7. \A d \in Callers \ {c} : Same(d) /\ seen'[d] = seen[d]
    BY DEF TypeInv, Same
  <1> QED
    BY <1>4, <1>5, <1>6, <1>7, OneCaller

LEMMA LeaveKeeps ==
  ASSUME Inv, NEW c \in Callers, Leave(c)
  PROVE  Inv'
  <1> USE DEF Inv, Leave, loopVars
  <1>1. /\ Zero \in Canonical /\ Absent \in Texts /\ NoAsn \in Asn /\ Nil \in Labels
        /\ Blank(FALSE) \in VerdictType /\ NoAsn.tier = "none"
    BY BlankType, ZeroIs DEF Texts, NoAsn, Asn, Tiers, Labels
  <1>2. TypeInv'
    BY <1>1 DEF TypeInv
  <1>3. CallerInv(c)'
    BY <1>1 DEF TypeInv, CallerInv, Routed, Metered, Located, Layered, Answered, Watched
  <1>4. Told'
    BY DEF Told
  <1>5. \A d \in Callers \ {c} : Same(d) /\ seen'[d] = seen[d]
    BY DEF TypeInv, Same
  <1> QED
    BY <1>2, <1>3, <1>4, <1>5, OneCaller

-----------------------------------------------------------------------------
(* The steps of the loop, and of the probe *)

LEMMA PublishKeeps ==
  ASSUME Inv, NEW s \in Snapshots, Publish(s)
  PROVE  Inv'
  <1> USE DEF Inv, Publish, requestVars
  <1>1. TypeInv'
    BY DEF TypeInv, Published
  <1>2. Told'
    BY DEF Told
  <1>3. ASSUME NEW d \in Callers PROVE CallerInv(d)'
    <2>1. Same(d)
      BY DEF Same
    <2>2. seen'[d] = IF pc[d] = "idle" THEN {} ELSE seen[d] \cup {s}
      BY <1>3
    <2>3. Routed(d)' /\ Metered(d)' /\ Located(d)'
      BY <1>3, <2>1 DEF CallerInv, Same, Routed, Metered, Located, Answered
    <2>4. Layered(d)'
      BY <1>3, <2>1, <2>2 DEF CallerInv, Same, Layered, Answered, Checked
    <2>5. Watched(d)'
      BY <1>3, <2>1, <2>2 DEF CallerInv, Same, Watched
    <2> QED
      BY <2>3, <2>4, <2>5 DEF CallerInv
  <1> QED
    BY <1>1, <1>2, <1>3

LEMMA MarkLoadedKeeps ==
  ASSUME Inv, MarkLoaded
  PROVE  Inv'
  <1> USE DEF Inv, MarkLoaded, requestVars
  <1>1. TypeInv'
    BY DEF TypeInv
  <1>2. Told'
    BY DEF Told
  <1>3. ASSUME NEW d \in Callers PROVE CallerInv(d)'
    BY <1>3, Frame DEF Same
  <1> QED
    BY <1>1, <1>2, <1>3

LEMMA ReadyKeeps ==
  ASSUME Inv, Ready
  PROVE  Inv'
  <1> USE DEF Inv, Ready, loopVars
  <1>1. TypeInv'
    BY DEF TypeInv
  <1>2. Told'
    BY DEF Told
  <1>3. ASSUME NEW d \in Callers PROVE CallerInv(d)'
    BY <1>3, Frame DEF Same
  <1> QED
    BY <1>1, <1>2, <1>3

LEMMA NextKeeps ==
  ASSUME Inv, [Next]_vars
  PROVE  Inv'
  <1>1. ASSUME NEW c \in Callers, Serve(c) PROVE Inv'
    BY <1>1, ArriveKeeps, OwnAddressKeeps, RejectKeeps, AcceptKeeps, ThrottleKeeps,
       LookupASNKeeps, CheckSnapshotKeeps, LookupReverseKeeps, AugmentKeeps, LookupWhoisKeeps,
       AnswerKeeps, LeaveKeeps DEF Serve
  <1>2. ASSUME NEW s \in Snapshots, Publish(s) PROVE Inv'
    BY <1>2, PublishKeeps
  <1>3. ASSUME UNCHANGED vars PROVE Inv'
    <2> USE <1>3 DEF vars, loopVars, Inv
    <2>1. TypeInv' /\ Told'
      BY DEF TypeInv, Told
    <2>2. ASSUME NEW d \in Callers PROVE CallerInv(d)'
      BY <2>2, Frame DEF Same
    <2> QED
      BY <2>1, <2>2
  <1> QED
    BY <1>1, <1>2, <1>3, MarkLoadedKeeps, ReadyKeeps DEF Next

LEMMA Invariance == Spec => []Inv
  BY InitInv, NextKeeps, PTL DEF Spec

-----------------------------------------------------------------------------
(* The properties *)

\* What the invariant says of an answer, with the layers multiplied out.
LEMMA AnsweredIs ==
  ASSUME Inv, NEW c \in Callers, Answered(c)
  PROVE  \E s \in seen[c] :
           /\ s.ready \in BOOLEAN /\ FactsIn(s, target[c]) \in Facts
           /\ Possible(FactsIn(s, target[c]))
           /\ asn[c].tier \in Tiers /\ rdns[c] \in Labels
           /\ Final(s.ready, FactsIn(s, target[c]), asn[c].tier, rdns[c], verdict[c])
  <1>1. PICK s \in seen[c] :
          Final(s.ready, FactsIn(s, target[c]), asn[c].tier, rdns[c], verdict[c])
    BY DEF Inv, CallerInv, Layered
  <1>2. s \in Published /\ target[c] \in Canonical /\ asn[c].tier \in Tiers /\ rdns[c] \in Labels
    BY DEF Inv, TypeInv, Asn
  <1>3. /\ s.ready \in BOOLEAN /\ FactsIn(s, target[c]) \in Facts
        /\ Possible(FactsIn(s, target[c]))
    BY <1>2, FactsPossible
  <1> QED
    BY <1>1, <1>2, <1>3

\* Everything an answer takes from the lists comes from one snapshot that was
\* published while its request was under way, however refreshes fall between the
\* steps of gather.
THEOREM OneSnapshotCorrect == Spec => []OneSnapshot
  <1>1. ASSUME Inv PROVE OneSnapshot
    <2>1. SUFFICES ASSUME NEW c \in Callers, Answered(c)
                   PROVE  \E s \in seen[c] :
                            LET v == verdict[c]
                                f == FactsIn(s, target[c])
                                layers == {v.source[x] : x \in DOMAIN v.source}
                            IN  /\ v.ready = s.ready
                                /\ v.relay = f.relay
                                /\ v.tor = (f.exact = "tor")
                                /\ v.proxy = (f.exact = Nil /\ f.range)
                                /\ "ip-list" \in layers <=> f.exact # Nil
                                /\ "ip-prefix" \in layers <=> f.exact = Nil /\ Named(f.net)
                                /\ "cidr" \in layers <=> v.proxy
      BY DEF OneSnapshot
    <2>2. PICK s \in seen[c] :
            /\ s.ready \in BOOLEAN /\ FactsIn(s, target[c]) \in Facts
            /\ Possible(FactsIn(s, target[c]))
            /\ asn[c].tier \in Tiers /\ rdns[c] \in Labels
            /\ Final(s.ready, FactsIn(s, target[c]), asn[c].tier, rdns[c], verdict[c])
      BY <1>1, <2>1, AnsweredIs
    <2> DEFINE v == verdict[c]
               f == FactsIn(s, target[c])
    <2>3. /\ v \in VerdictType
          /\ v.ready = s.ready /\ v.relay = f.relay
          /\ v.tor <=> f.exact = "tor"
          /\ v.proxy <=> f.exact = Nil /\ f.range
          /\ "ip-list" \in Layers(v) <=> f.exact # Nil
          /\ "ip-prefix" \in Layers(v) <=> f.exact = Nil /\ Named(f.net)
          /\ "cidr" \in Layers(v) <=> f.exact = Nil /\ f.range
      BY <2>2, FinalIs
    <2>4. v.tor \in BOOLEAN /\ v.proxy \in BOOLEAN /\ f.range \in BOOLEAN
      BY <2>2, <2>3 DEF VerdictType, Facts
    <2> HIDE DEF v, f
    <2>5. v.tor = (f.exact = "tor") /\ v.proxy = (f.exact = Nil /\ f.range)
      BY <2>3, <2>4
    <2> QED
      BY <2>3, <2>5 DEF Layers, v, f
  <1> QED
    BY <1>1, Invariance, PTL

\* The word an answer says is what the evidence comes to, for any facts, AS tier
\* and reverse name.
THEOREM StampFollowsEvidenceCorrect == Spec => []StampFollowsEvidence
  <1>1. ASSUME Inv PROVE StampFollowsEvidence
    <2>1. SUFFICES ASSUME NEW c \in Callers, Answered(c)
                   PROVE  \E s \in seen[c] :
                            Stamp(verdict[c])
                              = StampOf(s, FactsIn(s, target[c]), asn[c].tier, rdns[c])
      BY DEF StampFollowsEvidence
    <2>2. PICK s \in seen[c] :
            /\ s.ready \in BOOLEAN /\ FactsIn(s, target[c]) \in Facts
            /\ Possible(FactsIn(s, target[c]))
            /\ asn[c].tier \in Tiers /\ rdns[c] \in Labels
            /\ Final(s.ready, FactsIn(s, target[c]), asn[c].tier, rdns[c], verdict[c])
      BY <1>1, <2>1, AnsweredIs
    <2> DEFINE v == verdict[c]
               f == FactsIn(s, target[c])
               tier == asn[c].tier
               label == rdns[c]
    <2>3. /\ v.ready = s.ready
          /\ v.tor <=> f.exact = "tor"
          /\ v.proxy <=> f.exact = Nil /\ f.range
          /\ v.hosting <=> tier = "hosting"
          /\ ~ v.tor /\ ~ v.proxy =>
               (v.vpn <=> f.exact # Nil \/ Named(f.net) \/ tier = "rental" \/ label # Nil)
      BY <2>2, FinalIs
    <2> HIDE DEF v, f, tier, label
    <2>4. Stamp(v) = StampOf(s, f, tier, label)
      BY <2>3 DEF Stamp, StampOf
    <2> QED
      BY <2>4 DEF v, f, tier, label
  <1> QED
    BY <1>1, Invariance, PTL

\* The provider of an answer is the one its strongest evidence names, although
\* four layers write it.
THEOREM ProviderOfBestEvidenceCorrect == Spec => []ProviderOfBestEvidence
  <1>1. ASSUME Inv PROVE ProviderOfBestEvidence
    <2> DEFINE Best(s, c) ==
                 LET f == FactsIn(s, target[c])
                     p == verdict[c].provider
                 IN  IF f.exact = "tor" THEN p = Nil
                     ELSE IF f.exact \in Feeds THEN p = f.exact
                     ELSE IF f.range THEN p = RangeFeed
                     ELSE IF Named(f.net) THEN p = f.net
                     ELSE IF rdns[c] # Nil THEN p = rdns[c]
                     ELSE p # Nil => p \in Brands /\ asn[c].tier = "rental"
    <2>1. SUFFICES ASSUME NEW c \in Callers, Answered(c)
                   PROVE  \E s \in seen[c] : Best(s, c)
      BY DEF ProviderOfBestEvidence
    <2>2. PICK s \in seen[c] :
            /\ s.ready \in BOOLEAN /\ FactsIn(s, target[c]) \in Facts
            /\ Possible(FactsIn(s, target[c]))
            /\ asn[c].tier \in Tiers /\ rdns[c] \in Labels
            /\ Final(s.ready, FactsIn(s, target[c]), asn[c].tier, rdns[c], verdict[c])
      BY <1>1, <2>1, AnsweredIs
    <2> DEFINE v == verdict[c]
               f == FactsIn(s, target[c])
               tier == asn[c].tier
               label == rdns[c]
    <2>3. /\ f.exact = "tor" => v.provider = Nil
          /\ f.exact \in Feeds => v.provider = f.exact
          /\ f.exact = Nil /\ f.range => v.provider = RangeFeed
          /\ f.exact = Nil /\ ~ f.range /\ Named(f.net) => v.provider = f.net
          /\ f.exact = Nil /\ ~ f.range /\ ~ Named(f.net) /\ label # Nil => v.provider = label
          /\ f.exact = Nil /\ ~ f.range /\ ~ Named(f.net) /\ label = Nil /\ v.provider # Nil =>
               v.provider \in Brands /\ tier = "rental"
      BY <2>2, FinalIs
    <2>4. f.exact \in Feeds \cup {Nil, "tor"}
      BY <2>2 DEF Facts
    <2> HIDE DEF f
    <2>5. Best(s, c)
      BY <2>3, <2>4 DEF f
    <2> QED
      BY <2>5
  <1> QED
    BY <1>1, Invariance, PTL

\* A requester's own address is never throttled nor marked as a lookup, whatever
\* form it is written in and seen from, because both values are canonical when they
\* are compared; anybody else's is marked.
THEOREM OwnIsUnmeteredCorrect == Spec => []OwnIsUnmetered
  <1>1. ASSUME Inv PROVE OwnIsUnmetered
    <2>1. ASSUME NEW c \in Callers
          PROVE  target[c].addr = ip[c].addr <=> target[c] = ip[c]
      BY <1>1, CanonicalEqual DEF Inv, TypeInv
    <2> QED
      BY <1>1, <2>1 DEF Inv, CallerInv, Metered, OwnIsUnmetered
  <1> QED
    BY <1>1, Invariance, PTL

\* The country that the edge names is told of nobody but the requester.
THEOREM CountryIsTheTargetsCorrect == Spec => []CountryIsTheTargets
  <1>1. Inv => CountryIsTheTargets
    BY DEF Inv, CallerInv, Located, CountryIsTheTargets
  <1> QED
    BY <1>1, Invariance, PTL

\* Once somebody has been told that there are lists, whoever comes later is
\* answered from lists, although snap and loadedAt are stored one by one.
THEOREM ToldMeansReadyCorrect == Spec => []ToldMeansReady
  <1>1. ASSUME Inv PROVE ToldMeansReady
    <2>1. SUFFICES ASSUME NEW c \in Callers, Answered(c), late[c]
                   PROVE  verdict[c].ready
      BY DEF ToldMeansReady
    <2>2. PICK s \in seen[c] :
            /\ s.ready \in BOOLEAN /\ FactsIn(s, target[c]) \in Facts
            /\ Possible(FactsIn(s, target[c]))
            /\ asn[c].tier \in Tiers /\ rdns[c] \in Labels
            /\ Final(s.ready, FactsIn(s, target[c]), asn[c].tier, rdns[c], verdict[c])
      BY <1>1, <2>1, AnsweredIs
    <2>3. verdict[c].ready = s.ready
      BY <2>2, FinalIs
    <2>4. s.ready
      BY <1>1, <2>1, <2>2 DEF Inv, CallerInv, Watched, Answered
    <2> QED
      BY <2>3, <2>4
  <1> QED
    BY <1>1, Invariance, PTL

=============================================================================
