------------------------------ MODULE Verdict ------------------------------
(***************************************************************************)
(* The layers that make a verdict: Check over the tables of one snapshot   *)
(* and the AS of the address, Augment over the name its reverse lookup and *)
(* its registry give, and classifyVerdict, the word a visitor reads.       *)
(*                                                                         *)
(* What a snapshot says of an address is a record:                         *)
(*   exact   the feed that publishes the address, or "tor", or ""          *)
(*   relay   "" without a relay record, "located" when the record has a    *)
(*           country, "bare" when it has none                              *)
(*   net     the provider of its /24 or /64, "multi", or ""                *)
(*   range   whether a published egress range contains it                  *)
(* The AS is one of Tiers: "none" when there is no AS number, "plain" when *)
(* datacenterASNs does not list it.  A reason is named by its layer.       *)
(***************************************************************************)
EXTENDS Integers, Sequences, SequencesExt

CONSTANTS
  Feeds,   \* the feeds of relays
  Brands   \* the labels that rDNS and WHOIS give

RangeFeed == "icloud-private-relay"

\* The empty string: no feed, no provider, no label.
Nil == ""

ASSUME VerdictAssumption ==
  /\ Feeds \cap Brands = {}
  /\ (Feeds \cup Brands) \cap {Nil, "tor", "multi", RangeFeed} = {}

Facts == [exact : Feeds \cup {Nil, "tor"}, relay : {Nil, "bare", "located"},
          net : Feeds \cup {Nil, "multi"}, range : BOOLEAN]

NoFacts == [exact |-> Nil, relay |-> Nil, net |-> Nil, range |-> FALSE]

\* What VpnSnapshot shows of the tables that buildSnapshot makes.
Possible(f) ==
  /\ f.relay # Nil <=> f.exact \in Feeds
  /\ f.exact \in Feeds => f.net \in {f.exact, "multi"}

Tiers == {"none", "plain", "hosting", "rental"}

Blank(ready) ==
  [vpn |-> FALSE, hosting |-> FALSE, tor |-> FALSE, proxy |-> FALSE, provider |-> Nil,
   relay |-> Nil, source |-> <<>>, ready |-> ready]

-----------------------------------------------------------------------------
(* Check *)

AppendSource(s, more) == IF Contains(s, more) THEN s ELSE Append(s, more)

\* The address is published: by a feed, with its relay, or as an exit.
ListHit(v, f) ==
  [v EXCEPT !.vpn = TRUE, !.source = <<"ip-list">>,
            !.tor = (f.exact = "tor"),
            !.provider = IF f.exact = "tor" THEN Nil ELSE f.exact,
            !.relay = IF f.exact = "tor" THEN Nil ELSE f.relay]

\* Its neighbours are, and by one provider.
NetHit(v, f) == [v EXCEPT !.vpn = TRUE, !.source = <<"ip-prefix">>, !.provider = f.net]

Listed(v, f) ==
  IF f.exact # Nil THEN ListHit(v, f)
  ELSE IF f.net \notin {Nil, "multi"} THEN NetHit(v, f)
  ELSE v

\* The ranges are not probed for an address that is published itself.
Ranged(v, f) ==
  IF f.exact # Nil \/ ~ f.range THEN v
  ELSE [v EXCEPT !.vpn = TRUE, !.proxy = TRUE, !.provider = RangeFeed,
                 !.source = AppendSource(v.source, "cidr")]

\* A rental network means a VPN, any other datacenter only that it is one.
Hosted(v, tier) ==
  IF tier = "rental" THEN [v EXCEPT !.vpn = TRUE, !.source = AppendSource(v.source, "asn")]
  ELSE IF tier = "hosting"
  THEN [v EXCEPT !.hosting = TRUE, !.source = AppendSource(v.source, "asn-hosting")]
  ELSE v

Check(ready, f, tier) == Hosted(Ranged(Listed(Blank(ready), f), f), tier)

-----------------------------------------------------------------------------
(* Augment *)

\* Mutant: the reverse name goes over the provider that the lists gave.
WithNameOver(v, label) ==
  IF v.tor \/ v.proxy \/ label = Nil THEN v
  ELSE [v EXCEPT !.vpn = TRUE, !.provider = label, !.source = AppendSource(v.source, "rdns")]

\* The reverse name of anything but an exit or a proxy; it names a provider
\* only where the lists did not.
WithName(v, label) ==
  IF v.tor \/ v.proxy \/ label = Nil THEN v
  ELSE [v EXCEPT !.vpn = TRUE,
                 !.provider = IF v.provider = Nil THEN label ELSE v.provider,
                 !.source = AppendSource(v.source, "rdns")]

\* Whether Augment goes on to the registry.
AsksWhois(v, tier) == ~ v.tor /\ ~ v.proxy /\ v.provider = Nil /\ tier = "rental"

WithRegistry(v, label) ==
  IF label = Nil THEN v
  ELSE [v EXCEPT !.vpn = TRUE, !.provider = label, !.source = AppendSource(v.source, "whois")]

-----------------------------------------------------------------------------
(* classifyVerdict *)

\* Mutant: a verdict without a flag is clean, whether or not there are lists.
StampHasty(v) ==
  IF v.tor THEN "Tor"
  ELSE IF v.proxy THEN "Private Relay"
  ELSE IF v.vpn THEN "VPN"
  ELSE IF v.hosting THEN "Hosting"
  ELSE "Clean"

Stamp(v) ==
  IF v.tor THEN "Tor"
  ELSE IF v.proxy THEN "Private Relay"
  ELSE IF v.vpn THEN "VPN"
  ELSE IF v.hosting THEN "Hosting"
  ELSE IF ~ v.ready THEN "Unknown"
  ELSE "Clean"

=============================================================================
