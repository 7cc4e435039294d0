----------------------------- MODULE MCRequest -----------------------------
(* Request on a small instance: an address that is looked up, the requester's *)
(* own, and one of a private network.                                         *)
EXTENDS Request

\* What the lists may say of an address: nothing, an exit in a provider's net and
\* in a range, a relay alone and one among others in a range, the neighbours of
\* one provider with and without a range, those of several, a range alone.
MCFacts ==
  {NoFacts,
   [exact |-> "tor", relay |-> "", net |-> "mullvad", range |-> TRUE],
   [exact |-> "mullvad", relay |-> "located", net |-> "mullvad", range |-> FALSE],
   [exact |-> "mullvad", relay |-> "bare", net |-> "multi", range |-> TRUE],
   [exact |-> "", relay |-> "", net |-> "mullvad", range |-> FALSE],
   [exact |-> "", relay |-> "", net |-> "mullvad", range |-> TRUE],
   [exact |-> "", relay |-> "", net |-> "multi", range |-> FALSE],
   [exact |-> "", relay |-> "", net |-> "", range |-> TRUE]}

\* Lists that tell something of one address: of "you" any of these, of "me" only
\* that it is a relay.
MCFactsOf(a) ==
  IF a = "you" THEN MCFacts ELSE {f \in MCFacts : f.relay = "located"}

MCSnapshots ==
  {EmptySnapshot} \cup
  UNION {{[ready |-> TRUE, facts |-> [EmptySnapshot.facts EXCEPT ![a] = f]] : f \in MCFactsOf(a)}
           : a \in Routable}

=============================================================================
