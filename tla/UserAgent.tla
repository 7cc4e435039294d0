----------------------------- MODULE UserAgent -----------------------------
(***************************************************************************)
(* What ua.go and parseClientHints of main.go make of a User-Agent string  *)
(* and of the Sec-CH-UA headers.                                           *)
(*                                                                         *)
(* A string is abstracted to the words the code looks for in it: for a     *)
(* User-Agent, one per regular expression or alternative of one; for a     *)
(* brand, the words of its lower-case form.  Versions are left out, but a  *)
(* word with # is there only where a version number follows it.            *)
(***************************************************************************)
EXTENDS Sequences, Integers, FiniteSets

CONSTANTS
  UAWords,     \* UAWords[text]: the words a User-Agent string matches
  BrandWords,  \* BrandWords[brand]: the words the brand contains
  CutBrand,    \* CutBrand[brand]: the part of it before its first semicolon
  Grease,      \* the made-up brands that browsers mix into their lists
  Agents       \* programs: the text, brand, platform and mobile they send, the slug they
               \* are and the os and device they run on, whatever they send of it, and
               \* textSlug, what their text alone shows

\* The first row of a table all of whose words are there; "" without one.
FirstRow(table, words) ==
  LET rows == SelectSeq(table, LAMBDA row : row[1] \subseteq words)
  IN  IF rows = <<>> THEN "" ELSE rows[1][2]

-----------------------------------------------------------------------------
(* Client hints *)

Preferred == <<"Google Chrome", "Microsoft Edge", "Opera", "Brave", "Vivaldi", "Arc">>

\* Mutant: an entry is taken for GREASE when it has all three marks.
IsGreaseStrict(b) == {"not", "brand", "_"} \subseteq BrandWords[b]

IsGrease(b) == "not" \in BrandWords[b] /\ BrandWords[b] \cap {"brand", "_"} # {}

\* The brands of a Sec-CH-UA list.  An entry is split at its first semicolon, also
\* when that is inside the quotes.
Cut(list) == [i \in DOMAIN list |-> CutBrand[list[i]]]
Sent(list) == {Cut(list)[i] : i \in DOMAIN list}
Others(list) == {b \in Sent(list) : b # "Chromium" /\ ~ IsGrease(b)}

\* The first of the list s that is in S.
FirstIn(s, S) == s[CHOOSE i \in DOMAIN s : s[i] \in S /\ \A j \in DOMAIN s : s[j] \in S => i <= j]

\* The brand that names a browser: the most preferred one, else the first that is
\* neither Chromium nor GREASE, else Chromium.
ChooseBrand(list) ==
  IF \E i \in DOMAIN Preferred : Preferred[i] \in Sent(list) THEN FirstIn(Preferred, Sent(list))
  ELSE IF Others(list) # {} THEN FirstIn(Cut(list), Others(list))
  ELSE IF "Chromium" \in Sent(list) THEN "Chromium" ELSE ""

\* parseClientHints: the headers of a request, each possibly empty.
ParseClientHints(list, platform, mobile) ==
  [brand |-> ChooseBrand(list), platform |-> platform, mobile |-> mobile]

-----------------------------------------------------------------------------
(* parseUA *)

BotWords == {"bot", "crawler", "spider", "scrape", "curl", "wget", "httpie", "python-requests",
             "go-http-client", "java/", "okhttp", "libwww", "axios"}

\* detectBrowser: the order of its cases matters.
BrowserTable ==
  << <<{"Edg/"}, "edge">>, <<{"OPR/"}, "opera">>, <<{"Vivaldi/"}, "vivaldi">>,
     <<{"SamsungBrowser/"}, "samsung">>, <<{"Firefox/"}, "firefox">>,
     <<{"Chrome/"}, "chrome">>, <<{"Version/", "Safari/"}, "safari">>,
     <<{"Opera/"}, "opera">>, <<{"MSIE"}, "ie">> >>

\* Mutant: the kernel is looked for before the systems that are built on it.
LinuxFirst ==
  << <<{"iPhone"}, "ios">>, <<{"iPad"}, "ios">>, <<{"iPod"}, "ios">>,
     <<{"Linux"}, "linux">>, <<{"X11"}, "linux">>, <<{"Android #"}, "android">>,
     <<{"Mac OS X #"}, "macos">>, <<{"Windows NT #"}, "windows">>, <<{"CrOS"}, "chromeos">> >>

\* detectOS, as the slug.
OSTable ==
  << <<{"iPhone"}, "ios">>, <<{"iPad"}, "ios">>, <<{"iPod"}, "ios">>,
     <<{"Android #"}, "android">>, <<{"Mac OS X #"}, "macos">>,
     <<{"Windows NT #"}, "windows">>, <<{"CrOS"}, "chromeos">>,
     <<{"Linux"}, "linux">>, <<{"X11"}, "linux">> >>

\* brandToSlug.
BrandTable ==
  << <<{"edge"}, "edge">>, <<{"opera"}, "opera">>, <<{"vivaldi"}, "vivaldi">>,
     <<{"brave"}, "brave">>, <<{"arc"}, "arc">>, <<{"samsung"}, "samsung">>,
     <<{"firefox"}, "firefox">>, <<{"chrome"}, "chrome">>, <<{"safari"}, "safari">>,
     <<{"chromium"}, "chromium">> >>

EngineFor(slug) ==
  CASE slug \in {"chrome", "edge", "opera", "brave", "vivaldi", "arc", "samsung", "chromium"}
                          -> "Blink"
    [] slug = "firefox"   -> "Gecko"
    [] slug = "safari"    -> "WebKit"
    [] slug = "ie"        -> "Trident"
    [] OTHER              -> ""

OsSlug(platform) ==
  CASE platform \in {"macOS", "Mac OS X", "Mac"}                   -> "macos"
    [] platform \in {"iOS", "iPadOS"}                              -> "ios"
    [] platform = "Windows"                                        -> "windows"
    [] platform = "Android"                                        -> "android"
    [] platform = "Linux"                                          -> "linux"
    [] platform \in {"Chrome OS", "ChromeOS", "Chromium OS"}       -> "chromeos"
    [] OTHER                                                       -> ""

Device(words, mobile) ==
  IF mobile THEN "mobile"
  ELSE IF words \cap {"iPad", "Tablet"} # {} THEN "tablet"
  ELSE IF words \cap {"Mobile", "iPhone", "Android", "iPod"} # {} THEN "mobile"
  ELSE "desktop"

\* Browser stands for the name as well: a brand is a name of its own, and the
\* cascade gives a name with every slug.
ParseUA(text, hints) ==
  LET words == UAWords[text]
      slug == IF hints.brand # "" THEN FirstRow(BrandTable, BrandWords[hints.brand])
              ELSE FirstRow(BrowserTable, words)
  IN  IF text = ""
      THEN [browser |-> "", slug |-> "", engine |-> "", os |-> "", device |-> "", bot |-> FALSE]
      ELSE [browser |-> IF hints.brand # "" THEN hints.brand ELSE slug,
            slug |-> slug,
            engine |-> EngineFor(slug),
            os |-> IF hints.platform # "" THEN OsSlug(hints.platform) ELSE FirstRow(OSTable, words),
            device |-> Device(words, hints.mobile),
            bot |-> words \cap BotWords # {}]

-----------------------------------------------------------------------------
(* What requests come with *)

\* The lists an agent may send: its brand, Chromium and a made-up brand, in any
\* order, when it sends any.
Lists(a) ==
  IF a.brand = "" THEN {<<>>}
  ELSE UNION {LET brands == {a.brand, "Chromium", g}
              IN  {l \in [1..Cardinality(brands) -> brands] : \A b \in brands : \E i \in DOMAIN l : l[i] = b} :
              g \in Grease}

\* The browsers there are.  One is its brand or, to who sees its text only, what
\* the text shows; only made-up brands have a "not" in them, they call themselves
\* a brand, and none passes for a preferred one when it is cut.
ASSUME AgentsAssumption ==
  /\ \A a \in Agents :
       /\ a.textSlug = IF a.text = "" THEN "" ELSE FirstRow(BrowserTable, UAWords[a.text])
       /\ a.brand # "" => /\ a.text # "" /\ a.slug = FirstRow(BrandTable, BrandWords[a.brand])
                          /\ CutBrand[a.brand] = a.brand /\ "not" \notin BrandWords[a.brand]
  /\ CutBrand["Chromium"] = "Chromium"
  /\ \A g \in Grease : /\ {"not", "brand"} \subseteq BrandWords[g]
                       /\ \A i \in DOMAIN Preferred : CutBrand[g] # Preferred[i]

\* A brand that the split of the list hands on whole, or that is preferred.
Legible(a, list) ==
  \/ \E i \in DOMAIN Preferred : Preferred[i] = a.brand
  \/ \A i \in DOMAIN list : CutBrand[list[i]] = list[i]

\* What a request of an agent is parsed to: with hints, over HTTPS, and without.
Requests(a) ==
  {[agent |-> a, hinted |-> FALSE, legible |-> TRUE,
    ua |-> ParseUA(a.text, ParseClientHints(<<>>, "", FALSE))]}
  \cup
  {[agent |-> a, hinted |-> a.brand # "", legible |-> Legible(a, list),
    ua |-> ParseUA(a.text, ParseClientHints(list, a.platform, a.mobile))] : list \in Lists(a)}

=============================================================================
