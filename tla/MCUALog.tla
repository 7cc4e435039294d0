------------------------------ MODULE MCUALog ------------------------------
(* UALog with the words of real User-Agent strings, shortened to a name each, *)
(* and strings that nothing is known of.                                      *)
EXTENDS UALog, TLC

Chrome == {"Chrome/", "Safari/"}
Android == {"Android", "Android #"}

\* The words that ua.go finds in the text of each.  An iPhone and an iPad say "like Mac
\* OS X", without a version; so do early Firefoxes of "Android".
MCUAWords ==
  "" :> {} @@ "u1" :> {} @@ "u2" :> {} @@ "u3" :> {} @@ "curl" :> {"curl"}
  @@ "chrome-mac" :> Chrome \cup {"Mac OS X #"}
  @@ "edge-win" :> Chrome \cup {"Windows NT #", "Edg/"}
  @@ "samsung" :> Chrome \cup Android \cup {"Linux", "Mobile", "SamsungBrowser/"}
  @@ "vivaldi-linux" :> Chrome \cup {"X11", "Linux", "Vivaldi/"}
  @@ "brave-tablet" :> Chrome \cup Android \cup {"Linux"}
  @@ "chrome-os" :> Chrome \cup {"X11", "CrOS"}
  @@ "chromium" :> Chrome \cup {"X11", "Linux"}
  @@ "chrome-ios" :> Chrome \cup {"iPhone", "Mobile"}
  @@ "firefox-android" :> Android \cup {"Mobile", "Firefox/"}
  @@ "firefox-early" :> {"Android", "Mobile", "Firefox/"}
  @@ "firefox-tablet" :> Android \cup {"Tablet", "Firefox/"}
  @@ "safari-ipad" :> {"iPad", "Version/", "Mobile", "Safari/"}
  @@ "safari-ipod" :> {"iPod", "Version/", "Mobile", "Safari/"}
  @@ "opera-old" :> {"Windows NT #", "Opera/", "Version/"}
  @@ "ie" :> {"Windows NT #", "MSIE"}

MCTexts == DOMAIN MCUAWords

MCBrandWords ==
  "Google Chrome" :> {"chrome"} @@ "Microsoft Edge" :> {"edge"} @@ "Vivaldi" :> {"vivaldi"}
  @@ "Brave" :> {"brave"} @@ "Samsung Internet" :> {"samsung"} @@ "Chromium" :> {"chromium"}
  @@ "Not_A Brand" :> {"not", "_", "brand"} @@ "Not.A/Brand" :> {"not", "brand"}
  @@ "Not;A=Brand" :> {"not", "brand"} @@ "Not" :> {"not"}

MCCutBrand == [b \in DOMAIN MCBrandWords |-> IF b = "Not;A=Brand" THEN "Not" ELSE b]

Agent(text, brand, platform, mobile, slug, textSlug, os, device) ==
  [text |-> text, brand |-> brand, platform |-> platform, mobile |-> mobile,
   slug |-> slug, textSlug |-> textSlug, os |-> os,
   device |-> device]

Silent(text, slug, os, device) == Agent(text, "", "", FALSE, slug, slug, os, device)

MCAgents ==
  {Agent("chrome-mac", "Google Chrome", "macOS", FALSE, "chrome", "chrome", "macos", "desktop"),
   Agent("edge-win", "Microsoft Edge", "Windows", FALSE, "edge", "edge", "windows", "desktop"),
   Agent("samsung", "Samsung Internet", "Android", TRUE, "samsung", "samsung", "android", "mobile"),
   Agent("vivaldi-linux", "Vivaldi", "Linux", FALSE, "vivaldi", "vivaldi", "linux", "desktop"),
   Agent("brave-tablet", "Brave", "Android", FALSE, "brave", "chrome", "android", "tablet"),
   Agent("chrome-os", "Google Chrome", "Chrome OS", FALSE, "chrome", "chrome", "chromeos", "desktop"),
   Agent("chromium", "Chromium", "Linux", FALSE, "chromium", "chrome", "linux", "desktop"),
   Silent("chrome-ios", "chrome", "ios", "mobile"), Silent("firefox-android", "firefox", "android", "mobile"),
   Silent("firefox-early", "firefox", "android", "mobile"),
   Silent("firefox-tablet", "firefox", "android", "tablet"), Silent("safari-ipod", "safari", "ios", "mobile"),
   Silent("safari-ipad", "safari", "ios", "tablet"), Silent("opera-old", "opera", "windows", "desktop"),
   Silent("ie", "ie", "windows", "desktop"), Silent("curl", "", "", "desktop"), Silent("", "", "", ""),
   Silent("u1", "", "", "desktop"), Silent("u2", "", "", "desktop"), Silent("u3", "", "", "desktop")}

=============================================================================
