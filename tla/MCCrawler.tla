----------------------------- MODULE MCCrawler -----------------------------
(***************************************************************************)
(* Small webs for model-checking Crawler.                                  *)
(***************************************************************************)
EXTENDS CrawlerInv

MCUrls == {"a", "b", "c", "d"}

\* Two pages link "e", one of them links a page with its own key and the other
\* one a page that the range excludes; the web outgrows a limit of 3.
MCWebUrls == MCUrls \cup {"e", "f", "g"}
MCWebKey  == [u \in MCWebUrls |-> IF u = "d" THEN "b" ELSE u]
MCWebLinks == [u \in MCWebUrls |->
  CASE u = "a" -> <<"b", "c">>
    [] u = "b" -> <<"e", "d">>
    [] u = "c" -> <<"e", "f">>
    [] u = "e" -> <<"g">>
    [] u \in {"d", "f", "g"} -> <<>>]
MCWebRange == [u \in MCWebUrls |-> IF u = "f" THEN "none" ELSE u]

\* All keys distinct.
MCKey == [u \in MCUrls |-> u]

\* Two pages link the same page, and the links lead back.
MCLinks == [u \in MCUrls |->
  CASE u = "a" -> <<"b", "c">>
    [] u = "b" -> <<"c", "d">>
    [] u = "c" -> <<"d", "a">>
    [] u = "d" -> <<>>]

\* The range of the configuration excludes nothing, or excludes "c".
MCRewrite == [u \in MCUrls |-> u]
MCRange   == [u \in MCUrls |-> IF u = "c" THEN "none" ELSE u]

MCOneSeed  == <<[level |-> 0, url |-> "a"]>>
MCTwoSeeds == <<[level |-> 0, url |-> "a"], [level |-> 0, url |-> "b"]>>
============================================================================
