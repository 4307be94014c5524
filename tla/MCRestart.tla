----------------------------- MODULE MCRestart -----------------------------
(***************************************************************************)
(* The webs of MCCrawler for crash and restart.                            *)
(***************************************************************************)
EXTENDS RestartInv

\* Both seeds link "b", whose links lead back and outgrow the levels.
MCUrls == {"a", "b", "c", "d", "e", "f"}
MCKey == [u \in MCUrls |-> u]
MCLinks == [u \in MCUrls |->
  CASE u = "a" -> <<"b", "c">>
    [] u = "b" -> <<"d", "c", "a", "f">>
    [] u = "e" -> <<"b">>
    [] u \in {"c", "d", "f"} -> <<>>]

\* The range of the configuration excludes "d".
MCRewrite == [u \in MCUrls |-> IF u = "d" THEN "none" ELSE u]

MCSeeds == <<[level |-> 0, url |-> "a"], [level |-> 0, url |-> "e"]>>

FromCheckpoint == {"start", "checkpoint"}
============================================================================
