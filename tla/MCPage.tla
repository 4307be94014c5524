------------------------------ MODULE MCPage --------------------------------
(***************************************************************************)
(* Configurations for model-checking Page.                                 *)
(***************************************************************************)
EXTENDS PageInv

CapNode(store_as, json_out) == [kind |-> "cap", store_as |-> store_as, json_out |-> json_out]

PcreNode(repeat, json_new, uniq_, children) ==
  [kind |-> "pcre", repeat |-> repeat, json_new |-> json_new, uniq |-> uniq_,
   children |-> children]

PolicyNode(children) == [kind |-> "policy", children |-> children]

VarNode(name, value) == [kind |-> "var", name |-> name, value |-> value]

\* The main configuration captures x and z, opens an element and starts the
\* spider "sub" with a url, twice; then it captures y, which is preset, prints
\* x and y, and runs a program that sets z if y is new.  "sub" has a preset
\* variable x of its own, captures x and starts nothing; its
\* second policy, which goes first, never applies its only rule.
MCConfs == {"main", "sub"}

MCDocument == [c \in MCConfs |->
  IF c = "main"
  THEN << [kind |-> "vars", include |-> "common", children |-> <<>>],
          PolicyNode(<<
            PcreNode(2, TRUE, None,
                 <<CapNode("x", <<>>), CapNode("z", <<>>),
                   [kind |-> "new_spider", config_file |-> "sub", url |-> TRUE]>>),
            PcreNode(1, FALSE, "y",
                 <<CapNode("y", <<"x", "y">>), [kind |-> "trigger", store_as |-> "z"]>>)>>) >>
  ELSE << PolicyNode(<<PcreNode(1, FALSE, None, <<CapNode("x", <<"x">>)>>)>>),
          PolicyNode(<<PcreNode(0, FALSE, None, <<>>)>>),
          [kind |-> "vars", include |-> None, children |-> <<VarNode("x", "p")>>] >>]

MCIncluded == [f \in {"common"} |-> <<VarNode("y", "p")>>]

MCUrlCount == [c \in MCConfs |-> IF c = "main" THEN 9 ELSE 1]
MCFeedback == [c \in MCConfs |-> c = "main"]
MCText == [x |-> {"p"}, y |-> {"p", "q"}, z |-> {"p"}]

\* What the theorems about pages suppose of the configurations.
ASSUME MCHypotheses ==
  /\ \E rank \in [Confs -> 0 .. 1] : NestsDown(rank)
  /\ UrlsAgree /\ Named
============================================================================
