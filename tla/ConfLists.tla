----------------------------- MODULE ConfLists ------------------------------
(***************************************************************************)
(* What sf_conf.c makes of a configuration file: the lists of policies,    *)
(* rules, captures, triggers and new spiders, and the preset variables.    *)
(* libxml2 is external: a document is a tree of nodes, each with its kind, *)
(* its attributes and its children.  Regular expressions compile.          *)
(***************************************************************************)
EXTENDS Sequences, SequencesExt

None == "none"   \* an attribute that is not given

OfKind(nodes, kind) == SelectSeq(nodes, LAMBDA n : n.kind = kind)

\* p->next = *policyptr: the last policy of the file comes first.
InsertHead(list, item) == <<item>> \o list

\* sf_conf_insert_tail, and precap->next = cap: the file's order.
InsertTail(list, item) == Append(list, item)

Caps(nodes) ==
  FoldLeft(LAMBDA list, n : InsertTail(list, [store |-> n.store_as, json |-> n.json_out]),
           <<>>, OfKind(nodes, "cap"))

NewSpiders(nodes) ==
  FoldLeft(LAMBDA list, n : InsertTail(list, [conf |-> n.config_file, url |-> n.url]),
           <<>>, OfKind(nodes, "new_spider"))

Triggers(nodes) ==
  FoldLeft(LAMBDA list, n : InsertTail(list, n.store_as), <<>>, OfKind(nodes, "trigger"))

\* sf_conf_pcre.
ReadPcre(n) ==
  [repeat   |-> n.repeat, uniq |-> n.uniq, json_new |-> n.json_new,
   caps     |-> Caps(n.children),
   spiders  |-> NewSpiders(n.children),
   triggers |-> Triggers(n.children)]

\* sf_conf_policy.
ReadPolicy(n) ==
  FoldLeft(LAMBDA list, p : InsertTail(list, ReadPcre(p)), <<>>, OfKind(n.children, "pcre"))

\* sf_conf_init.
ReadPolicies(root) ==
  FoldLeft(LAMBDA list, n : InsertHead(list, ReadPolicy(n)), <<>>, OfKind(root, "policy"))

\* sf_conf_vars: the variables of the file a node includes, then its own; the
\* included file includes nothing in turn.
VarsOf(n, Included) ==
  (IF n.include = None THEN <<>> ELSE OfKind(Included[n.include], "var"))
    \o OfKind(n.children, "var")

PresetVars(root, Included) ==
  FoldLeft(LAMBDA list, n : list \o VarsOf(n, Included), <<>>, OfKind(root, "vars"))

============================================================================
