----------------------------- MODULE VarTable -------------------------------
(***************************************************************************)
(* The variables of sf_var.c: a circular doubly linked list of named nodes *)
(* (sf_linkmodule.c) that a spider reaches by its var_handle.  Nodes are   *)
(* numbered as they are allocated; they are never freed.  A table is a     *)
(* record of sequences indexed by node; the handles are kept by the        *)
(* spiders and passed by value.                                            *)
(***************************************************************************)
EXTENDS Integers, Sequences

NULL == 0

String == STRING   \* char *
Blank  == ""       \* the name of a variable that was given none

ASSUME StringAssumption == Blank \in String

EmptyTable == [next |-> <<>>, prev |-> <<>>, name |-> <<>>, text |-> <<>>, born |-> <<>>]

Nodes(t) == 1 .. Len(t.name)

\* sf_var_create.  born is a history field: the page the variable was set on.
VarCreate(t, name, text, born) ==
  [next |-> Append(t.next, NULL), prev |-> Append(t.prev, NULL),
   name |-> Append(t.name, name), text |-> Append(t.text, text),
   born |-> Append(t.born, born)]

\* DualLinkAppend and DualLinkRemove on a table and a handle.
LinkAppend(t, root, item) ==
  IF root = NULL
  THEN [table |-> [t EXCEPT !.next[item] = item, !.prev[item] = item], root |-> item]
  ELSE LET last == t.prev[root] IN
       [table |-> [t EXCEPT !.next = [@ EXCEPT ![item] = root, ![last] = item],
                            !.prev = [@ EXCEPT ![item] = last, ![root] = item]],
        root |-> root]

LinkRemove(t, root, item) ==
  LET before == t.prev[item]
      after  == t.next[item]
      cut    == [t EXCEPT !.next[before] = after, !.prev[after] = before]
  IN [table |-> cut,
      root |-> IF root # item THEN root
               ELSE IF cut.next[item] = item THEN NULL ELSE cut.next[item]]

----------------------------------------------------------------------------

\* The nodes a walk from root visits before it is back at root; a walk that
\* never is has visited every node it will ever see after Len(t.name) steps.
Walk(t, root) ==
  LET at[i \in 0 .. Len(t.name)] == IF i = 0 THEN root ELSE t.next[at[i - 1]]
      back == {i \in 1 .. Len(t.name) : at[i] = root}
      size == IF back = {} THEN Len(t.name) ELSE CHOOSE i \in back : \A j \in back : i <= j
  IN IF root = NULL THEN <<>> ELSE [i \in 1 .. size |-> at[i - 1]]

\* sf_var_search: the first node of that name, or NULL.  (It falls off its end
\* without a value when the handle is NULL; the register then holds NULL.)
VarSearch(t, root, name) ==
  LET seen == Walk(t, root)
      hits == {i \in 1 .. Len(seen) : t.name[seen[i]] = name}
  IN IF hits = {} THEN NULL ELSE seen[CHOOSE i \in hits : \A j \in hits : i <= j]

\* Does a search for a name that is not there come back?
SearchEnds(t, root) ==
  root # NULL => \E i \in 1 .. Len(Walk(t, root)) : t.next[Walk(t, root)[i]] = root

VarDelete(t, root, name) ==
  LET v == VarSearch(t, root, name)
  IN IF v = NULL THEN [table |-> t, root |-> root] ELSE LinkRemove(t, root, v)

\* A faulty variant: the new node joins the old one.
VarInsertTwice(t, root, name, text, born) ==
  LET made == VarCreate(t, name, text, born)
  IN LinkAppend(made, root, Len(made.name))

\* sf_var_create and sf_var_insert: a node of the same name makes way first.
VarInsert(t, root, name, text, born) ==
  LET made == VarCreate(t, name, text, born)
      cut  == VarDelete(made, root, name)
  IN LinkAppend(cut.table, cut.root, Len(made.name))

----------------------------------------------------------------------------
(* What a table of variables is.                                           *)

Ring == INSTANCE DualLink WITH Node <- Nat \ {NULL}, Null <- NULL

IsTable(t) ==
  /\ t \in [next : Seq(Nat), prev : Seq(Nat), name : Seq(String), text : Seq(String),
            born : Seq(Nat)]
  /\ Len(t.next) = Len(t.name) /\ Len(t.prev) = Len(t.name)
  /\ Len(t.text) = Len(t.name) /\ Len(t.born) = Len(t.name)

\* The links of the first n nodes stay among them.
Closed(t, n) == \A v \in 1 .. n : t.next[v] \in 1 .. n /\ t.prev[v] \in 1 .. n

\* From root the table has the variables w, in this order, no two of one name.
Holds(t, root, w) ==
  /\ Ring!IsRing(t.next, t.prev, root, w)
  /\ w \in Seq(Nodes(t)) /\ Len(w) <= Len(t.name)
  /\ \A i, j \in 1 .. Len(w) : t.name[w[i]] = t.name[w[j]] => i = j

============================================================================
