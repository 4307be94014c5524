------------------------------- MODULE MCJson -------------------------------
(***************************************************************************)
(* Files for model-checking JsonLint: every word over a small alphabet, up *)
(* to a length, between a beginning and an end.                            *)
(***************************************************************************)
EXTENDS JsonGrammar

Words(alphabet, n) == UNION { [1 .. m -> alphabet] : m \in 0 .. n }
Files(before, alphabet, n, after) == { before \o w \o after : w \in Words(alphabet, n) }

Open == <<91, 34>>      \* ["
Shut == <<34, 93>>      \* "]

MCTexts ==
  \* { } [ ] , : "
  Files(<<>>, {123, 125, 91, 93, 44, 34}, 5, <<>>) \cup
  Files(<<123, 34, 34, 58>>, {123, 125, 91, 93, 44, 58, 34}, 4, <<125>>) \cup
  \* numbers
  Files(<<91>>, {45, 43, 46, 48, 49, 101, 44}, 5, <<93>>) \cup
  Files(<<123, 34, 34, 58, 123, 34, 34, 58>>, {125, 93, 44, 91, 34, 49}, 4, <<125>>) \cup
  Files(<<91, 123>>, {125, 93, 44, 34, 58, 49}, 5, <<93>>) \cup
  \* constants and space
  Files(<<91>>, {32, 10}, 2, <<116, 114, 117, 101, 44, 102, 97, 108, 115, 101, 44, 110, 117, 108, 108, 93>>) \cup
  \* comments: / * # nl sp 1 ]
  Files(<<91>>, {47, 42, 35, 10, 49, 44}, 4, <<93>>) \cup
  Files(<<>>, {47, 42, 35, 10}, 3, <<123, 125>>) \cup
  Files(<<91, 49, 101, 49>>, {47, 42, 32}, 4, <<93>>) \cup
  \* strings
  Files(Open, {34, 92, 117, 97, 110, 47, 10, 1}, 3, Shut) \cup
  \* UTF-8
  Files(Open, {97, 195, 225, 129, 255}, 3, Shut) \cup
  Files(Open, {193, 240, 129, 144}, 4, Shut) \cup
  \* \uXXXX
  { Open \o <<92, 117>> \o a \o b \o Shut :
      a \in Words({48, 49, 68, 100, 56, 99}, 4), b \in {<<>>, <<92, 117, 68, 67, 48, 49>>, <<92, 117, 48, 48, 52, 49>>} }

Config(initial, nesting, data, comments) ==
  [initial |-> initial, nesting |-> nesting, data |-> data,
   cComments |-> comments, yamlComments |-> comments]

MCConfigs == { Config(1, 0, 0, TRUE), Config(2, 2, 3, FALSE) }
\* Everything succeeds; no allocation does; the callback refuses some events;
\* structures that end find no room in their parents; no key can be copied.
MCEnvs == { Calm,
            [memory |-> [m \in DOMAIN Plenty |-> FALSE], refuse |-> {}],
            [memory |-> Plenty, refuse |-> {"INT", "STRING", "KEY", "ARRAY_BEGIN"}],
            [memory |-> [Plenty EXCEPT !.append = FALSE], refuse |-> {}],
            [memory |-> [Plenty EXCEPT !.copy = FALSE], refuse |-> {}] }

\* What the theorem about the tree supposes of the files.
ASSUME MCHypotheses == Shallow
=============================================================================
