---------------------------- MODULE JsonPrinter -----------------------------
(***************************************************************************)
(* The printer of libjson (json.c): one event of a document at a time      *)
(* becomes bytes.  What the caller must get right is the order of the      *)
(* events; the printer puts commas, indentation and escapes.               *)
(***************************************************************************)
EXTENDS Naturals, Integers, Sequences, SequencesExt

Ends == {"ARRAY_END", "OBJECT_END"}

\* json_print_init; the indent string is one tab.
NewPrinter == [level |-> 0, afterKey |-> FALSE, enter |-> TRUE, first |-> TRUE]

HexDigit(d) == IF d < 10 THEN 48 + d ELSE 87 + d

\* character_escape: \u00XX unless there is a letter for it.
CharacterEscape == [c \in 0 .. 255 |->
  CASE c = 8  -> <<92, 98>>  [] c = 9  -> <<92, 116>> [] c = 10 -> <<92, 110>>
    [] c = 12 -> <<92, 102>> [] c = 13 -> <<92, 114>> [] c = 34 -> <<92, 34>>
    [] c \in ((0 .. 31) \ {8, 9, 10, 12, 13}) \cup (127 .. 255)
         -> <<92, 117, 48, 48, HexDigit(c \div 16), HexDigit(c % 16)>>
    [] OTHER -> <<c>>]

\* Faulty: the backslash, which lies beyond the table, is forgotten.
StringEscapeTable == [c \in 0 .. 255 |-> IF c < 36 THEN CharacterEscape[c] ELSE <<c>>]

\* print_string looks the first 36 characters up, and not 127 and beyond.
StringEscape == [c \in 0 .. 255 |->
  CASE c < 36 -> CharacterEscape[c] [] c = 92 -> <<92, 92>> [] OTHER -> <<c>>]

\* print_string, print_binary_string.
Quoted(data, escape) ==
  <<34>> \o FoldLeft(LAMBDA out, c : out \o escape[c], <<>>, data) \o <<34>>

PrintIndent(level) == <<10>> \o [i \in 1 .. level |-> 9]

\* The text of an event itself, in the switch of json_print_mode.
Body(event, pretty) ==
  CASE event.type = "ARRAY_BEGIN" -> <<91>>
    [] event.type = "OBJECT_BEGIN" -> <<123>>
    [] event.type = "ARRAY_END" -> <<93>>
    [] event.type = "OBJECT_END" -> <<125>>
    [] event.type \in {"INT", "FLOAT"} -> event.data
    [] event.type = "NULL" -> <<110, 117, 108, 108>>
    [] event.type = "TRUE" -> <<116, 114, 117, 101>>
    [] event.type = "FALSE" -> <<102, 97, 108, 115, 101>>
    [] event.type = "KEY" -> Quoted(event.data, StringEscape) \o (IF pretty THEN <<58, 32>> ELSE <<58>>)
    [] event.type = "STRING" -> Quoted(event.data, StringEscape)
    [] event.type = "BSTRING" -> Quoted(event.data, CharacterEscape)

\* json_print_mode: json_print_raw and json_print_pretty.
PrintMode(printer, event, pretty) ==
  LET ending == event.type \in Ends
      begins == event.type \in {"ARRAY_BEGIN", "OBJECT_BEGIN"}
      level  == CASE begins -> printer.level + 1 [] ending -> printer.level - 1 [] OTHER -> printer.level
      comma  == ~printer.enter /\ ~printer.afterKey /\ ~ending
      indent == /\ pretty
                /\ IF ending THEN ~printer.enter ELSE comma \/ (printer.enter /\ ~printer.first)
  IN [printer |-> [level |-> level, afterKey |-> event.type = "KEY", enter |-> begins, first |-> FALSE],
      text |-> (IF comma THEN <<44>> ELSE <<>>)
               \o (IF indent THEN PrintIndent(IF ending THEN level ELSE printer.level) ELSE <<>>)
               \o Body(event, pretty)]

\* The events of a document, printed from json_print_init on.
PrintAll(events, pretty) ==
  FoldLeft(LAMBDA out, event :
             LET next == PrintMode(out.printer, event, pretty)
             IN [next EXCEPT !.text = out.text \o @],
           [printer |-> NewPrinter, text |-> <<>>], events).text

=============================================================================
