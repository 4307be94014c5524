------------------------------ MODULE JsonLint ------------------------------
(***************************************************************************)
(* jsonlint.c on one file: its bytes go into the parser, whose events go   *)
(* to the callback that builds a tree (--tree).  The printer (--format)    *)
(* sees nothing but the same events, so what it prints is a function of    *)
(* them.                                                                   *)
(***************************************************************************)
EXTENDS JsonParser, JsonPrinter, JsonDom

CONSTANTS Texts,        \* the files
          Configs,      \* settings of json_config
          Envs          \* what may fail: allocations, and the events the callback refuses

ConfigType == [initial : Nat, nesting : Nat, data : Nat, cComments : BOOLEAN, yamlComments : BOOLEAN]

\* Which allocations succeed while a byte is read: the parser's own, and those
\* of the tree whose failure stops nothing.
Memory == [grow : BOOLEAN, push : BOOLEAN, append : BOOLEAN, copy : BOOLEAN]

ASSUME LintAssumption ==
  /\ Texts \subseteq Seq(Byte)
  /\ Configs \subseteq ConfigType
  /\ Envs \subseteq [memory : Memory, refuse : SUBSET STRING]

VARIABLES text, pos, parser, dom, verdict

vars == <<text, pos, parser, dom, verdict>>

Init == /\ text \in Texts
        /\ \E config \in Configs : parser = NewParser(config)
        /\ pos = 0
        /\ dom = NewDom
        /\ verdict = "reading"

\* The events since `told' of them, to json_parser_dom_callback.
Build(told, memory, events) ==
  FoldLeft(LAMBDA d, e : DomCallback(d, memory, e), dom, SubSeq(events, told + 1, Len(events)))

\* process_file: the next byte of the file.
ReadByte(env) ==
  /\ verdict = "reading"
  /\ pos < Len(text)
  /\ parser' = Feed(parser, env, text[pos + 1])
  /\ dom' = Build(Len(parser.events), env.memory, parser'.events)
  /\ pos' = IF parser'.ret = "SUCCESS" THEN pos + 1 ELSE pos
  /\ verdict' = IF parser'.ret = "SUCCESS" THEN "reading" ELSE "error"
  /\ UNCHANGED text

\* The end of the file, in do_verify, do_parse, do_format and do_tree.
EndOfFile ==
  /\ verdict = "reading"
  /\ pos = Len(text)
  /\ verdict' = IF IsDone(parser) THEN "valid" ELSE "syntax error"
  /\ UNCHANGED <<text, pos, parser, dom>>

Next == (\E env \in Envs : ReadByte(env)) \/ EndOfFile

Spec == Init /\ [][Next]_vars

-----------------------------------------------------------------------------
(* Properties.  json_parser_is_done does not look at the comment states.    *)

InComment == parser.state \in {"C1", "C2", "C3", "Y1"}

\* The terminator of do_callback_withbuf and the four bytes of a decoded
\* character stay inside the buffer, through every growth and every limit.
BufferRoom ==
  /\ Len(parser.buffer) < parser.bufferSize
  /\ parser.config.data > 0 => parser.bufferSize <= parser.config.data
  /\ Len(parser.stack) <= parser.stackSize

\* Everything succeeds.
Plenty == [grow |-> TRUE, push |-> TRUE, append |-> TRUE, copy |-> TRUE]
Calm == [memory |-> Plenty, refuse |-> {}]

Reread(printed) ==
  FoldLeft(LAMBDA p, c : Then(p, Feed(p, Calm, c)),
           NewParser([parser.config EXCEPT !.data = 0]), printed)

\* What the printer makes of the events, indented or not, parses again, and to
\* the same events: their order is one the printer is made for, and its commas,
\* escapes and numbers are the parser's.
PrintsBack ==
  (verdict = "valid" /\ ~InComment) =>
    \A pretty \in BOOLEAN :
      LET again == Reread(PrintAll(parser.events, pretty))
      IN again.ret = "SUCCESS" /\ IsDone(again) /\ again.events = parser.events

\* The stack of the tree need not grow: the parser's limit on nesting keeps it
\* below its first size, or the file opens no more structures.  Where it grows,
\* dom_push allocates too little for it.
Shallow ==
  \A t \in Texts, config \in Configs :
    \/ config.nesting \in 1 .. DomStack - 1
    \/ Cardinality({i \in 1 .. Len(t) : t[i] \in {91, 123}}) <= DomStack

\* The callback never uses a key it has freed, an empty stack, or more stack
\* than it allocated, whichever allocation fails; and the tree holds, at every
\* moment, the events so far, each element under its own key and in its own
\* structure, until append finds no memory for a structure that ends or for
\* the copy of a key: neither stops the parser, and the document goes on
\* without them.
TreeInStep == dom.sound /\ (dom.lost \/ TreeEvents(dom) = parser.events)

=============================================================================
