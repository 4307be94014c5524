------------------------------ MODULE JsonOut -------------------------------
(***************************************************************************)
(* The JSON output of sf_json.c: one printer (json_print_mode of libjson)  *)
(* and one buffer for the whole process.  sf_json_flush is an empty macro: *)
(* nothing leaves the buffer.                                              *)
(*                                                                         *)
(* What is printed is a sequence of tokens, each of length 1; a key stands *)
(* for its string and the colon.  Of the buffer the model keeps the length *)
(* and what a reader of JSON makes of it: a stack of what the reader is    *)
(* inside of, innermost last, with what it expects there.                  *)
(***************************************************************************)
EXTENDS Integers, Sequences, SequencesExt

CONSTANT JsonMax     \* JSON_MAX_BUF_LEN, in tokens

ASSUME JsonAssumption == JsonMax \in Nat

Closing == {"]", "}"}

Start == <<"doc">>
Bad   == <<"bad">>

\* Entering or completing a value moves the innermost expectation on.
AfterValue == [doc |-> "end", first |-> "more", item |-> "more", member |-> "members"]

Read(stack, token) ==
  LET top == Last(stack)
      On(x) == Append(Front(stack), x)
      takesValue == top \in DOMAIN AfterValue
  IN CASE token = "[" /\ takesValue -> On(AfterValue[top]) \o <<"first">>
       [] token = "{" /\ takesValue -> On(AfterValue[top]) \o <<"names">>
       [] token = "value" /\ takesValue -> On(AfterValue[top])
       [] token = "key" /\ top \in {"names", "name"} -> On("member")
       [] token = "," /\ top = "more" -> On("item")
       [] token = "," /\ top = "members" -> On("name")
       [] token = "]" /\ top \in {"first", "more"} -> Front(stack)
       [] token = "}" /\ top \in {"names", "members"} -> Front(stack)
       [] OTHER -> Bad

\* json_print_init, BUF_CLEAR.
EmptyBuf == [len |-> 0, read |-> Start]
EmptyOut == [buf |-> EmptyBuf, enter |-> TRUE, afterkey |-> FALSE]

\* sf_json_print_buf_callback: what does not fit is dropped.
Put(buf, token) ==
  IF buf.len + 1 > JsonMax THEN buf
  ELSE [len |-> buf.len + 1, read |-> Read(buf.read, token)]

\* json_print_raw.
PrintField(out, token) ==
  LET comma == ~out.enter /\ ~out.afterkey /\ token \notin Closing
  IN [buf |-> Put(IF comma THEN Put(out.buf, ",") ELSE out.buf, token),
      enter |-> token \in {"[", "{"},
      afterkey |-> token = "key"]

PrintFields(out, tokens) ==
  LET put[i \in 0 .. Len(tokens)] == IF i = 0 THEN out ELSE PrintField(put[i - 1], tokens[i])
  IN put[Len(tokens)]

\* sf_json_free_print_buf clears the buffer and leaves the printer alone.
ClearBuf(out) == [out EXCEPT !.buf = EmptyBuf]

\* The buffer is the beginning of a JSON document, or all of one.
IsJsonPrefix(buf) == buf.read # Bad
IsJson(buf)       == buf.read = <<"end">>

============================================================================
