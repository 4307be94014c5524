----------------------------- MODULE JsonParser -----------------------------
(***************************************************************************)
(* The parser of libjson (json.c): one byte moves it from state to state   *)
(* by a table, and an action of the table may call back with an event.     *)
(* Bytes are numbers.  A parser is a record; `events' is what the callback *)
(* has accepted, and `ret' what the last call returned.                    *)
(*                                                                         *)
(* A transition is a triple <<states, classes, next>>; what no triple      *)
(* covers is the error state.  A call of the world that may fail, the      *)
(* allocator or the callback, fails as `env' says.                         *)
(***************************************************************************)
EXTENDS Naturals, Sequences

CONSTANTS DefaultStack,     \* LIBJSON_DEFAULT_STACK_SIZE
          DefaultBuffer     \* LIBJSON_DEFAULT_BUFFER_SIZE

ASSUME DefaultsAssumption == {DefaultStack, DefaultBuffer} \subseteq Nat \ {0}

Byte == 0 .. 255

-----------------------------------------------------------------------------
(* Character classes. *)

Lowercase == {"a", "b", "c", "d", "e", "f", "l", "n", "r", "s", "t", "u"}
Digits    == {"ZERO", "DIGIT"}
HexDigits == Digits \cup {"a", "b", "c", "d", "e", "f", "ABCDF", "E"}
White     == {"SPACE", "NL", "WHITE"}
Classes   == White \cup HexDigits \cup Lowercase
             \cup {"LCURB", "RCURB", "LSQRB", "RSQRB", "COLON", "COMMA", "QUOTE",
                   "BACKS", "SLASH", "PLUS", "MINUS", "DOT", "OTHER", "STAR", "HASH"}

\* character_class, as pairs of bytes and their class.
ByteClasses ==
  { <<{32}, "SPACE">>, <<{10}, "NL">>, <<{9, 13}, "WHITE">>,
    <<(0 .. 31) \ {9, 10, 13}, "ERROR">>,
    <<{123}, "LCURB">>, <<{125}, "RCURB">>, <<{91}, "LSQRB">>, <<{93}, "RSQRB">>,
    <<{58}, "COLON">>, <<{44}, "COMMA">>, <<{34}, "QUOTE">>, <<{92}, "BACKS">>,
    <<{47}, "SLASH">>, <<{43}, "PLUS">>, <<{45}, "MINUS">>, <<{46}, "DOT">>,
    <<{48}, "ZERO">>, <<49 .. 57, "DIGIT">>,
    <<{97}, "a">>, <<{98}, "b">>, <<{99}, "c">>, <<{100}, "d">>, <<{101}, "e">>,
    <<{102}, "f">>, <<{108}, "l">>, <<{110}, "n">>, <<{114}, "r">>, <<{115}, "s">>,
    <<{116}, "t">>, <<{117}, "u">>,
    <<{65, 66, 67, 68, 70}, "ABCDF">>, <<{69}, "E">>, <<{42}, "STAR">>, <<{35}, "HASH">> }

CharacterClass ==
  [c \in 0 .. 127 |-> IF \E e \in ByteClasses : c \in e[1]
                      THEN (CHOOSE e \in ByteClasses : c \in e[1])[2]
                      ELSE "OTHER"]

-----------------------------------------------------------------------------
(* The transition table. *)

Structural == {"GO", "OK", "_O", "_K", "CO", "_V", "_A"}
NumberEnds == {"Z0", "I0", "R2", "X3"}
States     == Structural \cup NumberEnds
              \cup {"_S", "E0", "U1", "U2", "U3", "U4", "M0", "R1", "X1", "X2",
                    "T1", "T2", "T3", "F1", "F2", "F3", "F4", "N1", "N2", "N3",
                    "C1", "C2", "C3", "Y1", "D1", "D2"}

StructureMoves ==
  { <<{s}, White, s>> : s \in Structural } \cup
  { <<NumberEnds, White, "OK">>,
    <<{"GO", "_V", "_A"}, {"LCURB"}, "OB">>, <<{"GO", "_V", "_A"}, {"LSQRB"}, "AB">>,
    <<{"OK", "_O"} \cup NumberEnds, {"RCURB"}, "OE">>,
    <<{"OK", "_A"} \cup NumberEnds, {"RSQRB"}, "AE">>,
    <<{"OK"} \cup NumberEnds, {"COMMA"}, "SP">>,
    <<{"CO"}, {"COLON"}, "KS">>,
    <<{"_O", "_K", "_V", "_A"}, {"QUOTE"}, "_S">>,
    <<{"_V", "_A"}, {"MINUS"}, "MX">>, <<{"_V", "_A"}, {"ZERO"}, "ZX">>,
    <<{"_V", "_A"}, {"DIGIT"}, "IX">>,
    <<{"_V", "_A"}, {"t"}, "T1">>, <<{"_V", "_A"}, {"f"}, "F1">>, <<{"_V", "_A"}, {"n"}, "N1">> }

StringMoves ==
  { <<{"_S"}, Classes \ {"NL", "WHITE", "QUOTE", "BACKS"}, "_S">>,
    <<{"_S"}, {"QUOTE"}, "SE">>, <<{"_S"}, {"BACKS"}, "E0">>,
    <<{"E0"}, {"QUOTE", "BACKS", "SLASH", "b", "f", "n", "r", "t"}, "_S">>,
    <<{"E0"}, {"u"}, "U1">>,
    <<{"U1"}, HexDigits, "U2">>, <<{"U2"}, HexDigits, "U3">>,
    <<{"U3"}, HexDigits, "U4">>, <<{"U4"}, HexDigits, "UC">>,
    <<{"D1"}, {"BACKS"}, "D2">>, <<{"D2"}, {"u"}, "U1">> }

NumberMoves ==
  { <<{"M0"}, {"ZERO"}, "Z0">>, <<{"M0"}, {"DIGIT"}, "I0">>, <<{"I0"}, Digits, "I0">>,
    <<{"Z0", "I0"}, {"DOT"}, "DF">>, <<{"R1", "R2"}, Digits, "R2">>,
    <<{"I0"}, {"e", "E"}, "DE">>, <<{"R2"}, {"e", "E"}, "X1">>,
    <<{"X1"}, {"PLUS", "MINUS"}, "X2">>, <<{"X1", "X2", "X3"}, Digits, "X3">> }

ConstantMoves ==
  { <<{"T1"}, {"r"}, "T2">>, <<{"T2"}, {"u"}, "T3">>, <<{"T3"}, {"e"}, "TR">>,
    <<{"F1"}, {"a"}, "F2">>, <<{"F2"}, {"l"}, "F3">>, <<{"F3"}, {"s"}, "F4">>,
    <<{"F4"}, {"e"}, "FA">>,
    <<{"N1"}, {"u"}, "N2">>, <<{"N2"}, {"l"}, "N3">>, <<{"N3"}, {"l"}, "NU">> }

\* A number with an exponent must not be followed by a comment at once.
CommentMoves ==
  { <<Structural \cup (NumberEnds \ {"X3"}), {"SLASH"}, "CB">>,
    <<Structural \cup (NumberEnds \ {"X3"}), {"HASH"}, "YB">>,
    <<{"C1"}, {"STAR"}, "C2">>, <<{"C2"}, Classes \ {"STAR"}, "C2">>,
    <<{"C2", "C3"}, {"STAR"}, "C3">>, <<{"C3"}, Classes \ {"STAR", "SLASH"}, "C2">>,
    <<{"C3"}, {"SLASH"}, "CE">>,
    <<{"Y1"}, Classes \ {"NL"}, "Y1">>, <<{"Y1"}, {"NL"}, "CE">> }

Moves == StructureMoves \cup StringMoves \cup NumberMoves \cup ConstantMoves \cup CommentMoves

StateTransition ==
  [s \in States |-> [k \in Classes |->
     LET fits == { m \in Moves : s \in m[1] /\ k \in m[2] }
     IN IF fits = {} THEN "__" ELSE (CHOOSE m \in fits : TRUE)[3]]]

\* buffer_policy_table: what of a number, a string or a \u escape is kept.
BufferPolicy(s, k) ==
  LET next == StateTransition[s][k]
  IN CASE s = "E0" /\ next = "_S" -> "escape"
       [] s = "_S" /\ next = "_S" -> "append"
       [] next \in {"U2", "U3", "U4", "UC"} -> "append"
       [] next \in {"MX", "ZX", "IX", "DF", "DE", "Z0", "I0", "R2", "X1", "X2", "X3"} -> "append"
       [] OTHER -> "ignore"
-----------------------------------------------------------------------------
(* The parser. *)

Scalars == {"KEY", "STRING", "FLOAT", "INT", "NULL", "TRUE", "FALSE"}

StackSize(config) == IF config.nesting > 0 THEN config.nesting ELSE DefaultStack

BufferSize(config) ==
  LET size == IF config.initial > 0 THEN config.initial ELSE DefaultBuffer
  IN IF config.data > 0 /\ size > config.data THEN config.data ELSE size

\* json_parser_init.
NewParser(config) ==
  [config |-> config, state |-> "GO", saved |-> "GO", expectingKey |-> FALSE,
   left |-> 0, multi |-> 0, type |-> "NONE",
   stack |-> <<>>, stackSize |-> StackSize(config),
   buffer |-> <<>>, bufferSize |-> BufferSize(config),
   events |-> <<>>, ret |-> "SUCCESS"]

Raise(p, error) == [p EXCEPT !.ret = error]

\* CHK: what comes after a failed call is not done.
Then(p, q) == IF p.ret = "SUCCESS" THEN q ELSE p

\* state_push, state_grow: a parser with a limit on nesting does not grow.
StatePush(p, env, mode) ==
  LET full  == Len(p.stack) >= p.stackSize
      grown == IF full THEN [p EXCEPT !.stackSize = 2 * @] ELSE p
  IN CASE full /\ p.config.nesting # 0 -> Raise(p, "NESTING_LIMIT")
       [] full /\ p.config.nesting = 0 /\ ~env.memory.grow -> Raise(p, "NO_MEMORY")
       [] OTHER -> [grown EXCEPT !.stack = Append(@, mode)]

\* The element goes before it is compared.
StatePop(p, mode) ==
  IF p.stack = <<>> THEN Raise(p, "POP_EMPTY")
  ELSE [p EXCEPT !.stack = SubSeq(@, 1, Len(@) - 1),
                 !.ret = IF p.stack[Len(p.stack)] = mode THEN @ ELSE "POP_UNEXPECTED_MODE"]

BufferGrow(p, env) ==
  LET max  == p.config.data
      twice == 2 * p.bufferSize
  IN CASE max > 0 /\ p.bufferSize = max -> Raise(p, "DATA_LIMIT")
       [] ~(max > 0 /\ p.bufferSize = max) /\ ~env.memory.grow -> Raise(p, "NO_MEMORY")
       [] OTHER -> [p EXCEPT !.bufferSize = IF max > 0 /\ twice > max THEN max ELSE twice]

\* Faulty: no place is kept for the terminator.
BufferPushFull(p, env, c) ==
  LET room == IF Len(p.buffer) >= p.bufferSize THEN BufferGrow(p, env) ELSE p
  IN Then(room, [room EXCEPT !.buffer = Append(@, c)])

\* One place stays free, for the terminator of do_callback_withbuf.
BufferPush(p, env, c) ==
  LET room == IF Len(p.buffer) + 1 >= p.bufferSize THEN BufferGrow(p, env) ELSE p
  IN Then(room, [room EXCEPT !.buffer = Append(@, c)])

Escaped == [c \in Byte |-> CASE c = 98  -> 8  [] c = 102 -> 12 [] c = 110 -> 10
                             [] c = 114 -> 13 [] c = 116 -> 9
                             [] c \in {34, 47, 92} -> c [] OTHER -> 0]

\* do_callback and do_callback_withbuf.
Callback(p, env, type, data) ==
  IF type \in env.refuse THEN Raise(p, "CALLBACK")
  ELSE [p EXCEPT !.events = Append(@, [type |-> type, data |-> data])]

\* do_buffer: a number or a constant is reported when what follows ends it.
DoBuffer(p, env) ==
  LET told == IF p.type \in Scalars THEN Callback(p, env, p.type, p.buffer) ELSE p
  IN Then(told, [told EXCEPT !.buffer = <<>>])

Hex(c) == CASE c \in 48 .. 57 -> c - 48 [] c \in 65 .. 70 -> c - 55 [] OTHER -> c - 87

HighSurrogate(u) == u \div 1024 = 54
LowSurrogate(u)  == u \div 1024 = 55

Continuation(u, shift) == 128 + ((u \div shift) % 64)

Utf8(u) ==
  CASE u < 128 -> <<u>>
    [] u >= 128 /\ u < 2048 -> <<192 + (u \div 64), Continuation(u, 1)>>
    [] u >= 2048 /\ u < 65536 -> <<224 + (u \div 4096), Continuation(u, 64), Continuation(u, 1)>>
    [] OTHER -> <<240 + (u \div 262144), Continuation(u, 4096),
                  Continuation(u, 64), Continuation(u, 1)>>

\* decode_unicode_char: the last four bytes of the buffer become one character.
DecodeUnicode(p) ==
  LET n    == Len(p.buffer) - 4
      d(i) == Hex(p.buffer[n + i])
      u    == 4096 * d(1) + 256 * d(2) + 16 * d(3) + d(4)
      q    == [p EXCEPT !.buffer = SubSeq(@, 1, n)]
      Put(v) == [q EXCEPT !.buffer = @ \o Utf8(v), !.multi = 0]
  IN CASE p.multi # 0 /\ LowSurrogate(u) -> Put(65536 + 1024 * (p.multi % 1024) + (u % 1024))
       [] p.multi # 0 /\ ~LowSurrogate(u) -> Raise(q, "UNICODE_MISSING_LOW_SURROGATE")
       [] p.multi = 0 /\ LowSurrogate(u) -> Raise(q, "UNICODE_UNEXPECTED_LOW_SURROGATE")
       [] p.multi = 0 /\ HighSurrogate(u) -> [q EXCEPT !.multi = u]
       [] OTHER -> Put(u)

-----------------------------------------------------------------------------
(* The actions of the table. *)

ActUC(p) ==
  LET q == DecodeUnicode(p)
  IN Then(q, [q EXCEPT !.state = IF q.multi # 0 THEN "D1" ELSE "_S"])

\* act_yb, act_cb.
CommentBegin(p, allowed) ==
  IF allowed THEN [p EXCEPT !.saved = p.state] ELSE Raise(p, "COMMENT_NOT_ALLOWED")

\* Faulty: a comment behind a number leaves the number open.
ActCEResumes(p) == [p EXCEPT !.state = p.saved]

\* act_ce: a comment behind a number ends the number.
ActCE(p) == [p EXCEPT !.state = IF p.saved \in Structural THEN p.saved ELSE "OK"]

\* act_ob, act_ab: the event is out before the limit on nesting is tested.
Begin(p, env, type, mode) ==
  LET told   == Callback(p, env, type, <<>>)
      pushed == Then(told, StatePush(told, env, mode))
  IN Then(pushed, [pushed EXCEPT !.expectingKey = @ \/ mode = "object"])

\* act_oe, act_ae.
End(p, env, type, mode) ==
  LET popped == StatePop(p, mode)
      told   == Then(popped, Callback(popped, env, type, <<>>))
  IN Then(told, [told EXCEPT !.expectingKey = @ /\ mode # "object"])

ActSE(p, env) ==
  LET told == Callback(p, env, IF p.expectingKey THEN "KEY" ELSE "STRING", p.buffer)
  IN Then(told, [told EXCEPT !.buffer = <<>>, !.expectingKey = FALSE,
                             !.state = IF p.expectingKey THEN "CO" ELSE "OK"])

ActSP(p) ==
  CASE p.stack = <<>> -> Raise(p, "COMMA_OUT_OF_STRUCTURE")
    [] p.stack # <<>> /\ p.stack[Len(p.stack)] = "object"
         -> [p EXCEPT !.expectingKey = TRUE, !.state = "_K"]
    [] OTHER -> [p EXCEPT !.state = "_V"]

Act(p, env, action) ==
  LET b == DoBuffer(p, env)
  IN CASE action = "SP" -> Then(b, ActSP(b))
       [] action = "AB" -> Begin(p, env, "ARRAY_BEGIN", "array")
       [] action = "AE" -> Then(b, End(b, env, "ARRAY_END", "array"))
       [] action = "OB" -> Begin(p, env, "OBJECT_BEGIN", "object")
       [] action = "OE" -> Then(b, End(b, env, "OBJECT_END", "object"))
       [] action = "CB" -> Then(b, CommentBegin(b, p.config.cComments))
       [] action = "YB" -> Then(b, CommentBegin(b, p.config.yamlComments))
       [] action = "CE" -> ActCE(p)
       [] action = "SE" -> ActSE(p, env)
       [] action = "UC" -> ActUC(p)
       [] OTHER -> p

\* actions_map: the state and the type an action leaves behind, if it says so.
ActionState == [KS |-> "_V", AB |-> "_A", AE |-> "OK", OB |-> "_O", OE |-> "OK", CB |-> "C1",
                YB |-> "Y1", FA |-> "OK", TR |-> "OK", NU |-> "OK", DE |-> "X1", DF |-> "R1",
                MX |-> "M0", ZX |-> "Z0", IX |-> "I0"]
ActionType  == [FA |-> "FALSE", TR |-> "TRUE", NU |-> "NULL", DE |-> "FLOAT", DF |-> "FLOAT",
                MX |-> "INT", ZX |-> "INT", IX |-> "INT"]

DoAction(p, env, action) ==
  LET q == Act(p, env, action)
  IN Then(q, [q EXCEPT
       !.state = IF action \in DOMAIN ActionState THEN ActionState[action] ELSE @,
       !.type  = IF action \in DOMAIN ActionType THEN ActionType[action] ELSE "NONE"])

-----------------------------------------------------------------------------
(* The input. *)

BadUtf8 == 255

\* utf8_header_table: how many bytes a leading byte announces.
Utf8Header(c) ==
  CASE c < 128 -> 0 [] c \in 192 .. 223 -> 1 [] c \in 224 .. 239 -> 2 [] c \in 240 .. 247 -> 3
    [] c \in 248 .. 251 -> 4 [] c \in 252 .. 253 -> 5 [] OTHER -> BadUtf8

\* The rest of the loop, once the byte has its class.
Accept(p, env, c, k) ==
  LET next   == StateTransition[p.state][k]
      policy == BufferPolicy(p.state, k)
      kept   == CASE policy = "escape" -> BufferPush(p, env, Escaped[c])
                  [] policy = "append" -> BufferPush(p, env, c)
                  [] OTHER -> p
  IN CASE next = "__" -> Raise(p, "UNEXPECTED_CHAR")
       [] next \in States -> Then(kept, [kept EXCEPT !.state = next])
       [] OTHER -> Then(kept, DoAction(kept, env, next))

\* json_parser_string on one byte, json_parser_char.
Feed(p, env, c) ==
  LET inside == p.left > 0
      q == [p EXCEPT !.left = IF inside THEN @ - 1 ELSE Utf8Header(c)]
      k == CASE inside \/ q.left \in 1 .. 5 -> "OTHER"
             [] OTHER -> CharacterClass[c]
  IN CASE inside /\ c \notin 128 .. 191 -> Raise(p, "UTF8")
       [] ~inside /\ q.left = BadUtf8 -> Raise(q, "UTF8")
       [] ~inside /\ q.left = 0 /\ k = "ERROR" -> Raise(q, "BAD_CHAR")
       [] OTHER -> Accept(q, env, c, k)

\* json_parser_is_done.
IsDone(p) == p.stack = <<>> /\ p.state # "GO"

=============================================================================
