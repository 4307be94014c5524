-------------------------- MODULE JsonLintProofs ----------------------------
(***************************************************************************)
(* The parser of libjson stays inside what it allocated, and the tree that *)
(* is built of its events holds them all, proved: for every file, every    *)
(* setting of json_config and every failure of an allocation or of the     *)
(* callback.                                                               *)
(***************************************************************************)
EXTENDS JsonLint, Folding, FiniteSetTheorems

(* The tables.  A digit state is reached only from the one before it.      *)

Actions == {"SP", "AB", "AE", "OB", "OE", "CB", "YB", "CE", "SE", "UC",
            "KS", "FA", "TR", "NU", "DE", "DF", "MX", "ZX", "IX"}

Hexed(m) ==
  /\ m[3] \in States \cup Actions
  /\ m[3] = "U3" => m[1] = {"U2"}
  /\ m[3] = "U4" => m[1] = {"U3"}
  /\ m[3] = "UC" => m[1] = {"U4"}

LEMMA MovesAre ==
  ASSUME NEW m \in Moves
  PROVE  Hexed(m)
<1>1. CASE m \in StructureMoves
  <2>1. CASE m \in { <<{s}, White, s>> : s \in Structural }
    BY <2>1 DEF Hexed, States, Structural
  <2>2. CASE m \notin { <<{s}, White, s>> : s \in Structural }
    BY <1>1, <2>2 DEF StructureMoves, Hexed, States, Structural, Actions
  <2> QED BY <2>1, <2>2
<1>2. CASE m \in StringMoves
  BY <1>2 DEF StringMoves, Hexed, States, Structural, Actions
<1>3. CASE m \in NumberMoves
  BY <1>3 DEF NumberMoves, Hexed, States, Structural, Actions, NumberEnds
<1>4. CASE m \in ConstantMoves
  BY <1>4 DEF ConstantMoves, Hexed, States, Structural, Actions
<1>5. CASE m \in CommentMoves
  BY <1>5 DEF CommentMoves, Hexed, States, Structural, Actions
<1> QED
  BY <1>1, <1>2, <1>3, <1>4, <1>5 DEF Moves

LEMMA TableIs ==
  ASSUME NEW s \in States, NEW k \in Classes, NEW next, next = StateTransition[s][k]
  PROVE  /\ next \in States \cup Actions \cup {"__"}
         /\ next = "U3" => s = "U2"
         /\ next = "U4" => s = "U3"
         /\ next = "UC" => s = "U4"
<1> DEFINE fits == { m \in Moves : s \in m[1] /\ k \in m[2] }
<1>1. next = IF fits = {} THEN "__" ELSE (CHOOSE m \in fits : TRUE)[3]
  BY DEF StateTransition
<1>2. CASE fits = {}
  BY <1>1, <1>2
<1>3. CASE fits # {}
  <2>1. PICK m \in fits : next = m[3]
    BY <1>1, <1>3
  <2>2. Hexed(m) /\ s \in m[1]
    BY <2>1, MovesAre
  <2> QED BY <2>1, <2>2 DEF Hexed
<1> QED
  BY <1>2, <1>3

LEMMA ClassIs ==
  ASSUME NEW c \in 0 .. 127
  PROVE  CharacterClass[c] \in Classes \cup {"ERROR"}
<1>1. \A e \in ByteClasses : e[2] \in Classes \cup {"ERROR"}
  BY DEF ByteClasses, Classes, White, HexDigits, Digits, Lowercase
<1>2. "OTHER" \in Classes
  BY DEF Classes
<1> HIDE DEF ByteClasses
<1> QED
  BY <1>1, <1>2 DEF CharacterClass

----------------------------------------------------------------------------
(* A parser, its stack and its buffer inside what was allocated.           *)

Types == Scalars \cup {"NONE", "ARRAY_BEGIN", "ARRAY_END", "OBJECT_BEGIN", "OBJECT_END"}
Modes == {"array", "object"}
Errors ==
  {"NESTING_LIMIT", "NO_MEMORY", "POP_EMPTY", "POP_UNEXPECTED_MODE", "DATA_LIMIT", "CALLBACK",
   "UNICODE_MISSING_LOW_SURROGATE", "UNICODE_UNEXPECTED_LOW_SURROGATE", "COMMENT_NOT_ALLOWED",
   "COMMA_OUT_OF_STRUCTURE", "UNEXPECTED_CHAR", "UTF8", "BAD_CHAR"}

ParserType ==
  [config : ConfigType, state : States, saved : States, expectingKey : BOOLEAN,
   left : Nat, multi : Int, type : Types,
   stack : Seq(Modes), stackSize : Nat, buffer : Seq(Int), bufferSize : Nat,
   events : Seq([type : Types, data : Seq(Int)]), ret : Errors \cup {"SUCCESS"}]

HasRoom(p) ==
  /\ Len(p.buffer) < p.bufferSize
  /\ p.config.data > 0 => p.bufferSize <= p.config.data
  /\ Len(p.stack) <= p.stackSize /\ p.stackSize > 0

Good(p) == p \in ParserType /\ HasRoom(p)

LEMMA NewGood ==
  ASSUME NEW config \in ConfigType
  PROVE  Good(NewParser(config)) /\ NewParser(config).ret = "SUCCESS" /\ NewParser(config).state = "GO"
<1> DEFINE p == NewParser(config)
<1>1. /\ StackSize(config) \in Nat \ {0} /\ BufferSize(config) \in Nat \ {0}
      /\ config.data > 0 => BufferSize(config) <= config.data
  BY DefaultsAssumption DEF StackSize, BufferSize, ConfigType
<1>2. p \in ParserType
  <2>1. /\ "GO" \in States /\ "NONE" \in Types /\ "SUCCESS" \in Errors \cup {"SUCCESS"}
        /\ <<>> \in Seq(Modes) /\ <<>> \in Seq(Int)
        /\ \A S : <<>> \in Seq(S)
    BY DEF States, Structural, Types
  <2>2. FALSE \in BOOLEAN /\ 0 \in Nat /\ 0 \in Int /\ StackSize(config) \in Nat /\ BufferSize(config) \in Nat
    BY <1>1
  <2> QED BY <2>1, <2>2, Zenon DEF NewParser, ParserType
<1>3. HasRoom(p)
  BY <1>1 DEF NewParser, HasRoom
<1> QED
  BY <1>2, <1>3 DEF Good, NewParser

\* What has nothing to do with the memory.
LEMMA RaiseGood ==
  ASSUME NEW p, Good(p), NEW error \in Errors
  PROVE  Good(Raise(p, error)) /\ Raise(p, error).ret = error /\ error # "SUCCESS"
<1>1. error # "SUCCESS"
  BY DEF Errors
<1> QED
  BY <1>1 DEF Good, ParserType, HasRoom, Raise

LEMMA ThenGood ==
  ASSUME NEW p, NEW q, Good(p), p.ret = "SUCCESS" => Good(q)
  PROVE  Good(Then(p, q))
BY DEF Then

LEMMA StateGood ==
  ASSUME NEW p, Good(p), NEW s \in States, NEW k \in BOOLEAN, NEW t \in Types, NEW u \in Int
  PROVE  /\ Good([p EXCEPT !.state = s]) /\ Good([p EXCEPT !.saved = s])
         /\ Good([p EXCEPT !.expectingKey = k]) /\ Good([p EXCEPT !.multi = u])
         /\ Good([p EXCEPT !.expectingKey = k, !.state = s])
         /\ Good([p EXCEPT !.state = s, !.type = t])
<1>1. p \in ParserType /\ HasRoom(p)
  BY DEF Good
<1>2. Good([p EXCEPT !.state = s])
  BY <1>1 DEF Good, ParserType, HasRoom
<1>3. Good([p EXCEPT !.saved = s])
  BY <1>1 DEF Good, ParserType, HasRoom
<1>4. Good([p EXCEPT !.expectingKey = k])
  BY <1>1 DEF Good, ParserType, HasRoom
<1>5. Good([p EXCEPT !.multi = u])
  BY <1>1 DEF Good, ParserType, HasRoom
<1>6. Good([p EXCEPT !.expectingKey = k, !.state = s])
  BY <1>1 DEF Good, ParserType, HasRoom
<1>7. Good([p EXCEPT !.state = s, !.type = t])
  BY <1>1 DEF Good, ParserType, HasRoom
<1> QED
  BY <1>2, <1>3, <1>4, <1>5, <1>6, <1>7

LEMMA EmptiedGood ==
  ASSUME NEW p, Good(p), NEW s \in States, NEW k \in BOOLEAN
  PROVE  /\ Good([p EXCEPT !.buffer = <<>>])
         /\ Good([p EXCEPT !.buffer = <<>>, !.expectingKey = k, !.state = s])
<1>1. p \in ParserType /\ HasRoom(p) /\ <<>> \in Seq(Int) /\ Len(<<>>) = 0
  BY DEF Good
<1>2. 0 < p.bufferSize
  BY <1>1 DEF ParserType, HasRoom
<1> DEFINE e == <<>>
<1>3. e \in Seq(Int) /\ Len(e) = 0
  OBVIOUS
<1> HIDE DEF e
<1>4. Good([p EXCEPT !.buffer = e])
  BY <1>1, <1>2, <1>3 DEF Good, ParserType, HasRoom
<1>5. Good([p EXCEPT !.buffer = e, !.expectingKey = k, !.state = s])
  BY <1>1, <1>2, <1>3 DEF Good, ParserType, HasRoom
<1> QED
  BY <1>4, <1>5 DEF e

LEMMA EventGood ==
  ASSUME NEW p, Good(p), NEW env, NEW type \in Types, NEW data \in Seq(Int)
  PROVE  Good(Callback(p, env, type, data))
<1> DEFINE e == [type |-> type, data |-> data]
           q == [p EXCEPT !.events = Append(@, e)]
<1>1. p \in ParserType /\ HasRoom(p) /\ e \in [type : Types, data : Seq(Int)]
  BY DEF Good
<1>2. Append(p.events, e) \in Seq([type : Types, data : Seq(Int)])
  BY <1>1 DEF ParserType
<1> HIDE DEF e
<1>3. Good(q)
  BY <1>1, <1>2 DEF Good, ParserType, HasRoom
<1>4. Good(Raise(p, "CALLBACK"))
  BY RaiseGood DEF Errors
<1> QED
  BY <1>3, <1>4 DEF Callback, e

\* The stack grows to twice its size, and a push needs one place.
LEMMA PushGood ==
  ASSUME NEW p, Good(p), NEW env, NEW mode \in Modes
  PROVE  Good(StatePush(p, env, mode))
<1> DEFINE full  == Len(p.stack) >= p.stackSize
           grown == IF full THEN [p EXCEPT !.stackSize = 2 * @] ELSE p
           q     == [grown EXCEPT !.stack = Append(@, mode)]
<1>1. /\ p \in ParserType /\ HasRoom(p)
      /\ p.stack \in Seq(Modes) /\ p.stackSize \in Nat \ {0} /\ Len(p.stack) <= p.stackSize
  BY DEF Good, ParserType, HasRoom
<1>2. /\ Good(Raise(p, "NESTING_LIMIT")) /\ Good(Raise(p, "NO_MEMORY"))
  BY RaiseGood DEF Errors
<1>3. grown \in ParserType /\ HasRoom(grown) /\ Len(grown.stack) < grown.stackSize /\ grown.stack = p.stack
  <2>1. CASE full
    <3> DEFINE n == 2 * p.stackSize
    <3>1. n \in Nat /\ n > 0 /\ Len(p.stack) < n /\ Len(p.stack) <= n
      BY <1>1
    <3>2. grown = [p EXCEPT !.stackSize = n]
      BY <2>1
    <3> HIDE DEF grown, full, n
    <3>3. grown \in ParserType
      BY <1>1, <3>1, <3>2 DEF ParserType
    <3>4. /\ grown.buffer = p.buffer /\ grown.bufferSize = p.bufferSize /\ grown.config = p.config
          /\ grown.stack = p.stack /\ grown.stackSize = n
      BY <1>1, <3>2 DEF ParserType
    <3> QED BY <1>1, <3>1, <3>3, <3>4 DEF HasRoom
  <2>2. CASE ~ full
    BY <1>1, <2>2
  <2> QED BY <2>1, <2>2
<1>4. Append(p.stack, mode) \in Seq(Modes) /\ Len(Append(p.stack, mode)) = Len(p.stack) + 1
  BY <1>1
<1> HIDE DEF grown
<1>5. grown.stackSize \in Nat /\ Len(p.stack) + 1 <= grown.stackSize
  BY <1>1, <1>3 DEF ParserType
<1>6. Good(q)
  BY <1>3, <1>4, <1>5 DEF Good, ParserType, HasRoom
<1> QED
  BY <1>2, <1>6 DEF StatePush, grown

LEMMA PopGood ==
  ASSUME NEW p, Good(p), NEW mode
  PROVE  Good(StatePop(p, mode))
<1>1. p \in ParserType /\ HasRoom(p) /\ p.stack \in Seq(Modes) /\ p.stackSize \in Nat
  BY DEF Good, ParserType
<1>2. Good(Raise(p, "POP_EMPTY"))
  BY RaiseGood DEF Errors
<1>3. ASSUME p.stack # <<>>
      PROVE  Good([p EXCEPT !.stack = SubSeq(@, 1, Len(@) - 1),
                            !.ret = IF p.stack[Len(p.stack)] = mode THEN @ ELSE "POP_UNEXPECTED_MODE"])
  <2> DEFINE s == SubSeq(p.stack, 1, Len(p.stack) - 1)
             r == IF p.stack[Len(p.stack)] = mode THEN p.ret ELSE "POP_UNEXPECTED_MODE"
  <2>1. s \in Seq(Modes) /\ Len(s) <= p.stackSize
    BY <1>1, <1>3 DEF HasRoom
  <2>2. r \in Errors \cup {"SUCCESS"}
    BY <1>1 DEF ParserType, Errors
  <2> HIDE DEF s, r
  <2>3. Good([p EXCEPT !.stack = s, !.ret = r])
    BY <1>1, <2>1, <2>2 DEF Good, ParserType, HasRoom
  <2> QED BY <2>3 DEF s, r
<1> QED
  BY <1>2, <1>3 DEF StatePop

\* One place stays free, for the terminator.
LEMMA GrowGood ==
  ASSUME NEW p, Good(p), NEW env, NEW q, q = BufferGrow(p, env)
  PROVE  /\ Good(q) /\ q.buffer = p.buffer
         /\ q.ret = "SUCCESS" => Len(q.buffer) + 1 < q.bufferSize
<1> DEFINE max  == p.config.data
           size == IF max > 0 /\ 2 * p.bufferSize > max THEN max ELSE 2 * p.bufferSize
<1>1. /\ p \in ParserType /\ HasRoom(p)
      /\ p.buffer \in Seq(Int) /\ p.bufferSize \in Nat /\ max \in Nat
  BY DEF Good, ParserType, ConfigType
<1>2. /\ Good(Raise(p, "DATA_LIMIT")) /\ Raise(p, "DATA_LIMIT").ret # "SUCCESS"
      /\ Good(Raise(p, "NO_MEMORY")) /\ Raise(p, "NO_MEMORY").ret # "SUCCESS"
      /\ Raise(p, "DATA_LIMIT").buffer = p.buffer /\ Raise(p, "NO_MEMORY").buffer = p.buffer
  <2>1. "DATA_LIMIT" \in Errors /\ "NO_MEMORY" \in Errors
    BY DEF Errors
  <2>2. \A error : Raise(p, error).buffer = p.buffer
    BY <1>1 DEF Raise, ParserType
  <2> QED BY <2>1, <2>2, RaiseGood
<1>3. ASSUME ~ (max > 0 /\ p.bufferSize = max)
      PROVE  /\ Good([p EXCEPT !.bufferSize = size])
             /\ [p EXCEPT !.bufferSize = size].buffer = p.buffer
             /\ Len(p.buffer) + 1 < [p EXCEPT !.bufferSize = size].bufferSize
  <2>1. /\ size \in Nat /\ Len(p.buffer) + 1 < size
        /\ max > 0 => size <= max
    BY <1>1, <1>3 DEF HasRoom
  <2> DEFINE r == [p EXCEPT !.bufferSize = size]
  <2> HIDE DEF size
  <2>2. r \in ParserType
    BY <1>1, <2>1 DEF ParserType
  <2>3. /\ r.buffer = p.buffer /\ r.bufferSize = size /\ r.config = p.config
        /\ r.stack = p.stack /\ r.stackSize = p.stackSize
    BY <1>1 DEF ParserType
  <2> HIDE DEF r
  <2>4. HasRoom(r)
    BY <1>1, <2>1, <2>3 DEF HasRoom
  <2> QED BY <2>1, <2>2, <2>3, <2>4 DEF Good, r
<1> QED
  BY <1>2, <1>3 DEF BufferGrow

LEMMA KeepGood ==
  ASSUME NEW p, Good(p), NEW env, NEW c \in Int, NEW q, q = BufferPush(p, env, c)
  PROVE  Good(q) /\ (q.ret = "SUCCESS" => Len(q.buffer) = Len(p.buffer) + 1)
<1> DEFINE room == IF Len(p.buffer) + 1 >= p.bufferSize THEN BufferGrow(p, env) ELSE p
<1>1. /\ Good(room) /\ room.buffer = p.buffer
      /\ room.ret = "SUCCESS" => Len(room.buffer) + 1 < room.bufferSize
  <2>1. CASE Len(p.buffer) + 1 >= p.bufferSize
    BY <2>1, GrowGood
  <2>2. CASE ~ (Len(p.buffer) + 1 >= p.bufferSize)
    BY <2>2 DEF Good, ParserType
  <2> QED BY <2>1, <2>2
<1>2. q = Then(room, [room EXCEPT !.buffer = Append(@, c)])
  BY DEF BufferPush
<1> HIDE DEF room
<1>3. CASE room.ret = "SUCCESS"
  <2>1. room \in ParserType /\ HasRoom(room) /\ room.buffer \in Seq(Int) /\ room.bufferSize \in Nat
    BY <1>1 DEF Good, ParserType
  <2> DEFINE b == Append(room.buffer, c)
  <2>2. b \in Seq(Int) /\ Len(b) = Len(p.buffer) + 1 /\ Len(b) < room.bufferSize
    BY <1>1, <1>3, <2>1
  <2>3. q = [room EXCEPT !.buffer = b]
    BY <1>2, <1>3 DEF Then
  <2> HIDE DEF b
  <2> QED BY <2>1, <2>2, <2>3 DEF Good, ParserType, HasRoom
<1>4. CASE room.ret # "SUCCESS"
  BY <1>1, <1>2, <1>4 DEF Then
<1> QED
  BY <1>3, <1>4

----------------------------------------------------------------------------
(* The actions of the table.                                               *)

LEMMA CharacterIs ==
  ASSUME NEW u \in Int
  PROVE  Utf8(u) \in Seq(Int) /\ Len(Utf8(u)) <= 4
<1>1. \A d \in {1, 64, 4096} : Continuation(u, d) \in Int
  BY DEF Continuation
<1>2. u \div 64 \in Int /\ u \div 4096 \in Int /\ u \div 262144 \in Int
  OBVIOUS
<1>3. ASSUME NEW a \in Int, NEW b \in Int, NEW c \in Int, NEW d \in Int
      PROVE  /\ <<a>> \in Seq(Int) /\ Len(<<a>>) = 1
             /\ <<a, b>> \in Seq(Int) /\ Len(<<a, b>>) = 2
             /\ <<a, b, c>> \in Seq(Int) /\ Len(<<a, b, c>>) = 3
             /\ <<a, b, c, d>> \in Seq(Int) /\ Len(<<a, b, c, d>>) = 4
  BY <1>3
<1> DEFINE c1 == Continuation(u, 1)
           c2 == Continuation(u, 64)
           c3 == Continuation(u, 4096)
           h2 == 192 + (u \div 64)
           h3 == 224 + (u \div 4096)
           h4 == 240 + (u \div 262144)
<1>4. c1 \in Int /\ c2 \in Int /\ c3 \in Int /\ h2 \in Int /\ h3 \in Int /\ h4 \in Int
  BY <1>1, <1>2
<1>5. \/ Utf8(u) = <<u>> \/ Utf8(u) = <<h2, c1>>
      \/ Utf8(u) = <<h3, c2, c1>> \/ Utf8(u) = <<h4, c3, c2, c1>>
  <2>1. CASE u < 128
    BY <2>1 DEF Utf8
  <2>2. CASE u >= 128 /\ u < 2048
    BY <2>2 DEF Utf8
  <2>3. CASE u >= 2048 /\ u < 65536
    BY <2>3 DEF Utf8
  <2>4. CASE u >= 65536
    BY <2>4 DEF Utf8
  <2> QED BY <2>1, <2>2, <2>3, <2>4
<1> HIDE DEF c1, c2, c3, h2, h3, h4
<1>6. CASE Utf8(u) = <<u>>
  BY <1>3, <1>6
<1>7. CASE Utf8(u) = <<h2, c1>>
  BY <1>3, <1>4, <1>7
<1>8. CASE Utf8(u) = <<h3, c2, c1>>
  BY <1>3, <1>4, <1>8
<1>9. CASE Utf8(u) = <<h4, c3, c2, c1>>
  BY <1>3, <1>4, <1>9
<1> QED
  BY <1>5, <1>6, <1>7, <1>8, <1>9

\* What the four digits took is enough for the character.
LEMMA PutGood ==
  ASSUME NEW q, Good(q), NEW u \in Int, Len(q.buffer) + 4 < q.bufferSize
  PROVE  Good([q EXCEPT !.buffer = @ \o Utf8(u), !.multi = 0])
<1> DEFINE b == q.buffer \o Utf8(u)
           r == [q EXCEPT !.buffer = b, !.multi = 0]
<1>1. q \in ParserType /\ HasRoom(q) /\ q.buffer \in Seq(Int) /\ q.bufferSize \in Nat
  BY DEF Good, ParserType
<1>2. Utf8(u) \in Seq(Int) /\ Len(Utf8(u)) <= 4
  BY CharacterIs
<1>3. b \in Seq(Int) /\ Len(b) < q.bufferSize
  BY <1>1, <1>2
<1> HIDE DEF b
<1>4. r \in ParserType
  <2>1. q \in ParserType /\ b \in Seq(Int) /\ 0 \in Int
    BY <1>1, <1>3
  <2> QED BY <2>1 DEF ParserType
<1>5. /\ r.buffer = b /\ r.bufferSize = q.bufferSize /\ r.config = q.config
      /\ r.stack = q.stack /\ r.stackSize = q.stackSize
  BY <1>1 DEF ParserType
<1> HIDE DEF r
<1>6. HasRoom(r)
  BY <1>1, <1>3, <1>5 DEF HasRoom
<1> QED
  BY <1>4, <1>6 DEF Good, r, b

LEMMA CutGood ==
  ASSUME NEW p, Good(p), Len(p.buffer) >= 4,
         NEW q, q = [p EXCEPT !.buffer = SubSeq(@, 1, Len(p.buffer) - 4)]
  PROVE  Good(q) /\ Len(q.buffer) + 4 < q.bufferSize
<1> DEFINE b == SubSeq(p.buffer, 1, Len(p.buffer) - 4)
<1>1. p \in ParserType /\ HasRoom(p) /\ p.buffer \in Seq(Int) /\ p.bufferSize \in Nat
  BY DEF Good, ParserType
<1>2. b \in Seq(Int) /\ Len(b) + 4 = Len(p.buffer)
  BY <1>1
<1>3. q = [p EXCEPT !.buffer = b]
  OBVIOUS
<1> HIDE DEF b
<1>4. q \in ParserType
  BY <1>1, <1>2, <1>3 DEF ParserType
<1>5. /\ q.buffer = b /\ q.bufferSize = p.bufferSize /\ q.config = p.config
      /\ q.stack = p.stack /\ q.stackSize = p.stackSize
  BY <1>1, <1>3 DEF ParserType
<1>6. Len(b) < p.bufferSize /\ Len(b) + 4 < p.bufferSize
  BY <1>1, <1>2 DEF HasRoom
<1> QED
  BY <1>1, <1>4, <1>5, <1>6 DEF Good, HasRoom

LEMMA DigitIs ==
  ASSUME NEW c \in Int
  PROVE  Hex(c) \in Int
<1>1. c - 48 \in Int /\ c - 55 \in Int /\ c - 87 \in Int
  OBVIOUS
<1>2. Hex(c) \in {c - 48, c - 55, c - 87}
  BY Zenon DEF Hex
<1> QED
  BY <1>1, <1>2

LEMMA UnitIs ==
  ASSUME NEW a \in Int, NEW b \in Int, NEW c \in Int, NEW d \in Int
  PROVE  4096 * a + 256 * b + 16 * c + d \in Int
OBVIOUS

LEMMA PairIs ==
  ASSUME NEW high \in Int, NEW low \in Int
  PROVE  65536 + 1024 * (high % 1024) + (low % 1024) \in Int
<1>1. high % 1024 \in Int /\ low % 1024 \in Int
  OBVIOUS
<1> QED
  BY <1>1

LEMMA DecodedGood ==
  ASSUME NEW p, Good(p), Len(p.buffer) >= 4
  PROVE  Good(DecodeUnicode(p))
<1> DEFINE n    == Len(p.buffer) - 4
           d(i) == Hex(p.buffer[n + i])
           u    == 4096 * d(1) + 256 * d(2) + 16 * d(3) + d(4)
           q    == [p EXCEPT !.buffer = SubSeq(@, 1, n)]
           pair == 65536 + 1024 * (p.multi % 1024) + (u % 1024)
           Put(v) == [q EXCEPT !.buffer = @ \o Utf8(v), !.multi = 0]
<1>1. p.buffer \in Seq(Int) /\ p.multi \in Int /\ n \in Nat
  BY DEF Good, ParserType
<1>2. \A i \in {1, 2, 3, 4} : p.buffer[n + i] \in Int
  <2>1. \A i \in {1, 2, 3, 4} : n + i \in 1 .. Len(p.buffer)
    BY <1>1
  <2> HIDE DEF n
  <2> QED BY <1>1, <2>1
<1>3. d(1) \in Int /\ d(2) \in Int /\ d(3) \in Int /\ d(4) \in Int
  <2> HIDE DEF n
  <2> QED BY <1>2, DigitIs
<1>4. u \in Int
  <2> HIDE DEF d
  <2> QED BY <1>3, UnitIs
<1>5. Good(q) /\ Len(q.buffer) + 4 < q.bufferSize
  <2> HIDE DEF q
  <2> QED BY CutGood DEF q
<1>6. DecodeUnicode(p) \in {Put(pair), Put(u),
                            Raise(q, "UNICODE_MISSING_LOW_SURROGATE"),
                            Raise(q, "UNICODE_UNEXPECTED_LOW_SURROGATE"), [q EXCEPT !.multi = u]}
  <2>1. CASE p.multi # 0 /\ LowSurrogate(u)
    BY <2>1 DEF DecodeUnicode
  <2>2. CASE p.multi # 0 /\ ~LowSurrogate(u)
    BY <2>2 DEF DecodeUnicode
  <2>3. CASE p.multi = 0 /\ LowSurrogate(u)
    BY <2>3 DEF DecodeUnicode
  <2>4. CASE p.multi = 0 /\ ~LowSurrogate(u) /\ HighSurrogate(u)
    BY <2>4 DEF DecodeUnicode
  <2>5. CASE p.multi = 0 /\ ~LowSurrogate(u) /\ ~HighSurrogate(u)
    BY <2>5 DEF DecodeUnicode
  <2> QED BY <2>1, <2>2, <2>3, <2>4, <2>5
<1> HIDE DEF u, q
<1>7. pair \in Int
  BY <1>1, <1>4, PairIs
<1> HIDE DEF pair
<1>8. Good(Put(pair)) /\ Good(Put(u))
  BY <1>4, <1>5, <1>7, PutGood
<1>9. Good([q EXCEPT !.multi = u])
  BY <1>4, <1>5 DEF Good, ParserType, HasRoom
<1>10. Good(Raise(q, "UNICODE_MISSING_LOW_SURROGATE")) /\ Good(Raise(q, "UNICODE_UNEXPECTED_LOW_SURROGATE"))
  BY <1>5, RaiseGood DEF Errors
<1> HIDE DEF Put
<1> QED
  BY <1>6, <1>8, <1>9, <1>10

LEMMA ReportGood ==
  ASSUME NEW p, Good(p), NEW env
  PROVE  Good(DoBuffer(p, env))
<1> DEFINE told == IF p.type \in Scalars THEN Callback(p, env, p.type, p.buffer) ELSE p
<1>1. p.type \in Types /\ p.buffer \in Seq(Int)
  BY DEF Good, ParserType
<1>2. Good(told)
  BY <1>1, EventGood
<1>3. DoBuffer(p, env) = Then(told, [told EXCEPT !.buffer = <<>>])
  BY DEF DoBuffer
<1> HIDE DEF told
<1>4. Good([told EXCEPT !.buffer = <<>>])
  <2>1. "GO" \in States /\ TRUE \in BOOLEAN
    BY DEF States, Structural
  <2> QED BY <1>2, <2>1, EmptiedGood
<1> QED
  BY <1>2, <1>3, <1>4, ThenGood

LEMMA BeginGood ==
  ASSUME NEW p, Good(p), NEW env, NEW type \in Types, NEW mode \in Modes
  PROVE  Good(Begin(p, env, type, mode))
<1> DEFINE told   == Callback(p, env, type, <<>>)
           pushed == Then(told, StatePush(told, env, mode))
           q      == [pushed EXCEPT !.expectingKey = @ \/ mode = "object"]
<1>1. Good(told)
  <2>1. <<>> \in Seq(Int)
    OBVIOUS
  <2> QED BY <2>1, EventGood
<1> HIDE DEF told
<1>2. Good(pushed)
  BY <1>1, PushGood, ThenGood
<1> HIDE DEF pushed
<1>3. Good(q)
  <2> DEFINE k == pushed.expectingKey \/ mode = "object"
  <2>1. k \in BOOLEAN /\ q = [pushed EXCEPT !.expectingKey = k]
    OBVIOUS
  <2> HIDE DEF k, q
  <2> QED BY <1>2, <2>1 DEF Good, ParserType, HasRoom
<1> QED
  BY <1>2, <1>3, ThenGood DEF Begin, told, pushed

LEMMA EndGood ==
  ASSUME NEW p, Good(p), NEW env, NEW type \in Types, NEW mode
  PROVE  Good(End(p, env, type, mode))
<1> DEFINE popped == StatePop(p, mode)
           told   == Then(popped, Callback(popped, env, type, <<>>))
           q      == [told EXCEPT !.expectingKey = @ /\ mode # "object"]
<1>1. Good(popped)
  BY PopGood
<1> HIDE DEF popped
<1>2. Good(told)
  <2>1. <<>> \in Seq(Int)
    OBVIOUS
  <2>2. Good(Callback(popped, env, type, <<>>))
    BY <1>1, <2>1, EventGood
  <2> QED BY <1>1, <2>2, ThenGood
<1> HIDE DEF told
<1>3. Good(q)
  <2> DEFINE k == told.expectingKey /\ mode # "object"
  <2>1. k \in BOOLEAN /\ q = [told EXCEPT !.expectingKey = k]
    OBVIOUS
  <2> HIDE DEF k, q
  <2> QED BY <1>2, <2>1 DEF Good, ParserType, HasRoom
<1> QED
  BY <1>2, <1>3, ThenGood DEF End, told, popped

LEMMA StringEndGood ==
  ASSUME NEW p, Good(p), NEW env
  PROVE  Good(ActSE(p, env))
<1> DEFINE told == Callback(p, env, IF p.expectingKey THEN "KEY" ELSE "STRING", p.buffer)
           s    == IF p.expectingKey THEN "CO" ELSE "OK"
<1>1. (IF p.expectingKey THEN "KEY" ELSE "STRING") \in Types /\ p.buffer \in Seq(Int)
  BY DEF Types, Scalars, Good, ParserType
<1>2. Good(told)
  BY <1>1, EventGood
<1>3. ActSE(p, env) = Then(told, [told EXCEPT !.buffer = <<>>, !.expectingKey = FALSE, !.state = s])
  BY DEF ActSE
<1>4. s \in States
  BY DEF States, Structural
<1> HIDE DEF told, s
<1> QED
  BY <1>2, <1>3, <1>4, EmptiedGood, ThenGood

LEMMA CommaGood ==
  ASSUME NEW p, Good(p)
  PROVE  Good(ActSP(p))
<1>1. Good(Raise(p, "COMMA_OUT_OF_STRUCTURE"))
  BY RaiseGood DEF Errors
<1>2. "_K" \in States /\ "_V" \in States
  BY DEF States, Structural
<1>3. Good([p EXCEPT !.expectingKey = TRUE, !.state = "_K"]) /\ Good([p EXCEPT !.state = "_V"])
  <2>1. TRUE \in BOOLEAN
    OBVIOUS
  <2>2. \A s \in States : Good([p EXCEPT !.expectingKey = TRUE, !.state = s]) /\ Good([p EXCEPT !.state = s])
    BY <2>1 DEF Good, ParserType, HasRoom
  <2> QED BY <1>2, <2>2
<1> QED
  BY <1>1, <1>3 DEF ActSP

LEMMA CommentGood ==
  ASSUME NEW p, Good(p)
  PROVE  Good(ActCE(p)) /\ \A allowed : Good(CommentBegin(p, allowed))
<1>1. /\ p.state \in States /\ p.saved \in States /\ "OK" \in States
      /\ "COMMENT_NOT_ALLOWED" \in Errors
  BY DEF Good, ParserType, States, Structural, Errors
<1>2. \A s \in States : Good([p EXCEPT !.state = s]) /\ Good([p EXCEPT !.saved = s])
  BY DEF Good, ParserType, HasRoom
<1>3. Good(Raise(p, "COMMENT_NOT_ALLOWED"))
  BY <1>1, RaiseGood
<1> QED
  BY <1>1, <1>2, <1>3 DEF ActCE, CommentBegin

LEMMA CharacterGood ==
  ASSUME NEW p, Good(p), Len(p.buffer) >= 4
  PROVE  Good(ActUC(p))
<1> DEFINE q == DecodeUnicode(p)
           s == IF q.multi # 0 THEN "D1" ELSE "_S"
<1>1. Good(q) /\ s \in States
  BY DecodedGood DEF States
<1>2. ActUC(p) = Then(q, [q EXCEPT !.state = s])
  BY DEF ActUC
<1> HIDE DEF q, s
<1>3. Good([q EXCEPT !.state = s])
  BY <1>1 DEF Good, ParserType, HasRoom
<1> QED
  BY <1>1, <1>2, <1>3, ThenGood

\* Where a digit of a \u escape is awaited, those before it are in the buffer.
DigitStates == {"U2", "U3", "U4"}

DigitsRead(p) ==
  /\ p.state = "U2" => Len(p.buffer) >= 1
  /\ p.state = "U3" => Len(p.buffer) >= 2
  /\ p.state = "U4" => Len(p.buffer) >= 3

LEMMA LeftBehind ==
  /\ \A action \in DOMAIN ActionState : ActionState[action] \in States \ DigitStates
  /\ \A action \in DOMAIN ActionType : ActionType[action] \in Types
  /\ Actions \ DOMAIN ActionState = {"SP", "CE", "SE", "UC"}
<1>1. DOMAIN ActionState = {"KS", "AB", "AE", "OB", "OE", "CB", "YB", "FA", "TR", "NU", "DE", "DF",
                            "MX", "ZX", "IX"}
  BY DEF ActionState
<1>2. DOMAIN ActionType = {"FA", "TR", "NU", "DE", "DF", "MX", "ZX", "IX"}
  BY DEF ActionType
<1>3. \A action \in DOMAIN ActionState :
        ActionState[action] \in {"_V", "_A", "OK", "_O", "C1", "Y1", "X1", "R1", "M0", "Z0", "I0"}
  BY DEF ActionState
<1>4. \A action \in DOMAIN ActionType : ActionType[action] \in {"FALSE", "TRUE", "NULL", "FLOAT", "INT"}
  BY DEF ActionType
<1>5. {"_V", "_A", "OK", "_O", "C1", "Y1", "X1", "R1", "M0", "Z0", "I0"} \subseteq States \ DigitStates
  BY DEF States, Structural, NumberEnds, DigitStates
<1>6. {"FALSE", "TRUE", "NULL", "FLOAT", "INT"} \subseteq Types
  BY DEF Types, Scalars
<1>7. Actions \ DOMAIN ActionState = {"SP", "CE", "SE", "UC"}
  BY <1>1 DEF Actions
<1> QED
  BY <1>3, <1>4, <1>5, <1>6, <1>7

\* What the four actions without an entry do to the state.
LEMMA StateAfter ==
  ASSUME NEW p, Good(p), NEW env
  PROVE  /\ ActSP(p).ret = "SUCCESS" => ActSP(p).state \notin DigitStates
         /\ ActCE(p).state \notin DigitStates
         /\ ActSE(p, env).ret = "SUCCESS" => ActSE(p, env).state \notin DigitStates
         /\ Len(p.buffer) >= 4 /\ ActUC(p).ret = "SUCCESS" => ActUC(p).state \notin DigitStates
<1> USE DEF Good
<1>1. ActSP(p).ret = "SUCCESS" => ActSP(p).state \notin DigitStates
  <2>1. Raise(p, "COMMA_OUT_OF_STRUCTURE").ret # "SUCCESS"
    BY RaiseGood DEF Errors
  <2>2. [p EXCEPT !.expectingKey = TRUE, !.state = "_K"].state = "_K" /\ [p EXCEPT !.state = "_V"].state = "_V"
    BY DEF ParserType
  <2> QED BY <2>1, <2>2 DEF ActSP, DigitStates
<1>2. ActCE(p).state \notin DigitStates
  BY DEF ActCE, ParserType, Structural, DigitStates
<1>3. ActSE(p, env).ret = "SUCCESS" => ActSE(p, env).state \notin DigitStates
  <2> DEFINE told == Callback(p, env, IF p.expectingKey THEN "KEY" ELSE "STRING", p.buffer)
             s    == IF p.expectingKey THEN "CO" ELSE "OK"
             q    == [told EXCEPT !.buffer = <<>>, !.expectingKey = FALSE, !.state = s]
  <2>1. (IF p.expectingKey THEN "KEY" ELSE "STRING") \in Types /\ p.buffer \in Seq(Int)
    BY DEF Types, Scalars, ParserType
  <2>2. told \in ParserType
    BY <2>1, EventGood
  <2>3. ActSE(p, env) = Then(told, q)
    BY DEF ActSE
  <2>4. s \notin DigitStates
    BY DEF DigitStates
  <2> HIDE DEF told, s
  <2>5. q.state = s
    BY <2>2 DEF ParserType
  <2> HIDE DEF q
  <2> QED BY <2>3, <2>4, <2>5 DEF Then
<1>4. ASSUME Len(p.buffer) >= 4, ActUC(p).ret = "SUCCESS"
      PROVE  ActUC(p).state \notin DigitStates
  <2> DEFINE q == DecodeUnicode(p)
             s == IF q.multi # 0 THEN "D1" ELSE "_S"
             r == [q EXCEPT !.state = s]
  <2>1. ActUC(p) = Then(q, r)
    BY DEF ActUC
  <2>2. s \notin DigitStates
    BY DEF DigitStates
  <2>3. q \in ParserType
    BY <1>4, DecodedGood
  <2> HIDE DEF q, s
  <2>4. r.state = s
    BY <2>3 DEF ParserType
  <2> HIDE DEF r
  <2> QED BY <1>4, <2>1, <2>2, <2>4 DEF Then
<1> QED
  BY <1>1, <1>2, <1>3, <1>4

LEMMA ActGood ==
  ASSUME NEW p, Good(p), NEW env, NEW action \in Actions, action = "UC" => Len(p.buffer) >= 4,
         NEW q, q = Act(p, env, action)
  PROVE  /\ Good(q)
         /\ q.ret = "SUCCESS" /\ action \notin DOMAIN ActionState => q.state \notin DigitStates
<1> DEFINE b == DoBuffer(p, env)
<1>1. Good(b)
  BY ReportGood
<1>2. {"ARRAY_BEGIN", "ARRAY_END", "OBJECT_BEGIN", "OBJECT_END"} \subseteq Types
      /\ {"array", "object"} \subseteq Modes
  BY DEF Types, Modes
<1>3. action \notin DOMAIN ActionState => action \in {"SP", "CE", "SE", "UC"}
  BY LeftBehind
<1>4. CASE action = "SP"
  <2>1. q = Then(b, ActSP(b))
    BY <1>4 DEF Act
  <2> HIDE DEF b
  <2>2. Good(ActSP(b)) /\ (ActSP(b).ret = "SUCCESS" => ActSP(b).state \notin DigitStates)
    BY <1>1, CommaGood, StateAfter
  <2> QED BY <1>1, <2>1, <2>2 DEF Then
<1>5. CASE action = "AB"
  <2>1. q = Begin(p, env, "ARRAY_BEGIN", "array")
    BY <1>5 DEF Act
  <2> QED BY <1>2, <1>3, <1>5, <2>1, BeginGood
<1>6. CASE action = "OB"
  <2>1. q = Begin(p, env, "OBJECT_BEGIN", "object")
    BY <1>6 DEF Act
  <2> QED BY <1>2, <1>3, <1>6, <2>1, BeginGood
<1>7. CASE action = "AE"
  <2>1. q = Then(b, End(b, env, "ARRAY_END", "array"))
    BY <1>7 DEF Act
  <2> HIDE DEF b
  <2>2. Good(End(b, env, "ARRAY_END", "array"))
    BY <1>1, <1>2, EndGood
  <2> QED BY <1>1, <1>3, <1>7, <2>1, <2>2, ThenGood
<1>8. CASE action = "OE"
  <2>1. q = Then(b, End(b, env, "OBJECT_END", "object"))
    BY <1>8 DEF Act
  <2> HIDE DEF b
  <2>2. Good(End(b, env, "OBJECT_END", "object"))
    BY <1>1, <1>2, EndGood
  <2> QED BY <1>1, <1>3, <1>8, <2>1, <2>2, ThenGood
<1>9. CASE action = "CB"
  <2>1. q = Then(b, CommentBegin(b, p.config.cComments))
    BY <1>9 DEF Act
  <2> HIDE DEF b
  <2>2. Good(CommentBegin(b, p.config.cComments))
    BY <1>1, CommentGood
  <2> QED BY <1>1, <1>3, <1>9, <2>1, <2>2, ThenGood
<1>10. CASE action = "YB"
  <2>1. q = Then(b, CommentBegin(b, p.config.yamlComments))
    BY <1>10 DEF Act
  <2> HIDE DEF b
  <2>2. Good(CommentBegin(b, p.config.yamlComments))
    BY <1>1, CommentGood
  <2> QED BY <1>1, <1>3, <1>10, <2>1, <2>2, ThenGood
<1>11. CASE action = "CE"
  <2>1. q = ActCE(p)
    BY <1>11 DEF Act
  <2> QED BY <2>1, CommentGood, StateAfter
<1>12. CASE action = "SE"
  <2>1. q = ActSE(p, env)
    BY <1>12 DEF Act
  <2> QED BY <2>1, StringEndGood, StateAfter
<1>13. CASE action = "UC"
  <2>1. q = ActUC(p)
    BY <1>13 DEF Act
  <2> QED BY <1>13, <2>1, CharacterGood, StateAfter
<1>14. CASE action \notin {"SP", "AB", "OB", "AE", "OE", "CB", "YB", "CE", "SE", "UC"}
  <2>1. q = p
    BY <1>14 DEF Act
  <2> QED BY <1>3, <1>14, <2>1
<1> QED
  BY <1>4, <1>5, <1>6, <1>7, <1>8, <1>9, <1>10, <1>11, <1>12, <1>13, <1>14

LEMMA ActionGood ==
  ASSUME NEW p, Good(p), NEW env, NEW action \in Actions, action = "UC" => Len(p.buffer) >= 4,
         NEW r, r = DoAction(p, env, action)
  PROVE  /\ Good(r)
         /\ r.ret = "SUCCESS" => r.state \notin DigitStates
<1> DEFINE q == Act(p, env, action)
           s == IF action \in DOMAIN ActionState THEN ActionState[action] ELSE q.state
           t == IF action \in DOMAIN ActionType THEN ActionType[action] ELSE "NONE"
           a == [q EXCEPT !.state = s, !.type = t]
<1>1. Good(q) /\ q \in ParserType
  BY ActGood DEF Good
<1>2. q.ret = "SUCCESS" /\ action \notin DOMAIN ActionState => q.state \notin DigitStates
  BY ActGood
<1>3. r = Then(q, a)
  BY DEF DoAction
<1> HIDE DEF q
<1>4. s \in States /\ (q.ret = "SUCCESS" => s \notin DigitStates)
  BY <1>1, <1>2, LeftBehind DEF ParserType
<1>5. t \in Types
  BY LeftBehind DEF Types
<1> HIDE DEF s, t
<1>6. Good(a)
  <2>1. TRUE \in BOOLEAN /\ 0 \in Int
    OBVIOUS
  <2> QED BY <1>1, <1>4, <1>5, <2>1, StateGood
<1>7. a.state = s
  BY <1>1 DEF ParserType
<1> HIDE DEF a
<1> QED
  BY <1>1, <1>3, <1>4, <1>6, <1>7 DEF Then

----------------------------------------------------------------------------
(* A byte.                                                                 *)

\* What the table lets a byte leave in the buffer.
Kept(p, env, c, s, k) ==
  CASE BufferPolicy(s, k) = "escape" -> BufferPush(p, env, Escaped[c])
    [] BufferPolicy(s, k) = "append" -> BufferPush(p, env, c)
    [] OTHER -> p

LEMMA KeptIs ==
  ASSUME NEW p, Good(p), NEW env, NEW c \in Byte, NEW s \in States, NEW k \in Classes,
         NEW next, next = StateTransition[s][k], NEW kept, kept = Kept(p, env, c, s, k)
  PROVE  /\ Good(kept)
         /\ next \in DigitStates \cup {"UC"} /\ kept.ret = "SUCCESS"
              => Len(kept.buffer) = Len(p.buffer) + 1
<1>1. c \in Int /\ Escaped[c] \in Int
  <2>1. c \in Int
    BY DEF Byte
  <2>2. Escaped[c] \in {8, 12, 10, 13, 9, 0, c}
    BY DEF Escaped
  <2> QED BY <2>1, <2>2
<1>2. next \in DigitStates \cup {"UC"} => BufferPolicy(s, k) = "append"
  BY DEF BufferPolicy, DigitStates
<1>3. CASE BufferPolicy(s, k) = "escape"
  <2>1. kept = BufferPush(p, env, Escaped[c])
    BY <1>3 DEF Kept
  <2> QED BY <1>1, <1>2, <1>3, <2>1, KeepGood
<1>4. CASE BufferPolicy(s, k) = "append"
  <2>1. kept = BufferPush(p, env, c)
    BY <1>4 DEF Kept
  <2> QED BY <1>1, <2>1, KeepGood
<1>5. CASE BufferPolicy(s, k) \notin {"escape", "append"}
  <2>1. kept = p
    BY <1>5 DEF Kept
  <2> QED BY <1>2, <1>5, <2>1
<1> QED
  BY <1>3, <1>4, <1>5

LEMMA AcceptGood ==
  ASSUME NEW p, Good(p), DigitsRead(p), NEW env, NEW c \in Byte, NEW k \in Classes,
         NEW r, r = Accept(p, env, c, k)
  PROVE  Good(r) /\ (r.ret = "SUCCESS" => DigitsRead(r))
<1> DEFINE next  == StateTransition[p.state][k]
           kept  == Kept(p, env, c, p.state, k)
           moved == [kept EXCEPT !.state = next]
           acted == DoAction(kept, env, next)
<1>1. p.state \in States /\ p.buffer \in Seq(Int)
  BY DEF Good, ParserType
<1>2. /\ Good(kept)
      /\ next \in DigitStates \cup {"UC"} /\ kept.ret = "SUCCESS" => Len(kept.buffer) = Len(p.buffer) + 1
  BY <1>1, KeptIs
<1>3. /\ next \in States \cup Actions \cup {"__"}
      /\ next = "U3" => p.state = "U2"
      /\ next = "U4" => p.state = "U3"
      /\ next = "UC" => p.state = "U4"
  BY <1>1, TableIs
<1>4. /\ next = "__" => r = Raise(p, "UNEXPECTED_CHAR")
      /\ next \in States => r = Then(kept, moved)
      /\ next \in Actions => r = Then(kept, acted)
  <2>1. "__" \notin States /\ "__" \notin Actions /\ States \cap Actions = {}
    BY DEF States, Structural, NumberEnds, Actions
  <2> QED BY <2>1 DEF Accept, Kept
<1>5. kept.ret = "SUCCESS" =>
        /\ next = "U2" => Len(kept.buffer) >= 1
        /\ next = "U3" => Len(kept.buffer) >= 2
        /\ next = "U4" => Len(kept.buffer) >= 3
        /\ next = "UC" => Len(kept.buffer) >= 4
  BY <1>1, <1>2, <1>3 DEF DigitsRead, DigitStates
<1> HIDE DEF next, kept, moved, acted
<1>6. CASE next = "__"
  BY <1>4, <1>6, RaiseGood DEF Errors
<1>7. CASE next \in States
  <2>1. Good(moved)
    BY <1>2, <1>7 DEF moved, Good, ParserType, HasRoom
  <2>2. moved.state = next /\ moved.buffer = kept.buffer
    BY <1>2 DEF moved, Good, ParserType
  <2> QED BY <1>2, <1>4, <1>5, <1>7, <2>1, <2>2 DEF Then, DigitsRead
<1>8. CASE next \in Actions
  <2>1. CASE kept.ret = "SUCCESS"
    <3>1. Good(acted) /\ (acted.ret = "SUCCESS" => acted.state \notin DigitStates)
      BY <1>2, <1>5, <1>8, <2>1, ActionGood DEF acted
    <3> QED BY <1>4, <1>8, <2>1, <3>1 DEF Then, DigitsRead, DigitStates
  <2>2. CASE kept.ret # "SUCCESS"
    BY <1>2, <1>4, <1>8, <2>2 DEF Then
  <2> QED BY <2>1, <2>2
<1> QED
  BY <1>3, <1>6, <1>7, <1>8

LEMMA HeaderIs ==
  ASSUME NEW c \in Byte
  PROVE  Utf8Header(c) \in {0, 1, 2, 3, 4, 5, 255} /\ (Utf8Header(c) = 0 => c \in 0 .. 127)
BY DEF Byte, Utf8Header, BadUtf8

LEMMA FeedGood ==
  ASSUME NEW p, Good(p), DigitsRead(p), NEW env, NEW c \in Byte,
         NEW r, r = Feed(p, env, c)
  PROVE  Good(r) /\ (r.ret = "SUCCESS" => DigitsRead(r))
<1> DEFINE inside == p.left > 0
           left   == IF inside THEN p.left - 1 ELSE Utf8Header(c)
           q      == [p EXCEPT !.left = left]
           k      == CASE inside \/ q.left \in 1 .. 5 -> "OTHER"
                       [] OTHER -> CharacterClass[c]
<1>1. p \in ParserType /\ p.left \in Nat
  BY DEF Good, ParserType
<1>2. left \in Nat
  BY <1>1, HeaderIs
<1>3. Good(q) /\ DigitsRead(q) /\ q.left = left
  <2> HIDE DEF left
  <2> QED BY <1>1, <1>2 DEF Good, ParserType, HasRoom, DigitsRead
<1>4. /\ Good(Raise(p, "UTF8")) /\ Raise(p, "UTF8").ret # "SUCCESS"
      /\ Good(Raise(q, "UTF8")) /\ Raise(q, "UTF8").ret # "SUCCESS"
      /\ Good(Raise(q, "BAD_CHAR")) /\ Raise(q, "BAD_CHAR").ret # "SUCCESS"
  <2> HIDE DEF q
  <2> QED BY <1>3, RaiseGood DEF Errors
<1>5. \/ r \in {Raise(p, "UTF8"), Raise(q, "UTF8"), Raise(q, "BAD_CHAR")}
      \/ /\ r = Accept(q, env, c, k)
         /\ inside \/ q.left # BadUtf8
         /\ inside \/ q.left # 0 \/ k # "ERROR"
  BY DEF Feed
<1>6. ASSUME inside \/ q.left # BadUtf8, inside \/ q.left # 0 \/ k # "ERROR"
      PROVE  k \in Classes
  <2>1. CASE inside \/ q.left \in 1 .. 5
    <3>1. k = "OTHER"
      BY <2>1
    <3> QED BY <3>1 DEF Classes
  <2>2. CASE ~ (inside \/ q.left \in 1 .. 5)
    <3>1. k = CharacterClass[c]
      BY <2>2
    <3>2. q.left = Utf8Header(c)
      BY <1>3, <2>2
    <3> HIDE DEF q, k
    <3>3. q.left = 0 /\ c \in 0 .. 127
      BY <1>6, <2>2, <3>2, HeaderIs DEF BadUtf8
    <3>4. k \in Classes \cup {"ERROR"}
      BY <3>1, <3>3, ClassIs
    <3> QED BY <1>6, <2>2, <3>3, <3>4
  <2> QED BY <2>1, <2>2
<1>7. CASE r \in {Raise(p, "UTF8"), Raise(q, "UTF8"), Raise(q, "BAD_CHAR")}
  BY <1>4, <1>7
<1>8. CASE r = Accept(q, env, c, k) /\ k \in Classes
  <2> HIDE DEF q, k
  <2> QED BY <1>3, <1>8, AcceptGood
<1> QED
  BY <1>5, <1>6, <1>7, <1>8

----------------------------------------------------------------------------
(* The file.                                                               *)

\* Every byte leaves the parser inside its memory, and while the file is read
\* no call has failed.
ParserInv ==
  /\ text \in Seq(Byte) /\ pos \in 0 .. Len(text)
  /\ Good(parser)
  /\ verdict = "reading" => DigitsRead(parser)

LEMMA ParserInvInit == Init => ParserInv
<1> SUFFICES ASSUME Init PROVE ParserInv
  OBVIOUS
<1>1. PICK config \in Configs : parser = NewParser(config)
  BY DEF Init
<1>2. config \in ConfigType /\ text \in Seq(Byte)
  BY LintAssumption DEF Init
<1>3. Good(parser) /\ parser.state = "GO"
  BY <1>1, <1>2, NewGood
<1>4. DigitsRead(parser)
  BY <1>3 DEF DigitsRead
<1>5. pos \in 0 .. Len(text)
  BY <1>2 DEF Init
<1> QED
  BY <1>2, <1>3, <1>4, <1>5 DEF ParserInv

LEMMA ParserInvNext == ParserInv /\ [Next]_vars => ParserInv'
<1> SUFFICES ASSUME ParserInv, [Next]_vars PROVE ParserInv'
  OBVIOUS
<1> USE DEF ParserInv
<1>1. ASSUME NEW env \in Envs, ReadByte(env)
      PROVE  ParserInv'
  <2>1. text[pos + 1] \in Byte
    <3>1. pos + 1 \in 1 .. Len(text)
      BY <1>1 DEF ReadByte
    <3> QED BY <3>1
  <2>2. Good(parser') /\ (parser'.ret = "SUCCESS" => DigitsRead(parser'))
    <3>1. parser' = Feed(parser, env, text[pos + 1]) /\ DigitsRead(parser)
      BY <1>1 DEF ReadByte
    <3> QED BY <2>1, <3>1, FeedGood
  <2>3. verdict' = "reading" => parser'.ret = "SUCCESS"
    BY <1>1 DEF ReadByte
  <2>4. text' = text /\ pos' \in 0 .. Len(text)
    BY <1>1 DEF ReadByte
  <2>5. Good(parser)' /\ (verdict' = "reading" => DigitsRead(parser)')
    BY <2>2, <2>3 DEF Good, DigitsRead, HasRoom
  <2> QED BY <2>4, <2>5
<1>2. CASE EndOfFile
  <2>1. UNCHANGED <<text, pos, parser>> /\ verdict = "reading"
    BY <1>2 DEF EndOfFile
  <2> QED BY <2>1 DEF Good, DigitsRead, HasRoom
<1>3. CASE UNCHANGED vars
  BY <1>3 DEF vars, Good, DigitsRead, HasRoom
<1> QED
  BY <1>1, <1>2, <1>3 DEF Next

\* For every file, every setting and every failure of a call: the parser keeps
\* its types, and where a digit of a \u escape is awaited the digits before it
\* are in the buffer, so that decode_unicode_char finds the four it takes.
THEOREM Invariance == Spec => []ParserInv
BY ParserInvInit, ParserInvNext, PTL DEF Spec

\* A byte is written behind the characters kept so far only where the buffer
\* has a place for it and for the terminator, a decoded character takes no
\* more than its four digits did, and neither the buffer nor the stack grows
\* past its limit: buffer_push, state_push and decode_unicode_char of json.c,
\* for every file, every configuration and every failure of a call.
THEOREM BufferHasRoom == Spec => []BufferRoom
<1>1. ParserInv => BufferRoom
  BY DEF ParserInv, Good, HasRoom, BufferRoom
<1> QED
  BY <1>1, Invariance, PTL

----------------------------------------------------------------------------
(* The tree.  An array takes a value whenever the parser has one for it;   *)
(* an object must have a key then, and must not have one when it ends or   *)
(* reads the next.  Whether it has is not in the parser's stack: it        *)
(* follows from the state, the flag of the key and the value that waits.   *)

\* An event, the key of a structure, a structure, and the tree with its stack.
Event == [type : Types, data : Seq(Int)]
Key   == [at : {"null", "live", "freed"}, name : Seq(Int)]
Node  == [kind : Modes, items : Seq(Event), key : Key]
Tree  == [stack : Seq(Node), room : Nat, root : Seq(Event), sound : BOOLEAN,
          lost : BOOLEAN]

Pending        == {"FLOAT", "INT", "NULL", "TRUE", "FALSE"}
NumberStates   == NumberEnds \cup {"M0", "R1", "X1", "X2"}
StringStates   == {"_S", "E0", "U1", "U2", "U3", "U4", "D1", "D2"}
ConstantStates == {"T1", "T2", "T3", "F1", "F2", "F3", "F4", "N1", "N2", "N3"}
CommentStates  == {"C1", "C2", "C3", "Y1"}

\* The state of the document: behind a comment it is the one before it.
Now(p) ==
  IF p.state \notin CommentStates THEN p.state
  ELSE IF p.saved \in Structural THEN p.saved ELSE "OK"

\* A value waits behind a number or a constant only, and a key is expected at
\* the beginning of an object, behind its commas and inside the key.
Lexed(p) ==
  /\ p.type \in Pending \cup {"NONE"}
  /\ p.state \in NumberStates => p.type # "NONE"
  /\ p.type # "NONE" => p.state \in NumberStates \cup {"OK"}
  /\ Now(p) \in {"_O", "_K"} => p.expectingKey
  /\ p.expectingKey => Now(p) \in {"_O", "_K"} \cup StringStates

\* The innermost structure awaits a value: an array any, an object the one of
\* the key it has read.
Due(p) == ~p.expectingKey /\ Now(p) # "GO" /\ (Now(p) = "OK" => p.type # "NONE")

\* A structure of the tree for one of the parser: an object has a key exactly
\* while a value is due, and the key is allocated then.
TopFits(mode, node, due) ==
  /\ node.kind = mode
  /\ node.kind = "array" => node.key.at = "null"
  /\ node.kind = "object" => (node.key.at = "live" <=> due)

\* Every structure but the innermost awaits the one that is open inside it.
Shape(modes, stack, due) ==
  /\ Len(stack) = Len(modes)
  /\ \A i \in 1 .. Len(stack) : TopFits(modes[i], stack[i], i < Len(stack) \/ due)

\* The parser and the tree at the same place of the document.
InStep(p, d) ==
  /\ Lexed(p)
  /\ Shape(p.stack, d.stack, Due(p))
  /\ Due(p) => p.stack # <<>>
  /\ p.expectingKey => p.stack # <<>> /\ Last(p.stack) = "object"
  /\ Now(p) = "GO" => p.stack = <<>> /\ d.root = <<>>

\* A tree inside its memory that holds these events, unless an allocation of
\* tree_append has failed.
Tells(d, events) == d \in Tree /\ d.room = DomStack /\ d.sound /\ (d.lost \/ TreeEvents(d) = events)

----------------------------------------------------------------------------

\* The events a structure stands for.
Begun(node) == <<Mark(IF node.kind = "object" THEN "OBJECT_BEGIN" ELSE "ARRAY_BEGIN")>> \o node.items
Ending(node) == Mark(IF node.kind = "object" THEN "OBJECT_END" ELSE "ARRAY_END")
Keyed(node) == IF node.key.at = "live" THEN <<[type |-> "KEY", data |-> node.key.name]>> ELSE <<>>

\* The marks of structures are events.
LEMMA MarkType ==
  /\ \A t \in Types : Mark(t) \in Event
  /\ {"OBJECT_BEGIN", "ARRAY_BEGIN", "OBJECT_END", "ARRAY_END", "KEY"} \subseteq Types
<1>1. <<>> \in Seq(Int)
  OBVIOUS
<1>2. {"OBJECT_BEGIN", "ARRAY_BEGIN", "OBJECT_END", "ARRAY_END", "KEY"} \subseteq Types
  BY DEF Types, Scalars
<1> QED
  BY <1>1, <1>2 DEF Mark, Event

\* A structure that is open is its beginning and its key; one that is closed is
\* its beginning and its end.
LEMMA UnfinishedIs ==
  ASSUME NEW node \in Node
  PROVE  /\ Begun(node) \in Seq(Event) /\ Keyed(node) \in Seq(Event) /\ Ending(node) \in Event
         /\ Unfinished(node) = Begun(node) \o Keyed(node)
         /\ Unfinished(node) \in Seq(Event)
         /\ Whole(node) = Append(Begun(node), Ending(node))
<1> DEFINE b == Mark(IF node.kind = "object" THEN "OBJECT_BEGIN" ELSE "ARRAY_BEGIN")
           e == Ending(node)
<1>1. b \in Event /\ e \in Event
  BY MarkType DEF Ending
<1>2. node.items \in Seq(Event) /\ node.kind \in Modes /\ node.key.name \in Seq(Int)
  BY DEF Node, Key
<1>3. Keyed(node) \in Seq(Event)
  <2>1. [type |-> "KEY", data |-> node.key.name] \in Event
    BY <1>2, MarkType DEF Event
  <2> QED BY <2>1 DEF Keyed
<1>4. Begun(node) = <<b>> \o node.items
  BY DEF Begun
<1>5. Whole(node) = <<b>> \o node.items \o <<e>>
  BY DEF Whole, Ending
<1> HIDE DEF b, e
<1>6. Begun(node) \in Seq(Event) /\ Len(Begun(node)) = Len(node.items) + 1 /\ Len(node.items) \in Nat
  BY <1>1, <1>2, <1>4
<1>7. Whole(node) = Append(Begun(node), e)
  <2>1. Whole(node) = Begun(node) \o <<e>>
    BY <1>4, <1>5
  <2> HIDE DEF Begun, Whole
  <2> QED BY <1>1, <1>6, <2>1
<1>8. SubSeq(Whole(node), 1, Len(node.items) + 1) = Begun(node)
  <2> HIDE DEF Begun, Whole
  <2>1. Front(Append(Begun(node), e)) = Begun(node)
    <3>1. ASSUME NEW x \in Seq(Event), NEW a \in Event PROVE Front(Append(x, a)) = x
      BY AppendedIs
    <3> QED BY <1>1, <1>6, <3>1
  <2>2. Len(Append(Begun(node), e)) = Len(Begun(node)) + 1
    BY <1>1, <1>6
  <2> QED BY <1>6, <1>7, <2>1, <2>2 DEF Front
<1>9. Unfinished(node) = Begun(node) \o Keyed(node)
  BY <1>8 DEF Unfinished, Keyed
<1> QED
  BY <1>1, <1>3, <1>6, <1>7, <1>9 DEF e

\* What is told of a document.
Story == Seq(Event)

\* What the open structures have been told.
Told(stack) == FoldLeft(LAMBDA all, node : all \o Unfinished(node), <<>>, stack)

\* The open structures tell one after the other.
LEMMA ToldIs ==
  /\ Told(<<>>) = <<>>
  /\ \A s \in Seq(Node) : Told(s) \in Story
  /\ \A s \in Seq(Node) : \A a \in Node : Told(Append(s, a)) = Told(s) \o Unfinished(a)
<1> DEFINE Op == [v \in Story |-> [a \in Node |-> v \o Unfinished(a)]]
           F  == [s \in Seq(Node) |-> Told(s)]
<1>1. <<>> \in Story
  BY DEF Story
<1>2. Op \in Curried(Story, Node, Story)
  BY UnfinishedIs DEF Curried, Story
<1>3. \A v \in Story : \A a \in Node : Op[v][a] = v \o Unfinished(a)
  OBVIOUS
<1> HIDE DEF Op
<1>4. ASSUME NEW s \in Seq(Node)
      PROVE  \E f : SeqObeys(f, s, Story, <<>>, Op) /\ Told(s) = f[DOMAIN s]
  <2> DEFINE P(f) == f = [S \in SUBSET (DOMAIN s) |->
                            IF S = {} THEN <<>> ELSE f[S \ {Most(S)}] \o Unfinished(s[Most(S)])]
             f0 == CHOOSE f : P(f)
  <2>1. Told(s) = f0[DOMAIN s]
    BY DEF Told, FoldLeft, MapThenFoldSet, Max, Most
  <2>2. PICK it : IsSeqFold(it, s, Story, <<>>, Op)
    BY <1>1, <1>2, SeqFoldExists
  <2>3. /\ DOMAIN s = 1 .. Len(s)
        /\ \A S \in SUBSET (DOMAIN s) : S # {} => Most(S) \in DOMAIN s /\ s[Most(S)] \in Node
    BY MostIs
  <2>4. P(it)
    <3>1. /\ it \in [SUBSET (DOMAIN s) -> Story] /\ it[{}] = <<>>
          /\ \A S \in SUBSET (DOMAIN s) : S # {} => it[S] = Op[it[S \ {Most(S)}]][s[Most(S)]]
      BY <2>2 DEF IsSeqFold
    <3>2. ASSUME NEW S \in SUBSET (DOMAIN s), S # {}
          PROVE  it[S] = it[S \ {Most(S)}] \o Unfinished(s[Most(S)])
      <4>1. it[S \ {Most(S)}] \in Story
        BY <3>1
      <4> QED BY <1>3, <2>3, <3>1, <3>2, <4>1
    <3> QED BY <3>1, <3>2
  <2>5. P(f0)
    BY <2>4
  <2> HIDE DEF f0
  <2>6. SeqObeys(f0, s, Story, <<>>, Op)
    <3>1. f0[{}] = <<>>
      BY <2>5
    <3>2. ASSUME NEW S \in SUBSET (DOMAIN s), S # {}, f0[S \ {Most(S)}] \in Story
          PROVE  f0[S] = Op[f0[S \ {Most(S)}]][s[Most(S)]]
      BY <1>3, <2>3, <2>5, <3>2
    <3> QED BY <3>1, <3>2 DEF SeqObeys
  <2> QED BY <2>1, <2>6
<1>5. \A s \in Seq(Node) : \E f : SeqObeys(f, s, Story, <<>>, Op) /\ F[s] = f[DOMAIN s]
  BY <1>4
<1>6. \A s \in Seq(Node) : F[s] = Told(s)
  OBVIOUS
<1> HIDE DEF F
<1>7. /\ \A s \in Seq(Node) : F[s] \in Story
      /\ F[<<>>] = <<>>
      /\ \A s \in Seq(Node) : \A a \in Node : F[Append(s, a)] = Op[F[s]][a]
  BY <1>1, <1>2, <1>5, FoldIs
<1>8. <<>> \in Seq(Node) /\ \A s \in Seq(Node) : \A a \in Node : Append(s, a) \in Seq(Node)
  OBVIOUS
<1>9. Told(<<>>) = <<>>
  BY <1>6, <1>7, <1>8
<1>10. ASSUME NEW s \in Seq(Node) PROVE Told(s) = F[s]
  BY <1>6
<1>11. ASSUME NEW s \in Seq(Node), NEW a \in Node
       PROVE  Told(Append(s, a)) = Told(s) \o Unfinished(a)
  <2>1. Told(Append(s, a)) = F[Append(s, a)]
    BY <1>8, <1>10
  <2> QED BY <1>3, <1>7, <1>10, <2>1
<1> QED
  BY <1>7, <1>9, <1>10, <1>11

\* A tree changed in one place is a tree.
LEMMA PlaceType ==
  ASSUME NEW d \in Tree
  PROVE  /\ d.stack \in Seq(Node) /\ d.root \in Seq(Event) /\ d.room \in Nat /\ d.sound \in BOOLEAN
         /\ d.lost \in BOOLEAN
         /\ \A stack \in Seq(Node) : \A room \in Nat : \A sound \in BOOLEAN :
              /\ [d EXCEPT !.stack = stack] \in Tree
              /\ [d EXCEPT !.stack = stack, !.sound = sound] \in Tree
              /\ [d EXCEPT !.sound = sound] \in Tree
              /\ [d EXCEPT !.room = room, !.sound = sound, !.stack = stack] \in Tree
         /\ \A root \in Seq(Event) : [d EXCEPT !.root = root] \in Tree
BY DEF Tree

\* An element is attached to the innermost structure, or finds no room there.
LEMMA AttachType ==
  ASSUME NEW d \in Tree, d.stack # <<>>, NEW memory \in Memory, NEW kept \in BOOLEAN, NEW items \in Seq(Event)
  PROVE  Attach(d, memory, kept, items) \in Tree
<1> DEFINE top   == Last(d.stack)
           keyed == top.key.at # "null"
           name  == IF memory.copy THEN top.key.name ELSE <<>>
           named == IF keyed THEN <<[type |-> "KEY", data |-> name]>> \o items ELSE items
           grown == IF kept THEN top.items \o named ELSE top.items
           key   == IF keyed THEN [top.key EXCEPT !.at = "freed"] ELSE top.key
           node  == [top EXCEPT !.items = grown, !.key = key]
           lost  == d.lost \/ ~ kept \/ (keyed /\ ~ memory.copy)
           sound == d.sound /\ top.key.at = (IF top.kind = "object" THEN "live" ELSE "null")
<1>1. top \in Node /\ Front(d.stack) \in Seq(Node)
  BY PlaceType, LastIs
<1>2. Attach(d, memory, kept, items)
        = [d EXCEPT !.stack = Append(Front(d.stack), node), !.lost = lost, !.sound = sound]
  BY DEF Attach
<1> HIDE DEF top
<1>3. top.items \in Seq(Event) /\ top.key \in Key /\ top.key.name \in Seq(Int)
  BY <1>1 DEF Node, Key
<1>4. named \in Seq(Event)
  <2>1. <<>> \in Seq(Int)
    OBVIOUS
  <2>2. name \in Seq(Int)
    BY <1>3, <2>1
  <2> HIDE DEF name
  <2>3. [type |-> "KEY", data |-> name] \in Event
    BY <2>2, MarkType DEF Event
  <2> QED BY <2>3
<1>5. key \in Key
  BY <1>3 DEF Key
<1> HIDE DEF named, key
<1>6. node \in Node
  <2>1. grown \in Seq(Event)
    BY <1>3, <1>4
  <2> HIDE DEF grown
  <2> QED BY <1>1, <1>5, <2>1 DEF Node
<1>7. sound \in BOOLEAN /\ lost \in BOOLEAN
  BY PlaceType
<1> HIDE DEF node, sound, lost
<1> DEFINE stack == Append(Front(d.stack), node)
<1>8. stack \in Seq(Node)
  BY <1>1, <1>6
<1>9. Attach(d, memory, kept, items) = [d EXCEPT !.stack = stack, !.lost = lost, !.sound = sound]
  BY <1>2
<1> HIDE DEF stack
<1>10. [d EXCEPT !.stack = stack, !.lost = lost, !.sound = sound] \in Tree
  BY <1>7, <1>8 DEF Tree
<1> QED
  BY <1>9, <1>10

\* dom_pop, dom_push and the callback keep the tree a tree.
LEMMA PopType ==
  ASSUME NEW d \in Tree, d.stack # <<>>, NEW memory \in Memory
  PROVE  DomPop(d, memory) \in Tree
<1> DEFINE rest == [d EXCEPT !.stack = Front(@)]
           top  == Last(d.stack)
<1>1. top \in Node /\ Front(d.stack) \in Seq(Node)
  BY PlaceType, LastIs
<1>2. rest \in Tree /\ Whole(top) \in Seq(Event)
  <2>1. rest \in Tree
    BY <1>1, PlaceType
  <2>2. Whole(top) \in Seq(Event)
    <3> HIDE DEF top
    <3> QED BY <1>1, UnfinishedIs, AppendedIs
  <2> QED BY <2>1, <2>2
<1>3. DomPop(d, memory) = IF rest.stack = <<>> THEN [rest EXCEPT !.root = Whole(top)]
                          ELSE Attach(rest, memory, memory.append, Whole(top))
  BY DEF DomPop
<1>4. memory.append \in BOOLEAN
  BY DEF Memory
<1> HIDE DEF rest, top
<1>5. CASE rest.stack = <<>>
  BY <1>2, <1>3, <1>5, PlaceType
<1>6. CASE rest.stack # <<>>
  <2>1. Attach(rest, memory, memory.append, Whole(top)) \in Tree
    BY <1>2, <1>4, <1>6, AttachType
  <2> QED BY <1>3, <1>6, <2>1
<1> QED
  BY <1>5, <1>6

LEMMA PushType ==
  ASSUME NEW d \in Tree, NEW memory \in Memory, NEW kind \in Modes
  PROVE  DomPush(d, memory, kind) \in Tree
<1> DEFINE full == Len(d.stack) = d.room
           room == IF full THEN 2 * d.room ELSE d.room
           held == IF full THEN (2 * d.room) \div ElemSize ELSE d.room
           node == [kind |-> kind, items |-> <<>>, key |-> NullKey]
           sound == d.sound /\ Len(d.stack) < held
<1>1. d.stack \in Seq(Node) /\ d.room \in Nat /\ d.sound \in BOOLEAN
  BY PlaceType
<1>2. node \in Node
  <2>1. <<>> \in Seq(Event) /\ NullKey \in Key
    <3>1. <<>> \in Seq(Int)
      OBVIOUS
    <3> QED BY <3>1 DEF NullKey, Key
  <2> QED BY <2>1 DEF Node
<1>3. DomPush(d, memory, kind) =
        IF full /\ ~memory.push THEN d
        ELSE [d EXCEPT !.room = room, !.sound = sound, !.stack = Append(d.stack, node)]
  BY DEF DomPush
<1>4. room \in Nat /\ sound \in BOOLEAN
  BY <1>1
<1> HIDE DEF node, room, sound
<1> DEFINE stack == Append(d.stack, node)
<1>5. stack \in Seq(Node)
  BY <1>1, <1>2
<1> HIDE DEF stack
<1>6. [d EXCEPT !.room = room, !.sound = sound, !.stack = stack] \in Tree
  BY <1>4, <1>5 DEF Tree
<1> QED
  BY <1>3, <1>6 DEF stack

LEMMA CallbackType ==
  ASSUME NEW d \in Tree, NEW memory \in Memory, NEW e \in Event
  PROVE  DomCallback(d, memory, e) \in Tree
<1> DEFINE r == DomCallback(d, memory, e)
<1>1. "array" \in Modes /\ "object" \in Modes
  BY DEF Modes
<1>2. CASE e.type = "ARRAY_BEGIN"
  BY <1>1, <1>2, PushType DEF DomCallback
<1>3. CASE e.type = "OBJECT_BEGIN"
  BY <1>1, <1>3, PushType DEF DomCallback
<1>4. CASE e.type \notin {"ARRAY_BEGIN", "OBJECT_BEGIN"} /\ d.stack = <<>>
  <2>1. r = [d EXCEPT !.sound = FALSE]
    BY <1>4 DEF DomCallback
  <2> QED BY <2>1, PlaceType
<1>5. CASE e.type \in {"ARRAY_END", "OBJECT_END"} /\ d.stack # <<>>
  <2>1. r = DomPop(d, memory)
    BY <1>5 DEF DomCallback
  <2> QED BY <1>5, <2>1, PopType
<1>6. CASE e.type = "KEY" /\ d.stack # <<>>
  <2> DEFINE top == Last(d.stack)
             node == [top EXCEPT !.key = KeyOf(e.data)]
  <2>1. r = [d EXCEPT !.stack = Append(Front(d.stack), node)]
    BY <1>6 DEF DomCallback
  <2>2. top \in Node /\ Front(d.stack) \in Seq(Node)
    BY <1>6, PlaceType, LastIs
  <2>3. KeyOf(e.data) \in Key
    BY DEF KeyOf, Key, Event
  <2> HIDE DEF top
  <2>4. node \in Node
    BY <2>2, <2>3 DEF Node
  <2> HIDE DEF node
  <2>5. Append(Front(d.stack), node) \in Seq(Node)
    BY <2>2, <2>4
  <2> QED BY <2>1, <2>5, PlaceType
<1>7. CASE e.type \notin {"ARRAY_BEGIN", "OBJECT_BEGIN", "ARRAY_END", "OBJECT_END", "KEY"} /\ d.stack # <<>>
  <2>1. r = Attach(d, memory, TRUE, <<e>>)
    BY <1>7 DEF DomCallback
  <2>2. <<e>> \in Seq(Event)
    OBVIOUS
  <2> QED BY <1>7, <2>1, <2>2, AttachType
<1> QED
  BY <1>2, <1>3, <1>4, <1>5, <1>6, <1>7

\* What the callback has made of a tree and of some events.
Built(d, memory, events) == FoldLeft(LAMBDA x, e : DomCallback(x, memory, e), d, events)

\* The tree is built event by event.
LEMMA BuiltIs ==
  ASSUME NEW d \in Tree, NEW memory \in Memory
  PROVE  /\ Built(d, memory, <<>>) = d
         /\ \A s \in Seq(Event) : Built(d, memory, s) \in Tree
         /\ \A s \in Seq(Event) : \A a \in Event : Built(d, memory, Append(s, a)) = DomCallback(Built(d, memory, s), memory, a)
<1> DEFINE Op == [v \in Tree |-> [a \in Event |-> DomCallback(v, memory, a)]]
           F  == [s \in Seq(Event) |-> Built(d, memory, s)]
<1>1. d \in Tree
  OBVIOUS
<1>2. Op \in Curried(Tree, Event, Tree)
  BY CallbackType DEF Curried
<1>3. \A v \in Tree : \A a \in Event : Op[v][a] = DomCallback(v, memory, a)
  OBVIOUS
<1> HIDE DEF Op
<1>4. ASSUME NEW s \in Seq(Event)
      PROVE  \E f : SeqObeys(f, s, Tree, d, Op) /\ Built(d, memory, s) = f[DOMAIN s]
  <2> DEFINE P(f) == f = [S \in SUBSET (DOMAIN s) |->
                            IF S = {} THEN d ELSE DomCallback(f[S \ {Most(S)}], memory, s[Most(S)])]
             f0 == CHOOSE f : P(f)
  <2>1. Built(d, memory, s) = f0[DOMAIN s]
    BY DEF Built, FoldLeft, MapThenFoldSet, Max, Most
  <2>2. PICK it : IsSeqFold(it, s, Tree, d, Op)
    BY <1>1, <1>2, SeqFoldExists
  <2>3. /\ DOMAIN s = 1 .. Len(s)
        /\ \A S \in SUBSET (DOMAIN s) : S # {} => Most(S) \in DOMAIN s /\ s[Most(S)] \in Event
    BY MostIs
  <2>4. P(it)
    <3>1. /\ it \in [SUBSET (DOMAIN s) -> Tree] /\ it[{}] = d
          /\ \A S \in SUBSET (DOMAIN s) : S # {} => it[S] = Op[it[S \ {Most(S)}]][s[Most(S)]]
      BY <2>2 DEF IsSeqFold
    <3>2. ASSUME NEW S \in SUBSET (DOMAIN s), S # {}
          PROVE  it[S] = DomCallback(it[S \ {Most(S)}], memory, s[Most(S)])
      <4>1. it[S \ {Most(S)}] \in Tree
        BY <3>1
      <4> QED BY <1>3, <2>3, <3>1, <3>2, <4>1
    <3> QED BY <3>1, <3>2
  <2>5. P(f0)
    BY <2>4
  <2> HIDE DEF f0
  <2>6. SeqObeys(f0, s, Tree, d, Op)
    <3>1. f0[{}] = d
      BY <2>5
    <3>2. ASSUME NEW S \in SUBSET (DOMAIN s), S # {}, f0[S \ {Most(S)}] \in Tree
          PROVE  f0[S] = Op[f0[S \ {Most(S)}]][s[Most(S)]]
      BY <1>3, <2>3, <2>5, <3>2
    <3> QED BY <3>1, <3>2 DEF SeqObeys
  <2> QED BY <2>1, <2>6
<1>5. \A s \in Seq(Event) : \E f : SeqObeys(f, s, Tree, d, Op) /\ F[s] = f[DOMAIN s]
  BY <1>4
<1>6. \A s \in Seq(Event) : F[s] = Built(d, memory, s)
  OBVIOUS
<1> HIDE DEF F
<1>7. /\ \A s \in Seq(Event) : F[s] \in Tree
      /\ F[<<>>] = d
      /\ \A s \in Seq(Event) : \A a \in Event : F[Append(s, a)] = Op[F[s]][a]
  BY <1>1, <1>2, <1>5, FoldIs
<1>8. <<>> \in Seq(Event) /\ \A s \in Seq(Event) : \A a \in Event : Append(s, a) \in Seq(Event)
  OBVIOUS
<1>9. Built(d, memory, <<>>) = d
  BY <1>6, <1>7, <1>8
<1>10. ASSUME NEW s \in Seq(Event) PROVE Built(d, memory, s) = F[s]
  BY <1>6
<1>11. ASSUME NEW s \in Seq(Event), NEW a \in Event
       PROVE  Built(d, memory, Append(s, a)) = DomCallback(Built(d, memory, s), memory, a)
  <2>1. Built(d, memory, Append(s, a)) = F[Append(s, a)]
    BY <1>8, <1>10
  <2> QED BY <1>3, <1>7, <1>10, <2>1
<1> QED
  BY <1>7, <1>9, <1>10, <1>11

\* What a tree tells.
LEMMA ToldLast ==
  ASSUME NEW d \in Tree
  PROVE  /\ d.stack = <<>> => TreeEvents(d) = d.root
         /\ d.stack # <<>> => TreeEvents(d) = Told(d.stack)
BY DEF TreeEvents, Told, FoldLeft

\* Concatenation associates.
LEMMA EventsAssociate ==
  ASSUME NEW x \in Seq(Event), NEW y \in Seq(Event), NEW z \in Seq(Event)
  PROVE  (x \o y) \o z = x \o (y \o z)
BY ConcatAssociative

\* The shape of a stack, from its innermost structure on.
LEMMA ShapeTop ==
  ASSUME NEW modes \in Seq(Modes), NEW stack \in Seq(Node), NEW mode \in Modes, NEW node \in Node,
         NEW due \in BOOLEAN
  PROVE  Shape(Append(modes, mode), Append(stack, node), due)
           <=> Shape(modes, stack, TRUE) /\ TopFits(mode, node, due)
<1> DEFINE ms == Append(modes, mode)
           st == Append(stack, node)
           n  == Len(stack)
<1>1. /\ Len(ms) = Len(modes) + 1 /\ Len(st) = n + 1 /\ n \in Nat /\ Len(modes) \in Nat
      /\ ms[Len(modes) + 1] = mode /\ st[n + 1] = node
      /\ \A i \in 1 .. Len(modes) : ms[i] = modes[i]
      /\ \A i \in 1 .. n : st[i] = stack[i]
  OBVIOUS
<1> HIDE DEF ms, st
<1>2. ASSUME Shape(ms, st, due)
      PROVE  Shape(modes, stack, TRUE) /\ TopFits(mode, node, due)
  <2>1. /\ Len(modes) = n
        /\ \A i \in 1 .. n + 1 : TopFits(ms[i], st[i], i < n + 1 \/ due)
    BY <1>1, <1>2 DEF Shape
  <2>2. TopFits(mode, node, due)
    <3>1. n + 1 \in 1 .. n + 1 /\ ~ (n + 1 < n + 1) /\ ((n + 1 < n + 1 \/ due) <=> due)
      BY <1>1
    <3>2. TopFits(mode, node, n + 1 < n + 1 \/ due)
      BY <1>1, <2>1, <3>1
    <3> QED BY <3>1, <3>2 DEF TopFits
  <2>3. ASSUME NEW i \in 1 .. n
        PROVE  TopFits(modes[i], stack[i], i < n \/ TRUE)
    <3>1. i \in 1 .. n + 1 /\ i < n + 1 /\ ms[i] = modes[i] /\ st[i] = stack[i]
      BY <1>1, <2>1
    <3>2. TopFits(modes[i], stack[i], i < n + 1 \/ due)
      BY <2>1, <3>1
    <3> QED BY <3>1, <3>2 DEF TopFits
  <2> QED BY <2>1, <2>2, <2>3 DEF Shape
<1>3. ASSUME Shape(modes, stack, TRUE), TopFits(mode, node, due)
      PROVE  Shape(ms, st, due)
  <2>1. Len(ms) = Len(st) /\ Len(modes) = n
    BY <1>1, <1>3 DEF Shape
  <2>2. ASSUME NEW i \in 1 .. n + 1
        PROVE  TopFits(ms[i], st[i], i < n + 1 \/ due)
    <3>1. CASE i = n + 1
      <4>1. (i < n + 1 \/ due) <=> due
        BY <1>1, <3>1
      <4>2. ms[i] = mode /\ st[i] = node
        BY <1>1, <2>1, <3>1
      <4> QED BY <1>3, <4>1, <4>2 DEF TopFits
    <3>2. CASE i # n + 1
      <4>1. i \in 1 .. n /\ i < n + 1 /\ ms[i] = modes[i] /\ st[i] = stack[i]
        BY <1>1, <2>1, <3>2
      <4>2. TopFits(modes[i], stack[i], i < n \/ TRUE)
        BY <1>3, <4>1 DEF Shape
      <4> QED BY <4>1, <4>2 DEF TopFits
    <3> QED BY <3>1, <3>2
  <2> QED BY <1>1, <2>1, <2>2 DEF Shape
<1> QED
  BY <1>2, <1>3 DEF ms, st

\* A stack of one shape with the other is as deep.
LEMMA ShapeEmpty ==
  ASSUME NEW modes \in Seq(Modes), NEW stack \in Seq(Node), NEW due, Shape(modes, stack, due)
  PROVE  (modes = <<>> <=> stack = <<>>) /\ Len(modes) = Len(stack)
BY DEF Shape

\* The innermost structure, and those around it.
LEMMA ShapeLast ==
  ASSUME NEW modes \in Seq(Modes), NEW stack \in Seq(Node), NEW due \in BOOLEAN,
         Shape(modes, stack, due), modes # <<>>
  PROVE  Shape(Front(modes), Front(stack), TRUE) /\ TopFits(Last(modes), Last(stack), due)
<1>1. Last(modes) \in Modes /\ Front(modes) \in Seq(Modes) /\ modes = Append(Front(modes), Last(modes))
  BY LastIs
<1>2. stack # <<>>
  BY ShapeEmpty
<1>3. Last(stack) \in Node /\ Front(stack) \in Seq(Node) /\ stack = Append(Front(stack), Last(stack))
  BY <1>2, LastIs
<1>4. Shape(Append(Front(modes), Last(modes)), Append(Front(stack), Last(stack)), due)
  BY <1>1, <1>3
<1> QED
  BY <1>1, <1>3, <1>4, ShapeTop

\* A new structure.
LEMMA BeginTold ==
  ASSUME NEW d, NEW events \in Story, Tells(d, events), NEW modes \in Seq(Modes), NEW due \in BOOLEAN,
         Shape(modes, d.stack, due), d.stack # <<>> => due, d.stack = <<>> => d.root = <<>>,
         Len(d.stack) < DomStack, NEW memory \in Memory, NEW kind \in Modes,
         NEW e, e = Mark(IF kind = "object" THEN "OBJECT_BEGIN" ELSE "ARRAY_BEGIN"),
         NEW r, r = DomCallback(d, memory, e)
  PROVE  /\ Tells(r, Append(events, e))
         /\ Shape(Append(modes, kind), r.stack, kind = "array")
<1> DEFINE node == [kind |-> kind, items |-> <<>>, key |-> NullKey]
           stack == Append(d.stack, node)
<1>1. /\ d \in Tree /\ d.room = DomStack /\ d.sound /\ (d.lost \/ TreeEvents(d) = events)
      /\ d.stack \in Seq(Node) /\ DomStack \in Nat /\ Len(d.stack) \in Nat
  <2>1. d \in Tree /\ d.room = DomStack /\ d.sound /\ (d.lost \/ TreeEvents(d) = events)
    BY DEF Tells
  <2>2. d.stack \in Seq(Node) /\ DomStack \in Nat
    BY <2>1, PlaceType, DomAssumption
  <2> QED BY <2>1, <2>2
<1>2. node \in Node
  <2>1. <<>> \in Seq(Event) /\ NullKey \in Key
    <3>1. <<>> \in Seq(Int)
      OBVIOUS
    <3> QED BY <3>1 DEF NullKey, Key
  <2> QED BY <2>1 DEF Node
<1>3. r = [d EXCEPT !.stack = stack]
  <2>1. r = DomPush(d, memory, kind)
    <3>1. e.type = IF kind = "object" THEN "OBJECT_BEGIN" ELSE "ARRAY_BEGIN"
      BY DEF Mark
    <3>2. kind \in {"array", "object"}
      BY DEF Modes
    <3> QED BY <3>1, <3>2 DEF DomCallback
  <2>2. Len(d.stack) # d.room
    BY <1>1
  <2>3. r = [d EXCEPT !.room = d.room, !.sound = d.sound /\ Len(d.stack) < d.room, !.stack = stack]
    BY <2>1, <2>2 DEF DomPush
  <2>4. (d.sound /\ Len(d.stack) < d.room) = d.sound
    BY <1>1
  <2> HIDE DEF stack
  <2>5. r = [d EXCEPT !.room = d.room, !.sound = d.sound, !.stack = stack]
    BY <2>3, <2>4
  <2> QED BY <1>1, <2>5 DEF Tree
<1>4. stack \in Seq(Node) /\ stack # <<>>
  <2> HIDE DEF node
  <2> QED BY <1>1, <1>2, AppendedIs
<1>5. r \in Tree /\ r.stack = stack /\ r.room = DomStack /\ r.sound /\ r.lost = d.lost
  <2> HIDE DEF stack
  <2> QED BY <1>1, <1>3, <1>4 DEF Tree
<1>6. ASSUME ~ d.lost PROVE TreeEvents(r) = Append(events, e)
  <2>1. Unfinished(node) = <<e>>
    <3>1. Begun(node) = <<e>> /\ Keyed(node) = <<>>
      BY DEF Begun, Keyed, NullKey
    <3>2. e \in Event
      BY MarkType
    <3> HIDE DEF node
    <3> QED BY <1>2, <3>1, <3>2, UnfinishedIs
  <2> HIDE DEF node
  <2>2. Told(stack) = Told(d.stack) \o Unfinished(node) /\ Told(d.stack) \in Story
    BY <1>1, <1>2, ToldIs
  <2>3. Told(d.stack) = events
    BY <1>1, <1>6, ToldLast, ToldIs
  <2>4. TreeEvents(r) = events \o <<e>>
    <3> HIDE DEF stack
    <3> QED BY <1>4, <1>5, <2>1, <2>2, <2>3, ToldLast
  <2>5. events \o <<e>> = Append(events, e)
    BY MarkType DEF Story
  <2> QED BY <2>4, <2>5
<1>7. Shape(Append(modes, kind), stack, kind = "array")
  <2>1. TopFits(kind, node, kind = "array")
    BY DEF TopFits, NullKey, Modes
  <2>2. Shape(modes, d.stack, TRUE)
    <3>1. CASE d.stack = <<>>
      <4>1. modes = <<>>
        <5>1. Shape(modes, <<>>, due)
          BY <3>1
        <5> QED BY <5>1 DEF Shape
      <4>2. Shape(<<>>, <<>>, TRUE)
        BY DEF Shape
      <4> QED BY <3>1, <4>1, <4>2
    <3>2. CASE d.stack # <<>>
      BY <3>2
    <3> QED BY <3>1, <3>2
  <2> HIDE DEF node, Shape
  <2>3. (kind = "array") \in BOOLEAN
    OBVIOUS
  <2> QED BY <1>1, <1>2, <2>1, <2>2, <2>3, ShapeTop
<1> QED
  BY <1>5, <1>6, <1>7 DEF Tells

\* An element goes into the innermost structure, under its key.
LEMMA AttachTold ==
  ASSUME NEW d, NEW events \in Story, Tells(d, events), NEW modes \in Seq(Modes),
         Shape(modes, d.stack, TRUE), modes # <<>>, NEW items \in Seq(Event),
         NEW memory \in Memory, NEW kept \in BOOLEAN, NEW r, r = Attach(d, memory, kept, items)
  PROVE  Tells(r, events \o items) /\ Shape(modes, r.stack, FALSE) /\ (d.lost => r.lost)
<1> DEFINE top   == Last(d.stack)
           rest  == Front(d.stack)
           keyed == top.key.at # "null"
           name  == IF memory.copy THEN top.key.name ELSE <<>>
           named == IF keyed THEN <<[type |-> "KEY", data |-> name]>> \o items ELSE items
           grown == IF kept THEN top.items \o named ELSE top.items
           key   == IF keyed THEN [top.key EXCEPT !.at = "freed"] ELSE top.key
           node  == [top EXCEPT !.items = grown, !.key = key]
           lost  == d.lost \/ ~ kept \/ (keyed /\ ~ memory.copy)
           stack == Append(rest, node)
<1>1. /\ d \in Tree /\ d.room = DomStack /\ d.sound /\ (d.lost \/ TreeEvents(d) = events)
      /\ d.stack \in Seq(Node) /\ d.stack # <<>>
  <2>1. d \in Tree /\ d.room = DomStack /\ d.sound /\ (d.lost \/ TreeEvents(d) = events)
    BY DEF Tells
  <2>2. d.stack \in Seq(Node)
    BY <2>1, PlaceType
  <2> QED BY <2>1, <2>2, ShapeEmpty
<1>2. top \in Node /\ rest \in Seq(Node) /\ d.stack = Append(rest, top)
  BY <1>1, LastIs
<1>3. Shape(Front(modes), rest, TRUE) /\ TopFits(Last(modes), top, TRUE)
  BY <1>1, ShapeLast
<1>4. Last(modes) \in Modes /\ Front(modes) \in Seq(Modes) /\ modes = Append(Front(modes), Last(modes))
  BY LastIs
<1>5. r = [d EXCEPT !.stack = stack, !.lost = lost,
                    !.sound = d.sound /\ top.key.at = (IF top.kind = "object" THEN "live" ELSE "null")]
  BY DEF Attach
<1> HIDE DEF top, rest
<1>6. top.items \in Seq(Event) /\ top.key \in Key /\ top.key.name \in Seq(Int) /\ top.kind \in {"array", "object"}
  BY <1>2 DEF Node, Key, Modes
<1>7. top.key.at = (IF top.kind = "object" THEN "live" ELSE "null")
  BY <1>3, <1>6 DEF TopFits
<1>8. keyed <=> top.kind = "object"
  BY <1>6, <1>7
<1>9. Keyed(top) \in Seq(Event) /\ (~ lost => kept /\ named = Keyed(top) \o items)
  <2>1. CASE keyed
    BY <1>2, <1>7, <1>8, <2>1, UnfinishedIs DEF Keyed
  <2>2. CASE ~ keyed
    BY <1>2, <1>7, <1>8, <2>2, UnfinishedIs, ConcatEmptySeq DEF Keyed
  <2> QED BY <2>1, <2>2
<1>10. named \in Seq(Event)
  <2>1. <<>> \in Seq(Int)
    OBVIOUS
  <2>2. name \in Seq(Int)
    BY <1>6, <2>1
  <2> HIDE DEF name
  <2>3. [type |-> "KEY", data |-> name] \in Event
    BY <2>2, MarkType DEF Event
  <2> QED BY <2>3
<1>11. lost \in BOOLEAN /\ (d.lost => lost)
  BY <1>1, PlaceType
<1>12. key \in Key /\ key.at # "live" /\ (~ keyed => key.at = "null")
  BY <1>6, <1>7 DEF Key
<1> HIDE DEF named, key, keyed, lost
<1>13. /\ node \in Node /\ node.kind = top.kind /\ node.key = key
       /\ node.items = IF kept THEN top.items \o named ELSE top.items
  <2>1. grown \in Seq(Event)
    BY <1>6, <1>10
  <2> QED BY <1>2, <1>12, <2>1 DEF Node
<1>14. TopFits(Last(modes), node, FALSE)
  BY <1>3, <1>8, <1>12, <1>13 DEF TopFits
<1> HIDE DEF node
<1>15. ASSUME ~ lost PROVE Unfinished(node) = Unfinished(top) \o items
  <2> DEFINE b == <<Mark(IF top.kind = "object" THEN "OBJECT_BEGIN" ELSE "ARRAY_BEGIN")>>
  <2>1. Begun(top) = b \o top.items /\ Begun(node) = b \o (top.items \o (Keyed(top) \o items))
    BY <1>9, <1>13, <1>15 DEF Begun
  <2>2. b \in Seq(Event)
    BY MarkType
  <2> HIDE DEF b
  <2>3. Keyed(node) = <<>>
    BY <1>12, <1>13 DEF Keyed
  <2>4. Begun(node) = (b \o top.items) \o (Keyed(top) \o items)
    <3>1. Keyed(top) \o items \in Seq(Event)
      BY <1>9
    <3> DEFINE x == Keyed(top) \o items
    <3>2. b \in Seq(Event) /\ top.items \in Seq(Event) /\ x \in Seq(Event)
      BY <1>6, <2>2, <3>1
    <3> DEFINE y == top.items
    <3>3. y \in Seq(Event)
      BY <3>2
    <3> HIDE DEF x, y
    <3>4. (b \o y) \o x = b \o (y \o x)
      <4>1. b \in Seq(Event) /\ y \in Seq(Event) /\ x \in Seq(Event)
        BY <3>2, <3>3
      <4> QED BY <4>1, EventsAssociate
    <3> QED BY <2>1, <3>4 DEF x, y
  <2>5. Begun(node) = (Begun(top) \o Keyed(top)) \o items
    <3>1. Begun(top) \in Seq(Event)
      BY <1>2, UnfinishedIs
    <3>2. (Begun(top) \o Keyed(top)) \o items = Begun(top) \o (Keyed(top) \o items)
      BY <1>9, <3>1, ConcatAssociative
    <3> QED BY <2>1, <2>4, <3>2
  <2>6. Unfinished(node) = Begun(node) \o <<>> /\ Begun(node) \in Seq(Event)
    BY <1>13, <2>3, UnfinishedIs
  <2> QED BY <1>2, <2>5, <2>6, UnfinishedIs, ConcatEmptySeq
<1>16. stack \in Seq(Node) /\ stack # <<>> /\ Shape(modes, stack, FALSE)
  <2>1. Shape(Append(Front(modes), Last(modes)), Append(rest, node), FALSE)
    BY <1>2, <1>3, <1>4, <1>13, <1>14, ShapeTop
  <2>2. stack \in Seq(Node) /\ stack # <<>>
    BY <1>2, <1>13, AppendedIs
  <2> QED BY <1>4, <2>1, <2>2
<1>17. r \in Tree /\ r.stack = stack /\ r.room = DomStack /\ r.sound /\ r.lost = lost
  <2> HIDE DEF stack
  <2>1. r = [d EXCEPT !.stack = stack, !.lost = lost, !.sound = d.sound]
    <3>1. (d.sound /\ top.key.at = (IF top.kind = "object" THEN "live" ELSE "null")) = d.sound
      BY <1>1, <1>7
    <3> QED BY <1>5, <3>1
  <2> QED BY <1>1, <1>16, <1>11, <2>1 DEF Tree
<1>18. ASSUME ~ lost PROVE TreeEvents(r) = events \o items
  <2>1. Told(stack) = Told(rest) \o Unfinished(node) /\ Told(rest) \in Story
    BY <1>2, <1>13, ToldIs
  <2>2. events = Told(rest) \o Unfinished(top)
    BY <1>1, <1>2, <1>18, <1>11, ToldIs, ToldLast
  <2>3. TreeEvents(r) = Told(stack)
    <3> HIDE DEF stack
    <3> QED BY <1>16, <1>17, ToldLast
  <2>4. Unfinished(top) \in Seq(Event) /\ Told(rest) \in Seq(Event)
    BY <1>2, <2>1, UnfinishedIs DEF Story
  <2>5. Told(rest) \o (Unfinished(top) \o items) = (Told(rest) \o Unfinished(top)) \o items
    BY <2>4, ConcatAssociative
  <2> QED BY <1>15, <1>18, <2>1, <2>2, <2>3, <2>5
<1> QED
  BY <1>16, <1>17, <1>18, <1>11 DEF Tells

\* A value, or another element that is not a structure.
LEMMA ScalarTold ==
  ASSUME NEW d, NEW events \in Story, Tells(d, events), NEW modes \in Seq(Modes),
         Shape(modes, d.stack, TRUE), modes # <<>>, NEW memory \in Memory,
         NEW e \in Event, e.type \in Scalars \ {"KEY"}, NEW r, r = DomCallback(d, memory, e)
  PROVE  Tells(r, Append(events, e)) /\ Shape(modes, r.stack, FALSE)
<1>1. /\ d \in Tree /\ d.room = DomStack /\ d.sound /\ (d.lost \/ TreeEvents(d) = events)
      /\ d.stack \in Seq(Node) /\ d.stack # <<>>
  <2>1. d \in Tree /\ d.room = DomStack /\ d.sound /\ (d.lost \/ TreeEvents(d) = events)
    BY DEF Tells
  <2>2. d.stack \in Seq(Node)
    BY <2>1, PlaceType
  <2> QED BY <2>1, <2>2, ShapeEmpty
<1>2. r = Attach(d, memory, TRUE, <<e>>)
  BY <1>1 DEF DomCallback, Scalars
<1>3. <<e>> \in Seq(Event) /\ events \o <<e>> = Append(events, e)
  BY DEF Story
<1> QED
  BY <1>2, <1>3, AttachTold

\* A key.
LEMMA KeyTold ==
  ASSUME NEW d, NEW events \in Story, Tells(d, events), NEW modes \in Seq(Modes),
         Shape(modes, d.stack, FALSE), modes # <<>>, Last(modes) = "object", NEW memory,
         NEW e \in Event, e.type = "KEY", NEW r, r = DomCallback(d, memory, e)
  PROVE  Tells(r, Append(events, e)) /\ Shape(modes, r.stack, TRUE)
<1> DEFINE top  == Last(d.stack)
           rest == Front(d.stack)
           node == [top EXCEPT !.key = KeyOf(e.data)]
           stack == Append(rest, node)
<1>1. /\ d \in Tree /\ d.room = DomStack /\ d.sound /\ (d.lost \/ TreeEvents(d) = events)
      /\ d.stack \in Seq(Node) /\ d.stack # <<>>
  <2>1. d \in Tree /\ d.room = DomStack /\ d.sound /\ (d.lost \/ TreeEvents(d) = events)
    BY DEF Tells
  <2>2. d.stack \in Seq(Node)
    BY <2>1, PlaceType
  <2> QED BY <2>1, <2>2, ShapeEmpty
<1>2. top \in Node /\ rest \in Seq(Node) /\ d.stack = Append(rest, top)
  BY <1>1, LastIs
<1>3. Shape(Front(modes), rest, TRUE) /\ TopFits(Last(modes), top, FALSE)
  BY <1>1, ShapeLast
<1>4. Last(modes) \in Modes /\ Front(modes) \in Seq(Modes) /\ modes = Append(Front(modes), Last(modes))
  BY LastIs
<1>5. r = [d EXCEPT !.stack = stack]
  BY <1>1 DEF DomCallback
<1>6. e.data \in Seq(Int) /\ e = [type |-> "KEY", data |-> e.data]
  BY DEF Event
<1> HIDE DEF top, rest
<1>7. node \in Node /\ node.kind = top.kind /\ node.items = top.items /\ node.key = KeyOf(e.data)
  <2>1. KeyOf(e.data) \in Key
    BY <1>6 DEF KeyOf, Key
  <2> QED BY <1>2, <2>1 DEF Node
<1>8. top.kind = "object" /\ top.key.at # "live"
  BY <1>3 DEF TopFits
<1>9. TopFits(Last(modes), node, TRUE)
  BY <1>3, <1>7, <1>8 DEF TopFits, KeyOf
<1>10. Unfinished(node) = Unfinished(top) \o <<e>>
  <2>1. Begun(node) = Begun(top)
    BY <1>7 DEF Begun
  <2>2. Keyed(node) = <<e>> /\ Keyed(top) = <<>>
    BY <1>6, <1>7, <1>8 DEF Keyed, KeyOf
  <2>3. Unfinished(top) = Begun(top) /\ Begun(top) \in Seq(Event)
    BY <1>2, <2>2, UnfinishedIs, ConcatEmptySeq
  <2> HIDE DEF node
  <2> QED BY <1>7, <2>1, <2>2, <2>3, UnfinishedIs
<1> HIDE DEF node
<1>11. stack \in Seq(Node) /\ stack # <<>> /\ Shape(modes, stack, TRUE)
  <2>1. Shape(Append(Front(modes), Last(modes)), Append(rest, node), TRUE)
    BY <1>2, <1>3, <1>4, <1>7, <1>9, ShapeTop
  <2>2. stack \in Seq(Node) /\ stack # <<>>
    BY <1>2, <1>7, AppendedIs
  <2> QED BY <1>4, <2>1, <2>2
<1>12. r \in Tree /\ r.stack = stack /\ r.room = DomStack /\ r.sound /\ r.lost = d.lost
  <2> HIDE DEF stack
  <2> QED BY <1>1, <1>5, <1>11 DEF Tree
<1>13. ASSUME ~ d.lost PROVE TreeEvents(r) = Append(events, e)
  <2>1. Told(stack) = Told(rest) \o Unfinished(node) /\ Told(rest) \in Story
    BY <1>2, <1>7, ToldIs
  <2>2. events = Told(rest) \o Unfinished(top)
    BY <1>1, <1>2, <1>13, ToldIs, ToldLast
  <2>3. TreeEvents(r) = Told(stack)
    <3> HIDE DEF stack
    <3> QED BY <1>11, <1>12, ToldLast
  <2>4. Unfinished(top) \in Seq(Event) /\ <<e>> \in Seq(Event) /\ Told(rest) \in Seq(Event)
    BY <1>2, <2>1, UnfinishedIs DEF Story
  <2>5. Told(rest) \o (Unfinished(top) \o <<e>>) = (Told(rest) \o Unfinished(top)) \o <<e>>
    BY <2>4, ConcatAssociative
  <2>6. events \o <<e>> = Append(events, e)
    BY DEF Story
  <2> QED BY <1>10, <2>1, <2>2, <2>3, <2>5, <2>6
<1> QED
  BY <1>11, <1>12, <1>13 DEF Tells

\* The end of a structure.
LEMMA EndTold ==
  ASSUME NEW d, NEW events \in Story, Tells(d, events), NEW modes \in Seq(Modes), NEW due \in BOOLEAN,
         Shape(modes, d.stack, due), modes # <<>>, NEW kind \in Modes, Last(modes) = kind,
         kind = "object" => ~ due, NEW memory \in Memory,
         NEW e, e = Mark(IF kind = "object" THEN "OBJECT_END" ELSE "ARRAY_END"),
         NEW r, r = DomCallback(d, memory, e)
  PROVE  Tells(r, Append(events, e)) /\ Shape(Front(modes), r.stack, FALSE)
<1> DEFINE top   == Last(d.stack)
           stack == Front(d.stack)
           rest  == [d EXCEPT !.stack = Front(@)]
<1>1. /\ d \in Tree /\ d.room = DomStack /\ d.sound /\ (d.lost \/ TreeEvents(d) = events)
      /\ d.stack \in Seq(Node) /\ d.stack # <<>>
  <2>1. d \in Tree /\ d.room = DomStack /\ d.sound /\ (d.lost \/ TreeEvents(d) = events)
    BY DEF Tells
  <2>2. d.stack \in Seq(Node)
    BY <2>1, PlaceType
  <2> QED BY <2>1, <2>2, ShapeEmpty
<1>2. top \in Node /\ stack \in Seq(Node) /\ d.stack = Append(stack, top)
  BY <1>1, LastIs
<1>3. Shape(Front(modes), stack, TRUE) /\ TopFits(kind, top, due)
  BY <1>1, ShapeLast
<1>4. Front(modes) \in Seq(Modes)
  BY LastIs
<1>5. r = IF rest.stack = <<>> THEN [rest EXCEPT !.root = Whole(top)]
          ELSE Attach(rest, memory, memory.append, Whole(top))
  <2>1. e.type \in {"ARRAY_END", "OBJECT_END"}
    BY DEF Mark
  <2>2. r = DomPop(d, memory)
    BY <1>1, <2>1 DEF DomCallback
  <2> QED BY <2>2 DEF DomPop
<1>6. /\ rest \in Tree /\ rest.stack = stack /\ rest.room = DomStack /\ rest.sound
      /\ rest.lost = d.lost /\ d.lost \in BOOLEAN
  <2> HIDE DEF top
  <2>1. rest = [d EXCEPT !.stack = stack]
    OBVIOUS
  <2> HIDE DEF stack, rest
  <2> QED BY <1>1, <1>2, <2>1 DEF Tree
<1> HIDE DEF top, rest, stack
<1>7. Whole(top) = Append(Unfinished(top), e) /\ Unfinished(top) \in Seq(Event) /\ e \in Event
  <2>1. Ending(top) = e
    BY <1>3 DEF Ending, TopFits
  <2>2. Keyed(top) = <<>>
    BY <1>3 DEF Keyed, TopFits, Modes
  <2>3. Unfinished(top) = Begun(top)
    BY <1>2, <2>2, UnfinishedIs, ConcatEmptySeq
  <2> QED BY <1>2, <2>1, <2>3, UnfinishedIs
<1>8. (~ d.lost => events = Told(stack) \o Unfinished(top)) /\ Told(stack) \in Story
  BY <1>1, <1>2, ToldIs, ToldLast
<1>9. (~ d.lost => Told(stack) \o Whole(top) = Append(events, e)) /\ Whole(top) \in Seq(Event)
  <2>1. Told(stack) \in Seq(Event) /\ <<e>> \in Seq(Event) /\ Whole(top) = Unfinished(top) \o <<e>>
    BY <1>7, <1>8 DEF Story
  <2>2. Told(stack) \o (Unfinished(top) \o <<e>>) = (Told(stack) \o Unfinished(top)) \o <<e>>
    BY <1>7, <2>1, ConcatAssociative
  <2>3. events \o <<e>> = Append(events, e)
    BY <1>7 DEF Story
  <2>4. Whole(top) \in Seq(Event)
    BY <1>7
  <2> QED BY <1>8, <2>1, <2>2, <2>3, <2>4
<1>10. CASE stack = <<>>
  <2>1. r = [rest EXCEPT !.root = Whole(top)]
    BY <1>5, <1>6, <1>10
  <2>2. ~ d.lost => Whole(top) = Append(events, e)
    <3>1. Told(stack) = <<>>
      BY <1>10, ToldIs
    <3> QED BY <1>9, <3>1, ConcatEmptySeq
  <2>3. /\ r \in Tree /\ r.stack = <<>> /\ r.room = DomStack /\ r.sound /\ r.root = Whole(top)
        /\ r.lost = d.lost
    BY <1>6, <1>9, <1>10, <2>1 DEF Tree
  <2>4. Tells(r, Append(events, e))
    BY <2>2, <2>3, ToldLast DEF Tells
  <2>5. Shape(Front(modes), r.stack, FALSE)
    BY <1>3, <1>10, <2>3 DEF Shape
  <2> QED BY <2>4, <2>5
<1>11. CASE stack # <<>>
  <2>1. r = Attach(rest, memory, memory.append, Whole(top)) /\ memory.append \in BOOLEAN
    BY <1>5, <1>6, <1>11 DEF Memory
  <2>2. Tells(rest, Told(stack)) /\ Told(stack) \in Story
    BY <1>6, <1>8, <1>11, ToldLast DEF Tells
  <2>3. Front(modes) # <<>>
    BY <1>2, <1>3, <1>4, <1>11, ShapeEmpty
  <2>4. /\ Tells(r, Told(stack) \o Whole(top)) /\ Shape(Front(modes), r.stack, FALSE)
        /\ d.lost => r.lost
    BY <1>3, <1>4, <1>6, <1>9, <2>1, <2>2, <2>3, AttachTold
  <2> QED BY <1>6, <1>9, <2>4 DEF Tells
<1> QED
  BY <1>10, <1>11

\* Where a byte of a class may lead.
Turn(s, k, next) ==
  \/ next = "__"
  \/ s \in Structural /\ next = s
  \/ s \in NumberEnds /\ next = "OK"
  \/ s \in {"_O", "_K", "_V", "_A"} /\ next = "_S"
  \/ s \in {"_V", "_A"} \cup ConstantStates /\ next \in ConstantStates
  \/ s \in StringStates /\ next \in StringStates
  \/ s \in NumberStates /\ next \in NumberStates
  \/ s \in CommentStates /\ next \in CommentStates
  \/ s \in {"GO", "_V", "_A"} /\ next \in {"OB", "AB"} /\ k \in {"LCURB", "LSQRB"}
  \/ s \in {"OK", "_O"} \cup NumberEnds /\ next = "OE"
  \/ s \in {"OK", "_A"} \cup NumberEnds /\ next = "AE"
  \/ s \in {"OK"} \cup NumberEnds /\ next = "SP"
  \/ s = "CO" /\ next = "KS"
  \/ s \in StringStates /\ next \in {"SE", "UC"}
  \/ s \in {"_V", "_A"} /\ next \in {"MX", "ZX", "IX"}
  \/ s \in NumberStates /\ next \in {"DE", "DF"}
  \/ s \in ConstantStates /\ next \in {"TR", "FA", "NU"}
  \/ s \in Structural \cup NumberEnds /\ next \in {"CB", "YB"}
  \/ s \in CommentStates /\ next = "CE"

\* The table, line by line.
LEMMA MovesTurn ==
  ASSUME NEW m \in Moves, NEW s \in m[1], NEW k \in m[2]
  PROVE  Turn(s, k, m[3])
<1> USE DEF Turn, Structural, NumberEnds, NumberStates, StringStates, ConstantStates, CommentStates
<1>1. CASE m \in StructureMoves
  <2>1. CASE m \in { <<{x}, White, x>> : x \in Structural }
    <3>1. PICK x \in Structural : m = <<{x}, White, x>>
      BY <2>1
    <3>2. m[1] = {x} /\ m[3] = x
      BY <3>1
    <3>3. s = x
      BY <3>2
    <3> QED BY <3>2, <3>3
  <2>2. CASE m \notin { <<{x}, White, x>> : x \in Structural }
    BY <1>1, <2>2 DEF StructureMoves
  <2> QED BY <2>1, <2>2
<1>2. CASE m \in StringMoves
  BY <1>2 DEF StringMoves
<1>3. CASE m \in NumberMoves
  BY <1>3 DEF NumberMoves
<1>4. CASE m \in ConstantMoves
  BY <1>4 DEF ConstantMoves
<1>5. CASE m \in CommentMoves
  BY <1>5 DEF CommentMoves
<1> QED
  BY <1>1, <1>2, <1>3, <1>4, <1>5 DEF Moves

\* The table as the parser reads it.
LEMMA TableTurns ==
  ASSUME NEW s \in States, NEW k \in Classes
  PROVE  Turn(s, k, StateTransition[s][k])
<1> DEFINE fits == { m \in Moves : s \in m[1] /\ k \in m[2] }
           next == StateTransition[s][k]
<1>1. next = IF fits = {} THEN "__" ELSE (CHOOSE m \in fits : TRUE)[3]
  BY DEF StateTransition
<1>2. CASE fits = {}
  BY <1>1, <1>2 DEF Turn
<1>3. CASE fits # {}
  <2>1. PICK m \in fits : next = m[3]
    BY <1>1, <1>3
  <2>2. Turn(s, k, m[3])
    BY <2>1, MovesTurn
  <2> QED BY <2>1, <2>2
<1> QED
  BY <1>2, <1>3

\* A byte of a bracket's class is a bracket.
LEMMA OpenersAre ==
  ASSUME NEW c \in 0 .. 127, CharacterClass[c] \in {"LCURB", "LSQRB"}
  PROVE  c \in {91, 123}
<1>1. (\E e \in ByteClasses : c \in e[1]) /\ CharacterClass[c] = (CHOOSE e \in ByteClasses : c \in e[1])[2]
  BY DEF CharacterClass
<1>2. \A e \in ByteClasses : e[2] \in {"LCURB", "LSQRB"} => e[1] \in {{91}, {123}}
  BY DEF ByteClasses
<1> HIDE DEF ByteClasses
<1>3. PICK e \in ByteClasses : c \in e[1] /\ CharacterClass[c] = e[2]
  BY <1>1
<1> QED
  BY <1>2, <1>3

----------------------------------------------------------------------------
(* A parser and what it has told.                                          *)

\* What a place in the document depends on.
Alike(p, q) ==
  /\ q.state = p.state /\ q.saved = p.saved /\ q.expectingKey = p.expectingKey /\ q.type = p.type
  /\ q.stack = p.stack /\ q.stackSize = p.stackSize /\ q.config = p.config

\* An error, a character kept and a character decoded leave the place alone.
LEMMA RaiseAlike ==
  ASSUME NEW p, p \in ParserType, NEW error
  PROVE  Alike(p, Raise(p, error)) /\ Raise(p, error).events = p.events
BY DEF ParserType, Raise, Alike

LEMMA PushAlike ==
  ASSUME NEW p, Good(p), NEW env, NEW c \in Int
  PROVE  Alike(p, BufferPush(p, env, c)) /\ BufferPush(p, env, c).events = p.events
<1> DEFINE twice == 2 * p.bufferSize
           max   == p.config.data
           size  == IF max > 0 /\ twice > max THEN max ELSE twice
           grown == BufferGrow(p, env)
           room  == IF Len(p.buffer) + 1 >= p.bufferSize THEN grown ELSE p
<1>1. p \in ParserType
  BY DEF Good
<1>2. grown \in {Raise(p, "DATA_LIMIT"), Raise(p, "NO_MEMORY"), [p EXCEPT !.bufferSize = size]}
  BY DEF BufferGrow
<1>3. Good(grown)
  BY GrowGood
<1> HIDE DEF size, grown
<1>4. Alike(p, grown) /\ grown.events = p.events
  <2>1. CASE grown \in {Raise(p, "DATA_LIMIT"), Raise(p, "NO_MEMORY")}
    BY <1>1, <2>1, RaiseAlike
  <2>2. CASE grown = [p EXCEPT !.bufferSize = size]
    BY <1>1, <2>2 DEF ParserType, Alike
  <2> QED BY <1>2, <2>1, <2>2
<1>5. Alike(p, room) /\ room.events = p.events /\ room \in ParserType
  BY <1>1, <1>3, <1>4 DEF Alike, Good
<1>6. BufferPush(p, env, c) = Then(room, [room EXCEPT !.buffer = Append(@, c)])
  BY DEF BufferPush, grown
<1> HIDE DEF room
<1> QED
  BY <1>5, <1>6 DEF Then, Alike, ParserType

LEMMA KeptAlike ==
  ASSUME NEW p, Good(p), NEW env, NEW c \in Byte, NEW s, NEW k
  PROVE  Alike(p, Kept(p, env, c, s, k)) /\ Kept(p, env, c, s, k).events = p.events
<1>1. c \in Int /\ Escaped[c] \in Int
  <2>1. c \in Int
    BY DEF Byte
  <2>2. Escaped[c] \in {8, 12, 10, 13, 9, 0, c}
    BY DEF Escaped
  <2> QED BY <2>1, <2>2
<1>2. Alike(p, p)
  BY DEF Alike
<1>3. /\ Alike(p, BufferPush(p, env, Escaped[c])) /\ BufferPush(p, env, Escaped[c]).events = p.events
      /\ Alike(p, BufferPush(p, env, c)) /\ BufferPush(p, env, c).events = p.events
  BY <1>1, PushAlike
<1> QED
  BY <1>2, <1>3 DEF Kept

LEMMA DecodedAlike ==
  ASSUME NEW p, p \in ParserType
  PROVE  Alike(p, DecodeUnicode(p)) /\ DecodeUnicode(p).events = p.events
<1> DEFINE n    == Len(p.buffer) - 4
           d(i) == Hex(p.buffer[n + i])
           u    == 4096 * d(1) + 256 * d(2) + 16 * d(3) + d(4)
           cut  == SubSeq(p.buffer, 1, n)
           q    == [p EXCEPT !.buffer = cut]
           Put(v) == [q EXCEPT !.buffer = @ \o Utf8(v), !.multi = 0]
           w == 65536 + 1024 * (p.multi % 1024) + (u % 1024)
<1>1. DecodeUnicode(p) \in {Put(w), Put(u), Raise(q, "UNICODE_MISSING_LOW_SURROGATE"),
                            Raise(q, "UNICODE_UNEXPECTED_LOW_SURROGATE"), [q EXCEPT !.multi = u]}
  BY DEF DecodeUnicode
<1> HIDE DEF u, w, cut
<1>2. \A v : Alike(p, Put(v)) /\ Put(v).events = p.events
  BY DEF ParserType, Alike
<1>3. Alike(p, [q EXCEPT !.multi = u]) /\ [q EXCEPT !.multi = u].events = p.events
  BY DEF ParserType, Alike
<1>4. \A error : Alike(p, Raise(q, error)) /\ Raise(q, error).events = p.events
  BY DEF ParserType, Alike, Raise
<1> QED
  BY <1>1, <1>2, <1>3, <1>4

\* The parser q has come from p by events the tree t has been told since d.
Follows(d, memory, p, q, t) ==
  \E events \in Story : q.events = p.events \o events /\ t = Built(d, memory, events)

\* A call leaves the configuration and a limit on nesting alone, and puts at
\* most so many structures on the stack.
Frame(p, r, more) ==
  /\ r.config = p.config
  /\ p.config.nesting # 0 => r.stackSize = p.stackSize
  /\ Len(r.stack) <= Len(p.stack) + more

\* After a call the tree tells what the parser does, and unless the call failed
\* they are still at the same place.
Led(p, d, memory, r, more) ==
  \E t : /\ Follows(d, memory, p, r, t)
         /\ Tells(t, r.events)
         /\ r.ret = "SUCCESS" => InStep(r, t) /\ Frame(p, r, more)

\* The next byte can be read.
Ready(p, d) == Good(p) /\ p.ret = "SUCCESS" /\ Tells(d, p.events) /\ InStep(p, d)

\* The fields of a parser.
LEMMA ParserIs ==
  ASSUME NEW p, p \in ParserType
  PROVE  /\ p.events \in Story /\ p.stack \in Seq(Modes) /\ p.state \in States /\ p.saved \in States
         /\ p.expectingKey \in BOOLEAN /\ p.type \in Types /\ p.buffer \in Seq(Int)
         /\ p.config \in ConfigType /\ p.stackSize \in Nat
BY DEF ParserType, Story, Event

\* The tree is told nothing, one event more, or the same events.
LEMMA FollowsNone ==
  ASSUME NEW d \in Tree, NEW memory \in Memory, NEW p, NEW q, p.events \in Story, q.events = p.events
  PROVE  Follows(d, memory, p, q, d)
<1> DEFINE none == <<>>
<1>1. none \in Story /\ p.events = p.events \o none
  BY DEF Story
<1>2. d = Built(d, memory, none)
  BY BuiltIs
<1> HIDE DEF none
<1> QED
  BY <1>1, <1>2 DEF Follows

LEMMA FollowsMore ==
  ASSUME NEW d \in Tree, NEW memory \in Memory, NEW p, NEW q, NEW t, p.events \in Story,
         Follows(d, memory, p, q, t), NEW e \in Event, NEW r, r.events = Append(q.events, e)
  PROVE  Follows(d, memory, p, r, DomCallback(t, memory, e))
<1>1. PICK events \in Story : q.events = p.events \o events /\ t = Built(d, memory, events)
  BY DEF Follows
<1>2. Append(events, e) \in Story /\ p.events \o Append(events, e) = Append(p.events \o events, e)
  <2>1. p.events \in Seq(Event) /\ events \in Seq(Event)
    BY DEF Story
  <2>2. ASSUME NEW x \in Seq(Event), NEW y \in Seq(Event)
        PROVE  Append(y, e) \in Seq(Event) /\ x \o Append(y, e) = Append(x \o y, e)
    BY AppendConcat
  <2> QED BY <2>1, <2>2 DEF Story
<1>3. Built(d, memory, Append(events, e)) = DomCallback(Built(d, memory, events), memory, e)
  BY BuiltIs DEF Story
<1> QED
  BY <1>1, <1>2, <1>3 DEF Follows

LEMMA FollowsSame ==
  ASSUME NEW d, NEW memory, NEW p, NEW q, NEW t, Follows(d, memory, p, q, t), NEW r, r.events = q.events
  PROVE  Follows(d, memory, p, r, t)
BY DEF Follows

LEMMA FollowsOn ==
  ASSUME NEW d, NEW memory, NEW p, NEW q, NEW r, NEW t, q.events = p.events, Follows(d, memory, q, r, t)
  PROVE  Follows(d, memory, p, r, t)
BY DEF Follows

\* A call that failed before it told anything.
LEMMA FailedLed ==
  ASSUME NEW p, NEW d, Ready(p, d), NEW memory \in Memory, NEW more, NEW r,
         r.events = p.events, r.ret # "SUCCESS"
  PROVE  Led(p, d, memory, r, more)
<1>1. d \in Tree /\ p.events \in Story /\ Tells(d, r.events)
  BY ParserIs DEF Ready, Tells, Good
<1>2. Follows(d, memory, p, r, d)
  BY <1>1, FollowsNone
<1> QED
  BY <1>1, <1>2 DEF Led

\* Where nothing is told, and what is due stays due, the two stay in step.
LEMMA StayLed ==
  ASSUME NEW p, NEW d, Ready(p, d), NEW memory \in Memory, NEW r,
         r.events = p.events, r.stack = p.stack, r.stackSize = p.stackSize, r.config = p.config,
         r.expectingKey = p.expectingKey,
         r.ret = "SUCCESS" => Lexed(r) /\ (Due(r) <=> Due(p)) /\ (Now(r) = "GO" => Now(p) = "GO")
  PROVE  Led(p, d, memory, r, 0)
<1>1. d \in Tree /\ p.events \in Story /\ Tells(d, r.events) /\ InStep(p, d) /\ p.stack \in Seq(Modes)
  BY ParserIs DEF Ready, Tells, Good
<1>2. Follows(d, memory, p, r, d)
  BY <1>1, FollowsNone
<1>3. ASSUME r.ret = "SUCCESS" PROVE InStep(r, d)
  <2>1. Due(r) \in BOOLEAN /\ Due(p) \in BOOLEAN
    BY DEF Due
  <2>2. Due(r) = Due(p)
    BY <1>3, <2>1
  <2> HIDE DEF Due, Lexed, Now
  <2> QED BY <1>1, <1>3, <2>2 DEF InStep
<1>4. Frame(p, r, 0)
  <2>1. Len(p.stack) \in Nat
    BY <1>1
  <2> QED BY <2>1 DEF Frame
<1> QED
  BY <1>1, <1>2, <1>3, <1>4 DEF Led

\* A byte that only moves the parser.
LEMMA MoveLed ==
  ASSUME NEW p, NEW d, Ready(p, d), NEW memory \in Memory, NEW k, NEW next \in States,
         Turn(p.state, k, next)
  PROVE  Led(p, d, memory, [p EXCEPT !.state = next], 0)
<1> DEFINE r == [p EXCEPT !.state = next]
<1>1. p \in ParserType /\ Lexed(p)
  BY DEF Ready, Good, InStep
<1>2. /\ r.events = p.events /\ r.stack = p.stack /\ r.stackSize = p.stackSize /\ r.config = p.config
      /\ r.expectingKey = p.expectingKey /\ r.state = next /\ r.saved = p.saved /\ r.type = p.type
  BY <1>1 DEF ParserType
<1>3. p.expectingKey \in BOOLEAN /\ p.state \in States
  BY <1>1, ParserIs
<1> HIDE DEF r
<1>4. \/ p.state \in Structural /\ next = p.state
      \/ p.state \in NumberEnds /\ next = "OK"
      \/ p.state \in {"_O", "_K", "_V", "_A"} /\ next = "_S"
      \/ p.state \in {"_V", "_A"} \cup ConstantStates /\ next \in ConstantStates
      \/ p.state \in StringStates /\ next \in StringStates
      \/ p.state \in NumberStates /\ next \in NumberStates
      \/ p.state \in CommentStates /\ next \in CommentStates
  BY DEF Turn, States, Structural, NumberEnds
<1>5. Lexed(r) /\ (Due(r) <=> Due(p)) /\ (Now(r) = "GO" => Now(p) = "GO")
  <2> USE <1>1, <1>2, <1>3 DEF Lexed, Due, Now, Structural, NumberEnds, NumberStates, StringStates,
                              ConstantStates, CommentStates, Pending
  <2>1. CASE p.state \in Structural /\ next = p.state
    BY <2>1
  <2>2. CASE p.state \in NumberEnds /\ next = "OK"
    BY <2>2
  <2>3. CASE p.state \in {"_O", "_K", "_V", "_A"} /\ next = "_S"
    BY <2>3
  <2>4. CASE p.state \in {"_V", "_A"} \cup ConstantStates /\ next \in ConstantStates
    BY <2>4
  <2>5. CASE p.state \in StringStates /\ next \in StringStates
    BY <2>5
  <2>6. CASE p.state \in NumberStates /\ next \in NumberStates
    BY <2>6
  <2>7. CASE p.state \in CommentStates /\ next \in CommentStates
    BY <2>7
  <2> QED BY <1>4, <2>1, <2>2, <2>3, <2>4, <2>5, <2>6, <2>7
<1> QED
  BY <1>2, <1>5, StayLed DEF r

----------------------------------------------------------------------------
(* The actions of the table.                                               *)

\* What the table leaves behind an action.
LEMMA ActionIs ==
  ASSUME NEW p, NEW env, NEW action, NEW q, q = Act(p, env, action), q \in ParserType,
         NEW r, r = DoAction(p, env, action)
  PROVE  /\ r.ret = q.ret /\ r.events = q.events /\ r.stack = q.stack /\ r.stackSize = q.stackSize
         /\ r.config = q.config /\ r.expectingKey = q.expectingKey /\ r.saved = q.saved
         /\ q.ret = "SUCCESS" =>
              /\ r.state = IF action \in DOMAIN ActionState THEN ActionState[action] ELSE q.state
              /\ r.type = IF action \in DOMAIN ActionType THEN ActionType[action] ELSE "NONE"
<1> DEFINE s == IF action \in DOMAIN ActionState THEN ActionState[action] ELSE q.state
           t == IF action \in DOMAIN ActionType THEN ActionType[action] ELSE "NONE"
<1>1. r = Then(q, [q EXCEPT !.state = s, !.type = t])
  BY DEF DoAction
<1> HIDE DEF s, t
<1>2. /\ r.ret = q.ret /\ r.events = q.events /\ r.stack = q.stack /\ r.stackSize = q.stackSize
      /\ r.config = q.config /\ r.expectingKey = q.expectingKey /\ r.saved = q.saved
      /\ q.ret = "SUCCESS" => r.state = s /\ r.type = t
  BY <1>1 DEF Then, ParserType
<1> QED
  BY <1>2 DEF s, t

\* actions_map.
LEMMA ActionsLeave ==
  /\ DOMAIN ActionState = {"KS", "AB", "AE", "OB", "OE", "CB", "YB", "FA", "TR", "NU", "DE", "DF",
                           "MX", "ZX", "IX"}
  /\ DOMAIN ActionType = {"FA", "TR", "NU", "DE", "DF", "MX", "ZX", "IX"}
  /\ ActionState["KS"] = "_V" /\ ActionState["AB"] = "_A" /\ ActionState["OB"] = "_O"
  /\ \A action \in {"AE", "OE", "FA", "TR", "NU"} : ActionState[action] = "OK"
  /\ \A action \in {"DE", "DF", "MX", "ZX", "IX"} : ActionState[action] \in NumberStates
  /\ \A action \in {"CB", "YB"} : ActionState[action] \in CommentStates
  /\ \A action \in DOMAIN ActionType : ActionType[action] \in Pending
BY DEF ActionState, ActionType, NumberStates, NumberEnds, CommentStates, Pending

\* do_buffer: the value that waits for its end.
LEMMA ReportTold ==
  ASSUME NEW p, NEW d, Ready(p, d), NEW memory \in Memory, NEW env, NEW b, b = DoBuffer(p, env)
  PROVE  /\ b \in ParserType /\ Alike(p, b)
         /\ \E t : /\ Follows(d, memory, p, b, t) /\ Tells(t, b.events)
                   /\ b.ret = "SUCCESS" => Shape(b.stack, t.stack, Due(p) /\ p.type = "NONE")
                   /\ p.type = "NONE" => t = d
<1>1. /\ p \in ParserType /\ Good(p) /\ p.ret = "SUCCESS" /\ Lexed(p) /\ InStep(p, d)
      /\ d \in Tree /\ Tells(d, p.events) /\ Shape(p.stack, d.stack, Due(p))
  BY DEF Ready, Good, InStep, Tells
<1>2. /\ p.events \in Story /\ p.stack \in Seq(Modes) /\ p.buffer \in Seq(Int) /\ p.expectingKey \in BOOLEAN
  BY <1>1, ParserIs
<1>3. b \in ParserType
  BY <1>1, ReportGood DEF Good
<1> DEFINE told == IF p.type \in Scalars THEN Callback(p, env, p.type, p.buffer) ELSE p
           e    == [type |-> p.type, data |-> p.buffer]
<1>4. b = Then(told, [told EXCEPT !.buffer = <<>>])
  BY DEF DoBuffer
<1>5. CASE p.type = "NONE"
  <2>1. told = p
    BY <1>5 DEF Scalars
  <2> HIDE DEF told
  <2>2. Alike(p, b) /\ b.events = p.events /\ b.ret = "SUCCESS" /\ b.stack = p.stack
    BY <1>1, <1>4, <2>1 DEF Then, Alike, ParserType
  <2>3. Follows(d, memory, p, b, d)
    BY <1>1, <1>2, <2>2, FollowsNone
  <2>4. Shape(b.stack, d.stack, Due(p) /\ p.type = "NONE")
    <3>1. Due(p) \in BOOLEAN
      BY DEF Due
    <3>2. (Due(p) /\ p.type = "NONE") = Due(p)
      BY <1>5, <3>1
    <3> QED BY <1>1, <2>2, <3>2
  <2> QED BY <1>1, <1>3, <2>2, <2>3, <2>4
<1>6. CASE p.type # "NONE"
  <2>1. p.type \in Pending /\ p.type \in Scalars \ {"KEY"} /\ p.type \in Types
    BY <1>1, <1>6 DEF Lexed, Pending, Scalars, Types
  <2>2. Due(p) = TRUE /\ p.stack # <<>>
    <3>1. Due(p)
      BY <1>1, <1>2, <1>6 DEF Lexed, Due, Now, NumberStates, NumberEnds, StringStates, CommentStates
    <3>2. Due(p) \in BOOLEAN
      BY DEF Due
    <3> QED BY <1>1, <3>1, <3>2 DEF InStep
  <2>3. e \in Event
    BY <1>2, <2>1 DEF Event
  <2>4. CASE p.type \in env.refuse
    <3>1. told = Raise(p, "CALLBACK")
      BY <2>1, <2>4 DEF Callback
    <3> HIDE DEF told
    <3>2. b = told /\ b.ret # "SUCCESS" /\ Alike(p, b) /\ b.events = p.events
      BY <1>1, <1>4, <3>1 DEF Raise, Then, Alike, ParserType
    <3>3. Follows(d, memory, p, b, d)
      BY <1>1, <1>2, <3>2, FollowsNone
    <3> QED BY <1>1, <1>3, <3>2, <3>3
  <2>5. CASE p.type \notin env.refuse
    <3> DEFINE t == DomCallback(d, memory, e)
    <3>1. told = [p EXCEPT !.events = Append(@, e)]
      BY <2>1, <2>5 DEF Callback
    <3> HIDE DEF told, e
    <3>2. Alike(p, b) /\ b.events = Append(p.events, e) /\ b.ret = "SUCCESS" /\ b.stack = p.stack
      BY <1>1, <1>4, <3>1 DEF Then, Alike, ParserType
    <3>3. Follows(d, memory, p, b, t)
      <4>1. Follows(d, memory, p, p, d)
        BY <1>1, <1>2, FollowsNone
      <4> QED BY <1>1, <1>2, <2>3, <3>2, <4>1, FollowsMore
    <3>4. Tells(t, Append(p.events, e)) /\ Shape(p.stack, t.stack, FALSE)
      <4>1. e.type = p.type
        BY DEF e
      <4>2. Shape(p.stack, d.stack, TRUE)
        BY <1>1, <2>2
      <4> QED BY <1>1, <1>2, <2>1, <2>2, <2>3, <4>1, <4>2, ScalarTold
    <3>5. (Due(p) /\ p.type = "NONE") = FALSE
      BY <1>6
    <3> HIDE DEF t
    <3> QED BY <1>3, <1>6, <3>2, <3>3, <3>4, <3>5
  <2> QED BY <2>4, <2>5
<1> QED
  BY <1>5, <1>6

\* An action that tells nothing: the value it begins or ends waits for do_buffer.
LEMMA QuietLed ==
  ASSUME NEW p, NEW d, Ready(p, d), NEW memory \in Memory, NEW env, NEW k,
         NEW action \in {"KS", "TR", "FA", "NU", "DE", "DF", "MX", "ZX", "IX"},
         Turn(p.state, k, action), NEW r, r = DoAction(p, env, action)
  PROVE  Led(p, d, memory, r, 0)
<1>1. p \in ParserType /\ Lexed(p) /\ p.ret = "SUCCESS"
  BY DEF Ready, Good, InStep
<1>2. Act(p, env, action) = p
  BY DEF Act
<1>3. /\ r.ret = p.ret /\ r.events = p.events /\ r.stack = p.stack /\ r.stackSize = p.stackSize
      /\ r.config = p.config /\ r.expectingKey = p.expectingKey /\ r.saved = p.saved
      /\ r.state = IF action \in DOMAIN ActionState THEN ActionState[action] ELSE p.state
      /\ r.type = IF action \in DOMAIN ActionType THEN ActionType[action] ELSE "NONE"
  BY <1>1, <1>2, ActionIs
<1>4. \/ action = "KS" /\ r.state = "_V" /\ r.type = "NONE"
      \/ action \in {"TR", "FA", "NU"} /\ r.state = "OK" /\ r.type \in Pending
      \/ action \in {"DE", "DF", "MX", "ZX", "IX"} /\ r.state \in NumberStates /\ r.type \in Pending
  BY <1>3, ActionsLeave
<1>5. \/ action = "KS" /\ p.state = "CO"
      \/ action \in {"TR", "FA", "NU"} /\ p.state \in ConstantStates
      \/ action \in {"DE", "DF", "MX", "ZX", "IX"} /\ p.state \in {"_V", "_A"} \cup NumberStates
  BY DEF Turn, Structural, NumberEnds, NumberStates, StringStates, ConstantStates, CommentStates
<1>6. p.expectingKey \in BOOLEAN /\ p.state \in States
  BY <1>1, ParserIs
<1>7. Lexed(r) /\ (Due(r) <=> Due(p)) /\ (Now(r) = "GO" => Now(p) = "GO")
  <2> USE <1>1, <1>3, <1>6 DEF Lexed, Due, Now, Structural, NumberEnds, NumberStates, StringStates,
                               ConstantStates, CommentStates, Pending
  <2>1. CASE action = "KS"
    <3>1. p.state = "CO" /\ r.state = "_V" /\ r.type = "NONE"
      BY <1>4, <1>5, <2>1
    <3> QED BY <3>1
  <2>2. CASE action \in {"TR", "FA", "NU"}
    <3>1. p.state \in ConstantStates /\ r.state = "OK" /\ r.type \in Pending
      BY <1>4, <1>5, <2>2
    <3> QED BY <3>1
  <2>3. CASE action \in {"DE", "DF", "MX", "ZX", "IX"}
    <3>1. p.state \in {"_V", "_A"} \cup NumberStates /\ r.state \in NumberStates /\ r.type \in Pending
      BY <1>4, <1>5, <2>3
    <3> QED BY <3>1
  <2> QED BY <2>1, <2>2, <2>3
<1> QED
  BY <1>3, <1>7, StayLed

\* act_uc: the character goes on with the string.
LEMMA CharacterLed ==
  ASSUME NEW p, NEW d, Ready(p, d), NEW memory \in Memory, NEW env, Len(p.buffer) >= 4,
         p.state \in StringStates, NEW r, r = DoAction(p, env, "UC")
  PROVE  Led(p, d, memory, r, 0)
<1>1. Good(p) /\ p \in ParserType /\ Lexed(p) /\ p.ret = "SUCCESS"
  BY DEF Ready, Good, InStep
<1> DEFINE u == DecodeUnicode(p)
           s == IF u.multi # 0 THEN "D1" ELSE "_S"
           q == Act(p, env, "UC")
<1>2. q = Then(u, [u EXCEPT !.state = s])
  BY DEF Act, ActUC
<1>3. u \in ParserType /\ Alike(p, u) /\ u.events = p.events
  BY <1>1, DecodedGood, DecodedAlike DEF Good
<1>4. q \in ParserType
  <2>1. Good(ActUC(p))
    BY <1>1, CharacterGood
  <2> QED BY <2>1 DEF Good, Act
<1>5. s \in StringStates
  BY DEF StringStates
<1> HIDE DEF u, s
<1>6. /\ q.events = p.events /\ q.stack = p.stack /\ q.stackSize = p.stackSize
      /\ q.config = p.config /\ q.expectingKey = p.expectingKey /\ q.saved = p.saved
      /\ q.ret = "SUCCESS" => q.state = s
  BY <1>2, <1>3 DEF Then, Alike, ParserType
<1> HIDE DEF q
<1>7. /\ r.ret = q.ret /\ r.events = q.events /\ r.stack = q.stack /\ r.stackSize = q.stackSize
      /\ r.config = q.config /\ r.expectingKey = q.expectingKey /\ r.saved = q.saved
      /\ q.ret = "SUCCESS" => r.state = q.state /\ r.type = "NONE"
  <2>1. "UC" \notin DOMAIN ActionState /\ "UC" \notin DOMAIN ActionType
    BY ActionsLeave
  <2> QED BY <1>4, <2>1, ActionIs DEF q
<1>8. p.expectingKey \in BOOLEAN /\ p.state \in States
  BY <1>1, ParserIs
<1>9. ASSUME r.ret = "SUCCESS"
      PROVE  Lexed(r) /\ (Due(r) <=> Due(p)) /\ (Now(r) = "GO" => Now(p) = "GO")
  <2>1. r.state \in StringStates /\ r.type = "NONE" /\ r.saved = p.saved /\ r.expectingKey = p.expectingKey
    BY <1>5, <1>6, <1>7, <1>9
  <2> QED BY <1>1, <1>8, <2>1 DEF Lexed, Due, Now, Structural, NumberEnds, NumberStates, StringStates,
                                  ConstantStates, CommentStates, Pending
<1> QED
  BY <1>6, <1>7, <1>9, StayLed

\* act_ce: a comment ends where it began.
LEMMA CommentEndLed ==
  ASSUME NEW p, NEW d, Ready(p, d), NEW memory \in Memory, NEW env,
         p.state \in CommentStates, NEW r, r = DoAction(p, env, "CE")
  PROVE  Led(p, d, memory, r, 0)
<1>1. Good(p) /\ p \in ParserType /\ Lexed(p) /\ p.ret = "SUCCESS"
  BY DEF Ready, Good, InStep
<1> DEFINE s == IF p.saved \in Structural THEN p.saved ELSE "OK"
           q == Act(p, env, "CE")
<1>2. q = [p EXCEPT !.state = s]
  BY DEF Act, ActCE
<1>3. q \in ParserType
  <2>1. Good(ActCE(p))
    BY <1>1, CommentGood
  <2> QED BY <2>1 DEF Good, Act
<1> HIDE DEF s
<1>4. /\ q.ret = p.ret /\ q.events = p.events /\ q.stack = p.stack /\ q.stackSize = p.stackSize
      /\ q.config = p.config /\ q.expectingKey = p.expectingKey /\ q.saved = p.saved /\ q.state = s
  BY <1>1, <1>2 DEF ParserType
<1> HIDE DEF q
<1>5. /\ r.ret = q.ret /\ r.events = q.events /\ r.stack = q.stack /\ r.stackSize = q.stackSize
      /\ r.config = q.config /\ r.expectingKey = q.expectingKey /\ r.saved = q.saved
      /\ q.ret = "SUCCESS" => r.state = q.state /\ r.type = "NONE"
  <2>1. "CE" \notin DOMAIN ActionState /\ "CE" \notin DOMAIN ActionType
    BY ActionsLeave
  <2> QED BY <1>3, <2>1, ActionIs DEF q
<1>6. p.expectingKey \in BOOLEAN /\ p.type = "NONE"
  <2>1. p.type = "NONE"
    BY <1>1 DEF Lexed, NumberStates, NumberEnds, CommentStates
  <2> QED BY <1>1, <2>1, ParserIs
<1>7. Now(p) = s /\ s \in Structural
  BY DEF Now, s, Structural
<1>8. r.state = s /\ Now(r) = s /\ r.type = "NONE" /\ r.expectingKey = p.expectingKey
  <2>1. r.state = s /\ r.type = "NONE" /\ r.expectingKey = p.expectingKey
    BY <1>1, <1>4, <1>5
  <2>2. s \notin CommentStates
    BY <1>7 DEF Structural, CommentStates
  <2> QED BY <2>1, <2>2 DEF Now
<1>9. Lexed(r) /\ (Due(r) <=> Due(p)) /\ (Now(r) = "GO" => Now(p) = "GO")
  <2>1. s \notin NumberStates
    BY <1>7 DEF Structural, NumberStates, NumberEnds
  <2> HIDE DEF Now
  <2>2. Lexed(r)
    BY <1>1, <1>6, <1>7, <1>8, <2>1 DEF Lexed
  <2> QED BY <1>6, <1>7, <1>8, <2>2 DEF Due
<1> QED
  BY <1>4, <1>5, <1>9, StayLed

----------------------------------------------------------------------------

\* Behind do_buffer, what is due of the value that waited.
LEMMA ReportedDue ==
  ASSUME NEW p, p \in ParserType, Lexed(p), p.state \notin CommentStates,
         NEW due, due = (Due(p) /\ p.type = "NONE")
  PROVE  /\ due \in BOOLEAN
         /\ p.state \in {"OK"} \cup NumberEnds => due = FALSE /\ p.expectingKey = FALSE
         /\ p.state = "_O" => due = FALSE /\ p.expectingKey = TRUE
         /\ p.state = "_A" => p.expectingKey = FALSE
         /\ p.state \in Structural \ {"OK"} => due = Due(p) /\ p.type = "NONE"
<1>1. p.expectingKey \in BOOLEAN
  BY ParserIs
<1>2. Due(p) \in BOOLEAN
  BY DEF Due
<1>3. p.state \in Structural \ {"OK"} => p.type = "NONE"
  BY DEF Lexed, Structural, NumberStates, NumberEnds
<1>4. p.state \in {"OK"} \cup NumberEnds => ~ due /\ ~ p.expectingKey
  BY DEF Lexed, Due, Now, NumberStates, NumberEnds, StringStates, CommentStates
<1>5. p.state = "_O" => ~ due /\ p.expectingKey
  BY DEF Lexed, Due, Now, CommentStates
<1>6. p.state = "_A" => ~ p.expectingKey
  BY DEF Lexed, Now, CommentStates, StringStates
<1> QED
  BY <1>1, <1>2, <1>3, <1>4, <1>5, <1>6

\* An array waits for a value whenever it is asked.
LEMMA ArrayAny ==
  ASSUME NEW modes \in Seq(Modes), NEW stack \in Seq(Node), NEW due \in BOOLEAN,
         Shape(modes, stack, due), modes # <<>>, Last(modes) = "array", NEW other \in BOOLEAN
  PROVE  Shape(modes, stack, other)
<1>1. Shape(Front(modes), Front(stack), TRUE) /\ TopFits(Last(modes), Last(stack), due)
  BY ShapeLast
<1>2. stack # <<>>
  BY ShapeEmpty
<1>3. /\ Last(modes) \in Modes /\ Front(modes) \in Seq(Modes) /\ modes = Append(Front(modes), Last(modes))
      /\ Last(stack) \in Node /\ Front(stack) \in Seq(Node) /\ stack = Append(Front(stack), Last(stack))
  BY <1>2, LastIs
<1>4. TopFits(Last(modes), Last(stack), other)
  BY <1>1 DEF TopFits
<1>5. Shape(Append(Front(modes), Last(modes)), Append(Front(stack), Last(stack)), other)
  <2> DEFINE ms == Front(modes)
             st == Front(stack)
             mode == Last(modes)
             node == Last(stack)
  <2>1. ms \in Seq(Modes) /\ st \in Seq(Node) /\ mode \in Modes /\ node \in Node
    BY <1>3
  <2>2. Shape(ms, st, TRUE) /\ TopFits(mode, node, other)
    BY <1>1, <1>4
  <2> HIDE DEF ms, st, mode, node
  <2>3. Shape(Append(ms, mode), Append(st, node), other)
    BY <2>1, <2>2, ShapeTop
  <2> QED BY <2>3 DEF ms, st, mode, node
<1>6. modes = Append(Front(modes), Last(modes)) /\ stack = Append(Front(stack), Last(stack))
  BY <1>3
<1> QED
  BY <1>5, <1>6

\* act_sp: a comma, behind which an object has a key and an array a value.
LEMMA CommaLed ==
  ASSUME NEW p, NEW d, Ready(p, d), NEW memory \in Memory, NEW env,
         p.state \in {"OK"} \cup NumberEnds, NEW r, r = DoAction(p, env, "SP")
  PROVE  Led(p, d, memory, r, 0)
<1> DEFINE b == DoBuffer(p, env)
           q == Act(p, env, "SP")
           due == Due(p) /\ p.type = "NONE"
<1>1. Good(p) /\ p \in ParserType /\ Lexed(p) /\ p.ret = "SUCCESS"
  BY DEF Ready, Good, InStep
<1>2. /\ b \in ParserType /\ Alike(p, b)
      /\ \E t : /\ Follows(d, memory, p, b, t) /\ Tells(t, b.events)
                /\ b.ret = "SUCCESS" => Shape(b.stack, t.stack, due)
                /\ p.type = "NONE" => t = d
  BY ReportTold
<1>3. Good(b)
  BY <1>1, ReportGood
<1>4. due = FALSE /\ p.expectingKey = FALSE
  <2>1. p.state \notin CommentStates
    BY DEF NumberEnds, CommentStates
  <2> QED BY <1>1, <2>1, ReportedDue
<1> HIDE DEF due
<1>5. q = Then(b, ActSP(b))
  BY DEF Act
<1> HIDE DEF b
<1>6. PICK t : /\ Follows(d, memory, p, b, t) /\ Tells(t, b.events)
               /\ b.ret = "SUCCESS" => Shape(b.stack, t.stack, FALSE)
  BY <1>2, <1>4
<1>7. q \in ParserType
  BY <1>3, <1>5, CommaGood, ThenGood DEF Good
<1> HIDE DEF q
<1>8. /\ r.ret = q.ret /\ r.events = q.events /\ r.stack = q.stack /\ r.stackSize = q.stackSize
      /\ r.config = q.config /\ r.expectingKey = q.expectingKey /\ r.saved = q.saved
      /\ q.ret = "SUCCESS" => r.state = q.state /\ r.type = "NONE"
  <2>1. "SP" \notin DOMAIN ActionState /\ "SP" \notin DOMAIN ActionType
    BY ActionsLeave
  <2> QED BY <1>7, <2>1, ActionIs DEF q
<1>9. q.events = b.events
  BY <1>2, <1>5 DEF Then, ActSP, Raise, ParserType
<1>10. Follows(d, memory, p, r, t) /\ Tells(t, r.events)
  <2>1. r.events = b.events
    BY <1>8, <1>9
  <2> QED BY <1>6, <2>1, FollowsSame
<1>11. ASSUME r.ret = "SUCCESS"
       PROVE  InStep(r, t) /\ Frame(p, r, 0)
  <2>1. b.ret = "SUCCESS"
    BY <1>5, <1>8, <1>11 DEF Then
  <2>2. /\ b.stack # <<>> /\ q.stack = b.stack /\ q.stackSize = b.stackSize /\ q.config = b.config
        /\ \/ Last(b.stack) = "object" /\ q.expectingKey = TRUE /\ q.state = "_K"
           \/ Last(b.stack) # "object" /\ q.expectingKey = b.expectingKey /\ q.state = "_V"
    BY <1>2, <1>5, <1>8, <1>11, <2>1 DEF Then, ActSP, Raise, ParserType, Last
  <2>3. b.stack = p.stack /\ b.expectingKey = FALSE /\ b.stackSize = p.stackSize /\ b.config = p.config
    BY <1>2, <1>4 DEF Alike
  <2>4. Shape(r.stack, t.stack, FALSE) /\ r.stack = p.stack
    BY <1>6, <1>8, <2>1, <2>2, <2>3
  <2>5. p.stack \in Seq(Modes) /\ Len(p.stack) \in Nat /\ t.stack \in Seq(Node)
    <3>1. t \in Tree
      BY <1>6 DEF Tells
    <3>2. t.stack \in Seq(Node)
      BY <3>1, PlaceType
    <3>3. p.stack \in Seq(Modes)
      BY <1>1, ParserIs
    <3> QED BY <3>2, <3>3
  <2>6. Frame(p, r, 0)
    BY <1>8, <2>2, <2>3, <2>5 DEF Frame
  <2>7. CASE Last(b.stack) = "object"
    <3>1. r.expectingKey = TRUE /\ r.state = "_K" /\ r.type = "NONE"
      BY <1>8, <1>11, <2>2, <2>7
    <3>2. Lexed(r) /\ Now(r) = "_K" /\ Due(r) = FALSE
      BY <3>1 DEF Lexed, Now, Due, CommentStates, NumberStates, NumberEnds
    <3>3. r.stack # <<>> /\ Last(r.stack) = "object"
      BY <2>2, <2>3, <2>4, <2>7
    <3> QED BY <2>4, <2>6, <3>2, <3>3 DEF InStep
  <2>8. CASE Last(b.stack) # "object"
    <3>1. r.expectingKey = FALSE /\ r.state = "_V" /\ r.type = "NONE"
      BY <1>8, <1>11, <2>2, <2>3, <2>8
    <3>2. Lexed(r) /\ Now(r) = "_V" /\ Due(r) = TRUE
      BY <3>1 DEF Lexed, Now, Due, CommentStates, NumberStates, NumberEnds
    <3>3. r.stack # <<>> /\ Last(r.stack) = "array"
      <4>1. Last(p.stack) \in Modes
        BY <2>2, <2>3, <2>5, LastIs
      <4> QED BY <2>2, <2>3, <2>4, <2>8, <4>1 DEF Modes
    <3>4. Shape(r.stack, t.stack, TRUE)
      <4>1. r.stack \in Seq(Modes)
        BY <2>4, <2>5
      <4> QED BY <2>4, <2>5, <3>3, <4>1, ArrayAny
    <3> QED BY <2>6, <3>1, <3>2, <3>3, <3>4 DEF InStep
  <2> QED BY <2>7, <2>8
<1> QED
  BY <1>10, <1>11 DEF Led

\* act_cb, act_yb: a comment ends the value before it.
LEMMA CommentLed ==
  ASSUME NEW p, NEW d, Ready(p, d), NEW memory \in Memory, NEW env, NEW action \in {"CB", "YB"},
         p.state \in Structural \cup NumberEnds, NEW r, r = DoAction(p, env, action)
  PROVE  Led(p, d, memory, r, 0)
<1> DEFINE b == DoBuffer(p, env)
           q == Act(p, env, action)
           due == Due(p) /\ p.type = "NONE"
           allowed == IF action = "CB" THEN p.config.cComments ELSE p.config.yamlComments
<1>1. Good(p) /\ p \in ParserType /\ Lexed(p) /\ p.ret = "SUCCESS" /\ InStep(p, d)
  BY DEF Ready, Good, InStep
<1>2. /\ b \in ParserType /\ Alike(p, b)
      /\ \E t : /\ Follows(d, memory, p, b, t) /\ Tells(t, b.events)
                /\ b.ret = "SUCCESS" => Shape(b.stack, t.stack, due)
                /\ p.type = "NONE" => t = d
  BY ReportTold
<1>3. Good(b)
  BY <1>1, ReportGood
<1>4. p.state \notin CommentStates /\ p.expectingKey \in BOOLEAN
  <2>1. p.state \notin CommentStates
    BY DEF Structural, NumberEnds, CommentStates
  <2> QED BY <1>1, <2>1, ParserIs
<1>5. /\ due \in BOOLEAN
      /\ p.state \in {"OK"} \cup NumberEnds => due = FALSE /\ p.expectingKey = FALSE
      /\ p.state \in Structural \ {"OK"} => due = Due(p) /\ p.type = "NONE"
  BY <1>1, <1>4, ReportedDue
<1> HIDE DEF due
<1>6. q = Then(b, CommentBegin(b, allowed))
  BY DEF Act
<1> HIDE DEF b, allowed
<1>7. PICK t : /\ Follows(d, memory, p, b, t) /\ Tells(t, b.events)
               /\ b.ret = "SUCCESS" => Shape(b.stack, t.stack, due)
               /\ p.type = "NONE" => t = d
  BY <1>2
<1>8. q \in ParserType
  BY <1>3, <1>6, CommentGood, ThenGood DEF Good
<1> HIDE DEF q
<1>9. /\ r.ret = q.ret /\ r.events = q.events /\ r.stack = q.stack /\ r.stackSize = q.stackSize
      /\ r.config = q.config /\ r.expectingKey = q.expectingKey /\ r.saved = q.saved
      /\ q.ret = "SUCCESS" => r.state \in CommentStates /\ r.type = "NONE"
  <2>1. action \in DOMAIN ActionState /\ action \notin DOMAIN ActionType
        /\ ActionState[action] \in CommentStates
    BY ActionsLeave
  <2> QED BY <1>8, <2>1, ActionIs DEF q
<1>10. q.events = b.events
  BY <1>2, <1>6 DEF Then, CommentBegin, Raise, ParserType
<1>11. Follows(d, memory, p, r, t) /\ Tells(t, r.events)
  <2>1. r.events = b.events
    BY <1>9, <1>10
  <2> QED BY <1>7, <2>1, FollowsSame
<1>12. ASSUME r.ret = "SUCCESS"
       PROVE  InStep(r, t) /\ Frame(p, r, 0)
  <2>1. b.ret = "SUCCESS"
    BY <1>6, <1>9, <1>12 DEF Then
  <2>2. /\ q.stack = b.stack /\ q.stackSize = b.stackSize /\ q.config = b.config
        /\ q.expectingKey = b.expectingKey /\ q.saved = b.state
    BY <1>2, <1>6, <1>9, <1>12, <2>1 DEF Then, CommentBegin, Raise, ParserType
  <2>3. /\ r.stack = p.stack /\ r.stackSize = p.stackSize /\ r.config = p.config
        /\ r.expectingKey = p.expectingKey /\ r.saved = p.state
        /\ r.state \in CommentStates /\ r.type = "NONE"
    BY <1>2, <1>9, <1>12, <2>2 DEF Alike
  <2>4. Frame(p, r, 0)
    <3>1. Len(p.stack) \in Nat
      BY <1>1, ParserIs
    <3> QED BY <2>3, <3>1 DEF Frame
  <2>5. Now(p) = p.state /\ Now(r) = (IF p.state \in Structural THEN p.state ELSE "OK")
    BY <1>4, <2>3 DEF Now
  <2>6. Due(p) \in BOOLEAN /\ Due(r) \in BOOLEAN
    BY DEF Due
  <2>7. Shape(r.stack, t.stack, due)
    BY <1>2, <1>7, <2>1, <2>3 DEF Alike
  <2>8. CASE p.state \in {"OK"} \cup NumberEnds
    <3>1. Now(r) = "OK"
      BY <2>5, <2>8 DEF Structural, NumberEnds
    <3>2. due = FALSE /\ r.expectingKey = FALSE
      BY <1>5, <2>3, <2>8
    <3>3. Due(r) = FALSE
      BY <2>3, <3>1 DEF Due
    <3>4. Lexed(r)
      <4>1. r.state \notin NumberStates
        BY <2>3 DEF CommentStates, NumberStates, NumberEnds
      <4> QED BY <2>3, <3>1, <3>2, <4>1 DEF Lexed
    <3>5. Shape(r.stack, t.stack, Due(r))
      BY <2>7, <3>2, <3>3
    <3> HIDE DEF Lexed, Due, Now
    <3> QED BY <2>4, <3>1, <3>2, <3>3, <3>4, <3>5 DEF InStep
  <2>9. CASE p.state \in Structural \ {"OK"}
    <3>1. Now(r) = p.state
      BY <2>5, <2>9
    <3>2. due = Due(p) /\ p.type = "NONE"
      BY <1>5, <2>9
    <3>3. Due(r) = Due(p)
      BY <2>3, <2>5, <2>6, <2>9, <3>1 DEF Due
    <3>4. Lexed(r)
      <4>1. r.state \notin NumberStates
        BY <2>3 DEF CommentStates, NumberStates, NumberEnds
      <4> QED BY <1>1, <2>3, <2>5, <3>1, <4>1 DEF Lexed
    <3>5. Shape(r.stack, t.stack, Due(r))
      BY <2>7, <3>2, <3>3
    <3>6. Now(r) = Now(p) /\ r.expectingKey = p.expectingKey /\ r.stack = p.stack
      BY <2>3, <2>5, <3>1
    <3>7. Due(p) => p.stack # <<>>
      BY <1>1 DEF InStep
    <3>8. p.expectingKey => p.stack # <<>> /\ Last(p.stack) = "object"
      BY <1>1 DEF InStep
    <3>9. Now(r) = "GO" => p.stack = <<>> /\ t.root = <<>>
      <4>1. t = d
        BY <1>7, <3>2
      <4> QED BY <1>1, <3>6, <4>1 DEF InStep
    <3> HIDE DEF Lexed, Due, Now
    <3> QED BY <2>4, <3>3, <3>4, <3>5, <3>6, <3>7, <3>8, <3>9 DEF InStep
  <2> QED BY <2>8, <2>9
<1> QED
  BY <1>11, <1>12 DEF Led

\* do_callback: the event is out, or the call fails.
LEMMA CallbackIs ==
  ASSUME NEW p, p \in ParserType, NEW env, NEW type \in Types, NEW data \in Seq(Int),
         NEW q, q = Callback(p, env, type, data)
  PROVE  /\ q \in ParserType /\ Alike(p, q) /\ q.buffer = p.buffer
         /\ \/ q.ret = "CALLBACK" /\ q.events = p.events
            \/ q.ret = p.ret /\ q.events = Append(p.events, [type |-> type, data |-> data])
<1> DEFINE e == [type |-> type, data |-> data]
<1>1. e \in Event /\ p.events \in Story
  BY ParserIs DEF Event
<1>2. Append(p.events, e) \in Seq(Event)
  BY <1>1 DEF Story
<1>3. q = Raise(p, "CALLBACK") \/ q = [p EXCEPT !.events = Append(p.events, e)]
  BY DEF Callback
<1> HIDE DEF e
<1>4. CASE q = Raise(p, "CALLBACK")
  BY <1>4 DEF Raise, ParserType, Alike, Errors
<1>5. CASE q = [p EXCEPT !.events = Append(p.events, e)]
  <2>1. q \in ParserType
    BY <1>2, <1>5 DEF ParserType, Event
  <2>2. Alike(p, q) /\ q.buffer = p.buffer /\ q.ret = p.ret /\ q.events = Append(p.events, e)
    BY <1>5 DEF ParserType, Alike
  <2> QED BY <2>1, <2>2 DEF e
<1> QED
  BY <1>3, <1>4, <1>5

\* act_se: the end of a key or of a string.
LEMMA StringLed ==
  ASSUME NEW p, NEW d, Ready(p, d), NEW memory \in Memory, NEW env,
         p.state \in StringStates, NEW r, r = DoAction(p, env, "SE")
  PROVE  Led(p, d, memory, r, 0)
<1> DEFINE type == IF p.expectingKey THEN "KEY" ELSE "STRING"
           told == Callback(p, env, type, p.buffer)
           s    == IF p.expectingKey THEN "CO" ELSE "OK"
           e    == [type |-> type, data |-> p.buffer]
           q    == Act(p, env, "SE")
           t    == DomCallback(d, memory, e)
<1>1. /\ Good(p) /\ p \in ParserType /\ Lexed(p) /\ p.ret = "SUCCESS" /\ InStep(p, d)
      /\ d \in Tree /\ Tells(d, p.events) /\ Shape(p.stack, d.stack, Due(p))
  BY DEF Ready, Good, InStep, Tells
<1>2. /\ p.events \in Story /\ p.stack \in Seq(Modes) /\ p.buffer \in Seq(Int)
      /\ p.expectingKey \in BOOLEAN /\ Len(p.stack) \in Nat
  <2>1. p.events \in Story /\ p.stack \in Seq(Modes) /\ p.buffer \in Seq(Int) /\ p.expectingKey \in BOOLEAN
    BY <1>1, ParserIs
  <2> QED BY <2>1
<1>3. type \in Types /\ e \in Event
  <2>1. type \in Types
    BY DEF Types, Scalars
  <2> QED BY <1>2, <2>1 DEF Event
<1>4. /\ told \in ParserType /\ Alike(p, told)
      /\ \/ told.ret = "CALLBACK" /\ told.events = p.events
         \/ told.ret = p.ret /\ told.events = Append(p.events, e)
  <2>1. told = Callback(p, env, type, p.buffer) /\ e = [type |-> type, data |-> p.buffer]
    OBVIOUS
  <2> HIDE DEF told, type, e
  <2>2. /\ told \in ParserType /\ Alike(p, told)
        /\ \/ told.ret = "CALLBACK" /\ told.events = p.events
           \/ told.ret = p.ret /\ told.events = Append(p.events, [type |-> type, data |-> p.buffer])
    BY <1>1, <1>2, <1>3, <2>1, CallbackIs
  <2> QED BY <2>1, <2>2
<1>5. q = Then(told, [told EXCEPT !.buffer = <<>>, !.expectingKey = FALSE, !.state = s])
  BY DEF Act, ActSE
<1>6. q \in ParserType
  <2>1. Good(ActSE(p, env)) /\ q = ActSE(p, env)
    BY <1>1, StringEndGood DEF Act
  <2> QED BY <2>1 DEF Good
<1>7. (p.expectingKey => type = "KEY" /\ s = "CO") /\ (~ p.expectingKey => type = "STRING" /\ s = "OK")
  OBVIOUS
<1>8. e.type = type
  OBVIOUS
<1> HIDE DEF told, s, e, type, t
<1>9. /\ q.ret = told.ret /\ q.events = told.events /\ q.stack = p.stack /\ q.stackSize = p.stackSize
      /\ q.config = p.config /\ q.saved = p.saved
      /\ q.ret = "SUCCESS" => q.expectingKey = FALSE /\ q.state = s
  BY <1>4, <1>5 DEF Then, Alike, ParserType
<1> HIDE DEF q
<1>10. /\ r.ret = q.ret /\ r.events = q.events /\ r.stack = q.stack /\ r.stackSize = q.stackSize
       /\ r.config = q.config /\ r.expectingKey = q.expectingKey /\ r.saved = q.saved
       /\ q.ret = "SUCCESS" => r.state = q.state /\ r.type = "NONE"
  <2>1. "SE" \notin DOMAIN ActionState /\ "SE" \notin DOMAIN ActionType
    BY ActionsLeave
  <2> QED BY <1>6, <2>1, ActionIs DEF q
<1>11. CASE told.ret = "CALLBACK" /\ told.events = p.events
  <2>1. r.events = p.events /\ r.ret # "SUCCESS"
    BY <1>9, <1>10, <1>11
  <2> QED BY <2>1, FailedLed
<1>12. CASE told.ret = p.ret /\ told.events = Append(p.events, e)
  <2>1. r.ret = "SUCCESS" /\ r.events = Append(p.events, e) /\ r.stack = p.stack
        /\ r.stackSize = p.stackSize /\ r.config = p.config /\ r.expectingKey = FALSE
        /\ r.state = s /\ r.type = "NONE"
    BY <1>1, <1>9, <1>10, <1>12
  <2>2. Follows(d, memory, p, r, t)
    <3>1. Follows(d, memory, p, p, d)
      BY <1>1, <1>2, FollowsNone
    <3> QED BY <1>1, <1>2, <1>3, <2>1, <3>1, FollowsMore DEF t
  <2>3. Frame(p, r, 0)
    BY <1>2, <2>1 DEF Frame
  <2>4. Now(p) = p.state /\ Due(p) = ~ p.expectingKey
    <3>1. p.state \notin CommentStates /\ p.state \notin {"GO", "OK"}
      BY DEF StringStates, CommentStates
    <3>2. Now(p) = p.state
      BY <3>1 DEF Now
    <3> QED BY <3>1, <3>2 DEF Due
  <2>5. CASE p.expectingKey
    <3>1. type = "KEY" /\ s = "CO" /\ p.stack # <<>> /\ Last(p.stack) = "object" /\ Due(p) = FALSE
      BY <1>1, <1>7, <2>4, <2>5 DEF InStep
    <3>2. Tells(t, Append(p.events, e)) /\ Shape(p.stack, t.stack, TRUE)
      BY <1>1, <1>2, <1>3, <1>8, <3>1, KeyTold DEF t
    <3>3. Now(r) = "CO" /\ Due(r) = TRUE /\ Lexed(r)
      BY <2>1, <3>1 DEF Now, Due, Lexed, CommentStates, NumberStates, NumberEnds
    <3>4. InStep(r, t)
      BY <2>1, <3>1, <3>2, <3>3 DEF InStep
    <3> QED BY <2>1, <2>2, <2>3, <3>2, <3>4 DEF Led
  <2>6. CASE ~ p.expectingKey
    <3>1. type = "STRING" /\ s = "OK" /\ p.stack # <<>> /\ Due(p) = TRUE
      BY <1>1, <1>7, <2>4, <2>6 DEF InStep
    <3>2. Tells(t, Append(p.events, e)) /\ Shape(p.stack, t.stack, FALSE)
      <4>1. e.type \in Scalars \ {"KEY"}
        BY <1>8, <3>1 DEF Scalars
      <4> QED BY <1>1, <1>2, <1>3, <3>1, <4>1, ScalarTold DEF t
    <3>3. Now(r) = "OK" /\ Due(r) = FALSE /\ Lexed(r)
      BY <2>1, <3>1 DEF Now, Due, Lexed, CommentStates, NumberStates, NumberEnds
    <3>4. InStep(r, t)
      BY <2>1, <3>2, <3>3 DEF InStep
    <3> QED BY <2>1, <2>2, <2>3, <3>2, <3>4 DEF Led
  <2> QED BY <1>2, <2>5, <2>6
<1> QED
  BY <1>4, <1>11, <1>12

----------------------------------------------------------------------------

\* The marks of a structure.
EndOf(kind) == IF kind = "object" THEN "OBJECT_END" ELSE "ARRAY_END"
BeginOf(kind) == IF kind = "object" THEN "OBJECT_BEGIN" ELSE "ARRAY_BEGIN"

\* They are events without data.
LEMMA EndsAre ==
  ASSUME NEW kind \in Modes
  PROVE  /\ EndOf(kind) \in Types /\ BeginOf(kind) \in Types
         /\ [type |-> EndOf(kind), data |-> <<>>] = Mark(EndOf(kind)) /\ Mark(EndOf(kind)) \in Event
         /\ [type |-> BeginOf(kind), data |-> <<>>] = Mark(BeginOf(kind)) /\ Mark(BeginOf(kind)) \in Event
<1>1. EndOf(kind) \in Types /\ BeginOf(kind) \in Types
  BY DEF EndOf, BeginOf, Types
<1> QED
  BY <1>1, MarkType DEF Mark

\* The end of a structure, behind the value that waited.
LEMMA EndIs ==
  ASSUME NEW b, b \in ParserType, b.ret = "SUCCESS", NEW env, NEW kind \in Modes,
         NEW q, q = End(b, env, EndOf(kind), kind)
  PROVE  /\ q.config = b.config /\ q.stackSize = b.stackSize /\ q.saved = b.saved
         /\ \/ q.ret # "SUCCESS" /\ q.events = b.events
            \/ /\ q.ret = "SUCCESS" /\ q.events = Append(b.events, Mark(EndOf(kind)))
               /\ b.stack # <<>> /\ Last(b.stack) = kind /\ q.stack = Front(b.stack)
               /\ q.expectingKey = (b.expectingKey /\ kind # "object")
<1> DEFINE popped == StatePop(b, kind)
           called == Callback(popped, env, EndOf(kind), <<>>)
           told   == Then(popped, called)
           e      == Mark(EndOf(kind))
           key    == told.expectingKey /\ kind # "object"
<1>1. q = Then(told, [told EXCEPT !.expectingKey = key])
  BY DEF End
<1>2. b.stack \in Seq(Modes) /\ b.expectingKey \in BOOLEAN
  BY ParserIs
<1>3. \/ b.stack = <<>> /\ popped = Raise(b, "POP_EMPTY")
      \/ /\ b.stack # <<>>
         /\ popped = [b EXCEPT !.stack = Front(b.stack),
                               !.ret = IF Last(b.stack) = kind THEN b.ret ELSE "POP_UNEXPECTED_MODE"]
  BY DEF StatePop, Front, Last
<1> HIDE DEF popped
<1>4. /\ popped \in ParserType
      /\ popped.config = b.config /\ popped.stackSize = b.stackSize /\ popped.saved = b.saved
      /\ popped.events = b.events /\ popped.expectingKey = b.expectingKey
      /\ \/ popped.ret # "SUCCESS"
         \/ popped.ret = "SUCCESS" /\ b.stack # <<>> /\ Last(b.stack) = kind /\ popped.stack = Front(b.stack)
  <2>1. CASE b.stack = <<>> /\ popped = Raise(b, "POP_EMPTY")
    BY <2>1 DEF Raise, ParserType, Errors
  <2>2. CASE /\ b.stack # <<>>
             /\ popped = [b EXCEPT !.stack = Front(b.stack),
                                   !.ret = IF Last(b.stack) = kind THEN b.ret ELSE "POP_UNEXPECTED_MODE"]
    <3>1. Front(b.stack) \in Seq(Modes)
      BY <1>2, <2>2, LastIs
    <3> DEFINE rest == Front(b.stack)
               last == Last(b.stack)
    <3> HIDE DEF rest, last
    <3>2. popped = [b EXCEPT !.stack = rest, !.ret = IF last = kind THEN b.ret ELSE "POP_UNEXPECTED_MODE"]
      BY <2>2 DEF rest, last
    <3>3. rest \in Seq(Modes)
      BY <3>1 DEF rest
    <3>4. /\ popped \in ParserType
          /\ popped.config = b.config /\ popped.stackSize = b.stackSize /\ popped.saved = b.saved
          /\ popped.events = b.events /\ popped.expectingKey = b.expectingKey
          /\ popped.stack = rest
          /\ popped.ret = IF last = kind THEN b.ret ELSE "POP_UNEXPECTED_MODE"
      BY <3>2, <3>3 DEF ParserType, Errors
    <3> QED BY <2>2, <3>4 DEF rest, last
  <2> QED BY <1>3, <2>1, <2>2
<1>5. /\ called \in ParserType /\ Alike(popped, called)
      /\ \/ called.ret = "CALLBACK" /\ called.events = popped.events
         \/ called.ret = popped.ret /\ called.events = Append(popped.events, e)
  <2>1. <<>> \in Seq(Int)
    OBVIOUS
  <2>2. EndOf(kind) \in Types /\ [type |-> EndOf(kind), data |-> <<>>] = Mark(EndOf(kind))
    BY EndsAre
  <2> DEFINE none == <<>>
             type == EndOf(kind)
  <2>3. called = Callback(popped, env, type, none) /\ e = [type |-> type, data |-> none]
    BY <2>2
  <2>4. none \in Seq(Int) /\ type \in Types
    BY <2>1, <2>2
  <2> HIDE DEF called, none, type, e
  <2>5. /\ called \in ParserType /\ Alike(popped, called)
        /\ \/ called.ret = "CALLBACK" /\ called.events = popped.events
           \/ called.ret = popped.ret /\ called.events = Append(popped.events, [type |-> type, data |-> none])
    BY <1>4, <2>3, <2>4, CallbackIs
  <2> QED BY <2>3, <2>5
<1> HIDE DEF called, e
<1>6. /\ told \in ParserType
      /\ told.config = b.config /\ told.stackSize = b.stackSize /\ told.saved = b.saved
      /\ told.expectingKey = b.expectingKey
      /\ \/ told.ret # "SUCCESS" /\ told.events = b.events
         \/ /\ told.ret = "SUCCESS" /\ told.events = Append(b.events, e)
            /\ b.stack # <<>> /\ Last(b.stack) = kind /\ told.stack = Front(b.stack)
  BY <1>4, <1>5 DEF Then, Alike
<1> HIDE DEF told
<1>7. /\ q.config = b.config /\ q.stackSize = b.stackSize /\ q.saved = b.saved
      /\ q.ret = told.ret /\ q.events = told.events /\ q.stack = told.stack
      /\ q.ret = "SUCCESS" => q.expectingKey = key
  <2> HIDE DEF key
  <2> QED BY <1>1, <1>6 DEF Then, ParserType
<1>8. key = (b.expectingKey /\ kind # "object")
  BY <1>6
<1> QED
  BY <1>6, <1>7, <1>8 DEF e

\* act_oe, act_ae.
LEMMA EndLed ==
  ASSUME NEW p, NEW d, Ready(p, d), NEW memory \in Memory, NEW env, NEW kind \in Modes,
         NEW action, action = (IF kind = "object" THEN "OE" ELSE "AE"),
         p.state \in {"OK", IF kind = "object" THEN "_O" ELSE "_A"} \cup NumberEnds,
         NEW r, r = DoAction(p, env, action)
  PROVE  Led(p, d, memory, r, 0)
<1> DEFINE b == DoBuffer(p, env)
           q == Act(p, env, action)
           due == Due(p) /\ p.type = "NONE"
           ended == End(b, env, EndOf(kind), kind)
<1>1. Good(p) /\ p \in ParserType /\ Lexed(p) /\ p.ret = "SUCCESS" /\ d \in Tree
  BY DEF Ready, Good, InStep, Tells
<1>2. /\ b \in ParserType /\ Alike(p, b)
      /\ \E t : /\ Follows(d, memory, p, b, t) /\ Tells(t, b.events)
                /\ b.ret = "SUCCESS" => Shape(b.stack, t.stack, due)
                /\ p.type = "NONE" => t = d
  BY ReportTold
<1>3. Good(b)
  BY <1>1, ReportGood
<1>4. kind = "object" \/ kind = "array"
  BY DEF Modes
<1>5. /\ due \in BOOLEAN
      /\ kind = "object" => due = FALSE
      /\ p.expectingKey => kind = "object"
  <2>1. p.state \notin CommentStates
    BY DEF CommentStates, NumberEnds
  <2>2. /\ due \in BOOLEAN
        /\ p.state \in {"OK"} \cup NumberEnds => due = FALSE /\ p.expectingKey = FALSE
        /\ p.state = "_O" => due = FALSE /\ p.expectingKey = TRUE
        /\ p.state = "_A" => p.expectingKey = FALSE
    BY <1>1, <2>1, ReportedDue
  <2> HIDE DEF due
  <2>3. CASE p.state \in {"OK"} \cup NumberEnds
    BY <2>2, <2>3
  <2>4. CASE p.state \notin {"OK"} \cup NumberEnds
    BY <2>2, <2>4
  <2> QED BY <2>3, <2>4
<1> HIDE DEF due
<1>6. q = Then(b, ended)
  BY <1>4 DEF Act, EndOf
<1>7. q \in ParserType
  <2> HIDE DEF b
  <2>1. Good(ended)
    BY <1>3, EndsAre, EndGood
  <2> HIDE DEF ended
  <2> QED BY <1>3, <1>6, <2>1, ThenGood DEF Good
<1>8. /\ r.ret = q.ret /\ r.events = q.events /\ r.stack = q.stack /\ r.stackSize = q.stackSize
      /\ r.config = q.config /\ r.expectingKey = q.expectingKey
      /\ q.ret = "SUCCESS" => r.state = "OK" /\ r.type = "NONE"
  <2>1. action \in DOMAIN ActionState /\ action \notin DOMAIN ActionType
        /\ ActionState[action] = "OK"
    BY <1>4, ActionsLeave
  <2> HIDE DEF q
  <2> QED BY <1>7, <2>1, ActionIs DEF q
<1> HIDE DEF b, q
<1>9. PICK t : /\ Follows(d, memory, p, b, t) /\ Tells(t, b.events)
               /\ b.ret = "SUCCESS" => Shape(b.stack, t.stack, due)
  BY <1>2
<1>10. b.ret = "SUCCESS" =>
         /\ ended.config = b.config /\ ended.stackSize = b.stackSize
         /\ \/ ended.ret # "SUCCESS" /\ ended.events = b.events
            \/ /\ ended.ret = "SUCCESS" /\ ended.events = Append(b.events, Mark(EndOf(kind)))
               /\ b.stack # <<>> /\ Last(b.stack) = kind /\ ended.stack = Front(b.stack)
               /\ ended.expectingKey = (b.expectingKey /\ kind # "object")
  BY <1>2, EndIs
<1> HIDE DEF ended
<1>11. CASE r.ret # "SUCCESS"
  <2>1. r.events = b.events
    BY <1>6, <1>8, <1>10, <1>11 DEF Then
  <2> QED BY <1>9, <1>11, <2>1, FollowsSame DEF Led
<1>12. CASE r.ret = "SUCCESS"
  <2> DEFINE e == Mark(EndOf(kind))
             u == DomCallback(t, memory, e)
  <2>1. b.ret = "SUCCESS" /\ q = ended
    BY <1>6, <1>8, <1>12 DEF Then
  <2>2. /\ r.events = Append(b.events, e)
        /\ b.stack # <<>> /\ Last(b.stack) = kind /\ r.stack = Front(b.stack)
        /\ r.expectingKey = (b.expectingKey /\ kind # "object")
        /\ r.config = b.config /\ r.stackSize = b.stackSize
        /\ r.state = "OK" /\ r.type = "NONE"
    BY <1>8, <1>10, <1>12, <2>1
  <2>3. b.stack = p.stack /\ b.config = p.config /\ b.stackSize = p.stackSize
        /\ b.expectingKey = p.expectingKey
    BY <1>2 DEF Alike
  <2>4. p.events \in Story /\ b.events \in Story /\ b.stack \in Seq(Modes) /\ p.expectingKey \in BOOLEAN
    BY <1>1, <1>2, ParserIs
  <2>5. r.expectingKey = FALSE
    BY <1>5, <2>2, <2>3, <2>4
  <2>6. e \in Event
    BY EndsAre
  <2>7. Follows(d, memory, p, r, u)
    BY <1>1, <1>9, <2>2, <2>4, <2>6, FollowsMore
  <2>8. Tells(u, Append(b.events, e)) /\ Shape(Front(b.stack), u.stack, FALSE)
    <3>1. Shape(b.stack, t.stack, due) /\ due \in BOOLEAN /\ (kind = "object" => ~ due)
      BY <1>5, <1>9, <2>1
    <3>2. e = Mark(IF kind = "object" THEN "OBJECT_END" ELSE "ARRAY_END")
      BY DEF EndOf
    <3> HIDE DEF e
    <3> QED BY <1>9, <2>2, <2>4, <3>1, <3>2, EndTold
  <2> HIDE DEF e, u
  <2>9. Now(r) = "OK" /\ Due(r) = FALSE /\ Lexed(r)
    BY <2>2, <2>5 DEF Now, Due, Lexed, CommentStates, NumberStates, NumberEnds
  <2>10. InStep(r, u)
    BY <2>2, <2>5, <2>8, <2>9 DEF InStep
  <2>11. Frame(p, r, 0)
    <3>1. Len(Front(b.stack)) = Len(b.stack) - 1 /\ Len(b.stack) \in Nat
      BY <2>2, <2>4, LastIs
    <3> QED BY <2>2, <2>3, <3>1 DEF Frame
  <2> QED BY <2>2, <2>7, <2>8, <2>10, <2>11 DEF Led
<1> QED
  BY <1>11, <1>12

\* state_push: the stack grows, or has one element more, or the call fails.
LEMMA PushIs ==
  ASSUME NEW p, p \in ParserType, p.ret = "SUCCESS", NEW env, NEW mode \in Modes,
         NEW q, q = StatePush(p, env, mode)
  PROVE  /\ q \in ParserType /\ q.events = p.events /\ q.config = p.config
         /\ q.expectingKey = p.expectingKey
         /\ q.ret = "SUCCESS" =>
              /\ q.stack = Append(p.stack, mode)
              /\ p.config.nesting # 0 => q.stackSize = p.stackSize
<1> DEFINE full  == Len(p.stack) >= p.stackSize
           twice == 2 * p.stackSize
           longer == Append(p.stack, mode)
<1>1. p.stack \in Seq(Modes) /\ p.stackSize \in Nat /\ p.config.nesting \in Nat
  BY DEF ParserType, ConfigType
<1>2. twice \in Nat /\ longer \in Seq(Modes)
  BY <1>1
<1>3. \/ q \in {Raise(p, "NESTING_LIMIT"), Raise(p, "NO_MEMORY")}
      \/ full /\ p.config.nesting = 0 /\ q = [p EXCEPT !.stackSize = twice, !.stack = longer]
      \/ ~ full /\ q = [p EXCEPT !.stack = longer]
  <2>1. CASE full
    <3> DEFINE grown == [p EXCEPT !.stackSize = twice]
    <3>1. grown.stack = p.stack /\ [grown EXCEPT !.stack = longer] = [p EXCEPT !.stackSize = twice, !.stack = longer]
      <4> HIDE DEF twice, longer
      <4> QED BY DEF ParserType
    <3>2. \/ q = Raise(p, "NESTING_LIMIT") \/ q = Raise(p, "NO_MEMORY")
          \/ p.config.nesting = 0 /\ q = [grown EXCEPT !.stack = Append(grown.stack, mode)]
      BY <2>1 DEF StatePush
    <3> QED BY <2>1, <3>1, <3>2
  <2>2. CASE ~ full
    BY <2>2 DEF StatePush
  <2> QED BY <2>1, <2>2
<1> HIDE DEF full, twice, longer
<1>4. CASE q \in {Raise(p, "NESTING_LIMIT"), Raise(p, "NO_MEMORY")}
  BY <1>4 DEF Raise, ParserType, Errors
<1>5. CASE p.config.nesting = 0 /\ q = [p EXCEPT !.stackSize = twice, !.stack = longer]
  BY <1>2, <1>5 DEF ParserType, longer
<1>6. CASE q = [p EXCEPT !.stack = longer]
  BY <1>2, <1>6 DEF ParserType, longer
<1> QED
  BY <1>3, <1>4, <1>5, <1>6

\* act_ob, act_ab: the tree has the structure even if the parser then fails.
LEMMA BeginIs ==
  ASSUME NEW p, p \in ParserType, p.ret = "SUCCESS", NEW env, NEW kind \in Modes,
         NEW q, q = Begin(p, env, BeginOf(kind), kind)
  PROVE  \/ q.ret # "SUCCESS" /\ q.events = p.events
         \/ /\ q.events = Append(p.events, Mark(BeginOf(kind)))
            /\ q.ret = "SUCCESS" =>
                 /\ q.config = p.config /\ (p.config.nesting # 0 => q.stackSize = p.stackSize)
                 /\ q.stack = Append(p.stack, kind)
                 /\ q.expectingKey = (p.expectingKey \/ kind = "object")
<1> DEFINE told   == Callback(p, env, BeginOf(kind), <<>>)
           raised == StatePush(told, env, kind)
           pushed == Then(told, raised)
           key    == pushed.expectingKey \/ kind = "object"
           e      == Mark(BeginOf(kind))
<1>1. q = Then(pushed, [pushed EXCEPT !.expectingKey = key])
  BY DEF Begin
<1>2. /\ told \in ParserType /\ Alike(p, told)
      /\ \/ told.ret = "CALLBACK" /\ told.events = p.events
         \/ told.ret = p.ret /\ told.events = Append(p.events, e)
  <2> DEFINE none == <<>>
             type == BeginOf(kind)
  <2>1. none \in Seq(Int) /\ type \in Types /\ e = [type |-> type, data |-> none]
    BY EndsAre
  <2>2. told = Callback(p, env, type, none)
    OBVIOUS
  <2> HIDE DEF told, none, type, e
  <2>3. /\ told \in ParserType /\ Alike(p, told)
        /\ \/ told.ret = "CALLBACK" /\ told.events = p.events
           \/ told.ret = p.ret /\ told.events = Append(p.events, [type |-> type, data |-> none])
    BY <2>1, <2>2, CallbackIs
  <2> QED BY <2>1, <2>3
<1> HIDE DEF told, e
<1>3. CASE told.ret = "CALLBACK" /\ told.events = p.events
  <2>1. pushed = told
    BY <1>3 DEF Then
  <2> HIDE DEF pushed
  <2>2. q = told
    BY <1>1, <1>3, <2>1 DEF Then
  <2> QED BY <1>3, <2>2
<1>4. CASE told.ret = p.ret /\ told.events = Append(p.events, e)
  <2>1. pushed = raised
    BY <1>4 DEF Then
  <2>2. told.ret = "SUCCESS" /\ told.stack = p.stack /\ told.config = p.config
        /\ told.stackSize = p.stackSize /\ told.expectingKey = p.expectingKey
    BY <1>2, <1>4 DEF Alike
  <2>3. /\ raised \in ParserType /\ raised.events = told.events /\ raised.config = told.config
        /\ raised.expectingKey = told.expectingKey
        /\ raised.ret = "SUCCESS" =>
             /\ raised.stack = Append(told.stack, kind)
             /\ told.config.nesting # 0 => raised.stackSize = told.stackSize
    BY <1>2, <2>2, PushIs
  <2>4. key = (pushed.expectingKey \/ kind = "object")
    OBVIOUS
  <2> HIDE DEF raised, pushed, key
  <2>5. /\ q.ret = pushed.ret /\ q.events = pushed.events /\ q.config = pushed.config
        /\ q.stack = pushed.stack /\ q.stackSize = pushed.stackSize
        /\ q.ret = "SUCCESS" => q.expectingKey = key
    BY <1>1, <2>1, <2>3 DEF Then, ParserType
  <2>6. q.events = Append(p.events, e)
    BY <1>4, <2>1, <2>3, <2>5
  <2>7. q.ret = "SUCCESS" =>
          /\ q.config = p.config /\ (p.config.nesting # 0 => q.stackSize = p.stackSize)
          /\ q.stack = Append(p.stack, kind)
          /\ q.expectingKey = (p.expectingKey \/ kind = "object")
    BY <2>1, <2>2, <2>3, <2>4, <2>5
  <2> QED BY <2>6, <2>7 DEF e
<1> QED
  BY <1>2, <1>3, <1>4

\* act_ob, act_ab.
LEMMA BeginLed ==
  ASSUME NEW p, NEW d, Ready(p, d), NEW memory \in Memory, NEW env, NEW kind \in Modes,
         NEW action, action = (IF kind = "object" THEN "OB" ELSE "AB"),
         p.state \in {"GO", "_V", "_A"}, Len(d.stack) < DomStack,
         NEW r, r = DoAction(p, env, action)
  PROVE  Led(p, d, memory, r, 1)
<1> DEFINE q == Act(p, env, action)
           e == Mark(BeginOf(kind))
           t == DomCallback(d, memory, e)
<1>1. /\ Good(p) /\ p \in ParserType /\ Lexed(p) /\ p.ret = "SUCCESS" /\ InStep(p, d)
      /\ d \in Tree /\ Tells(d, p.events) /\ Shape(p.stack, d.stack, Due(p))
  BY DEF Ready, Good, InStep, Tells
<1>2. p.events \in Story /\ p.stack \in Seq(Modes) /\ p.expectingKey \in BOOLEAN /\ d.stack \in Seq(Node)
  <2>1. d.stack \in Seq(Node)
    BY <1>1, PlaceType
  <2> QED BY <1>1, <2>1, ParserIs
<1>3. kind = "object" \/ kind = "array"
  BY DEF Modes
<1>4. q = Begin(p, env, BeginOf(kind), kind)
  BY <1>3 DEF Act, BeginOf
<1>5. q \in ParserType
  BY <1>1, <1>4, EndsAre, BeginGood DEF Good
<1>6. /\ r.ret = q.ret /\ r.events = q.events /\ r.stack = q.stack /\ r.stackSize = q.stackSize
      /\ r.config = q.config /\ r.expectingKey = q.expectingKey
      /\ q.ret = "SUCCESS" => r.state = (IF kind = "object" THEN "_O" ELSE "_A") /\ r.type = "NONE"
  <2>1. action \in DOMAIN ActionState /\ action \notin DOMAIN ActionType
        /\ ActionState[action] = (IF kind = "object" THEN "_O" ELSE "_A")
    BY <1>3, ActionsLeave
  <2> HIDE DEF q
  <2> QED BY <1>5, <2>1, ActionIs DEF q
<1> HIDE DEF q
<1>7. \/ q.ret # "SUCCESS" /\ q.events = p.events
      \/ /\ q.events = Append(p.events, e)
         /\ q.ret = "SUCCESS" =>
              /\ q.config = p.config /\ (p.config.nesting # 0 => q.stackSize = p.stackSize)
              /\ q.stack = Append(p.stack, kind)
              /\ q.expectingKey = (p.expectingKey \/ kind = "object")
  BY <1>1, <1>4, BeginIs
<1>8. CASE q.ret # "SUCCESS" /\ q.events = p.events
  BY <1>6, <1>8, FailedLed
<1>9. CASE /\ q.events = Append(p.events, e)
           /\ q.ret = "SUCCESS" =>
                /\ q.config = p.config /\ (p.config.nesting # 0 => q.stackSize = p.stackSize)
                /\ q.stack = Append(p.stack, kind)
                /\ q.expectingKey = (p.expectingKey \/ kind = "object")
  <2>1. e \in Event
    BY EndsAre
  <2>2. Now(p) = p.state /\ p.expectingKey = FALSE /\ Due(p) = (p.state # "GO")
    <3>1. Now(p) = p.state /\ p.state # "OK"
      BY DEF Now, CommentStates
    <3>2. p.expectingKey = FALSE
      BY <1>1, <1>2, <3>1 DEF Lexed, StringStates
    <3> QED BY <3>1, <3>2 DEF Due
  <2>3. (d.stack # <<>> => Due(p)) /\ (d.stack = <<>> => d.root = <<>>)
    <3>1. p.stack = <<>> <=> d.stack = <<>>
      BY <1>1, <1>2, ShapeEmpty
    <3>2. p.state = "GO" => p.stack = <<>> /\ d.root = <<>>
      BY <1>1, <2>2 DEF InStep
    <3>3. Due(p) => p.stack # <<>>
      BY <1>1 DEF InStep
    <3> QED BY <2>2, <3>1, <3>2, <3>3
  <2>4. Tells(t, Append(p.events, e)) /\ Shape(Append(p.stack, kind), t.stack, kind = "array")
    <3>1. e = Mark(IF kind = "object" THEN "OBJECT_BEGIN" ELSE "ARRAY_BEGIN")
      BY DEF BeginOf
    <3>2. Due(p) \in BOOLEAN
      BY DEF Due
    <3> HIDE DEF e
    <3> QED BY <1>1, <1>2, <2>3, <3>1, <3>2, BeginTold
  <2>5. Follows(d, memory, p, r, t)
    <3>1. Follows(d, memory, p, p, d)
      BY <1>1, <1>2, FollowsNone
    <3>2. r.events = Append(p.events, e)
      BY <1>6, <1>9
    <3> HIDE DEF e
    <3> QED BY <1>1, <1>2, <2>1, <3>1, <3>2, FollowsMore
  <2> HIDE DEF e, t
  <2>6. ASSUME r.ret = "SUCCESS"
        PROVE  InStep(r, t) /\ Frame(p, r, 1)
    <3>1. /\ r.stack = Append(p.stack, kind) /\ r.expectingKey = (kind = "object")
          /\ r.state = (IF kind = "object" THEN "_O" ELSE "_A") /\ r.type = "NONE"
          /\ r.config = p.config /\ (p.config.nesting # 0 => r.stackSize = p.stackSize)
      BY <1>6, <1>9, <2>2, <2>6
    <3>2. r.stack # <<>> /\ Last(r.stack) = kind /\ Len(r.stack) = Len(p.stack) + 1 /\ Len(p.stack) \in Nat
      <4>1. \A s \in Seq(Modes) : Append(s, kind) # <<>> /\ Last(Append(s, kind)) = kind
                                  /\ Len(Append(s, kind)) = Len(s) + 1 /\ Len(s) \in Nat
        BY AppendedIs
      <4> QED BY <1>2, <3>1, <4>1
    <3>3. Frame(p, r, 1)
      BY <3>1, <3>2 DEF Frame
    <3>4. CASE kind = "object"
      <4>1. Now(r) = "_O" /\ Due(r) = FALSE /\ Lexed(r)
        BY <3>1, <3>4 DEF Now, Due, Lexed, CommentStates, NumberStates, NumberEnds
      <4>2. Shape(r.stack, t.stack, FALSE)
        <5>1. (kind = "array") = FALSE
          BY <3>4
        <5> QED BY <2>4, <3>1, <5>1
      <4> QED BY <3>2, <3>3, <3>4, <4>1, <4>2 DEF InStep
    <3>5. CASE kind = "array"
      <4>1. Now(r) = "_A" /\ Due(r) = TRUE /\ Lexed(r) /\ ~ r.expectingKey
        BY <3>1, <3>5 DEF Now, Due, Lexed, CommentStates, NumberStates, NumberEnds
      <4>2. Shape(r.stack, t.stack, TRUE)
        <5>1. (kind = "array") = TRUE
          BY <3>5
        <5> QED BY <2>4, <3>1, <5>1
      <4> QED BY <3>2, <3>3, <4>1, <4>2 DEF InStep
    <3> QED BY <1>3, <3>3, <3>4, <3>5
  <2>7. Tells(t, r.events)
    BY <1>6, <1>9, <2>4
  <2> QED BY <2>5, <2>6, <2>7 DEF Led
<1> QED
  BY <1>7, <1>8, <1>9

----------------------------------------------------------------------------
(* A byte.                                                                 *)

\* What is led with no new structure is led with one.
LEMMA LedMore ==
  ASSUME NEW p, NEW d, NEW memory, NEW r, p \in ParserType, r \in ParserType, Led(p, d, memory, r, 0)
  PROVE  Led(p, d, memory, r, 1)
<1>1. Len(p.stack) \in Nat /\ Len(r.stack) \in Nat
  <2>1. p.stack \in Seq(Modes) /\ r.stack \in Seq(Modes)
    BY ParserIs
  <2> QED BY <2>1
<1>2. Frame(p, r, 0) => Frame(p, r, 1)
  BY <1>1 DEF Frame
<1> QED
  BY <1>2 DEF Led

\* The classes of { and [.
Brackets == {"LCURB", "LSQRB"}

\* Whatever the table asks for.
LEMMA ActionLed ==
  ASSUME NEW p, NEW d, Ready(p, d), NEW memory \in Memory, NEW env, NEW k,
         NEW action \in Actions, Turn(p.state, k, action), action = "UC" => Len(p.buffer) >= 4,
         k \in Brackets => Len(d.stack) < DomStack, NEW r, r = DoAction(p, env, action)
  PROVE  Led(p, d, memory, r, IF k \in Brackets THEN 1 ELSE 0)
<1> DEFINE more == IF k \in Brackets THEN 1 ELSE 0
<1>1. Good(p) /\ p \in ParserType
  BY DEF Ready, Good
<1>2. r \in ParserType
  BY <1>1, ActionGood DEF Good
<1>3. Led(p, d, memory, r, 0) => Led(p, d, memory, r, more)
  BY <1>1, <1>2, LedMore
<1>4. "array" \in Modes /\ "object" \in Modes
  BY DEF Modes
<1> USE DEF Turn, Structural, NumberEnds, NumberStates, StringStates, ConstantStates, CommentStates
<1>5. CASE action \in {"KS", "TR", "FA", "NU", "DE", "DF", "MX", "ZX", "IX"}
  <2>1. Led(p, d, memory, r, 0)
    BY <1>5, QuietLed
  <2> QED BY <1>3, <2>1
<1>6. CASE action = "UC"
  <2>1. p.state \in StringStates
    BY <1>6
  <2>2. Led(p, d, memory, r, 0)
    BY <1>6, <2>1, CharacterLed
  <2> QED BY <1>3, <2>2
<1>7. CASE action = "CE"
  <2>1. p.state \in CommentStates
    BY <1>7
  <2>2. Led(p, d, memory, r, 0)
    BY <1>7, <2>1, CommentEndLed
  <2> QED BY <1>3, <2>2
<1>8. CASE action = "SE"
  <2>1. p.state \in StringStates
    BY <1>8
  <2>2. Led(p, d, memory, r, 0)
    BY <1>8, <2>1, StringLed
  <2> QED BY <1>3, <2>2
<1>9. CASE action = "SP"
  <2>1. p.state \in {"OK"} \cup NumberEnds
    BY <1>9
  <2>2. Led(p, d, memory, r, 0)
    BY <1>9, <2>1, CommaLed
  <2> QED BY <1>3, <2>2
<1>10. CASE action \in {"CB", "YB"}
  <2>1. p.state \in Structural \cup NumberEnds
    BY <1>10
  <2>2. Led(p, d, memory, r, 0)
    BY <1>10, <2>1, CommentLed
  <2> QED BY <1>3, <2>2
<1>11. CASE action \in {"AE", "OE"}
  <2> DEFINE kind == IF action = "OE" THEN "object" ELSE "array"
  <2>1. kind \in Modes /\ action = (IF kind = "object" THEN "OE" ELSE "AE")
    BY <1>4, <1>11
  <2>2. p.state \in {"OK", IF kind = "object" THEN "_O" ELSE "_A"} \cup NumberEnds
    BY <1>11
  <2> HIDE DEF kind, NumberEnds
  <2>3. Led(p, d, memory, r, 0)
    BY <2>1, <2>2, EndLed
  <2> QED BY <1>3, <2>3
<1>12. CASE action \in {"AB", "OB"}
  <2> DEFINE kind == IF action = "OB" THEN "object" ELSE "array"
  <2>1. kind \in Modes /\ action = (IF kind = "object" THEN "OB" ELSE "AB")
    BY <1>4, <1>12
  <2>2. p.state \in {"GO", "_V", "_A"} /\ k \in Brackets
    BY <1>12 DEF Brackets
  <2> HIDE DEF kind
  <2>3. Led(p, d, memory, r, 1)
    BY <2>1, <2>2, BeginLed
  <2> QED BY <2>2, <2>3
<1> QED
  BY <1>5, <1>6, <1>7, <1>8, <1>9, <1>10, <1>11, <1>12 DEF Actions

\* Whatever the table says.
LEMMA AcceptLed ==
  ASSUME NEW p, NEW d, Ready(p, d), DigitsRead(p), NEW memory \in Memory, NEW env, NEW c \in Byte,
         NEW k \in Classes, k \in Brackets => Len(d.stack) < DomStack,
         NEW r, r = Accept(p, env, c, k)
  PROVE  Led(p, d, memory, r, IF k \in Brackets THEN 1 ELSE 0)
<1> DEFINE next  == StateTransition[p.state][k]
           kept  == Kept(p, env, c, p.state, k)
           moved == [kept EXCEPT !.state = next]
           acted == DoAction(kept, env, next)
           more  == IF k \in Brackets THEN 1 ELSE 0
<1>1. /\ Good(p) /\ p \in ParserType /\ p.state \in States /\ p.ret = "SUCCESS" /\ InStep(p, d)
      /\ Tells(d, p.events) /\ p.buffer \in Seq(Int)
  BY DEF Ready, Good, ParserType
<1>2. /\ Good(kept)
      /\ next \in DigitStates \cup {"UC"} /\ kept.ret = "SUCCESS" => Len(kept.buffer) = Len(p.buffer) + 1
  BY <1>1, KeptIs
<1>3. Alike(p, kept) /\ kept.events = p.events
  BY <1>1, KeptAlike
<1>4. next \in States \cup Actions \cup {"__"} /\ (next = "UC" => p.state = "U4")
  BY <1>1, TableIs
<1>5. Turn(p.state, k, next)
  BY <1>1, TableTurns
<1>6. /\ next = "__" => r = Raise(p, "UNEXPECTED_CHAR")
      /\ next \in States => r = Then(kept, moved)
      /\ next \in Actions => r = Then(kept, acted)
  <2>1. "__" \notin States /\ "__" \notin Actions /\ States \cap Actions = {}
    BY DEF States, Structural, NumberEnds, Actions
  <2> QED BY <2>1 DEF Accept, Kept
<1>7. kept.ret = "SUCCESS" => (next = "UC" => Len(kept.buffer) >= 4)
  BY <1>1, <1>2, <1>4 DEF DigitsRead, DigitStates
<1> HIDE DEF next, kept, moved, acted, more
<1>8. CASE next = "__"
  <2>1. r.events = p.events /\ r.ret # "SUCCESS"
    BY <1>1, <1>6, <1>8 DEF Raise, ParserType
  <2> QED BY <2>1, FailedLed DEF more
<1>9. CASE next # "__" /\ kept.ret # "SUCCESS"
  <2>1. r = kept
    BY <1>4, <1>6, <1>9 DEF Then
  <2> QED BY <1>3, <1>9, <2>1, FailedLed DEF more
<1>10. CASE next # "__" /\ kept.ret = "SUCCESS"
  <2>1. Ready(kept, d) /\ kept \in ParserType
    <3>1. InStep(kept, d)
      <4>1. Now(kept) = Now(p)
        BY <1>3 DEF Now, Alike
      <4>2. Due(kept) = Due(p) /\ (Lexed(p) => Lexed(kept))
        BY <1>3, <4>1 DEF Due, Lexed, Alike
      <4> HIDE DEF Now, Due, Lexed
      <4> QED BY <1>1, <1>3, <4>1, <4>2 DEF InStep, Alike
    <3> QED BY <1>1, <1>2, <1>3, <1>10, <3>1 DEF Ready, Good
  <2>2. kept.state = p.state
    BY <1>3 DEF Alike
  <2>3. Led(kept, d, memory, r, more)
    <3>1. CASE next \in States
      <4>1. r = [kept EXCEPT !.state = next]
        BY <1>6, <1>10, <3>1 DEF Then, moved
      <4>2. Led(kept, d, memory, r, 0)
        BY <1>5, <2>1, <2>2, <3>1, <4>1, MoveLed
      <4>3. r \in ParserType
        BY <2>1, <3>1, <4>1 DEF ParserType
      <4> QED BY <2>1, <4>2, <4>3, LedMore DEF more
    <3>2. CASE next \in Actions
      <4>1. r = DoAction(kept, env, next)
        BY <1>6, <1>10, <3>2 DEF Then, acted
      <4> QED BY <1>5, <1>7, <1>10, <2>1, <2>2, <3>2, <4>1, ActionLed DEF more
    <3> QED BY <1>4, <1>10, <3>1, <3>2
  <2>4. \A t : Follows(d, memory, kept, r, t) => Follows(d, memory, p, r, t)
    BY <1>3, FollowsOn
  <2>5. Frame(kept, r, more) => Frame(p, r, more)
    BY <1>3 DEF Frame, Alike
  <2> QED BY <2>3, <2>4, <2>5 DEF Led, more
<1> QED
  BY <1>8, <1>9, <1>10

\* Whatever the byte: a structure is opened by a bracket only.
LEMMA FeedLed ==
  ASSUME NEW p, NEW d, Ready(p, d), DigitsRead(p), NEW memory \in Memory, NEW env, NEW c \in Byte,
         c \in {91, 123} => Len(d.stack) < DomStack, NEW r, r = Feed(p, env, c)
  PROVE  Led(p, d, memory, r, IF c \in {91, 123} THEN 1 ELSE 0)
<1> DEFINE inside == p.left > 0
           left   == IF inside THEN p.left - 1 ELSE Utf8Header(c)
           q      == [p EXCEPT !.left = left]
           k      == CASE inside \/ q.left \in 1 .. 5 -> "OTHER"
                       [] OTHER -> CharacterClass[c]
           more   == IF c \in {91, 123} THEN 1 ELSE 0
<1>1. /\ Good(p) /\ p \in ParserType /\ p.left \in Nat /\ p.ret = "SUCCESS" /\ InStep(p, d)
      /\ Tells(d, p.events) /\ p.buffer \in Seq(Int)
  BY DEF Ready, Good, ParserType
<1>2. left \in Nat
  BY <1>1, HeaderIs
<1>3. Good(q) /\ DigitsRead(q) /\ q.left = left /\ Alike(p, q) /\ q.events = p.events /\ q.ret = p.ret
  <2> HIDE DEF left
  <2> QED BY <1>1, <1>2 DEF Good, ParserType, HasRoom, DigitsRead, Alike
<1>4. /\ Raise(p, "UTF8").ret # "SUCCESS" /\ Raise(p, "UTF8").events = p.events
      /\ Raise(q, "UTF8").ret # "SUCCESS" /\ Raise(q, "UTF8").events = p.events
      /\ Raise(q, "BAD_CHAR").ret # "SUCCESS" /\ Raise(q, "BAD_CHAR").events = p.events
  <2> HIDE DEF q
  <2> QED BY <1>1, <1>3 DEF Good, ParserType, Raise
<1>5. \/ r \in {Raise(p, "UTF8"), Raise(q, "UTF8"), Raise(q, "BAD_CHAR")}
      \/ /\ r = Accept(q, env, c, k)
         /\ inside \/ q.left # BadUtf8
         /\ inside \/ q.left # 0 \/ k # "ERROR"
  BY DEF Feed
<1>6. ASSUME inside \/ q.left # BadUtf8, inside \/ q.left # 0 \/ k # "ERROR"
      PROVE  k \in Classes /\ (k \in Brackets => c \in {91, 123})
  <2>1. CASE inside \/ q.left \in 1 .. 5
    <3>1. k = "OTHER"
      BY <2>1
    <3> QED BY <3>1 DEF Classes, Brackets
  <2>2. CASE ~ (inside \/ q.left \in 1 .. 5)
    <3>1. k = CharacterClass[c]
      BY <2>2
    <3>2. q.left = Utf8Header(c)
      BY <1>3, <2>2
    <3> HIDE DEF q, k
    <3>3. q.left = 0 /\ c \in 0 .. 127
      BY <1>6, <2>2, <3>2, HeaderIs DEF BadUtf8
    <3>4. k \in Classes \cup {"ERROR"}
      BY <3>1, <3>3, ClassIs
    <3>5. k \in Brackets => c \in {91, 123}
      BY <3>1, <3>3, OpenersAre DEF Brackets
    <3> QED BY <1>6, <2>2, <3>3, <3>4, <3>5
  <2> QED BY <2>1, <2>2
<1>7. CASE r \in {Raise(p, "UTF8"), Raise(q, "UTF8"), Raise(q, "BAD_CHAR")}
  BY <1>4, <1>7, FailedLed
<1>8. CASE r = Accept(q, env, c, k) /\ k \in Classes /\ (k \in Brackets => c \in {91, 123})
  <2> HIDE DEF q, k
  <2>1. Ready(q, d)
    <3>1. Now(q) = Now(p)
      BY <1>3 DEF Now, Alike
    <3>2. Due(q) = Due(p) /\ (Lexed(p) => Lexed(q))
      BY <1>3, <3>1 DEF Due, Lexed, Alike
    <3>3. InStep(q, d)
      <4> HIDE DEF Now, Due, Lexed
      <4> QED BY <1>1, <1>3, <3>1, <3>2 DEF InStep, Alike
    <3> QED BY <1>1, <1>3, <3>3 DEF Ready
  <2>2. Led(q, d, memory, r, IF k \in Brackets THEN 1 ELSE 0)
    BY <1>3, <1>8, <2>1, AcceptLed
  <2>3. r \in ParserType /\ q \in ParserType
    BY <1>3, <1>8, AcceptGood DEF Good
  <2>4. Led(q, d, memory, r, more)
    BY <1>8, <2>2, <2>3, LedMore
  <2>5. \A t : Follows(d, memory, q, r, t) => Follows(d, memory, p, r, t)
    BY <1>3, FollowsOn
  <2> HIDE DEF more
  <2>6. Frame(q, r, more) => Frame(p, r, more)
    BY <1>3 DEF Frame, Alike
  <2>7. Led(p, d, memory, r, more)
    BY <2>4, <2>5, <2>6 DEF Led
  <2> QED BY <2>7 DEF more
<1> QED
  BY <1>5, <1>6, <1>7, <1>8

----------------------------------------------------------------------------
(* The file.                                                               *)

\* The brackets among the first bytes.
Openers(t, n) == {i \in 1 .. n : t[i] \in {91, 123}}

\* One byte more is one bracket more or none.
LEMMA OpenersCount ==
  ASSUME NEW t \in Seq(Byte), NEW n \in Nat, n < Len(t)
  PROVE  /\ Cardinality(Openers(t, n)) \in Nat
         /\ Cardinality(Openers(t, n)) + (IF t[n + 1] \in {91, 123} THEN 1 ELSE 0)
              = Cardinality(Openers(t, n + 1))
         /\ Cardinality(Openers(t, n + 1)) <= Cardinality(Openers(t, Len(t)))
         /\ Cardinality(Openers(t, Len(t))) \in Nat
<1> DEFINE a == Openers(t, n)
           b == Openers(t, n + 1)
           z == Openers(t, Len(t))
<1>1. Len(t) \in Nat
  OBVIOUS
<1>2. IsFiniteSet(1 .. n) /\ IsFiniteSet(1 .. Len(t))
  BY <1>1, FS_Interval
<1>3. a \subseteq 1 .. n /\ z \subseteq 1 .. Len(t) /\ b \subseteq z /\ n + 1 \notin a
      /\ b = IF t[n + 1] \in {91, 123} THEN a \cup {n + 1} ELSE a
  BY <1>1 DEF Openers
<1> HIDE DEF a, b, z
<1>4. IsFiniteSet(a) /\ IsFiniteSet(z)
  BY <1>2, <1>3, FS_Subset
<1>5. Cardinality(a) \in Nat /\ Cardinality(z) \in Nat
  BY <1>4, FS_CardinalityType
<1>6. Cardinality(b) <= Cardinality(z)
  BY <1>3, <1>4, FS_Subset
<1>7. Cardinality(a \cup {n + 1}) = Cardinality(a) + 1
  BY <1>3, <1>4, FS_AddElement
<1>8. Cardinality(a) + (IF t[n + 1] \in {91, 123} THEN 1 ELSE 0) = Cardinality(b)
  BY <1>3, <1>5, <1>7
<1> QED
  BY <1>5, <1>6, <1>8 DEF a, b, z

\* No more structures are open than brackets were read, nor than the limit.
Depth ==
  /\ parser.config \in Configs
  /\ parser.config.nesting # 0 => parser.stackSize = parser.config.nesting
  /\ Len(parser.stack) <= Cardinality(Openers(text, pos))

\* What a tree holds, as a function of the tree.
Recorded == [d \in Tree |-> TreeEvents(d)]

\* The inductive invariant.
TreeInd ==
  /\ ParserInv
  /\ text \in Texts
  /\ dom \in Tree /\ dom.room = DomStack /\ dom.sound
  /\ dom.lost \/ Recorded[dom] = parser.events
  /\ verdict = "reading" => parser.ret = "SUCCESS" /\ InStep(parser, dom) /\ Depth

\* json_parser_dom_init: an empty tree holds no events.
LEMMA NewTold == NewDom \in Tree /\ Tells(NewDom, <<>>) /\ NewDom.stack = <<>> /\ NewDom.root = <<>>
<1> DEFINE none == <<>>
<1>1. none \in Seq(Node) /\ none \in Seq(Event)
  OBVIOUS
<1>2. NewDom = [stack |-> none, room |-> DomStack, root |-> none, sound |-> TRUE, lost |-> FALSE] /\ DomStack \in Nat
  BY DomAssumption DEF NewDom
<1> HIDE DEF none
<1>3. NewDom \in Tree
  BY <1>1, <1>2 DEF Tree
<1>4. NewDom.stack = none /\ NewDom.root = none /\ NewDom.room = DomStack /\ NewDom.sound
  BY <1>2
<1>5. TreeEvents(NewDom) = none
  BY <1>3, <1>4, ToldLast DEF none
<1>6. Tells(NewDom, none)
  BY <1>3, <1>4, <1>5 DEF Tells
<1> QED
  BY <1>3, <1>4, <1>6 DEF none

\* A tree inside its memory, by what is recorded of it.
LEMMA RecordedTold ==
  ASSUME NEW d, NEW events
  PROVE  Tells(d, events) <=> d \in Tree /\ d.room = DomStack /\ d.sound /\ (d.lost \/ Recorded[d] = events)
<1>1. d \in Tree => Recorded[d] = TreeEvents(d)
  BY DEF Recorded
<1> QED
  BY <1>1 DEF Tells

\* It holds at the beginning of a file ...
LEMMA TreeIndInit == Init => TreeInd
<1> SUFFICES ASSUME Init PROVE TreeInd
  OBVIOUS
<1>1. ParserInv /\ text \in Texts /\ text \in Seq(Byte) /\ pos = 0
  BY ParserInvInit, LintAssumption DEF Init
<1>2. PICK config \in Configs : parser = NewParser(config)
  BY DEF Init
<1>3. config \in ConfigType /\ config.nesting \in Nat
  BY LintAssumption DEF ConfigType
<1>4. /\ parser.state = "GO" /\ parser.saved = "GO" /\ parser.expectingKey = FALSE /\ parser.type = "NONE"
      /\ parser.stack = <<>> /\ parser.events = <<>> /\ parser.ret = "SUCCESS"
      /\ parser.config = config /\ parser.stackSize = StackSize(config)
  BY <1>2 DEF NewParser
<1>5. Tells(dom, parser.events) /\ dom.stack = <<>> /\ dom.root = <<>>
  BY <1>4, NewTold DEF Init
<1>6. Now(parser) = "GO" /\ Due(parser) = FALSE /\ Lexed(parser)
  BY <1>4 DEF Now, Due, Lexed, CommentStates, NumberStates, NumberEnds
<1>7. InStep(parser, dom)
  <2>1. Shape(parser.stack, dom.stack, Due(parser))
    BY <1>4, <1>5 DEF Shape
  <2> QED BY <1>4, <1>5, <1>6, <2>1 DEF InStep
<1>8. Depth
  <2>1. Openers(text, 0) = {}
    BY DEF Openers
  <2>2. Cardinality(Openers(text, 0)) = 0
    BY <2>1, FS_EmptySet
  <2>3. Len(parser.stack) = 0
    BY <1>4
  <2>4. parser.config.nesting # 0 => parser.stackSize = parser.config.nesting
    BY <1>3, <1>4 DEF StackSize
  <2> QED BY <1>1, <1>4, <2>2, <2>3, <2>4 DEF Depth
<1> QED
  BY <1>1, <1>4, <1>5, <1>7, <1>8, RecordedTold DEF TreeInd

\* The DOM stack has room for the structure a byte may open.
LEMMA RoomToOpen ==
  ASSUME Shallow, TreeInd, verdict = "reading", pos < Len(text), text[pos + 1] \in {91, 123}
  PROVE  Len(dom.stack) < DomStack
<1> DEFINE config == parser.config
<1>1. /\ text \in Texts /\ text \in Seq(Byte) /\ pos \in Nat /\ config \in Configs /\ Good(parser)
      /\ config.nesting # 0 => parser.stackSize = config.nesting
      /\ Len(parser.stack) <= Cardinality(Openers(text, pos))
  BY DEF TreeInd, Depth, ParserInv
<1>2. Len(dom.stack) = Len(parser.stack)
  BY DEF TreeInd, InStep, Shape
<1>3. Len(parser.stack) \in Nat /\ Len(parser.stack) <= parser.stackSize /\ DomStack \in Nat
      /\ config.nesting \in Nat
  <2>1. parser.stack \in Seq(Modes) /\ config.nesting \in Nat
    BY <1>1, ParserIs DEF Good, ConfigType
  <2> QED BY <1>1, <2>1, DomAssumption DEF Good, HasRoom
<1>4. \/ config.nesting \in 1 .. DomStack - 1
      \/ Cardinality(Openers(text, Len(text))) <= DomStack
  BY <1>1 DEF Shallow, Openers
<1>5. CASE config.nesting \in 1 .. DomStack - 1
  BY <1>1, <1>2, <1>3, <1>5
<1>6. CASE Cardinality(Openers(text, Len(text))) <= DomStack
  <2>1. /\ Cardinality(Openers(text, pos)) \in Nat
        /\ Cardinality(Openers(text, pos)) + 1 = Cardinality(Openers(text, pos + 1))
        /\ Cardinality(Openers(text, pos + 1)) <= Cardinality(Openers(text, Len(text)))
        /\ Cardinality(Openers(text, Len(text))) \in Nat
    BY <1>1, OpenersCount
  <2> HIDE DEF config
  <2> QED BY <1>1, <1>2, <1>3, <1>6, <2>1
<1> QED
  BY <1>4, <1>5, <1>6

\* The events of a call, to the callback one after the other.
LEMMA BuildIs ==
  ASSUME NEW p, NEW r, NEW memory, NEW t, p.events \in Story, Follows(dom, memory, p, r, t)
  PROVE  Build(Len(p.events), memory, r.events) = t
<1>1. PICK events \in Story : r.events = p.events \o events /\ t = Built(dom, memory, events)
  BY DEF Follows
<1>2. ASSUME NEW x \in Seq(Event), NEW y \in Seq(Event)
      PROVE  SubSeq(x \o y, Len(x) + 1, Len(x \o y)) = y
  <2> DEFINE s == SubSeq(x \o y, Len(x) + 1, Len(x \o y))
  <2>1. /\ x \o y \in Seq(Event) /\ Len(x) \in Nat /\ Len(y) \in Nat /\ Len(x \o y) = Len(x) + Len(y)
        /\ \A i \in 1 .. Len(y) : (x \o y)[Len(x) + i] = y[i]
    OBVIOUS
  <2>2. s \in Seq(Event) /\ Len(s) = Len(y)
    BY <2>1
  <2>3. \A i \in 1 .. Len(y) : s[i] = y[i]
    BY <2>1
  <2> QED BY <2>1, <2>2, <2>3, SeqEqual
<1>3. SubSeq(r.events, Len(p.events) + 1, Len(r.events)) = events
  BY <1>1, <1>2 DEF Story
<1> QED
  BY <1>1, <1>3 DEF Build, Built

\* ... and after every byte of it.
LEMMA TreeIndNext == Shallow /\ TreeInd /\ [Next]_vars => TreeInd'
<1> SUFFICES ASSUME Shallow, TreeInd, [Next]_vars PROVE TreeInd'
  OBVIOUS
<1>1. ParserInv'
  BY ParserInvNext DEF TreeInd
<1>2. ASSUME NEW env \in Envs, ReadByte(env)
      PROVE  TreeInd'
  <2> DEFINE c == text[pos + 1]
             more == IF c \in {91, 123} THEN 1 ELSE 0
  <2>1. /\ verdict = "reading" /\ pos < Len(text) /\ parser' = Feed(parser, env, c)
        /\ dom' = Build(Len(parser.events), env.memory, parser'.events)
        /\ pos' = (IF parser'.ret = "SUCCESS" THEN pos + 1 ELSE pos)
        /\ verdict' = (IF parser'.ret = "SUCCESS" THEN "reading" ELSE "error")
        /\ text' = text
    BY <1>2 DEF ReadByte
  <2>2. /\ text \in Seq(Byte) /\ pos \in Nat /\ text \in Texts /\ DigitsRead(parser)
        /\ Ready(parser, dom) /\ Depth /\ Good(parser)
    BY <2>1, RecordedTold DEF TreeInd, ParserInv, Ready
  <2>3. c \in Byte
    <3>1. pos + 1 \in 1 .. Len(text)
      BY <2>1, <2>2
    <3> QED BY <2>2, <3>1
  <2>4. env.memory \in Memory
    BY LintAssumption
  <2>5. c \in {91, 123} => Len(dom.stack) < DomStack
    BY <2>1, RoomToOpen
  <2>6. Led(parser, dom, env.memory, parser', more)
    <3> HIDE DEF c
    <3> QED BY <2>1, <2>2, <2>3, <2>4, <2>5, FeedLed
  <2> HIDE DEF c, more
  <2>7. PICK t : /\ Follows(dom, env.memory, parser, parser', t) /\ Tells(t, parser'.events)
                 /\ parser'.ret = "SUCCESS" => InStep(parser', t) /\ Frame(parser, parser', more)
    BY <2>6 DEF Led
  <2>8. dom' = t
    <3>1. parser.events \in Story
      BY <2>2, ParserIs DEF Good
    <3> QED BY <2>1, <2>7, <3>1, BuildIs
  <2>9. ASSUME parser'.ret = "SUCCESS"
        PROVE  Depth'
    <3>1. Frame(parser, parser', more) /\ pos' = pos + 1
      BY <2>1, <2>7, <2>9
    <3>2. /\ Cardinality(Openers(text, pos)) \in Nat
          /\ Cardinality(Openers(text, pos)) + more = Cardinality(Openers(text, pos + 1))
      BY <2>1, <2>2, OpenersCount DEF more, c
    <3>3. Len(parser'.stack) \in Nat /\ Len(parser.stack) \in Nat /\ more \in Nat
      <4>1. Good(parser') /\ Good(parser)
        BY <1>1, <2>2 DEF ParserInv, Good, HasRoom
      <4>2. parser'.stack \in Seq(Modes) /\ parser.stack \in Seq(Modes)
        BY <4>1, ParserIs DEF Good
      <4> QED BY <4>2 DEF more
    <3>4. Len(parser'.stack) <= Cardinality(Openers(text, pos + 1))
      BY <2>2, <3>1, <3>2, <3>3 DEF Frame, Depth
    <3> QED BY <2>1, <2>2, <3>1, <3>4 DEF Frame, Depth, Openers
  <2>10. dom' \in Tree /\ dom'.room = DomStack /\ dom'.sound /\ (dom'.lost \/ Recorded[dom'] = parser'.events)
    BY <2>7, <2>8, RecordedTold
  <2>11. verdict' = "reading" => (parser.ret = "SUCCESS")' /\ InStep(parser, dom)' /\ Depth'
    <3>1. ASSUME verdict' = "reading" PROVE parser'.ret = "SUCCESS"
      BY <2>1, <3>1
    <3>2. ASSUME parser'.ret = "SUCCESS" PROVE InStep(parser, dom)'
      BY <2>7, <2>8, <3>2 DEF InStep, Shape, Lexed, Due, Now
    <3> QED BY <2>9, <3>1, <3>2
  <2> QED BY <1>1, <2>1, <2>2, <2>10, <2>11 DEF TreeInd
<1>3. CASE EndOfFile
  <2>1. UNCHANGED <<text, pos, parser, dom>> /\ verdict = "reading"
    BY <1>3 DEF EndOfFile
  <2>2. verdict' # "reading"
    BY <1>3 DEF EndOfFile
  <2> QED BY <1>1, <2>1, <2>2 DEF TreeInd
<1>4. CASE UNCHANGED vars
  <2>1. UNCHANGED <<text, pos, parser, dom, verdict>>
    BY <1>4 DEF vars
  <2> QED BY <1>1, <2>1 DEF TreeInd, InStep, Shape, Lexed, Due, Now, Depth, Openers
<1> QED
  BY <1>2, <1>3, <1>4 DEF Next

\* Whichever allocation or call fails, json_parser_dom_callback uses no key it
\* has freed, no empty stack and no more stack than it allocated; and until an
\* allocation of tree_append fails for a structure that ends or for the copy
\* of a key, the tree holds exactly the events of the document so far, each
\* under its own key and in its own structure.  For every file and every
\* setting, while the stack of the tree need not grow.
THEOREM TreeFollows ==
  ASSUME Shallow
  PROVE  Spec => []TreeInStep
<1>1. TreeInd => TreeInStep
  BY RecordedTold DEF TreeInd, Tells, TreeInStep
<1>2. Init => TreeInd
  BY TreeIndInit
<1>3. TreeInd /\ [Next]_vars => TreeInd'
  BY TreeIndNext
<1> QED
  BY <1>1, <1>2, <1>3, PTL DEF Spec

=============================================================================
