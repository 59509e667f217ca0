------------------------------ MODULE JsonTokens ------------------------------
(***************************************************************************)
(* The JSON parser the sketch uses: jsmn_parse, which cuts a text into     *)
(* tokens (utility/jsmn.cpp, built without JSMN_STRICT and parent links),  *)
(* and the look-up of keys and elements among the tokens                   *)
(* (JsonObjectBase.cpp, JsonHashTable.cpp, JsonArray.cpp).  A text is      *)
(* compared with what a parser with a stack makes of it.                   *)
(***************************************************************************)
EXTENDS Integers, Sequences, FiniteSets, SequencesExt

CONSTANTS
    MaxTokens,      \* JsonParser<128>
    MaxChars        \* bound: characters of an arbitrary text

ASSUME JsonAssumption == {MaxTokens, MaxChars} \subseteq Nat

VARIABLES parsed,   \* the parser after the text: what jsmn_parse left
          mode      \* "text": any characters; "table": a well-formed object

jsonVars == <<parsed, mode>>
js == parsed.js
tokens == parsed.tokens

Quote == "\""
Backslash == "\\"
White == {" ", ":", ","}
Stops == White \cup {"]", "}"}
Escapable == {Quote, Backslash, "n"}
Open(c) == c \in {"{", "["}
Close(c) == c \in {"}", "]"}
TypeOf(c) == IF c \in {"{", "}"} THEN "object" ELSE "array"

-----------------------------------------------------------------------------
(* jsmn.  A parser is a record; end = -1 is a token that is still open.     *)

Token(type, start, end) == [type |-> type, start |-> start, end |-> end, size |-> 0]
jsmn_init(text) == [js |-> text, pos |-> 1, super |-> 0, tokens |-> <<>>, error |-> "none"]

Error(p, e) == [p EXCEPT !.error = e]
Counted(toks, super) == IF super = 0 THEN toks ELSE [toks EXCEPT ![super].size = @ + 1]

(* A leaf is appended first and counted in its parent afterwards.           *)
Leaf(p, tok, next) ==
    IF Len(p.tokens) >= MaxTokens THEN Error(p, "nomem")
    ELSE [p EXCEPT !.tokens = Counted(Append(@, tok), p.super), !.pos = next]

(* The end of a primitive: the first character that stops it, or the end.   *)
PrimitiveEnd(text, from) ==
    LET stop == {n \in from .. Len(text) : text[n] \in Stops} \cup {Len(text) + 1}
    IN  CHOOSE n \in stop : \A m \in stop : n <= m

jsmn_parse_primitive(p) ==
    LET end == PrimitiveEnd(p.js, p.pos) IN Leaf(p, Token("primitive", p.pos, end), end)

(* The quote that ends a string, or the error: a backslash takes the next   *)
(* character with it, which must be one that can be escaped.                *)
RECURSIVE StringEnd(_, _)
StringEnd(text, n) ==
    IF n > Len(text) THEN [at |-> 0, error |-> "part"]
    ELSE IF text[n] = Quote THEN [at |-> n, error |-> "none"]
    ELSE IF text[n] # Backslash THEN StringEnd(text, n + 1)
    ELSE IF n < Len(text) /\ text[n + 1] \in Escapable THEN StringEnd(text, n + 2)
    ELSE [at |-> 0, error |-> "inval"]

jsmn_parse_string(p) ==
    LET e == StringEnd(p.js, p.pos + 1)
    IN  IF e.error # "none" THEN Error(p, e.error)
        ELSE Leaf(p, Token("string", p.pos + 1, e.at), e.at + 1)

(* The container is counted in its parent and becomes the parent.           *)
OpenToken(p, c) ==
    IF Len(p.tokens) >= MaxTokens THEN Error(p, "nomem")
    ELSE [p EXCEPT !.tokens = Append(Counted(@, p.super), Token(TypeOf(c), p.pos, -1)),
                   !.super = Len(p.tokens) + 1, !.pos = @ + 1]

Opened(toks) == {i \in 1 .. Len(toks) : toks[i].end = -1}
Latest(S) == IF S = {} THEN 0 ELSE CHOOSE i \in S : \A j \in S : j <= i

(* The latest open token must match; the one before it is the parent again. *)

CloseToken(p, c) ==
    LET i == Latest(Opened(p.tokens))
    IN  IF i = 0 \/ p.tokens[i].type # TypeOf(c) THEN Error(p, "inval")
        ELSE [p EXCEPT !.tokens[i].end = p.pos + 1, !.pos = @ + 1,
                       !.super = Latest(Opened(p.tokens) \ {i})]

RECURSIVE Run(_)
Run(p) ==
    IF p.error # "none" THEN p
    ELSE IF p.pos > Len(p.js) THEN IF Opened(p.tokens) # {} THEN Error(p, "part") ELSE p
    ELSE LET c == p.js[p.pos]
         IN  Run(CASE Open(c) -> OpenToken(p, c)
                   [] Close(c) -> CloseToken(p, c)
                   [] c = Quote -> jsmn_parse_string(p)
                   [] c \in White -> [p EXCEPT !.pos = @ + 1]
                   [] OTHER -> jsmn_parse_primitive(p))

jsmn_parse(text) == Run(jsmn_init(text))

-----------------------------------------------------------------------------
(* Look-up.  A position behind the tokens of this text holds what an        *)
(* earlier text left there.                                                 *)

Past(n) == n > Len(tokens)

RECURSIVE getNestedTokenCount(_)
RECURSIVE SumOver(_, _)
getNestedTokenCount(t) == IF Past(t) THEN 0 ELSE SumOver(t, tokens[t].size)
SumOver_uncounted(t, n) == IF n = 0 THEN 0 ELSE SumOver(t, n - 1) + getNestedTokenCount(t + n)

SumOver(t, n) == IF n = 0 THEN 0 ELSE SumOver(t, n - 1) + 1 + getNestedTokenCount(t + n)

Text(t) == SubSeq(js, tokens[t].start, tokens[t].end - 1)

(* JsonHashTable::getToken of the table at token t; 0 if there is no such   *)
(* key, Len(tokens) + 1 if it looked at what is no key.                     *)
RECURSIVE FindKey(_, _, _)
FindKey(current, pairs, key) ==
    CASE pairs = 0 -> 0
      [] pairs > 0 /\ (Past(current) \/ tokens[current].type \in {"object", "array"}) -> Len(tokens) + 1
      [] OTHER -> IF Text(current) = key THEN current + 1
                  ELSE FindKey(current + 2 + getNestedTokenCount(current + 1), pairs - 1, key)

getToken(t, key) == FindKey(t + 1, tokens[t].size \div 2, key)

(* JsonArray::getToken.                                                     *)
RECURSIVE getElement(_, _)
getElement(t, index) ==
    IF index = 0 THEN t + 1
    ELSE LET before == getElement(t, index - 1) IN before + 1 + getNestedTokenCount(before)

-----------------------------------------------------------------------------
(* Reference: the tokens within a token, and its children among them.       *)

Inside(u, t) == tokens[u].start > tokens[t].start /\ tokens[u].end <= tokens[t].end
Nested(t) == {u \in 1 .. Len(tokens) : u # t /\ tokens[t].type \in {"object", "array"} /\ Inside(u, t)}
Children(t) == {u \in Nested(t) : \A v \in Nested(t) : u \notin Nested(v)}
Flat(t) == \A u \in Nested(t) : Nested(u) = {}
ChildSeq(t) == SetToSortSeq(Children(t), <)

(* The lexemes of a text: brackets, leaves, and "bad" for a wrong string.   *)
RECURSIVE Lexemes(_)
Lexemes(n) ==
    IF n > Len(js) THEN <<>>
    ELSE CASE Open(js[n]) \/ Close(js[n]) -> <<js[n]>> \o Lexemes(n + 1)
           [] js[n] \in White -> Lexemes(n + 1)
           [] js[n] = Quote -> LET e == StringEnd(js, n + 1)
                               IN  IF e.error # "none" THEN <<"bad">>
                                   ELSE <<"leaf">> \o Lexemes(e.at + 1)
           [] OTHER -> <<"leaf">> \o Lexemes(PrimitiveEnd(js, n))

(* What is left on a stack of brackets.                                     *)
RECURSIVE Stack(_, _)
Stack(s, b) ==
    IF b = <<>> THEN s
    ELSE LET c == Head(b)
         IN  CASE c = "bad" -> <<"bad">>
               [] c = "leaf" -> Stack(s, Tail(b))
               [] Open(c) -> Stack(Append(s, c), Tail(b))
               [] OTHER -> IF s # <<>> /\ TypeOf(Last(s)) = TypeOf(c) THEN Stack(Front(s), Tail(b))
                           ELSE <<"bad">>

WellFormed ==
    LET b == Lexemes(1)
    IN  Stack(<<>>, b) = <<>> /\ Len(SelectSeq(b, LAMBDA c : ~Close(c))) <= MaxTokens

-----------------------------------------------------------------------------
(* Texts: of any characters, and tables with the keys a and b whose values  *)
(* are lists and tables of lists and tables.                                *)

Key(k) == <<Quote, k, Quote, ":">>
Lists(V, W) == {<<"[", "]">>} \cup {<<"[">> \o v \o <<"]">> : v \in V}
               \cup {<<"[">> \o v \o <<",">> \o w \o <<"]">> : v \in V, w \in W}
Tables(V, W) ==
    {<<"{">> \o Key("a") \o v \o <<",">> \o Key("b") \o w \o <<"}">> : v \in V, w \in W}
Scalars == {<<"n">>}
Deep(d) ==
    LET f[n \in 0 .. d] ==
            IF n = 0 THEN Scalars ELSE Scalars \cup Lists(f[n - 1], f[n - 1]) \cup Tables(f[n - 1], f[0])
    IN  f[d]

JsonInit == parsed = jsmn_parse(<<>>) /\ mode = "text"
AddChar ==
    /\ mode = "text" /\ Len(js) < MaxChars
    /\ \E c \in {"{", "}", "[", "]", Quote, Backslash, "n", ","} :
           parsed' = jsmn_parse(Append(js, c))
    /\ UNCHANGED mode
TakeTable ==
    /\ js = <<>> /\ mode = "text" /\ mode' = "table"
    /\ \E text \in Tables(Deep(2), Deep(1)) \cup Tables(Lists(Deep(2), Scalars), Scalars) :
           parsed' = jsmn_parse(text)
JsonNext == AddChar \/ TakeTable
JsonSpec == JsonInit /\ [][JsonNext]_jsonVars

-----------------------------------------------------------------------------
(* Properties.                                                              *)

(* jsmn accepts exactly the texts whose strings end and whose brackets      *)
(* match, if the tokens suffice.                                            *)
AcceptsWellFormed == (parsed.error = "none") = WellFormed

(* The tokens of an accepted text are nested as the text is, in the order   *)
(* of the text, and the size of each is the number of its children.         *)
TokensDescribeText ==
    parsed.error = "none" =>
        \A t \in 1 .. Len(tokens) :
            /\ t < Len(tokens) => tokens[t].start < tokens[t + 1].start
            /\ tokens[t].size = Cardinality(Children(t))

(* The key k of a table is followed by its value.                           *)
IsTable(t) == mode = "table" /\ tokens[t].type = "object"
ValueOf(t, k) ==
    LET c == ChildSeq(t)
        at == {i \in 1 .. Len(c) : i % 2 = 1 /\ Text(c[i]) = <<k>>}
    IN  IF at = {} THEN 0 ELSE c[CHOOSE i \in at : \A j \in at : i <= j] + 1
Shallow(t) == \A u \in Children(t) : Flat(u)

(* A key is found, and none that is not there, in a table whose values are  *)
(* scalars or lists and tables of scalars; an element of a list likewise.   *)
FindsShallow ==
    (mode = "table" /\ parsed.error = "none") => \A t \in 1 .. Len(tokens) : Shallow(t) =>
        /\ IsTable(t) => \A k \in {"a", "b", "c"} : getToken(t, <<k>>) = ValueOf(t, k)
        /\ tokens[t].type = "array" =>
              \A i \in 1 .. tokens[t].size : getElement(t, i - 1) = ChildSeq(t)[i]

(* "Returns the token for the value associated with the specified key"      *)
(* (JsonHashTable.cpp), without a condition.                                *)
FindsAlways ==
    parsed.error = "none" => \A t \in 1 .. Len(tokens) : IsTable(t) =>
        \A k \in {"a", "b", "c"} : getToken(t, <<k>>) = ValueOf(t, k)

(* The parser of tokens and the two lookups over its result agree with the  *)
(* text: a lookup walks the tokens by the sizes that jsmn gave them.        *)
ParserSound == AcceptsWellFormed /\ TokensDescribeText /\ FindsShallow

=============================================================================
