------------------------------ MODULE Selector ------------------------------
(***************************************************************************)
(* How the stream of a client is cut into JSONs: Json/Selector.hpp, one    *)
(* character after the other, in the loop of TcpServer::processInputData().*)
(* The selector counts brackets outside strings. With hardBreak a new line *)
(* ends whatever there is.                                                 *)
(***************************************************************************)
EXTENDS Integers, SequencesExt

\* The characters the selector tells apart; "x" stands for all others.
NewLine    == "new line"
Whitespace == {NewLine, "blank"}
Chars      == {"{", "}", "[", "]", "quote", "backslash", "x"} \cup Whitespace

\* A selector that is in no string and in no bracket; Start is one after reset().
Outermost(buffer) == [inString |-> FALSE, pass |-> FALSE, objects |-> 0, arrays |-> 0, buffer |-> buffer]

Start == Outermost(<<>>)

JsonComplete(s) == s.objects = 0 /\ s.arrays = 0 /\ s.buffer # <<>> /\ ~s.inString

\* eos() throws UnexpectedEndOfStream. The server does not ask.
EosThrows(s) == s.buffer # <<>> /\ ~JsonComplete(s)

\* update() throws UnexpectedCharacter.
Throws(hardBreak, s, c) ==
    /\ ~s.inString /\ ~(hardBreak /\ c = NewLine)
    /\ \/ c = "}" /\ s.objects = 0
       \/ c = "]" /\ s.arrays = 0

InString(s, c) ==
    [inString |-> s.pass \/ c # "quote", pass |-> ~s.pass /\ c = "backslash",
     objects |-> s.objects, arrays |-> s.arrays, buffer |-> Append(s.buffer, c)]

\* One level deeper behind a bracket that opens, one up behind one that closes.
Deeper(c, opens, closes) == IF c = opens THEN 1 ELSE IF c = closes THEN -1 ELSE 0

Outside(s, c) ==
    [inString |-> c = "quote", pass |-> s.pass,
     objects |-> s.objects + Deeper(c, "{", "}"),
     arrays |-> s.arrays + Deeper(c, "[", "]"), buffer |-> Append(s.buffer, c)]

Character(s, c) ==
    IF s.inString THEN InString(s, c)
    ELSE IF c \in Whitespace THEN s ELSE Outside(s, c)

\* A broken variant: a string that is open at the end of the line goes on.
UpdateString(hardBreak, s, c) ==
    IF hardBreak /\ c = NewLine THEN [s EXCEPT !.objects = 0, !.arrays = 0] ELSE Character(s, c)

\* update(), when it does not throw. A new line leaves the buffer alone.
Update(hardBreak, s, c) ==
    IF hardBreak /\ c = NewLine THEN Outermost(s.buffer) ELSE Character(s, c)

\* The loop of processInputData(): items is what came out so far, JSONs and the
\* errors that were counted.
Item(text)    == [is |-> "json", text |-> text]
Error(text)   == [is |-> "error", text |-> text]

Receive(hardBreak, state, c) ==
    IF Throws(hardBreak, state.selector, c)
    THEN [selector |-> Start, items |-> Append(state.items, Error(Append(state.selector.buffer, c)))]
    ELSE LET s == Update(hardBreak, state.selector, c)
         IN  IF JsonComplete(s)
             THEN [selector |-> Start, items |-> Append(state.items, Item(s.buffer))]
             ELSE [state EXCEPT !.selector = s]

Run(hardBreak, state, stream) ==
    LET after[n \in 0 .. Len(stream)] ==
            IF n = 0 THEN state ELSE Receive(hardBreak, after[n - 1], stream[n])
    IN  after[Len(stream)]

Cut(hardBreak, stream) == Run(hardBreak, [selector |-> Start, items |-> <<>>], stream).items

-----------------------------------------------------------------------------
(* Properties.                                                             *)

\* Some JSON texts without whitespace, from the grammar: strings with brackets,
\* quotes and backslashes in them, arrays and objects of them and of each other.
Strings ==
    {<<"quote">> \o s \o <<"quote">> :
        s \in {<<>>, <<"{">>, <<"]">>, <<"backslash", "quote">>, <<"backslash", "backslash">>, <<"x", "blank">>}}
ArraysOf(values)  == {<<"[">> \o v \o <<"]">> : v \in values \cup {<<>>}}
                        \cup {<<"[">> \o v \o <<"x">> \o v \o <<"]">> : v \in values}
ObjectsOf(values) == {<<"{">> \o p[1] \o <<"x">> \o p[2] \o <<"}">> : p \in Strings \X values}
                        \cup {<<"{", "}">>}
Values == Strings \cup {<<"x">>} \cup ArraysOf(Strings)
Texts  == ObjectsOf(Values) \cup ObjectsOf({<<"{", "}">>})

Gaps == {<<>>, <<"blank">>, <<NewLine>>}
Junk == UNION {[1 .. n -> Chars] : n \in 0 .. 3}

(* What clients send as JSONs comes out as they sent it, one after the     *)
(* other with or without a new line, whatever is in their strings. When a  *)
(* new line breaks hard, a JSON on a line of its own comes out whatever    *)
(* was sent before: a string that was not closed, brackets too many.       *)
SelectorRight ==
    /\ \A t \in Texts, gap \in Gaps : \A hardBreak \in BOOLEAN :
          LET u == <<"{">> \o <<"quote", "}", "quote">> \o <<"x", "x", "}">>
          IN  Cut(hardBreak, t \o gap \o u \o <<"blank">> \o t) = <<Item(t), Item(u), Item(t)>>
    /\ \A junk \in Junk, t \in ObjectsOf({<<"x">>}) :
          Cut(TRUE, junk \o <<NewLine>> \o t) = Cut(TRUE, junk \o <<NewLine>>) \o <<Item(t)>>

=============================================================================
