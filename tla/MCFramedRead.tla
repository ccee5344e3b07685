---------------------------- MODULE MCFramedRead ----------------------------
(* Instances of FramedRead: short streams of every framing, cut into reads in *)
(* every way, under interruptions after which the caller mostly reads on.     *)
EXTENDS FramedRead

AnyInterrupt == {"timeout", "cancel", "io"}
MildErrors == {"timed_out", "io"}

Connection(framing, cap, sent, rest) ==
    [framing |-> framing, cap |-> cap, sent |-> sent, rest |-> rest]

\* Payloads of what the framing itself is made of; frames at the cap and one
\* byte over it; streams that end in the middle of a frame or of a prefix;
\* prefixes that are none, too long, or too large for a usize.
Delimiters == {Connection("newline", cap, sent, rest) :
    cap \in {0, 3}, sent \in {<<<<>>, <<97>>, <<NUL>>>>, <<<<98, 97>>, <<97, 98, 99>>>>}, rest \in {<<>>, <<97>>}}
        \cup {Connection("nul", 0, <<<<LF>>, <<>>>>, <<97>>)}

Digit == 48
Netstrings == {Connection("netstring", cap, sent, rest) :
    cap \in {0, 5}, sent \in {<<<<COMMA>>, <<>>>>, <<<<Digit + 1, COLON>>, <<COMMA, COMMA, COLON>>>>},
    rest \in {<<>>, <<Digit + 1>>, <<COLON>>, <<Digit + 1, COLON, 97, 97>>, <<Digit + 9, Digit + 9, COLON>>,
              <<97, 97, 97, 97>>}}

Headers == {Connection("content_length", 0, <<BlankLine>>, rest) : rest \in
    {<<>>, Name \o <<COLON, PLUS>> \o BlankLine, <<97, COLON>> \o BlankLine,
     Name \o <<COLON, Digit + 2, CR, LF, 97, COLON>> \o BlankLine \o <<97>>}}
        \cup {Connection("content_length", cap, <<<<>>, <<97, 98>>>>, Name) : cap \in {0, 10}}

MCConnections == Delimiters \cup Netstrings \cup Headers
=============================================================================
