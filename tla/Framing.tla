------------------------------ MODULE Framing ------------------------------
(***************************************************************************)
(* The framings of transport.rs: how a payload is written to a byte stream  *)
(* and cut out of one again.                                                *)
(*                                                                          *)
(* A byte is its value; the name Content-Length, in any case, is one byte,  *)
(* as is any other header's.  Decode returns what it found at the front of  *)
(* the buffer b: a frame, an error, or nothing yet.                         *)
(***************************************************************************)
EXTENDS Naturals, SequencesExt

CONSTANTS MaxUsize,   \* the largest usize
          MaxPrefix,  \* the longest netstring length prefix, 20
          MaxHeader   \* MAX_HEADER_BYTES

ASSUME FramingBounds == {MaxUsize, MaxPrefix, MaxHeader} \subseteq Nat

Byte == 0..255
NUL == 0
LF == 10
CR == 13
SPACE == 32
PLUS == 43
COMMA == 44
COLON == 58
CONTENT_LENGTH == 76

Frame(msg, consumed) == [found |-> "frame", msg |-> msg, consumed |-> consumed]
NeedsMore == [found |-> "more"]
FrameError == [found |-> "error"]

\* The places of a byte in b.
Places(byte, b) == {k \in DOMAIN b : b[k] = byte}

Decimal[n \in Nat] ==
    IF n < 10 THEN <<48 + n>> ELSE Append(Decimal[n \div 10], 48 + (n % 10))

\* str::parse::<usize>, which takes a plus sign; a set, empty for an error.
Parse(s) ==
    LET digits == IF s # <<>> /\ s[1] = PLUS THEN Tail(s) ELSE s
        value[k \in 0..Len(digits)] == IF k = 0 THEN 0 ELSE 10 * value[k - 1] + digits[k] - 48
    IN  IF digits # <<>> /\ (\A k \in DOMAIN digits : digits[k] \in 48..57)
        THEN {value[Len(digits)]} \cap (0..MaxUsize) ELSE {}

-----------------------------------------------------------------------------
EncodeDelimited(delimiter, payload) == Append(payload, delimiter)

\* Fault: the delimiter is searched from the back.
DecodeDelimited_Last(delimiter, b) ==
    IF Places(delimiter, b) = {} THEN NeedsMore
    ELSE LET idx == Max(Places(delimiter, b)) IN Frame(SubSeq(b, 1, idx - 1), idx)

DecodeDelimited(delimiter, b) ==
    IF Places(delimiter, b) = {} THEN NeedsMore
    ELSE LET idx == Min(Places(delimiter, b)) IN Frame(SubSeq(b, 1, idx - 1), idx)

-----------------------------------------------------------------------------
EncodeNetstring(payload) == Decimal[Len(payload)] \o <<COLON>> \o payload \o <<COMMA>>

\* <len>:<payload>,
DecodeNetstring(b) ==
    IF Places(COLON, b) = {}
    THEN IF Len(b) > MaxPrefix THEN FrameError ELSE NeedsMore
    ELSE LET colon == Min(Places(COLON, b))
             length == Parse(SubSeq(b, 1, colon - 1))
             end == colon + (CHOOSE n \in length : TRUE)
         IN  IF length = {} \/ end > MaxUsize THEN FrameError
             ELSE IF Len(b) <= end THEN NeedsMore
             ELSE IF b[end + 1] # COMMA THEN FrameError
             ELSE Frame(SubSeq(b, colon + 1, end), end + 1)

-----------------------------------------------------------------------------
BlankLine == <<CR, LF, CR, LF>>
Name == <<CONTENT_LENGTH>>

EncodeContentLength(payload) ==
    Name \o <<COLON, SPACE>> \o Decimal[Len(payload)] \o BlankLine \o payload

FindHeaderEnd(b) == {k \in 1..(Len(b) - 3) : SubSeq(b, k, k + 3) = BlankLine}

\* The lines of the header block h, each with the place where it starts.
SplitCrlf(h) ==
    LET starts == {1} \cup {k + 1 : k \in Places(LF, h)}
        stop(s) == Min({k \in Places(LF, h) : k >= s} \cup {Len(h) + 1})
        line(s) == IF stop(s) > s /\ h[stop(s) - 1] = CR THEN SubSeq(h, s, stop(s) - 2)
                   ELSE SubSeq(h, s, stop(s) - 1)
    IN  {l \in {<<s, line(s)>> : s \in starts} : l[2] # <<>>}

\* Of a line "name: value".
NameOf(line)  == SubSeq(line, 1, Min(Places(COLON, line)) - 1)
ValueOf(line) == SubSeq(line, Min(Places(COLON, line)) + 1, Len(line))

\* str::trim, and parse.
ParseTrimmed(s) ==
    LET kept == DOMAIN s \ Places(SPACE, s)
    IN  IF kept = {} THEN {} ELSE UNION {Parse(t) : t \in {SubSeq(s, Min(kept), Max(kept))}}

\* The length that the lines announce, as a set: empty if a line has no colon,
\* a length is none, or there is none; of several lengths the last one counts.
Announced(lines) ==
    LET lengths == {<<l[1], ParseTrimmed(ValueOf(l[2]))>> :
                       l \in {m \in lines : NameOf(m[2]) = Name}}
    IN  IF (\E l \in lines : Places(COLON, l[2]) = {}) \/ (\E l \in lengths : l[2] = {})
        THEN {}
        ELSE UNION {l[2] : l \in {x \in lengths : \A m \in lengths : m[1] <= x[1]}}

\* Headers, a blank line, and the payload.
DecodeContentLength(b) ==
    IF FindHeaderEnd(b) = {}
    THEN IF Len(b) > MaxHeader THEN FrameError ELSE NeedsMore
    ELSE LET headerEnd == Min(FindHeaderEnd(b)) + 3
             ends == {headerEnd + n : n \in Announced(SplitCrlf(SubSeq(b, 1, headerEnd - 4)))}
         IN  IF ends \cap (0..MaxUsize) = {} THEN FrameError
             ELSE IF \E end \in ends : Len(b) < end THEN NeedsMore
             ELSE Frame(SubSeq(b, headerEnd + 1, Max(ends)), Max(ends))

-----------------------------------------------------------------------------
\* Delimited(b), of which Newline is the case of a line feed.
Delimiter == [newline |-> LF, nul |-> NUL]
Framings == DOMAIN Delimiter \cup {"netstring", "content_length"}

Encode(framing, payload) ==
    CASE framing \in DOMAIN Delimiter -> EncodeDelimited(Delimiter[framing], payload)
      [] framing = "netstring"      -> EncodeNetstring(payload)
      [] framing = "content_length" -> EncodeContentLength(payload)

Decode(framing, b) ==
    CASE framing \in DOMAIN Delimiter -> DecodeDelimited(Delimiter[framing], b)
      [] framing = "netstring"      -> DecodeNetstring(b)
      [] framing = "content_length" -> DecodeContentLength(b)

\* The end of the stream ends a frame.
TakeOnEof(framing) == framing \in DOMAIN Delimiter
=============================================================================
