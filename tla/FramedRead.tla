----------------------------- MODULE FramedRead -----------------------------
(***************************************************************************)
(* ReadCore::recv (transport.rs): how FramedReader and FramedConn cut a     *)
(* byte stream into messages, for each Framing, whatever the sizes of the   *)
(* reads, with a frame size cap, read timeouts, I/O errors, an end of       *)
(* stream at any byte, and a recv future dropped while it reads.            *)
(***************************************************************************)
EXTENDS Framing

CONSTANTS
    Connections, \* [framing, cap, sent, rest]: a codec, a max_frame_size (0 for
                 \* no limit), the payloads the peer sends, and what else it
                 \* writes before it shuts down: no complete frame
    ChunkSize,   \* most bytes one read adds to the buffer
    Interrupts,  \* what may end a read, each once: "timeout", "cancel", "io"
    Tolerated    \* the errors after which the caller calls recv again

ASSUME ConnectionAssumption ==
    \A c \in Connections : /\ c.framing \in Framings /\ c.cap \in Nat
                           /\ c.sent \in Seq(Seq(Byte)) /\ c.rest \in Seq(Byte)
\* A delimiter framing "requires that messages never contain the delimiter".
ASSUME PeerAssumption ==
    \A c \in Connections :
        /\ c.framing \in DOMAIN Delimiter =>
               \A k \in DOMAIN c.sent : Places(Delimiter[c.framing], c.sent[k]) = {}
        /\ \A n \in 0..Len(c.rest) : Decode(c.framing, SubSeq(c.rest, 1, n)).found # "frame"
ASSUME SizeAssumption == ChunkSize \in Nat \ {0}
Errors == {"frame", "too_big", "timed_out", "io", "mid_frame"}
ASSUME CallerAssumption == /\ Interrupts \subseteq {"timeout", "cancel", "io"}
                           /\ Tolerated \subseteq Errors

VARIABLES
    conn,   \* the connection; never changes
    stream, \* the bytes the peer writes; never changes
    pos,    \* bytes taken from the stream so far
    buf,    \* read_buf
    start,  \* length of read_buf when fill began to read
    pc,     \* "recv": in recv's loop; "reading": at inner.read().await
    out,    \* messages recv has returned
    taken,  \* the bytes drained for them
    broken, \* what has interrupted a read so far
    last    \* what the latest recv returned

vars == <<conn, stream, pos, buf, start, pc, out, taken, broken, last>>

Zeros(n) == [k \in 1..n |-> NUL]

\* FramedWriter::send and FramedConn::send, once for each payload.
Written(c) == FlattenSeq([k \in DOMAIN c.sent |-> Encode(c.framing, c.sent[k])])

Init == /\ conn \in Connections
        /\ stream = Written(conn) \o conn.rest
        /\ pos = 0 /\ buf = <<>> /\ start = 0
        /\ pc = "recv" /\ out = <<>> /\ taken = <<>>
        /\ broken = {} /\ last = "none"

\* Fault: the caller reads on after any error.
Return_GoesOn(result) == last' = result /\ pc' = IF result = "eof" THEN "stopped" ELSE "recv"

\* recv returns: an error ends the caller's loop unless it keeps going.
Return(result) ==
    /\ last' = result
    /\ pc' = IF result = "eof" \/ result \in Errors \ Tolerated
             THEN "stopped" ELSE "recv"

-----------------------------------------------------------------------------
\* A complete frame is buffered: drain it and return its payload.
DecodeFrame(found) ==
    /\ found.found = "frame"
    /\ out' = Append(out, found.msg)
    /\ taken' = taken \o SubSeq(buf, 1, found.consumed)
    /\ buf' = SubSeq(buf, found.consumed + 1, Len(buf))
    /\ Return("msg")
    /\ UNCHANGED <<conn, stream, pos, start, broken>>

DecodeError(found) ==
    /\ found = FrameError
    /\ Return("frame")
    /\ UNCHANGED <<conn, stream, pos, buf, start, out, taken, broken>>

\* Fault: the cap is off by one.
AtCap_Late == conn.cap > 0 /\ Len(buf) > conn.cap

AtCap == conn.cap > 0 /\ Len(buf) >= conn.cap

\* Fault: a full buffer is tried again, for ever.
FillRefused_Retries(found) == found = NeedsMore /\ AtCap /\ UNCHANGED vars

\* fill: the buffer is full without a frame in it.
FillRefused(found) ==
    /\ found = NeedsMore
    /\ AtCap
    /\ Return("too_big")
    /\ UNCHANGED <<conn, stream, pos, buf, start, out, taken, broken>>

\* fill: grow the buffer by a chunk of zero bytes and read into that tail.
BeginRead(found) ==
    /\ found = NeedsMore
    /\ ~AtCap
    /\ start' = Len(buf)
    /\ buf' = buf \o Zeros(ChunkSize)
    /\ pc' = "reading"
    /\ UNCHANGED <<conn, stream, pos, out, taken, last, broken>>

\* n bytes arrive: truncate to what arrived, then enforce the cap.
ReadSome ==
    /\ pc = "reading"
    /\ \E n \in 1..ChunkSize :
          /\ pos + n <= Len(stream)
          /\ pos' = pos + n
          /\ buf' = SubSeq(buf, 1, start) \o SubSeq(stream, pos + 1, pos + n)
          /\ IF conn.cap > 0 /\ start + n > conn.cap
             THEN Return("too_big")
             ELSE pc' = "recv" /\ UNCHANGED last
    /\ UNCHANGED <<conn, stream, start, out, taken, broken>>

\* End of stream: a message for delimiter framings, else an error, if bytes
\* are left over.
ReadEof ==
    /\ pc = "reading"
    /\ pos = Len(stream)
    /\ IF start > 0 /\ TakeOnEof(conn.framing)
       THEN /\ out' = Append(out, SubSeq(buf, 1, start))
            /\ taken' = taken \o SubSeq(buf, 1, start)
            /\ buf' = <<>>
            /\ Return("msg")
       ELSE /\ buf' = SubSeq(buf, 1, start)
            /\ Return(IF start = 0 THEN "eof" ELSE "mid_frame")
            /\ UNCHANGED <<out, taken>>
    /\ UNCHANGED <<conn, stream, pos, start, broken>>

\* The read timeout fires: `?` returns before the buffer is truncated.
ReadTimeout ==
    /\ pc = "reading"
    /\ "timeout" \in Interrupts \ broken
    /\ Return("timed_out")
    /\ broken' = broken \cup {"timeout"}
    /\ UNCHANGED <<conn, stream, pos, buf, start, out, taken>>

\* The recv future is dropped at the read, and recv is called again later.
CancelRecv ==
    /\ pc = "reading"
    /\ "cancel" \in Interrupts \ broken
    /\ pc' = "recv"
    /\ broken' = broken \cup {"cancel"}
    /\ UNCHANGED <<conn, stream, pos, buf, start, out, taken, last>>

\* Fault: a failed read leaves the grown buffer behind.
ReadFail_NoTruncate ==
    /\ pc = "reading"
    /\ "io" \in Interrupts \ broken
    /\ Return("io")
    /\ broken' = broken \cup {"io"}
    /\ UNCHANGED <<conn, stream, pos, buf, start, out, taken>>

\* The read fails: here the buffer is truncated.
ReadFail ==
    /\ pc = "reading"
    /\ "io" \in Interrupts \ broken
    /\ buf' = SubSeq(buf, 1, start)
    /\ Return("io")
    /\ broken' = broken \cup {"io"}
    /\ UNCHANGED <<conn, stream, pos, start, out, taken>>

\* The caller has left its loop.
Stopped == pc = "stopped" /\ UNCHANGED vars

\* recv's loop: decode, and read if that takes more bytes.
Recv == /\ pc = "recv"
        /\ \E found \in {Decode(conn.framing, buf)} :
              DecodeFrame(found) \/ DecodeError(found) \/ FillRefused(found) \/ BeginRead(found)

Reading == ReadSome \/ ReadEof
Next == \/ Recv \/ Reading
        \/ ReadTimeout \/ CancelRecv \/ ReadFail \/ Stopped

Spec == Init /\ [][Next]_vars

\* The caller's loop runs on, and the stream brings its bytes and its end.
FairSpec == /\ Spec
            /\ WF_vars(Recv)
            /\ WF_vars(Reading)

-----------------------------------------------------------------------------
(* Properties.                                                              *)

\* Every variable stays in its range, and recv is not called again after an end
\* or an error that the caller does not tolerate.
TypeOK == /\ conn \in Connections
          /\ pos \in 0..Len(stream)
          /\ {buf, taken} \subseteq Seq(Byte)
          /\ start \in 0..Len(buf) \/ pc # "reading"
          /\ out \in Seq(Seq(Byte))
          /\ broken \subseteq Interrupts
          /\ last \in {"none", "msg", "eof"} \cup Errors
          /\ pc \in {"recv", "reading", "stopped"}
          /\ pc = "stopped" <=> last \in {"eof"} \cup (Errors \ Tolerated)

\* What the buffer holds, without the tail of a pending read.
Kept == IF pc = "reading" THEN SubSeq(buf, 1, start) ELSE buf
Data(b) ==
    LET data[k \in 0..Len(b)] ==
            IF k = 0 THEN <<>>
            ELSE IF b[k] = NUL THEN data[k - 1] ELSE Append(data[k - 1], b[k])
    IN  data[Len(b)]

\* What has been drained and what is buffered are the bytes read so far, in
\* order: across reads of any size and interruptions of any kind no byte is
\* lost, repeated or moved.  A timeout or a dropped future adds NUL bytes
\* (fill's `?` returns before the buffer is truncated), a failed read none.
NothingLostOrAdded ==
    LET read == SubSeq(stream, 1, pos)
    IN  /\ Data(taken \o Kept) = Data(read)
        /\ broken \subseteq {"io"} => taken \o Kept = read

\* The peer's payloads arrive: each once, in order, byte for byte, whatever
\* bytes they contain and however frames and reads line up; after them, and
\* from a delimiter framing only, the rest of the stream.
SentIsReceived ==
    broken \subseteq {"io"} =>
        /\ \A k \in DOMAIN out :
              IF k <= Len(conn.sent) THEN out[k] = conn.sent[k]
              ELSE /\ TakeOnEof(conn.framing)
                   /\ k = Len(conn.sent) + 1 /\ out[k] = conn.rest
        /\ last = "eof" => Len(out) >= Len(conn.sent)

\* with_max_frame_size: "Frames larger than this will be rejected", unless the
\* caller reads on after a rejection, or a read was dropped and left its zero
\* bytes; and a peer that never completes a frame cannot make the buffer grow
\* further than one chunk over the cap, whatever the caller does.
CapHolds ==
    conn.cap > 0 =>
        /\ Len(buf) < conn.cap + ChunkSize
        /\ "too_big" \notin Tolerated /\ broken \subseteq {"io"} =>
               \A k \in DOMAIN out : Len(out[k]) <= conn.cap

\* Every payload sent is returned, unless recv gives up with an error.
EveryFrameReturned ==
    \A k \in 1..5 : k <= Len(conn.sent) ~>
        Len(out) >= k \/ (pc = "stopped" /\ last # "eof")
=============================================================================
