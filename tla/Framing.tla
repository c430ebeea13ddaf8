------------------------------- MODULE Framing -------------------------------
(***************************************************************************)
(* How the messages of a stream are laid out in the body of an HTTP        *)
(* request or reply, and how the other end finds them again                *)
(* (httpgrpc/io.go, internal/sse/sse.go): "proto", every message behind    *)
(* its size; "json", values one after the other, for requests; "sse",      *)
(* server-sent events, for replies.                                        *)
(*                                                                         *)
(* A body is a sequence of tokens, a token the least a cut can separate as *)
(* far as a reader can tell: half a size, a byte of data, a line's prefix, *)
(* a line's end, a brace.  A reader is an operator that takes what is left *)
(* of the body and says what one call of the streamReader returns.         *)
(***************************************************************************)
EXTENDS Integers, Sequences

CONSTANTS
    SizeOf,           \* SizeOf[n]: bytes of message n; SizeOf[0]: the trailer
    maxMessageSize

ASSUME SizeAssumption ==
    /\ maxMessageSize \in Nat
    /\ \A n \in DOMAIN SizeOf : SizeOf[n] \in Nat
    /\ 0 \in DOMAIN SizeOf /\ SizeOf[0] > 0   \* it has at least "OK" or a code

(* The pairs of formats of requests and replies there are.                 *)
Formats == {[request |-> "proto", reply |-> "proto"],
            [request |-> "json",  reply |-> "sse"]}

Token(kind, v) == [kind |-> kind, v |-> v]
Line           == Token("line", 0)

(* Message n is data of its own; n = 0 is the trailer.                     *)
Data(n) == [i \in 1..SizeOf[n] |-> Token("data", <<n, i>>)]

-----------------------------------------------------------------------------
(* Writers.  Each gives the two parts in which message n goes out.         *)

SizePreface(n) == LET sz == IF n = 0 THEN -SizeOf[n] ELSE SizeOf[n]
                  IN  <<Token("size", sz), Token("size", sz)>>

ProtoParts(n) == [size |-> SizePreface(n), bytes |-> Data(n)]
JSONParts(n)  == [size |-> <<>>,
                  bytes |-> <<Token("open", 0)>> \o Data(n) \o <<Token("close", 0)>>]

SSEParts(n) ==
    [size  |-> IF n = 0 THEN <<Token("event: trailer", 0), Line>> ELSE <<>>,
     bytes |-> <<Token("data: ", 0)>> \o Data(n) \o <<Line, Line>>]

Parts(format, n) == CASE format = "proto" -> ProtoParts(n)
                      [] format = "json"  -> JSONParts(n)
                      [] format = "sse"   -> SSEParts(n)

(* What is written for a part.                                             *)
Written(format, part) == Parts(format, part.n)[part.part]

-----------------------------------------------------------------------------
(* Readers.                                                                *)

Fails(err) == [err |-> err, data |-> <<>>, isTrailer |-> FALSE, rest |-> <<>>]
Found(data, isTrailer, rest) ==
    [err |-> "none", data |-> data, isTrailer |-> isTrailer, rest |-> rest]

(* io.ReadAtLeast reports io.EOF if it finds nothing at all.               *)
ReadAtLeast(in, size) ==
    IF Len(in) >= size THEN "none" ELSE IF in = <<>> THEN "EOF" ELSE "cut"

AfterPreface_RawEOF(err) == err
AfterPreface(err)        == IF err = "EOF" THEN "cut" ELSE err

ReadProto(in) ==
    IF ReadAtLeast(in, 2) # "none" THEN Fails(ReadAtLeast(in, 2))
    ELSE LET sz   == in[1].v
             size == IF sz < 0 THEN -sz ELSE sz
             tail == SubSeq(in, 3, Len(in))
         IN  IF size > maxMessageSize THEN Fails("tooLarge")
             ELSE IF ReadAtLeast(tail, size) # "none"
                  THEN Fails(AfterPreface(ReadAtLeast(tail, size)))
                  ELSE Found(SubSeq(tail, 1, size), sz < 0,
                             SubSeq(tail, size + 1, Len(tail)))

(* The position of the first token of a kind, or 0.                        *)
Find(in, kind) ==
    IF \E i \in DOMAIN in : in[i].kind = kind
    THEN CHOOSE i \in DOMAIN in :
             in[i].kind = kind /\ \A j \in 1..(i - 1) : in[j].kind # kind
    ELSE 0

ReadJSON(in) ==
    LET last == Find(in, "close")
    IN  CASE in = <<>> -> Fails("EOF")
          [] in # <<>> /\ last = 0 -> Fails("cut")
          [] last > 0 -> Found(SubSeq(in, 2, last - 1), FALSE,
                               SubSeq(in, last + 1, Len(in)))

(* sse.Decoder.Decode: event is what it has so far.  DecodeLine is one     *)
(* turn of its loop.  An event whose last line is whole counts at the end  *)
(* of the input, too.                                                      *)
NoEvent == [some |-> FALSE, data |-> <<>>, isTrailer |-> FALSE]
Event(data, isTrailer) == [some |-> TRUE, data |-> data, isTrailer |-> isTrailer]
Pending == Fails("pending")

DecodeLine(d) ==
    LET in   == d.rest
        eol  == Find(in, "line")
        rest == SubSeq(in, eol + 1, Len(in))
        text == SubSeq(in, 2, eol - 1)
    IN  CASE d.result # Pending -> d
          [] d.result = Pending /\ eol = 0 /\ in # <<>> ->
                 [d EXCEPT !.result = Fails("cut")]
          [] d.result = Pending /\ (in = <<>> \/ eol = 1) /\ d.event.some ->
                 [d EXCEPT !.result = Found(d.event.data, d.event.isTrailer, rest)]
          [] d.result = Pending /\ in = <<>> /\ ~d.event.some ->
                 [d EXCEPT !.result = Fails("EOF")]
          [] d.result = Pending /\ eol = 1 /\ ~d.event.some ->
                 [d EXCEPT !.rest = rest]
          [] d.result = Pending /\ eol > 1 /\ in[1].kind = "data: " ->
                 [d EXCEPT !.rest = rest,
                           !.event = Event(@.data \o text, @.isTrailer)]
          [] d.result = Pending /\ eol > 1 /\ in[1].kind = "event: trailer" ->
                 [d EXCEPT !.rest = rest, !.event = Event(@.data, TRUE)]
          [] d.result = Pending /\ eol > 1
                 /\ in[1].kind \notin {"data: ", "event: trailer"} ->
                 [d EXCEPT !.result = Fails("malformed")]

(* There are no more lines than tokens, and then there is the end.         *)
DecodeTurns(in) ==
    LET turn[k \in 0..(Len(in) + 1)] ==
            IF k = 0 THEN [event |-> NoEvent, rest |-> in, result |-> Pending]
                     ELSE DecodeLine(turn[k - 1])
    IN  turn

DecodeLines(in) == DecodeTurns(in)[Len(in) + 1].result

Read(format, in) == CASE format = "proto" -> ReadProto(in)
                      [] format = "json"  -> ReadJSON(in)
                      [] format = "sse"   -> DecodeLines(in)

(* What a reader makes of a whole body, call by call: the data of the      *)
(* messages before the end, and what the end is: an error, or the          *)
(* trailer's data.                                                         *)
ReadNext(format, got) ==
    LET r == Read(format, got.rest)
    IN  CASE got.end # "pending" -> got
          [] got.end = "pending" /\ r.err = "none" /\ ~r.isTrailer ->
                 [got EXCEPT !.data = Append(@, r.data), !.rest = r.rest]
          [] got.end = "pending" /\ (r.err # "none" \/ r.isTrailer) ->
                 [got EXCEPT !.end = r.err, !.trailer = r.data]

ReadCalls(format, in) ==
    LET call[k \in 0..(Len(in) + 1)] ==
            IF k = 0 THEN [data |-> <<>>, end |-> "pending", trailer |-> <<>>,
                           rest |-> in]
                     ELSE ReadNext(format, call[k - 1])
    IN  call

ReadAll(format, in) == ReadCalls(format, in)[Len(in) + 1]

(* The body that consists of these parts, each a part of a message, and    *)
(* the parts of the messages up to n.                                      *)
Bodies(format, parts) ==
    LET body[i \in 0..Len(parts)] ==
            IF i = 0 THEN <<>>
            ELSE body[i - 1] \o Written(format, parts[i])
    IN  body

Body(format, parts) == Bodies(format, parts)[Len(parts)]

Messages(n) ==
    [i \in 1..(2 * n) |-> [part |-> IF i % 2 = 1 THEN "size" ELSE "bytes",
                           n    |-> (i + 1) \div 2]]
=============================================================================
