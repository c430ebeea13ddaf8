--------------------------- MODULE HttpServerBody ---------------------------
(***************************************************************************)
(* HttpServerStream together with the layout of what it writes and reads.  *)
(***************************************************************************)
EXTENDS HttpServerStream, Framing, FiniteSets

ASSUME MessagesAssumption == 1..MaxReq \cup 1..MaxResp \subseteq DOMAIN SizeOf

(* Wherever the connection cuts a body, a reader returns a prefix of the   *)
(* messages that were written, each with its own data, and then            *)
(*   - the trailer, only if it follows every message, and either whole or  *)
(*     with no data, which no codec takes for an HttpTrailer;              *)
(*   - io.EOF, only if the body ends where a message does.                 *)
Decodes(format, body, hasTrailer, count) ==
    \A cut \in 0..Len(body) :
        LET got == ReadAll(format, SubSeq(body, 1, cut))
            n   == Len(got.data)
            end == Len(Body(format, Messages(n)))
        IN  /\ n <= count
            /\ \A i \in 1..n : got.data[i] = Data(i)
            /\ got.end = "none" =>
                   hasTrailer /\ n = count /\ got.trailer \in {Data(0), <<>>}
            /\ got.end = "EOF" => cut = end \/ (format = "sse" /\ cut = end - 1)

(* The reply, and the requests that have come so far, are read back as     *)
(* they were written, however much of them arrives, and a reply that is    *)
(* complete is read to its trailer (io.go, sse.go).                        *)
StreamsDecode ==
    LET numbers == {wire[i].n : i \in 1..Len(wire)}
        count   == Cardinality(numbers \ {0})
    IN  \A f \in Formats :
            LET requests == Body(f.request, Messages(req))
                reply    == Body(f.reply, wire)
            IN  /\ Decodes(f.request, requests, FALSE, req)
                /\ Decodes(f.reply, reply, 0 \in numbers, count)
                /\ 0 \in numbers /\ Len(wire) % 2 = 0 =>
                       LET got == ReadAll(f.reply, reply)
                       IN  Len(got.data) = count /\ got.trailer = Data(0)
=============================================================================
