----------------------------- MODULE HttpHeaders -----------------------------
(***************************************************************************)
(* What travels in the headers of a unary call over HTTP, and how it is    *)
(* converted: metadata (httpgrpc/io.go, client.go setMetadata) and the     *)
(* deadline (client.go headersFromContext, server.go contextFromHeaders).  *)
(*                                                                         *)
(* A key is a sequence of the parts of its name, so that a prefix can be   *)
(* put in front of it and taken off; values are left out, but for the time *)
(* in GRPC-Timeout.                                                        *)
(***************************************************************************)
EXTENDS Integers, Sequences

CONSTANTS
    Milli,   \* nanoseconds of a millisecond
    Half     \* a Duration goes from -Half up to Half - 1

ASSUME UnitAssumption ==
    Milli \in Nat \ {0} /\ Half \in Nat /\ Milli < Half

Names == Seq(STRING) \ {<<>>}

Durations == -Half..Half - 1

reservedHeaders ==
    {<<name>> : name \in {"accept-encoding", "connection", "content-type",
        "content-length", "keep-alive", "te", "trailer", "transfer-encoding",
        "upgrade"}}

toHeaders(md, prefix) == {prefix \o k : k \in md \ reservedHeaders}

trailerPrefix == <<"x-grpc-trailer-">>

IsTrailer(name) == Len(name) > 1 /\ SubSeq(name, 1, 1) = trailerPrefix

(* setMetadata: the names with the prefix are trailers, without it.        *)
HeadersOf(names)  == {name \in names : ~IsTrailer(name)}
TrailersOf(names) == {Tail(name) : name \in {n \in names : IsTrailer(n)}}

-----------------------------------------------------------------------------
NoTimeout == [unit |-> "none", val |-> 0]

(* Division of Go, towards zero.                                           *)
Quotient(a, b) == IF a < 0 THEN -((-a) \div b) ELSE a \div b

Millis_NoMinimum(left) == Quotient(left, Milli)
Millis(left) == IF Quotient(left, Milli) <= 0 THEN 1 ELSE Quotient(left, Milli)

(* The header GRPC-Timeout, given the time left in nanoseconds.            *)
TimeoutHeader(left) == [unit |-> "m", val |-> Millis(left)]

Units == [n |-> 1, m |-> Milli]   \* of the six units, the ends that matter

(* The header's name among the metadata's, of which it is not reserved.    *)
TimeoutKey == <<"grpc-timeout">>

Wrap(x) == ((x + Half) % (2 * Half)) - Half

(* The deadline the server derives from the header; one without a known    *)
(* unit is ignored.                                                        *)
TimeoutOf(header) ==
    IF header.unit \in DOMAIN Units
    THEN [unit |-> "n", val |-> Wrap(header.val * Units[header.unit])]
    ELSE NoTimeout
=============================================================================
