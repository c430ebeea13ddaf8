--------------------------- MODULE MCInterceptors ---------------------------
(* Interceptors for TLC: the caller has an array of three interceptors, of *)
(* which a slice has the first two, and an array of one.  MCFull cuts the  *)
(* slice's capacity, as Go's ints[:2:2] does, MCShared leaves it.          *)
EXTENDS Interceptors

MCMemory == <<"j", "k", "l", "i">>

MCSlices(cap) == {[kind |-> "unary", at |-> 1, len |-> 2, cap |-> cap],
                  [kind |-> "stream", at |-> 4, len |-> 1, cap |-> 1]}
MCFull   == MCSlices(2)
MCShared == MCSlices(3)

MCLists == {<<"x">>, <<"x", "j">>}
=============================================================================
