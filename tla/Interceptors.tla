---------------------------- MODULE Interceptors ----------------------------
(***************************************************************************)
(* Channels and service registrars wrapped in interceptors (intercept.go), *)
(* and the services registered through them (server.go).  A view is a      *)
(* channel or a registrar: the four functions that wrap one, for unary or  *)
(* streaming calls on either side, are the same code on different types.   *)
(* A behaviour can be read as one of the client's side or of the server's. *)
(*                                                                         *)
(* Interceptors are passed as slices, and the chain made of a slice keeps  *)
(* it: heap is the memory the slices are in.  A slice is an address, a     *)
(* length and the capacity its array has from there.                       *)
(***************************************************************************)
EXTENDS Integers, Sequences, FiniteSets

CONSTANTS
    Names,          \* the application's interceptors
    Memory,         \* its arrays, one after the other, as they are at first
    CallerSlices,   \* its slices of them
    Lists,          \* interceptors it lists in a call
    Services,
    Transport,      \* the server's own interceptor, if it has one
    MaxViews        \* bound

Kinds == {"unary", "stream"}

ASSUME NamesAssumption ==
    /\ Transport \in Names
    /\ Memory \in Seq(Names)
    /\ Lists \subseteq Seq(Names) \ {<<>>}

ASSUME SlicesAssumption ==
    /\ CallerSlices \subseteq [kind : Kinds, at : Nat, len : Nat, cap : Nat]
    /\ \A s \in CallerSlices :
           /\ 0 < s.at /\ s.at + s.cap - 1 <= Len(Memory)
           /\ 0 < s.len /\ s.len <= s.cap

ASSUME BoundAssumption == MaxViews \in Nat

VARIABLES heap, views, services, panicked

vars == <<heap, views, services, panicked>>

(* A function: one of the application's, a chain over a slice, or none.    *)
Func(name)     == [type |-> "func", name |-> name]
Chain(at, len) == [type |-> "chain", at |-> at, len |-> len]
Nil            == [type |-> "nil"]

NoInts == [kind \in Kinds |-> Nil]

(* asked is what calls through the view should pass, in this order, and    *)
(* plain whether no type of the application's is between it and the root.  *)
View(type, under, ints, asked, plain) ==
    [type |-> type, under |-> under, ints |-> ints, asked |-> asked,
     plain |-> plain]

Funcs(names) == [i \in 1..Len(names) |-> Func(names[i])]

Init ==
    /\ heap = Funcs(Memory)
    /\ views = <<View("root", 0, NoInts, [kind \in Kinds |-> <<>>], TRUE)>>
    /\ services = <<>> /\ panicked = FALSE

-----------------------------------------------------------------------------
(* InterceptClientConnUnary and its like, of view v, with a slice that has *)
(* these names, in memory h.                                               *)

chain(h, at, len) == IF len = 1 THEN h[at] ELSE Chain(at, len)

(* append(slice, old): in place if the array has room, or else in an array *)
(* of its own.                                                             *)
HasRoom(slice) == slice.len < slice.cap

Appended(h, slice, old) ==
    IF HasRoom(slice)
    THEN [h EXCEPT ![slice.at + slice.len] = old]
    ELSE h \o Append(SubSeq(h, slice.at, slice.at + slice.len - 1), old)

AppendedAt(h, slice) == IF HasRoom(slice) THEN slice.at ELSE Len(h) + 1

Made(v, kind, f, names) ==
    LET merge == views[v].type = "intercepted"
    IN  views' = Append(views,
            View("intercepted",
                 IF merge THEN views[v].under ELSE v,
                 [views[v].ints EXCEPT ![kind] = f],
                 [views[v].asked EXCEPT ![kind] = names \o @],
                 views[v].plain))

Wraps_ForgetsOld(h, v, kind, slice, names) ==
    heap' = h /\ Made(v, kind, chain(h, slice.at, slice.len), names)

Wraps(h, v, kind, slice, names) ==
    LET old == views[v].ints[kind]
    IN  \/ /\ old.type = "nil"
           /\ heap' = h
           /\ Made(v, kind, chain(h, slice.at, slice.len), names)
        \/ /\ old.type # "nil"
           /\ heap' = Appended(h, slice, old)
           /\ Made(v, kind,
                   chain(heap', AppendedAt(h, slice), slice.len + 1), names)

(* With one of the caller's slices (an empty one gives back the view).     *)
InterceptSlice(v, s) ==
    /\ Len(views) < MaxViews
    /\ Wraps(heap, v, s.kind, s, SubSeq(Memory, s.at, s.at + s.len - 1))
    /\ UNCHANGED <<services, panicked>>

(* With a list in the call, for which Go makes an array: InterceptChannel, *)
(* InterceptClientConn and WithInterceptor do one or two such steps.       *)
ListSlice(names) ==
    [at |-> Len(heap) + 1, len |-> Len(names), cap |-> Len(names)]

InterceptList(v, kind, names) ==
    /\ Len(views) < MaxViews
    /\ Wraps(heap \o Funcs(names), v, kind, ListSlice(names), names)
    /\ UNCHANGED <<services, panicked>>

(* A type of the application's that wraps a channel or a registrar.        *)
WrapForeign(v) ==
    /\ Len(views) < MaxViews
    /\ views' = Append(views,
                       View("foreign", v, NoInts, views[v].asked, FALSE))
    /\ UNCHANGED <<heap, services, panicked>>

(* HandlerMap.RegisterService refuses a service it has.                    *)
RegisterService(name, v) ==
    /\ UNCHANGED <<heap, views>>
    /\ IF \E i \in 1..Len(services) : services[i].name = name
       THEN panicked' = TRUE /\ UNCHANGED services
       ELSE /\ services' = Append(services, [name |-> name, view |-> v])
            /\ UNCHANGED panicked

Next ==
    /\ ~panicked
    /\ \E v \in 1..Len(views) :
           \/ WrapForeign(v)
           \/ \E name \in Services : RegisterService(name, v)
           \/ \E s \in CallerSlices : InterceptSlice(v, s)
           \/ \E kind \in Kinds, names \in Lists :
                  InterceptList(v, kind, names)

Spec == Init /\ [][Next]_vars

-----------------------------------------------------------------------------
(* What is called, in order, when the functions of the slice [at, len] of  *)
(* memory h are, going from one function to another at most depth times:   *)
(* a chain follows its slice as it is now, and may contain itself.         *)

Deeper(h, called) ==
    [at \in Nat |-> [len \in Nat |->
        IF len = 0 THEN <<>>
        ELSE LET last == h[at + len - 1]
             IN  called[at][len - 1] \o
                 IF last.type = "chain" THEN called[last.at][last.len]
                                        ELSE <<last.name>>]]

Shallow ==
    [at \in Nat |-> [len \in Nat |-> IF len = 0 THEN <<>>
                                                ELSE <<"for ever">>]]

CalledBySlices(h) ==
    LET called[depth \in 0..Len(h)] ==
            IF depth = 0 THEN Shallow
                         ELSE Deeper(h, called[depth - 1])
    IN  called

(* No more functions can follow each other than memory has without one     *)
(* coming back.                                                            *)
Calls(h, f) ==
    CASE f.type = "nil"   -> <<>>
      [] f.type = "func"  -> <<f.name>>
      [] f.type = "chain" -> CalledBySlices(h)[Len(h)][f.at][f.len]

(* interceptedChannel.Invoke and NewStream, down to the channel itself.    *)
ClientCalls(kind) ==
    LET called[v \in 1..Len(views)] ==
            IF views[v].type = "root" THEN <<>>
            ELSE Calls(heap, views[v].ints[kind]) \o called[views[v].under]
    IN  called

(* interceptingRegistry puts its functions around the handlers of a        *)
(* description and passes it to the registrar below, which puts its own    *)
(* around them.                                                            *)
Described(kind) ==
    LET called[v \in 1..Len(views)] ==
            IF views[v].type = "root" THEN <<>>
            ELSE called[views[v].under] \o Calls(heap, views[v].ints[kind])
    IN  called

(* The server has an interceptor of its own, which is the first to be      *)
(* called and combined with those of the registrars, or has none.          *)
Owns == {<<>>, <<Transport>>}

ServerCalls_OnlyCombined(own, service, kind) ==
    IF own = <<>> THEN <<>> ELSE own \o Described(kind)[service.view]
ServerCalls(own, service, kind) == own \o Described(kind)[service.view]

Times(name, seq) == Cardinality({i \in 1..Len(seq) : seq[i] = name})

(* A call on a channel passes every interceptor it was wrapped in, once,   *)
(* those of the outermost wrapping first and those of one wrapping in the  *)
(* order given, whatever was wrapped, merged or built of the same slices   *)
(* before or since.                                                        *)
CallsPassAllInterceptors ==
    \A v \in 1..Len(views), kind \in Kinds :
        ClientCalls(kind)[v] = views[v].asked[kind]

(* A service's calls pass the server's own interceptor first, if it has    *)
(* one, and then, with or without it, all those of the registrar the       *)
(* service was registered through, each as often as it was given; if the   *)
(* registrar is of grpchan alone, in the order given.                      *)
ServicesKeepInterceptors ==
    \A s \in 1..Len(services), kind \in Kinds, own \in Owns :
        LET called == ServerCalls(own, services[s], kind)
            view   == views[services[s].view]
            asked  == own \o view.asked[kind]
        IN  /\ Len(called) = Len(asked) /\ (own # <<>> => called[1] = Transport)
            /\ \A name \in Names : Times(name, called) = Times(name, asked)
            /\ view.plain => called = asked
=============================================================================
