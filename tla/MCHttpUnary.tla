----------------------------- MODULE MCHttpUnary -----------------------------
(* HttpUnary for TLC: an ordinary key, a reserved one, the one that names  *)
(* the status and one that looks like a trailer.  A millisecond is four    *)
(* ticks; the deadline is none, past, near, or as far as a Duration goes,  *)
(* and some metadata has a grpc-timeout that is more than a Duration.      *)
EXTENDS HttpUnary

MCKeys     == {<<"a">>, <<"te">>, StatusKey, trailerPrefix \o <<"a">>}
MCMetadata == {{<<"a">>}, MCKeys \ {<<"a">>}}

MCCall(left, creds) == [left |-> left, md |-> MCKeys, creds |-> creds,
                        timeout |-> [unit |-> "m", val |-> 100]]
MCCalls == {MCCall(NoDeadline, {}), MCCall(-5, {<<"authorization">>}),
            MCCall(3, {}), MCCall(127, {TimeoutKey}),
            MCCall(NoDeadline, {TimeoutKey})}
=============================================================================
