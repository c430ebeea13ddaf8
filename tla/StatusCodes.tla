----------------------------- MODULE StatusCodes -----------------------------
(* The two tables of httpgrpc/codes.go between gRPC codes and HTTP status  *)
(* codes.  A gRPC code is named; "other" is a number without a name.       *)
EXTENDS Integers

ErrorStatus ==
    [Canceled |-> 502, Unknown |-> 500, InvalidArgument |-> 400,
     DeadlineExceeded |-> 504, NotFound |-> 404, AlreadyExists |-> 409,
     PermissionDenied |-> 403, Unauthenticated |-> 401,
     ResourceExhausted |-> 429, FailedPrecondition |-> 412, Aborted |-> 409,
     OutOfRange |-> 422, Unimplemented |-> 501, Internal |-> 500,
     Unavailable |-> 503, DataLoss |-> 500, other |-> 500]

Codes == DOMAIN ErrorStatus \cup {"OK"}

httpStatusFromCode(code) == IF code = "OK" THEN 200 ELSE ErrorStatus[code]

(* For replies without a gRPC code.                                        *)
codeFromHttpStatus(stat) ==
    CASE stat \in 200..299             -> "OK"
      [] stat = 401                    -> "Unauthenticated"
      [] stat = 403                    -> "PermissionDenied"
      [] stat = 404                    -> "NotFound"
      [] stat = 408                    -> "DeadlineExceeded"
      [] stat \in {409, 423}           -> "Aborted"
      [] stat = 416                    -> "OutOfRange"
      [] stat \in {412, 417}           -> "FailedPrecondition"
      [] stat = 429                    -> "ResourceExhausted"
      [] stat = 499                    -> "Canceled"
      [] stat \in (400..499) \ {401, 403, 404, 408, 409, 412, 416, 417, 423,
                                429, 499} -> "InvalidArgument"
      [] stat = 501                    -> "Unimplemented"
      [] stat = 502                    -> "Unknown"
      [] stat = 503                    -> "Unavailable"
      [] stat = 504                    -> "DeadlineExceeded"
      [] stat \in (500..599) \ 501..504 -> "Internal"
      [] stat \notin (200..299) \cup (400..599) -> "Unknown"
=============================================================================
