------------------------------ MODULE HttpClient ------------------------------
(***************************************************************************)
(* src/http/http_client.cpp: httpGet and httpPost, which block a task of   *)
(* the application while the client library (ESP-IDF's, or libcurl on a    *)
(* desktop) performs the request and hands the body to on_data in pieces.  *)
(* Every call has a connection and an HttpResult of its own.               *)
(***************************************************************************)
EXTENDS Integers, SequencesExt

CONSTANT BodyMax        \* sizeof(body) - 1: 1023 in the code

VARIABLES
    performing,         \* the application's task is inside a call
    result              \* the HttpResult of that call, or of the last one

client == <<performing, result>>

FreshResult == [success |-> FALSE, statusCode |-> 0, body |-> <<>>]

TypeOK ==
    /\ performing \in BOOLEAN
    /\ result.success \in BOOLEAN
    /\ result.statusCode \in 0 .. 599
    /\ Len(result.body) <= BodyMax

Init == performing = FALSE /\ result = FreshResult

(* Mutant of ResultAtCall: what an earlier call left is not cleared.       *)
ResultAtCallKept == [result EXCEPT !.success = FALSE, !.statusCode = 0]

ResultAtCall == FreshResult

Call ==
    /\ ~performing
    /\ performing' = TRUE
    /\ result' = ResultAtCall

(* The library cannot create the client.                                   *)
CallRefused ==
    /\ ~performing
    /\ result' = ResultAtCall
    /\ UNCHANGED performing

(* Mutant of Taken: a piece that does not fit is left out as a whole.      *)
TakenWhole(piece, space) == IF Len(piece) <= space THEN piece ELSE <<>>

(* What on_data copies of a piece into the space that is left.             *)
Taken(piece, space) ==
    SubSeq(piece, 1, IF Len(piece) < space THEN Len(piece) ELSE space)

OnData(piece) ==
    /\ performing
    /\ result' = [result EXCEPT
                    !.body = @ \o Taken(piece, BodyMax - Len(result.body))]
    /\ UNCHANGED performing

Performed(status) ==
    /\ performing
    /\ performing' = FALSE
    /\ result' = [result EXCEPT !.statusCode = status,
                                !.success = status >= 200 /\ status < 300]

(* Mutant of ResultOfFailure: success is only withdrawn by a bad status.   *)
ResultOfFailureOk == [result EXCEPT !.success = TRUE]

(* A timeout or a lost connection; a part of a body stays.                 *)
ResultOfFailure == result

PerformFails ==
    /\ performing
    /\ performing' = FALSE
    /\ result' = ResultOfFailure
=============================================================================
