------------------------------ MODULE Request ------------------------------
(***************************************************************************)
(* What MPDConnection::request_data promises its callers, without streams, *)
(* lines and reconnections: a request is carried out by MPD only while its *)
(* caller waits and at most twice; an answer means that it was carried     *)
(* out, and is the answer to it.  Only while the stream is not in step,    *)
(* which takes a request that failed, may a caller be given the answer to  *)
(* another request, before his own is carried out.                         *)
(***************************************************************************)
EXTENDS Integers

CONSTANT Ids        \* the requests, in no particular order; positive numbers

VARIABLES
    ran,            \* how often MPD carried out a request
    result,         \* "none" (not asked yet), "pending", "ok", "error"
    answer,         \* the request whose answer the caller was given
    inStep          \* answers on the stream are those to the requests on it
reqVars == <<ran, result, answer, inStep>>

NoAnswer == 0       \* no request has this number

Init == /\ ran = [i \in Ids |-> 0]
        /\ result = [i \in Ids |-> "none"]
        /\ answer = [i \in Ids |-> NoAnswer]
        /\ inStep = TRUE

Begin(i) == /\ result[i] = "none"
            /\ \A j \in Ids : result[j] # "pending"
            /\ result' = [result EXCEPT ![i] = "pending"]
            /\ UNCHANGED <<ran, answer, inStep>>

CarryOut(i) == /\ result[i] = "pending" \/ (result[i] # "none" /\ ~inStep)
               /\ ran[i] < 2
               /\ ran' = [ran EXCEPT ![i] = @ + 1]
               /\ UNCHANGED <<result, answer, inStep>>

Return(i) == /\ result[i] = "pending"
             /\ \E j \in Ids \cup {NoAnswer} :
                   /\ inStep => (j = i /\ ran[i] > 0)
                   /\ answer' = [answer EXCEPT ![i] = j]
             /\ result' = [result EXCEPT ![i] = "ok"]
             /\ UNCHANGED <<ran, inStep>>

Fail(i) == /\ result[i] = "pending"
           /\ result' = [result EXCEPT ![i] = "error"]
           /\ inStep' \in BOOLEAN
           /\ UNCHANGED <<ran, answer>>

Reconnect == inStep' = TRUE /\ UNCHANGED <<ran, result, answer>>

Next == \/ \E i \in Ids : Begin(i) \/ CarryOut(i) \/ Return(i) \/ Fail(i)
        \/ Reconnect

Spec == Init /\ [][Next]_reqVars
=============================================================================
