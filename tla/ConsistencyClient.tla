-------------------------- MODULE ConsistencyClient --------------------------
(***************************************************************************)
(* crates/fibril_verifier/src/consistency_client.rs: what a fiber tells a  *)
(* consistency tester about the requests it sends and the responses it     *)
(* receives.  The client as a record, its two methods as operators; the    *)
(* message that is sent or received is the caller's.                       *)
(*                                                                         *)
(* A request in flight occupies a slot, and the index of the slot is the   *)
(* thread that the tester is told of, so a thread is sequential although   *)
(* the fiber has several requests under way.                               *)
(***************************************************************************)
EXTENDS SequentialSpec

CONSTANT ThreadId  \* the indices of slots: 1 .. the most requests in flight

ASSUME ThreadIdAssumption == ThreadId \subseteq Nat \ {0}

Tester == INSTANCE LinearizabilityTester

REQUEST_ID_SKIP == 100

None == 0  \* zero is no request identifier

NewClient(ref_obj) ==
    [tester |-> Tester!New(ref_obj),
     next_req_id |-> REQUEST_ID_SKIP,
     thread_idx_to_request_id |-> << >>,
     panicked |-> "None"]

\* The first slot that is free, or one more at the end.
FreeSlot(slots) ==
    LET free == {t \in DOMAIN slots : slots[t] = None}
    IN  IF free = {} THEN Len(slots) + 1 ELSE CHOOSE t \in free : \A u \in free : t <= u

\* Mutant: the identifier stays the same.
SkipNoneMutant(client) == client.next_req_id

Skip(client) == client.next_req_id + REQUEST_ID_SKIP

(***************************************************************************)
(* invoke, once the request with next_req_id is sent.                      *)
(***************************************************************************)
Invoke(client, op) ==
    LET slots  == client.thread_idx_to_request_id
        tidx   == FreeSlot(slots)
        tester == Tester!OnInvoke(client.tester, tidx, op)
    IN  [client EXCEPT
            !.thread_idx_to_request_id =
                IF tidx > Len(slots) THEN Append(slots, client.next_req_id)
                ELSE [slots EXCEPT ![tidx] = client.next_req_id],
            !.tester = tester,
            !.panicked = IF tester.is_valid_history THEN "None" ELSE "on_invoke",
            !.next_req_id = Skip(client)]

\* Mutant: the answer is not checked.
VerdictNeverMutant(tester) == IF tester.is_valid_history THEN "None" ELSE "on_return"

\* What await_response asserts of the tester.
Verdict(tester) ==
    CASE ~tester.is_valid_history -> "on_return"
      [] tester.is_valid_history /\ ~Tester!IsConsistent(tester) -> "inconsistent"
      [] OTHER -> "None"

(***************************************************************************)
(* await_response, once a response with req_id and ret is received.        *)
(***************************************************************************)
AwaitResponse(client, req_id, ret) ==
    LET slots   == client.thread_idx_to_request_id
        waiting == {t \in DOMAIN slots : slots[t] = req_id}
        tidx    == CHOOSE t \in waiting : \A u \in waiting : t <= u
        tester  == Tester!OnReturn(client.tester, tidx, ret)
    IN  IF waiting = {}
        THEN [client EXCEPT !.panicked = "Invalid request ID"]
        ELSE [client EXCEPT !.thread_idx_to_request_id = [slots EXCEPT ![tidx] = None],
                            !.tester = tester,
                            !.panicked = Verdict(tester)]

=============================================================================
