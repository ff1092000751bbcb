------------------------------ MODULE Discovery ------------------------------
(***************************************************************************)
(* The server of crates/fibril_verifier/examples/discovery.rs: a registry  *)
(* whose records expire, and are collected when the next message comes     *)
(* after a while.  The fiber's locals are a function of the events it has  *)
(* consumed, its next command a function of its locals.                    *)
(***************************************************************************)
EXTENDS Integers, Sequences

GC_INTERVAL == 5
TTL == 15

\* Msg::QueryOk; the client that registers in the test is actor 2.
QueryOk(ids) == IF ids = {} THEN "QueryOk({})" ELSE IF ids = {2} THEN "QueryOk({2})" ELSE "QueryOk"

NoExpirations == [id \in {} |-> 0]

InsertKey(map, id, deadline) ==
    [k \in DOMAIN map \cup {id} |-> IF k = id THEN deadline ELSE map[k]]

RemoveKey(map, id) == [k \in DOMAIN map \ {id} |-> map[k]]

Lowest(ids) == CHOOSE id \in ids : \A other \in ids : id <= other

Started ==
    [at |-> "next_gc", expirations_by_id |-> NoExpirations, next_gc |-> 0,
     client |-> 0, msg |-> "", unchecked |-> {}]

\* The match on the message, once nothing is left to collect.
Handle(s) ==
    [s EXCEPT !.at = CASE s.msg = "Renew" -> "renew" [] s.msg = "Query" -> "query" [] OTHER -> "recv"]

\* retain goes through the records in the order of their ids.
Retain(s, unchecked) ==
    IF unchecked = {} THEN Handle(s) ELSE [s EXCEPT !.at = "retain", !.unchecked = unchecked]

\* The locals after the event that answers the command the fiber waits at.
Resume(s, event) ==
    CASE s.at = "next_gc" -> [s EXCEPT !.at = "recv", !.next_gc = event.deadline]
      [] s.at = "recv"    -> [s EXCEPT !.at = "gc?", !.client = event.src, !.msg = event.msg]
      [] s.at = "gc?"     -> IF event.elapsed THEN [s EXCEPT !.at = "gc"] ELSE Handle(s)
      [] s.at = "gc"      -> Retain([s EXCEPT !.next_gc = event.deadline], DOMAIN s.expirations_by_id)
      [] s.at = "retain"  ->
            LET id   == Lowest(s.unchecked)
                kept == IF event.elapsed THEN RemoveKey(s.expirations_by_id, id) ELSE s.expirations_by_id
            IN  Retain([s EXCEPT !.expirations_by_id = kept], s.unchecked \ {id})
      [] s.at = "renew"   -> [s EXCEPT !.at = "recv",
                                !.expirations_by_id = InsertKey(@, s.client, event.deadline)]
      [] s.at = "query"   -> [s EXCEPT !.at = "recv"]

Locals(events) ==
    LET after[k \in 1 .. Len(events)] ==
            IF k = 1 THEN Started ELSE Resume(after[k - 1], events[k])
    IN  after[Len(events)]

\* disco_server's answer to the last of the events.
DiscoServer(events) ==
    LET s == Locals(events)
        elapsed(d) == [type |-> "DeadlineElapsed", deadline |-> d]
    IN  CASE s.at \in {"next_gc", "gc"} -> [type |-> "Deadline", duration |-> GC_INTERVAL]
          [] s.at = "recv"   -> [type |-> "Recv"]
          [] s.at = "gc?"    -> elapsed(s.next_gc)
          [] s.at = "retain" -> elapsed(s.expirations_by_id[Lowest(s.unchecked)])
          [] s.at = "renew"  -> [type |-> "Deadline", duration |-> TTL]
          [] s.at = "query"  ->
                [type |-> "Send", dst |-> s.client, msg |-> QueryOk(DOMAIN s.expirations_by_id)]

=============================================================================
