--------------------------- MODULE MCSharedMemory ---------------------------
(***************************************************************************)
(* SharedMemory for TLC.                                                   *)
(***************************************************************************)
EXTENDS SharedMemory

Call(dst, op) == [call |-> "invoke", dst |-> dst, op |-> op]
Await         == [call |-> "await"]

Replicated(script) == [replicated |-> TRUE, servers |-> 3, script |-> script]

\* The test is_linearizable of kv.rs.
IsLinearizable ==
    Replicated(<<Call(1, Write(1)), Call(1, Write(2)), Await, Await, Call(2, Write(3)), Await>>)

\* The test is_not_linearizable of kv-buggy.rs.
IsNotLinearizable ==
    [replicated |-> FALSE, servers |-> 2,
     script |-> <<Call(1, Write(1)), Await, Call(2, Read), Await>>]

\* The example of consistency_client.rs, and more operations in flight.
OneServer ==
    {[replicated |-> FALSE, servers |-> 1,
      script |-> <<Call(1, p), Call(1, q), Await, Call(1, r), Await, Await>>] :
         p \in {Write(1), Read}, q \in {Write(2), Read}, r \in {Write(3), Read}}

\* Every server coordinates one operation, one after the other or at the same time.
Coordinators == {<<1, 2, 3>>, <<3, 1, 2>>}

OneEach ==
    UNION {{Replicated(<<Call(c[1], Write(1)), Await, Call(c[2], p), Await, Call(c[3], Read), Await>>),
            Replicated(<<Call(c[1], Write(1)), Call(c[2], p), Await, Call(c[3], Read), Await, Await>>)} :
              c \in Coordinators, p \in {Write(2), Read}}

\* One server coordinates two operations, the second of which only reads.
ReadBack ==
    {Replicated(<<Call(2, Write(1)), Await, Call(2, Read), Await, Call(d, Read), Await>>) : d \in {1, 3}}

\* Two of five servers coordinate at the same time, the others never do.
Overlapping ==
    {[replicated |-> TRUE, servers |-> 5, script |-> <<Call(1, Read), Call(2, Read), Await, Await>>]}

LinearizableConfiguration ==
    {IsLinearizable, IsNotLinearizable} \cup OneServer \cup OneEach \cup ReadBack \cup Overlapping

\* One server coordinates two writes.
WriteTwice ==
    {Replicated(<<Call(1, Write(1)), Await, Call(1, Write(2)), Await, Call(2, Read), Await>>)}

\* One server is read, written behind its back, and read again.
ReadTwice ==
    {Replicated(<<Call(2, Read), Await, Call(1, Write(1)), Await, Call(2, Read), Await>>)}

\* Two servers, of which both are a quorum, and one read.
TwoServers == {[replicated |-> TRUE, servers |-> 2, script |-> <<Call(1, Read), Await>>]}

=============================================================================
