--------------------------------- MODULE Ids ---------------------------------
(***************************************************************************)
(* crates/fibril_core/src/id.rs: actor identifiers as numbers and as       *)
(* socket addresses.  The UDP runtime turns the address that a datagram    *)
(* came from into an identifier, and the identifier that a behavior sends  *)
(* to into an address; a message that contains an identifier is serialized *)
(* with the address in its place.  The verifier counts its actors 0, 1, .. *)
(* An identifier has eight bytes and an address six.                       *)
(*                                                                         *)
(* The state is an actor as its peer sees it: the identifier that the      *)
(* peer's behavior knows, and the address that the peer's socket uses.     *)
(***************************************************************************)
EXTENDS Integers

CONSTANT Radix  \* the number of values of a byte, 256 in the code

ASSUME RadixAssumption == Radix \in Nat \ {0}

Byte == 0 .. Radix - 1

\* The numbers of six bytes, and of eight: usize on the 64-bit targets that
\* the conversions compile for.
SixBytes == 0 .. Radix * Radix * Radix * Radix * Radix * Radix - 1
Usize == 0 .. Radix * Radix * Radix * Radix * Radix * Radix * Radix * Radix - 1

\* SocketAddrV4: the octets of the IP address, and the port.
SocketAddrV4 == [octets : [1 .. 4 -> Byte], port : 0 .. Radix * Radix - 1]

VARIABLES identifier, address

-----------------------------------------------------------------------------

\* Mutant: the first byte is the least significant one.
PairMutant(high, low) == low * Radix + high

\* A number in big-endian order from the number before its last byte.
Pair(high, low) == high * Radix + low

\* What remains of a number without its last byte, and that byte.
Rest(n) == n \div Radix
LastByte(n) == n % Radix

\* u16::to_be_bytes and u16::from_be_bytes.
PortBytes(port) == <<Rest(port), LastByte(port)>>
PortOf(bytes) == Pair(bytes[1], bytes[2])

\* usize::from_be_bytes.
FromBeBytes(b) ==
    Pair(Pair(Pair(Pair(Pair(Pair(Pair(b[1], b[2]), b[3]), b[4]), b[5]), b[6]), b[7]), b[8])

\* usize::to_be_bytes.
ToBeBytes(n) ==
    LET n1 == Rest(n)   n2 == Rest(n1)  n3 == Rest(n2)  n4 == Rest(n3)
        n5 == Rest(n4)  n6 == Rest(n5)  n7 == Rest(n6)
    IN  <<LastByte(n7), LastByte(n6), LastByte(n5), LastByte(n4),
          LastByte(n3), LastByte(n2), LastByte(n1), LastByte(n)>>

\* impl From<SocketAddrV4> for Id
IdFrom(addr) ==
    LET octets == addr.octets
        port   == PortBytes(addr.port)
    IN  FromBeBytes(<<0, 0, octets[1], octets[2], octets[3], octets[4], port[1], port[2]>>)

\* Mutant: the two bytes at the end are dropped instead.
AddrFromMutant(id) ==
    LET bytes == ToBeBytes(id)
    IN  [octets |-> <<bytes[1], bytes[2], bytes[3], bytes[4]>>,
         port   |-> PortOf(<<bytes[5], bytes[6]>>)]

\* impl From<Id> for SocketAddrV4, which drops the two leading bytes.
AddrFrom(id) ==
    LET bytes == ToBeBytes(id)
    IN  [octets |-> <<bytes[3], bytes[4], bytes[5], bytes[6]>>,
         port   |-> PortOf(<<bytes[7], bytes[8]>>)]

-----------------------------------------------------------------------------

\* Spawned: the identifier is that of the address the socket is bound to.
IdInit ==
    /\ address \in SocketAddrV4
    /\ identifier = IdFrom(address)

\* A datagram comes from addr; the behavior learns the identifier of its source.
ReceiveFrom(addr) ==
    /\ address' = addr
    /\ identifier' = IdFrom(addr)

\* The behavior sends to dst, any number; or dst is serialized within a message.
SendTo(dst) ==
    /\ identifier' = dst
    /\ address' = AddrFrom(dst)

IdNext ==
    \/ \E addr \in SocketAddrV4 : ReceiveFrom(addr)
    \/ \E dst \in Usize : SendTo(dst)

IdSpec == IdInit /\ [][IdNext]_<<identifier, address>>

-----------------------------------------------------------------------------

(***************************************************************************)
(* An answer goes to where the request came from: the address made from    *)
(* the identifier that a behavior has been given is the one it stands for. *)
(* In particular no two peers share an identifier (udp.rs:192, :208).      *)
(***************************************************************************)
AnswersReachThePeer == AddrFrom(identifier) = address

(***************************************************************************)
(* Whoever makes an identifier from the address again, as the receiver of  *)
(* a message that contains it does, has the same one if and only if it     *)
(* fits into an address; every number that does not fit is taken for       *)
(* another, silently (id.rs:77 to :130).                                   *)
(***************************************************************************)
TransferKeepsWhatFits == IdFrom(address) = identifier <=> identifier \in SixBytes

=============================================================================
