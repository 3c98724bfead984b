------------------------------ MODULE Protocol ------------------------------
(***************************************************************************)
(* impl/protocol.hpp with the checks of impl/peer.hpp on both ends of a    *)
(* connection: what lengths a frame has and which ones are let through.    *)
(*                                                                         *)
(* A frame is its type, the length its header says (32 bits) and the       *)
(* number of bytes it really has.  The limits are sums of a size_t, which  *)
(* wrap.  The bytes themselves are left out.                               *)
(***************************************************************************)
EXTENDS Naturals

CONSTANTS LengthLimit,      \* 2^32: a header holds less
          SizeLimit,        \* 2^64 or 2^32: a size_t holds less
          MaxMessageSize    \* common_parameters.max_message_size, any size_t

header_size == 4
type_size == 1
request_id_size == 8

ASSUME WidthsAssumption ==
    /\ LengthLimit \in Nat /\ SizeLimit \in Nat
    /\ header_size + type_size + request_id_size < LengthLimit
    /\ LengthLimit <= SizeLimit
    /\ MaxMessageSize \in 0..(SizeLimit - 1)

\* message_type
MessageTypes == {"heartbeat", "user_data", "health_check", "health_check_response",
                 "request", "response"}
WithId == {"request", "response"}

\* What a body holds besides the data.
Overhead(type) == type_size + (IF type \in WithId THEN request_id_size ELSE 0)

\* The sizes a vector can have in memory next to its frame.
DataSizes == {n \in Nat : header_size + type_size + request_id_size + n < SizeLimit}

Frames == [type : MessageTypes, length : Nat, size : Nat]

\* make_frame and make_request_response_frame, for `n' bytes of data.
MakeFrame(type, n) ==
    [type |-> type,
     length |-> (Overhead(type) + n) % LengthLimit,
     size |-> header_size + Overhead(type) + n]

\* The longest body of a type.
Longest(overhead) == (MaxMessageSize + overhead) % SizeLimit

\* Faulty: the size of the frame is not compared with its length.
ValidOutgoingByLength(frame) ==
    /\ frame.length >= Overhead(frame.type)
    /\ frame.length <= Longest(Overhead(frame.type))

\* valid_outgoing_frame()
ValidOutgoing(frame) ==
    /\ frame.size >= header_size + type_size
    /\ frame.size = (header_size + frame.length) % SizeLimit
    /\ frame.length >= Overhead(frame.type)
    /\ frame.length <= Longest(Overhead(frame.type))

\* What the completion of read_header() lets through ...
AcceptsLength(frame) ==
    frame.length >= type_size /\ frame.length <= Longest(type_size + request_id_size)

\* ... and that of read_body(), which looks at the types that carry data.
AcceptsBody(frame) ==
    frame.type \in WithId \cup {"user_data"} =>
        /\ frame.length >= Overhead(frame.type)
        /\ frame.length <= Longest(Overhead(frame.type))

\* The limits do not wrap.
LimitsFit == MaxMessageSize + type_size + request_id_size < SizeLimit

=============================================================================
