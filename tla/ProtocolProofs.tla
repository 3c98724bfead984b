---------------------------- MODULE ProtocolProofs ----------------------------
(***************************************************************************)
(* What Protocol.tla's checks achieve, for every width and every           *)
(* max_message_size.                                                       *)
(***************************************************************************)
EXTENDS Protocol, TLAPS

\* A remainder is no larger than what it is the remainder of.
LEMMA Remainder ==
    ASSUME NEW a \in Nat, NEW b \in Nat, b > 0
    PROVE  a % b \in Nat /\ a % b < b /\ a % b <= a /\ (a < b => a % b = a)
BY Z3

LEMMA FrameType ==
    ASSUME NEW type \in MessageTypes, NEW n \in Nat
    PROVE  /\ MakeFrame(type, n) \in Frames
           /\ Overhead(type) \in {1, 9}
           /\ MakeFrame(type, n).length <= Overhead(type) + n
<1>1. Overhead(type) \in {1, 9}
  BY DEF Overhead, type_size, request_id_size
<1>2. Overhead(type) + n \in Nat /\ LengthLimit \in Nat /\ LengthLimit > 0
  BY <1>1, WidthsAssumption DEF header_size, type_size, request_id_size
<1>3. QED
  BY <1>1, <1>2, Remainder DEF MakeFrame, Frames, header_size

\* valid_outgoing_frame() refuses every frame whose length make_frame() cut to 32
\* bits, whatever the width of a size_t.
THEOREM NothingTruncated ==
    ASSUME NEW type \in MessageTypes, NEW n \in DataSizes, ValidOutgoing(MakeFrame(type, n))
    PROVE  /\ MakeFrame(type, n).length = Overhead(type) + n
           /\ MakeFrame(type, n).size = header_size + MakeFrame(type, n).length
<1> DEFINE frame == MakeFrame(type, n)
<1>1. n \in Nat
  BY DEF DataSizes
<1>2. frame.length \in Nat /\ frame.length <= Overhead(type) + n /\ Overhead(type) \in {1, 9}
  BY <1>1, FrameType DEF Frames
<1>3. (4 + frame.length) % SizeLimit <= 4 + frame.length
  <2>1. SizeLimit \in Nat /\ SizeLimit > 0 /\ 4 + frame.length \in Nat
    BY <1>2, WidthsAssumption DEF header_size, type_size, request_id_size
  <2>2. QED
    BY <2>1, Remainder
<1>4. frame.size = 4 + Overhead(type) + n /\ frame.size = (4 + frame.length) % SizeLimit
  BY DEF MakeFrame, ValidOutgoing, header_size
<1> HIDE DEF frame
<1>5. frame.length = Overhead(type) + n /\ frame.size = 4 + frame.length
  BY <1>1, <1>2, <1>3, <1>4
<1>6. QED
  BY <1>5 DEF frame, header_size

LEMMA Limits ==
    /\ Longest(1) \in Nat /\ Longest(9) \in Nat
    /\ MaxMessageSize \in Nat /\ SizeLimit \in Nat /\ MaxMessageSize < SizeLimit
    /\ LimitsFit => Longest(1) = MaxMessageSize + 1 /\ Longest(9) = MaxMessageSize + 9
<1>1. /\ SizeLimit \in Nat /\ SizeLimit > 13 /\ MaxMessageSize \in Nat
      /\ MaxMessageSize < SizeLimit
  BY WidthsAssumption DEF header_size, type_size, request_id_size
<1>2. Longest(1) \in Nat /\ (MaxMessageSize + 1 < SizeLimit => Longest(1) = MaxMessageSize + 1)
  BY <1>1, Remainder DEF Longest
<1>3. Longest(9) \in Nat /\ (MaxMessageSize + 9 < SizeLimit => Longest(9) = MaxMessageSize + 9)
  BY <1>1, Remainder DEF Longest
<1>4. LimitsFit => MaxMessageSize + 9 < SizeLimit
  BY <1>1 DEF LimitsFit, type_size, request_id_size
<1>5. QED
  BY <1>1, <1>2, <1>3, <1>4

\* What push_frame() lets out, the other end lets in, if it has the same limit and
\* the sums do not wrap.
THEOREM SentIsAccepted ==
    ASSUME NEW frame \in Frames, ValidOutgoing(frame), LimitsFit
    PROVE  AcceptsLength(frame) /\ AcceptsBody(frame)
<1>1. Overhead(frame.type) \in {1, 9}
  BY DEF Overhead, type_size, request_id_size
<1>2. /\ frame.length \in Nat /\ frame.length >= Overhead(frame.type)
      /\ frame.length <= Longest(Overhead(frame.type))
  BY DEF Frames, ValidOutgoing
<1>3. AcceptsBody(frame)
  BY <1>2 DEF AcceptsBody
<1>4. CASE Overhead(frame.type) = 1
  BY <1>2, <1>3, <1>4, Limits DEF AcceptsLength, type_size, request_id_size
<1>5. CASE Overhead(frame.type) = 9
  BY <1>2, <1>3, <1>5, Limits DEF AcceptsLength, type_size, request_id_size
<1>6. QED
  BY <1>1, <1>4, <1>5

\* A message of at most max_message_size bytes is sent, if the limit leaves room in
\* the header.
THEOREM AllowedIsSent ==
    ASSUME NEW type \in MessageTypes, NEW n \in Nat, n <= MaxMessageSize,
           MaxMessageSize + header_size + type_size + request_id_size < LengthLimit
    PROVE  ValidOutgoing(MakeFrame(type, n))
<1> DEFINE body == Overhead(type) + n
<1>1. Overhead(type) \in {1, 9} /\ body \in Nat
  BY FrameType
<1>2. /\ LengthLimit \in Nat /\ SizeLimit \in Nat /\ LengthLimit > 0 /\ SizeLimit > 0
      /\ MaxMessageSize \in Nat /\ LengthLimit <= SizeLimit
      /\ MaxMessageSize + 13 < LengthLimit
  BY WidthsAssumption DEF header_size, type_size, request_id_size
<1>3. LimitsFit
  BY <1>2 DEF LimitsFit, type_size, request_id_size
<1>4. body < LengthLimit /\ 4 + body < SizeLimit
  BY <1>1, <1>2
<1>5. body % LengthLimit = body /\ (4 + body) % SizeLimit = 4 + body
  <2>1. 4 + body \in Nat
    BY <1>1
  <2>2. QED
    BY <2>1, <1>1, <1>2, <1>4, Remainder
<1>6. body <= Longest(Overhead(type))
  BY <1>1, <1>2, <1>3, Limits
<1>7. /\ MakeFrame(type, n).type = type /\ MakeFrame(type, n).length = body
      /\ MakeFrame(type, n).size = 4 + body
  BY <1>5, <1>1 DEF MakeFrame, header_size
<1>8. QED
  BY <1>1, <1>5, <1>6, <1>7 DEF ValidOutgoing, header_size, type_size

\* For a max_message_size within 8 of the largest size_t the limit of requests and
\* responses wraps: none can be sent, and none of a peer's is let in.
THEOREM WrappedLimitRefuses ==
    ASSUME NEW frame \in Frames, frame.type \in WithId, ~LimitsFit
    PROVE  ~ValidOutgoing(frame) /\ ~AcceptsBody(frame)
<1>1. /\ SizeLimit \in Nat /\ SizeLimit > 13 /\ MaxMessageSize \in Nat
      /\ MaxMessageSize < SizeLimit /\ MaxMessageSize + 9 >= SizeLimit
  BY WidthsAssumption DEF header_size, type_size, request_id_size, LimitsFit
<1>2. Longest(9) = MaxMessageSize + 9 - SizeLimit
  BY <1>1, Z3 DEF Longest
<1>3. Overhead(frame.type) = 9
  BY DEF Overhead, type_size, request_id_size
<1>4. frame.length \in Nat
  BY DEF Frames
<1>5. ~(frame.length >= 9 /\ frame.length <= Longest(9))
  BY <1>1, <1>2, <1>4
<1>6. QED
  BY <1>3, <1>5 DEF ValidOutgoing, AcceptsBody

=============================================================================
