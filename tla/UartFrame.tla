------------------------------ MODULE UartFrame -------------------------------
(***************************************************************************)
(* The bytes under the UART session (src/ports/uart/loxboot_uart.c): how   *)
(* frames are coded, how loxboot_uart_run_session finds them in a stream   *)
(* of bytes, what it sends back, and what it makes of noise.               *)
(*                                                                         *)
(* UartSession starts where this module ends.  A frame handled here is a   *)
(* Command there, RejectTooLong and BreakOff are its DropFrame, WindowEnds *)
(* its Timeout or ReceiveError; a frame with a wrong CRC changes nothing.  *)
(*                                                                         *)
(* Abstractions: a byte has Base values; the CRC16 is a smaller register   *)
(* of two bytes with the same form, see Shift; the payload of a response   *)
(* is zeros, and the session chooses its code; what is sent of a response  *)
(* that the transport fails to send is not followed.  Time is left out: a  *)
(* byte that does not come for 5 seconds is one that is not on the line.   *)
(***************************************************************************)
EXTENDS Naturals, SequencesExt

CONSTANTS
  Base,         \* number of values of a byte
  SOF,          \* LOXBOOT_UART_SOF
  MaxPayload,   \* LOXBOOT_UART_MAX_FRAME_PAYLOAD
  RspOK, RspError, RspStatus,   \* LOXBOOT_UART_RSP_*
  HostFrames,   \* the frames the host sends
  NoiseBytes,   \* bound: what noise may turn a byte into
  MaxSent       \* bound: frames sent between two pauses of the host

Byte  == 0 .. Base - 1
Frame == [cmd : Byte, payload : Seq(Byte)]

ASSUME FrameAssumption ==
  /\ Base \in Nat \ {0} /\ Base % 3 # 0
  /\ {SOF, RspOK, RspError, RspStatus} \cup NoiseBytes \subseteq Byte
  /\ MaxPayload \in 4 .. Base * Base - 1
  /\ \A f \in HostFrames : f \in Frame /\ Len(f.payload) < Base * Base
  /\ MaxSent \in Nat

VARIABLES
  line,       \* the bytes on their way to the device
  open,       \* is the session listening?
  buf,        \* _frame_buf[0 .. frame_idx), empty between frames
  tx,         \* what the last step sent: a sequence of responses
  sync,       \* history: since the host last paused, no byte was lost or
              \* inserted and none that announces a frame or its length damaged
  sent,       \* history: frames since then
  expected,   \* history: those of them that arrive undamaged
  handled,    \* history: the frames handed to the commands since then
  answered    \* history: the responses since then

vars    == <<line, open, buf, tx, sync, sent, expected, handled, answered>>
host    == <<sync, sent, expected>>
history == <<host, handled, answered>>

BufferSize == MaxPayload + 8

-----------------------------------------------------------------------------
(* The codec.                                                              *)

\* One step of the register: its high byte and the next one index a table
\* whose entry is combined with the low byte.  As for CRC16-CCITT, the step is
\* invertible in the register and in the byte (here because Base is no multiple
\* of 3), so that no single damaged byte goes unnoticed.
Shift ==
  [crc \in 0 .. Base * Base - 1 |->
     [b \in Byte |->
        LET index == ((crc \div Base) + b) % Base
        IN  ((crc + index) % Base) * Base + ((3 * index) % Base)]]

Crc16(data) ==
  LET crc[i \in 0 .. Len(data)] ==
        IF i = 0 THEN Base * Base - 1 ELSE Shift[crc[i - 1]][data[i]]
  IN  crc[Len(data)]

\* Little-endian, as lengths and CRCs are sent.
TwoBytes(n) == <<n % Base, n \div Base>>
Number(b)   == b[1] + Base * b[2]

FrameBytes(cmd, payload) ==
  LET body == <<cmd>> \o TwoBytes(Len(payload)) \o payload
  IN  <<SOF>> \o body \o TwoBytes(Crc16(body))

\* loxboot_uart_frame_encode into a buffer of so many bytes: <<>> if it fails.
Encode(cmd, payload, room) ==
  IF Len(payload) > MaxPayload \/ room < 6 + Len(payload)
    THEN <<>> ELSE FrameBytes(cmd, payload)

\* The payload length in a header.
Announced(b) == Number(SubSeq(b, 3, 4))

\* loxboot_uart_frame_decode of the first n bytes succeeds.
Decodes(b, n) ==
  /\ n >= 6
  /\ b[1] = SOF
  /\ Announced(b) <= MaxPayload
  /\ n >= 6 + Announced(b)
  /\ Number(SubSeq(b, Announced(b) + 5, Announced(b) + 6))
       = Crc16(SubSeq(b, 2, Announced(b) + 4))

\* What is decoded: nothing, or a frame.
Decode(b, n) ==
  IF Decodes(b, n)
    THEN <<[cmd |-> b[2], payload |-> SubSeq(b, 5, Announced(b) + 4)]>> ELSE <<>>

-----------------------------------------------------------------------------
(* Responses.                                                              *)

Zeros(n) == [i \in 1 .. n |-> 0]

\* A response of n payload bytes is built in the buffer of the frame it
\* answers.  If the room it is given does not do, what was received is sent.
\* Faulty variant: the room is that of the frame.
ReplyInPlace(b, cmd, n, room) ==
  LET response == Encode(cmd, Zeros(n), Len(b))
  IN  IF response = <<>> THEN b ELSE response

Reply(b, cmd, n, room) ==
  LET response == Encode(cmd, Zeros(n), room)
  IN  IF response = <<>> THEN b ELSE response

Overwritten(b, response) == response \o SubSeq(b, Len(response) + 1, Len(b))

Send(responses) ==
  /\ tx' = responses
  /\ answered' = IF sync THEN answered + Len(responses) ELSE 0

-----------------------------------------------------------------------------
(* The receiver.                                                           *)

\* The first n bytes of b are a frame or an error, after these responses.  The
\* session is over after REBOOT, or if the transport fails to send.
Conclude(b, n, responses) ==
  /\ buf' = <<>>
  /\ handled' = IF sync THEN handled \o Decode(b, n) ELSE <<>>
  /\ IF Decode(b, n) = <<>>
       THEN /\ Send(Append(responses, Reply(b, RspError, 1, BufferSize)))
            /\ UNCHANGED open
       ELSE /\ \E r \in {<<RspOK, 0>>, <<RspError, 1>>, <<RspStatus, 4>>} :
                 Send(Append(responses, Reply(b, r[1], r[2], BufferSize)))
            /\ open' \in BOOLEAN

\* The next byte of the line is read.
Next1 == Append(buf, Head(line))
ReadByte ==
  /\ open
  /\ line # <<>>
  /\ line' = Tail(line)
  /\ UNCHANGED host

\* Between frames all bytes but SOF are dropped.
SkipByte ==
  /\ buf = <<>>
  /\ ReadByte
  /\ Head(line) # SOF
  /\ tx' = <<>>
  /\ UNCHANGED <<open, buf, handled, answered>>

StartFrame ==
  /\ buf = <<>>
  /\ ReadByte
  /\ Head(line) = SOF
  /\ buf' = Next1
  /\ tx' = <<>>
  /\ UNCHANGED <<open, handled, answered>>

\* Faulty variants: the bound forgets what is not payload; the frame is
\* expected to be a byte longer than it is.
TooLongUnbounded(b) == Len(b) = 4 /\ Announced(b) > BufferSize
CompleteOffByOne(b) == Len(b) >= 4 /\ Len(b) = Announced(b) + 7

TooLong(b)  == Len(b) = 4 /\ Announced(b) > MaxPayload
Complete(b) == Len(b) >= 4 /\ Len(b) = Announced(b) + 6
Ends(b)     == Complete(b) \/ Len(b) = BufferSize

Collect ==
  /\ buf # <<>>
  /\ ReadByte
  /\ ~TooLong(Next1) /\ ~Ends(Next1)
  /\ buf' = Next1
  /\ tx' = <<>>
  /\ UNCHANGED <<open, handled, answered>>

\* Decoded, or answered with an error.
EndFrame ==
  /\ buf # <<>>
  /\ ReadByte
  /\ ~TooLong(Next1) /\ Ends(Next1)
  /\ Conclude(Next1, Len(Next1), <<>>)

\* The error is sent, but not remembered: the four bytes, now those of the
\* response, are decoded as if they were the frame, and fail.
RejectTooLong ==
  /\ buf # <<>>
  /\ ReadByte
  /\ TooLong(Next1)
  /\ LET response == Reply(Next1, RspError, 1, BufferSize)
     IN  Conclude(Overwritten(Next1, response), Len(Next1), <<response>>)

\* Faulty variant: the receiver goes on waiting for the rest.
BreakOffAndWait ==
  /\ open /\ buf # <<>>
  /\ line # <<>> => ~sync
  /\ Send(<<Reply(buf, RspError, 1, BufferSize)>>)
  /\ UNCHANGED <<line, open, buf, host, handled>>

\* The rest does not come, or the read fails.  The room for the response is
\* given as the number of bytes received, which may be too few.
BreakOff ==
  /\ open /\ buf # <<>>
  /\ line # <<>> => ~sync
  /\ Send(<<Reply(buf, RspError, 1, Len(buf))>>)
  /\ buf' = <<>>
  /\ UNCHANGED <<line, open, host, handled>>

\* The listen window ends, or the transport fails, between frames.
WindowEnds ==
  /\ open /\ buf = <<>>
  /\ open' = FALSE
  /\ tx' = <<>>
  /\ UNCHANGED <<line, buf, history>>

Receive ==
  \/ SkipByte
  \/ StartFrame
  \/ Collect
  \/ EndFrame
  \/ RejectTooLong
  \/ BreakOff

-----------------------------------------------------------------------------
(* The host and the line.                                                  *)

\* What the receiver makes of the bytes does not depend on how far ahead of
\* it they are sent: they are sent when it has read those before.
Put(bytes) ==
  /\ open
  /\ line = <<>>
  /\ sent < MaxSent
  /\ line' = bytes
  /\ UNCHANGED <<open, buf, tx>>

\* These bytes were sent: in sync, one frame more, which arrives if arrives.
InStep(f, arrives) ==
  /\ UNCHANGED <<handled, answered>>
  /\ sent' = sent + 1
  /\ sync' = sync
  /\ expected' = IF arrives THEN Append(expected, f) ELSE expected

\* Nothing is promised until the host pauses.
OutOfStep ==
  /\ sent' = sent + 1
  /\ sync' = FALSE
  /\ expected' = <<>> /\ handled' = <<>> /\ answered' = 0

Legal(f) == Len(f.payload) <= MaxPayload
BytesOf == [f \in HostFrames |-> FrameBytes(f.cmd, f.payload)]

SendFrame(f) ==
  /\ Put(BytesOf[f])
  /\ IF sync /\ Legal(f) THEN InStep(f, TRUE) ELSE OutOfStep

\* Byte i is damaged: SOF and the length decide where the frame ends, the
\* command, the payload and the CRC do not.
Damage(f, i, b) ==
  /\ b # BytesOf[f][i]
  /\ Put([BytesOf[f] EXCEPT ![i] = b])
  /\ IF sync /\ Legal(f) /\ i \notin {1, 3, 4} THEN InStep(f, FALSE) ELSE OutOfStep

\* Byte i is lost, or the host stops after it, or what comes is the rest.
Lose(f, i) ==
  /\ \/ Put(RemoveAt(BytesOf[f], i))
     \/ Put(SubSeq(BytesOf[f], 1, i - 1))
     \/ Put(SubSeq(BytesOf[f], i + 1, Len(BytesOf[f])))
  /\ OutOfStep

\* The host sends nothing until every byte has been read and, if a frame was
\* under way, the receiver has given up on it.
Pause ==
  /\ open /\ buf = <<>> /\ line = <<>>
  /\ sync' = TRUE
  /\ sent' = 0 /\ answered' = 0
  /\ expected' = <<>> /\ handled' = <<>>
  /\ tx' = <<>>
  /\ UNCHANGED <<line, open, buf>>

HostStep ==
  \/ \E f \in HostFrames :
       \/ SendFrame(f)
       \/ \E i \in 1 .. Len(BytesOf[f]) :
            \/ \E b \in NoiseBytes : Damage(f, i, b)
            \/ Lose(f, i)
  \/ Pause

Init ==
  /\ line = <<>> /\ open = TRUE /\ buf = <<>> /\ tx = <<>>
  /\ sync = TRUE /\ sent = 0
  /\ expected = <<>> /\ handled = <<>> /\ answered = 0

Next == Receive \/ WindowEnds \/ HostStep

Spec     == Init /\ [][Next]_vars
FairSpec == Spec /\ WF_vars(Receive)

-----------------------------------------------------------------------------
(* Properties *)

\* A frame under way leaves two bytes of the buffer unused.
TypeOK ==
  /\ line \in Seq(Byte)
  /\ open \in BOOLEAN
  /\ buf \in Seq(Byte) /\ Len(buf) < MaxPayload + 6
  /\ tx \in Seq(Seq(Byte))
  /\ sync \in BOOLEAN
  /\ sent \in 0 .. MaxSent /\ answered \in Nat
  /\ expected \in Seq(Frame) /\ handled \in Seq(Frame)

\* A pause is enough for the receiver to find the next frame, whatever noise,
\* lost bytes, SOF bytes in payloads and broken frames came before.  From then
\* on every frame that arrives undamaged is handled, once and in order, nothing
\* else is, and there is one response for each frame sent; a damaged byte of a
\* command, a payload or a CRC costs that frame and no other.
InSync ==
  sync =>
    /\ IsPrefix(handled, expected)
    /\ answered <= sent
    /\ open /\ line = <<>> /\ buf = <<>> => handled = expected /\ answered = sent

\* What the host receives decodes to a response or to nothing: although a
\* response is built over the bytes that were received, and these are sent
\* back when it does not fit, no command ever is echoed to the host.
NoEcho ==
  \A i \in 1 .. Len(tx) :
    Decodes(tx[i], Len(tx[i])) => tx[i][2] \in {RspOK, RspError, RspStatus}

\* The receiver does not wait in the middle of a frame for ever.
FrameEnds == buf # <<>> ~> buf = <<>>
=============================================================================
