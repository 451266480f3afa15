----------------------------- MODULE MCUartFrame ------------------------------
(* An instance of UartFrame for TLC: the host's frames have SOF bytes and a   *)
(* whole frame in their payloads, and one is too long.                        *)
EXTENDS UartFrame

Hello  == [cmd |-> 1, payload |-> <<>>]
Write  == [cmd |-> 2, payload |-> <<0, SOF>>]
Nested == [cmd |-> 2, payload |-> FrameBytes(1, <<>>)]
Long   == [cmd |-> 2, payload |-> <<0>> \o FrameBytes(1, <<>>)]

FewFrames == {Hello, Write, Nested, Long}
Noise     == {0, SOF}
=============================================================================
