----------------------------- MODULE UartSession ------------------------------
(***************************************************************************)
(* loxboot_uart_run_session (src/ports/uart/loxboot_uart.c): a host sends  *)
(* frames, the session writes an image into the slot that is not active    *)
(* and commits it through the API.                                         *)
(*                                                                         *)
(* The host is the environment: it may send any frame at any time.  A      *)
(* frame that fails its CRC only gets a response and changes nothing; it   *)
(* is left out, and so are the bytes of frames and responses.  Time is     *)
(* left out: the listen window may end whenever the session waits for a    *)
(* frame, and a frame may break off at any byte.                           *)
(***************************************************************************)
EXTENDS BootApi

SessionLabel ==
  {"uartRead", "listen", "erase", "program", "inquired", "committed", "verified",
   "refused", "aborted", "reply", "uartEnd"}

-----------------------------------------------------------------------------
\* A response to the host, s being the session after the command.
Answer(s, r) ==
  /\ sess' = [s EXCEPT !.reply = r]
  /\ Goto("reply")

\* The session calls the API for its target slot and goes on at label l.
Ask(name, fw, s, l) ==
  Begin([name |-> name, slot |-> sess.target, fw |-> fw], [s EXCEPT !.back = l])

\* Faulty variant: the slot keeps the record it has.
RefuseUnrecorded(s) == Answer(s, "ERROR") /\ UNCHANGED <<call, ret>>

\* Every refusal after the first byte of the slot may have changed.
Refuse(s) == Ask("invalidate", NoFirmware, s, "refused")

EndSession(s, e) ==
  /\ sess' = [s EXCEPT !.err = e]
  /\ Goto("uartEnd")

\* Faulty variant: the target is taken from the context, not from flash.
SessionStartFromContext ==
  /\ At("uartRead")
  /\ IF res = "OK"
       THEN /\ sess' = [NoSession EXCEPT !.target = Other(ctx.active), !.back = "listen"]
            /\ Goto("listen")
       ELSE EndSession(NoSession, res)
  /\ UNCHANGED <<ctx, image, call, ret, history>>

\* The boot state was read: the target is the slot that is not active in it.
SessionStart ==
  /\ At("uartRead")
  /\ IF res = "OK"
       THEN /\ sess' = [NoSession EXCEPT !.target = Other(buf.active), !.back = "listen"]
            /\ Goto("listen")
       ELSE EndSession(NoSession, res)
  /\ UNCHANGED <<ctx, image, call, ret, history>>

\* Faulty variant: the window only limits the wait for HELLO.
TimeoutBeforeHello ==
  /\ At("listen")
  /\ ~sess.active
  /\ EndSession(sess, "OK")
  /\ UNCHANGED <<ctx, image, call, ret, history>>

\* The listen window ends, HELLO or not.
Timeout ==
  /\ At("listen")
  /\ EndSession(sess, "OK")
  /\ UNCHANGED <<ctx, image, call, ret, history>>

\* The transport fails while the session waits for a frame.
ReceiveError ==
  /\ FlashMayFail
  /\ At("listen")
  /\ EndSession(sess, "TRANSPORT")
  /\ trouble' = TRUE
  /\ UNCHANGED <<ctx, image, call, ret, boots, refused>>

\* A frame breaks off, or announces too long a payload: the target slot is
\* invalidated, and errors of the response are ignored.
DropFrame ==
  /\ At("listen")
  /\ Ask("invalidate", NoFirmware, sess, "listen")
  /\ UNCHANGED <<ctx, image, history>>

-----------------------------------------------------------------------------
(* The commands.                                                           *)

\* A frame was received.
Received(f) == [sess EXCEPT !.frame = f]

\* WRITE, COMMIT and REBOOT need a HELLO first.
NeedsHello == {"write", "commit", "reboot"}
RefuseFrame(f) ==
  /\ At("listen")
  /\ f.cmd = "refused" \/ (f.cmd \in NeedsHello /\ ~sess.active)
  /\ Answer(Received(f), "ERROR")
  /\ UNCHANGED <<ctx, image, call, ret, history>>

\* HELLO and STATUS read the boot state; HELLO answers whatever the result is.
Inquire(f) ==
  /\ At("listen")
  /\ f.cmd \in {"hello", "status"}
  /\ sess' = [Received(f) EXCEPT !.active = @ \/ f.cmd = "hello"]
  /\ Read("inquired")
  /\ UNCHANGED <<ctx, image, call, ret, history>>

Inquired ==
  /\ At("inquired")
  /\ Answer(sess, IF sess.frame.cmd = "hello" \/ res = "OK" THEN "STATUS" ELSE "ERROR")
  /\ UNCHANGED <<ctx, image, call, ret, history>>

\* WRITE: the first one of the session erases the slot.
WriteFrame(f) ==
  /\ At("listen")
  /\ f.cmd = "write" /\ sess.active
  /\ sess' = Received(f)
  /\ Goto(IF sess.erased THEN "program" ELSE "erase")
  /\ UNCHANGED <<ctx, image, call, ret, history>>

\* The image in a slot with these chunks.
Contents(draft) ==
  LET complete == {f \in Firmware : \A i \in 1 .. Size[f] : draft[i] = f}
  IN  IF complete = {} THEN Junk ELSE CHOOSE f \in complete : TRUE

SetTarget(contents) == image' = [image EXCEPT ![sess.target] = contents]

EraseSlot ==
  /\ At("erase")
  /\ sess' = [sess EXCEPT !.erased = TRUE, !.draft = Erased]
  /\ SetTarget(Junk)
  /\ Goto("program")
  /\ UNCHANGED <<ctx, call, ret, history>>

EraseFails ==
  /\ FlashMayFail
  /\ At("erase")
  /\ \E c \in {image[sess.target], Junk} : SetTarget(c)
  /\ Refuse(sess)
  /\ trouble' = TRUE
  /\ UNCHANGED <<ctx, boots, refused>>

\* Flash is written without being erased again: a chunk that is written twice
\* with different data holds neither.
Programmed(draft, f) ==
  IF f.fw = NoFirmware
    THEN draft
    ELSE [draft EXCEPT ![f.end] = IF @ \in {NoFirmware, f.fw} THEN f.fw ELSE Junk]

Torn(draft, f) == IF f.fw = NoFirmware THEN draft ELSE [draft EXCEPT ![f.end] = Junk]

\* _bytes_written becomes the end of this chunk, whatever was written before.
ProgramChunk ==
  /\ At("program")
  /\ LET draft == Programmed(sess.draft, sess.frame)
     IN  /\ SetTarget(Contents(draft))
         /\ Answer([sess EXCEPT !.draft = draft, !.written = sess.frame.end], "OK")
  /\ UNCHANGED <<ctx, call, ret, history>>

\* The adapters for STM32 and ESP32 refuse a write of no bytes.
ProgramFails ==
  /\ At("program")
  /\ FlashMayFail \/ sess.frame.fw = NoFirmware
  /\ \E draft \in {sess.draft, Torn(sess.draft, sess.frame), Programmed(sess.draft, sess.frame)} :
       /\ SetTarget(Contents(draft))
       /\ Refuse([sess EXCEPT !.draft = draft])
  /\ trouble' = (trouble \/ sess.frame.fw # NoFirmware)
  /\ UNCHANGED <<ctx, boots, refused>>

\* COMMIT: of as many bytes as the last WRITE ended at.
SizeOf(fw) == IF fw = NoFirmware THEN 0 ELSE Size[fw]

CommitFrame(f) ==
  /\ At("listen")
  /\ f.cmd = "commit" /\ sess.active
  /\ IF SizeOf(f.fw) = sess.written
       THEN Ask("commit", f.fw, Received(f), "committed")
       ELSE Refuse(Received(f))
  /\ UNCHANGED <<ctx, image, history>>

\* Faulty variant: the image is not verified before the commit is accepted.
CommittedUnverified ==
  /\ At("committed")
  /\ IF ret = "OK"
       THEN Answer([sess EXCEPT !.committed = TRUE], "OK") /\ UNCHANGED <<call, ret>>
       ELSE Refuse(sess)
  /\ UNCHANGED <<ctx, image, history>>

Committed ==
  /\ At("committed")
  /\ IF ret = "OK" THEN Ask("verify", NoFirmware, sess, "verified") ELSE Refuse(sess)
  /\ UNCHANGED <<ctx, image, history>>

Verified ==
  /\ At("verified")
  /\ IF ret = "OK"
       THEN Answer([sess EXCEPT !.committed = TRUE], "OK") /\ UNCHANGED <<call, ret>>
       ELSE Refuse(sess)
  /\ UNCHANGED <<ctx, image, history>>

\* The result of an invalidation is ignored.
Refused ==
  /\ At("refused")
  /\ Answer(sess, "ERROR")
  /\ UNCHANGED <<ctx, image, call, ret, history>>

\* ABORT: a commit of this session is not forgotten.
AbortFrame(f) ==
  /\ At("listen")
  /\ f.cmd = "abort"
  /\ Ask("invalidate", NoFirmware, Received(f), "aborted")
  /\ UNCHANGED <<ctx, image, history>>

Aborted ==
  /\ At("aborted")
  /\ Answer([sess EXCEPT !.active = FALSE], "OK")
  /\ UNCHANGED <<ctx, image, call, ret, history>>

\* REBOOT: errors of the response are ignored, the session is over.
RebootFrame(f) ==
  /\ At("listen")
  /\ f.cmd = "reboot" /\ sess.active
  /\ EndSession([Received(f) EXCEPT !.reboot = TRUE], "OK")
  /\ UNCHANGED <<ctx, image, call, ret, history>>

\* The response is sent, or the transport fails and the session with it.
Sent ==
  /\ At("reply")
  /\ sess' = [sess EXCEPT !.reply = "none", !.frame = NoFrame]
  /\ ret' = "none"
  /\ Goto("listen")
  /\ UNCHANGED <<ctx, image, call, history>>

SendError ==
  /\ FlashMayFail
  /\ At("reply")
  /\ EndSession(sess, "TRANSPORT")
  /\ trouble' = TRUE
  /\ UNCHANGED <<ctx, image, call, ret, boots, refused>>

-----------------------------------------------------------------------------
Command(f) ==
  \/ RefuseFrame(f)
  \/ Inquire(f)
  \/ WriteFrame(f)
  \/ CommitFrame(f)
  \/ AbortFrame(f)
  \/ RebootFrame(f)

\* What the session does without the host.
SessionStep ==
  \/ SessionStart
  \/ EraseSlot
  \/ EraseFails
  \/ ProgramChunk
  \/ ProgramFails
  \/ Inquired
  \/ Committed
  \/ Verified
  \/ Refused
  \/ Aborted
  \/ Sent

\* What the host and the line do.
HostStep ==
  \/ \E f \in Frames : Command(f)
  \/ DropFrame
  \/ ReceiveError
  \/ SendError
-----------------------------------------------------------------------------
(* Properties *)

InSession == pc \in SessionLabel \ {"uartRead", "uartEnd"} /\ phase = "idle"

\* A COMMIT that is answered with OK is true: whatever was written, skipped,
\* written twice, refused or aborted before, the slot holds the whole firmware
\* the host named, and both copies of the boot state have it PENDING.
AcknowledgedCommit ==
  pc = "reply" /\ sess.frame.cmd = "commit" /\ sess.reply = "OK" =>
    /\ primary = backup /\ primary \in Good
    /\ primary.slots[sess.target] =
         [state |-> "PENDING", attempts |-> 0, fw |-> sess.frame.fw]
    /\ image[sess.target] = sess.frame.fw

\* When the host learns that its COMMIT or the session was called off, the slot
\* is INVALID in both copies of the boot state: neither an earlier COMMIT nor an
\* older firmware of that slot comes back, after any single fault.  The result
\* of the invalidation is ignored; without flash errors it never fails.
CalledOff ==
  \/ sess.frame.cmd = "abort"
  \/ sess.frame.cmd = "commit" /\ sess.active /\ sess.reply = "ERROR"
RefusalsHold ==
  pc = "reply" /\ CalledOff =>
    /\ ret = "OK" => /\ primary = backup /\ primary \in Good
                     /\ primary.slots[sess.target].state = "INVALID"
    /\ ret # "OK" => trouble

\* The target, chosen once from the boot state, never becomes the slot that
\* flash calls active while the session lasts, although its calls read,
\* restore and rewrite that state: the session never erases or invalidates the
\* firmware that boots.
SessionSparesActive ==
  InSession /\ Store!Readable # Corrupt => Store!Readable.active # sess.target

-----------------------------------------------------------------------------
(* What the documentation says and the code does not do *)

\* docs/PROTOCOL_UART.md:166, "Frame too short": "Ignore and wait for next
\* frame": while no whole frame is handled, the session changes nothing.
ShortFrameStep == sess.back # "app" /\ sess.frame = NoFrame => Store!Readable' = Store!Readable
ShortFrameIgnored == [][ShortFrameStep]_<<storeVars, pc, sess>>
=============================================================================
