------------------------------- MODULE Voice -------------------------------
(***************************************************************************)
(* voa/voa.c, the program for calls, with the stream cipher of             *)
(* lib/stream.c.  One user calls, several times if need be, and another    *)
(* runs the program that listens.  The caller asks for a stream up to      *)
(* MaxTries times and sends when it is accepted, or at once if it was      *)
(* started with -n.  Frames are decrypted with the keystream that starts   *)
(* at a byte counter of which a packet holds the low bytes only.           *)
(*                                                                         *)
(* A key, a secret and a stream id are drawn together for each call, so    *)
(* they are the number of the call here, and so is the caller's random     *)
(* address.  The contents of frames, gstreamer and the verification and    *)
(* decryption of the requests (all are from the contact) are left out.     *)
(***************************************************************************)
EXTENDS Integers, FiniteSets

CONSTANTS
  Block,      \* WP_AES_BLOCK_SIZE, 16
  Wrap,       \* 256 ^ counter_size, 65536
  FrameSizes,      \* sizes of audio frames
  EndSize,    \* size of the packet that ends a stream
  MaxTries,   \* 10
  MaxCalls,   \* bound on the calls
  MaxRuns,    \* bound on the runs of the listening program
  MaxFrames,  \* bound on the packets of a stream
  MaxAir      \* bound on the packets under way at a time

ASSUME VoiceAssumption ==
  /\ {Block, Wrap, EndSize, MaxTries, MaxCalls, MaxRuns, MaxFrames,
      MaxAir} \subseteq Nat \ {0}
  /\ FrameSizes \subseteq Nat \ {0} /\ FrameSizes # {} /\ Block > 1 /\ Wrap % Block = 0

VARIABLES
  caller,   \* [call, phase, tries, pos, sent]: the process that calls
  callee,   \* [run, on, stream, pos, at, end, used]: the process that listens
  air,      \* packets under way
  taken     \* calls that some run accepted (ghost)
voice == <<caller, callee, air, taken>>

\* A position in the keystream is counter * Block + block_offset.  The last
\* byte of each block is not used.
Start == Block
Used(p) == IF (p + 1) % Block = 0 THEN p + 1 ELSE p
Advance(p, size) ==
  LET after[n \in 0 .. size] == IF n = 0 THEN p ELSE Used(after[n - 1]) + 1
  IN after[size]

\* The position that a receiver which is at p takes for the low part it got.
Rebuilt(p, low) == (p \div Wrap) * Wrap + low

Syn(call, try) == [kind |-> "syn", call |-> call, n |-> try]
Ack(call, run) == [kind |-> "ack", call |-> call, n |-> run]
Frame(kind, size) ==
  [kind |-> kind, call |-> caller.call, n |-> caller.sent + 1,
   low |-> caller.pos % Wrap, size |-> size,
   at |-> caller.pos, end |-> Advance(caller.pos, size)]   \* ghosts

\* The ghosts at, end and used are where the last frame that was heard began
\* and ended in the caller's keystream, and where the callee took it to begin.
NewRun(run, on) ==
  [run |-> run, on |-> on, stream |-> 0, pos |-> Start, at |-> Start,
   end |-> Start, used |-> Start]

VoiceInit ==
  /\ caller = [call |-> 0, phase |-> "over", tries |-> 0, pos |-> Start, sent |-> 0]
  /\ callee = NewRun(0, FALSE)
  /\ air = {}
  /\ taken = {}

-----------------------------------------------------------------------------
(* The caller.                                                             *)

Send(m) ==
  /\ Cardinality(air) < MaxAir
  /\ air' = air \cup {m}

\* main with -s: an earlier call has ended, a stream id is drawn.  A call with
\* -n sends its request and streams, all others wait for an answer.
Call(nowait) ==
  /\ caller.phase = "over" /\ caller.call < MaxCalls
  /\ caller' = [call |-> caller.call + 1, tries |-> 1, pos |-> Start, sent |-> 0,
                phase |-> IF nowait THEN "unasked" ELSE "asking"]
  /\ Send(Syn(caller.call + 1, 1))
  /\ UNCHANGED <<callee, taken>>

\* voa_receive has waited two seconds: the request is sent once more, with the
\* same key, unless it was sent often enough.
NoAnswer ==
  /\ caller.phase = "asking"
  /\ IF caller.tries < MaxTries
     THEN /\ caller' = [caller EXCEPT !.tries = @ + 1]
          /\ Send(Syn(caller.call, caller.tries + 1))
     ELSE /\ caller' = [caller EXCEPT !.phase = "over"]
          /\ UNCHANGED air
  /\ UNCHANGED <<callee, taken>>

\* handle_packet and check_voa_reply: the answer is to this process, and to the
\* stream that it asked for.
Answers(m) == m.kind = "ack" /\ m.call = caller.call

ReceiveAck(m) ==
  /\ caller.phase = "asking" /\ Answers(m)
  /\ caller' = [caller EXCEPT !.phase = "accepted"]
  /\ air' = air \ {m}
  /\ UNCHANGED <<callee, taken>>

Streaming == caller.phase \in {"accepted", "unasked"}

\* enc_main_loop, for an audio frame and for the end of the stream.
SendFrame(size) ==
  /\ Streaming /\ caller.sent < MaxFrames - 1
  /\ Send(Frame("audio", size))
  /\ caller' = [caller EXCEPT !.pos = Advance(@, size), !.sent = @ + 1]
  /\ UNCHANGED <<callee, taken>>

SendEnd ==
  /\ Streaming
  /\ Send(Frame("end", EndSize))
  /\ caller' = [caller EXCEPT !.pos = Advance(@, EndSize), !.sent = @ + 1,
                              !.phase = "over"]
  /\ UNCHANGED <<callee, taken>>

-----------------------------------------------------------------------------
(* The callee.                                                             *)

\* The user starts the program that listens, and may stop it at any time.
Listen ==
  /\ ~callee.on /\ callee.run < MaxRuns
  /\ callee' = NewRun(callee.run + 1, TRUE)
  /\ UNCHANGED <<caller, air, taken>>

Quit ==
  /\ callee.on
  /\ callee' = NewRun(callee.run, FALSE)
  /\ UNCHANGED <<caller, air, taken>>

\* handle_packet before a stream is set: accept_stream, send_accept_response.
\* Once it is set, a request has no stream id in its header and is discarded.
ReceiveSyn(m) ==
  /\ callee.on /\ callee.stream = 0 /\ m.kind = "syn"
  /\ callee' = [NewRun(callee.run, TRUE) EXCEPT !.stream = m.call]
  /\ air' = (air \ {m}) \cup {Ack(m.call, callee.run)}
  /\ taken' = taken \cup {m.call}
  /\ UNCHANGED caller

\* (A mutant: the receiver's own position is not kept.)
MutDecrypted(m) == [callee EXCEPT !.used = Rebuilt(callee.pos, m.low),
                                  !.at = m.at, !.end = m.end]

\* allnet_stream_decrypt_buffer with the positions it takes and goes on to.
Decrypted(m) ==
  LET from == Rebuilt(callee.pos, m.low)
  IN [callee EXCEPT !.pos = Advance(from, m.size), !.used = from,
                    !.at = m.at, !.end = m.end]

\* Only the end of a stream that was decrypted well ends the program: else it
\* is one more piece of noise.
ReceiveFrame(m) ==
  /\ callee.on /\ callee.stream # 0
  /\ m.kind \in {"audio", "end"} /\ m.call = callee.stream
  /\ LET heard == Decrypted(m)
     IN callee' = [heard EXCEPT !.on = ~(m.kind = "end" /\ heard.used = heard.at)]
  /\ air' = air \ {m}
  /\ UNCHANGED <<caller, taken>>

-----------------------------------------------------------------------------
\* A packet is lost, or reaches a process that discards it.
Drop(m) ==
  /\ air' = air \ {m}
  /\ UNCHANGED <<caller, callee, taken>>

VoiceNext ==
  \/ \E nowait \in BOOLEAN : Call(nowait)
  \/ NoAnswer
  \/ \E size \in FrameSizes : SendFrame(size)
  \/ SendEnd
  \/ Listen
  \/ Quit
  \/ \E m \in air : ReceiveAck(m) \/ ReceiveSyn(m) \/ ReceiveFrame(m) \/ Drop(m)

VoiceSpec == VoiceInit /\ [][VoiceNext]_voice

-----------------------------------------------------------------------------
(* What a listener may rely on.                                            *)

Right(c) == c.used = c.at

\* The receiver stays with the sender: a frame that begins in the same round of
\* the byte counter in which the last well decrypted frame ended, the next
\* frame always does, is well decrypted, whatever was lost in between and
\* although the counter wraps (allnet_stream_decrypt_buffer).
StaysInStep ==
  [][\A m \in air :
       (ReceiveFrame(m) /\ Right(callee) /\ m.at \div Wrap = callee.end \div Wrap)
         => Right(callee')]_voice

\* stream.h: a packet that is authentic is decrypted.  It is not when the
\* packet in which the counter wraps was lost.
AuthenticIsDecrypted == Right(callee)

=============================================================================
