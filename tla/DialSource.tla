----------------------------- MODULE DialSource -----------------------------
(***************************************************************************)
(* One dial-mode source (go/internal/ingest/ingest.go, ntrip.go): the      *)
(* reconnect loop with its backoff, the NTRIP exchange, the scanner that   *)
(* reads the stream and hands frames to the decode stage, and the watchdog *)
(* that closes a connection which brings bytes but no frames.              *)
(*                                                                         *)
(* A tick is the watchdog's sampling interval.  Whether bytes are a frame  *)
(* is the scanner's verdict; TLS is part of dialling; metrics are left out.*)
(***************************************************************************)
EXTENDS Integers

CONSTANTS
  BackoffMax,       \* backoffMax, in units of backoffInitial (a tick)
  IdleTimeout,      \* dialIdleTimeout
  FrameSilence,     \* MaxFrameSilence
  UsefulAfter,      \* usefulConnectionDuration
  DecodeQueue,      \* capacity of the frames channel
  DialCap           \* bound: counts of ticks and attempts saturate here

ASSUME DialBounds ==
  /\ {BackoffMax, IdleTimeout, FrameSilence, UsefulAfter, DecodeQueue} \subseteq Nat \ {0}
  /\ DialCap \in Nat /\ DialCap > IdleTimeout + 1 /\ DialCap > FrameSilence + 2 /\ DialCap > UsefulAfter
  /\ 2 ^ DialCap >= BackoffMax

VARIABLES
  ntrip,    \* whether the source is an NTRIP caster
  dial,     \* the loop: its place, its backoff, what is left of its sleep
  stream,   \* the connection: ages of its start, last mark and last byte, frames seen, closed
  frames,   \* frames in the decode stage's channel
  stopping, \* the context is cancelled
  tries,    \* ghost: sleeps since the last useful connection ended, that one's too
  quiet     \* ghost: ticks since the connection began or brought a frame

dialVars == <<ntrip, dial, stream, frames, stopping, tries, quiet>>

NoStream == [age |-> -1]
NewStream == [age |-> 0, mark |-> 0, idle |-> 0, framed |-> FALSE, closed |-> FALSE]
Saturated(n) == IF n >= DialCap THEN DialCap ELSE n + 1

DialInit ==
  /\ ntrip \in BOOLEAN
  /\ dial = [at |-> "dial", backoff |-> 1, left |-> 0]
  /\ stream = NoStream
  /\ frames = 0
  /\ stopping = FALSE
  /\ tries = 0 /\ quiet = 0
-----------------------------------------------------------------------------
\* nextBackoff.
NextBackoff(b) == IF 2 * b > BackoffMax THEN BackoffMax ELSE 2 * b

\* sleep(ctx, b), and the widened backoff after it.
SleepFor(b) == dial' = [at |-> "sleep", backoff |-> NextBackoff(b), left |-> b]

DialFails ==
  /\ dial.at = "dial" /\ ~stopping
  /\ SleepFor(dial.backoff)
  /\ tries' = Saturated(tries)
  /\ UNCHANGED <<ntrip, stream, frames, stopping, quiet>>

ConnectedBackoff == dial.backoff
\* A plain source streams at once, a caster is asked for its mountpoint.
DialConnects ==
  /\ dial.at = "dial" /\ ~stopping
  /\ IF ntrip
     THEN /\ dial' = [dial EXCEPT !.at = "handshake"]
          /\ UNCHANGED <<stream, quiet>>
     ELSE /\ dial' = [dial EXCEPT !.at = "stream", !.backoff = ConnectedBackoff]
          /\ stream' = NewStream /\ quiet' = 0
  /\ UNCHANGED <<ntrip, frames, stopping, tries>>

\* ntripConnect: what a caster may answer, and whether it is a stream.
Answers == [status : {"ok", "redirect", "refused", "broken"}, coding : {"plain", "chunked", "other"},
            body : {"gnss", "none", "sourcetable", "text"}]
StatusAccepted(r) == r.status = "ok"
NtripAccepted(r) == StatusAccepted(r) /\ r.coding # "other" /\ r.body \notin {"sourcetable", "text"}
HandshakeAccepted ==
  /\ dial.at = "handshake"
  /\ \E r \in Answers : NtripAccepted(r)
  /\ dial' = [dial EXCEPT !.at = "stream", !.backoff = ConnectedBackoff]
  /\ stream' = NewStream /\ quiet' = 0
  /\ UNCHANGED <<ntrip, frames, stopping, tries>>
HandshakeRefused ==
  /\ dial.at = "handshake"
  /\ \E r \in Answers : ~NtripAccepted(r)
  /\ IF stopping THEN dial' = [dial EXCEPT !.at = "ended"] ELSE SleepFor(dial.backoff)
  /\ tries' = Saturated(tries)
  /\ UNCHANGED <<ntrip, stream, frames, stopping, quiet>>
-----------------------------------------------------------------------------
Reading == dial.at = "stream" /\ ~stream.closed /\ ~stopping

Emit ==
  IF frames < DecodeQueue THEN frames' = frames + 1 /\ UNCHANGED dial
  ELSE dial' = [dial EXCEPT !.at = "emit"] /\ UNCHANGED frames
ScanFrame ==
  /\ Reading
  /\ stream' = [stream EXCEPT !.mark = 0, !.idle = 0, !.framed = TRUE]
  /\ quiet' = 0
  /\ Emit
  /\ UNCHANGED <<ntrip, stopping, tries>>
\* Bytes that are no frame: NMEA, an error page, a bad checksum.
ScanNoise ==
  /\ Reading
  /\ stream' = [stream EXCEPT !.idle = 0]
  /\ UNCHANGED <<ntrip, dial, frames, stopping, tries, quiet>>
EmitResumes ==
  /\ dial.at = "emit" /\ (frames < DecodeQueue \/ stopping)
  /\ dial' = [dial EXCEPT !.at = "stream"]
  /\ frames' = IF frames < DecodeQueue THEN frames + 1 ELSE frames
  /\ UNCHANGED <<ntrip, stream, stopping, tries, quiet>>

Useful == stream.framed \/ stream.age >= UsefulAfter
\* runScanner returns: the peer closed, a read failed or timed out, the
\* scanner panicked, the watchdog or the shutdown closed the connection.
StreamEnds ==
  /\ dial.at = "stream"
  /\ LET b == IF Useful THEN 1 ELSE dial.backoff
     IN  IF stopping THEN dial' = [dial EXCEPT !.at = "ended"] ELSE SleepFor(b)
  /\ stream' = NoStream
  /\ tries' = IF Useful THEN 1 ELSE Saturated(tries)
  /\ quiet' = 0
  /\ UNCHANGED <<ntrip, frames, stopping>>

\* The watchdog's sample: silence.since() > window.
\* Mutant: a connection that never brought a frame is not silent.
SinceFramed == IF stream.framed THEN stream.mark ELSE 0
Since == stream.mark
Watchdog ==
  /\ stream # NoStream /\ ~stream.closed /\ Since > FrameSilence
  /\ stream' = [stream EXCEPT !.closed = TRUE]
  /\ UNCHANGED <<ntrip, dial, frames, stopping, tries, quiet>>
-----------------------------------------------------------------------------
DecodeTakes ==
  /\ frames > 0
  /\ frames' = frames - 1
  /\ UNCHANGED <<ntrip, dial, stream, stopping, tries, quiet>>

Cancel ==
  /\ ~stopping
  /\ stopping' = TRUE
  /\ UNCHANGED <<ntrip, dial, stream, frames, tries, quiet>>
\* The loop sees the cancelled context before it dials, or while it sleeps.
LoopEnds ==
  /\ stopping /\ dial.at \in {"dial", "sleep"}
  /\ dial' = [dial EXCEPT !.at = "ended"]
  /\ UNCHANGED <<ntrip, stream, frames, stopping, tries, quiet>>

\* Time passes, but not past a read deadline, the return of a scanner whose
\* connection is closed, or the watchdog's next sample.
DialTick ==
  /\ dial.at \in {"stream", "emit", "sleep"} /\ ~stopping
  /\ dial.at = "stream" => ~stream.closed /\ stream.idle < IdleTimeout
  /\ stream # NoStream => stream.closed \/ Since <= FrameSilence
  /\ dial' = CASE dial.at # "sleep" -> dial
               [] dial.left > 1 -> [dial EXCEPT !.left = @ - 1]
               [] OTHER -> [dial EXCEPT !.left = 0, !.at = "dial"]
  /\ stream' = IF stream = NoStream THEN NoStream
               ELSE [stream EXCEPT !.age = Saturated(@), !.mark = Saturated(@),
                                   !.idle = IF dial.at = "stream" THEN Saturated(@) ELSE @]
  /\ quiet' = IF stream = NoStream THEN 0 ELSE Saturated(quiet)
  /\ UNCHANGED <<ntrip, frames, stopping, tries>>

DialNext ==
  \/ DialFails \/ DialConnects
  \/ HandshakeAccepted \/ HandshakeRefused
  \/ ScanFrame \/ ScanNoise \/ EmitResumes
  \/ StreamEnds \/ Watchdog
  \/ DecodeTakes \/ Cancel \/ LoopEnds
  \/ DialTick

DialSpec == DialInit /\ [][DialNext]_dialVars
-----------------------------------------------------------------------------
\* A source that brings no frames is not left connected: bytes or not, the
\* scanner is back in the reconnect loop within the window and one sample.
SilentSourceLeaves == dial.at = "stream" => quiet <= FrameSilence + 1 \/ stream.closed

\* Attempts in a row that were no use are spaced ever wider, up to the limit;
\* an accept-then-close peer is not retried at the initial pace.
BackoffWidens ==
  dial.at = "sleep" =>
    dial.backoff = NextBackoff(IF 2 ^ (tries - 1) > BackoffMax THEN BackoffMax ELSE 2 ^ (tries - 1))

\* A dial-mode source is left when silent and retried ever more slowly
\* (Manager.runSource).
DialIsSound ==
    /\ SilentSourceLeaves
    /\ BackoffWidens

=============================================================================
