--------------------------- MODULE DebuggerdClient ---------------------------
(***************************************************************************)
(* debuggerd_trigger_dump (src/debuggerd/client/debuggerd_client.cpp).    *)
(* The client connects to tombstoned's intercept socket, sends it the     *)
(* write end of a pipe, waits for kRegistered, signals the target, waits  *)
(* for kStarted, and copies the dump from the pipe to output_fd until end *)
(* of file.  One deadline, end = now + timeout_ms, bounds the whole call: *)
(* before each socket call set_timeout sets SO_RCVTIMEO to what remains,  *)
(* and the poll loop passes what remains in milliseconds.                 *)
(*                                                                         *)
(* tombstoned and the target process are the environment: they answer,   *)
(* fail, close or stay silent.  Time is counted in ticks, finer than the  *)
(* microsecond of a timeval; any step of the client may take time, and a  *)
(* blocked call returns as soon as it can.                                *)
(***************************************************************************)
EXTENDS Integers, Sequences

CONSTANTS TimeoutsMs,   \* the timeout_ms values a caller passes
          TicksPerUs,   \* clock ticks per microsecond
          UsPerMs,      \* microseconds per millisecond, scaled down
          MaxChunks,    \* how many reads the dump takes
          MaxSignals    \* how many signals may interrupt the client

TicksPerMs == TicksPerUs * UsPerMs

MaxTimeoutMs == CHOOSE t \in TimeoutsMs : \A u \in TimeoutsMs : u <= t

\* The clock's horizon, two ticks past the latest deadline.
MaxClock == MaxTimeoutMs * TicksPerMs + 2

\* kDebuggerdTombstone behaves as kDebuggerdNativeBacktrace here: only the
\* Java dump resolves the tid to a tgid first.
DumpTypes == {"native", "java"}

\* InterceptStatus values tombstoned sends: kRegistered, kStarted, and a
\* registration failure such as kFailedAlreadyRegistered.
Statuses == {"registered", "started", "failed"}

\* std::chrono::duration_cast truncates toward zero, unlike \div.
TruncDiv(a, b) == IF a >= 0 THEN a \div b ELSE -((-a) \div b)

VARIABLES
    timeoutMs,   \* timeout_ms
    dumpType,
    pc,          \* where debuggerd_trigger_dump is
    clock,
    end,         \* the deadline, in ticks
    waitStart,   \* when the blocking recv or poll began
    waitLimit,   \* its timeout in ticks; -1 for none
    tomb,        \* tombstoned's view of this intercept
    sock,        \* responses queued on the socket
    sockClosed,  \* tombstoned closed its end
    pipe,        \* chunks in the pipe not yet read
    pipeEof,     \* every write end of the pipe is closed
    produced,    \* chunks the target has written
    written,     \* chunks copied to output_fd
    signalled,   \* send_signal has queued the dump signal
    nsig,        \* signals delivered to the client
    result       \* what the call returned

vars == <<timeoutMs, dumpType, pc, clock, end, waitStart, waitLimit, tomb, sock,
          sockClosed, pipe, pipeEof, produced, written, signalled, nsig, result>>

Waits == {"wait1", "wait2", "pollwait"}

TypeOK ==
    /\ timeoutMs \in TimeoutsMs /\ dumpType \in DumpTypes
    /\ pc \in {"start", "connect", "pipe", "send", "recv1", "signal", "recv2",
               "poll", "read", "done"} \cup Waits
    /\ clock \in 0..MaxClock /\ end \in 0..MaxClock
    /\ waitStart \in 0..MaxClock /\ waitLimit \in -1..MaxClock
    /\ tomb \in {"idle", "request", "registered", "rejected", "started"}
    /\ sock \in Seq(Statuses) /\ Len(sock) <= 2 /\ sockClosed \in BOOLEAN
    /\ pipe \in 0..MaxChunks /\ pipeEof \in BOOLEAN
    /\ produced \in 0..MaxChunks /\ written \in 0..MaxChunks
    /\ signalled \in BOOLEAN /\ nsig \in 0..MaxSignals
    /\ result \in {"none", "true", "false"}

---------------------------------------------------------------------------
(* The client. *)

\* set_timeout: returns -1 once the deadline has passed; otherwise sets
\* SO_RCVTIMEO and SO_SNDTIMEO to the time left, cut by populate_timeval to
\* whole microseconds.  A zero timeval is no timeout for the kernel, and a
\* timeout_ms of 0 sets nothing.
SetTimeout ==
    LET left == end - clock
        us == left \div TicksPerUs
    IN  CASE timeoutMs = 0 -> [ok |-> TRUE, limit |-> -1]
          [] left < 0 -> [ok |-> FALSE, limit |-> -1]
          [] us = 0 -> [ok |-> TRUE, limit |-> -1]
          [] OTHER -> [ok |-> TRUE, limit |-> us * TicksPerUs]

\* Every early return of the call: return false.
Fail == pc' = "done" /\ result' = "false"

\* The Java dump resolves tid to its tgid and may fail; then the deadline
\* is fixed.
Start ==
    /\ pc = "start"
    /\ \/ dumpType = "java" /\ Fail /\ UNCHANGED end
       \/ end' = clock + timeoutMs * TicksPerMs /\ pc' = "connect" /\ UNCHANGED result
    /\ UNCHANGED <<timeoutMs, dumpType, clock, waitStart, waitLimit, tomb, sock,
                   sockClosed, pipe, pipeEof, produced, written, signalled, nsig>>

\* socket, then socket_local_client_connect(set_timeout(sockfd)); the
\* second set_timeout's result is tested with !, which -1 passes.
Connect ==
    /\ pc = "connect"
    /\ \/ Fail    \* socket fails, or tombstoned is not listening
       \/ ~SetTimeout.ok /\ Fail
       \/ SetTimeout.ok /\ pc' = "pipe" /\ UNCHANGED result
    /\ UNCHANGED <<timeoutMs, dumpType, clock, end, waitStart, waitLimit, tomb, sock,
                   sockClosed, pipe, pipeEof, produced, written, signalled, nsig>>

\* Pipe, and its size from /proc/sys/fs/pipe-max-size; a failed
\* F_SETPIPE_SZ is only logged.
MakePipe ==
    /\ pc = "pipe"
    /\ \/ Fail
       \/ pc' = "send" /\ UNCHANGED result
    /\ UNCHANGED <<timeoutMs, dumpType, clock, end, waitStart, waitLimit, tomb, sock,
                   sockClosed, pipe, pipeEof, produced, written, signalled, nsig>>

\* SendFileDescriptors(set_timeout(sockfd), &req, ..., pipe_write): the
\* InterceptRequest with the pipe's write end; then pipe_write.reset().
Send ==
    /\ pc = "send"
    /\ \/ ~SetTimeout.ok /\ Fail /\ UNCHANGED tomb
       \/ SetTimeout.ok /\ Fail /\ UNCHANGED tomb    \* the send fails
       \/ SetTimeout.ok /\ tomb' = "request" /\ pc' = "recv1" /\ UNCHANGED result
    /\ UNCHANGED <<timeoutMs, dumpType, clock, end, waitStart, waitLimit, sock,
                   sockClosed, pipe, pipeEof, produced, written, signalled, nsig>>

\* recv(set_timeout(sockfd), ...): recv on -1 fails at once; otherwise the
\* call blocks with the SO_RCVTIMEO just set.
EnterRecv(from, to) ==
    /\ pc = from
    /\ \/ ~SetTimeout.ok /\ Fail /\ UNCHANGED <<waitStart, waitLimit>>
       \/ /\ SetTimeout.ok
          /\ waitStart' = clock /\ waitLimit' = SetTimeout.limit
          /\ pc' = to /\ UNCHANGED result
    /\ UNCHANGED <<timeoutMs, dumpType, clock, end, tomb, sock, sockClosed, pipe,
                   pipeEof, produced, written, signalled, nsig>>

\* The blocking call's timeout has run out.
Due == waitLimit >= 0 /\ clock - waitStart >= waitLimit

\* recv returns: a response, which must carry the expected status; 0 when
\* tombstoned closed the socket; -1 (EAGAIN) when SO_RCVTIMEO ran out.
RecvReturns(wait, expected, next) ==
    /\ pc = wait
    /\ \/ /\ Len(sock) > 0 /\ sock' = Tail(sock)
          /\ IF Head(sock) = expected THEN pc' = next /\ UNCHANGED result ELSE Fail
       \/ Len(sock) = 0 /\ sockClosed /\ Fail /\ UNCHANGED sock
       \/ Len(sock) = 0 /\ Due /\ Fail /\ UNCHANGED sock
    /\ UNCHANGED <<timeoutMs, dumpType, clock, end, waitStart, waitLimit, tomb,
                   sockClosed, pipe, pipeEof, produced, written, signalled, nsig>>

\* send_signal: sigqueue of DEBUGGER_SIGNAL or SIGQUIT to tid, which fails
\* when the target is gone.
Signal ==
    /\ pc = "signal"
    /\ \/ Fail /\ UNCHANGED signalled
       \/ signalled' = TRUE /\ pc' = "recv2" /\ UNCHANGED result
    /\ UNCHANGED <<timeoutMs, dumpType, clock, end, waitStart, waitLimit, tomb, sock,
                   sockClosed, pipe, pipeEof, produced, written, nsig>>

\* The top of the forwarding loop: remaining_ms, cut toward zero; -1 (wait
\* for ever) when timeout_ms is 0; "timeout expired" when it is negative.
PollStart ==
    /\ pc = "poll"
    /\ LET ms == TruncDiv(end - clock, TicksPerMs) IN
       \/ timeoutMs > 0 /\ ms < 0 /\ Fail /\ UNCHANGED <<waitStart, waitLimit>>
       \/ /\ timeoutMs = 0 \/ ms >= 0
          /\ waitStart' = clock
          /\ waitLimit' = IF timeoutMs = 0 THEN -1 ELSE ms * TicksPerMs
          /\ pc' = "pollwait" /\ UNCHANGED result
    /\ UNCHANGED <<timeoutMs, dumpType, clock, end, tomb, sock, sockClosed, pipe,
                   pipeEof, produced, written, signalled, nsig>>

\* poll taking its 0 (timeout) for the end of the dump.
PollReturnsTimeoutAsDone ==
    /\ pc = "pollwait"
    /\ \/ (pipe > 0 \/ pipeEof) /\ pc' = "read" /\ UNCHANGED result
       \/ pipe = 0 /\ ~pipeEof /\ Due /\ pc' = "done" /\ result' = "true"
    /\ UNCHANGED <<timeoutMs, dumpType, clock, end, waitStart, waitLimit, tomb, sock,
                   sockClosed, pipe, pipeEof, produced, written, signalled, nsig>>

\* poll returns 1 when the pipe has data or end of file, and 0 when
\* remaining_ms ran out: "timeout expired".
PollReturns ==
    /\ pc = "pollwait"
    /\ \/ (pipe > 0 \/ pipeEof) /\ pc' = "read" /\ UNCHANGED result
       \/ pipe = 0 /\ ~pipeEof /\ Due /\ Fail
    /\ UNCHANGED <<timeoutMs, dumpType, clock, end, waitStart, waitLimit, tomb, sock,
                   sockClosed, pipe, pipeEof, produced, written, signalled, nsig>>

\* read from the pipe not taking what it read.
ReadNoConsume ==
    /\ pc = "read"
    /\ \/ pipe = 0 /\ pipeEof /\ pc' = "done" /\ result' = "true"
          /\ UNCHANGED <<pipe, written>>
       \/ pipe > 0 /\ written' = written + 1 /\ pc' = "poll"
          /\ UNCHANGED <<pipe, result>>
       \/ pipe > 0 /\ Fail /\ UNCHANGED <<pipe, written>>
    /\ UNCHANGED <<timeoutMs, dumpType, clock, end, waitStart, waitLimit, tomb, sock,
                   sockClosed, pipeEof, produced, signalled, nsig>>

\* read returns 0 at end of file: done, return true.  Otherwise WriteFully
\* copies the chunk to output_fd, or fails.
Read ==
    /\ pc = "read"
    /\ \/ pipe = 0 /\ pipeEof /\ pc' = "done" /\ result' = "true"
          /\ UNCHANGED <<pipe, written>>
       \/ pipe > 0 /\ pipe' = pipe - 1 /\ written' = written + 1 /\ pc' = "poll"
          /\ UNCHANGED result
       \/ pipe > 0 /\ pipe' = pipe - 1 /\ Fail /\ UNCHANGED written
    /\ UNCHANGED <<timeoutMs, dumpType, clock, end, waitStart, waitLimit, tomb, sock,
                   sockClosed, pipeEof, produced, signalled, nsig>>

\* A signal interrupts the blocked call (EINTR).  TEMP_FAILURE_RETRY
\* evaluates recv(set_timeout(sockfd), ...) again: set_timeout sets what is
\* left of the deadline, or fails once it has passed.  The poll loop
\* continues and recomputes remaining_ms.
Restarted == [wait1 |-> "recv1", wait2 |-> "recv2", pollwait |-> "poll"]

Interrupt ==
    /\ pc \in Waits /\ nsig < MaxSignals
    /\ nsig' = nsig + 1 /\ pc' = Restarted[pc]
    /\ UNCHANGED <<timeoutMs, dumpType, clock, end, waitStart, waitLimit, tomb, sock,
                   sockClosed, pipe, pipeEof, produced, written, signalled, result>>

Client == Start \/ Connect \/ MakePipe \/ Send
          \/ EnterRecv("recv1", "wait1") \/ RecvReturns("wait1", "registered", "signal")
          \/ Signal
          \/ EnterRecv("recv2", "wait2") \/ RecvReturns("wait2", "started", "poll")
          \/ PollStart \/ PollReturns \/ Read

---------------------------------------------------------------------------
(* tombstoned, the target, and time. *)

\* tombstoned registers the intercept, or refuses it.
TombRegister ==
    /\ tomb = "request"
    /\ \E s \in {"registered", "failed"} :
          /\ tomb' = IF s = "registered" THEN "registered" ELSE "rejected"
          /\ sock' = Append(sock, s)
    /\ UNCHANGED <<timeoutMs, dumpType, pc, clock, end, waitStart, waitLimit, sockClosed,
                   pipe, pipeEof, produced, written, signalled, nsig, result>>

\* The signalled target's crash_dump asks tombstoned for an output fd, and
\* tombstoned hands it the intercept's pipe and sends kStarted.
TombStart ==
    /\ tomb = "registered" /\ signalled
    /\ tomb' = "started" /\ sock' = Append(sock, "started")
    /\ UNCHANGED <<timeoutMs, dumpType, pc, clock, end, waitStart, waitLimit, sockClosed,
                   pipe, pipeEof, produced, written, signalled, nsig, result>>

\* tombstoned closes the connection (it died, or dropped the intercept).
TombClose ==
    /\ tomb # "idle" /\ ~sockClosed
    /\ sockClosed' = TRUE
    /\ UNCHANGED <<timeoutMs, dumpType, pc, clock, end, waitStart, waitLimit, tomb, sock,
                   pipe, pipeEof, produced, written, signalled, nsig, result>>

\* crash_dump writes a chunk of the dump into the pipe.
TargetWrite ==
    /\ tomb = "started" /\ ~pipeEof /\ produced < MaxChunks
    /\ pipe' = pipe + 1 /\ produced' = produced + 1
    /\ UNCHANGED <<timeoutMs, dumpType, pc, clock, end, waitStart, waitLimit, tomb, sock,
                   sockClosed, pipeEof, written, signalled, nsig, result>>

\* crash_dump is done (or dies): the last write end of the pipe closes.
TargetClose ==
    /\ tomb = "started" /\ ~pipeEof
    /\ pipeEof' = TRUE
    /\ UNCHANGED <<timeoutMs, dumpType, pc, clock, end, waitStart, waitLimit, tomb, sock,
                   sockClosed, pipe, produced, written, signalled, nsig, result>>

\* The blocked call can return now.
Ready ==
    \/ pc \in {"wait1", "wait2"} /\ (Len(sock) > 0 \/ sockClosed \/ Due)
    \/ pc = "pollwait" /\ (pipe > 0 \/ pipeEof \/ Due)

\* A tick passes, during a step of the client or while it is blocked.  The
\* clock starts when the deadline is fixed: nothing before it is timed.
Tick ==
    /\ pc \notin {"start", "done"} /\ clock < MaxClock /\ ~Ready
    /\ clock' = clock + 1
    /\ UNCHANGED <<timeoutMs, dumpType, pc, end, waitStart, waitLimit, tomb, sock,
                   sockClosed, pipe, pipeEof, produced, written, signalled, nsig, result>>

Environment == TombRegister \/ TombStart \/ TombClose \/ TargetWrite \/ TargetClose
               \/ Interrupt \/ Tick

\* The call has returned, or the clock has reached its horizon.
Finished == (pc = "done" \/ clock = MaxClock) /\ UNCHANGED vars

Init ==
    /\ timeoutMs \in TimeoutsMs /\ dumpType \in DumpTypes
    /\ pc = "start" /\ clock = 0 /\ end = 0 /\ waitStart = 0 /\ waitLimit = -1
    /\ tomb = "idle" /\ sock = <<>> /\ sockClosed = FALSE
    /\ pipe = 0 /\ pipeEof = FALSE /\ produced = 0 /\ written = 0
    /\ signalled = FALSE /\ nsig = 0 /\ result = "none"

Next == Client \/ Environment \/ Finished

Spec == Init /\ [][Next]_vars

---------------------------------------------------------------------------
(* Properties. *)

\* A true return means the whole dump reached output_fd: the pipe was read
\* to its end of file and every chunk the target wrote was copied.
DumpForwardedOnSuccess ==
    result = "true" => pipeEof /\ pipe = 0 /\ written = produced

\* With a timeout, no recv or poll of the call stays blocked past the
\* deadline end that debuggerd_trigger_dump fixed at its start.
BoundedWait == timeoutMs > 0 /\ pc \in Waits => clock <= end

====
