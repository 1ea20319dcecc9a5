----------------------------- MODULE Subcontext -----------------------------
(***************************************************************************)
(* init's subcontext (src/init/subcontext.cpp).  init forks a child that   *)
(* runs vendor commands in the vendor SELinux context and talks to it over *)
(* a SOCK_SEQPACKET pair: init sends one SubcontextCommand and blocks      *)
(* until the SubcontextReply arrives.  When the exchange fails, init       *)
(* restarts the child (SIGKILL, new socket pair, fork).  init's main loop  *)
(* also reaps dead children and forks services, and at shutdown calls      *)
(* SubcontextTerminate.  Fork cannot fail here: a failed socketpair, fork  *)
(* or exec is LOG(FATAL), which ends init.                                 *)
(*                                                                         *)
(* Processes are modelled by pid: the kernel's process table `proc`, where *)
(* a pid freed by the reaper may be handed to the next fork.               *)
(***************************************************************************)
EXTENDS Integers, FiniteSets

CONSTANTS Pids,         \* the pids the kernel can hand out (positive integers)
          MaxCommands,  \* Execute / ExpandArgs calls made by init
          MaxDeaths,    \* deaths of the subcontext not caused by init
          MaxServices   \* services forked by init

ASSUME Pids \subseteq Nat \ {0}

NoPid == 0

\* One command per kind, with what running it in the child can do: reply
\* success or expanded arguments, reply a failure, or die on the way
\* (a builtin that aborts, or a reply larger than the message limit, which
\* makes SendMessage fail and the child LOG(FATAL)).
Kinds == {"execute", "expand"}

RunCommand == {"success", "failure", "fatal"}

ExpandArgsOutcomes == {"expanded", "failure", "fatal"}

Outcomes(k) == IF k = "execute" THEN RunCommand ELSE ExpandArgsOutcomes

\* The `subcontexts` vector searched by the reaper and by
\* SubcontextTerminate, as the set of pids it holds.  Nothing in the code
\* appends to it.
subcontexts == {}

Free == [st |-> "free", who |-> "none"]
LiveSub == [st |-> "live", who |-> "sub"]

VARIABLES
    proc,           \* pid -> [st: free | live | zombie, who: none | sub | svc]
    pid_,           \* Subcontext::pid_
    sock,           \* init's socket_: is the peer's end open, and what it holds
    ipc,            \* init: "idle" in its main loop, "reading" in TransmitMessage
    kind,           \* the kind of command init is transmitting
    cpc,            \* the connected child: "poll", or the kind of command it runs
    result,         \* what the last Execute / ExpandArgs returned
    shutting_down,
    killed,         \* history: who each SIGKILL of Restart reached
    ncmd, ndeaths, nsvc

vars == <<proc, pid_, sock, ipc, kind, cpc, result, shutting_down, killed,
          ncmd, ndeaths, nsvc>>

Socket == [open: BOOLEAN, toSub: {"none"} \cup Kinds,
           toInit: {"none", "success", "failure", "expanded"}]

TypeOK ==
    /\ proc \in [Pids -> [st: {"free", "live", "zombie"}, who: {"none", "sub", "svc"}]]
    /\ pid_ \in Pids
    /\ sock \in Socket
    /\ ipc \in {"idle", "reading"}
    /\ kind \in Kinds
    /\ cpc \in {"poll"} \cup Kinds
    /\ result \in {"none", "ok", "failure", "unexpected", "error"}
    /\ shutting_down \in BOOLEAN
    /\ killed \subseteq {"none", "sub", "svc"}
    /\ ncmd \in 0..MaxCommands /\ ndeaths \in 0..MaxDeaths /\ nsvc \in 0..MaxServices

FreePids(pr) == {p \in Pids : pr[p] = Free}

(***************************************************************************)
(* Subcontext::Fork: a fresh socket pair; the child, exec'ed as            *)
(* `init subcontext`, enters MainLoop polling its end.                     *)
(***************************************************************************)
Fork(pr) ==
    \E p \in FreePids(pr) :
        /\ proc' = [pr EXCEPT ![p] = LiveSub]
        /\ pid_' = p
        /\ sock' = [open |-> TRUE, toSub |-> "none", toInit |-> "none"]
        /\ cpc' = "poll"

\* kill(pid_, SIGKILL): whatever process now has that pid dies.
Kill(pr, p) == IF pr[p].st = "live" THEN [pr EXCEPT ![p].st = "zombie"] ELSE pr

\* Restart that clears pid_ and socket_ but never gets to Fork.
RestartWithoutFork(pr) ==
    /\ killed' = IF pr[pid_].st = "live" THEN killed \cup {pr[pid_].who} ELSE killed
    /\ proc' = Kill(pr, pid_)
    /\ pid_' = NoPid
    /\ sock' = [sock EXCEPT !.open = FALSE]
    /\ UNCHANGED cpc

(***************************************************************************)
(* Subcontext::Restart: SIGKILL pid_ if set, drop the socket, Fork.  `pr`  *)
(* is the process table as the caller leaves it.                          *)
(***************************************************************************)
Restart(pr) ==
    /\ killed' = IF pid_ # NoPid /\ pr[pid_].st = "live"
                 THEN killed \cup {pr[pid_].who} ELSE killed
    /\ Fork(IF pid_ # NoPid THEN Kill(pr, pid_) ELSE pr)

\* Execute and ExpandArgs on the reply: a failure is returned as the error
\* the child reported, a reply of the other kind is unexpected.
ResultOf(k, reply) ==
    CASE reply = "failure" -> "failure"
      [] k = "execute" /\ reply = "success" -> "ok"
      [] k = "expand" /\ reply = "expanded" -> "ok"
      [] OTHER -> "unexpected"

(***************************************************************************)
(* Execute / ExpandArgs, then TransmitMessage's SendMessage.  A send to a  *)
(* peer that has gone fails (EPIPE): Restart and return the error.         *)
(***************************************************************************)
Transmit(k) ==
    /\ ipc = "idle" /\ ncmd < MaxCommands
    /\ ncmd' = ncmd + 1
    /\ kind' = k
    /\ \/ /\ sock.open
          /\ sock' = [sock EXCEPT !.toSub = k]
          /\ ipc' = "reading"
          /\ UNCHANGED <<proc, pid_, cpc, result, killed>>
       \/ /\ ~sock.open
          /\ Restart(proc)
          /\ result' = "error"
          /\ UNCHANGED ipc
    /\ UNCHANGED <<shutting_down, ndeaths, nsvc>>

(***************************************************************************)
(* TransmitMessage's ReadMessage: the reply, or end of file once the peer  *)
(* has gone, which restarts the subcontext.                                *)
(***************************************************************************)
ReadReply ==
    /\ ipc = "reading"
    /\ \/ /\ sock.toInit # "none"
          /\ result' = ResultOf(kind, sock.toInit)
          /\ sock' = [sock EXCEPT !.toInit = "none"]
          /\ UNCHANGED <<proc, pid_, cpc, killed>>
       \/ /\ sock.toInit = "none" /\ ~sock.open
          /\ Restart(proc)
          /\ result' = "error"
    /\ ipc' = "idle"
    /\ UNCHANGED <<kind, shutting_down, ncmd, ndeaths, nsvc>>

(***************************************************************************)
(* SubcontextProcess::MainLoop: poll returns, ReadMessage takes the        *)
(* command.                                                                *)
(***************************************************************************)
ChildRecv ==
    /\ sock.open /\ cpc = "poll" /\ sock.toSub # "none"
    /\ cpc' = sock.toSub
    /\ sock' = [sock EXCEPT !.toSub = "none"]
    /\ UNCHANGED <<proc, pid_, ipc, kind, result, shutting_down, killed,
                   ncmd, ndeaths, nsvc>>

\* The loop going back to poll without sending a failure reply.
ChildReplyDropsFailure ==
    /\ sock.open /\ cpc \in Kinds
    /\ \E o \in Outcomes(cpc) :
          CASE o = "fatal" -> /\ proc' = [proc EXCEPT ![pid_].st = "zombie"]
                              /\ sock' = [sock EXCEPT !.open = FALSE]
                              /\ UNCHANGED cpc
            [] o = "failure" -> cpc' = "poll" /\ UNCHANGED <<proc, sock>>
            [] OTHER -> /\ sock' = [sock EXCEPT !.toInit = o]
                        /\ cpc' = "poll"
                        /\ UNCHANGED proc
    /\ UNCHANGED <<pid_, ipc, kind, result, shutting_down, killed, ncmd, ndeaths, nsvc>>

(***************************************************************************)
(* MainLoop: RunCommand or ExpandArgs fills the reply, SendMessage sends   *)
(* it; the loop polls again.  A fatal outcome kills the child, closing its *)
(* end of the socket.                                                      *)
(***************************************************************************)
ChildReply ==
    /\ sock.open /\ cpc \in Kinds
    /\ \E o \in Outcomes(cpc) :
          IF o = "fatal"
          THEN /\ proc' = [proc EXCEPT ![pid_].st = "zombie"]
               /\ sock' = [sock EXCEPT !.open = FALSE]
               /\ UNCHANGED cpc
          ELSE /\ sock' = [sock EXCEPT !.toInit = o]
               /\ cpc' = "poll"
               /\ UNCHANGED proc
    /\ UNCHANGED <<pid_, ipc, kind, result, shutting_down, killed, ncmd, ndeaths, nsvc>>

(***************************************************************************)
(* SubcontextChildReap, called from init's main loop for each child it     *)
(* reaps: restart the subcontext that had this pid unless shutting down.   *)
(***************************************************************************)
Reap(p) ==
    /\ ipc = "idle" /\ proc[p].st = "zombie"
    /\ LET reaped == [proc EXCEPT ![p] = Free] IN
       IF p \in subcontexts /\ ~shutting_down
       THEN Restart(reaped)
       ELSE /\ proc' = reaped
            /\ UNCHANGED <<pid_, sock, cpc, killed>>
    /\ UNCHANGED <<ipc, kind, result, shutting_down, ncmd, ndeaths, nsvc>>

(***************************************************************************)
(* SubcontextTerminate: SIGTERM every subcontext in the vector.            *)
(***************************************************************************)
SubcontextTerminate ==
    /\ ipc = "idle" /\ ~shutting_down
    /\ shutting_down' = TRUE
    /\ proc' = [p \in Pids |-> IF p \in subcontexts THEN Kill(proc, p)[p] ELSE proc[p]]
    /\ UNCHANGED <<pid_, sock, ipc, kind, cpc, result, killed, ncmd, ndeaths, nsvc>>

---------------------------------------------------------------------------
(* The environment. *)

\* The subcontext dies of something init did not do (a crash, the OOM
\* killer).
SubcontextDies ==
    /\ sock.open /\ ndeaths < MaxDeaths
    /\ ndeaths' = ndeaths + 1
    /\ proc' = [proc EXCEPT ![pid_].st = "zombie"]
    /\ sock' = [sock EXCEPT !.open = FALSE]
    /\ UNCHANGED <<pid_, ipc, kind, cpc, result, shutting_down, killed, ncmd, nsvc>>

\* init starts a service from its main loop; the kernel may reuse a pid.
ForkService ==
    /\ ipc = "idle" /\ nsvc < MaxServices
    /\ \E p \in FreePids(proc) : proc' = [proc EXCEPT ![p] = [st |-> "live", who |-> "svc"]]
    /\ nsvc' = nsvc + 1
    /\ UNCHANGED <<pid_, sock, ipc, kind, cpc, result, shutting_down, killed, ncmd, ndeaths>>

ServiceExits(p) ==
    /\ proc[p] = [st |-> "live", who |-> "svc"]
    /\ proc' = [proc EXCEPT ![p].st = "zombie"]
    /\ UNCHANGED <<pid_, sock, ipc, kind, cpc, result, shutting_down, killed,
                   ncmd, ndeaths, nsvc>>

\* Every process blocked: init in epoll or in its read, the child in poll.
Waiting == UNCHANGED vars

---------------------------------------------------------------------------
(* InitializeSubcontext: the Subcontext is constructed, which forks it. *)
Init ==
    /\ \E p \in Pids :
          /\ proc = [q \in Pids |-> IF q = p THEN LiveSub ELSE Free]
          /\ pid_ = p
    /\ sock = [open |-> TRUE, toSub |-> "none", toInit |-> "none"]
    /\ ipc = "idle" /\ kind = "execute" /\ cpc = "poll" /\ result = "none"
    /\ shutting_down = FALSE /\ killed = {}
    /\ ncmd = 0 /\ ndeaths = 0 /\ nsvc = 0

Next ==
    \/ \E k \in Kinds : Transmit(k)
    \/ ReadReply \/ ChildRecv \/ ChildReply
    \/ \E p \in Pids : Reap(p) \/ ServiceExits(p)
    \/ SubcontextTerminate \/ SubcontextDies \/ ForkService \/ Waiting

\* The child and init's blocked read are scheduled by the kernel.
Fairness == WF_vars(ChildRecv) /\ WF_vars(ChildReply) /\ WF_vars(ReadReply)

Spec == Init /\ [][Next]_vars

FairSpec == Spec /\ Fairness

---------------------------------------------------------------------------
(* Properties. *)

\* init never stays blocked in TransmitMessage: the child answers, or it
\* dies and the read sees end of file.
TransmitMessageReturns == ipc = "reading" ~> ipc = "idle"

\* Restart's SIGKILL reaches only a subcontext process, never a service
\* that has been given the pid of a subcontext already reaped.
RestartKillsOnlySubcontext == killed \subseteq {"sub"}

====
