--------------------------- MODULE SingleInstance ---------------------------
(***************************************************************************)
(* SocketSingleInstance: a process that is launched tries to connect to    *)
(* the socket of the running one and hands its arguments over; when nobody *)
(* answers it deletes the stale socket file and binds its own.             *)
(*                                                                         *)
(* Every member of Procs is one process.  Each system call is a step, so   *)
(* claims and releases of different processes interleave; a process may    *)
(* die anywhere.  A connection waits in the kernel's backlog until the     *)
(* listener takes it, and is reset when the listener is closed before.     *)
(***************************************************************************)
EXTENDS Naturals

CONSTANTS
    Procs,       \* the processes launched
    MaxEnds,     \* bound: releases and deaths
    Nobody       \* no process

ASSUME SingleInstanceAssumption == Nobody \notin Procs

VARIABLES
    proc,        \* proc[p]: where process p stands
    path,        \* whose bind made the file at socketPath
    listening,   \* listening[p]: p's ServerSocket accepts
    peer,        \* peer[p]: the process p connected to
    conn,        \* conn[p]: that connection, in the backlog or taken from it
    launches,    \* launches[p]: p's stream of launches
    forwarded,   \* forwarded[p]: what became of p's arguments
    ends,        \* releases and deaths so far
    raced,       \* observation: two processes were inside claim or release at once
    trespassed   \* observation: a release deleted the socket of another, live one

claimsVars == <<proc, path, listening, peer, conn, launches, forwarded,
                ends>>
observed == <<raced, trespassed>>

Claiming == {"connected", "stale", "deleting", "binding"}
Busy == Claiming \cup {"closed"}
Resting == {"primary", "secondary", "failed", "released"}

ClaimsInit ==
    /\ proc = [p \in Procs |-> "off"]
    /\ path = Nobody
    /\ listening = [p \in Procs |-> FALSE]
    /\ peer = [p \in Procs |-> Nobody]
    /\ conn = [p \in Procs |-> "none"]
    /\ launches = [p \in Procs |-> "unheard"]
    /\ forwarded = [p \in Procs |-> "no"]
    /\ ends = 0
    /\ raced = FALSE
    /\ trespassed = FALSE

Go(p, point) == proc' = [proc EXCEPT ![p] = point]

-----------------------------------------------------------------------------
(* claim                                                                   *)

Answers == path # Nobody /\ listening[path]

\* Socket.connect: it succeeds when the file at the path has a listener.  A
\* process may claim again after a release or an error.  (Bound: one that has
\* forwarded its launch does not.)
ConnectPeer(p) ==
    /\ proc[p] \in {"off", "released", "failed"}
    /\ forwarded[p] = "no"
    /\ \/ /\ Answers
          /\ peer' = [peer EXCEPT ![p] = path]
          /\ conn' = [conn EXCEPT ![p] = "queued"]
          /\ Go(p, "connected")
       \/ /\ ~Answers
          /\ Go(p, "stale")
          /\ UNCHANGED <<peer, conn>>
    /\ UNCHANGED <<path, listening, launches, forwarded, ends>>

\* write, flush, close: fails when the connection was reset in the meantime,
\* and the SocketException leads to _takeOver as well.
Forward(p) ==
    /\ proc[p] = "connected"
    /\ \/ /\ conn[p] # "none"
          /\ forwarded' = [forwarded EXCEPT ![p] = "sent"]
          /\ Go(p, "secondary")
       \/ /\ conn[p] = "none"
          /\ Go(p, "stale")
          /\ UNCHANGED forwarded
    /\ UNCHANGED <<path, listening, peer, conn, launches, ends>>

\* _takeOver: existsSync ...
Stale(p) ==
    /\ proc[p] = "stale"
    /\ Go(p, IF path = Nobody THEN "binding" ELSE "deleting")
    /\ UNCHANGED <<path, listening, peer, conn, launches, forwarded, ends>>

\* ... deleteSync, which throws when the file has gone ...
DeleteSkipped(p) ==
    /\ proc[p] = "deleting"
    /\ Go(p, "binding")
    /\ UNCHANGED <<path, listening, peer, conn, launches, forwarded, ends>>
Delete(p) ==
    /\ proc[p] = "deleting"
    /\ path' = Nobody
    /\ Go(p, IF path = Nobody THEN "failed" ELSE "binding")
    /\ UNCHANGED <<listening, peer, conn, launches, forwarded, ends>>

\* ... and bind, which throws when there is a file again.
BindServer(p) ==
    /\ proc[p] = "binding"
    /\ \/ /\ path = Nobody
          /\ path' = p
          /\ listening' = [listening EXCEPT ![p] = TRUE]
          /\ Go(p, "primary")
       \/ /\ path # Nobody
          /\ Go(p, "failed")
          /\ UNCHANGED <<path, listening>>
    /\ UNCHANGED <<peer, conn, launches, forwarded, ends>>

-----------------------------------------------------------------------------
(* The primary                                                             *)

\* The application listens to launches().
Subscribe(p) ==
    /\ proc[p] = "primary"
    /\ launches[p] = "unheard"
    /\ launches' = [launches EXCEPT ![p] = "heard"]
    /\ UNCHANGED <<proc, path, listening, peer, conn, forwarded, ends>>

\* The listener takes a connection from the backlog.
TakePeer(p) ==
    /\ listening[p]
    /\ \E q \in Procs :
          /\ peer[q] = p /\ conn[q] = "queued"
          /\ conn' = [conn EXCEPT ![q] = "taken"]
    /\ UNCHANGED <<proc, path, listening, peer, launches, forwarded, ends>>

\* _onPeer: the payload is complete once the other end has written and closed,
\* or died (it is then cut short), and goes to the broadcast stream: to nobody
\* when nobody listens or the controller is closed.
OnPeerOfOwner(p) ==
    /\ path = p
    /\ \E q \in Procs :
          /\ peer[q] = p /\ conn[q] = "taken"
          /\ forwarded[q] = "sent"
          /\ conn' = [conn EXCEPT ![q] = "none"]
          /\ forwarded' = [forwarded EXCEPT ![q] =
                IF launches[p] = "heard" THEN "delivered" ELSE "missed"]
    /\ UNCHANGED <<proc, path, listening, peer, launches, ends>>
OnPeer(p) ==
    /\ \E q \in Procs :
          /\ peer[q] = p /\ conn[q] = "taken"
          /\ forwarded[q] = "sent" \/ proc[q] = "dead"
          /\ conn' = [conn EXCEPT ![q] = "none"]
          /\ forwarded' = [forwarded EXCEPT ![q] =
                IF @ # "sent" THEN @
                ELSE IF launches[p] = "heard" THEN "delivered" ELSE "missed"]
    /\ UNCHANGED <<proc, path, listening, peer, launches, ends>>

\* The connections to p in one of these states are reset.
Resets(p, states) ==
    LET cut == {q \in Procs : peer[q] = p /\ conn[q] \in states}
    IN  /\ conn' = [q \in Procs |-> IF q \in cut THEN "none" ELSE conn[q]]
        /\ forwarded' = [q \in Procs |-> IF q \in cut /\ forwarded[q] = "sent"
                                           THEN "missed" ELSE forwarded[q]]

-----------------------------------------------------------------------------
(* release and dispose, which any process may call, more than once         *)

Ends == ends < MaxEnds /\ ends' = ends + 1

\* The listener, if there is one, is closed, and with it goes the backlog ...
CloseListener(p) ==
    /\ proc[p] \in Resting
    /\ Ends
    /\ Go(p, "closed")
    /\ listening' = [listening EXCEPT ![p] = FALSE]
    /\ Resets(p, {"queued"})
    /\ UNCHANGED <<path, peer, launches>>

\* ... and whatever file is at the path is deleted, if there is one; dispose
\* then closes the stream.  (existsSync and deleteSync are one step: what comes
\* between them could as well come before, and a deleteSync that finds the file
\* gone throws and leaves nothing else undone than the close of the stream.)
Unlink(p) ==
    /\ proc[p] = "closed"
    /\ path' = Nobody
    /\ Go(p, "released")
    /\ launches' \in {launches, [launches EXCEPT ![p] = "closed"]}
    /\ UNCHANGED <<listening, peer, conn, forwarded, ends>>

\* The process dies; the file stays.  (A secondary that dies is one that does
\* nothing any more.)
Crash(p) ==
    /\ proc[p] \in (Busy \cup Resting) \ {"secondary"}
    /\ Ends
    /\ Go(p, "dead")
    /\ listening' = [listening EXCEPT ![p] = FALSE]
    /\ Resets(p, {"queued", "taken"})
    /\ UNCHANGED <<path, peer, launches>>

-----------------------------------------------------------------------------
Step(p) ==
    Forward(p) \/ Stale(p) \/ Delete(p) \/ BindServer(p) \/ Unlink(p)
Receives(p) == TakePeer(p) \/ OnPeer(p)

Overlapping == \E p, q \in Procs : p # q /\ proc[p] \in Busy /\ proc[q] \in Busy

\* A release that deletes the socket of another process that listens on it.
Trespasses(p) == Unlink(p) /\ path # p /\ Answers

ClaimsNext ==
    /\ \E p \in Procs :
          \/ ConnectPeer(p) \/ Step(p) \/ Subscribe(p) \/ Receives(p)
          \/ CloseListener(p) \/ Crash(p)
    /\ raced' = (raced \/ Overlapping')
    /\ trespassed' = (trespassed \/ \E p \in Procs : Trespasses(p))

ClaimsSpec == ClaimsInit /\ [][ClaimsNext]_<<claimsVars, observed>>

\* A living process goes on with its own calls and callbacks.
FairSpec ==
    ClaimsSpec /\ \A p \in Procs : WF_claimsVars(Step(p) \/ Receives(p))

-----------------------------------------------------------------------------
(* Properties                                                              *)

\* A process that was told it is the primary is the one the socket leads to,
\* so the next launch reaches it (and there is at most one), and claim() throws
\* at nobody, whatever stale socket a crash left.  Only two things can take
\* the path from a primary, and both are excepted: claims or releases that
\* overlapped, and a release() or dispose() by a process the path does not
\* belong to (a secondary, or one that was released before), which deletes the
\* file all the same.
PrimaryReachable ==
    ~raced /\ ~trespassed =>
        \A p \in Procs :
            /\ proc[p] = "primary" => path = p /\ listening[p]
            /\ proc[p] # "failed"

Hears(q) == q \in Procs /\ proc[q] = "primary" /\ launches[q] = "heard"

\* A launch sent to a primary that is listened to reaches the application, also
\* when another launch took the path from that primary meanwhile, unless the
\* primary dies or is released first; and no launch is left waiting.  (One that
\* is joined before anybody listens is heard by nobody, and one that was still
\* in the backlog at a release is lost.)
LaunchesArrive ==
    \A p \in Procs :
        forwarded[p] = "sent" ~>
            \/ forwarded[p] = "delivered"
            \/ forwarded[p] # "sent" /\ ~Hears(peer[p])
=============================================================================
