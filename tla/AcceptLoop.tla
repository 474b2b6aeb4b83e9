----------------------------- MODULE AcceptLoop -----------------------------
(***************************************************************************)
(* The daemon's server: server::run, its accept loop, the peer policy the  *)
(* listener judges every connection by, and the log of refused peers.      *)
(*                                                                         *)
(* Time is discrete.  One tick stands for the loop's first backoff step    *)
(* (100 ms in the code); Window and BackoffCap are in ticks as well.       *)
(***************************************************************************)
EXTENDS Integers, Sequences

CONSTANTS
    Peers,        \* connections that local processes may open
    Cred,         \* Cred[p]: the uid and gid SO_PEERCRED reports for p
    Policies,     \* peer policies the product may have declared (see NoPolicy)
    NoPolicy,     \* the product declared none
    Window,       \* REFUSAL_LOG_WINDOW
    BackoffUnit,  \* 100 ms
    BackoffCap,   \* 2 s
    MaxTime,      \* bound: no accept error and no idle tick from then on
    None          \* no time yet

ASSUME AcceptLoopAssumption ==
    /\ Window \in Nat \ {0}
    /\ BackoffUnit \in Nat \ {0}
    /\ BackoffCap \in Nat
    /\ BackoffUnit <= BackoffCap
    /\ MaxTime \in Nat
    /\ Cred \in [Peers -> [uid : Nat, gid : Nat]]
    /\ None \notin Nat

VARIABLES
    loop,         \* program point of server::run
    policy,       \* the endpoint's PeerPolicy
    shutdown,     \* the shutdown future has resolved
    now,          \* Instant::now()
    falhas,       \* falhas_seguidas
    wake,         \* when the backoff sleep ends
    last_line,    \* RefusalLog::last_line
    silenced,     \* RefusalLog::silenced
    backlog,      \* connections waiting for accept, oldest first
    conn,         \* conn[p]: what became of the connection
    lines,        \* observation: the times at which a refusal got a line
    reported,     \* observation: sum of the counts those lines carried
    refusals,     \* observation: peers refused so far
    streak        \* observation: when the current run of failures began

logVars == <<last_line, silenced, lines, reported, refusals>>
backoffVars == <<falhas, wake, streak>>
vars == <<loop, policy, shutdown, now, backoffVars, logVars, backlog, conn>>

ConnStates == {"away", "backlog", "serving", "refused", "ended", "killed"}

TypeOK ==
    /\ loop \in {"prepare", "bind", "select", "sleeping", "done", "exited"}
    /\ policy \in Policies \cup {NoPolicy}
    /\ shutdown \in BOOLEAN
    /\ now \in Nat
    /\ falhas \in Nat
    /\ wake \in Nat
    /\ last_line \in Nat \cup {None}
    /\ silenced \in Nat
    /\ backlog \in Seq(Peers)
    /\ conn \in [Peers -> ConnStates]
    /\ lines \in Seq(Nat)
    /\ reported \in Nat
    /\ refusals \in Nat
    /\ streak \in Nat

Init ==
    /\ loop = "prepare"
    /\ policy \in Policies \cup {NoPolicy}
    /\ shutdown = FALSE
    /\ now = 0
    /\ falhas = 0
    /\ wake = 0
    /\ last_line = None
    /\ silenced = 0
    /\ backlog = <<>>
    /\ conn = [p \in Peers |-> "away"]
    /\ lines = <<>>
    /\ reported = 0
    /\ refusals = 0
    /\ streak = 0

-----------------------------------------------------------------------------
(* The peer policy                                                         *)

\* PeerPolicy::admits, behind judge: no policy admits nobody.
Admits(pol, cred) ==
    pol # NoPolicy /\ (cred.uid \in pol.uids \/ cred.gid \in pol.gids)

-----------------------------------------------------------------------------
(* RefusalLog                                                              *)

\* refused(now) returns None: the refusal falls in the window of the last
\* line and is only counted.
InWindow(t) == last_line # None /\ t - last_line < Window

Silence(t) ==
    /\ InWindow(t)
    /\ silenced' = silenced + 1
    /\ UNCHANGED <<last_line, lines, reported>>

\* refused(now) returns the count so far: the refusal gets its line, which
\* reports the silenced ones and starts the next window.
WriteLineForgets(t) ==
    /\ ~InWindow(t)
    /\ last_line' = t
    /\ silenced' = 0
    /\ lines' = Append(lines, t)
    /\ UNCHANGED reported
WriteLineEarly(t) ==
    /\ last_line' = t
    /\ silenced' = 0
    /\ lines' = Append(lines, t)
    /\ reported' = reported + silenced
WriteLine(t) ==
    /\ ~InWindow(t)
    /\ last_line' = t
    /\ silenced' = 0
    /\ lines' = Append(lines, t)
    /\ reported' = reported + silenced

-----------------------------------------------------------------------------
(* server::run                                                             *)

\* app.prepare() and incoming(): either may fail, and run returns the error
\* without having listened.
Prepare ==
    /\ loop = "prepare"
    /\ loop' \in {"bind", "exited"}
    /\ UNCHANGED <<policy, shutdown, now, backoffVars, logVars, backlog, conn>>

Bind ==
    /\ loop = "bind"
    /\ loop' \in {"select", "exited"}
    /\ UNCHANGED <<policy, shutdown, now, backoffVars, logVars, backlog, conn>>

\* select!: the stream yields a connection the policy admits.
AcceptPeer ==
    /\ loop = "select"
    /\ backlog # <<>>
    /\ Admits(policy, Cred[Head(backlog)])
    /\ falhas' = 0
    /\ conn' = [conn EXCEPT ![Head(backlog)] = "serving"]
    /\ backlog' = Tail(backlog)
    /\ UNCHANGED <<loop, policy, shutdown, now, wake, streak, logVars>>

\* select!: the stream yields AcceptError::PeerRefused; the connection is
\* dropped and the loop goes on at once.
RefusePeer ==
    /\ loop = "select"
    /\ backlog # <<>>
    /\ ~Admits(policy, Cred[Head(backlog)])
    /\ conn' = [conn EXCEPT ![Head(backlog)] = "refused"]
    /\ backlog' = Tail(backlog)
    /\ refusals' = refusals + 1
    /\ Silence(now) \/ WriteLine(now)
    /\ UNCHANGED <<loop, policy, shutdown, now, backoffVars>>

Backoff(n) == IF BackoffUnit * n <= BackoffCap THEN BackoffUnit * n ELSE BackoffCap

\* select!: accept failed (descriptors exhausted, say); the loop sleeps, and
\* polls neither the listener nor shutdown until it wakes.
AcceptFails ==
    /\ loop = "select"
    /\ now < MaxTime
    /\ falhas' = falhas + 1
    /\ wake' = now + Backoff(falhas + 1)
    /\ streak' = IF falhas = 0 THEN now ELSE streak
    /\ loop' = "sleeping"
    /\ UNCHANGED <<policy, shutdown, now, logVars, backlog, conn>>

WakeKeepsPolling ==
    /\ loop = "sleeping"
    /\ loop' = "select"
    /\ UNCHANGED <<policy, shutdown, now, backoffVars, logVars, backlog, conn>>
Wake ==
    /\ loop = "sleeping"
    /\ now >= wake
    /\ loop' = "select"
    /\ UNCHANGED <<policy, shutdown, now, backoffVars, logVars, backlog, conn>>

\* select!: shutdown resolved, or the stream ended.  The refusals that have
\* no line of their own get one together.
Leave ==
    /\ loop' = "done"
    /\ reported' = reported + silenced
    /\ UNCHANGED <<last_line, silenced, lines, refusals>>

ShutDownOnlyWhenHealthy ==
    /\ loop = "select"
    /\ shutdown
    /\ falhas = 0
    /\ Leave
    /\ UNCHANGED <<policy, shutdown, now, backoffVars, backlog, conn>>
ShutDown ==
    /\ loop = "select"
    /\ shutdown
    /\ Leave
    /\ UNCHANGED <<policy, shutdown, now, backoffVars, backlog, conn>>

\* The XPC listener's stream ends when its sink closes; a socket's never does.
IncomingEnds ==
    /\ loop = "select"
    /\ Leave
    /\ UNCHANGED <<policy, shutdown, now, backoffVars, backlog, conn>>

\* run returned: the runtime goes, with the connection tasks still in it and
\* the connections nobody accepted.
Exit ==
    /\ loop = "done"
    /\ loop' = "exited"
    /\ conn' = [p \in Peers |->
                  IF conn[p] \in {"serving", "backlog"} THEN "killed" ELSE conn[p]]
    /\ backlog' = <<>>
    /\ UNCHANGED <<policy, shutdown, now, backoffVars, logVars>>

-----------------------------------------------------------------------------
(* The surroundings                                                        *)

Connect(p) ==
    /\ loop \in {"select", "sleeping"}
    /\ conn[p] = "away"
    /\ conn' = [conn EXCEPT ![p] = "backlog"]
    /\ backlog' = Append(backlog, p)
    /\ UNCHANGED <<loop, policy, shutdown, now, backoffVars, logVars>>

\* handle_conn returns (PrivilegedConnection is about what it does).
ConnectionEnds(p) ==
    /\ conn[p] = "serving"
    /\ conn' = [conn EXCEPT ![p] = "ended"]
    /\ UNCHANGED <<loop, policy, shutdown, now, backoffVars, logVars, backlog>>

SignalShutdown ==
    /\ loop \in {"select", "sleeping"}
    /\ ~shutdown
    /\ shutdown' = TRUE
    /\ UNCHANGED <<loop, policy, now, backoffVars, logVars, backlog, conn>>

Tick ==
    /\ loop \in {"select", "sleeping"}
    /\ now < MaxTime \/ (loop = "sleeping" /\ now < wake)
    /\ now' = now + 1
    /\ UNCHANGED <<loop, policy, shutdown, backoffVars, logVars, backlog, conn>>

Gone == loop = "exited" /\ UNCHANGED vars

Next ==
    \/ Prepare \/ Bind
    \/ AcceptPeer \/ RefusePeer \/ AcceptFails \/ Wake
    \/ ShutDown \/ IncomingEnds \/ Exit
    \/ \E p \in Peers : Connect(p) \/ ConnectionEnds(p)
    \/ SignalShutdown \/ Tick
    \/ Gone

\* Time passes and a sleeping task is woken.  select! polls its branches in
\* random order, so a branch that is ready again and again is taken, also
\* past accept errors (which are not assumed to last for ever).
Fairness ==
    /\ WF_vars(Tick)
    /\ WF_vars(Wake)
    /\ SF_vars(ShutDown)
    /\ SF_vars(AcceptPeer \/ RefusePeer)
    /\ WF_vars(Exit)

Spec == Init /\ [][Next]_vars
FairSpec == Spec /\ Fairness

-----------------------------------------------------------------------------
(* Properties                                                              *)

\* No refusal goes unaccounted: each has its own line, is in the count of a
\* later line, or is still in the counter; once the loop has ended the
\* counter has been reported too (the "recusas sem linha propria" line).
RefusalsAccounted ==
    refusals = IF loop \in {"done", "exited"}
               THEN Len(lines) + reported
               ELSE Len(lines) + reported + silenced

\* A flood of refused peers writes at most one line per window
\* (REFUSAL_LOG_WINDOW), however the refusals and accept errors interleave.
OneLinePerWindow ==
    \A i \in 1..Len(lines), j \in 1..Len(lines) :
        i < j => lines[j] - lines[i] >= Window

\* The waits of the first n failures in a row add up to this much.
BackoffSum[n \in Nat] == IF n = 0 THEN 0 ELSE BackoffSum[n - 1] + Backoff(n)

\* The loop does not spin on a persistent accept error: when it polls the
\* listener after n failures in a row, all n waits have gone by since the
\* first of them, refused peers in between notwithstanding.
NoSpin ==
    loop = "select" /\ falhas > 0 => now - streak >= BackoffSum[falhas]

\* Asked to stop, the daemon stops, whatever it was waiting for; and while it
\* was not, a connection in the backlog is accepted or refused, or the daemon
\* ends: a refused peer or an accept error before it does not starve it.
LoopProgresses ==
    /\ (shutdown /\ loop \in {"select", "sleeping"}) ~> (loop = "exited")
    /\ \A p \in Peers : (conn[p] = "backlog") ~> (conn[p] # "backlog")
=============================================================================
