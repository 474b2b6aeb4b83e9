--------------------------- MODULE LocalEndpoint ---------------------------
(***************************************************************************)
(* dovetail_privileged_channel and dovetail_privileged_daemon on Linux and *)
(* Windows: how a daemon takes its endpoint (a socket path, or a named     *)
(* pipe), what a client finds there, and who is let in; and the commands   *)
(* that drive the systemd unit.                                            *)
(*                                                                         *)
(* Two processes may want the endpoint at once: the unit's, and one run    *)
(* with --foreground.  Every call on the file system is a step.            *)
(***************************************************************************)
EXTENDS Naturals, FiniteSets

CONSTANTS
    Service, Foreground,  \* the two daemons
    Clients, Roots,       \* processes that connect, and those that are root's
    Admitted,             \* those the product's policy names, or that run from the
                          \* helper's own folder
    MaxStarts,            \* bound: daemons started by hand or by systemd
    MaxCommands,          \* bound: commands run on the unit
    MaxFaults             \* bound: calls that fail and processes that are killed

ASSUME EndpointAssumption ==
    /\ {Roots, Admitted} \subseteq SUBSET Clients
    /\ Service # Foreground /\ "none" \notin {Service, Foreground}

VARIABLES
    platform,   \* "linux" or "windows"
    policy,     \* did the product declare a PeerPolicy
    at,         \* where each daemon is
    sock,       \* the socket path: [there, owner, mode]; owner None is a dead one
    pending,    \* windows: each daemon's pipe instance that waits for a client
    link,       \* each client's connection: [st, to]
    last,       \* the daemon that bound last
    orphaned,   \* did a daemon remove the path and die before it bound its own
    unit,       \* systemd: [found, enabled]
    cmd,        \* the command on the unit: [op, pc, root, exit, fault]
    count       \* [starts, commands, faults, deaths]

vars == <<platform, policy, at, sock, pending, link, last, orphaned, unit, cmd, count>>

None == "none"
Daemons == {Service, Foreground}
NoSocket == [there |-> FALSE, owner |-> None, mode |-> "default"]
NoLink == [st |-> "idle", to |-> None]
Idle == [op |-> "status", pc |-> "idle", root |-> FALSE, exit |-> "none", fault |-> FALSE]
Ops == {"install", "uninstall", "stop", "repair", "status"}

Init ==
    /\ platform \in {"linux", "windows"}
    /\ policy \in BOOLEAN
    /\ at = [d \in Daemons |-> "down"]
    /\ sock \in {NoSocket, [NoSocket EXCEPT !.there = TRUE]}
    /\ pending = [d \in Daemons |-> "none"]
    /\ link = [c \in Clients |-> NoLink]
    /\ last = None /\ orphaned = FALSE
    /\ unit \in [found: BOOLEAN, enabled: {FALSE}]
    /\ cmd = Idle
    /\ count = [starts |-> 0, commands |-> 0, faults |-> 0, deaths |-> 0]

-----------------------------------------------------------------------------
(* A daemon comes and goes                                                 *)

Starts(d) ==
    /\ at[d] = "down" /\ count.starts < MaxStarts
    /\ at' = [at EXCEPT ![d] = IF platform = "linux" THEN "dir" ELSE "bind"]

\* The listener is dropped: the path stays, and names nobody; who was not
\* taken yet may connect again.
UnlinksItsPath(d) ==
    /\ at' = [at EXCEPT ![d] = "down"]
    /\ sock' = IF at[d] \in {"chmod", "up"} THEN NoSocket ELSE sock
    /\ pending' = [pending EXCEPT ![d] = "none"]
    /\ link' = [c \in Clients |-> IF link[c].to = d THEN NoLink ELSE link[c]]
    /\ orphaned' = (orphaned \/ (at[d] = "rebind" /\ ~sock.there))
Dies(d) ==
    /\ at' = [at EXCEPT ![d] = "down"]
    /\ sock' = IF sock.owner = d THEN [sock EXCEPT !.owner = None] ELSE sock
    /\ pending' = [pending EXCEPT ![d] = "none"]
    /\ link' = [c \in Clients |-> IF link[c].to = d THEN NoLink ELSE link[c]]
    /\ orphaned' = (orphaned \/ (at[d] = "rebind" /\ ~sock.there))

StartForeground ==
    /\ Starts(Foreground)
    /\ count' = [count EXCEPT !.starts = @ + 1]
    /\ UNCHANGED <<platform, policy, sock, pending, link, last, orphaned, unit, cmd>>

\* A call of the bind fails, a signal, or a crash.
Killed(d) ==
    /\ at[d] # "down" /\ count.faults < MaxFaults
    /\ Dies(d)
    /\ count' = [count EXCEPT !.faults = @ + 1, !.deaths = @ + 1]
    /\ UNCHANGED <<platform, policy, last, unit, cmd>>

-----------------------------------------------------------------------------
(* LinuxListener::bind                                                     *)

\* socket_modes
SocketModes == IF policy THEN "everyone" ELSE "owner"

BindEnv == <<platform, policy, unit, cmd>>
Goes(d, place) == at' = [at EXCEPT ![d] = place]

\* `?`: bind returns the error, and the daemon ends.
GivesUp(d) ==
    /\ Dies(d)
    /\ UNCHANGED <<last, count>>

\* prepare_socket_path: the directory, then the look at the path...
PrepareDirectory(d) ==
    /\ at[d] = "dir"
    /\ Goes(d, "exists")
    /\ UNCHANGED <<BindEnv, sock, pending, link, last, orphaned, count>>
PathExists(d) ==
    /\ at[d] = "exists"
    /\ Goes(d, IF sock.there THEN "remove" ELSE "bind")
    /\ UNCHANGED <<BindEnv, sock, pending, link, last, orphaned, count>>
\* ... and remove_file, whoever listens there.
RemovePath(d) ==
    /\ at[d] = "remove"
    /\ \/ /\ sock.there
          /\ sock' = NoSocket /\ Goes(d, "rebind")
          /\ UNCHANGED <<pending, link, last, orphaned, count>>
       \/ ~sock.there /\ GivesUp(d)
    /\ UNCHANGED BindEnv

UnixBind(d) ==
    /\ at[d] \in {"bind", "rebind"} /\ platform = "linux"
    /\ \/ /\ ~sock.there
          /\ sock' = [there |-> TRUE, owner |-> d, mode |-> "default"]
          /\ last' = d /\ orphaned' = FALSE /\ Goes(d, "chmod")
          /\ UNCHANGED <<pending, link, count>>
       \/ sock.there /\ GivesUp(d)
    /\ UNCHANGED BindEnv

\* set_mode goes by the path, not by the socket.
SetMode(d) ==
    /\ at[d] = "chmod"
    /\ \/ /\ sock.there
          /\ sock' = [sock EXCEPT !.mode = SocketModes] /\ Goes(d, "up")
          /\ UNCHANGED <<pending, link, last, orphaned, count>>
       \/ ~sock.there /\ GivesUp(d)
    /\ UNCHANGED BindEnv

-----------------------------------------------------------------------------
(* WindowsListener: create_instance                                        *)

Instances(d) == pending[d] # "none" \/ \E c \in Clients : link[c].to = d

\* bind: the first instance of the name, or nothing.
PipeBind(d) ==
    /\ at[d] = "bind" /\ platform = "windows"
    /\ \/ /\ \A e \in Daemons : ~Instances(e)
          /\ pending' = [pending EXCEPT ![d] = "free"]
          /\ last' = d /\ Goes(d, "up")
          /\ UNCHANGED <<sock, link, orphaned, count>>
       \/ (\E e \in Daemons : Instances(e)) /\ GivesUp(d)
    /\ UNCHANGED BindEnv

\* accept, when the last instance was taken.
CreateInstance(d) ==
    /\ at[d] = "up" /\ platform = "windows" /\ pending[d] = "none"
    /\ pending' = [pending EXCEPT ![d] = "free"]
    /\ UNCHANGED <<BindEnv, at, sock, link, last, orphaned, count>>

\* take_connected: the instance goes, whatever came of the connection.
TakenWhenConnected(c, d) == IF link[c].st = "left" THEN "broken" ELSE "none"
TakeConnected(c, d) == "none"

-----------------------------------------------------------------------------
(* Clients, and accept                                                     *)

\* The file system decides on Linux; a pipe lets in one client per instance.
Reaches(c, d) ==
    IF platform = "linux"
      THEN sock.owner = d /\ (sock.mode = "everyone" \/ c \in Roots)
      ELSE pending[d] = "free"

Connect(c, d) ==
    /\ link[c] = NoLink /\ Reaches(c, d)
    /\ link' = [link EXCEPT ![c] = [st |-> "queued", to |-> d]]
    /\ pending' = IF platform = "windows" THEN [pending EXCEPT ![d] = "connected"] ELSE pending
    /\ UNCHANGED <<BindEnv, at, sock, last, orphaned, count>>

Leave(c) ==
    /\ link[c].st = "queued"
    /\ link' = [link EXCEPT ![c].st = "left"]
    /\ UNCHANGED <<BindEnv, at, sock, pending, last, orphaned, count>>

\* judge: nobody without a policy.
Judge(c) == IF policy /\ c \in Admitted THEN "admitted" ELSE "refused"
\* verify_peer: a client that left is not to be found any more.
VerifyPeer(c) ==
    IF link[c].st # "left" /\ c \in Admitted THEN "admitted" ELSE "refused"

\* LinuxListener::accept
AcceptUnix(c, d) ==
    /\ platform = "linux" /\ at[d] = "up"
    /\ link[c].to = d /\ link[c].st \in {"queued", "left"}
    /\ link' = [link EXCEPT ![c].st = Judge(c)]
    /\ UNCHANGED <<BindEnv, at, sock, pending, last, orphaned, count>>

\* WindowsListener::accept, once connect() is over, with an error for a client
\* that left or not.
AcceptPipe(c, d) ==
    /\ platform = "windows" /\ pending[d] = "connected"
    /\ link[c].to = d /\ link[c].st \in {"queued", "left"}
    /\ pending' = [pending EXCEPT ![d] = TakeConnected(c, d)]
    /\ link' = [link EXCEPT ![c].st = VerifyPeer(c)]
    /\ UNCHANGED <<BindEnv, at, sock, last, orphaned, count>>

\* A refused connection is closed at once; the conversation of an admitted one
\* ends some day.
Closed(c) ==
    /\ link[c].st \in {"admitted", "refused"}
    /\ link' = [link EXCEPT ![c] = [st |-> "gone", to |-> None]]
    /\ UNCHANGED <<BindEnv, at, sock, pending, last, orphaned, count>>

-----------------------------------------------------------------------------
(* The systemd unit                                                        *)

Exits(code, faulty) ==
    cmd' = [cmd EXCEPT !.pc = "done", !.exit = code, !.fault = faulty]

\* install, stop and uninstall ask for root first, repair asks for the unit first.
Begin(op, root) ==
    /\ platform = "linux"
    /\ cmd.pc \in {"idle", "done"} /\ count.commands < MaxCommands
    /\ LET refused == ~root /\ op \in {"install", "uninstall", "stop"}
       IN  cmd' = [op |-> op, root |-> root, fault |-> FALSE,
                   exit |-> IF refused THEN "NEEDS_ELEVATION" ELSE "none",
                   pc |-> CASE refused -> "done"
                            [] ~refused /\ op = "install" -> "change"
                            [] OTHER -> "query"]
    /\ count' = [count EXCEPT !.commands = @ + 1]
    /\ UNCHANGED <<platform, policy, at, sock, pending, link, last, orphaned, unit>>

\* status and state: `systemctl show`, LoadState before ActiveState.
State ==
    CASE ~unit.found -> {"NOT_INSTALLED"}
      [] unit.found /\ at[Service] = "down" -> {"STOPPED"}
      [] unit.found /\ at[Service] = "up" -> {"OK"}
      [] OTHER -> {"OK", "STARTING"}

\* What each command makes of the answer; an absent unit ends it.
AnsweredPlainly(answer, faulty) ==
    CASE cmd.op = "status" -> Exits(answer, faulty)
      [] cmd.op = "repair" /\ answer = "NOT_INSTALLED" -> Exits("NOT_INSTALLED", faulty)
      [] cmd.op = "repair" /\ answer # "NOT_INSTALLED" /\ ~cmd.root ->
           Exits("NEEDS_ELEVATION", faulty)
      [] OTHER -> cmd' = [cmd EXCEPT !.pc = "change", !.fault = faulty]
Answered(answer, faulty) ==
    CASE cmd.op = "status" -> Exits(answer, faulty)
      [] cmd.op # "status" /\ answer = "NOT_INSTALLED" ->
           Exits(IF cmd.op = "repair" THEN "NOT_INSTALLED" ELSE "OK", faulty)
      [] cmd.op = "repair" /\ answer # "NOT_INSTALLED" /\ ~cmd.root ->
           Exits("NEEDS_ELEVATION", faulty)
      [] OTHER -> cmd' = [cmd EXCEPT !.pc = "change", !.fault = faulty]

Query ==
    /\ cmd.pc = "query"
    /\ \E answer \in State : Answered(answer, FALSE)
    /\ UNCHANGED <<platform, policy, at, sock, pending, link, last, orphaned, unit, count>>
QueryFails ==
    /\ cmd.pc = "query" /\ count.faults < MaxFaults
    /\ Answered("UNKNOWN", TRUE)
    /\ count' = [count EXCEPT !.faults = @ + 1]
    /\ UNCHANGED <<platform, policy, at, sock, pending, link, last, orphaned, unit>>

Failure ==
    CASE cmd.op = "install" -> "REGISTER_FAILED"
      [] cmd.op = "repair" -> "START_FAILED"
      [] OTHER -> "FAILED"

\* change: systemctl enable --now, disable --now, stop, restart.
Enables(op) ==
    CASE op = "install" -> TRUE
      [] op = "uninstall" -> FALSE
      [] OTHER -> unit.enabled
StartsUnit(before) ==
    /\ IF at[Service] = "down" THEN Starts(Service) ELSE UNCHANGED at
    /\ count' = IF at[Service] = "down" THEN [before EXCEPT !.starts = @ + 1] ELSE before
    /\ UNCHANGED <<sock, pending, link, orphaned>>
StopsUnit(before) ==
    /\ Dies(Service)
    /\ count' = IF at[Service] = "down" THEN before ELSE [before EXCEPT !.deaths = @ + 1]
\* restart: a running unit goes down before it comes back.
RestartsDown ==
    /\ cmd.pc = "change" /\ cmd.op = "repair" /\ at[Service] # "down" /\ unit.found
    /\ StopsUnit(count)
    /\ UNCHANGED <<platform, policy, last, unit, cmd>>

Marked == [unit EXCEPT !.enabled = Enables(cmd.op)]
Moves(before) ==
    /\ cmd.op = "repair" => at[Service] = "down"
    /\ IF cmd.op \in {"install", "repair"} THEN StartsUnit(before) ELSE StopsUnit(before)

Change ==
    /\ cmd.pc = "change" /\ unit.found
    /\ Moves(count)
    /\ unit' = Marked
    /\ Exits("OK", cmd.fault)
    /\ UNCHANGED <<platform, policy, last>>

\* There is no such unit; or systemctl does not run, or fails after none, a part
\* or all of its work: enabled or disabled, and then started or stopped.
ChangeFails ==
    /\ cmd.pc = "change"
    /\ \/ /\ ~unit.found /\ Exits(Failure, cmd.fault)
          /\ UNCHANGED <<at, sock, pending, link, orphaned, unit, count>>
       \/ /\ unit.found /\ count.faults < MaxFaults /\ Exits(Failure, TRUE)
          /\ LET broken == [count EXCEPT !.faults = @ + 1]
             IN  \/ /\ unit' \in {unit, Marked} /\ count' = broken
                    /\ UNCHANGED <<at, sock, pending, link, orphaned>>
                 \/ unit' = Marked /\ Moves(broken)
    /\ UNCHANGED <<platform, policy, last>>

-----------------------------------------------------------------------------
Bind(d) ==
    \/ PrepareDirectory(d) \/ PathExists(d) \/ RemovePath(d) \/ UnixBind(d) \/ SetMode(d)
    \/ PipeBind(d)
Accept(d) == CreateInstance(d) \/ \E c \in Clients : AcceptUnix(c, d) \/ AcceptPipe(c, d)
Command == Query \/ QueryFails \/ RestartsDown \/ Change \/ ChangeFails

Next ==
    \/ StartForeground
    \/ \E d \in Daemons : Bind(d) \/ Accept(d) \/ Killed(d)
    \/ \E c \in Clients : Leave(c) \/ Closed(c) \/ \E d \in Daemons : Connect(c, d)
    \/ \E op \in Ops, root \in BOOLEAN : Begin(op, root)
    \/ Command

Spec ==
    /\ Init /\ [][Next]_vars
    /\ \A d \in Daemons : WF_vars(Bind(d)) /\ WF_vars(Accept(d))

-----------------------------------------------------------------------------
(* Properties                                                              *)

Settled(d) == at[d] \in {"down", "up"}

\* The daemon that bound last is the one the path leads to, with the mode the
\* policy calls for, however two daemons interleaved, whatever stale socket was
\* there and whoever died since; only a daemon that removed the path and died
\* before it bound its own can leave a live one unreachable.  And daemons that
\* race for the endpoint do not knock each other out: unless one is stopped or
\* killed, once all have settled somebody serves.
LastBinderReachable ==
    /\ \A d \in Daemons :
         platform = "linux" /\ last = d /\ at[d] = "up" /\ ~orphaned
           /\ (\A e \in Daemons : at[e] # "rebind") =>
             sock = [there |-> TRUE, owner |-> d, mode |-> SocketModes]
    /\ count.starts > 0 /\ count.deaths = 0 /\ (\A d \in Daemons : Settled(d)) =>
         \E d \in Daemons : at[d] = "up"

\* An accepting daemon always comes back to where it can take a client: nobody
\* waits in its queue, and on Windows the next instance of the pipe is there,
\* after clients that left before they were taken as well.
ListenerKeepsUp ==
    \A d \in Daemons :
      []<>(at[d] = "up" =>
             /\ \A c \in Clients : link[c].to = d => link[c].st \notin {"queued", "left"}
             /\ platform = "windows" => pending[d] = "free")

\* What a finished command on the unit says is so, whatever a command before it
\* left half done: an OK, of a command whose look at the unit failed too, leaves
\* the unit enabled or disabled as asked and a stopped one without a process;
\* and when nothing fails, an absent unit is no failure for those who want it
\* gone.
UnitReports ==
    cmd.pc = "done" =>
      /\ cmd.exit = "OK" =>
           /\ cmd.op = "install" => unit.enabled
           /\ cmd.op = "uninstall" => ~unit.enabled
           /\ cmd.op \in {"stop", "uninstall"} => at[Service] = "down"
      /\ ~cmd.fault =>
           /\ cmd.op \in {"stop", "uninstall"} /\ cmd.root => cmd.exit = "OK"
           /\ cmd.op = "repair" /\ ~unit.found => cmd.exit = "NOT_INSTALLED"
=============================================================================
