--------------------------- MODULE WindowsService ---------------------------
(***************************************************************************)
(* The daemon as a Windows service: service_main with its worker thread    *)
(* (service/windows/mod.rs), and the command-line modes that install,      *)
(* repair, stop and uninstall it (install.rs, control.rs), any of which    *)
(* may run at the same time as another.                                    *)
(*                                                                         *)
(* The service control manager is external: it keeps one state per         *)
(* service, starts the process, delivers Stop only to a running service,   *)
(* restarts one that ended with a failure and removes one marked for       *)
(* deletion once it is stopped and no handle to it is open.  So is another *)
(* daemon of the product, run with --foreground, that may have the pipe.   *)
(***************************************************************************)
EXTENDS Naturals

CONSTANTS
    Commands,    \* runs of the command-line modes
    MaxStarts    \* bound: starts of the service process

ASSUME ServiceAssumption == MaxStarts \in Nat

VARIABLES
    exists,      \* the service is registered
    marked,      \* ... and marked for deletion
    state,       \* the state the SCM reports
    failed,      \* its last end was a failure, so the SCM will restart it
    starts,      \* processes started so far
    main,        \* service_main: where run() stands
    worker,      \* the thread that runs server::run
    stop,        \* a message is in the stop channel
    other,       \* another daemon has the pipe of that name
    requested,   \* observation: an administrator's stop was accepted
    shadowed,    \* observation: Running was reported on another daemon's pipe
    mode,        \* mode[c]: what command c does
    pc,          \* pc[c]: where it stands
    answer       \* answer[c]: the exit code it returned

scm == <<exists, marked, state, failed, starts>>
seen == <<requested, shadowed>>
process == <<main, worker, stop, seen>>
commands == <<mode, pc, answer>>
scmVars == <<scm, process, other, commands>>

Modes == {"install", "uninstall", "stop", "repair"}
Points == {"idle", "start", "wait_running", "stop", "wait_stopped", "remove",
           "ended"}
Codes == {"OK", "FAILED", "NOT_INSTALLED", "NEEDS_ELEVATION",
          "SCM_ACCESS_DENIED", "REGISTER_FAILED", "MISSING_DEPENDENCY",
          "START_TIMEOUT", "START_FAILED"}

\* How server::run ends: drained, before it listened, or after.
Ended == {"done", "failed", "broken"}

TypeOK ==
    /\ exists \in BOOLEAN
    /\ marked \in BOOLEAN
    /\ state \in {"stopped", "start_pending", "running"}
    /\ failed \in BOOLEAN
    /\ starts \in 0..MaxStarts
    /\ main \in {"none", "begin", "poll", "join", "lost"}
    /\ worker \in {"none", "preparing", "accepting"} \cup Ended
    /\ stop \in BOOLEAN
    /\ other \in BOOLEAN
    /\ requested \in BOOLEAN
    /\ shadowed \in BOOLEAN
    /\ mode \in [Commands -> Modes]
    /\ pc \in [Commands -> Points]
    /\ answer \in [Commands -> Codes \cup {"none"}]

ScmInit ==
    /\ exists \in BOOLEAN
    /\ marked = FALSE
    /\ state = "stopped"
    /\ failed = FALSE
    /\ starts = 0
    /\ main = "none"
    /\ worker = "none"
    /\ stop = FALSE
    /\ other \in BOOLEAN
    /\ requested = FALSE
    /\ shadowed = FALSE
    /\ mode \in [Commands -> Modes]
    /\ pc = [c \in Commands |-> "idle"]
    /\ answer = [c \in Commands |-> "none"]

-----------------------------------------------------------------------------
(* The process                                                             *)

\* What StartService does to a stopped service.
Launch ==
    /\ state = "stopped"
    /\ main = "none"
    /\ starts < MaxStarts
    /\ starts' = starts + 1
    /\ state' = "start_pending"
    /\ failed' = FALSE
    /\ main' = "begin"
    /\ UNCHANGED <<worker, stop, seen>>

\* run() registers the control handler, reports StartPending and spawns the
\* worker.  A step that fails returns at once, with nothing more reported.
BeginMain ==
    /\ main = "begin"
    /\ \/ main' = "poll" /\ worker' = "preparing"
       \/ main' = "lost" /\ UNCHANGED worker
    /\ UNCHANGED <<scm, stop, seen, other, commands>>

\* server::run in the worker: prepare and bind, or their error.  The first
\* instance of a pipe is refused to the second daemon that asks for it.
Prepare ==
    /\ worker = "preparing"
    /\ \/ ~other /\ worker' = "accepting"
       \/ worker' = "failed"
    /\ UNCHANGED <<scm, main, stop, seen, other, commands>>

\* The worker panics or returns an error after it has listened.
WorkerBreaks ==
    /\ worker = "accepting"
    /\ worker' = "broken"
    /\ UNCHANGED <<scm, main, stop, seen, other, commands>>

\* The accept loop ends when the stop channel delivers.
Drain ==
    /\ worker = "accepting"
    /\ stop
    /\ worker' = "done"
    /\ UNCHANGED <<scm, main, stop, seen, other, commands>>

\* endpoint_pronto finds a pipe of that name, whoever has it, and is asked
\* before worker.is_finished: the service reports Running.  A report the SCM
\* refuses makes run() return.
Ready ==
    /\ main = "poll"
    /\ worker = "accepting" \/ other
    /\ \/ /\ main' = "join" /\ state' = "running"
          /\ shadowed' = (worker # "accepting")
       \/ main' = "lost" /\ UNCHANGED <<state, shadowed>>
    /\ UNCHANGED <<exists, marked, failed, starts, worker, stop, requested,
                   other, commands>>

ReportAnyway ==
    /\ main = "poll"
    /\ main' = "join"
    /\ state' = "running"
    /\ UNCHANGED <<exists, marked, failed, starts, worker, stop, seen, other,
                   commands>>
WaitForWorker ==
    /\ main = "poll"
    /\ main' = "join"
    /\ UNCHANGED <<scm, worker, stop, seen, other, commands>>
\* The worker is finished or 20 seconds are over: no Running, and a stop for
\* whatever the worker is still doing.
GiveUp ==
    /\ main = "poll"
    /\ main' = "join"
    /\ stop' = TRUE
    /\ UNCHANGED <<scm, worker, seen, other, commands>>

JoinSucceeds ==
    /\ main = "join"
    /\ worker \in Ended
    /\ state' = "stopped"
    /\ failed' = (worker # "done")
    /\ main' = "none"
    /\ worker' = "none"
    /\ stop' = FALSE
    /\ requested' = FALSE
    /\ shadowed' = FALSE
    /\ UNCHANGED <<exists, marked, starts, other, commands>>
\* The worker is joined and Stopped reported: success only for a worker that
\* ended well in a service that was Running.
Join ==
    /\ main = "join"
    /\ worker \in Ended
    /\ failed' = ~(worker = "done" /\ state = "running")
    /\ state' = "stopped"
    /\ main' = "none"
    /\ worker' = "none"
    /\ stop' = FALSE
    /\ requested' = FALSE
    /\ shadowed' = FALSE
    /\ UNCHANGED <<exists, marked, starts, other, commands>>

\* The process dies without a report.
CrashProcess ==
    /\ main # "none"
    /\ main' = "none"
    /\ worker' = "none"
    /\ stop' = FALSE
    /\ requested' = FALSE
    /\ shadowed' = FALSE
    /\ state' = "stopped"
    /\ failed' = TRUE
    /\ UNCHANGED <<exists, marked, starts, other, commands>>

\* A daemon run by hand opens the pipe, which it can while this one does not
\* have it, and lets it go.
OtherDaemon ==
    /\ other \/ worker # "accepting"
    /\ other' = ~other
    /\ UNCHANGED <<scm, process, commands>>

-----------------------------------------------------------------------------
(* The service control manager                                             *)

\* The failure actions restart a service that ended with a failure.
Recover ==
    /\ exists /\ ~marked
    /\ failed
    /\ Launch
    /\ UNCHANGED <<exists, marked, other, commands>>

Holds(c) == pc[c] \in {"start", "wait_running", "wait_stopped"}
Removable == marked /\ state = "stopped" /\ \A c \in Commands : ~Holds(c)

Remove ==
    /\ exists /\ Removable
    /\ exists' = FALSE
    /\ marked' = FALSE
    /\ failed' = FALSE
    /\ UNCHANGED <<state, starts, process, other, commands>>

-----------------------------------------------------------------------------
(* The commands                                                            *)

Go(c, point) == pc' = [pc EXCEPT ![c] = point] /\ UNCHANGED <<mode, answer>>
Answer(c, code) ==
    /\ pc' = [pc EXCEPT ![c] = "ended"]
    /\ answer' = [answer EXCEPT ![c] = code]
    /\ UNCHANGED mode

\* registrar: the service is created, or reconfigured when there is one; one
\* marked for deletion, and a refusal of the SCM, end the command.
Install(c) ==
    /\ pc[c] = "idle" /\ mode[c] = "install"
    /\ \/ /\ ~marked
          /\ exists' = TRUE
          /\ Go(c, "start")
       \/ /\ UNCHANGED exists
          /\ Answer(c, "REGISTER_FAILED")
       \/ /\ ~marked
          /\ UNCHANGED exists
          /\ Answer(c, "SCM_ACCESS_DENIED")
    /\ UNCHANGED <<marked, state, failed, starts, process, other>>

\* reparar: a running service needs nothing.
Repair(c) ==
    /\ pc[c] = "idle" /\ mode[c] = "repair"
    /\ \/ ~exists /\ Answer(c, "NOT_INSTALLED")
       \/ exists /\ (Answer(c, "NEEDS_ELEVATION") \/ Answer(c, "FAILED"))
       \/ exists /\ state = "running" /\ Answer(c, "OK")
       \/ exists /\ state # "running" /\ Go(c, "start")
    /\ UNCHANGED <<scm, process, other>>

Denied(c) == IF mode[c] = "install" THEN "SCM_ACCESS_DENIED" ELSE "NEEDS_ELEVATION"

\* iniciar_e_aguardar: StartService; one that is not stopped is already
\* running to the SCM, one marked for deletion is refused.
Start(c) ==
    /\ pc[c] = "start"
    /\ \/ /\ ~marked /\ Launch
          /\ Go(c, "wait_running")
       \/ /\ ~marked /\ state # "stopped"
          /\ Go(c, "wait_running")
          /\ UNCHANGED <<state, failed, starts, process>>
       \/ /\ Answer(c, Denied(c)) \/ Answer(c, "MISSING_DEPENDENCY")
             \/ Answer(c, "START_FAILED")
          /\ UNCHANGED <<state, failed, starts, process>>
    /\ UNCHANGED <<exists, marked, other>>

\* ... and the polls for RUNNING, at most 45 seconds of them.
SeeStarted(c) ==
    /\ pc[c] = "wait_running"
    /\ \/ state = "running" /\ Answer(c, "OK")
       \/ state = "stopped" /\ Answer(c, "START_FAILED")
    /\ UNCHANGED <<scm, process, other>>

StartTimeout(c) ==
    /\ pc[c] = "wait_running"
    /\ Answer(c, "START_TIMEOUT")
    /\ UNCHANGED <<scm, process, other>>

\* parar_e_aguardar ends; uninstall goes on to remover whatever came of it.
StopEnds(c, code) ==
    IF mode[c] = "uninstall" THEN Go(c, "remove") ELSE Answer(c, code)

\* ControlService(STOP): the handler of a running service puts a message in
\* the channel; a service that is starting does not accept the control.
Stop(c) ==
    /\ pc[c] = "idle" /\ mode[c] \in {"stop", "uninstall"}
    /\ \/ /\ exists /\ state = "running"
          /\ stop' = TRUE
          /\ requested' = TRUE
          /\ Go(c, "wait_stopped")
          /\ UNCHANGED <<main, worker, shadowed>>
       \/ /\ ~exists \/ state = "stopped"
          /\ StopEnds(c, "OK")
          /\ UNCHANGED process
       \/ /\ StopEnds(c, "FAILED")
          /\ UNCHANGED process
    /\ UNCHANGED <<scm, other>>

\* ... and the polls for STOPPED, at most 15 seconds of them.
SeeStopped(c) ==
    /\ pc[c] = "wait_stopped"
    /\ state = "stopped"
    /\ StopEnds(c, "OK")
    /\ UNCHANGED <<scm, process, other>>

StopTimeout(c) ==
    /\ pc[c] = "wait_stopped"
    /\ StopEnds(c, "FAILED")
    /\ UNCHANGED <<scm, process, other>>

\* remover: DeleteService marks the service.
Delete(c) ==
    /\ pc[c] = "remove"
    /\ \/ ~exists /\ UNCHANGED marked /\ Answer(c, "OK")
       \/ exists /\ ~marked /\ marked' = TRUE /\ Answer(c, "OK")
       \/ exists /\ UNCHANGED marked /\ Answer(c, "FAILED")
    /\ UNCHANGED <<exists, state, failed, starts, process, other>>

-----------------------------------------------------------------------------
ScmNext ==
    \/ BeginMain \/ Prepare \/ WorkerBreaks \/ Drain \/ Ready \/ GiveUp \/ Join
    \/ CrashProcess \/ OtherDaemon \/ Recover \/ Remove
    \/ \E c \in Commands :
          \/ Install(c) \/ Repair(c) \/ Start(c) \/ SeeStarted(c)
          \/ StartTimeout(c) \/ Stop(c) \/ SeeStopped(c) \/ StopTimeout(c)
          \/ Delete(c)

ScmSpec == ScmInit /\ [][ScmNext]_scmVars

\* The threads of the process run; deadlines expire; a command that was
\* started is run.  Nothing is assumed of the product's prepare(), which has
\* no deadline, of the SCM's restarts, of crashes, or of the pipe being found.
Fairness ==
    /\ WF_scmVars(BeginMain) /\ WF_scmVars(Drain)
    /\ WF_scmVars(GiveUp) /\ WF_scmVars(Join)
    /\ \A c \in Commands :
          /\ WF_scmVars(Start(c)) /\ WF_scmVars(SeeStarted(c))
          /\ WF_scmVars(StartTimeout(c)) /\ WF_scmVars(SeeStopped(c))
          /\ WF_scmVars(StopTimeout(c)) /\ WF_scmVars(Delete(c))

FairSpec == ScmSpec /\ Fairness

-----------------------------------------------------------------------------
(* Properties                                                              *)

\* A service the SCM calls running listens, unless it was asked to stop or its
\* worker broke afterwards, which service_main is about to report: Running is
\* reported by one thread, listening is done by another.  The exception is a
\* Running that was reported because another daemon had the pipe: run() asks
\* for the name, so that it says nothing of its own worker.
RunningMeansListening ==
    state = "running" /\ ~shadowed =>
        /\ main = "join"
        /\ worker \in {"accepting", "broken"} \/ (requested /\ worker = "done")
        /\ stop => requested

\* The code reported with Stopped decides whether the SCM starts the service
\* again.  A success, which stays stopped, is reported exactly for a stop that
\* somebody asked for and that the worker followed.  Every other end of run()
\* is retried: a start that timed out, and also a stop somebody asked for of a
\* service whose worker failed or broke.
ExitTruthful ==
    [][Join => (failed' <=> ~(requested /\ worker = "done"))]_scmVars

\* As long as prepare() comes back: a start comes to an end, Running or
\* Stopped, and a stop that was accepted ends the process, because service_main
\* joins a worker that waits for the stop channel, and somebody always writes
\* to it.  A Running service whose worker is gone is reported Stopped.  And
\* every command that polls for one or the other returns, whatever the service
\* and its prepare() do.
ServiceSettles ==
    /\ []<>(worker # "preparing") =>
          /\ state = "start_pending" ~> (state # "start_pending" \/ main = "lost")
          /\ requested ~> main = "none"
    /\ state = "running" /\ worker \in Ended ~> state = "stopped"
    /\ \A c \in Commands :
          pc[c] \in {"start", "wait_running", "wait_stopped", "remove"}
              ~> pc[c] = "ended"
=============================================================================
