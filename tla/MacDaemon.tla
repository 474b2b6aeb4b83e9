----------------------------- MODULE MacDaemon -----------------------------
(***************************************************************************)
(* dovetail_privileged_daemon on macOS: the commands that register,        *)
(* remove, stop and repair the LaunchDaemon, launchd as they drive it, and *)
(* the boot of the daemon, which finds the code requirement its clients    *)
(* must meet in the property list or in the compiled policy.               *)
(*                                                                         *)
(* A requirement is known by a text; what the daemon thinks of a text, and *)
(* what the text really admits, are constants here and the business of     *)
(* CodeRequirement.  A command takes one step per call that can fail or be *)
(* interrupted.                                                            *)
(***************************************************************************)
EXTENDS Naturals

CONSTANTS
    Strong,         \* the texts ensure_strong lets pass
    Sound,          \* the texts only the product's code meets
    Acceptable,     \* the texts the README of the daemon allows
    Sources,        \* <<what the product's plist declares, the policy's text>>
    Foreign,        \* the text a property list of unknown origin declares
    MaxCommands,    \* bound: commands an administrator runs
    MaxFaults       \* bound: refusals, kills, crashes and reboots

VARIABLES
    sources,    \* the pair this product was built with
    plist,      \* /Library/LaunchDaemons/<label>.plist: is it there, root's, open to
                \* others' writes, whole, and what its arguments declare; tainted
                \* when an outsider holds it open or wrote what install then closed
    job,        \* launchd: is the job loaded, and is it disabled for good
    daemon,     \* the daemon process: where it is, the lstat's answer, its text, and
                \* whether the file it read was tainted
    cmd,        \* the command: where it is, run by root?, its exit code, and
                \* whether something failed under it
    count       \* [commands, faults]

vars == <<sources, plist, job, daemon, cmd, count>>

NoText == "none"           \* ProgramArguments without --peer-requirement
NoValue == "no value"      \* the flag is the last argument
Ops == {"install", "uninstall", "stop", "repair", "status"}

NoPlist == [there |-> FALSE, root |-> TRUE, open |-> FALSE, whole |-> TRUE,
            tainted |-> FALSE, declares |-> NoText]
Shipped == [NoPlist EXCEPT !.there = TRUE, !.declares = sources[1]]
Down == [at |-> "down", trusted |-> FALSE, tainted |-> FALSE, text |-> NoText]
Idle == [op |-> "status", pc |-> "idle", root |-> FALSE, exit |-> "none", fault |-> FALSE]

\* A property list may be there already: shipped, or of unknown origin (not
\* owned by root, or writable by others).
Init ==
    /\ sources \in Sources
    /\ plist \in {NoPlist, Shipped}
         \cup {[NoPlist EXCEPT !.there = TRUE, !.root = r, !.open = r, !.declares = Foreign] :
                 r \in BOOLEAN}
    /\ job = [loaded |-> FALSE, disabled |-> FALSE]
    /\ daemon = Down
    /\ cmd = Idle
    /\ count = [commands |-> 0, faults |-> 0]

-----------------------------------------------------------------------------
(* The boot of the daemon                                                  *)

\* plist_trust::closed_to_all_but_root
ClosedToOthers(p) == ~p.open
ClosedToAllButRoot(p) == p.root /\ ~p.open

\* plist_trust::system_plist_is_trusted
SystemPlistIsTrusted ==
    /\ daemon.at = "stat"
    /\ daemon' = [daemon EXCEPT !.at = "read",
                    !.trusted = plist.there /\ ClosedToAllButRoot(plist)]
    /\ UNCHANGED <<sources, plist, job, cmd, count>>

\* requirement_in_plist: a file plutil cannot read declares nothing.
RequirementInPlist(p) == IF p.there /\ p.whole THEN p.declares ELSE NoText
\* requirement_declared_by: neither does an untrusted one.
RequirementDeclaredBy(p, trusted) == IF trusted THEN RequirementInPlist(p) ELSE NoText

\* xpc_requirement: the plist before the policy.
XpcRequirement(declared) == IF declared # NoText THEN declared ELSE sources[2]

\* server::incoming: the daemon serves, or ends with an error.
Incoming ==
    /\ daemon.at = "read"
    /\ LET text == XpcRequirement(RequirementDeclaredBy(plist, daemon.trusted))
       IN  daemon' = [daemon EXCEPT !.at = IF text \in Strong THEN "up" ELSE "refused",
                                    !.text = text, !.tainted = plist.tainted]
    /\ UNCHANGED <<sources, plist, job, cmd, count>>

-----------------------------------------------------------------------------
(* The commands                                                            *)

\* An outcome: the next step, or the exit code.
Step(pc) == <<pc, "none">>
Exit(code) == <<"done", code>>
Goes(outcome) == cmd' = [cmd EXCEPT !.pc = outcome[1], !.exit = outcome[2]]

Fault ==
    count.faults < MaxFaults /\ count' = [count EXCEPT !.faults = @ + 1]
Fails(outcome) ==
    /\ Fault
    /\ cmd' = [cmd EXCEPT !.pc = outcome[1], !.exit = outcome[2], !.fault = TRUE]

\* Where a command ends or goes on before it changes anything.
Entry(op, root) ==
    CASE op \in {"repair", "status"} /\ ~plist.there -> "NOT_INSTALLED"
      [] op # "status" /\ (op = "repair" => plist.there) /\ ~root -> "NEEDS_ELEVATION"
      [] OTHER -> "none"
FirstStep(op) ==
    CASE op = "install" -> "write"
      [] op = "status" -> "print"
      [] OTHER -> "bootout"

Begin(op, root) ==
    /\ cmd.pc \in {"idle", "done"} /\ count.commands < MaxCommands
    /\ cmd' = [op |-> op, root |-> root, fault |-> FALSE, exit |-> Entry(op, root),
               pc |-> IF Entry(op, root) = "none" THEN FirstStep(op) ELSE "done"]
    /\ count' = [count EXCEPT !.commands = @ + 1]
    /\ UNCHANGED <<sources, plist, job, daemon>>

\* std::fs::write of plist_para: an existing file keeps its owner and its mode.
WritePlist ==
    /\ cmd.pc = "write"
    /\ plist' = [plist EXCEPT !.there = TRUE, !.whole = TRUE, !.declares = NoText]
    /\ Goes(Step("chmod"))
    /\ UNCHANGED <<sources, job, daemon, count>>

\* current_exe or the write fails, before or after the file was truncated.
WriteFails ==
    /\ cmd.pc = "write"
    /\ plist' \in {plist, [plist EXCEPT !.there = TRUE, !.whole = FALSE, !.declares = NoText]}
    /\ Fails(Exit("REGISTER_FAILED"))
    /\ UNCHANGED <<sources, job, daemon>>

SetPermissions ==
    /\ cmd.pc = "chmod"
    /\ plist' = [plist EXCEPT !.open = FALSE,
                              !.tainted = @ \/ (plist.open /\ plist.declares = Foreign)]
    /\ Goes(Step("bootout"))
    /\ UNCHANGED <<sources, job, daemon, count>>

SetPermissionsFails ==
    /\ cmd.pc = "chmod"
    /\ Fails(Exit("REGISTER_FAILED"))
    /\ UNCHANGED <<sources, plist, job, daemon>>

\* remove_file: a file that is not there counts as removed.
RemovePlist ==
    /\ cmd.pc = "remove"
    /\ plist' = NoPlist
    /\ Goes(Exit("OK"))
    /\ UNCHANGED <<sources, job, daemon, count>>

RemoveFails ==
    /\ cmd.pc = "remove" /\ plist.there
    /\ Fails(Exit("FAILED"))
    /\ UNCHANGED <<sources, plist, job, daemon>>

-----------------------------------------------------------------------------
(* launchd, and the helpers that call it                                   *)

\* launchd takes a property list only from root, and closed to others.
Loadable == plist.there /\ plist.whole /\ ClosedToAllButRoot(plist)
Unloaded == [job EXCEPT !.loaded = FALSE]

\* What each verb does when it succeeds; it fails when it may not.
May(verb) ==
    CASE verb = "bootout" -> job.loaded
      [] verb = "unload" -> plist.there
      [] verb = "bootstrap" -> Loadable /\ ~job.loaded /\ ~job.disabled
      [] verb = "load" -> Loadable /\ ~job.loaded
Does(verb) ==
    /\ job' = CASE verb = "bootout" -> Unloaded
                [] verb = "unload" -> [loaded |-> FALSE, disabled |-> TRUE]
                [] verb \in {"bootstrap", "load"} -> [loaded |-> TRUE, disabled |-> FALSE]
    /\ daemon' = IF verb \in {"bootout", "unload"} THEN Down ELSE daemon

\* What follows descarregar, which returns nothing.
AfterUnload ==
    CASE cmd.op = "stop" -> Exit("OK")
      [] cmd.op = "uninstall" -> Step("remove")
      [] OTHER -> Step("bootstrap")
LoadFailed == Exit(IF cmd.op = "install" THEN "REGISTER_FAILED" ELSE "START_FAILED")

\* descarregar and carregar: the first verb of each has a fallback.
Succeeded(verb) == IF verb \in {"bootout", "unload"} THEN AfterUnload ELSE Exit("OK")
BootstrapOnly(verb) ==
    CASE verb = "bootout" -> Step("unload")
      [] verb = "unload" -> AfterUnload
      [] OTHER -> LoadFailed
Failed(verb) ==
    CASE verb = "bootout" -> Step("unload")
      [] verb = "unload" -> AfterUnload
      [] verb = "bootstrap" -> Step("load")
      [] verb = "load" -> LoadFailed

\* What launchctl answers for a verb that was not carried out: it refuses, but
\* load exits with zero all the same, as for all but improper usage.
Answered(verb) == IF verb = "load" THEN Succeeded(verb) ELSE Failed(verb)

\* executar: the verb is carried out, or launchctl answers that it was not.
Executar(verb) ==
    /\ cmd.pc = verb
    /\ \/ May(verb) /\ Does(verb) /\ Goes(Succeeded(verb))
       \/ ~May(verb) /\ Goes(Answered(verb)) /\ UNCHANGED <<job, daemon>>
    /\ UNCHANGED <<sources, plist, count>>

\* launchctl does not run, or does not do what it could have done.
ExecutarFails(verb) ==
    /\ cmd.pc = verb
    /\ Fails(Failed(verb)) \/ Fails(Answered(verb))
    /\ UNCHANGED <<sources, plist, job, daemon>>

\* query_status, after the plist was found.
QueryStatus ==
    /\ cmd.pc = "print"
    /\ Goes(Exit(IF job.loaded /\ daemon.at \in {"stat", "read", "up"}
                   THEN "OK" ELSE "STOPPED"))
    /\ UNCHANGED <<sources, plist, job, daemon, count>>
QueryFails ==
    /\ cmd.pc = "print"
    /\ Fails(Exit("UNKNOWN"))
    /\ UNCHANGED <<sources, plist, job, daemon>>

\* RunAtLoad and KeepAlive: a daemon that ended is started again.
SpawnAtLoad ==
    /\ job.loaded /\ daemon.at = "down"
    /\ daemon' = [Down EXCEPT !.at = "stat"]
    /\ UNCHANGED <<sources, plist, job, cmd, count>>
Spawn ==
    /\ job.loaded /\ daemon.at \in {"down", "refused"}
    /\ daemon' = [Down EXCEPT !.at = "stat"]
    /\ UNCHANGED <<sources, plist, job, cmd, count>>

Crash ==
    /\ daemon.at # "down" /\ Fault
    /\ daemon' = Down
    /\ UNCHANGED <<sources, plist, job, cmd>>

Killed ==
    /\ cmd.pc \notin {"idle", "done"} /\ Fault
    /\ cmd' = Idle
    /\ UNCHANGED <<sources, plist, job, daemon>>

Reboot ==
    /\ Fault
    /\ job' = [job EXCEPT !.loaded = Loadable /\ ~job.disabled]
    /\ daemon' = Down
    /\ cmd' = Idle
    /\ UNCHANGED <<sources, plist>>

\* The product's own package puts its property list in place; whoever ran the
\* last command has its exit code by then.
Deploy ==
    /\ plist # Shipped /\ count.commands < MaxCommands
    /\ plist' = Shipped
    /\ count' = [count EXCEPT !.commands = @ + 1]
    /\ cmd' = IF cmd.pc = "done" THEN Idle ELSE cmd
    /\ UNCHANGED <<sources, job, daemon>>

\* Whoever may write to the property list, or still holds it open, puts its own
\* text in, at any time, and may keep it open.
Tamper ==
    /\ plist.there /\ (plist.open \/ ~plist.root \/ plist.tainted)
    /\ \E kept \in {plist.tainted, TRUE} :
         plist' = [plist EXCEPT !.whole = TRUE, !.declares = Foreign, !.tainted = kept]
    /\ cmd' = IF cmd.pc = "done" THEN Idle ELSE cmd
    /\ UNCHANGED <<sources, job, daemon, count>>

Boot == SystemPlistIsTrusted \/ Incoming
Command ==
    \/ WritePlist \/ WriteFails \/ SetPermissions \/ SetPermissionsFails
    \/ RemovePlist \/ RemoveFails \/ QueryStatus \/ QueryFails \/ Killed
    \/ \E verb \in {"bootout", "unload", "bootstrap", "load"} :
         Executar(verb) \/ ExecutarFails(verb)

Next ==
    \/ \E op \in Ops, root \in BOOLEAN : Begin(op, root)
    \/ Command \/ Boot \/ Spawn \/ Crash \/ Reboot \/ Deploy \/ Tamper

Spec == Init /\ [][Next]_vars /\ WF_vars(Spawn) /\ WF_vars(Boot)

-----------------------------------------------------------------------------
(* Properties                                                              *)

\* The requirement a serving daemon hands to XPC comes from the policy or from
\* the product's own plist, whatever was written to the file before, after or
\* between the lstat and the read, and whatever plist install found.  The
\* exception is a tainted one, which the lstat cannot tell from the product's:
\* install closes a file that was open to others, and an outsider wrote between
\* its write and its chmod or still holds the file open.
ServedRequirementOwn ==
    daemon.at = "up" /\ ~daemon.tainted => daemon.text \in {sources[1], sources[2]}

\* And only the product's code meets what is served.
ServedRequirementSound ==
    ServedRequirementOwn /\ (daemon.at = "up" /\ ~daemon.tainted => daemon.text \in Sound)

\* What a finished command says is so.  Whatever was stopped, uninstalled or
\* interrupted before, an install or a repair under which nothing failed says
\* OK of a plist launchd takes, and the job is then loaded and comes back after
\* a reboot (of one launchd does not take it says OK as well, since load does
\* not tell); after a stop or an uninstall that nothing disturbed the job is
\* gone, and an uninstall that says OK leaves no plist.
ReportsTruthful ==
    cmd.pc = "done" =>
      /\ cmd.op \in {"install", "repair"} /\ cmd.root /\ ~cmd.fault /\ Loadable =>
           cmd.exit = "OK" /\ job.loaded /\ ~job.disabled
      /\ cmd.op \in {"stop", "uninstall"} /\ cmd.exit = "OK" /\ ~cmd.fault => ~job.loaded
      /\ cmd.op = "uninstall" /\ cmd.exit = "OK" => ~plist.there

\* A loaded job with an acceptable requirement ends up serving, and stays up
\* once nothing disturbs it any more.
LoadedJobServes ==
    <>[](job.loaded /\ XpcRequirement(RequirementDeclaredBy(
            plist, plist.there /\ ClosedToAllButRoot(plist))) \in Acceptable)
      => <>[](daemon.at = "up")
=============================================================================
