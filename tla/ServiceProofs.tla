--------------------------- MODULE ServiceProofs ----------------------------
(***************************************************************************)
(* The daemon as a service of its platform: the job launchd keeps and the  *)
(* commands that change it (MacDaemon), and the service the SCM starts,    *)
(* watches and restarts (WindowsService).  The two specifications share no *)
(* variable.  In both the theorems say that what the platform or the       *)
(* command reports is so, although several parties change it.              *)
(***************************************************************************)
EXTENDS MacDaemon, WindowsService, TLAPS

-----------------------------------------------------------------------------
(* launchd: the inductive invariant                                        *)

Plists == [there : BOOLEAN, root : BOOLEAN, open : BOOLEAN, whole : BOOLEAN,
           tainted : BOOLEAN, declares : {NoText, Foreign, sources[1]}]
Jobs == [loaded : BOOLEAN, disabled : BOOLEAN]
Verbs == {"bootout", "unload", "bootstrap", "load"}
Steps == Verbs \cup {"idle", "write", "chmod", "remove", "print", "done"}
JobCodes == {"none", "OK", "STOPPED", "UNKNOWN", "NOT_INSTALLED", "NEEDS_ELEVATION",
          "REGISTER_FAILED", "START_FAILED", "FAILED"}
Calls == [op : Ops, pc : Steps, root : BOOLEAN, exit : JobCodes, fault : BOOLEAN]

\* What the product's own plist declares, or nothing.
Own(p) == p.declares \in {NoText, sources[1]}

\* A trusted plist declares what the product's own does, unless an outsider had
\* its hands on it when install closed it; and a plist that was trusted stays
\* so, for whatever replaces it is made by root.  So what a daemon that found
\* the plist trusted goes on to read is the product's own, whatever was written
\* between the lstat and the read.
PlistHonest ==
    /\ plist \in Plists
    /\ ClosedToAllButRoot(plist) /\ ~plist.tainted => Own(plist)
    /\ daemon.at = "read" /\ daemon.trusted => ClosedToAllButRoot(plist)

\* Which steps belong to which command, and when launchd has let the job go.
CommandOnTrack ==
    /\ job \in Jobs /\ cmd \in Calls
    /\ cmd.pc \in {"write", "chmod"} => cmd.op = "install"
    /\ cmd.pc \in {"bootstrap", "load"} => cmd.op \in {"install", "repair"}
    /\ cmd.pc = "remove" => cmd.op = "uninstall"
    /\ cmd.pc \in {"bootout", "unload"} => cmd.op # "status"
    /\ cmd.pc = "print" => cmd.op = "status"
    /\ cmd.pc \in {"unload", "bootstrap", "load", "remove"} /\ ~cmd.fault => ~job.loaded

\* Who serves has the policy's requirement or the product's own.
Served ==
    /\ daemon \in [at : {"down", "stat", "read", "up", "refused"}, trusted : BOOLEAN,
                   tainted : BOOLEAN, text : {NoText, Foreign, sources[1], sources[2]}]
    /\ ServedRequirementOwn

MacInv == PlistHonest /\ CommandOnTrack /\ Served /\ ReportsTruthful

-----------------------------------------------------------------------------
\* Any plist the product or somebody else left, and no command under way.
LEMMA MacInit == Init => MacInv
<1> SUFFICES ASSUME Init PROVE MacInv
  OBVIOUS
<1>1. cmd \in Calls /\ cmd.pc = "idle"
  BY DEF Init, Idle, Calls, JobCodes, Steps, Ops
<1>2. plist \in Plists /\ (ClosedToAllButRoot(plist) => Own(plist))
  <2>1. CASE plist \in {NoPlist, Shipped}
    <3>1. NoPlist \in Plists /\ Own(NoPlist)
      BY DEF NoPlist, Plists, Own
    <3>2. Shipped \in Plists /\ Own(Shipped)
      BY DEF NoPlist, Shipped, Plists, Own
    <3> QED
      BY <2>1, <3>1, <3>2
  <2>2. CASE \E r \in BOOLEAN : plist = [NoPlist EXCEPT !.there = TRUE, !.root = r,
                                                        !.open = r, !.declares = Foreign]
    BY <2>2 DEF NoPlist, Plists, ClosedToAllButRoot
  <2> QED
    BY <2>1, <2>2 DEF Init
<1>3. daemon = Down /\ job \in Jobs
  BY DEF Init, Jobs
<1>4. Served /\ daemon.at = "down"
  BY <1>3 DEF Down, Served, ServedRequirementOwn, NoText
<1> QED
  BY <1>1, <1>2, <1>3, <1>4 DEF MacInv, PlistHonest, CommandOnTrack, ReportsTruthful

-----------------------------------------------------------------------------
(* The boot of the daemon, and its end                                     *)

\* The lstat, the read, a start and a crash: the text comes from a plist that
\* is the product's own when it is read, or from the policy.
LEMMA BootKeeps ==
    ASSUME MacInv, SystemPlistIsTrusted \/ Incoming \/ Spawn \/ Crash
    PROVE  MacInv'
<1>0. UNCHANGED <<sources, plist, job, cmd>>
  BY DEF SystemPlistIsTrusted, Incoming, Spawn, Crash
<1>1. CommandOnTrack' /\ ReportsTruthful'
  BY <1>0 DEF MacInv, CommandOnTrack, ReportsTruthful, Loadable, ClosedToAllButRoot
<1>2. CASE SystemPlistIsTrusted
  <2>1. daemon'.trusted => ClosedToAllButRoot(plist)
    BY <1>2 DEF SystemPlistIsTrusted, MacInv, Served
  <2>2. PlistHonest'
    BY <1>0, <2>1 DEF MacInv, PlistHonest, Plists, Own, ClosedToAllButRoot
  <2>3. Served'
    BY <1>0, <1>2 DEF SystemPlistIsTrusted, MacInv, PlistHonest, Plists, Served,
       ServedRequirementOwn, ClosedToAllButRoot
  <2> QED
    BY <1>1, <2>2, <2>3 DEF MacInv
<1>3. CASE Incoming
  <2> DEFINE text == XpcRequirement(RequirementDeclaredBy(plist, daemon.trusted))
  <2>1. /\ text \in {sources[1], sources[2], Foreign}
        /\ ~plist.tainted => text \in {sources[1], sources[2]}
    BY <1>3 DEF Incoming, XpcRequirement, RequirementDeclaredBy, RequirementInPlist,
       MacInv, PlistHonest, Plists, Own
  <2>2. daemon' = [daemon EXCEPT !.at = IF text \in Strong THEN "up" ELSE "refused",
                                 !.text = text, !.tainted = plist.tainted]
    BY <1>3 DEF Incoming
  <2> HIDE DEF text
  <2>3. Served' /\ daemon'.at # "read"
    BY <1>0, <2>1, <2>2 DEF MacInv, PlistHonest, Plists, Served, ServedRequirementOwn
  <2>4. PlistHonest'
    BY <1>0, <2>3 DEF MacInv, PlistHonest, Plists, Own, ClosedToAllButRoot
  <2> QED
    BY <1>1, <2>3, <2>4 DEF MacInv
<1>4. CASE Spawn \/ Crash
  <2>1. daemon' \in {Down, [Down EXCEPT !.at = "stat"]}
    BY <1>4 DEF Spawn, Crash
  <2>2. Served' /\ daemon'.at # "read"
    <3>1. CASE daemon' = Down
      BY <1>0, <3>1 DEF Down, Served, ServedRequirementOwn
    <3>2. CASE daemon' = [Down EXCEPT !.at = "stat"]
      BY <1>0, <3>2 DEF Down, Served, ServedRequirementOwn
    <3> QED
      BY <2>1, <3>1, <3>2
  <2>3. PlistHonest'
    BY <1>0, <2>2 DEF MacInv, PlistHonest, Plists, Own, ClosedToAllButRoot
  <2> QED
    BY <1>1, <2>2, <2>3 DEF MacInv
<1> QED
  BY <1>2, <1>3, <1>4

-----------------------------------------------------------------------------
(* The commands                                                            *)

\* A command that goes on or fails changes its step and its exit code only.
LEMMA OutcomeFields ==
    ASSUME cmd \in Calls, NEW step \in Steps, NEW code \in JobCodes,
           Goes(<<step, code>>) \/ Fails(<<step, code>>)
    PROVE  /\ cmd' \in Calls /\ cmd'.pc = step /\ cmd'.exit = code
           /\ cmd'.op = cmd.op /\ cmd'.root = cmd.root
           /\ cmd'.fault = cmd.fault \/ cmd'.fault
           /\ Fails(<<step, code>>) => cmd'.fault
           /\ Goes(<<step, code>>) => cmd'.fault = cmd.fault \/ Fails(<<step, code>>)
<1>1. CASE Goes(<<step, code>>)
  BY <1>1 DEF Goes, Fails, Calls
<1>2. CASE Fails(<<step, code>>)
  BY <1>2 DEF Fails, Calls
<1> QED
  BY <1>1, <1>2

\* A step that leaves the plist and the daemon alone, or ends the daemon.
LEMMA PlistFrame ==
    ASSUME MacInv, UNCHANGED <<sources, plist>>, daemon' \in {daemon, Down}
    PROVE  PlistHonest' /\ Served'
<1>1. Down.at = "down" /\ Down \in [at : {"down", "stat", "read", "up", "refused"},
                                    trusted : BOOLEAN, tainted : BOOLEAN,
                                    text : {NoText, Foreign, sources[1], sources[2]}]
  BY DEF Down
<1>2. PlistHonest'
  BY <1>1 DEF MacInv, PlistHonest, Plists, Own, ClosedToAllButRoot
<1>3. Served'
  BY <1>1 DEF MacInv, Served, ServedRequirementOwn
<1> QED
  BY <1>2, <1>3

\* Begin, and commands that are killed with the shell or the machine.
LEMMA BeginKeeps ==
    ASSUME MacInv, NEW op \in Ops, NEW root \in BOOLEAN, Begin(op, root)
    PROVE  MacInv'
<1> DEFINE code == Entry(op, root)
           first == IF code = "none" THEN FirstStep(op) ELSE "done"
<1>1. /\ code \in {"none", "NOT_INSTALLED", "NEEDS_ELEVATION"}
      /\ code = "NOT_INSTALLED" => ~plist.there
      /\ code = "NEEDS_ELEVATION" => ~root
  BY DEF Entry
<1>2. /\ first \in {"write", "print", "bootout", "done"} /\ (first = "done" <=> code # "none")
      /\ first = "write" => op = "install"
      /\ first = "print" <=> op = "status" /\ code = "none"
      /\ first = "bootout" => op # "status"
  BY DEF FirstStep
<1>3. cmd' = [op |-> op, root |-> root, fault |-> FALSE, exit |-> code, pc |-> first]
  BY DEF Begin
<1> HIDE DEF code, first
<1>4. /\ cmd' \in Calls /\ cmd'.op = op /\ cmd'.root = root /\ cmd'.fault = FALSE
      /\ cmd'.exit = code /\ cmd'.pc = first
  BY <1>1, <1>2, <1>3 DEF Calls, JobCodes, Steps, Verbs
<1>5. UNCHANGED <<sources, plist, job, daemon>>
  BY DEF Begin
<1>6. PlistHonest' /\ Served'
  BY <1>2, <1>4, <1>5, PlistFrame
<1>7. CommandOnTrack'
  BY <1>2, <1>4, <1>5 DEF MacInv, CommandOnTrack
<1>8. ReportsTruthful'
  BY <1>1, <1>2, <1>4, <1>5 DEF ReportsTruthful, Loadable
<1> QED
  BY <1>6, <1>7, <1>8 DEF MacInv

\* A command that is killed, or cut short by a reboot, reports nothing.
LEMMA AbandonKeeps ==
    ASSUME MacInv, Killed \/ Reboot
    PROVE  MacInv'
<1>1. cmd' \in Calls /\ cmd'.pc = "idle"
  <2>1. cmd' = Idle
    BY DEF Killed, Reboot
  <2> QED
    BY <2>1 DEF Idle, Calls, JobCodes, Steps, Ops
<1>2. UNCHANGED <<sources, plist>> /\ daemon' \in {daemon, Down}
  BY DEF Killed, Reboot
<1>3. job' \in Jobs
  <2>1. CASE Killed
    BY <2>1 DEF Killed, MacInv, CommandOnTrack
  <2>2. CASE Reboot
    <3>1. (Loadable /\ ~job.disabled) \in BOOLEAN
      BY DEF Loadable, ClosedToAllButRoot
    <3> QED
      BY <2>2, <3>1 DEF Reboot, MacInv, CommandOnTrack, Jobs
  <2> QED
    BY <2>1, <2>2
<1>4. PlistHonest' /\ Served'
  BY <1>1, <1>2, PlistFrame
<1> QED
  BY <1>1, <1>3, <1>4 DEF MacInv, CommandOnTrack, ReportsTruthful

\* The product's package replaces the plist by its own.
LEMMA DeployKeeps == ASSUME MacInv, Deploy PROVE MacInv'
<1>1. plist' = Shipped /\ UNCHANGED <<sources, job, daemon>>
  BY DEF Deploy
<1>2. Shipped \in Plists /\ Own(Shipped) /\ ClosedToAllButRoot(Shipped)
  BY DEF NoPlist, Shipped, Plists, Own, ClosedToAllButRoot
<1>3. PlistHonest' /\ Served'
  BY <1>1, <1>2 DEF MacInv, PlistHonest, Served, ServedRequirementOwn, Plists, Own
<1>4. CASE cmd.pc = "done"
  <2>1. cmd' = Idle
    BY <1>4 DEF Deploy
  <2>2. cmd' \in Calls /\ cmd'.pc = "idle"
    BY <2>1 DEF Idle, Calls, JobCodes, Steps, Ops
  <2> QED
    BY <1>1, <1>3, <2>2 DEF MacInv, CommandOnTrack, ReportsTruthful
<1>5. CASE cmd.pc # "done"
  <2>1. cmd' = cmd
    BY <1>5 DEF Deploy
  <2> QED
    BY <1>1, <1>3, <1>5, <2>1 DEF MacInv, CommandOnTrack, ReportsTruthful
<1> QED
  BY <1>4, <1>5

\* An outsider's text goes into a plist that is not trusted, or tainted.
LEMMA TamperKeeps == ASSUME MacInv, Tamper PROVE MacInv'
<1>1. UNCHANGED <<sources, job, daemon>> /\ plist \in Plists
  BY DEF Tamper, MacInv, PlistHonest
<1>2. /\ plist' \in Plists /\ plist'.root = plist.root /\ plist'.open = plist.open
      /\ plist'.there = plist.there
      /\ ClosedToAllButRoot(plist) => plist'.tainted
  BY <1>1 DEF Tamper, Plists, ClosedToAllButRoot
<1>3. PlistHonest' /\ Served'
  BY <1>1, <1>2 DEF MacInv, PlistHonest, Served, ServedRequirementOwn, Plists,
     ClosedToAllButRoot
<1>4. CASE cmd.pc = "done"
  <2>1. cmd' = Idle
    BY <1>4 DEF Tamper
  <2>2. cmd' \in Calls /\ cmd'.pc = "idle"
    BY <2>1 DEF Idle, Calls, JobCodes, Steps, Ops
  <2> QED
    BY <1>1, <1>3, <2>2 DEF MacInv, CommandOnTrack, ReportsTruthful
<1>5. CASE cmd.pc # "done"
  <2>1. cmd' = cmd
    BY <1>5 DEF Tamper
  <2> QED
    BY <1>1, <1>3, <1>5, <2>1 DEF MacInv, CommandOnTrack, ReportsTruthful
<1> QED
  BY <1>4, <1>5

\* register_service: the file is written, and only then closed; each call may
\* fail, and then the command says so.
LEMMA WriteKeeps ==
    ASSUME MacInv, WritePlist \/ WriteFails \/ SetPermissions \/ SetPermissionsFails
    PROVE  MacInv'
<1>0. UNCHANGED <<sources, job, daemon>> /\ cmd \in Calls /\ plist \in Plists
      /\ cmd.op = "install"
  BY DEF WritePlist, WriteFails, SetPermissions, SetPermissionsFails, MacInv,
     CommandOnTrack, PlistHonest
<1>1. Served'
  BY <1>0 DEF MacInv, Served, ServedRequirementOwn
<1> USE DEF Steps, Verbs, JobCodes, Step, Exit
<1>2. CASE WritePlist
  <2>1. /\ plist' \in Plists /\ plist'.declares = NoText
        /\ plist'.root = plist.root /\ plist'.open = plist.open
    BY <1>0, <1>2 DEF WritePlist, Plists
  <2>2. PlistHonest'
    BY <1>0, <2>1 DEF MacInv, PlistHonest, Own, Plists, ClosedToAllButRoot
  <2>3. Goes(<<"chmod", "none">>)
    BY <1>2 DEF WritePlist
  <2>4. cmd' \in Calls /\ cmd'.pc = "chmod" /\ cmd'.op = "install"
    BY <1>0, <2>3, OutcomeFields
  <2> QED
    BY <1>0, <1>1, <2>2, <2>4 DEF MacInv, CommandOnTrack, ReportsTruthful
<1>3. CASE WriteFails \/ SetPermissionsFails
  <2>1. Fails(<<"done", "REGISTER_FAILED">>)
    BY <1>3 DEF WriteFails, SetPermissionsFails
  <2>2. /\ cmd' \in Calls /\ cmd'.pc = "done" /\ cmd'.exit = "REGISTER_FAILED"
        /\ cmd'.op = "install" /\ cmd'.fault
    BY <1>0, <2>1, OutcomeFields
  <2>3. \/ plist' = plist
        \/ /\ plist' \in Plists /\ plist'.declares = NoText
           /\ plist'.root = plist.root /\ plist'.open = plist.open
    BY <1>0, <1>3 DEF WriteFails, SetPermissionsFails, Plists
  <2>4. PlistHonest'
    BY <1>0, <2>2, <2>3 DEF MacInv, PlistHonest, Own, Plists, ClosedToAllButRoot
  <2> QED
    BY <1>0, <1>1, <2>2, <2>4 DEF MacInv, CommandOnTrack, ReportsTruthful
<1>4. CASE SetPermissions
  <2>1. /\ plist' \in Plists /\ plist'.declares = plist.declares
        /\ plist'.root = plist.root /\ ~plist'.open
        /\ ~plist'.tainted => ~plist.tainted /\ (plist.open => plist.declares # Foreign)
    BY <1>0, <1>4 DEF SetPermissions, Plists
  <2>a. plist.declares # Foreign => Own(plist)
    BY <1>0 DEF Own, Plists
  <2>2. PlistHonest'
    BY <1>0, <2>1, <2>a DEF MacInv, PlistHonest, Own, Plists, ClosedToAllButRoot
  <2>3. Goes(<<"bootout", "none">>)
    BY <1>4 DEF SetPermissions
  <2>4. cmd' \in Calls /\ cmd'.pc = "bootout" /\ cmd'.op = "install"
    BY <1>0, <2>3, OutcomeFields
  <2> QED
    BY <1>0, <1>1, <2>2, <2>4 DEF MacInv, CommandOnTrack, ReportsTruthful
<1> QED
  BY <1>2, <1>3, <1>4

\* The end of unregister_service, and query_status.
LEMMA RemoveKeeps ==
    ASSUME MacInv, RemovePlist \/ RemoveFails \/ QueryStatus \/ QueryFails
    PROVE  MacInv'
<1>0. UNCHANGED <<sources, job, daemon>> /\ cmd \in Calls
  BY DEF RemovePlist, RemoveFails, QueryStatus, QueryFails, MacInv, CommandOnTrack
<1> USE DEF Steps, JobCodes, Exit
<1>1. CASE RemovePlist
  <2>1. Goes(<<"done", "OK">>) /\ cmd.op = "uninstall" /\ plist' = NoPlist
    BY <1>1 DEF RemovePlist, MacInv, CommandOnTrack
  <2>2. /\ cmd' \in Calls /\ cmd'.pc = "done" /\ cmd'.exit = "OK"
        /\ cmd'.op = "uninstall" /\ (~cmd'.fault => ~cmd.fault)
    BY <1>0, <2>1, OutcomeFields
  <2>3. NoPlist \in Plists /\ ~NoPlist.there /\ Own(NoPlist) /\ ClosedToAllButRoot(NoPlist)
    BY DEF NoPlist, Plists, Own, ClosedToAllButRoot
  <2>4. PlistHonest' /\ Served'
    BY <1>0, <2>1, <2>3 DEF MacInv, PlistHonest, Served, ServedRequirementOwn, Plists, Own
  <2>5. ~cmd'.fault => ~job.loaded
    BY <1>1, <2>2 DEF RemovePlist, MacInv, CommandOnTrack
  <2> QED
    BY <1>0, <2>1, <2>2, <2>3, <2>4, <2>5 DEF MacInv, CommandOnTrack, ReportsTruthful
<1>2. CASE RemoveFails
  <2>1. Fails(<<"done", "FAILED">>) /\ cmd.op = "uninstall" /\ plist' = plist
    BY <1>2 DEF RemoveFails, MacInv, CommandOnTrack
  <2>2. /\ cmd' \in Calls /\ cmd'.pc = "done" /\ cmd'.exit = "FAILED"
        /\ cmd'.op = "uninstall"
    BY <1>0, <2>1, OutcomeFields
  <2>3. PlistHonest' /\ Served'
    BY <1>0, <2>1, <2>2, PlistFrame
  <2> QED
    BY <1>0, <2>2, <2>3 DEF MacInv, CommandOnTrack, ReportsTruthful
<1>3. CASE QueryStatus \/ QueryFails
  <2>1. PICK code \in JobCodes : Goes(<<"done", code>>) \/ Fails(<<"done", code>>)
    BY <1>3 DEF QueryStatus, QueryFails
  <2>2. plist' = plist /\ cmd.op = "status"
    BY <1>3 DEF QueryStatus, QueryFails, MacInv, CommandOnTrack
  <2>3. cmd' \in Calls /\ cmd'.pc = "done" /\ cmd'.op = "status"
    BY <1>0, <2>1, <2>2, OutcomeFields
  <2>4. PlistHonest' /\ Served'
    BY <1>0, <2>2, <2>3, PlistFrame
  <2> QED
    BY <1>0, <2>3, <2>4 DEF MacInv, CommandOnTrack, ReportsTruthful
<1> QED
  BY <1>1, <1>2, <1>3

-----------------------------------------------------------------------------
(* descarregar and carregar                                                *)

\* What follows descarregar: the job is gone unless a call failed.
LEMMA AfterUnloadKeeps ==
    ASSUME MacInv, cmd.pc \in {"bootout", "unload"},
           Goes(AfterUnload) \/ Fails(AfterUnload), UNCHANGED <<sources, plist>>,
           daemon' \in {daemon, Down}, job' \in Jobs, ~cmd'.fault => ~job'.loaded
    PROVE  MacInv'
<1>0. cmd \in Calls /\ cmd.op # "status" /\ cmd.op \in Ops
  BY DEF MacInv, CommandOnTrack, Calls
<1> USE DEF Steps, Verbs, JobCodes, Step, Exit
<1>1. CASE cmd.op = "stop"
  <2>1. Goes(<<"done", "OK">>) \/ Fails(<<"done", "OK">>)
    BY <1>1 DEF AfterUnload
  <2>2. cmd' \in Calls /\ cmd'.pc = "done" /\ cmd'.op = "stop"
    BY <1>0, <1>1, <2>1, OutcomeFields
  <2>3. PlistHonest' /\ Served'
    BY <2>2, PlistFrame
  <2> QED
    BY <2>2, <2>3 DEF MacInv, CommandOnTrack, ReportsTruthful
<1>2. CASE cmd.op = "uninstall"
  <2>1. Goes(<<"remove", "none">>) \/ Fails(<<"remove", "none">>)
    BY <1>2 DEF AfterUnload
  <2>2. cmd' \in Calls /\ cmd'.pc = "remove" /\ cmd'.op = "uninstall"
    BY <1>0, <1>2, <2>1, OutcomeFields
  <2>3. PlistHonest' /\ Served'
    BY <2>2, PlistFrame
  <2> QED
    BY <2>2, <2>3 DEF MacInv, CommandOnTrack, ReportsTruthful
<1>3. CASE cmd.op \in {"install", "repair"}
  <2>1. Goes(<<"bootstrap", "none">>) \/ Fails(<<"bootstrap", "none">>)
    BY <1>3 DEF AfterUnload
  <2>2. cmd' \in Calls /\ cmd'.pc = "bootstrap" /\ cmd'.op \in {"install", "repair"}
    BY <1>0, <1>3, <2>1, OutcomeFields
  <2>3. PlistHonest' /\ Served'
    BY <2>2, PlistFrame
  <2> QED
    BY <2>2, <2>3 DEF MacInv, CommandOnTrack, ReportsTruthful
<1> QED
  BY <1>0, <1>1, <1>2, <1>3 DEF Ops

\* A verb launchctl carries out.
LEMMA VerbSucceeds ==
    ASSUME MacInv, NEW verb \in Verbs, cmd.pc = verb, May(verb), Does(verb),
           Goes(Succeeded(verb)), UNCHANGED <<sources, plist>>
    PROVE  MacInv'
<1>0. cmd \in Calls /\ job \in Jobs
  BY DEF MacInv, CommandOnTrack
<1>1. CASE verb \in {"bootout", "unload"}
  <2>1. job' \in Jobs /\ ~job'.loaded
    BY <1>0, <1>1 DEF Does, Unloaded, Jobs
  <2>2. daemon' \in {daemon, Down} /\ Goes(AfterUnload)
    BY <1>1 DEF Does, Succeeded
  <2> QED
    BY <1>1, <2>1, <2>2, AfterUnloadKeeps
<1>2. CASE verb \in {"bootstrap", "load"}
  <2>1. job' \in Jobs /\ job'.loaded /\ ~job'.disabled /\ daemon' = daemon
    BY <1>2 DEF Does, Jobs
  <2>2. Goes(<<"done", "OK">>) /\ cmd.op \in {"install", "repair"}
    BY <1>2 DEF Succeeded, Exit, MacInv, CommandOnTrack
  <2>3. /\ cmd' \in Calls /\ cmd'.pc = "done" /\ cmd'.exit = "OK"
        /\ cmd'.op \in {"install", "repair"}
    BY <1>0, <2>2, OutcomeFields DEF Steps, JobCodes
  <2>4. PlistHonest' /\ Served'
    BY <2>1, <2>3, PlistFrame
  <2> QED
    BY <2>1, <2>3, <2>4 DEF MacInv, CommandOnTrack, ReportsTruthful
<1> QED
  BY <1>1, <1>2 DEF Verbs

\* A verb that is not carried out: because launchd may not do it, or as a fault.
LEMMA VerbFails ==
    ASSUME MacInv, NEW verb \in Verbs, cmd.pc = verb,
           (~May(verb) /\ Goes(Answered(verb))) \/ Fails(Failed(verb))
             \/ Fails(Answered(verb)),
           UNCHANGED <<sources, plist, job, daemon>>
    PROVE  MacInv'
<1>0. cmd \in Calls /\ job \in Jobs
  BY DEF MacInv, CommandOnTrack
<1> USE DEF Steps, Verbs, JobCodes, Step, Exit
<1>1. CASE verb = "bootout"
  <2>1. Goes(<<"unload", "none">>) \/ Fails(<<"unload", "none">>)
    BY <1>1 DEF Failed, Answered
  <2>2. /\ cmd' \in Calls /\ cmd'.pc = "unload" /\ cmd'.op = cmd.op
        /\ Fails(<<"unload", "none">>) => cmd'.fault
    BY <1>0, <2>1, OutcomeFields
  <2>3. ~cmd'.fault => ~job.loaded
    BY <1>1, <2>2 DEF Failed, Answered, May
  <2>4. PlistHonest' /\ Served'
    BY <2>2, PlistFrame
  <2> QED
    BY <1>0, <1>1, <2>2, <2>3, <2>4 DEF MacInv, CommandOnTrack, ReportsTruthful
<1>2. CASE verb = "unload"
  <2>1. Goes(AfterUnload) \/ Fails(AfterUnload)
    BY <1>2 DEF Failed, Answered
  <2>2. ~cmd'.fault => ~cmd.fault
    <3>1. CASE Goes(AfterUnload)
      BY <1>0, <3>1 DEF Goes, Calls
    <3>2. CASE Fails(AfterUnload)
      BY <1>0, <3>2 DEF Fails, Calls
    <3> QED
      BY <2>1, <3>1, <3>2
  <2>3. ~cmd'.fault => ~job'.loaded
    BY <1>2, <2>2 DEF MacInv, CommandOnTrack
  <2> QED
    BY <1>0, <1>2, <2>1, <2>3, AfterUnloadKeeps
<1>3. CASE verb = "bootstrap"
  <2>1. Goes(<<"load", "none">>) \/ Fails(<<"load", "none">>)
    BY <1>3 DEF Failed, Answered
  <2>2. /\ cmd' \in Calls /\ cmd'.pc = "load" /\ cmd'.op = cmd.op
        /\ ~cmd'.fault => ~cmd.fault
    BY <1>0, <2>1, OutcomeFields
  <2>3. PlistHonest' /\ Served'
    BY <2>2, PlistFrame
  <2> QED
    BY <1>0, <1>3, <2>2, <2>3 DEF MacInv, CommandOnTrack, ReportsTruthful
<1>4. CASE verb = "load"
  <2>0. cmd.op \in {"install", "repair"}
    BY <1>4 DEF MacInv, CommandOnTrack
  <2>1. /\ Answered("load") = <<"done", "OK">>
        /\ \E code \in JobCodes : Failed("load") = <<"done", code>>
    BY DEF Answered, Succeeded, Failed, LoadFailed
  <2>a. PICK code \in JobCodes :
           \/ ~May("load") /\ Goes(<<"done", code>>)
           \/ Fails(<<"done", code>>)
    BY <1>4, <2>1
  <2>2. /\ cmd' \in Calls /\ cmd'.pc = "done" /\ cmd'.op = cmd.op
        /\ (~cmd'.fault => ~cmd.fault) /\ (Fails(<<"done", code>>) => cmd'.fault)
    BY <1>0, <1>4, <2>a, OutcomeFields
  <2>3. ~cmd'.fault => ~Loadable
    BY <1>4, <2>a, <2>2 DEF May, MacInv, CommandOnTrack
  <2>4. Loadable' <=> Loadable
    BY DEF Loadable, ClosedToAllButRoot
  <2>5. PlistHonest' /\ Served'
    BY <2>2, PlistFrame
  <2> QED
    BY <1>0, <2>0, <2>2, <2>3, <2>4, <2>5 DEF MacInv, CommandOnTrack, ReportsTruthful
<1> QED
  BY <1>1, <1>2, <1>3, <1>4

\* Every step of a command, of launchd, of the daemon or of a deployment keeps it.
LEMMA MacStep == MacInv /\ [Next]_vars => MacInv'
<1> SUFFICES ASSUME MacInv, [Next]_vars PROVE MacInv'
  OBVIOUS
<1>1. CASE UNCHANGED vars
  BY <1>1 DEF vars, MacInv, PlistHonest, Plists, Own, ClosedToAllButRoot, CommandOnTrack,
     Served, ServedRequirementOwn, ReportsTruthful, Loadable
<1>2. ASSUME NEW verb \in Verbs, Executar(verb) \/ ExecutarFails(verb) PROVE MacInv'
  BY <1>2, VerbSucceeds, VerbFails DEF Executar, ExecutarFails
<1>3. CASE Command
  BY <1>2, <1>3, WriteKeeps, RemoveKeeps, AbandonKeeps DEF Command, Verbs
<1>4. CASE Next
  BY <1>3, <1>4, BeginKeeps, BootKeeps, AbandonKeeps, DeployKeeps, TamperKeeps
     DEF Next, Boot
<1> QED
  BY <1>1, <1>4

\* For any number of commands, faults and reboots: an undisturbed install or
\* repair says OK of a plist launchd takes and leaves its job loaded and not
\* disabled, an undisturbed stop or uninstall leaves it unloaded, and an
\* uninstall that says OK leaves no plist (service/macos.rs).
THEOREM LaunchdCommandsTruthful == Spec => []ReportsTruthful
<1>1. MacInv => ReportsTruthful
  BY DEF MacInv
<1> QED
  BY MacInit, MacStep, <1>1, PTL DEF Spec

\* The requirement a serving daemon demands is the policy's or the one of the
\* product's own plist, whatever plist install found and whatever an outsider
\* wrote to it at any time, unless it had its hands on the file when install
\* closed it (xpc_requirement, plist_trust, register_service).
THEOREM ServedRequirementIsOurs == Spec => []ServedRequirementOwn
<1>1. MacInv => ServedRequirementOwn
  BY DEF MacInv, Served
<1> QED
  BY MacInit, MacStep, <1>1, PTL DEF Spec

-----------------------------------------------------------------------------
(* The Windows service, for any number of commands and starts.             *)

\* What the threads of the process and the state the SCM reports have to do
\* with each other: the state follows service_main, the stop channel is
\* written when service_main has stopped polling, and only a running service
\* accepts an administrator's stop.
ProcessInv ==
    /\ main = "none" => state = "stopped"
    /\ main \in {"begin", "poll", "lost"} => state = "start_pending"
    /\ main = "join" /\ state # "running" => stop
    /\ main \in {"none", "begin"} => worker = "none"
    /\ stop => main = "join"
    /\ worker = "done" => stop
    /\ requested => stop /\ state = "running"
    /\ main = "join" /\ stop => requested \/ state # "running"
    /\ RunningMeansListening

ServiceInv == TypeOK /\ ProcessInv

\* A registered or absent service that does not run satisfies the invariant.
LEMMA ServiceInit == ScmInit => ServiceInv
<1> SUFFICES ASSUME ScmInit PROVE ServiceInv
  OBVIOUS
<1>1. starts \in 0..MaxStarts
  BY ServiceAssumption DEF ScmInit
<1>2. TypeOK
  BY <1>1 DEF ScmInit, TypeOK, Points
<1>3. ProcessInv
  BY DEF ScmInit, ProcessInv, RunningMeansListening
<1> QED
  BY <1>2, <1>3 DEF ServiceInv

-----------------------------------------------------------------------------
(* Steps of the process and of the SCM                                     *)

\* Starting the process, by a command or by the failure actions of the SCM.
LEMMA LaunchKeeps ==
    ASSUME ServiceInv, Launch, UNCHANGED <<exists, marked, other>>,
           mode' = mode, pc' \in [Commands -> Points],
           answer' \in [Commands -> Codes \cup {"none"}]
    PROVE  ServiceInv'
<1>1. starts' \in 0..MaxStarts
  BY ServiceAssumption DEF ServiceInv, TypeOK, Launch
<1>2. TypeOK'
  BY <1>1 DEF ServiceInv, TypeOK, Launch, seen
<1>3. ProcessInv'
  BY DEF ServiceInv, ProcessInv, RunningMeansListening, Launch, seen
<1> QED
  BY <1>2, <1>3 DEF ServiceInv

\* The steps of service_main and its worker (service/windows/mod.rs).
LEMMA ProcessStep ==
    ASSUME ServiceInv,
           \/ BeginMain \/ Prepare \/ WorkerBreaks \/ Drain \/ Ready
           \/ GiveUp \/ Join \/ CrashProcess \/ OtherDaemon
    PROVE  ServiceInv'
<1> USE DEF ServiceInv, TypeOK, ProcessInv, RunningMeansListening, scm,
   seen, commands, Ended
<1>1. CASE BeginMain
  BY <1>1 DEF BeginMain
<1>2. CASE Prepare
  BY <1>2 DEF Prepare
<1>3. CASE Drain
  BY <1>3 DEF Drain
<1>4. CASE Ready
  BY <1>4 DEF Ready
<1>5. CASE GiveUp
  BY <1>5 DEF GiveUp
<1>6. CASE Join
  BY <1>6 DEF Join
<1>7. CASE CrashProcess
  BY <1>7 DEF CrashProcess
<1>8. CASE WorkerBreaks
  BY <1>8 DEF WorkerBreaks
<1>9. CASE OtherDaemon
  BY <1>9 DEF OtherDaemon, process
<1> QED
  BY <1>1, <1>2, <1>3, <1>4, <1>5, <1>6, <1>7, <1>8, <1>9

\* What the SCM does by itself: it restarts a failed service and removes a marked one.
LEMMA ManagerStep ==
    ASSUME ServiceInv, Recover \/ Remove
    PROVE  ServiceInv'
<1>1. CASE Recover
  BY <1>1, LaunchKeeps DEF Recover, commands, ServiceInv, TypeOK
<1>2. CASE Remove
  BY <1>2 DEF Remove, process, seen, commands, ServiceInv, TypeOK, ProcessInv,
     RunningMeansListening
<1> QED
  BY <1>1, <1>2

-----------------------------------------------------------------------------
(* Steps of the commands                                                   *)

\* A command that goes on or answers keeps the types of its own state.
LEMMA CommandTyped ==
    ASSUME TypeOK, NEW c \in Commands, NEW p \in Points, NEW code \in Codes,
           Go(c, p) \/ Answer(c, code)
    PROVE  /\ mode' = mode
           /\ pc' \in [Commands -> Points]
           /\ answer' \in [Commands -> Codes \cup {"none"}]
<1>1. "ended" \in Points
  BY DEF Points
<1>2. CASE Go(c, p)
  BY <1>2 DEF Go, TypeOK
<1>3. CASE Answer(c, code)
  BY <1>1, <1>3 DEF Answer, TypeOK
<1> QED
  BY <1>2, <1>3

\* The steps of install, repair, stop and uninstall (install.rs, control.rs).
LEMMA CommandStep ==
    ASSUME ServiceInv, NEW c \in Commands,
           \/ Install(c) \/ Repair(c) \/ Start(c) \/ SeeStarted(c)
           \/ StartTimeout(c) \/ Stop(c) \/ SeeStopped(c) \/ StopTimeout(c)
           \/ Delete(c)
    PROVE  ServiceInv'
<1> DEFINE Typed == /\ mode' = mode
                    /\ pc' \in [Commands -> Points]
                    /\ answer' \in [Commands -> Codes \cup {"none"}]
<1>0. /\ {"start", "wait_running", "wait_stopped", "remove"} \subseteq Points
      /\ \A p \in Points : Go(c, p) => Typed
      /\ \A code \in Codes : Answer(c, code) => Typed
      /\ Denied(c) \in Codes
      /\ \A code \in Codes : StopEnds(c, code) => Typed
  <2>1. {"start", "wait_running", "wait_stopped", "remove"} \subseteq Points
    BY DEF Points
  <2>2. \A p \in Points : Go(c, p) => Typed
    BY CommandTyped DEF ServiceInv, Codes
  <2>3. \A code \in Codes : Answer(c, code) => Typed
    BY CommandTyped, <2>1
    DEF ServiceInv
  <2>4. Denied(c) \in Codes
    BY DEF Denied, Codes
  <2>5. \A code \in Codes : StopEnds(c, code) => Typed
    BY <2>1, <2>2, <2>3 DEF StopEnds
  <2> QED
    BY <2>1, <2>2, <2>3, <2>4, <2>5
<1> HIDE DEF Typed
<1>k. {"OK", "FAILED", "NOT_INSTALLED", "NEEDS_ELEVATION", "SCM_ACCESS_DENIED",
       "REGISTER_FAILED", "MISSING_DEPENDENCY", "START_TIMEOUT", "START_FAILED"}
        \subseteq Codes
  BY DEF Codes
\* Most commands leave the process and the state alone.
<1>q. ASSUME Typed, UNCHANGED <<state, starts, process, other>>,
             exists' \in BOOLEAN, marked' \in BOOLEAN, failed' = failed
      PROVE  ServiceInv'
  BY <1>q DEF Typed, ServiceInv, TypeOK, ProcessInv, RunningMeansListening,
     process, seen
<1>1. CASE Install(c)
  <2>1. Typed
    BY <1>1, <1>0, <1>k DEF Install
  <2> QED
    BY <1>1, <2>1, <1>q DEF Install, ServiceInv, TypeOK
<1>2. CASE Repair(c)
  <2>1. Typed
    BY <1>2, <1>0, <1>k DEF Repair
  <2> QED
    BY <1>2, <2>1, <1>q DEF Repair, scm, ServiceInv, TypeOK
<1>3. CASE Start(c)
  <2>1. Typed
    BY <1>3, <1>0, <1>k DEF Start
  <2>2. CASE Launch
    BY <1>3, <2>1, <2>2, LaunchKeeps DEF Start, Typed
  <2>3. CASE UNCHANGED <<state, failed, starts, process>>
    BY <1>3, <2>1, <2>3, <1>q DEF Start, ServiceInv, TypeOK
  <2> QED
    BY <1>3, <2>2, <2>3 DEF Start
<1>4. CASE SeeStarted(c)
  <2>1. Typed
    BY <1>4, <1>0, <1>k DEF SeeStarted
  <2> QED
    BY <1>4, <2>1, <1>q DEF SeeStarted, scm, ServiceInv, TypeOK
<1>5. CASE StartTimeout(c)
  <2>1. Typed
    BY <1>5, <1>0, <1>k DEF StartTimeout
  <2> QED
    BY <1>5, <2>1, <1>q DEF StartTimeout, scm, ServiceInv, TypeOK
<1>6. CASE Stop(c)
  <2>1. Typed
    BY <1>6, <1>0, <1>k DEF Stop
  <2>2. CASE UNCHANGED process
    BY <1>6, <2>1, <2>2, <1>q DEF Stop, scm, ServiceInv, TypeOK
  <2>3. CASE state = "running" /\ stop' = TRUE /\ requested' = TRUE
             /\ UNCHANGED <<main, worker, shadowed>>
    BY <1>6, <2>1, <2>3
    DEF Stop, scm, Typed, ServiceInv, TypeOK, ProcessInv,
       RunningMeansListening
  <2> QED
    BY <1>6, <2>2, <2>3 DEF Stop
<1>7. CASE SeeStopped(c)
  <2>1. Typed
    BY <1>7, <1>0, <1>k DEF SeeStopped
  <2> QED
    BY <1>7, <2>1, <1>q DEF SeeStopped, scm, ServiceInv, TypeOK
<1>8. CASE StopTimeout(c)
  <2>1. Typed
    BY <1>8, <1>0, <1>k DEF StopTimeout
  <2> QED
    BY <1>8, <2>1, <1>q DEF StopTimeout, scm, ServiceInv, TypeOK
<1>9. CASE Delete(c)
  <2>1. Typed
    BY <1>9, <1>0, <1>k DEF Delete
  <2> QED
    BY <1>9, <2>1, <1>q DEF Delete, ServiceInv, TypeOK
<1> QED
  BY <1>1, <1>2, <1>3, <1>4, <1>5, <1>6, <1>7, <1>8, <1>9

-----------------------------------------------------------------------------

\* The threads and the state the SCM reports agree in every state.
LEMMA ServiceInvariance == ScmSpec => []ServiceInv
<1>1. ServiceInv /\ [ScmNext]_scmVars => ServiceInv'
  <2> SUFFICES ASSUME ServiceInv, [ScmNext]_scmVars PROVE ServiceInv'
    OBVIOUS
  <2>1. CASE ScmNext
    BY <2>1, ProcessStep, ManagerStep, CommandStep DEF ScmNext
  <2>2. CASE UNCHANGED scmVars
    BY <2>2 DEF scmVars, scm, process, seen, commands, ServiceInv, TypeOK,
       ProcessInv,
       RunningMeansListening
  <2> QED
    BY <2>1, <2>2
<1> QED
  BY <1>1, ServiceInit, PTL DEF ScmSpec

\* The SCM reports Running only for a service whose worker listens, followed a
\* requested stop or broke after it listened, unless the pipe that was found
\* belonged to another daemon, however commands, crashes, restarts and the
\* 20-second limit of service_main interleave.
THEOREM RunningAlwaysMeansListening == ScmSpec => []RunningMeansListening
<1>1. ServiceInv => RunningMeansListening
  BY DEF ServiceInv, ProcessInv
<1> QED
  BY <1>1, ServiceInvariance, PTL

\* run() reports success exactly for the stops that somebody asked for and the
\* worker followed, so the failure actions undo none of these and retry every
\* other end, a requested stop of a broken worker included.
THEOREM ExitAlwaysTruthful == ScmSpec => ExitTruthful
<1>1. ServiceInv /\ [ScmNext]_scmVars =>
         [Join => (failed' <=> ~(requested /\ worker = "done"))]_scmVars
  <2> SUFFICES ASSUME ServiceInv, Join
               PROVE  failed' <=> ~(requested /\ worker = "done")
    OBVIOUS
  <2>1. worker = "done" /\ state = "running" <=> requested /\ worker = "done"
    BY DEF ServiceInv, ProcessInv, Join
  <2> QED
    BY <2>1 DEF Join
<1> QED
  BY <1>1, ServiceInvariance, PTL DEF ScmSpec, ExitTruthful
=============================================================================
