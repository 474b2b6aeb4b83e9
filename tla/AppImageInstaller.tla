------------------------- MODULE AppImageInstaller -------------------------
(***************************************************************************)
(* LinuxInstaller._replaceAppImage: the running AppImage is renamed to     *)
(* ".previous", the new one is written in its place, marked executable by  *)
(* a chmod process, and only then is the previous one deleted.             *)
(*                                                                         *)
(* The calls run in one Dart isolate: a call gives it up only while it     *)
(* awaits chmod.  The process may be killed between any two file           *)
(* operations and in the middle of the write.                              *)
(***************************************************************************)
EXTENDS Naturals

CONSTANTS
    Calls,        \* the calls of install() the application may make
    Builds,       \* the artefacts it may be handed
    FirstBuild,   \* the build installed to begin with
    Absent        \* there is no file at the path

ASSUME AppImageAssumption ==
    /\ FirstBuild \in Builds
    /\ Absent \notin [build : Builds, whole : BOOLEAN, exec : BOOLEAN]

VARIABLES
    current,      \* the file at appImagePath
    backup,       \* the file at appImagePath.previous
    pc,           \* pc[c]: where call c stands
    artifact,     \* artifact[c]: the build call c installs
    alive,        \* the application process runs
    report,       \* report[c]: how call c ended
    start,        \* observation: what was at appImagePath when c began
    unrestored,   \* observation: some rename back has failed
    unmarked,     \* observation: some chmod has failed
    overlapped    \* observation: a call began while another was pending

files == <<current, backup>>
observed == <<start, unrestored, unmarked, overlapped>>
vars == <<files, pc, artifact, alive, report, observed>>

Image == [build : Builds, whole : BOOLEAN, exec : BOOLEAN]

\* Program points at which the call holds the isolate, and all of them.
Holding == {"clear", "rename", "write", "restore"}
Points == Holding \cup {"idle", "chmod", "marked", "failed_chmod", "ended"}
Reports == {"none", "missing", "threw", "put_back", "not_executable",
            "installed", "killed"}

TypeOK ==
    /\ current \in Image \cup {Absent}
    /\ backup \in Image \cup {Absent}
    /\ pc \in [Calls -> Points]
    /\ artifact \in [Calls -> Builds]
    /\ alive \in BOOLEAN
    /\ report \in [Calls -> Reports]
    /\ start \in [Calls -> Image \cup {Absent}]
    /\ unrestored \in BOOLEAN
    /\ unmarked \in BOOLEAN
    /\ overlapped \in BOOLEAN

Whole(f) == f # Absent /\ f.whole
Runnable(f) == f # Absent /\ f.whole /\ f.exec

Init ==
    /\ current = [build |-> FirstBuild, whole |-> TRUE, exec |-> TRUE]
    /\ backup \in {Absent, [build |-> FirstBuild, whole |-> TRUE, exec |-> TRUE]}
    /\ pc = [c \in Calls |-> "idle"]
    /\ artifact \in [Calls -> Builds]
    /\ alive = TRUE
    /\ report = [c \in Calls |-> "none"]
    /\ start = [c \in Calls |-> Absent]
    /\ unrestored = FALSE
    /\ unmarked = FALSE
    /\ overlapped = FALSE

-----------------------------------------------------------------------------
(* One call                                                                *)

IsolateFree == alive /\ \A c \in Calls : pc[c] \notin Holding

Go(c, point) == pc' = [pc EXCEPT ![c] = point] /\ UNCHANGED report
End(c, how) ==
    /\ pc' = [pc EXCEPT ![c] = "ended"]
    /\ report' = [report EXCEPT ![c] = how]

\* install() is called; it throws when there is nothing to replace.
Start(c) ==
    /\ pc[c] = "idle"
    /\ IsolateFree
    /\ overlapped' = (overlapped \/ \E d \in Calls : pc[d] \notin {"idle", "ended"})
    /\ start' = [start EXCEPT ![c] = current]
    /\ IF current = Absent THEN End(c, "missing") ELSE Go(c, "clear")
    /\ UNCHANGED <<files, artifact, alive, unrestored, unmarked>>

\* A leftover ".previous" is deleted first; a failing delete propagates.
Clear(c) ==
    /\ pc[c] = "clear"
    /\ \/ backup' = Absent /\ Go(c, "rename")
       \/ backup # Absent /\ UNCHANGED backup /\ End(c, "threw")
    /\ UNCHANGED <<current, artifact, alive, observed>>

\* current.renameSync(backup), outside the try: a failure propagates.
RenameOverwrites(c) ==
    /\ pc[c] = "rename"
    /\ Go(c, "write")
    /\ current' = Absent
    /\ UNCHANGED <<backup, artifact, alive, observed>>
RenameAway(c) ==
    /\ pc[c] = "rename"
    /\ \/ /\ backup' = current
          /\ current' = Absent
          /\ Go(c, "write")
       \/ UNCHANGED files /\ End(c, "threw")
    /\ UNCHANGED <<artifact, alive, observed>>

Torn(c) == [build |-> artifact[c], whole |-> FALSE, exec |-> FALSE]
Written(c) == [build |-> artifact[c], whole |-> TRUE, exec |-> FALSE]

\* writeAsBytesSync: a new file is not executable.  A FileSystemException
\* may come before or after some bytes reached the file.
WriteThenForget(c) ==
    /\ pc[c] = "write"
    /\ current' = Written(c)
    /\ backup' = Absent
    /\ Go(c, "chmod")
    /\ UNCHANGED <<artifact, alive, observed>>
Write(c) ==
    /\ pc[c] = "write"
    /\ \/ current' = Written(c) /\ Go(c, "chmod")
       \/ current' \in {Absent, Torn(c)} /\ Go(c, "restore")
    /\ UNCHANGED <<backup, artifact, alive, observed>>

\* The catch block: the rename replaces whatever the write left behind; when
\* it fails itself, its own exception leaves install().
Restore(c) ==
    /\ pc[c] = "restore"
    /\ \/ /\ current' = backup
          /\ backup' = Absent
          /\ UNCHANGED unrestored
          /\ End(c, "put_back")
       \/ /\ unrestored' = TRUE
          /\ UNCHANGED files
          /\ End(c, "threw")
    /\ UNCHANGED <<artifact, alive, start, unmarked, overlapped>>

\* The chmod process acts on whatever is at the path when it runs.
Chmod(c) ==
    /\ pc[c] = "chmod"
    /\ alive
    /\ \/ /\ current # Absent
          /\ current' = [current EXCEPT !.exec = TRUE]
          /\ Go(c, "marked")
          /\ UNCHANGED unmarked
       \/ /\ Go(c, "failed_chmod")
          /\ unmarked' = TRUE
          /\ UNCHANGED current
    /\ UNCHANGED <<backup, artifact, alive, start, unrestored, overlapped>>

\* The continuation after chmod: a failure is reported and leaves both
\* files; otherwise the previous image is deleted, which throws when the
\* file is gone or cannot be deleted.
FinishUnchecked(c) ==
    /\ pc[c] \in {"marked", "failed_chmod"}
    /\ IsolateFree
    /\ backup' = Absent /\ End(c, "installed")
    /\ UNCHANGED <<current, artifact, alive, observed>>
Finish(c) ==
    /\ pc[c] \in {"marked", "failed_chmod"}
    /\ IsolateFree
    /\ \/ /\ pc[c] = "failed_chmod"
          /\ UNCHANGED backup
          /\ End(c, "not_executable")
       \/ /\ pc[c] = "marked"
          /\ backup # Absent
          /\ backup' = Absent
          /\ End(c, "installed")
       \/ /\ pc[c] = "marked"
          /\ UNCHANGED backup
          /\ End(c, "threw")
    /\ UNCHANGED <<current, artifact, alive, observed>>

-----------------------------------------------------------------------------
(* The host                                                                *)

\* The process dies; a write in progress leaves nothing or part of a file.
Crash ==
    /\ alive
    /\ alive' = FALSE
    /\ \/ UNCHANGED current
       \/ \E c \in Calls : pc[c] = "write" /\ current' = Torn(c)
    /\ LET pending == {c \in Calls : pc[c] \notin {"idle", "ended"}}
       IN  /\ pc' = [c \in Calls |-> IF c \in pending THEN "ended" ELSE pc[c]]
           /\ report' = [c \in Calls |->
                            IF c \in pending THEN "killed" ELSE report[c]]
    /\ UNCHANGED <<backup, artifact, observed>>

\* The user starts the application again: that takes a runnable image.
Launch ==
    /\ ~alive
    /\ Runnable(current)
    /\ alive' = TRUE
    /\ UNCHANGED <<files, pc, artifact, report, observed>>

\* The user follows the remedy of the failed chmod.
UserChmod ==
    /\ \E c \in Calls : report[c] = "not_executable"
    /\ current # Absent
    /\ current' = [current EXCEPT !.exec = TRUE]
    /\ UNCHANGED <<backup, pc, artifact, alive, report, observed>>

Next ==
    \/ \E c \in Calls : \/ Start(c) \/ Clear(c) \/ RenameAway(c) \/ Write(c)
                        \/ Restore(c) \/ Chmod(c) \/ Finish(c)
    \/ Crash \/ Launch \/ UserChmod

Spec == Init /\ [][Next]_vars

-----------------------------------------------------------------------------
(* Properties                                                              *)

\* _replaceAppImage never destroys the last good image: wherever the process
\* is killed or an operation fails, and however calls overlap, a complete
\* AppImage is at the path or at ".previous".  The exception is a history in
\* which the rename back failed: the next call takes the torn file for the
\* installed one and deletes the good backup.
WholeImageKept == ~unrestored => Whole(current) \/ Whole(backup)

\* With one call at a time, and as long as no chmod and no rename back has
\* failed, what is kept can also be run as it stands (after renaming
\* ".previous" back, for a crash inside the swap).
RunnableImageKept ==
    ~overlapped /\ ~unrestored /\ ~unmarked =>
        Runnable(current) \/ Runnable(backup)

\* What a call reports is what is on the disk.  With one call at a time,
\* installedRestartNeeded means that the path holds the complete, executable
\* artefact of that call and the backup is gone.  "The previous one was put
\* back" means that the path holds the file it held when the call began (only
\* a chmod still pending from another call can have touched it, and that
\* changes its mode alone).
ReportsTruthful ==
    [][\A c \in Calls :
          report'[c] # report[c] =>
             /\ report'[c] = "installed" /\ ~overlapped =>
                  /\ current' = [build |-> artifact[c], whole |-> TRUE, exec |-> TRUE]
                  /\ backup' = Absent
             /\ report'[c] = "put_back" =>
                  /\ current'.build = start[c].build
                  /\ current'.whole = start[c].whole
                  /\ backup' = Absent]_vars
=============================================================================
