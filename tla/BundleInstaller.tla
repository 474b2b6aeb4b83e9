-------------------------- MODULE BundleInstaller --------------------------
(***************************************************************************)
(* MacosInstaller.install: the update archive is extracted to a scratch    *)
(* directory, the installed bundle is renamed to ".previous" and the new   *)
(* one renamed into its place; when a rename is refused the swap is done   *)
(* again by a privileged shell ("rm -rf bundle && mv -f incoming bundle"). *)
(* One attempt runs at a time; the process may be killed anywhere.         *)
(* Module Updating composes it with the flow that hands it an artefact.    *)
(***************************************************************************)
EXTENDS Naturals

CONSTANTS
    Versions,     \* versions of the application
    Installed,    \* the version found on the disk
    MaxAttempts,  \* bound: calls of install()
    Absent,       \* nothing at a path
    Torn          \* a directory with only part of a bundle in it

VARIABLES
    bundle,       \* the directory at bundlePath
    backup,       \* the directory at bundlePath.previous
    incoming,     \* the .app extracted in this attempt's scratch directory
    scratch,      \* scratch directories on the disk, abandoned ones included
    pc,           \* where the attempt stands
    alive,        \* the application process runs
    report,       \* how the last attempt ended
    attempts,     \* attempts begun
    start,        \* the archive given; observation: bundle and scratch then
    removed,      \* observation: a privileged rm -rf has begun
    leftover      \* observation: an abandoned scratch directory holds a whole bundle

dirs == <<bundle, backup, incoming, scratch>>
vars == <<dirs, pc, alive, report, attempts, start, removed, leftover>>

\* A directory holds the whole bundle of one version, part of one, or is not
\* there.
Whole(d) == d \notin {Absent, Torn}

Init ==
    /\ bundle = Installed
    /\ backup \in {v \in Versions : v < Installed} \cup {Absent, Torn}
    /\ incoming = Absent
    /\ scratch = 0
    /\ pc = "idle"
    /\ alive = TRUE
    /\ report = "none"
    /\ attempts = 0
    /\ start = [bundle |-> Installed, scratch |-> 0, archive |-> Absent]
    /\ removed = FALSE
    /\ leftover = FALSE

-----------------------------------------------------------------------------
(* install()                                                               *)

At(point) == pc = point /\ alive
Go(point) == pc' = point /\ UNCHANGED report
\* The attempt ends and leaves its scratch directory where it is.
EndAbandoning(how) ==
    /\ pc' = "idle"
    /\ report' = how
    /\ leftover' = (leftover \/ Whole(incoming))
    /\ incoming' = Absent
    /\ UNCHANGED scratch
\* The attempt ends and scratch.deleteSync(recursive: true) has run.
EndClean(how) ==
    /\ pc' = "idle"
    /\ report' = how
    /\ incoming' = Absent
    /\ scratch' = scratch - 1
    /\ UNCHANGED leftover

Start(v) ==
    /\ At("idle")
    /\ attempts < MaxAttempts
    /\ attempts' = attempts + 1
    /\ start' = [bundle |-> bundle, scratch |-> scratch, archive |-> v]
    /\ IF bundle = Absent
         THEN /\ pc' = "idle"
              /\ report' = "missing"
              /\ UNCHANGED scratch
         ELSE /\ Go("extract")
              /\ scratch' = scratch + 1
    /\ UNCHANGED <<bundle, backup, incoming, alive, removed, leftover>>

\* tar ends; a failing one has its scratch directory deleted.  An exception
\* from the runner, or from that delete, leaves install() as it is.
Extract ==
    /\ At("extract")
    /\ \/ /\ incoming' \in {Absent, start.archive}
          /\ Go("find")
          /\ UNCHANGED <<scratch, leftover>>
       \/ EndClean("extract_failed")
       \/ EndAbandoning("threw")
    /\ UNCHANGED <<bundle, backup, alive, attempts, start, removed>>

FindBundle ==
    /\ At("find")
    /\ \/ /\ incoming # Absent
          /\ Go("clear")
          /\ UNCHANGED <<incoming, scratch, leftover>>
       \/ /\ incoming = Absent
          /\ EndClean("no_bundle") \/ EndAbandoning("threw")
    /\ UNCHANGED <<bundle, backup, alive, attempts, start, removed>>

\* An old ".previous" is deleted; a delete that fails half way propagates.
Clear ==
    /\ At("clear")
    /\ \/ /\ backup' = Absent
          /\ Go("rename_away")
          /\ UNCHANGED <<incoming, scratch, leftover>>
       \/ /\ backup # Absent
          /\ backup' \in {backup, Torn}
          /\ EndAbandoning("threw")
    /\ UNCHANGED <<bundle, alive, attempts, start, removed>>

\* The two renames of the try block; a refused one leads to the catch.
RenameAway ==
    /\ At("rename_away")
    /\ \/ /\ bundle # Absent
          /\ backup' = bundle
          /\ bundle' = Absent
          /\ Go("rename_in")
       \/ UNCHANGED <<bundle, backup>> /\ Go("put_back")
    /\ UNCHANGED <<incoming, scratch, alive, attempts, start, removed, leftover>>

RenameIn ==
    /\ At("rename_in")
    /\ \/ /\ bundle' = incoming
          /\ incoming' = Absent
          /\ Go("touch")
       \/ UNCHANGED <<bundle, incoming>> /\ Go("put_back")
    /\ UNCHANGED <<backup, scratch, alive, attempts, start, removed, leftover>>

\* _swapWithAdministrator puts the bundle back before it asks; its own
\* failing rename leaves install().
PutBackSkipped ==
    /\ At("put_back")
    /\ Go("elevate")
    /\ UNCHANGED <<dirs, alive, attempts, start, removed, leftover>>
PutBack ==
    /\ At("put_back")
    /\ \/ /\ backup # Absent /\ bundle = Absent
          /\ bundle' = backup
          /\ backup' = Absent
          /\ Go("elevate")
          /\ UNCHANGED <<incoming, scratch, leftover>>
       \/ /\ backup # Absent /\ bundle = Absent
          /\ UNCHANGED <<bundle, backup>>
          /\ EndAbandoning("threw")
       \/ /\ ~(backup # Absent /\ bundle = Absent)
          /\ UNCHANGED <<bundle, backup, incoming, scratch, leftover>>
          /\ Go("elevate")
    /\ UNCHANGED <<alive, attempts, start, removed>>

\* osascript: it cannot run, the authorisation is refused, or rm -rf runs as root, wholly
\* or (when it fails) in part.
Elevate ==
    /\ At("elevate")
    /\ \/ /\ UNCHANGED <<bundle, removed>>
          /\ EndAbandoning("refused") \/ EndAbandoning("threw")
       \/ /\ removed' = TRUE
          /\ bundle' = Torn
          /\ EndAbandoning("refused")
       \/ /\ removed' = TRUE
          /\ bundle' = Absent
          /\ Go("move")
          /\ UNCHANGED <<incoming, scratch, leftover>>
    /\ UNCHANGED <<backup, alive, attempts, start>>

\* ... && mv -f: across volumes it copies, and may stop half way with its
\* source intact.
MoveClean ==
    /\ At("move")
    /\ bundle' \in {Absent, Torn}
    /\ EndClean("refused")
    /\ UNCHANGED <<backup, alive, attempts, start, removed>>
Move ==
    /\ At("move")
    /\ \/ /\ bundle' = incoming
          /\ incoming' = Absent
          /\ Go("touch")
          /\ UNCHANGED <<scratch, leftover>>
       \/ /\ bundle' \in {Absent, Torn}
          /\ EndAbandoning("refused")
    /\ UNCHANGED <<backup, alive, attempts, start, removed>>

\* touch is awaited and its exit code ignored; it may fail to start.
Touch ==
    /\ At("touch")
    /\ \/ Go("drop_backup") /\ UNCHANGED <<incoming, scratch, leftover>>
       \/ EndAbandoning("threw")
    /\ UNCHANGED <<bundle, backup, alive, attempts, start, removed>>

DropBackup ==
    /\ At("drop_backup")
    /\ \/ /\ backup' = Absent
          /\ Go("drop_scratch")
          /\ UNCHANGED <<incoming, scratch, leftover>>
       \/ /\ backup # Absent
          /\ backup' \in {backup, Torn}
          /\ EndAbandoning("threw")
    /\ UNCHANGED <<bundle, alive, attempts, start, removed>>

DropScratch ==
    /\ At("drop_scratch")
    /\ EndClean("installed") \/ EndAbandoning("threw")
    /\ UNCHANGED <<bundle, backup, alive, attempts, start, removed>>

-----------------------------------------------------------------------------
(* The host                                                                *)

\* The process dies.  A recursive delete or a copy in progress is cut short.
Crash ==
    /\ alive
    /\ alive' = FALSE
    /\ pc' = "idle"
    /\ report' = IF pc = "idle" THEN report ELSE "killed"
    /\ leftover' = (leftover \/ Whole(incoming))
    /\ incoming' = Absent
    /\ UNCHANGED scratch
    /\ backup' \in (IF pc \in {"clear", "drop_backup"} /\ backup # Absent
                      THEN {backup, Torn} ELSE {backup})
    /\ bundle' \in (IF pc = "move" THEN {bundle, Torn} ELSE {bundle})
    /\ UNCHANGED <<attempts, start, removed>>

Launch ==
    /\ ~alive
    /\ Whole(bundle)
    /\ alive' = TRUE
    /\ UNCHANGED <<dirs, pc, report, attempts, start, removed, leftover>>

Work ==
    \/ Extract \/ FindBundle \/ Clear \/ RenameAway \/ RenameIn \/ PutBack
    \/ Elevate \/ Move \/ Touch \/ DropBackup \/ DropScratch

Next == (\E v \in Versions : Start(v)) \/ Work \/ Crash \/ Launch

Spec == Init /\ [][Next]_vars

-----------------------------------------------------------------------------
(* Properties                                                              *)

\* install() never destroys the last whole application: without the
\* privileged rm, one is at the bundle path or at ".previous" whatever
\* fails; after it, the new one is at least in a scratch directory that the
\* failing paths leave alone.
WholeBundleKept ==
    \/ Whole(bundle)
    \/ Whole(backup)
    \/ removed /\ (Whole(incoming) \/ leftover)

\* What install() reports is what is on the disk: installedRestartNeeded
\* means the new bundle is in place and neither the previous one nor the
\* scratch directory is left over; a bad archive or a refused swap means the
\* bundle it found is in its place, the refused rename after the first one
\* included.  Histories with a privileged rm are excepted from the second
\* half: rm may succeed and mv fail, and the report says "left untouched".
EndsTruthfully ==
    pc # "idle" /\ pc' = "idle" =>
        /\ report' = "installed" =>
              /\ bundle' = start.archive
              /\ backup' = Absent
              /\ scratch' = start.scratch
        /\ report' \in {"extract_failed", "no_bundle", "refused"} /\ ~removed'
              => bundle' = start.bundle
OutcomeTruthful == [][EndsTruthfully]_vars
=============================================================================
