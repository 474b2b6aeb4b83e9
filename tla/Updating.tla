------------------------------ MODULE Updating ------------------------------
(***************************************************************************)
(* A whole update on macOS: the process that runs one version asks for a   *)
(* newer one (UpdateFlow), hands the verified artefact to MacosInstaller   *)
(* (BundleInstaller), and is launched again from whatever is at the bundle *)
(* path.  The process may be killed at any step; all it knew is then lost. *)
(*                                                                         *)
(* Nothing in the client binds the version inside an archive to the one    *)
(* its manifest announces (docs/threat-model.md): whoever controls a host  *)
(* may announce an old archive, which our key signed, under a new number.  *)
(***************************************************************************)
EXTENDS UpdateFlow

CONSTANTS
    MaxAttempts,  \* bound: calls of install()
    Absent, Torn  \* no directory; part of a bundle

ASSUME UpdatingAssumption ==
    Absent \notin Nat /\ Torn \notin Nat /\ Absent # Torn

VARIABLES bundle, backup, incoming, scratch, pc, alive, report, attempts,
          start, removed, leftover

VARIABLE relabelled  \* observation: versions handed over under a newer number

Mac == INSTANCE BundleInstaller

installer == <<bundle, backup, incoming, scratch, pc, alive, report, attempts,
               start, removed, leftover>>
all == <<vars, installer, relabelled>>

WholeInit == Init /\ Mac!Init /\ relabelled = {}

\* The application asks, downloads, and gives what it verified to install().
\* The signature says who made the bytes, not which version they are.
Asks == alive /\ Ask /\ UNCHANGED <<installer, relabelled>>
HandOver ==
    /\ Install
    /\ \E v \in Versions :
          /\ Mac!Start(v)
          /\ relabelled' = relabelled \cup (IF v < manifest.version THEN {v} ELSE {})
Installs == Mac!Work /\ UNCHANGED <<vars, relabelled>>

\* It may ask again once a flow is over, without having been restarted.
AskAgain ==
    /\ alive /\ pc = "idle"
    /\ flow \in {"refused", "up_to_date", "installing"}
    /\ StartOver
    /\ UNCHANGED <<running, installer, relabelled>>

Killed == Mac!Crash /\ StartOver /\ UNCHANGED <<running, relabelled>>
Relaunched == Mac!Launch /\ running' = bundle /\ StartOver /\ UNCHANGED relabelled

WholeNext == Asks \/ HandOver \/ Installs \/ AskAgain \/ Killed \/ Relaunched

WholeSpec == WholeInit /\ [][WholeNext]_all

\* The only thing the process can count on is its own timer: the hosts may
\* never answer.  A body that keeps coming ends at the ceiling.
FairSpec ==
    /\ WholeSpec
    /\ WF_all(TimesOut /\ alive /\ UNCHANGED <<running, installer, relabelled>>)

-----------------------------------------------------------------------------
(* Properties                                                              *)

\* Where an installed release came from.  No request left the machine in
\* clear text, whatever the endpoints, the redirects on the way and the
\* manifest said; an update, or the news that there is none, comes from the
\* first endpoint that answered; and the installer works, for as long as it
\* works, on bytes that our key signed.
InstallProvenance ==
    /\ asked \subseteq {"https"}
    /\ flow \in {"available", "up_to_date", "downloading", "verified", "installing"}
         => failed = {j \in Endpoints : j < ep}
    /\ pc # "idle" => artifact = "genuine" /\ manifest.key = "ours"

\* Without allowDowngrade a launch runs an older version than the one before
\* only if that version's archive was announced under a newer number, which
\* the policy cannot see; however updates were interrupted, refused or
\* repeated without a restart, and whichever of the two directories a swap
\* left in place, nothing else takes the application back.
RunningNeverGoesBack ==
    [][AllowDowngrade \/ running' >= running \/ running' \in relabelled]_all

\* BundleInstaller's promise under this use: install() never destroys the
\* last whole application.
WholeBundleKept == Mac!WholeBundleKept

\* BundleInstaller's promise under this use: what install() reports is what
\* is on the disk.  A swap that is refused after the privileged rm has run is
\* excepted: the installer then says the bundle was left untouched, and it
\* is gone or torn.
OutcomeTruthful == [][Mac!EndsTruthfully]_all
=============================================================================
