--------------------------- MODULE CommandSession ---------------------------
(***************************************************************************)
(* What the daemon promises the app that implements DaemonApp, and through *)
(* it the user: commands are handed over one at a time, inside a session   *)
(* both ends agreed to open, and each gets at most one answer, which does  *)
(* not lie about the work done.  How the session is opened, which frames   *)
(* carry it and which timer ends it is not said here.                      *)
(***************************************************************************)
EXTENDS Naturals, Sequences

CONSTANTS
    Ids,        \* request identifiers
    Results,    \* what a response may carry
    None        \* no answer yet

VARIABLES
    phase,      \* "greeting", "open" or "over"
    log         \* the commands of the session: id, work done, answer sent

sessionVars == <<phase, log>>

SessionInit == phase = "greeting" /\ log = <<>>

Open ==
    /\ phase = "greeting"
    /\ phase' = "open"
    /\ UNCHANGED log

\* Every command taken so far has its answer.
Idle == \A i \in 1..Len(log) : log[i].result # None

Take ==
    /\ phase = "open"
    /\ Idle
    /\ \E i \in Ids :
          log' = Append(log, [id |-> i, effect |-> FALSE, result |-> None])
    /\ UNCHANGED phase

\* The command in hand takes effect.
Work ==
    /\ phase = "open"
    /\ log # <<>>
    /\ log[Len(log)].result = None
    /\ log' = [log EXCEPT ![Len(log)].effect = TRUE]
    /\ UNCHANGED phase

\* "OK" only for work that was done, "INVALID_PARAMS" only for work that was
\* not; "ERR" and "TIMEOUT" leave it open.
Answer ==
    /\ phase = "open"
    /\ log # <<>>
    /\ log[Len(log)].result = None
    /\ \E r \in Results :
          /\ r = "OK" => log[Len(log)].effect
          /\ r = "INVALID_PARAMS" => ~log[Len(log)].effect
          /\ log' = [log EXCEPT ![Len(log)].result = r]
    /\ UNCHANGED phase

End ==
    /\ phase # "over"
    /\ phase' = "over"
    /\ UNCHANGED log

SessionNext == Open \/ Take \/ Work \/ Answer \/ End

SessionSpec == SessionInit /\ [][SessionNext]_sessionVars
=============================================================================
