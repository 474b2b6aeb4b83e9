----------------------------- MODULE EventPumps -----------------------------
(***************************************************************************)
(* dovetail_rust_core: the pumps that carry broadcast events over the      *)
(* bridge, and the PumpTable that lists them by name.                      *)
(*                                                                         *)
(* Callers on any thread replace, remove and clear entries while the pump  *)
(* tasks run on the runtime.  Every name has its own broadcast channel of  *)
(* Cap slots; behind[t] counts the events task t has not received, and     *)
(* stops at Cap + 1: at least one of them has been overwritten.            *)
(***************************************************************************)
EXTENDS Naturals

CONSTANTS
    Streams,     \* stream names
    Tasks,       \* pump tasks a caller may spawn
    Cap,         \* slots of a broadcast channel
    MaxSends,    \* bound: events the sources send on each channel
    LogName,     \* the name whose pump carries log_lines(), or NoName
    NoName,
    NoTask

ASSUME EventPumpsAssumption ==
    /\ Cap \in Nat \ {0}
    /\ MaxSends \in Nat
    /\ NoName \notin Streams
    /\ LogName \in Streams \cup {NoName}
    /\ NoTask \notin Tasks

VARIABLES
    table,       \* PumpTable::entries
    name,        \* name[t]: the stream t pumps
    task,        \* task[t]: state of the tokio task
    aborted,     \* aborted[t]: JoinHandle::abort was called
    behind,      \* behind[t]: events sent and not received by t
    call,        \* call[t]: where the replace() that brings t stands
    displaced,   \* displaced[t]: what that insert returned
    answer,      \* answer[t]: displaced_a_live_pump
    sent,        \* sent[n]: events sent by the source of n
    closed,      \* closed[n]: every sender of n is gone
    killed,      \* observation: tasks a replace() interrupted
    warned       \* observation: flips with every lag warning

tableVars == <<table, name, call, displaced, answer, killed>>
channelVars == <<sent, closed, warned>>
pumpsVars == <<tableVars, task, aborted, behind, channelVars>>

PumpsTypeOK ==
    /\ table \in [Streams -> Tasks \cup {NoTask}]
    /\ name \in [Tasks -> Streams]
    /\ task \in [Tasks -> {"new", "parked", "polling", "finished"}]
    /\ aborted \in [Tasks -> BOOLEAN]
    /\ behind \in [Tasks -> 0..(Cap + 1)]
    /\ call \in [Tasks -> {"none", "spawned", "inserted", "judged", "done"}]
    /\ displaced \in [Tasks -> Tasks \cup {NoTask}]
    /\ answer \in [Tasks -> BOOLEAN]
    /\ sent \in [Streams -> 0..MaxSends]
    /\ closed \in [Streams -> BOOLEAN]
    /\ killed \subseteq Tasks
    /\ warned \in BOOLEAN

PumpsInit ==
    /\ table = [n \in Streams |-> NoTask]
    /\ name \in [Tasks -> Streams]
    /\ task = [t \in Tasks |-> "new"]
    /\ aborted = [t \in Tasks |-> FALSE]
    /\ behind = [t \in Tasks |-> 0]
    /\ call = [t \in Tasks |-> "none"]
    /\ displaced = [t \in Tasks |-> NoTask]
    /\ answer = [t \in Tasks |-> FALSE]
    /\ sent = [n \in Streams |-> 0]
    /\ closed = [n \in Streams |-> FALSE]
    /\ killed = {}
    /\ warned = FALSE

-----------------------------------------------------------------------------
(* PumpTable                                                               *)

\* The caller subscribes and spawns the pump it is about to list.
Spawn(t) ==
    /\ call[t] = "none"
    /\ call' = [call EXCEPT ![t] = "spawned"]
    /\ task' = [task EXCEPT ![t] = "polling"]
    /\ UNCHANGED <<table, name, displaced, answer, killed, aborted, behind,
                   channelVars>>

\* replace: the insert, under the lock, hands back the entry it displaced ...
Insert(t) ==
    /\ call[t] = "spawned"
    /\ call' = [call EXCEPT ![t] = "inserted"]
    /\ displaced' = [displaced EXCEPT ![t] = table[name[t]]]
    /\ table' = [table EXCEPT ![name[t]] = t]
    /\ UNCHANGED <<name, answer, killed, task, aborted, behind, channelVars>>

\* ... which, outside the lock, is asked whether it still runs ...
JudgeByEntry(t) ==
    /\ call[t] = "inserted"
    /\ call' = [call EXCEPT ![t] = "judged"]
    /\ LET listed == table[name[t]]
       IN  answer' = [answer EXCEPT ![t] =
                        listed # t /\ listed # NoTask /\ task[listed] # "finished"]
    /\ UNCHANGED <<table, name, displaced, killed, task, aborted, behind,
                   channelVars>>
Judge(t) ==
    /\ call[t] = "inserted"
    /\ call' = [call EXCEPT ![t] = "judged"]
    /\ answer' = [answer EXCEPT ![t] =
                     displaced[t] # NoTask /\ task[displaced[t]] # "finished"]
    /\ UNCHANGED <<table, name, displaced, killed, task, aborted, behind,
                   channelVars>>

\* ... and dropped at the end of replace, which aborts it.  (A handle without
\* PumpTask's Drop would only be detached.)
DropDetaches(t) ==
    /\ call[t] = "judged"
    /\ call' = [call EXCEPT ![t] = "done"]
    /\ UNCHANGED <<table, name, displaced, answer, killed, task, aborted, behind,
                   channelVars>>
DropDisplaced(t) ==
    /\ call[t] = "judged"
    /\ call' = [call EXCEPT ![t] = "done"]
    /\ LET dropped == {displaced[t]} \ {NoTask}
       IN  /\ aborted' = [u \in Tasks |-> aborted[u] \/ u \in dropped]
           /\ killed' = killed \cup {u \in dropped : task[u] # "finished"}
    /\ UNCHANGED <<table, name, displaced, answer, task, behind, channelVars>>

\* remove(name): the entry is taken out and dropped.
Remove(n) ==
    /\ table[n] # NoTask
    /\ aborted' = [aborted EXCEPT ![table[n]] = TRUE]
    /\ table' = [table EXCEPT ![n] = NoTask]
    /\ UNCHANGED <<name, call, displaced, answer, killed, task, behind,
                   channelVars>>

\* clear(): all of them.
Clear ==
    /\ \E n \in Streams : table[n] # NoTask
    /\ aborted' = [t \in Tasks |-> aborted[t] \/ \E n \in Streams : table[n] = t]
    /\ table' = [n \in Streams |-> NoTask]
    /\ UNCHANGED <<name, call, displaced, answer, killed, task, behind,
                   channelVars>>

-----------------------------------------------------------------------------
(* The broadcast channels                                                  *)

Subscribed(n) == {t \in Tasks : task[t] \notin {"new", "finished"} /\ name[t] = n}

\* behind after one more event on channel n, starting from b.
OneMore(b, n) ==
    [t \in Tasks |-> IF t \in Subscribed(n) /\ b[t] <= Cap THEN b[t] + 1 ELSE b[t]]

Send(n) ==
    /\ ~closed[n]
    /\ sent[n] < MaxSends
    /\ sent' = [sent EXCEPT ![n] = @ + 1]
    /\ behind' = OneMore(behind, n)
    /\ UNCHANGED <<tableVars, task, aborted, closed, warned>>

\* The senders of a product's stream go away; LINES is static and stays.
Close(n) ==
    /\ ~closed[n]
    /\ n # LogName
    /\ closed' = [closed EXCEPT ![n] = TRUE]
    /\ UNCHANGED <<tableVars, task, aborted, behind, sent, warned>>

-----------------------------------------------------------------------------
(* pump                                                                    *)

\* recv() yields an event and emit takes it, or refuses and ends the pump.
Deliver(t) ==
    /\ task[t] = "polling"
    /\ behind[t] \in 1..Cap
    /\ behind' = [behind EXCEPT ![t] = @ - 1]
    /\ UNCHANGED <<tableVars, task, aborted, channelVars>>

Refused(t) ==
    /\ task[t] = "polling"
    /\ behind[t] \in 1..Cap
    /\ behind' = [behind EXCEPT ![t] = 0]
    /\ task' = [task EXCEPT ![t] = "finished"]
    /\ UNCHANGED <<tableVars, aborted, channelVars>>

\* recv() says Lagged: the receiver now stands at the oldest slot, and the
\* warning is one more line on the channel of log_lines().
LaggedStays(t) ==
    /\ task[t] = "polling"
    /\ behind[t] > Cap
    /\ task' = [task EXCEPT ![t] = "parked"]
    /\ UNCHANGED <<tableVars, aborted, behind, channelVars>>
Lagged(t) ==
    /\ task[t] = "polling"
    /\ behind[t] > Cap
    /\ behind' = OneMore([behind EXCEPT ![t] = Cap], LogName)
    /\ warned' = ~warned
    /\ UNCHANGED <<tableVars, task, aborted, sent, closed>>

\* recv() has nothing: the task waits, or ends when the channel is closed.
Park(t) ==
    /\ task[t] = "polling"
    /\ behind[t] = 0
    /\ task' = [task EXCEPT ![t] = IF closed[name[t]] THEN "finished" ELSE "parked"]
    /\ UNCHANGED <<tableVars, aborted, behind, channelVars>>

\* The runtime polls a task again when there is something for it, and ends
\* an aborted one instead: abort takes effect between two polls.
Wake(t) ==
    /\ task[t] = "parked"
    /\ ~aborted[t]
    /\ behind[t] > 0 \/ closed[name[t]]
    /\ task' = [task EXCEPT ![t] = "polling"]
    /\ UNCHANGED <<tableVars, aborted, behind, channelVars>>

Cancel(t) ==
    /\ task[t] = "parked"
    /\ aborted[t]
    /\ task' = [task EXCEPT ![t] = "finished"]
    /\ behind' = [behind EXCEPT ![t] = 0]
    /\ UNCHANGED <<tableVars, aborted, channelVars>>

Runs(t) ==
    \/ Deliver(t) \/ Refused(t) \/ Lagged(t) \/ Park(t) \/ Wake(t) \/ Cancel(t)
Calls(t) == Spawn(t) \/ Insert(t) \/ Judge(t) \/ DropDisplaced(t)

PumpsNext ==
    \/ \E t \in Tasks : Calls(t) \/ Runs(t)
    \/ \E n \in Streams : Remove(n) \/ Send(n) \/ Close(n)
    \/ Clear

PumpsSpec == PumpsInit /\ [][PumpsNext]_pumpsVars

\* The runtime runs every task that can run, and a replace() that has begun
\* reaches its end; nobody has to subscribe, send, remove or close.
FairSpec ==
    /\ PumpsSpec
    /\ \A t \in Tasks :
          /\ WF_pumpsVars(Runs(t))
          /\ WF_pumpsVars(Insert(t) \/ Judge(t) \/ DropDisplaced(t))

-----------------------------------------------------------------------------
(* Properties                                                              *)

\* PumpTable leaks no pump: one that still runs and was not told to stop is
\* in the table, or in the hands of a replace() that will list or drop it.
RunningPumpsOwned ==
    \A t \in Tasks :
        task[t] \in {"parked", "polling"} /\ ~aborted[t] =>
            \/ \E n \in Streams : table[n] = t
            \/ call[t] = "spawned"
            \/ \E u \in Tasks : displaced[u] = t /\ call[u] # "done"

\* replace never interrupts a pump silently: whatever other replace, remove
\* and clear calls run at the same time, a caller whose call interrupted a
\* running pump was told that it displaced a live one.
NoSilentKill ==
    \A t \in Tasks :
        call[t] = "done" /\ displaced[t] \in killed => answer[t]

\* "event pump lagged; resuming": a pump with events waiting, one that fell
\* behind the channel included, gets through them or ends.
PumpsCatchUp ==
    \A t \in Tasks : behind[t] > 0 ~> behind[t] = 0
=============================================================================
