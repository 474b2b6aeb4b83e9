------------------------ MODULE PrivilegedConnection ------------------------
(***************************************************************************)
(* One connection between an app and the privileged daemon.                *)
(*                                                                         *)
(* The two ends talk through a byte stream that carries length-delimited   *)
(* JSON frames.  The daemon's end is the task that runs handle_conn        *)
(* (dovetail_privileged_daemon/rust/src/connection.rs) on top of           *)
(* server_handshake; the app's end is client_handshake followed by the     *)
(* app's own requests.  A peer that does not follow client_handshake and   *)
(* writes whatever frames it likes is modelled as well ("stranger").       *)
(*                                                                         *)
(* Deadlines (handshake, idle, per command) are nondeterministic: a timer  *)
(* may fire whenever its future is being awaited.  Writes are immediate    *)
(* towards the daemon and wait for room towards the app, because only the  *)
(* daemon can be held up by a peer that does not read.                     *)
(***************************************************************************)
EXTENDS Naturals, Sequences

CONSTANTS
    Majors,        \* protocol majors the two ends may have been built with
    Minors,        \* protocol minors
    MaxRequests,   \* bound: requests the app sends; ids are 1..MaxRequests
    MaxStrange,    \* bound: frames a stranger writes
    WireCap,       \* frames the stream buffers towards the app
    None           \* the absent value

ASSUME ConnectionAssumption ==
    /\ Majors \subseteq Nat
    /\ Minors \subseteq Nat
    /\ MaxRequests \in Nat \ {0}
    /\ MaxStrange \in Nat
    /\ WireCap \in Nat \ {0}
    /\ None \notin Minors
    /\ None # "ready"
    /\ None \notin {"OK", "ERR", "INVALID_PARAMS", "TIMEOUT"}
    /\ None \notin {"unexpected", "version_mismatch", "VERSION_UNSUPPORTED",
                    "FRAME_TOO_LARGE", "MALFORMED_FRAME"}

VARIABLES
    client,      \* program point of the app's end
    server,      \* program point of the daemon's task
    c_ver,       \* protocol version of the app
    s_ver,       \* protocol version of the daemon
    to_server,   \* frames written by the app and not yet read
    to_client,   \* frames written by the daemon and not yet read
    eof,         \* the app has shut down its write half (or dropped the stream)
    out,         \* the frame the daemon awaits to send, if any
    after,       \* where the daemon goes once that frame is sent
    c_minor,     \* ClientHandshakeResult::negotiated_minor, None before
    greeted,     \* ServerHandshakeResult::client_hello, <<>> before
    s_minor,     \* ServerHandshakeResult::negotiated_minor, None before
    written,     \* requests the app, or frames the stranger, has written
    calls,       \* observation: the requests read inside the session
    got,         \* observation: <<id, result>> of the responses the app read
    verdict      \* observation: how client_handshake ended

wire == <<to_server, to_client, eof>>
serverVars == <<server, out, after, greeted, s_minor, calls>>
clientVars == <<client, c_minor, written, got, verdict>>
vars == <<wire, serverVars, clientVars, c_ver, s_ver>>

-----------------------------------------------------------------------------
(* Frames                                                                  *)

Ids == 1..MaxRequests
Versions == [major : Majors, minor : Minors]

RejectCodes == {"VERSION_UNSUPPORTED", "HANDSHAKE_REQUIRED",
                "FRAME_TOO_LARGE", "MALFORMED_FRAME"}
Results == {"OK", "ERR", "INVALID_PARAMS", "TIMEOUT"}

Hello(v) == [t |-> "hello", v |-> v]
ServerHello(ok, v, code) ==
    [t |-> "server_hello", accepted |-> ok, v |-> v, reject |-> code]
Request(i, valid) == [t |-> "request", id |-> i, valid |-> valid]
Response(i, r) == [t |-> "response", id |-> i, result |-> r]

\* What a stranger may write besides a Hello and a Request: the two frames
\* only a daemon sends, and what recv_frame does not decode (a frame above
\* MAX_FRAME_BYTES, JSON that does not parse, a frame the end of the stream
\* cuts short).
OtherFrames ==
    [t : {"server_hello", "response", "too_large", "malformed", "cut"}]

ToServerFrames ==
    [t : {"hello"}, v : Versions]
        \cup [t : {"request"}, id : Ids, valid : BOOLEAN]
        \cup OtherFrames

ServerHellos == [t : {"server_hello"}, accepted : BOOLEAN, v : Versions,
                 reject : RejectCodes \cup {None}]
Responses == [t : {"response"}, id : Ids, result : Results]
ToClientFrames == ServerHellos \cup Responses

\* A request the daemon has read in the session: whether dispatch has done
\* its work, and the result the daemon has sent back.
Calls == [id : Ids, effect : BOOLEAN, result : Results \cup {None}]

-----------------------------------------------------------------------------
ClientStates == {"start", "await", "ready", "failed", "closed", "stranger"}
ServerStates == {"nonce", "hello", "loop", "dispatch", "sending", "closed"}
Verdicts == {None, "ready", "send", "stream_ended", "timeout",
             "unexpected", "version_mismatch"} \cup RejectCodes

\* The types of the state of the two ends and of the stream.
StateTypeOK ==
    /\ client \in ClientStates
    /\ server \in ServerStates
    /\ c_ver \in Versions
    /\ s_ver \in Versions
    /\ to_server \in Seq(ToServerFrames)
    /\ to_client \in Seq(ToClientFrames)
    /\ eof \in BOOLEAN
    /\ out \in Seq(ToClientFrames)
    /\ server = "sending" <=> Len(out) = 1
    /\ server # "sending" <=> Len(out) = 0
    /\ after \in {"loop", "closed"}
    /\ c_minor \in Minors \cup {None}
    /\ s_minor \in Minors \cup {None}
    /\ greeted \in Seq(Versions)
    /\ written \in Nat
    /\ calls \in Seq(Calls)
    /\ verdict \in Verdicts

\* The whole state keeps its types; what the app reads once it is ready is
\* always a response, never a second ServerHello.
TypeOK == StateTypeOK /\ got \in Seq(Ids \X Results)

\* The stream is connected and the daemon has spawned handle_conn for it.
Init ==
    /\ client \in {"start", "stranger"}
    /\ server = "nonce"
    /\ c_ver \in Versions
    /\ s_ver \in Versions
    /\ to_server = <<>>
    /\ to_client = <<>>
    /\ eof = FALSE
    /\ out = <<>>
    /\ after = "closed"
    /\ c_minor = None
    /\ s_minor = None
    /\ greeted = <<>>
    /\ written = 0
    /\ calls = <<>>
    /\ got = <<>>
    /\ verdict = None

-----------------------------------------------------------------------------
(* The daemon's end                                                        *)

\* send_frame(f).await, and the program point that follows it.
Send(f, next) ==
    /\ server' = "sending"
    /\ out' = <<f>>
    /\ after' = next

\* The task ends and its half of the stream is dropped.
Close ==
    /\ server' = "closed"
    /\ out' = <<>>
    /\ UNCHANGED after

\* A response that went out is the answer to the call in dispatch.
Answered ==
    IF out[1].t = "response"
    THEN [calls EXCEPT ![Len(calls)].result = out[1].result]
    ELSE calls

\* send_frame completes: the frame is in the stream, in front of an app that
\* still holds its end.
SendFrame ==
    /\ server = "sending"
    /\ client # "closed"
    /\ Len(to_client) < WireCap
    /\ to_client' = Append(to_client, out[1])
    /\ server' = after
    /\ out' = <<>>
    /\ calls' = Answered
    /\ UNCHANGED <<to_server, eof, after, greeted, s_minor, clientVars, c_ver, s_ver>>

\* The app dropped its end: the write fails (unix socket, pipe) and the task
\* ends with the error, or is swallowed (XPC) and the task goes on.
SendToNobody ==
    /\ server = "sending"
    /\ client = "closed"
    /\ \/ server' = "closed" /\ UNCHANGED calls
       \/ server' = after /\ calls' = Answered
    /\ out' = <<>>
    /\ UNCHANGED <<wire, after, greeted, s_minor, clientVars, c_ver, s_ver>>

\* random_nonce either yields 16 bytes or fails; without a nonce the
\* connection is closed before anything is said.
DrawNonce ==
    /\ server = "nonce"
    /\ \/ server' = "hello" /\ UNCHANGED <<out, after>>
       \/ Close
    /\ UNCHANGED <<wire, greeted, s_minor, calls, clientVars, c_ver, s_ver>>

AcceptsAnyMajor(hello, own) == TRUE
Accepts(hello, own) == hello.major = own.major

Negotiated(hello, own) ==
    IF hello.minor <= own.minor THEN hello.minor ELSE own.minor

AnswersWithOwnVersion(hello, own) ==
    ServerHello(Accepts(hello, own), own,
                IF Accepts(hello, own) THEN None ELSE "VERSION_UNSUPPORTED")
HelloAnswer(hello, own) ==
    IF Accepts(hello, own)
    THEN ServerHello(TRUE, [own EXCEPT !.minor = Negotiated(hello, own)], None)
    ELSE ServerHello(FALSE, own, "VERSION_UNSUPPORTED")

\* The code read_hello gives a first frame that is not a Hello.
RejectCode(f) ==
    CASE f.t \in {"request", "cut"} -> "HANDSHAKE_REQUIRED"
      [] f.t = "too_large"          -> "FRAME_TOO_LARGE"
      [] OTHER                      -> "MALFORMED_FRAME"

\* read_hello got a frame.
ReadHello ==
    /\ server = "hello"
    /\ to_server # <<>>
    /\ to_server' = Tail(to_server)
    /\ LET f == Head(to_server)
       IN  IF f.t = "hello"
           THEN /\ Send(HelloAnswer(f.v, s_ver),
                        IF Accepts(f.v, s_ver) THEN "loop" ELSE "closed")
                /\ s_minor' = Negotiated(f.v, s_ver)
                /\ greeted' = <<f.v>>
           ELSE /\ Send(ServerHello(FALSE, s_ver, RejectCode(f)), "closed")
                /\ UNCHANGED <<greeted, s_minor>>
    /\ UNCHANGED <<to_client, eof, calls, clientVars, c_ver, s_ver>>

\* read_hello ran into its deadline (a Hello may be on its way), or into the
\* end of the stream: refused on the wire, best effort.
HelloMissing ==
    /\ server = "hello"
    /\ Send(ServerHello(FALSE, s_ver, "HANDSHAKE_REQUIRED"), "closed")
    /\ UNCHANGED <<wire, greeted, s_minor, calls, clientVars, c_ver, s_ver>>

\* The request loop read a request that A::validate lets through.
ReadRequestAnytime ==
    /\ server \in {"hello", "loop"}
    /\ to_server # <<>>
    /\ LET f == Head(to_server)
       IN  /\ f.t = "request"
           /\ f.valid
           /\ calls' = Append(calls, [id |-> f.id, effect |-> FALSE,
                                      result |-> None])
    /\ to_server' = Tail(to_server)
    /\ server' = "dispatch"
    /\ UNCHANGED <<to_client, eof, out, after, greeted, s_minor, clientVars, c_ver, s_ver>>
ReadRequest ==
    /\ server = "loop"
    /\ to_server # <<>>
    /\ LET f == Head(to_server)
       IN  /\ f.t = "request"
           /\ f.valid
           /\ calls' = Append(calls, [id |-> f.id, effect |-> FALSE,
                                      result |-> None])
    /\ to_server' = Tail(to_server)
    /\ server' = "dispatch"
    /\ UNCHANGED <<to_client, eof, out, after, greeted, s_minor, clientVars, c_ver, s_ver>>

\* A::validate refused the command: answered without dispatch.
RefuseRequest ==
    /\ server = "loop"
    /\ to_server # <<>>
    /\ LET f == Head(to_server)
       IN  /\ f.t = "request"
           /\ ~f.valid
           /\ calls' = Append(calls, [id |-> f.id, effect |-> FALSE,
                                      result |-> None])
           /\ Send(Response(f.id, "INVALID_PARAMS"), "loop")
    /\ to_server' = Tail(to_server)
    /\ UNCHANGED <<to_client, eof, greeted, s_minor, clientVars, c_ver, s_ver>>

\* Anything but a request ends the session without an answer.
ReadOther ==
    /\ server = "loop"
    /\ to_server # <<>>
    /\ Head(to_server).t # "request"
    /\ to_server' = Tail(to_server)
    /\ Close
    /\ UNCHANGED <<to_client, eof, greeted, s_minor, calls, clientVars, c_ver, s_ver>>

\* recv_frame returned None: the app closed its write half and everything it
\* wrote has been read.
ReadEnd ==
    /\ server = "loop"
    /\ to_server = <<>>
    /\ eof
    /\ Close
    /\ UNCHANGED <<wire, greeted, s_minor, calls, clientVars, c_ver, s_ver>>

\* IDLE_TIMEOUT_MS went by without a whole frame.
IdleTimeout ==
    /\ server = "loop"
    /\ Close
    /\ UNCHANGED <<wire, greeted, s_minor, calls, clientVars, c_ver, s_ver>>

\* The app's dispatch does the command's work, at some await of its own.
DispatchWorks ==
    /\ server = "dispatch"
    /\ ~calls[Len(calls)].effect
    /\ calls' = [calls EXCEPT ![Len(calls)].effect = TRUE]
    /\ UNCHANGED <<wire, server, out, after, greeted, s_minor, clientVars, c_ver, s_ver>>

DispatchAnswersAnother(i) == Response(1, "OK")
DispatchAnswer(i) == Response(i, "OK")

\* dispatch returned: with its work done, or with an error of its own.  A
\* reply above MAX_FRAME_BYTES is refused by send_frame and ends the task.
DispatchReturns ==
    /\ server = "dispatch"
    /\ LET call == calls[Len(calls)]
       IN  \/ call.effect /\ Send(DispatchAnswer(call.id), "loop")
           \/ Send(Response(call.id, "ERR"), "loop")
           \/ call.effect /\ Close
    /\ UNCHANGED <<wire, greeted, s_minor, calls, clientVars, c_ver, s_ver>>

\* command_timeout ran out: the dispatch future is dropped where it stands.
CommandNeverTimesOut ==
    /\ server = "dispatch"
    /\ FALSE
    /\ UNCHANGED vars
CommandTimeout ==
    /\ server = "dispatch"
    /\ Send(Response(calls[Len(calls)].id, "TIMEOUT"), "loop")
    /\ UNCHANGED <<wire, greeted, s_minor, calls, clientVars, c_ver, s_ver>>

\* The accept loop ended and the runtime is dropped with every task in it.
TaskDropped ==
    /\ server # "closed"
    /\ Close
    /\ UNCHANGED <<wire, greeted, s_minor, calls, clientVars, c_ver, s_ver>>

-----------------------------------------------------------------------------
(* The app's end                                                           *)

Fail(why) ==
    /\ client' = "failed"
    /\ verdict' = why

\* client_handshake sends its Hello; on a stream the daemon has already
\* dropped the write may fail.
SendHello ==
    /\ client = "start"
    /\ \/ /\ client' = "await"
          /\ to_server' = Append(to_server, Hello(c_ver))
          /\ UNCHANGED verdict
       \/ /\ server = "closed"
          /\ Fail("send")
          /\ UNCHANGED to_server
    /\ UNCHANGED <<to_client, eof, serverVars, c_minor, written, got, c_ver, s_ver>>

\* What client_handshake makes of the ServerHello.
HandshakeVerdict(sh, own) ==
    IF sh.t # "server_hello" THEN "unexpected"
    ELSE IF ~sh.accepted THEN sh.reject
    ELSE IF sh.v.major # own.major THEN "version_mismatch"
    ELSE "ready"

\* client_handshake reads the daemon's first frame.
ReadServerHello ==
    /\ client = "await"
    /\ to_client # <<>>
    /\ to_client' = Tail(to_client)
    /\ LET sh == Head(to_client)
       IN  /\ verdict' = HandshakeVerdict(sh, c_ver)
           /\ IF verdict' = "ready"
              THEN client' = "ready" /\ c_minor' = sh.v.minor
              ELSE client' = "failed" /\ UNCHANGED c_minor
    /\ UNCHANGED <<to_server, eof, serverVars, written, got, c_ver, s_ver>>

\* client_handshake sees the stream end, or its deadline pass.
HandshakeFails ==
    /\ client = "await"
    /\ \/ server = "closed" /\ to_client = <<>> /\ Fail("stream_ended")
       \/ Fail("timeout")
    /\ UNCHANGED <<wire, serverVars, c_minor, written, got, c_ver, s_ver>>

\* The app sends a request; it may have several in flight.  A frame above
\* MAX_FRAME_BYTES never leaves send_frame, so it changes nothing here.
SendRequest ==
    /\ client = "ready"
    /\ ~eof
    /\ written < MaxRequests
    /\ \/ /\ \E valid \in BOOLEAN :
                to_server' = Append(to_server, Request(written + 1, valid))
          /\ written' = written + 1
          /\ UNCHANGED client
       \/ /\ server = "closed"
          /\ client' = "failed"
          /\ UNCHANGED <<to_server, written>>
    /\ UNCHANGED <<to_client, eof, serverVars, c_minor, got, verdict, c_ver, s_ver>>

\* The app reads a response, or the end of the stream.
ReadResponse ==
    /\ client = "ready"
    /\ \/ /\ to_client # <<>>
          /\ to_client' = Tail(to_client)
          /\ got' = Append(got, <<Head(to_client).id, Head(to_client).result>>)
          /\ UNCHANGED client
       \/ /\ to_client = <<>>
          /\ server = "closed"
          /\ client' = "failed"
          /\ UNCHANGED <<to_client, got>>
    /\ UNCHANGED <<to_server, eof, serverVars, c_minor, written, verdict, c_ver, s_ver>>

\* The app drops its end, whatever it was doing: a failed handshake, a
\* request it no longer waits for, an exit.
Drop ==
    /\ client # "closed"
    /\ client' = "closed"
    /\ eof' = TRUE
    /\ to_client' = <<>>
    /\ UNCHANGED <<to_server, serverVars, c_minor, written, got, verdict, c_ver, s_ver>>

\* The app shuts down its write half and goes on reading.
HalfClose ==
    /\ client \in {"await", "ready", "stranger"}
    /\ ~eof
    /\ eof' = TRUE
    /\ UNCHANGED <<to_server, to_client, serverVars, clientVars, c_ver, s_ver>>

\* A peer that is not client_handshake writes any frame in any order.
StrangerWrites ==
    /\ client = "stranger"
    /\ ~eof
    /\ written < MaxStrange
    /\ \E f \in ToServerFrames :
          /\ to_server' = Append(to_server, f)
          /\ eof' = (f.t = "cut")
    /\ written' = written + 1
    /\ UNCHANGED <<to_client, serverVars, client, c_minor, got, verdict, c_ver, s_ver>>

StrangerReads ==
    /\ client = "stranger"
    /\ to_client # <<>>
    /\ to_client' = Tail(to_client)
    /\ UNCHANGED <<to_server, eof, serverVars, clientVars, c_ver, s_ver>>

-----------------------------------------------------------------------------
\* The steps the daemon's task takes by itself.
ServerReads ==
    \/ DrawNonce \/ ReadHello \/ HelloMissing
    \/ ReadRequest \/ RefuseRequest \/ ReadOther \/ ReadEnd \/ IdleTimeout

ServerSends == SendFrame \/ SendToNobody

ClientSteps ==
    \/ SendHello \/ ReadServerHello \/ HandshakeFails
    \/ SendRequest \/ ReadResponse \/ Drop \/ HalfClose
    \/ StrangerWrites \/ StrangerReads

\* Both ends have let go of the stream.
Terminated == client = "closed" /\ server = "closed" /\ UNCHANGED vars

Next ==
    \/ ServerReads \/ ServerSends
    \/ DispatchWorks \/ DispatchReturns \/ CommandTimeout
    \/ TaskDropped
    \/ ClientSteps
    \/ Terminated

\* A tokio task that is ready is polled, timers fire, and an app that waits
\* for an answer reads it.  No fairness is assumed of a stranger, of the
\* app's dispatch (it may hang), or of the app's decision to send and to drop.
Fairness ==
    /\ WF_vars(ServerReads)
    /\ WF_vars(CommandTimeout)
    /\ WF_vars(ServerSends)
    /\ WF_vars(ReadServerHello \/ HandshakeFails)
    /\ WF_vars(ReadResponse)

Spec == Init /\ [][Next]_vars
FairSpec == Spec /\ Fairness

-----------------------------------------------------------------------------
(* Properties                                                              *)

\* No command reaches dispatch, or is even answered, on a connection whose
\* first frame was not a Hello of the daemon's own major
\* (server_handshake before the loop of handle_conn_with_nonce).
NoCommandBeforeHandshake ==
    calls # <<>> => greeted # <<>> /\ greeted[1].major = s_ver.major

\* When client_handshake succeeds both ends hold the same negotiated minor,
\* one that both of them speak, under the same major
\* (ServerHello::proto_minor carries it across).
MinorAgreement ==
    c_minor # None =>
        /\ c_minor = s_minor
        /\ c_minor <= c_ver.minor
        /\ c_minor <= s_ver.minor
        /\ c_ver.major = s_ver.major

\* The reason client_handshake reports is the true one: another major is
\* VERSION_UNSUPPORTED and nothing else that talks about the version, and
\* an app that sent a proper Hello never hears that its frame was bad.
VerdictTruthful ==
    /\ verdict = "VERSION_UNSUPPORTED" => c_ver.major # s_ver.major
    /\ verdict = "ready" => c_ver.major = s_ver.major
    /\ verdict \notin {"unexpected", "version_mismatch", "FRAME_TOO_LARGE",
                       "MALFORMED_FRAME"}

\* The i-th response the app reads answers the i-th request it sent, and is
\* the one the daemon recorded for it, however many the app has in flight
\* (the loop reads the next frame only after send_frame of the response).
ResponsesInOrder ==
    \A i \in 1..Len(got) :
        /\ i <= Len(calls)
        /\ got[i] = <<calls[i].id, calls[i].result>>
        /\ got[i][1] = i

\* Every request of an app that keeps reading is answered, or the app learns
\* that the connection is gone; and whatever point the handshake or a command
\* had reached when the app let go of its end (a ServerHello that arrived too
\* late included), the daemon's task ends too.
ConversationSettles ==
    /\ \A i \in Ids :
          (client = "ready" /\ written >= i) ~> (Len(got) >= i \/ client # "ready")
    /\ (client = "closed") ~> (server = "closed")

-----------------------------------------------------------------------------
(* The connection implements the command session.                          *)

Phase ==
    CASE server = "closed" -> "over"
      [] server \in {"loop", "dispatch"} -> "open"
      [] server = "sending" /\ after = "loop" -> "open"
      [] OTHER -> "greeting"

Session == INSTANCE CommandSession WITH phase <- Phase, log <- calls

\* Seen through Phase and the calls, the connection is a CommandSession:
\* one command at a time, inside an open session, answered at most once and
\* truthfully (handle_conn_with_nonce as a whole).
ImplementsSession == Session!SessionSpec
=============================================================================
