--------------------- MODULE PrivilegedConnectionProofs ---------------------
(***************************************************************************)
(* Proofs about the privileged connection, for every set of majors and     *)
(* minors, every number of requests in flight and every stream capacity.   *)
(***************************************************************************)
EXTENDS PrivilegedConnection, TLAPS

-----------------------------------------------------------------------------
(* Sequences.                                                              *)

\* What is left once the head is taken (recv_frame takes whole frames from
\* the front of the stream).
LEMMA TailFacts ==
    ASSUME NEW S, NEW q \in Seq(S), q # <<>>
    PROVE  /\ Tail(q) \in Seq(S)
           /\ Head(q) = q[1]
           /\ Head(q) \in S
           /\ 1 \in 1..Len(q)
           /\ \A i \in 1..Len(Tail(q)) :
                 i + 1 \in 1..Len(q) /\ i + 1 > 1 /\ Tail(q)[i] = q[i + 1]
OBVIOUS

\* What a written frame adds at the end of the stream (send_frame).
LEMMA AppendFacts ==
    ASSUME NEW S, NEW q \in Seq(S), NEW e \in S
    PROVE  /\ Append(q, e) \in Seq(S)
           /\ Append(q, e) # <<>>
           /\ \A i \in 1..Len(Append(q, e)) :
                 \/ i \in 1..Len(q) /\ Append(q, e)[i] = q[i]
                 \/ i = Len(q) + 1 /\ Append(q, e)[i] = e
OBVIOUS

-----------------------------------------------------------------------------
(* The frames each end writes are frames of the protocol.                  *)

\* Hello and Request build frames for the daemon (envelope.rs, handshake.rs).
LEMMA ToServerTyped ==
    /\ \A v \in Versions : Hello(v) \in ToServerFrames
    /\ \A i \in Ids, b \in BOOLEAN : Request(i, b) \in ToServerFrames
BY Zenon DEF Hello, Request, ToServerFrames

\* ServerHello and Response build frames for the app (envelope.rs,
\* handshake.rs).
LEMMA ToClientTyped ==
    /\ \A ok \in BOOLEAN, v \in Versions, code \in RejectCodes \cup {None} :
          ServerHello(ok, v, code) \in ToClientFrames
    /\ \A i \in Ids, r \in Results : Response(i, r) \in ToClientFrames
BY Zenon DEF ServerHello, Response, ServerHellos, Responses, ToClientFrames

\* A frame is told apart by its tag (the Frame enum of handshake.rs).
LEMMA ToServerFields ==
    ASSUME NEW f \in ToServerFrames
    PROVE  /\ f.t = "hello" => f.v \in Versions
           /\ f.t = "request" => f.id \in Ids
BY DEF ToServerFrames, OtherFrames

\* The frames the daemon sends are told apart the same way.
LEMMA ToClientFields ==
    ASSUME NEW f \in ToClientFrames
    PROVE  /\ f.t \in {"server_hello", "response"}
           /\ f.t = "server_hello" => /\ f.v \in Versions
                                      /\ f.reject \in RejectCodes \cup {None}
           /\ f.t = "response" => f.id \in Ids /\ f.result \in Results
BY DEF ToClientFrames, ServerHellos, Responses

\* negotiate_minor stays inside the minors and takes the smaller one
\* (handshake_server.rs).
LEMMA NegotiatedTyped ==
    ASSUME NEW hello \in Versions, NEW own \in Versions
    PROVE  /\ Negotiated(hello, own) \in Minors
           /\ Negotiated(hello, own) <= hello.minor
           /\ Negotiated(hello, own) <= own.minor
           /\ [own EXCEPT !.minor = Negotiated(hello, own)] \in Versions
BY ConnectionAssumption DEF Negotiated, Versions

\* The answer to a Hello, whatever the two versions (server_handshake).
LEMMA HelloAnswerTyped ==
    ASSUME NEW hello \in Versions, NEW own \in Versions
    PROVE  HelloAnswer(hello, own) \in ServerHellos
<1>1. CASE Accepts(hello, own)
  <2> DEFINE v == [own EXCEPT !.minor = Negotiated(hello, own)]
  <2>1. v \in Versions
    BY NegotiatedTyped
  <2>2. HelloAnswer(hello, own) = ServerHello(TRUE, v, None)
    BY <1>1, Zenon DEF HelloAnswer
  <2>3. ServerHello(TRUE, v, None) \in ServerHellos
    BY <2>1, Zenon DEF ServerHello, ServerHellos
  <2> QED BY <2>2, <2>3, Zenon
<1>2. CASE ~Accepts(hello, own)
  <2>1. HelloAnswer(hello, own) = ServerHello(FALSE, own, "VERSION_UNSUPPORTED")
    BY <1>2, Zenon DEF HelloAnswer
  <2>2. "VERSION_UNSUPPORTED" \in RejectCodes
    BY DEF RejectCodes
  <2>3. ServerHello(FALSE, own, "VERSION_UNSUPPORTED") \in ServerHellos
    BY <2>2, Zenon DEF ServerHello, ServerHellos
  <2> QED BY <2>1, <2>3, Zenon
<1> QED BY <1>1, <1>2

\* A refusal of server_handshake is a frame of the protocol.
LEMMA RejectTyped ==
    ASSUME NEW f \in ToServerFrames, NEW own \in Versions
    PROVE  ServerHello(FALSE, own, RejectCode(f)) \in ServerHellos
<1>1. RejectCode(f) \in RejectCodes
  BY DEF RejectCode, RejectCodes
<1> QED BY <1>1, Zenon DEF ServerHello, ServerHellos

\* The record of a command keeps its type when the command is read, has
\* its effect or gets its answer (the loop of handle_conn_with_nonce).
LEMMA CallsTyped ==
    /\ \A i \in Ids : [id |-> i, effect |-> FALSE, result |-> None] \in Calls
    /\ \A c \in Calls :
          /\ c.id \in Ids
          /\ [c EXCEPT !.effect = TRUE] \in Calls
          /\ \A r \in Results : [c EXCEPT !.result = r] \in Calls
<1>1. \A i \in Ids : [id |-> i, effect |-> FALSE, result |-> None] \in Calls
  BY Zenon DEF Calls
<1>2. ASSUME NEW c \in Calls
      PROVE  /\ c.id \in Ids
             /\ [c EXCEPT !.effect = TRUE] \in Calls
             /\ \A r \in Results : [c EXCEPT !.result = r] \in Calls
  BY Zenon DEF Calls
<1> QED BY <1>1, <1>2

-----------------------------------------------------------------------------
(* Type correctness.  It needs to know that a response on its way out      *)
(* belongs to a call: Answered writes into the last one.                   *)

\* A command in dispatch, or a response awaiting its send, is the last call
\* of an open session (the body of the loop of handle_conn_with_nonce).
CallPending ==
    /\ server = "dispatch" => calls # <<>>
    /\ server = "sending" /\ out[1].t = "response" =>
           calls # <<>> /\ after = "loop"

Typed == StateTypeOK /\ CallPending

\* Closing leaves nothing behind to send (the task of connection.rs ends).
LEMMA CloseTyped ==
    ASSUME Typed, Close, UNCHANGED <<wire, greeted, s_minor, calls, clientVars, c_ver, s_ver>>
    PROVE  Typed'
BY DEF Typed, StateTypeOK, CallPending, Close, wire, clientVars, ServerStates

\* What the daemon puts up for sending, once it is known to be a frame that
\* may be sent from there (send_frame in connection.rs).
LEMMA SendTyped ==
    ASSUME Typed, NEW f \in ToClientFrames, NEW next \in {"loop", "closed"},
           Send(f, next),
           f.t = "response" => calls' # <<>> /\ next = "loop",
           to_server' \in Seq(ToServerFrames), calls' \in Seq(Calls),
           greeted' \in Seq(Versions), s_minor' \in Minors \cup {None},
           UNCHANGED <<to_client, eof, clientVars, c_ver, s_ver>>
    PROVE  Typed'
<1>1. /\ out' \in Seq(ToClientFrames) /\ Len(out') = 1 /\ out'[1] = f
      /\ server' = "sending" /\ after' = next
  BY DEF Send
<1> QED BY <1>1 DEF Typed, StateTypeOK, CallPending, clientVars, ServerStates

\* Answered keeps the list of calls a list of calls, of the same length.
LEMMA AnsweredTyped ==
    ASSUME Typed, server = "sending"
    PROVE  /\ Answered \in Seq(Calls)
           /\ Len(Answered) = Len(calls)
<1>1. /\ out[1] \in ToClientFrames
      /\ calls \in Seq(Calls)
      /\ out[1].t = "response" => calls # <<>>
  BY DEF Typed, StateTypeOK, CallPending
<1>2. CASE out[1].t = "response"
  <2> DEFINE n == Len(calls)
             c == [calls[n] EXCEPT !.result = out[1].result]
  <2>1. n \in 1..Len(calls) /\ calls[n] \in Calls
    BY <1>1, <1>2
  <2>2. out[1].result \in Results
    BY <1>1, <1>2, ToClientFields
  <2>3. c \in Calls
    BY <2>1, <2>2, CallsTyped, Zenon
  <2>4. Answered = [calls EXCEPT ![n] = c]
    BY <1>2, Zenon DEF Answered
  <2> HIDE DEF c
  <2> QED BY <1>1, <2>1, <2>3, <2>4
<1>3. CASE out[1].t # "response"
  BY <1>1, <1>3 DEF Answered
<1> QED BY <1>2, <1>3

\* Every step of either end keeps the types.
LEMMA TypedStep == Typed /\ [Next]_vars => Typed'
<1> SUFFICES ASSUME Typed, [Next]_vars PROVE Typed'
  OBVIOUS
<1> USE DEF Typed
<1>1. CASE DrawNonce
  <2>1. CASE Close
    BY <1>1, <2>1, CloseTyped DEF DrawNonce
  <2>2. CASE server' = "hello" /\ UNCHANGED <<out, after>>
    BY <1>1, <2>2 DEF DrawNonce, StateTypeOK, CallPending, ServerStates, wire, clientVars
  <2> QED BY <1>1, <2>1, <2>2 DEF DrawNonce
<1>2. CASE ReadHello
  <2> DEFINE f == Head(to_server)
  <2>1. /\ to_server \in Seq(ToServerFrames) /\ to_server # <<>>
        /\ s_ver \in Versions /\ calls \in Seq(Calls)
        /\ greeted \in Seq(Versions) /\ s_minor \in Minors \cup {None}
    BY <1>2 DEF ReadHello, StateTypeOK
  <2>2. f \in ToServerFrames /\ to_server' \in Seq(ToServerFrames)
    BY <1>2, <2>1 DEF ReadHello
  <2>3. CASE f.t = "hello"
    <3>1. f.v \in Versions
      BY <2>2, <2>3, ToServerFields
    <3> DEFINE g == HelloAnswer(f.v, s_ver)
               next == IF Accepts(f.v, s_ver) THEN "loop" ELSE "closed"
    <3>2. g \in ServerHellos /\ g \in ToClientFrames
      BY <3>1, <2>1, HelloAnswerTyped DEF ToClientFrames
    <3>3. g.t # "response"
      BY <3>2 DEF ServerHellos
    <3>4. /\ Send(g, next) /\ s_minor' = Negotiated(f.v, s_ver)
          /\ greeted' = <<f.v>>
          /\ UNCHANGED <<to_client, eof, calls, clientVars, c_ver, s_ver>>
      BY <1>2, <2>3, Zenon DEF ReadHello
    <3>5. s_minor' \in Minors \cup {None} /\ greeted' \in Seq(Versions)
      <4>1. Negotiated(f.v, s_ver) \in Minors
        BY <3>1, <2>1, NegotiatedTyped
      <4> HIDE DEF f
      <4> QED BY <3>1, <3>4, <4>1
    <3>6. next \in {"loop", "closed"}
      OBVIOUS
    <3>7. calls' \in Seq(Calls)
      BY <3>4, <2>1
    <3> HIDE DEF f, g, next
    <3> QED BY <2>2, <3>2, <3>3, <3>4, <3>5, <3>6, <3>7, SendTyped
  <2>4. CASE f.t # "hello"
    <3> DEFINE g == ServerHello(FALSE, s_ver, RejectCode(f))
    <3>1. g \in ServerHellos /\ g \in ToClientFrames
      BY <2>1, <2>2, RejectTyped DEF ToClientFrames
    <3>2. g.t # "response"
      BY <3>1 DEF ServerHellos
    <3>3. /\ Send(g, "closed") /\ UNCHANGED <<greeted, s_minor>>
          /\ UNCHANGED <<to_client, eof, calls, clientVars, c_ver, s_ver>>
      BY <1>2, <2>4, Zenon DEF ReadHello
    <3>4. /\ s_minor' \in Minors \cup {None} /\ greeted' \in Seq(Versions)
          /\ calls' \in Seq(Calls)
      BY <3>3, <2>1
    <3> HIDE DEF f, g
    <3> QED BY <2>2, <3>1, <3>2, <3>3, <3>4, SendTyped
  <2> QED BY <2>3, <2>4
<1>3. CASE HelloMissing
  <2> DEFINE g == ServerHello(FALSE, s_ver, "HANDSHAKE_REQUIRED")
  <2>1. "HANDSHAKE_REQUIRED" \in RejectCodes /\ s_ver \in Versions
    BY DEF RejectCodes, StateTypeOK
  <2>2. g \in ServerHellos
    BY <2>1, Zenon DEF ServerHello, ServerHellos
  <2>3. g \in ToClientFrames /\ g.t # "response"
    BY <2>2 DEF ToClientFrames, ServerHellos
  <2>4. Send(g, "closed")
    BY <1>3, Zenon DEF HelloMissing
  <2> HIDE DEF g
  <2> QED BY <1>3, <2>3, <2>4, SendTyped DEF HelloMissing, StateTypeOK, wire
<1>4. CASE ReadRequest
  <2> DEFINE f == Head(to_server)
             c == [id |-> f.id, effect |-> FALSE, result |-> None]
  <2>1. /\ f \in ToServerFrames /\ to_server' \in Seq(ToServerFrames)
        /\ f.t = "request" /\ calls' = Append(calls, c) /\ calls \in Seq(Calls)
    BY <1>4 DEF ReadRequest, StateTypeOK
  <2>2. c \in Calls
    BY <2>1, ToServerFields, CallsTyped, Zenon
  <2> HIDE DEF c
  <2>3. calls' \in Seq(Calls) /\ calls' # <<>>
    BY <2>1, <2>2
  <2> QED BY <1>4, <2>1, <2>3 DEF ReadRequest, StateTypeOK, CallPending, ServerStates, clientVars
<1>5. CASE RefuseRequest
  <2> DEFINE f == Head(to_server)
             c == [id |-> f.id, effect |-> FALSE, result |-> None]
             g == Response(f.id, "INVALID_PARAMS")
  <2>1. /\ f \in ToServerFrames /\ to_server' \in Seq(ToServerFrames)
        /\ f.t = "request" /\ calls' = Append(calls, c) /\ calls \in Seq(Calls)
        /\ UNCHANGED <<to_client, eof, greeted, s_minor, clientVars, c_ver, s_ver>>
    BY <1>5 DEF RefuseRequest, StateTypeOK
  <2>2. Send(g, "loop")
    BY <1>5, Zenon DEF RefuseRequest
  <2>3. c \in Calls
    BY <2>1, ToServerFields, CallsTyped, Zenon
  <2>4. "INVALID_PARAMS" \in Results /\ f.id \in Ids
    BY <2>1, ToServerFields DEF Results
  <2>5. g \in ToClientFrames
    BY <2>4, ToClientTyped, Zenon
  <2> HIDE DEF c, g
  <2>6. calls' \in Seq(Calls) /\ calls' # <<>>
    BY <2>1, <2>3
  <2> QED BY <2>1, <2>2, <2>5, <2>6, SendTyped DEF StateTypeOK
<1>6. CASE ReadOther
  BY <1>6 DEF ReadOther, Close, StateTypeOK, CallPending, ServerStates, clientVars
<1>7. CASE ReadEnd \/ IdleTimeout \/ TaskDropped
  BY <1>7, CloseTyped DEF ReadEnd, IdleTimeout, TaskDropped
<1>8. CASE SendFrame
  <2>1. Answered \in Seq(Calls) /\ Len(Answered) = Len(calls)
    BY <1>8, AnsweredTyped DEF SendFrame
  <2>2. /\ out[1] \in ToClientFrames /\ to_client' \in Seq(ToClientFrames)
        /\ calls' \in Seq(Calls) /\ out' = <<>> /\ server' = after
    BY <1>8, <2>1 DEF SendFrame, StateTypeOK
  <2> QED BY <1>8, <2>2 DEF SendFrame, StateTypeOK, CallPending, ServerStates, clientVars
<1>9. CASE SendToNobody
  <2>1. Answered \in Seq(Calls) /\ Len(Answered) = Len(calls)
    BY <1>9, AnsweredTyped DEF SendToNobody
  <2>2. calls' \in Seq(Calls) /\ out' = <<>> /\ server' \in {"loop", "closed"}
    BY <1>9, <2>1 DEF SendToNobody, StateTypeOK
  <2> QED BY <1>9, <2>2 DEF SendToNobody, StateTypeOK, CallPending, ServerStates, wire, clientVars
<1>10. CASE DispatchWorks
  <2> DEFINE n == Len(calls)
             c == [calls[n] EXCEPT !.effect = TRUE]
  <2>1. n \in 1..Len(calls) /\ calls[n] \in Calls /\ calls \in Seq(Calls)
    BY <1>10 DEF DispatchWorks, StateTypeOK, CallPending
  <2>2. c \in Calls
    BY <2>1, CallsTyped, Zenon
  <2>3. calls' = [calls EXCEPT ![n] = c]
    BY <1>10, Zenon DEF DispatchWorks
  <2> HIDE DEF c
  <2>4. calls' \in Seq(Calls) /\ calls' # <<>>
    BY <2>1, <2>2, <2>3
  <2> QED BY <1>10, <2>4 DEF DispatchWorks, StateTypeOK, CallPending, wire, clientVars
<1>11. CASE DispatchReturns \/ CommandTimeout
  <2> DEFINE c == calls[Len(calls)]
  <2>1. c \in Calls /\ calls # <<>>
    BY <1>11 DEF DispatchReturns, CommandTimeout, StateTypeOK, CallPending
  <2>5. c.id \in Ids
    BY <2>1, CallsTyped
  <2>2. /\ UNCHANGED <<wire, greeted, s_minor, calls, clientVars, c_ver, s_ver>>
        /\ \/ Close
           \/ \E r \in Results : Send(Response(c.id, r), "loop")
    <3>1. "OK" \in Results /\ "ERR" \in Results /\ "TIMEOUT" \in Results
      BY DEF Results
    <3> QED BY <1>11, <3>1, Zenon DEF DispatchReturns, CommandTimeout, DispatchAnswer
  <2>3. CASE Close
    BY <2>2, <2>3, CloseTyped
  <2>4. ASSUME NEW r \in Results, Send(Response(c.id, r), "loop") PROVE Typed'
    <3>1. Response(c.id, r) \in ToClientFrames
      BY <2>5, ToClientTyped, Zenon
    <3> QED BY <2>1, <2>2, <2>4, <3>1, SendTyped DEF StateTypeOK, wire
  <2> QED BY <2>2, <2>3, <2>4
<1>12. CASE SendHello
  <2>1. to_server \in Seq(ToServerFrames) /\ Hello(c_ver) \in ToServerFrames
    BY ToServerTyped DEF StateTypeOK
  <2>2. to_server' \in Seq(ToServerFrames)
    BY <1>12, <2>1 DEF SendHello
  <2> QED BY <1>12, <2>2 DEF SendHello, Fail, StateTypeOK, CallPending, ClientStates, Verdicts, serverVars
<1>13. CASE ReadServerHello
  <2> DEFINE sh == Head(to_client)
  <2>1. sh \in ToClientFrames /\ to_client' \in Seq(ToClientFrames)
    BY <1>13 DEF ReadServerHello, StateTypeOK
  <2>2. verdict' \in Verdicts
    BY <1>13, <2>1, ToClientFields DEF ReadServerHello, HandshakeVerdict, Verdicts
  <2>3. verdict' = "ready" => sh.t = "server_hello"
    BY <1>13 DEF ReadServerHello, HandshakeVerdict
  <2>4. c_minor' \in Minors \cup {None} /\ client' \in ClientStates
    BY <1>13, <2>1, <2>3, ToClientFields DEF ReadServerHello, StateTypeOK, ClientStates, Versions
  <2> QED BY <1>13, <2>1, <2>2, <2>4 DEF ReadServerHello, StateTypeOK, CallPending, serverVars
<1>14. CASE HandshakeFails
  BY <1>14 DEF HandshakeFails, Fail, StateTypeOK, CallPending, ClientStates, Verdicts, wire, serverVars
<1>15. CASE SendRequest
  <2>1. PICK valid \in BOOLEAN :
           \/ to_server' = Append(to_server, Request(written + 1, valid))
           \/ UNCHANGED to_server
    BY <1>15 DEF SendRequest
  <2>2. to_server \in Seq(ToServerFrames) /\ written + 1 \in Ids
    BY <1>15, ConnectionAssumption DEF SendRequest, StateTypeOK, Ids
  <2>3. Request(written + 1, valid) \in ToServerFrames
    BY <2>2, ToServerTyped, Zenon
  <2>4. to_server' \in Seq(ToServerFrames)
    BY <2>1, <2>2, <2>3
  <2>5. written' \in Nat /\ client' \in ClientStates
    BY <1>15 DEF SendRequest, StateTypeOK, ClientStates
  <2>6. UNCHANGED <<to_client, eof, serverVars, c_minor, got, verdict, c_ver, s_ver>>
    BY <1>15, Zenon DEF SendRequest
  <2> QED BY <2>4, <2>5, <2>6 DEF StateTypeOK, CallPending, serverVars
<1>16. CASE ReadResponse
  <2>1. \/ to_client # <<>> /\ to_client' = Tail(to_client) /\ client' = client
        \/ to_client' = to_client /\ client' = "failed"
    BY <1>16, Zenon DEF ReadResponse
  <2>2. to_client' \in Seq(ToClientFrames) /\ client' \in ClientStates
    <3>1. to_client \in Seq(ToClientFrames) /\ client \in ClientStates
      BY DEF StateTypeOK
    <3> QED BY <2>1, <3>1, TailFacts DEF ClientStates
  <2>3. UNCHANGED <<to_server, eof, serverVars, c_minor, written, verdict, c_ver, s_ver>>
    BY <1>16, Zenon DEF ReadResponse
  <2> QED BY <2>2, <2>3 DEF StateTypeOK, CallPending, serverVars
<1>17. CASE Drop
  BY <1>17 DEF Drop, StateTypeOK, CallPending, ClientStates, serverVars
<1>18. CASE HalfClose
  BY <1>18 DEF HalfClose, StateTypeOK, CallPending, serverVars, clientVars
<1>19. CASE StrangerWrites
  <2>1. to_server' \in Seq(ToServerFrames) /\ eof' \in BOOLEAN /\ written' \in Nat
    BY <1>19 DEF StrangerWrites, StateTypeOK
  <2> QED BY <1>19, <2>1 DEF StrangerWrites, StateTypeOK, CallPending, serverVars
<1>20. CASE StrangerReads
  <2>1. to_client' \in Seq(ToClientFrames)
    BY <1>20 DEF StrangerReads, StateTypeOK
  <2> QED BY <1>20, <2>1 DEF StrangerReads, StateTypeOK, CallPending, serverVars, clientVars
<1>21. CASE UNCHANGED vars
  BY <1>21 DEF vars, wire, serverVars, clientVars, StateTypeOK, CallPending
<1> QED
  BY <1>1, <1>2, <1>3, <1>4, <1>5, <1>6, <1>7, <1>8, <1>9, <1>10, <1>11, <1>12,
     <1>13, <1>14, <1>15, <1>16, <1>17, <1>18, <1>19, <1>20, <1>21, Zenon
     DEF Next, ServerReads, ServerSends, ClientSteps, Terminated

\* A connection that was just accepted is well typed.
LEMMA TypedInit == Init => Typed
<1> SUFFICES ASSUME Init PROVE Typed
  OBVIOUS
<1>1. verdict \in Verdicts
  BY DEF Init, Verdicts
<1>2. client \in ClientStates /\ server \in ServerStates
  BY DEF Init, ClientStates, ServerStates
<1>3. CallPending
  BY DEF Init, CallPending
<1>4. server # "sending" /\ Len(out) = 0
  BY DEF Init
<1>5. /\ c_ver \in Versions /\ s_ver \in Versions
      /\ eof \in BOOLEAN /\ after \in {"loop", "closed"} /\ written \in Nat
      /\ c_minor \in Minors \cup {None} /\ s_minor \in Minors \cup {None}
  BY DEF Init
<1>6. /\ to_server \in Seq(ToServerFrames) /\ to_client \in Seq(ToClientFrames)
      /\ out \in Seq(ToClientFrames) /\ greeted \in Seq(Versions)
      /\ calls \in Seq(Calls)
  BY DEF Init
<1> QED BY <1>1, <1>2, <1>3, <1>4, <1>5, <1>6 DEF Typed, StateTypeOK

-----------------------------------------------------------------------------
(* The handshake.  The daemon says ServerHello once, first, and what it    *)
(* says follows from the Hello it heard; the app believes nothing else.    *)

\* The program points behind an accepted handshake.
InSession ==
    \/ server \in {"loop", "dispatch"}
    \/ server = "sending" /\ after = "loop"

\* What the daemon has said and kept follows from the Hello it has read.
ServerSide ==
    /\ server \in {"nonce", "hello"} =>
           greeted = <<>> /\ calls = <<>> /\ to_client = <<>>
    /\ Len(greeted) \in {0, 1}
    /\ InSession \/ calls # <<>> =>
           Len(greeted) = 1 /\ Accepts(greeted[1], s_ver)
    /\ Len(greeted) = 1 => s_minor = Negotiated(greeted[1], s_ver)

\* An accepted ServerHello, on its way out or in the stream, carries what
\* the daemon negotiated.
Truthful(f) ==
    f.t = "server_hello" /\ f.accepted =>
        /\ Len(greeted) = 1
        /\ Accepts(greeted[1], s_ver)
        /\ f.v.minor = s_minor

\* The ServerHello is the first frame of the stream and the only one of its
\* kind, and an accepted one is truthful.
HelloFirst ==
    /\ \A i \in 1..Len(to_client) :
          /\ Truthful(to_client[i])
          /\ i > 1 \/ client = "ready" => to_client[i].t = "response"
    /\ server = "sending" =>
          /\ Truthful(out[1])
          /\ to_client # <<>> \/ client = "ready" => out[1].t = "response"

\* While client_handshake waits, the daemon can only have heard the app's own
\* Hello; once it succeeded both ends stand by the same outcome.
ClientSide ==
    /\ client = "start" => to_server = <<>> /\ greeted = <<>>
    /\ client = "await" =>
          /\ \A i \in 1..Len(to_server) :
                to_server[i].t = "hello" => to_server[i].v = c_ver
          /\ Len(greeted) = 1 => greeted[1] = c_ver
    /\ client = "ready" => server \notin {"nonce", "hello"}
    /\ c_minor # None =>
          /\ Len(greeted) = 1
          /\ greeted[1] = c_ver
          /\ Accepts(c_ver, s_ver)
          /\ c_minor = s_minor

Handshake == ServerSide /\ HelloFirst /\ ClientSide

\* Before the first frame neither end believes in a session.
LEMMA HandshakeInit == Init => Handshake
BY DEF Init, Handshake, ServerSide, HelloFirst, ClientSide, InSession

\* Reading a frame adds no Hello to those on their way to the daemon.
LEMMA OwnHelloKept ==
    ASSUME to_server \in Seq(ToServerFrames), UNCHANGED c_ver,
           \A i \in 1..Len(to_server) :
              to_server[i].t = "hello" => to_server[i].v = c_ver,
           \/ to_server' = to_server
           \/ to_server # <<>> /\ to_server' = Tail(to_server)
    PROVE  \A i \in 1..Len(to_server') :
              to_server'[i].t = "hello" => to_server'[i].v = c_ver'
<1>1. CASE to_server' = to_server
  BY <1>1
<1>2. CASE to_server # <<>> /\ to_server' = Tail(to_server)
  BY <1>2, TailFacts
<1> QED BY <1>1, <1>2

\* The daemon ends its task: nothing said or kept changes.
LEMMA HandshakeClose ==
    ASSUME Typed, Handshake, Close,
           UNCHANGED <<wire, greeted, s_minor, calls, clientVars, c_ver, s_ver>>
    PROVE  Handshake'
BY DEF Typed, StateTypeOK, Handshake, ServerSide, HelloFirst, ClientSide,
       Truthful, InSession, Close, wire, clientVars

\* Inside the session the daemon puts up responses only.
LEMMA HandshakeRespond ==
    ASSUME Typed, Handshake, InSession, NEW f \in ToClientFrames,
           f.t = "response", Send(f, "loop"),
           UNCHANGED <<to_client, eof, greeted, s_minor, clientVars, c_ver, s_ver>>,
           \/ to_server' = to_server
           \/ to_server # <<>> /\ to_server' = Tail(to_server)
    PROVE  Handshake'
<1>1. /\ out'[1] = f /\ server' = "sending" /\ after' = "loop"
  BY DEF Send
<1>2. ServerSide'
  BY <1>1 DEF Handshake, ServerSide, InSession
<1>3. HelloFirst'
  BY <1>1 DEF Handshake, HelloFirst, Truthful, clientVars
<1>4. ClientSide'
  <2>1. to_server \in Seq(ToServerFrames)
    BY DEF Typed, StateTypeOK
  <2>2. Len(greeted) = 1
    BY DEF Handshake, ServerSide
  <2>3. client' = "await" =>
           \A i \in 1..Len(to_server') :
              to_server'[i].t = "hello" => to_server'[i].v = c_ver'
    BY <2>1, OwnHelloKept DEF Handshake, ClientSide, clientVars
  <2> QED BY <1>1, <2>2, <2>3 DEF Handshake, ClientSide, clientVars
<1> QED BY <1>2, <1>3, <1>4 DEF Handshake

\* The answer to a Hello that is accepted carries what was negotiated, and
\* the answer to any other is not accepted (server_handshake).
LEMMA HelloAnswerTruthful ==
    ASSUME NEW hello \in Versions, NEW own \in Versions
    PROVE  LET g == HelloAnswer(hello, own)
           IN  g.accepted => Accepts(hello, own)
                             /\ g.v.minor = Negotiated(hello, own)
<1>1. CASE Accepts(hello, own)
  <2>1. HelloAnswer(hello, own).v = [own EXCEPT !.minor = Negotiated(hello, own)]
    BY <1>1, Zenon DEF HelloAnswer, ServerHello
  <2>2. [own EXCEPT !.minor = Negotiated(hello, own)].minor = Negotiated(hello, own)
    BY DEF Versions
  <2> QED BY <1>1, <2>1, <2>2, Zenon
<1>2. CASE ~Accepts(hello, own)
  <2>1. HelloAnswer(hello, own).accepted = FALSE
    BY <1>2, Zenon DEF HelloAnswer, ServerHello
  <2> QED BY <2>1, Zenon
<1> QED BY <1>1, <1>2

\* The daemon puts up its one ServerHello.  What it carries is left open; it
\* only has to be truthful about what the daemon keeps from now on.
LEMMA HandshakeGreet ==
    ASSUME Typed, Handshake, server = "hello",
           NEW f \in ServerHellos, NEW next \in {"loop", "closed"},
           Send(f, next), Len(greeted') \in {0, 1},
           f.accepted => /\ Len(greeted') = 1
                         /\ Accepts(greeted'[1], s_ver)
                         /\ f.v.minor = s_minor',
           next = "loop" => Len(greeted') = 1 /\ Accepts(greeted'[1], s_ver),
           Len(greeted') = 1 => s_minor' = Negotiated(greeted'[1], s_ver),
           client = "start" => greeted' = <<>>,
           client = "await" /\ Len(greeted') = 1 => greeted'[1] = c_ver,
           UNCHANGED <<to_client, eof, calls, clientVars, c_ver, s_ver>>,
           \/ to_server' = to_server
           \/ to_server # <<>> /\ to_server' = Tail(to_server)
    PROVE  Handshake'
<1>1. /\ out'[1] = f /\ server' = "sending" /\ after' = next
  BY DEF Send
<1>2. /\ greeted = <<>> /\ calls = <<>> /\ to_client = <<>>
      /\ c_minor = None /\ client # "ready"
  BY DEF Handshake, ServerSide, ClientSide
<1>3. ServerSide'
  BY <1>1, <1>2 DEF ServerSide, InSession
<1>4. HelloFirst'
  <2>1. Truthful(out[1])'
    BY <1>1 DEF Truthful
  <2> QED BY <1>1, <1>2, <2>1 DEF HelloFirst, clientVars
<1>5. ClientSide'
  <2>1. to_server \in Seq(ToServerFrames)
    BY DEF Typed, StateTypeOK
  <2>2. client' = "await" =>
           \A i \in 1..Len(to_server') :
              to_server'[i].t = "hello" => to_server'[i].v = c_ver'
    BY <2>1, OwnHelloKept DEF Handshake, ClientSide, clientVars
  <2>3. client' = "start" => to_server' = <<>>
    BY DEF Handshake, ClientSide, clientVars
  <2> QED BY <1>1, <1>2, <2>2, <2>3 DEF ClientSide, clientVars
<1> QED BY <1>3, <1>4, <1>5 DEF Handshake

\* Every step of either end keeps the handshake's invariant.
LEMMA HandshakeStep == Typed /\ Handshake /\ [Next]_vars => Handshake'
<1> SUFFICES ASSUME Typed, Handshake, [Next]_vars PROVE Handshake'
  OBVIOUS
<1>0. /\ to_server \in Seq(ToServerFrames) /\ to_client \in Seq(ToClientFrames)
      /\ out \in Seq(ToClientFrames) /\ greeted \in Seq(Versions)
      /\ calls \in Seq(Calls) /\ s_ver \in Versions /\ c_ver \in Versions
      /\ after \in {"loop", "closed"} /\ server \in ServerStates
      /\ server = "sending" <=> Len(out) = 1
  BY DEF Typed, StateTypeOK
<1>1. CASE DrawNonce
  <2>1. CASE Close
    BY <1>1, <2>1, HandshakeClose DEF DrawNonce
  <2>2. CASE server' = "hello" /\ UNCHANGED <<out, after>>
    BY <1>1, <2>2 DEF DrawNonce, Handshake, ServerSide, HelloFirst, ClientSide,
                      Truthful, InSession, wire, clientVars
  <2> QED BY <1>1, <2>1, <2>2 DEF DrawNonce
<1>2. CASE ReadHello
  <2> DEFINE f == Head(to_server)
  <2>1. /\ f \in ToServerFrames /\ f = to_server[1] /\ 1 \in 1..Len(to_server)
        /\ server = "hello" /\ to_server # <<>> /\ to_server' = Tail(to_server)
        /\ UNCHANGED <<to_client, eof, calls, clientVars, c_ver, s_ver>>
    BY <1>0, <1>2, TailFacts DEF ReadHello
  <2>2. greeted = <<>>
    BY <2>1 DEF Handshake, ServerSide
  <2>3. CASE f.t = "hello"
    <3> DEFINE g == HelloAnswer(f.v, s_ver)
               next == IF Accepts(f.v, s_ver) THEN "loop" ELSE "closed"
    <3>1. f.v \in Versions
      BY <2>1, <2>3, ToServerFields
    <3>2. g \in ServerHellos
      BY <1>0, <3>1, HelloAnswerTyped
    <3>3. /\ Send(g, next) /\ s_minor' = Negotiated(f.v, s_ver)
          /\ greeted' = <<f.v>>
      BY <1>2, <2>3, Zenon DEF ReadHello
    <3>4. Len(greeted') = 1 /\ greeted'[1] = f.v
      BY <3>3
    <3>5. g.accepted => Accepts(f.v, s_ver) /\ g.v.minor = Negotiated(f.v, s_ver)
      BY <1>0, <3>1, HelloAnswerTruthful, Zenon
    <3>7. client = "start" => FALSE
      BY <2>1 DEF Handshake, ClientSide
    <3>8. client = "await" => f.v = c_ver
      BY <2>1, <2>3 DEF Handshake, ClientSide
    <3>9. next \in {"loop", "closed"} /\ (next = "loop" => Accepts(f.v, s_ver))
      OBVIOUS
    <3> HIDE DEF f, g, next
    <3> QED BY <2>1, <3>2, <3>3, <3>4, <3>5, <3>7, <3>8, <3>9, HandshakeGreet
  <2>4. CASE f.t # "hello"
    <3> DEFINE g == ServerHello(FALSE, s_ver, RejectCode(f))
    <3>1. g \in ServerHellos
      BY <1>0, <2>1, RejectTyped
    <3>2. g.accepted = FALSE
      BY Zenon DEF ServerHello
    <3>3. Send(g, "closed") /\ UNCHANGED <<greeted, s_minor>>
      BY <1>2, <2>4, Zenon DEF ReadHello
    <3>4. Len(greeted') = 0 /\ greeted' = <<>>
      BY <2>2, <3>3
    <3> HIDE DEF f, g
    <3> QED BY <2>1, <3>1, <3>2, <3>3, <3>4, HandshakeGreet
  <2> QED BY <2>3, <2>4
<1>3. CASE HelloMissing
  <2> DEFINE g == ServerHello(FALSE, s_ver, "HANDSHAKE_REQUIRED")
  <2>1. "HANDSHAKE_REQUIRED" \in RejectCodes
    BY DEF RejectCodes
  <2>2. g \in ServerHellos
    BY <1>0, <2>1, Zenon DEF ServerHello, ServerHellos
  <2>3. g.accepted = FALSE
    BY Zenon DEF ServerHello
  <2>4. Send(g, "closed") /\ server = "hello"
    BY <1>3, Zenon DEF HelloMissing
  <2>5. greeted = <<>>
    BY <2>4 DEF Handshake, ServerSide
  <2>6. Len(greeted') = 0 /\ greeted' = <<>>
    BY <1>3, <2>5 DEF HelloMissing
  <2> HIDE DEF g
  <2> QED BY <1>3, <2>2, <2>3, <2>4, <2>6, HandshakeGreet DEF HelloMissing, wire
<1>4. CASE ReadRequest
  <2>1. InSession /\ InSession' /\ server' \notin {"nonce", "hello", "sending"}
    BY <1>4 DEF ReadRequest, InSession
  <2>2. client' = "await" =>
           \A i \in 1..Len(to_server') :
              to_server'[i].t = "hello" => to_server'[i].v = c_ver'
    BY <1>0, <1>4, OwnHelloKept DEF ReadRequest, Handshake, ClientSide, clientVars
  <2>3. ServerSide' /\ HelloFirst'
    BY <1>4, <2>1 DEF ReadRequest, Handshake, ServerSide, HelloFirst, Truthful, clientVars
  <2>4. ClientSide'
    BY <1>4, <2>1, <2>2 DEF ReadRequest, Handshake, ServerSide, ClientSide, clientVars
  <2> QED BY <2>3, <2>4 DEF Handshake
<1>5. CASE RefuseRequest
  <2> DEFINE g == Response(Head(to_server).id, "INVALID_PARAMS")
  <2>1. /\ Head(to_server) \in ToServerFrames /\ Head(to_server).t = "request"
        /\ to_server # <<>> /\ to_server' = Tail(to_server)
        /\ UNCHANGED <<to_client, eof, greeted, s_minor, clientVars, c_ver, s_ver>>
    BY <1>0, <1>5 DEF RefuseRequest
  <2>2. Send(g, "loop")
    BY <1>5, Zenon DEF RefuseRequest
  <2>3. "INVALID_PARAMS" \in Results /\ Head(to_server).id \in Ids
    BY <2>1, ToServerFields DEF Results
  <2>4. g \in ToClientFrames
    BY <2>3, ToClientTyped, Zenon
  <2>5. g.t = "response"
    BY Zenon DEF Response
  <2>6. InSession
    BY <1>5 DEF RefuseRequest, InSession
  <2> HIDE DEF g
  <2> QED BY <2>1, <2>2, <2>4, <2>5, <2>6, HandshakeRespond
<1>6. CASE ReadOther
  <2>1. client' = "await" =>
           \A i \in 1..Len(to_server') :
              to_server'[i].t = "hello" => to_server'[i].v = c_ver'
    BY <1>0, <1>6, OwnHelloKept DEF ReadOther, Handshake, ClientSide, clientVars
  <2>2. ServerSide' /\ HelloFirst'
    BY <1>6 DEF ReadOther, Close, Handshake, ServerSide, HelloFirst, Truthful, InSession, clientVars
  <2>3. ClientSide'
    BY <1>6, <2>1 DEF ReadOther, Close, Handshake, ServerSide, InSession, ClientSide, clientVars
  <2> QED BY <2>2, <2>3 DEF Handshake
<1>7. CASE ReadEnd \/ IdleTimeout \/ TaskDropped
  BY <1>7, HandshakeClose DEF ReadEnd, IdleTimeout, TaskDropped
<1>8. CASE SendFrame
  <2>1. /\ server = "sending" /\ server' = after /\ out[1] \in ToClientFrames
        /\ to_client' = Append(to_client, out[1])
        /\ Len(calls') = Len(calls) /\ calls' \in Seq(Calls)
        /\ UNCHANGED <<to_server, eof, after, greeted, s_minor, clientVars, c_ver, s_ver>>
    <3>1. /\ server = "sending" /\ server' = after /\ calls' = Answered
          /\ to_client' = Append(to_client, out[1])
          /\ UNCHANGED <<to_server, eof, after, greeted, s_minor, clientVars, c_ver, s_ver>>
      BY <1>8, Zenon DEF SendFrame
    <3>2. out[1] \in ToClientFrames
      <4>1. out \in Seq(ToClientFrames) /\ Len(out) = 1
        BY <1>0, <3>1
      <4> QED BY <4>1
    <3>3. Answered \in Seq(Calls) /\ Len(Answered) = Len(calls)
      BY <3>1, AnsweredTyped
    <3> QED BY <3>1, <3>2, <3>3
  <2>2. ServerSide'
    BY <1>0, <2>1 DEF Handshake, ServerSide, InSession
  <2>3. HelloFirst'
    <3>1. ASSUME NEW i \in 1..Len(to_client')
          PROVE  /\ Truthful(to_client[i])'
                 /\ i > 1 \/ client' = "ready" => to_client'[i].t = "response"
      <4>1. CASE i \in 1..Len(to_client) /\ to_client'[i] = to_client[i]
        BY <2>1, <4>1 DEF Handshake, HelloFirst, Truthful, clientVars
      <4>2. CASE i = Len(to_client) + 1 /\ to_client'[i] = out[1]
        <5>1. i > 1 => to_client # <<>>
          BY <1>0, <4>2
        <5> QED BY <2>1, <4>2, <5>1 DEF Handshake, HelloFirst, Truthful, clientVars
      <4> QED BY <1>0, <2>1, <4>1, <4>2, AppendFacts
    <3> QED BY <1>0, <2>1, <3>1 DEF HelloFirst
  <2>4. ClientSide'
    BY <1>0, <2>1 DEF Handshake, ClientSide, clientVars
  <2> QED BY <2>2, <2>3, <2>4 DEF Handshake
<1>9. CASE SendToNobody
  <2>1. /\ server = "sending" /\ server' \in {"closed", after}
        /\ Len(calls') = Len(calls) /\ calls' \in Seq(Calls)
        /\ UNCHANGED <<wire, after, greeted, s_minor, clientVars, c_ver, s_ver>>
    BY <1>0, <1>9, AnsweredTyped DEF SendToNobody
  <2>2. ServerSide'
    BY <1>0, <2>1 DEF Handshake, ServerSide, InSession, wire
  <2>3. HelloFirst'
    BY <1>0, <2>1 DEF Handshake, HelloFirst, Truthful, wire, clientVars
  <2>4. ClientSide'
    BY <1>0, <2>1 DEF Handshake, ClientSide, wire, clientVars
  <2> QED BY <2>2, <2>3, <2>4 DEF Handshake
<1>10. CASE DispatchWorks
  <2>1. InSession
    BY <1>10 DEF DispatchWorks, InSession
  <2> QED BY <1>10, <2>1 DEF DispatchWorks, Handshake, ServerSide, HelloFirst, ClientSide,
                             Truthful, InSession, wire, clientVars
<1>11. CASE DispatchReturns \/ CommandTimeout
  <2> DEFINE c == calls[Len(calls)]
  <2>1. c \in Calls /\ InSession
    BY <1>11 DEF DispatchReturns, CommandTimeout, Typed, StateTypeOK, CallPending, InSession
  <2>2. c.id \in Ids
    BY <2>1, CallsTyped
  <2>3. /\ UNCHANGED <<wire, greeted, s_minor, calls, clientVars, c_ver, s_ver>>
        /\ \/ Close
           \/ \E r \in Results : Send(Response(c.id, r), "loop")
    <3>1. "OK" \in Results /\ "ERR" \in Results /\ "TIMEOUT" \in Results
      BY DEF Results
    <3> QED BY <1>11, <3>1, Zenon DEF DispatchReturns, CommandTimeout, DispatchAnswer
  <2>4. CASE Close
    BY <2>3, <2>4, HandshakeClose
  <2>5. ASSUME NEW r \in Results, Send(Response(c.id, r), "loop") PROVE Handshake'
    <3>1. Response(c.id, r) \in ToClientFrames
      BY <2>2, ToClientTyped, Zenon
    <3>2. Response(c.id, r).t = "response"
      BY Zenon DEF Response
    <3> QED BY <2>1, <2>3, <2>5, <3>1, <3>2, HandshakeRespond DEF wire
  <2> QED BY <2>3, <2>4, <2>5
<1>12. CASE SendHello
  <2>1. /\ client = "start" /\ client' \in {"await", "failed"}
        /\ to_server = <<>> /\ greeted = <<>> /\ greeted' = <<>>
        /\ to_server' \in {to_server, Append(to_server, Hello(c_ver))}
        /\ UNCHANGED <<to_client, eof, serverVars, c_minor, c_ver, s_ver>>
    BY <1>12 DEF SendHello, Fail, Handshake, ClientSide, serverVars
  <2>2. \A i \in 1..Len(to_server') : to_server'[i].t = "hello" => to_server'[i].v = c_ver
    <3>1. Hello(c_ver).v = c_ver
      BY Zenon DEF Hello
    <3> HIDE DEF Hello
    <3> QED BY <2>1, <3>1
  <2>3. ServerSide'
    BY <2>1 DEF Handshake, ServerSide, InSession, serverVars
  <2>4. HelloFirst'
    BY <2>1 DEF Handshake, HelloFirst, Truthful, serverVars
  <2>5. ClientSide'
    BY <2>1, <2>2 DEF Handshake, ClientSide, serverVars
  <2> QED BY <2>3, <2>4, <2>5 DEF Handshake
<1>13. CASE ReadServerHello
  <2> DEFINE sh == Head(to_client)
  <2>1. /\ client = "await" /\ to_client # <<>> /\ to_client' = Tail(to_client)
        /\ sh = to_client[1] /\ 1 \in 1..Len(to_client)
        /\ UNCHANGED <<to_server, eof, serverVars, written, got, c_ver, s_ver>>
    BY <1>0, <1>13, TailFacts DEF ReadServerHello
  <2>2. /\ server \notin {"nonce", "hello"}
        /\ server = "sending" => out[1].t = "response" /\ Truthful(out[1])
        /\ c_minor # None => Len(greeted) = 1
    BY <2>1 DEF Handshake, ServerSide, HelloFirst, ClientSide
  <2>3. \A i \in 1..Len(to_client') :
            to_client'[i].t = "response" /\ Truthful(to_client'[i])
    <3>1. \A i \in 1..Len(to_client) :
              Truthful(to_client[i]) /\ (i > 1 => to_client[i].t = "response")
      BY DEF Handshake, HelloFirst
    <3> QED BY <1>0, <2>1, <3>1, TailFacts
  <2>4. \/ client' = "failed" /\ c_minor' = c_minor
        \/ /\ client' = "ready" /\ c_minor' = sh.v.minor
           /\ sh.t = "server_hello" /\ sh.accepted
    <3>1. /\ verdict' = HandshakeVerdict(sh, c_ver)
          /\ \/ client' = "failed" /\ c_minor' = c_minor
             \/ client' = "ready" /\ c_minor' = sh.v.minor /\ verdict' = "ready"
      BY <1>13 DEF ReadServerHello
    <3>2. HandshakeVerdict(sh, c_ver) = "ready" =>
             sh.t = "server_hello" /\ (sh.accepted \/ sh.reject = "ready")
      BY DEF HandshakeVerdict
    <3>3. sh \in ToClientFrames
      BY <1>0, <2>1
    <3>4. sh.t = "server_hello" => sh.reject \in RejectCodes \cup {None}
      BY <3>3, ToClientFields
    <3>5. "ready" \notin RejectCodes
      BY DEF RejectCodes
    <3> HIDE DEF sh
    <3> QED BY <3>1, <3>2, <3>4, <3>5, ConnectionAssumption
  <2>5. ServerSide'
    BY <2>1, <2>2 DEF Handshake, ServerSide, InSession, serverVars
  <2>6. HelloFirst'
    BY <2>1, <2>2, <2>3 DEF HelloFirst, Truthful, serverVars
  <2>7. ClientSide'
    <3>1. CASE client' = "failed" /\ c_minor' = c_minor
      BY <2>1, <3>1 DEF Handshake, ClientSide, serverVars
    <3>2. CASE /\ client' = "ready" /\ c_minor' = sh.v.minor
               /\ sh.t = "server_hello" /\ sh.accepted
      <4>1. Truthful(to_client[1])
        BY <2>1 DEF Handshake, HelloFirst
      <4>2. Len(greeted) = 1 /\ Accepts(greeted[1], s_ver) /\ sh.v.minor = s_minor
        BY <2>1, <3>2, <4>1 DEF Truthful
      <4>3. greeted[1] = c_ver
        BY <2>1, <4>2 DEF Handshake, ClientSide
      <4> QED BY <2>1, <2>2, <3>2, <4>2, <4>3 DEF ClientSide, serverVars
    <3> QED BY <2>4, <3>1, <3>2
  <2> QED BY <2>5, <2>6, <2>7 DEF Handshake
<1>14. CASE HandshakeFails
  <2>1. /\ client' = "failed"
        /\ UNCHANGED <<wire, serverVars, c_minor, written, got, c_ver, s_ver>>
    BY <1>14, Zenon DEF HandshakeFails, Fail
  <2> QED BY <2>1 DEF Handshake, ServerSide, HelloFirst, ClientSide, Truthful, InSession,
                      wire, serverVars
<1>15. CASE SendRequest
  <2>1. /\ client = "ready" /\ client' \in {"ready", "failed"}
        /\ UNCHANGED <<to_client, eof, serverVars, c_minor, got, verdict, c_ver, s_ver>>
    BY <1>15 DEF SendRequest
  <2> QED BY <2>1 DEF Handshake, ServerSide, HelloFirst, ClientSide, Truthful, InSession,
                      serverVars
<1>16. CASE ReadResponse \/ StrangerReads
  <2>1. /\ client \in {"ready", "stranger"} /\ client' \in {client, "failed"}
        /\ \/ to_client # <<>> /\ to_client' = Tail(to_client)
           \/ to_client' = to_client
        /\ UNCHANGED <<to_server, eof, serverVars, c_minor, written, c_ver, s_ver>>
    BY <1>16, Zenon DEF ReadResponse, StrangerReads, clientVars
  <2>2. ASSUME NEW i \in 1..Len(to_client')
        PROVE  \E j \in 1..Len(to_client) :
                   to_client'[i] = to_client[j] /\ (i > 1 => j > 1)
    BY <1>0, <2>1, TailFacts
  <2>3. ServerSide'
    BY <2>1 DEF Handshake, ServerSide, InSession, serverVars
  <2>4. HelloFirst'
    <3>1. server = "sending" /\ to_client' # <<>> => to_client # <<>>
      BY <1>0, <2>1
    <3>2. \A i \in 1..Len(to_client') :
              /\ Truthful(to_client'[i])
              /\ i > 1 \/ client = "ready" => to_client'[i].t = "response"
      BY <2>2 DEF Handshake, HelloFirst
    <3> QED BY <2>1, <3>1, <3>2 DEF Handshake, HelloFirst, Truthful, serverVars
  <2>5. ClientSide'
    BY <2>1 DEF Handshake, ClientSide, serverVars
  <2> QED BY <2>3, <2>4, <2>5 DEF Handshake
<1>17. CASE Drop
  BY <1>17 DEF Drop, Handshake, ServerSide, HelloFirst, ClientSide, Truthful, InSession,
               serverVars
<1>18. CASE HalfClose
  BY <1>18 DEF HalfClose, Handshake, ServerSide, HelloFirst, ClientSide, Truthful, InSession,
               serverVars, clientVars
<1>19. CASE StrangerWrites
  BY <1>19 DEF StrangerWrites, Handshake, ServerSide, HelloFirst, ClientSide, Truthful,
               InSession, serverVars
<1>20. CASE UNCHANGED vars
  BY <1>20 DEF vars, wire, serverVars, clientVars, Handshake, ServerSide, HelloFirst,
               ClientSide, Truthful, InSession
<1> QED
  BY <1>1, <1>2, <1>3, <1>4, <1>5, <1>6, <1>7, <1>8, <1>9, <1>10, <1>11, <1>12,
     <1>13, <1>14, <1>15, <1>16, <1>17, <1>18, <1>19, <1>20, Zenon
     DEF Next, ServerReads, ServerSends, ClientSteps, Terminated

\* The app's log of answers holds responses: by the time it is ready, no
\* ServerHello can be in front of it.
LEMMA GotStep ==
    ASSUME Typed, Handshake, [Next]_vars, got \in Seq(Ids \X Results)
    PROVE  got' \in Seq(Ids \X Results)
<1>1. CASE ReadResponse
  <2> DEFINE r == Head(to_client)
             e == <<r.id, r.result>>
  <2>1. got' = got \/ (to_client # <<>> /\ got' = Append(got, e))
    BY <1>1, Zenon DEF ReadResponse
  <2>2. CASE to_client # <<>> /\ got' = Append(got, e)
    <3>1. to_client \in Seq(ToClientFrames) /\ client = "ready"
      BY <1>1 DEF Typed, StateTypeOK, ReadResponse
    <3>2. r \in ToClientFrames /\ r.t = "response"
      BY <2>2, <3>1, TailFacts DEF Handshake, HelloFirst
    <3>3. r.id \in Ids /\ r.result \in Results
      BY <3>2, ToClientFields
    <3>4. e \in Ids \X Results
      BY <3>3
    <3> HIDE DEF e
    <3> QED BY <2>2, <3>4
  <2> QED BY <2>1, <2>2
<1>2. CASE ~ReadResponse
  <2>1. got' = got
    BY <1>2, Zenon
       DEF Next, ServerReads, ServerSends, ClientSteps, Terminated, vars, wire,
           clientVars, serverVars,
           DrawNonce, ReadHello, HelloMissing, ReadRequest, RefuseRequest, ReadOther,
           ReadEnd, IdleTimeout, SendFrame, SendToNobody, DispatchWorks,
           DispatchReturns, CommandTimeout, TaskDropped, SendHello, ReadServerHello,
           HandshakeFails, SendRequest, Drop, HalfClose, StrangerWrites, StrangerReads
  <2> QED BY <2>1
<1> QED BY <1>1, <1>2

-----------------------------------------------------------------------------
(* The theorems.                                                           *)

ConnectionInv == Typed /\ Handshake /\ got \in Seq(Ids \X Results)

\* Types and handshake together hold of every connection.
LEMMA ConnectionInvariant == Spec => []ConnectionInv
<1>1. Init => ConnectionInv
  <2>1. Init => got \in Seq(Ids \X Results)
    BY DEF Init
  <2> QED BY <2>1, TypedInit, HandshakeInit DEF ConnectionInv
<1>2. ConnectionInv /\ [Next]_vars => ConnectionInv'
  BY TypedStep, HandshakeStep, GotStep DEF ConnectionInv
<1> QED BY <1>1, <1>2, PTL DEF Spec

\* The connection keeps its types: the daemon never answers a call it does
\* not have, and a ready app never reads anything but responses
\* (handle_conn_with_nonce, client_handshake).
THEOREM TypeCorrect == Spec => []TypeOK
<1>1. ConnectionInv => TypeOK
  BY DEF ConnectionInv, Typed, TypeOK
<1> QED BY <1>1, ConnectionInvariant, PTL

\* No command reaches dispatch on a connection that did not open with a Hello
\* of the daemon's major, whatever a peer writes and in whatever order
\* (server_handshake before the loop of handle_conn_with_nonce).
THEOREM CommandsFollowHandshake == Spec => []NoCommandBeforeHandshake
<1>1. ConnectionInv => NoCommandBeforeHandshake
  BY DEF ConnectionInv, Typed, StateTypeOK, Handshake, ServerSide,
         NoCommandBeforeHandshake, Accepts
<1> QED BY <1>1, ConnectionInvariant, PTL

\* An app whose handshake succeeded and its daemon hold the same minor, one
\* both of them speak, for every pair of versions
\* (server_handshake, client_handshake).
THEOREM MinorsAlwaysAgree == Spec => []MinorAgreement
<1>1. ConnectionInv => MinorAgreement
  <2> SUFFICES ASSUME ConnectionInv, c_minor # None PROVE MinorAgreement
    BY DEF MinorAgreement
  <2>1. c_ver \in Versions /\ s_ver \in Versions
    BY DEF ConnectionInv, Typed, StateTypeOK
  <2>2. /\ Len(greeted) = 1 /\ greeted[1] = c_ver /\ Accepts(c_ver, s_ver)
        /\ c_minor = s_minor /\ s_minor = Negotiated(c_ver, s_ver)
    BY DEF ConnectionInv, Handshake, ClientSide, ServerSide
  <2>3. /\ Negotiated(c_ver, s_ver) <= c_ver.minor
        /\ Negotiated(c_ver, s_ver) <= s_ver.minor
    BY <2>1, NegotiatedTyped
  <2> QED BY <2>2, <2>3 DEF MinorAgreement, Accepts
<1> QED BY <1>1, ConnectionInvariant, PTL

-----------------------------------------------------------------------------
(* The session.  A command is in hand exactly while it has no answer, and  *)
(* the answers come back in the order of the requests.                     *)

\* A command has been read and its answer has not been written.
Pending ==
    \/ server = "dispatch"
    \/ server = "sending" /\ out[1].t = "response"

\* The response about to go out is the one of the command in hand, and tells
\* the truth about its work (the match on the dispatch result).
AnswerHonest ==
    server = "sending" /\ out[1].t = "response" =>
        /\ out[1].id = calls[Len(calls)].id
        /\ out[1].result = "OK" => calls[Len(calls)].effect
        /\ out[1].result = "INVALID_PARAMS" => ~calls[Len(calls)].effect

\* The loop reads the next frame only when every command has its answer, and
\* then works on one (the loop of handle_conn_with_nonce).
OneInHand ==
    /\ server = "loop" => \A i \in 1..Len(calls) : calls[i].result # None
    /\ Pending =>
          /\ calls[Len(calls)].result = None
          /\ \A i \in 1..Len(calls) : i # Len(calls) => calls[i].result # None
    /\ server = "sending" /\ out[1].t = "server_hello" => calls = <<>>

Commands == OneInHand /\ AnswerHonest

\* client_handshake has not returned.
Waiting == client \in {"start", "await"}

\* Until then one Hello is all the app has written, the stream carries one
\* ServerHello at most, and there is no command.
QuietHandshake ==
    /\ Waiting =>
          /\ calls = <<>> /\ written = 0
          /\ \A i \in 1..Len(to_client) : to_client[i].t = "server_hello"
          /\ \A i \in 1..Len(to_server) : to_server[i].t = "hello"
          /\ Len(to_server) + Len(greeted) <= 1
    /\ Waiting \/ client = "stranger" => got = <<>>

\* The requests of a ready app carry consecutive numbers, first those the
\* daemon has read, then those in the stream.
RequestsInOrder ==
    client = "ready" =>
        /\ written = Len(calls) + Len(to_server)
        /\ \A i \in 1..Len(calls) : calls[i].id = i
        /\ \A i \in 1..Len(to_server) :
              to_server[i].t = "request" /\ to_server[i].id = Len(calls) + i

\* The answers a ready app has read and those in the stream are the answers
\* of the first commands, all of them except the one in hand.
AnswersInOrder ==
    client = "ready" =>
        /\ Len(got) + Len(to_client) <= Len(calls)
        /\ server = "loop" => Len(got) + Len(to_client) = Len(calls)
        /\ Pending => Len(got) + Len(to_client) + 1 = Len(calls)
        /\ \A j \in 1..Len(to_client) :
              /\ to_client[j].id = calls[Len(got) + j].id
              /\ to_client[j].result = calls[Len(got) + j].result

\* What the app has read stays true: the command in hand is not among it.
ReadStaysRead ==
    /\ Len(got) <= Len(calls)
    /\ Pending => Len(got) < Len(calls)
    /\ ResponsesInOrder

Ordered == QuietHandshake /\ RequestsInOrder /\ AnswersInOrder /\ ReadStaysRead

-----------------------------------------------------------------------------
(* The reasons client_handshake reports.                                   *)

\* A ServerHello accepts with the daemon's own major, or refuses with a code
\* that is true of the Hello the daemon has read.
Reasoned(f) ==
    f.t = "server_hello" =>
        /\ f.accepted => f.v.major = s_ver.major
        /\ ~f.accepted =>
              /\ f.reject \in RejectCodes
              /\ f.reject = "VERSION_UNSUPPORTED" =>
                    Len(greeted) = 1 /\ ~Accepts(greeted[1], s_ver)
              /\ Waiting => f.reject \notin {"FRAME_TOO_LARGE", "MALFORMED_FRAME"}

Reasons ==
    /\ \A i \in 1..Len(to_client) : Reasoned(to_client[i])
    /\ server = "sending" => Reasoned(out[1])
    /\ VerdictTruthful

-----------------------------------------------------------------------------
(* Every step keeps one command in hand.                                   *)

\* Answering changes the last call only, and of that the result only.
LEMMA AnsweredFacts ==
    ASSUME Typed, server = "sending"
    PROVE  /\ Len(Answered) = Len(calls)
           /\ out[1].t # "response" => Answered = calls
           /\ out[1].t = "response" =>
                 /\ Len(calls) \in 1..Len(calls)
                 /\ \A i \in 1..Len(calls) : i # Len(calls) => Answered[i] = calls[i]
                 /\ Answered[Len(calls)].id = calls[Len(calls)].id
                 /\ Answered[Len(calls)].effect = calls[Len(calls)].effect
                 /\ Answered[Len(calls)].result = out[1].result
                 /\ out[1].result \in Results
<1>1. /\ out[1] \in ToClientFrames
      /\ calls \in Seq(Calls)
      /\ out[1].t = "response" => calls # <<>>
  BY DEF Typed, StateTypeOK, CallPending
<1>2. CASE out[1].t = "response"
  <2> DEFINE n == Len(calls)
             c == [calls[n] EXCEPT !.result = out[1].result]
  <2>1. n \in 1..Len(calls) /\ calls[n] \in Calls
    BY <1>1, <1>2
  <2>2. out[1].result \in Results
    BY <1>1, <1>2, ToClientFields
  <2>3. /\ c.id = calls[n].id /\ c.effect = calls[n].effect
        /\ c.result = out[1].result
    BY <2>1 DEF Calls
  <2>4. Answered = [calls EXCEPT ![n] = c]
    BY <1>2, Zenon DEF Answered
  <2> HIDE DEF c
  <2>5. Len(Answered) = Len(calls) /\ Answered[n] = c
    BY <1>1, <2>1, <2>4
  <2>6. \A i \in 1..Len(calls) : i # n => Answered[i] = calls[i]
    BY <1>1, <2>1, <2>4
  <2> QED BY <1>2, <2>1, <2>2, <2>3, <2>5, <2>6
<1>3. CASE out[1].t # "response"
  BY <1>1, <1>3 DEF Answered
<1> QED BY <1>2, <1>3

\* So does the work of dispatch, and of that the effect only.
LEMMA WorkedFacts ==
    ASSUME Typed, DispatchWorks
    PROVE  /\ Len(calls') = Len(calls)
           /\ Len(calls) \in 1..Len(calls)
           /\ \A i \in 1..Len(calls) : i # Len(calls) => calls'[i] = calls[i]
           /\ calls'[Len(calls)].id = calls[Len(calls)].id
           /\ calls'[Len(calls)].effect
           /\ calls'[Len(calls)].result = calls[Len(calls)].result
<1> DEFINE n == Len(calls)
           c == [calls[n] EXCEPT !.effect = TRUE]
<1>1. n \in 1..Len(calls) /\ calls[n] \in Calls /\ calls \in Seq(Calls)
  BY DEF DispatchWorks, Typed, StateTypeOK, CallPending
<1>2. c.id = calls[n].id /\ c.effect = TRUE /\ c.result = calls[n].result
  BY <1>1 DEF Calls
<1>3. calls' = [calls EXCEPT ![n] = c]
  BY Zenon DEF DispatchWorks
<1> HIDE DEF c
<1>4. Len(calls') = Len(calls) /\ calls'[n] = c
  BY <1>1, <1>3
<1>5. \A i \in 1..Len(calls) : i # n => calls'[i] = calls[i]
  BY <1>1, <1>3
<1> QED BY <1>1, <1>2, <1>4, <1>5

\* A request that was read is the last call, without effect or answer.
LEMMA ReadFacts ==
    ASSUME Typed, ReadRequest \/ RefuseRequest
    PROVE  /\ to_server # <<>> /\ Head(to_server).t = "request"
           /\ Head(to_server) \in ToServerFrames
           /\ to_server' = Tail(to_server)
           /\ calls' \in Seq(Calls) /\ Len(calls') = Len(calls) + 1
           /\ Head(to_server).id \in Ids
           /\ calls' = Append(calls, [id |-> Head(to_server).id, effect |-> FALSE,
                                      result |-> None])
           /\ \A i \in 1..Len(calls) : calls'[i] = calls[i]
           /\ calls'[Len(calls')].id = Head(to_server).id
           /\ calls'[Len(calls')].effect = FALSE
           /\ calls'[Len(calls')].result = None
<1> DEFINE f == Head(to_server)
           c == [id |-> f.id, effect |-> FALSE, result |-> None]
<1>1. /\ to_server # <<>> /\ f.t = "request" /\ to_server' = Tail(to_server)
      /\ calls' = Append(calls, c)
  BY Zenon DEF ReadRequest, RefuseRequest
<1>2. calls \in Seq(Calls) /\ to_server \in Seq(ToServerFrames)
  BY DEF Typed, StateTypeOK
<1>3. f \in ToServerFrames
  BY <1>1, <1>2, TailFacts
<1>4. f.id \in Ids
  BY <1>1, <1>3, ToServerFields
<1>5. c \in Calls
  BY <1>4, CallsTyped, Zenon
<1>6. c.id = f.id /\ c.effect = FALSE /\ c.result = None
  BY Zenon
<1> HIDE DEF c
<1>7. /\ calls' \in Seq(Calls) /\ Len(calls') = Len(calls) + 1
      /\ calls'[Len(calls) + 1] = c
      /\ \A i \in 1..Len(calls) : calls'[i] = calls[i]
  BY <1>1, <1>2, <1>5
<1>8. calls' = Append(calls, [id |-> f.id, effect |-> FALSE, result |-> None])
  BY <1>1, Zenon DEF c
<1> QED BY <1>1, <1>3, <1>4, <1>6, <1>7, <1>8

\* What the daemon puts up in answer to the command in hand.
LEMMA RespondFacts ==
    ASSUME Typed, DispatchReturns \/ CommandTimeout
    PROVE  /\ server = "dispatch"
           /\ UNCHANGED <<wire, greeted, s_minor, calls, clientVars, c_ver, s_ver>>
           /\ \/ server' = "closed"
              \/ /\ server' = "sending" /\ after' = "loop"
                 /\ out'[1].t = "response"
                 /\ out'[1].id = calls[Len(calls)].id
                 /\ out'[1].result \in {"OK", "ERR", "TIMEOUT"}
                 /\ out'[1].result = "OK" => calls[Len(calls)].effect
<1> DEFINE c == calls[Len(calls)]
<1>1. /\ server = "dispatch"
      /\ UNCHANGED <<wire, greeted, s_minor, calls, clientVars, c_ver, s_ver>>
      /\ \/ Close
         \/ \E r \in {"OK", "ERR", "TIMEOUT"} :
               Send(Response(c.id, r), "loop") /\ (r = "OK" => c.effect)
  BY Zenon DEF DispatchReturns, CommandTimeout, DispatchAnswer
<1>2. ASSUME NEW r \in {"OK", "ERR", "TIMEOUT"}, Send(Response(c.id, r), "loop")
      PROVE  /\ server' = "sending" /\ after' = "loop" /\ out'[1].t = "response"
             /\ out'[1].id = c.id /\ out'[1].result = r
  <2>1. out' = <<Response(c.id, r)>> /\ server' = "sending" /\ after' = "loop"
    BY <1>2, Zenon DEF Send
  <2>2. out'[1] = Response(c.id, r)
    BY <2>1
  <2> QED BY <2>1, <2>2, Zenon DEF Response
<1> QED BY <1>1, <1>2, Zenon DEF Close

\* The daemon's one ServerHello.
LEMMA GreetFacts ==
    ASSUME Typed, ReadHello \/ HelloMissing
    PROVE  /\ server = "hello"
           /\ server' = "sending"
           /\ out'[1].t = "server_hello"
           /\ UNCHANGED <<to_client, calls, clientVars, c_ver, s_ver>>
           /\ \/ to_server' = to_server
              \/ to_server # <<>> /\ to_server' = Tail(to_server)
<1>1. ASSUME NEW ok, NEW v, NEW code, NEW next, Send(ServerHello(ok, v, code), next)
      PROVE  server' = "sending" /\ out'[1].t = "server_hello"
  <2>1. server' = "sending" /\ out' = <<ServerHello(ok, v, code)>>
    BY <1>1, Zenon DEF Send
  <2>2. ServerHello(ok, v, code).t = "server_hello"
    BY Zenon DEF ServerHello
  <2> QED BY <2>1, <2>2
<1>2. \E ok, v, code, next : Send(ServerHello(ok, v, code), next)
  BY Zenon DEF ReadHello, HelloMissing, HelloAnswer
<1>3. /\ server = "hello" /\ UNCHANGED <<to_client, calls, clientVars, c_ver, s_ver>>
      /\ \/ to_server' = to_server
         \/ to_server # <<>> /\ to_server' = Tail(to_server)
  BY Zenon DEF ReadHello, HelloMissing, wire
<1> QED BY <1>1, <1>2, <1>3, Zenon

\* The answer to a command that A::validate refused.
LEMMA RefuseFacts ==
    ASSUME RefuseRequest
    PROVE  /\ server = "loop" /\ server' = "sending" /\ after' = "loop"
           /\ out'[1].t = "response" /\ out'[1].id = Head(to_server).id
           /\ out'[1].result = "INVALID_PARAMS"
<1>1. server = "loop" /\ Send(Response(Head(to_server).id, "INVALID_PARAMS"), "loop")
  BY Zenon DEF RefuseRequest
<1>2. /\ server' = "sending" /\ after' = "loop"
      /\ out' = <<Response(Head(to_server).id, "INVALID_PARAMS")>>
  BY <1>1, Zenon DEF Send
<1>3. out'[1] = Response(Head(to_server).id, "INVALID_PARAMS")
  BY <1>2
<1> QED BY <1>1, <1>2, <1>3, Zenon DEF Response

\* Every step of either end keeps one command in hand.
LEMMA CommandsStep == Typed /\ Handshake /\ Commands /\ [Next]_vars => Commands'
<1> SUFFICES ASSUME Typed, Handshake, Commands, [Next]_vars PROVE Commands'
  OBVIOUS
<1>0. /\ calls \in Seq(Calls) /\ after \in {"loop", "closed"}
      /\ server = "sending" => out[1] \in ToClientFrames
      /\ Pending => calls # <<>>
  BY DEF Typed, StateTypeOK, CallPending, Pending
<1>1. CASE ReadHello \/ HelloMissing
  <2>1. calls = <<>>
    BY <1>1, GreetFacts DEF Handshake, ServerSide
  <2> QED BY <1>1, <2>1, GreetFacts DEF Commands, OneInHand, AnswerHonest, Pending
<1>2. CASE ReadRequest
  <2>1. /\ server = "loop" /\ server' = "dispatch"
    BY <1>2, Zenon DEF ReadRequest
  <2>2. /\ Len(calls') = Len(calls) + 1 /\ Len(calls) \in Nat
        /\ \A i \in 1..Len(calls) : calls'[i] = calls[i] /\ calls[i].result # None
        /\ calls'[Len(calls')].result = None
    BY <1>0, <1>2, <2>1, ReadFacts DEF Commands, OneInHand
  <2> QED BY <2>1, <2>2 DEF Commands, OneInHand, AnswerHonest, Pending
<1>3. CASE RefuseRequest
  <2>1. /\ Len(calls') = Len(calls) + 1 /\ Len(calls) \in Nat
        /\ \A i \in 1..Len(calls) : calls'[i] = calls[i] /\ calls[i].result # None
        /\ calls'[Len(calls')].id = out'[1].id
        /\ calls'[Len(calls')].effect = FALSE
        /\ calls'[Len(calls')].result = None
    BY <1>0, <1>3, ReadFacts, RefuseFacts DEF Commands, OneInHand
  <2> QED BY <1>3, <2>1, RefuseFacts DEF Commands, OneInHand, AnswerHonest, Pending
<1>4. CASE SendFrame \/ SendToNobody
  <2>1. /\ server = "sending" /\ server' \in {"closed", after}
        /\ server' = "closed" \/ calls' = Answered
    BY <1>4, Zenon DEF SendFrame, SendToNobody
  <2>2. server' \in {"loop", "closed"}
    BY <1>0, <2>1
  <2>3. server' = "loop" => \A i \in 1..Len(calls') : calls'[i].result # None
    <3> SUFFICES ASSUME server' = "loop", NEW i \in 1..Len(calls')
                 PROVE  calls'[i].result # None
      OBVIOUS
    <3>0. calls' = Answered
      BY <2>1
    <3>1. CASE out[1].t = "response"
      <4>1. out[1].result # None
        BY <2>1, <3>1, AnsweredFacts, ConnectionAssumption DEF Results
      <4> QED BY <2>1, <3>0, <3>1, <4>1, AnsweredFacts DEF Commands, OneInHand, Pending
    <3>2. CASE out[1].t # "response"
      <4>1. out[1].t = "server_hello"
        BY <1>0, <2>1, <3>2, ToClientFields
      <4> QED BY <2>1, <3>0, <3>2, <4>1, AnsweredFacts DEF Commands, OneInHand
    <3> QED BY <3>1, <3>2
  <2> QED BY <2>2, <2>3 DEF Commands, OneInHand, AnswerHonest, Pending
<1>5. CASE DispatchWorks
  <2>1. server = "dispatch" /\ server' = "dispatch"
    BY <1>5, Zenon DEF DispatchWorks
  <2> QED BY <1>0, <1>5, <2>1, WorkedFacts DEF Commands, OneInHand, AnswerHonest, Pending
<1>6. CASE DispatchReturns \/ CommandTimeout
  BY <1>6, RespondFacts DEF Commands, OneInHand, AnswerHonest, Pending
<1>7. CASE server' \in {"hello", "closed"}
  BY <1>7 DEF Commands, OneInHand, AnswerHonest, Pending
<1>8. CASE UNCHANGED serverVars
  BY <1>8 DEF serverVars, Commands, OneInHand, AnswerHonest, Pending
<1>9. \/ ReadHello \/ HelloMissing \/ ReadRequest \/ RefuseRequest
      \/ SendFrame \/ SendToNobody
      \/ DispatchWorks \/ DispatchReturns \/ CommandTimeout
      \/ server' \in {"hello", "closed"} \/ UNCHANGED serverVars
  BY Zenon DEF Next, ServerReads, ServerSends, ClientSteps, Terminated, Close, vars,
               DrawNonce, ReadOther, ReadEnd, IdleTimeout, TaskDropped, SendHello,
               ReadServerHello, HandshakeFails, SendRequest, ReadResponse, Drop,
               HalfClose, StrangerWrites, StrangerReads
<1> QED BY <1>1, <1>2, <1>3, <1>4, <1>5, <1>6, <1>7, <1>8, <1>9

-----------------------------------------------------------------------------
(* The connection implements the command session.                          *)

\* What Phase is at each program point.
LEMMA PhaseFacts ==
    ASSUME server \in ServerStates, after \in {"loop", "closed"}
    PROVE  /\ Phase = "over" <=> server = "closed"
           /\ Phase = "open" <=> InSession
           /\ Phase = "greeting" <=> server # "closed" /\ ~InSession
BY DEF Phase, InSession, ServerStates

\* Each step of the connection is a step of the session or changes nothing
\* the session speaks of.
LEMMA SessionStep ==
    ASSUME Typed, Typed', Handshake, Commands, [Next]_vars
    PROVE  [Session!SessionNext]_(Session!sessionVars)
<1> USE DEF Session!SessionNext, Session!sessionVars
<1>0. /\ server \in ServerStates /\ after \in {"loop", "closed"}
      /\ server' \in ServerStates /\ after' \in {"loop", "closed"}
      /\ calls \in Seq(Calls) /\ calls' \in Seq(Calls)
      /\ server = "sending" => out[1] \in ToClientFrames
      /\ Pending => calls # <<>>
      /\ server = "sending" /\ out[1].t = "response" => after = "loop"
  BY DEF Typed, StateTypeOK, CallPending, Pending
<1>p. /\ Phase = "over" <=> server = "closed"
      /\ Phase = "open" <=> InSession
      /\ Phase = "greeting" <=> server # "closed" /\ ~InSession
  BY <1>0, PhaseFacts
<1>q. /\ Phase' = "over" <=> server' = "closed"
      /\ Phase' = "open" <=> InSession'
      /\ Phase' = "greeting" <=> server' # "closed" /\ ~InSession'
  BY <1>0 DEF Phase, InSession, ServerStates
<1>1. CASE ReadHello \/ HelloMissing
  <2>1. server = "hello" /\ server' = "sending" /\ UNCHANGED calls
    BY <1>1, GreetFacts
  <2>2. Phase = "greeting" /\ Phase' \in {"greeting", "open"}
    BY <2>1, <1>p, <1>q DEF InSession
  <2> QED BY <2>1, <2>2 DEF Session!Open
<1>2. CASE ReadRequest \/ RefuseRequest
  <2>1. server = "loop" /\ InSession'
    <3>1. CASE ReadRequest
      BY <3>1 DEF ReadRequest, InSession
    <3>2. CASE RefuseRequest
      BY <3>2, RefuseFacts DEF InSession
    <3> QED BY <1>2, <3>1, <3>2
  <2>2. Phase = "open" /\ Phase' = "open"
    BY <2>1, <1>p, <1>q DEF InSession
  <2>3. Session!Idle
    BY <2>1 DEF Commands, OneInHand, Session!Idle
  <2>4. Head(to_server).id \in Ids
        /\ calls' = Append(calls, [id |-> Head(to_server).id, effect |-> FALSE,
                                   result |-> None])
    BY <1>2, ReadFacts
  <2> QED BY <2>2, <2>3, <2>4, Zenon DEF Session!Take
<1>3. CASE SendFrame \/ SendToNobody
  <2>1. /\ server = "sending"
        /\ \/ server' = "closed" /\ UNCHANGED calls
           \/ server' = after /\ calls' = Answered
        /\ UNCHANGED after
    BY <1>3, Zenon DEF SendFrame, SendToNobody
  <2>2. CASE server' = "closed" /\ UNCHANGED calls
    <3>1. Phase # "over" /\ Phase' = "over"
      BY <1>p, <1>q, <2>1, <2>2
    <3> QED BY <2>2, <3>1 DEF Session!End
  <2>3. CASE server' = after /\ calls' = Answered /\ out[1].t = "response"
    <3>1. after = "loop" /\ Phase = "open" /\ Phase' = "open"
      BY <1>0, <1>p, <1>q, <2>1, <2>3 DEF InSession
    <3>2. /\ calls # <<>> /\ calls[Len(calls)].result = None
          /\ out[1].result \in Results
          /\ out[1].result = "OK" => calls[Len(calls)].effect
          /\ out[1].result = "INVALID_PARAMS" => ~calls[Len(calls)].effect
      BY <1>0, <2>1, <2>3, AnsweredFacts DEF Commands, OneInHand, AnswerHonest, Pending
    <3>3. calls' = [calls EXCEPT ![Len(calls)].result = out[1].result]
      BY <2>3, Zenon DEF Answered
    <3> QED BY <3>1, <3>2, <3>3, Zenon DEF Session!Answer
  <2>4. CASE server' = after /\ calls' = Answered /\ out[1].t # "response"
    <3>1. calls' = calls
      BY <2>1, <2>4, AnsweredFacts
    <3>2. CASE after = "loop"
      <4>1. Phase = "open" /\ Phase' = "open"
        BY <1>p, <1>q, <2>1, <2>4, <3>2 DEF InSession
      <4> QED BY <3>1, <4>1
    <3>3. CASE after = "closed"
      <4>1. Phase # "over" /\ Phase' = "over"
        BY <1>p, <1>q, <2>1, <2>4, <3>3
      <4> QED BY <3>1, <4>1 DEF Session!End
    <3> QED BY <1>0, <3>2, <3>3
  <2> QED BY <2>1, <2>2, <2>3, <2>4
<1>4. CASE DispatchWorks
  <2>1. server = "dispatch" /\ server' = "dispatch"
        /\ calls' = [calls EXCEPT ![Len(calls)].effect = TRUE]
    BY <1>4, Zenon DEF DispatchWorks
  <2>2. Phase = "open" /\ Phase' = "open"
    BY <2>1, <1>p, <1>q DEF InSession
  <2>3. calls # <<>> /\ calls[Len(calls)].result = None
    BY <1>0, <2>1 DEF Commands, OneInHand, Pending
  <2> QED BY <2>1, <2>2, <2>3, Zenon DEF Session!Work
<1>5. CASE DispatchReturns \/ CommandTimeout
  <2>1. /\ server = "dispatch" /\ UNCHANGED calls
        /\ server' = "closed" \/ InSession'
    BY <1>5, RespondFacts DEF InSession
  <2>2. Phase = "open" /\ Phase' \in {"open", "over"}
    BY <2>1, <1>p, <1>q DEF InSession
  <2> QED BY <2>1, <2>2 DEF Session!End
<1>6. CASE server' = "closed" /\ UNCHANGED calls
  <2>1. Phase' = "over"
    BY <1>6, <1>q
  <2> QED BY <1>6, <2>1 DEF Session!End
<1>7. CASE server = "nonce" /\ server' = "hello" /\ UNCHANGED calls
  <2>1. Phase = "greeting" /\ Phase' = "greeting"
    BY <1>7, <1>p, <1>q DEF InSession
  <2> QED BY <1>7, <2>1
<1>8. CASE UNCHANGED serverVars
  <2>1. Phase' = Phase /\ calls' = calls
    BY <1>8 DEF serverVars, Phase
  <2> QED BY <2>1
<1>9. \/ ReadHello \/ HelloMissing \/ ReadRequest \/ RefuseRequest
      \/ SendFrame \/ SendToNobody
      \/ DispatchWorks \/ DispatchReturns \/ CommandTimeout
      \/ server' = "closed" /\ UNCHANGED calls
      \/ server = "nonce" /\ server' = "hello" /\ UNCHANGED calls
      \/ UNCHANGED serverVars
  BY Zenon DEF Next, ServerReads, ServerSends, ClientSteps, Terminated, Close, vars,
               DrawNonce, ReadOther, ReadEnd, IdleTimeout, TaskDropped, SendHello,
               ReadServerHello, HandshakeFails, SendRequest, ReadResponse, Drop,
               HalfClose, StrangerWrites, StrangerReads
<1> QED BY <1>1, <1>2, <1>3, <1>4, <1>5, <1>6, <1>7, <1>8, <1>9

\* A session that was just accepted has no command.
LEMMA CommandsInit == Init => Commands
BY DEF Init, Commands, OneInHand, AnswerHonest, Pending

-----------------------------------------------------------------------------
(* Every step keeps requests and answers in order.                         *)

\* The lengths that go with TailFacts and AppendFacts.
LEMMA LenFacts ==
    ASSUME NEW S, NEW q \in Seq(S)
    PROVE  /\ Len(q) \in Nat
           /\ q # <<>> => Len(q) >= 1 /\ Len(Tail(q)) = Len(q) - 1
           /\ q = <<>> <=> Len(q) = 0
           /\ \A e \in S : Len(Append(q, e)) = Len(q) + 1
OBVIOUS

\* The parts of the type invariant the steps below rest on.
LEMMA TypedParts ==
    ASSUME Typed
    PROVE  /\ to_server \in Seq(ToServerFrames) /\ to_client \in Seq(ToClientFrames)
           /\ out \in Seq(ToClientFrames) /\ greeted \in Seq(Versions)
           /\ calls \in Seq(Calls) /\ s_ver \in Versions /\ c_ver \in Versions
           /\ after \in {"loop", "closed"} /\ server \in ServerStates
           /\ client \in ClientStates /\ written \in Nat
           /\ server = "sending" => Len(out) = 1 /\ out[1] \in ToClientFrames
           /\ Pending => calls # <<>>
BY DEF Typed, StateTypeOK, CallPending, Pending

\* The steps of the daemon that neither say nor take up anything: the first
\* one, and those that end the task.
Fades ==
    /\ server' \in {"hello", "closed"}
    /\ \/ to_server' = to_server
       \/ /\ to_server # <<>> /\ Head(to_server).t # "request"
          /\ to_server' = Tail(to_server)
    /\ UNCHANGED <<to_client, greeted, calls, clientVars, c_ver, s_ver>>

\* The steps after which the app reads nothing any more, and those of a
\* stranger, whose answers are not recorded.
Leaves ==
    /\ \/ client' \in {"failed", "closed"}
       \/ client = "stranger" /\ client' = "stranger"
    /\ \/ to_client' \in {to_client, <<>>}
       \/ to_client # <<>> /\ to_client' = Tail(to_client)
    /\ verdict' \in {verdict, "timeout", "stream_ended"}
    /\ UNCHANGED <<serverVars, got, c_ver, s_ver>>

\* The steps of a connection, grouped by what they do to the order of
\* requests and answers.
LEMMA StepKinds ==
    ASSUME [Next]_vars
    PROVE  \/ ReadHello \/ HelloMissing
           \/ ReadRequest \/ RefuseRequest
           \/ SendFrame \/ SendToNobody
           \/ DispatchWorks \/ DispatchReturns \/ CommandTimeout
           \/ Fades
           \/ SendHello \/ ReadServerHello \/ SendRequest \/ ReadResponse
           \/ Leaves
           \/ UNCHANGED <<to_server, to_client, serverVars, clientVars, c_ver, s_ver>>
<1>1. DrawNonce \/ ReadOther \/ ReadEnd \/ IdleTimeout \/ TaskDropped => Fades
  BY Zenon DEF Fades, DrawNonce, ReadOther, ReadEnd, IdleTimeout, TaskDropped, Close, wire
<1>2. HandshakeFails \/ Drop \/ StrangerWrites \/ StrangerReads => Leaves
  BY Zenon DEF Leaves, HandshakeFails, Drop, StrangerWrites, StrangerReads, Fail, clientVars, wire
<1>3. HalfClose \/ Terminated \/ UNCHANGED vars =>
         UNCHANGED <<to_server, to_client, serverVars, clientVars, c_ver, s_ver>>
  BY Zenon DEF HalfClose, Terminated, vars, wire
<1> QED BY <1>1, <1>2, <1>3, Zenon DEF Next, ServerReads, ServerSends, ClientSteps

\* Until client_handshake returns, nothing but the two hellos is in the stream.
LEMMA QuietStep ==
    ASSUME Typed, Handshake, QuietHandshake, [Next]_vars
    PROVE  QuietHandshake'
<1> USE DEF QuietHandshake, Waiting
<1>0. /\ to_server \in Seq(ToServerFrames) /\ to_client \in Seq(ToClientFrames)
      /\ greeted \in Seq(Versions) /\ calls \in Seq(Calls)
      /\ server = "sending" => out[1] \in ToClientFrames
      /\ Pending => calls # <<>>
      /\ Len(to_server) \in Nat /\ Len(greeted) \in Nat
  BY TypedParts, LenFacts
<1>1. CASE ReadHello \/ HelloMissing
  <2>1. /\ UNCHANGED <<to_client, calls, clientVars, c_ver, s_ver>>
        /\ greeted = <<>>
    BY <1>1, GreetFacts DEF Handshake, ServerSide
  <2>2. \/ to_server' = to_server /\ greeted' = greeted
        \/ /\ to_server # <<>> /\ to_server' = Tail(to_server)
           /\ greeted' = greeted \/ \E v : greeted' = <<v>>
    BY <1>1, Zenon DEF ReadHello, HelloMissing, wire
  <2>3. Len(to_server') + Len(greeted') <= Len(to_server) + Len(greeted)
    <3>1. CASE greeted' = greeted
      BY <1>0, <2>2, <3>1, LenFacts
    <3>2. ASSUME NEW v, greeted' = <<v>>, to_server # <<>>, to_server' = Tail(to_server)
          PROVE  Len(to_server') + Len(greeted') <= Len(to_server) + Len(greeted)
      <4>1. Len(greeted') = 1 /\ Len(greeted) = 0
        BY <2>1, <3>2
      <4>2. Len(to_server') = Len(to_server) - 1
        BY <1>0, <3>2, LenFacts
      <4> QED BY <1>0, <4>1, <4>2
    <3> QED BY <2>2, <3>1, <3>2
  <2>4. Waiting => \A i \in 1..Len(to_server') : to_server'[i].t = "hello"
    BY <1>0, <2>2, TailFacts
  <2>5. Len(to_server') \in Nat /\ Len(greeted') \in Nat
    BY <1>0, <2>1, <2>2, LenFacts
  <2> QED BY <1>0, <2>1, <2>3, <2>4, <2>5 DEF clientVars
<1>2. CASE ReadRequest \/ RefuseRequest
  <2>1. to_server # <<>> /\ Head(to_server).t = "request"
    BY <1>2, ReadFacts
  <2>2. ~Waiting
    BY <1>0, <2>1, TailFacts
  <2>3. UNCHANGED <<clientVars, c_ver, s_ver>>
    BY <1>2, Zenon DEF ReadRequest, RefuseRequest
  <2> QED BY <2>2, <2>3 DEF clientVars
<1>3. CASE SendFrame \/ SendToNobody
  <2>1. /\ server = "sending"
        /\ UNCHANGED <<to_server, greeted, clientVars, c_ver, s_ver>>
        /\ calls' \in {calls, Answered}
        /\ to_client' \in {to_client, Append(to_client, out[1])}
    BY <1>3, Zenon DEF SendFrame, SendToNobody, wire
  <2>2. Waiting => out[1].t = "server_hello" /\ calls' = calls
    <3>1. Waiting => out[1].t # "response"
      BY <1>0, <2>1 DEF Pending
    <3> QED BY <1>0, <2>1, <3>1, AnsweredFacts, ToClientFields
  <2>3. Waiting => \A i \in 1..Len(to_client') : to_client'[i].t = "server_hello"
    <3>1. CASE to_client' = to_client
      BY <3>1
    <3>2. CASE to_client' = Append(to_client, out[1])
      <4>1. out[1] \in ToClientFrames
        BY <1>0, <2>1
      <4> QED BY <1>0, <2>2, <3>2, <4>1, AppendFacts
    <3> QED BY <2>1, <3>1, <3>2
  <2> QED BY <2>1, <2>2, <2>3 DEF clientVars
<1>4. CASE DispatchWorks \/ DispatchReturns \/ CommandTimeout
  <2>1. /\ server = "dispatch"
        /\ UNCHANGED <<to_server, to_client, greeted, clientVars, c_ver, s_ver>>
    BY <1>4, RespondFacts, Zenon DEF DispatchWorks, wire
  <2>2. ~Waiting
    BY <1>0, <2>1 DEF Pending
  <2> QED BY <2>1, <2>2 DEF clientVars
<1>5. CASE Fades
  <2>1. Len(to_server') <= Len(to_server) /\ Len(to_server') \in Nat
    BY <1>0, <1>5, LenFacts DEF Fades
  <2>2. Waiting => \A i \in 1..Len(to_server') : to_server'[i].t = "hello"
    BY <1>0, <1>5, TailFacts DEF Fades
  <2> QED BY <1>0, <1>5, <2>1, <2>2 DEF Fades, clientVars
<1>6. CASE SendHello
  <2>1. /\ client = "start" /\ client' \in {"await", "failed"}
        /\ to_server' \in {to_server, Append(to_server, Hello(c_ver))}
        /\ UNCHANGED <<to_client, eof, serverVars, c_minor, written, got, c_ver, s_ver>>
    BY <1>6, Zenon DEF SendHello, Fail
  <2>2. to_server = <<>> /\ greeted = <<>>
    BY <2>1 DEF Handshake, ClientSide
  <2>3. Hello(c_ver).t = "hello"
    BY Zenon DEF Hello
  <2>4. /\ Len(to_server') \in 0..1
        /\ \A i \in 1..Len(to_server') : to_server'[i].t = "hello"
    <3>1. CASE to_server' = to_server
      BY <2>2, <3>1
    <3>2. CASE to_server' = Append(to_server, Hello(c_ver))
      <4>1. Hello(c_ver) \in ToServerFrames
        BY TypedParts, ToServerTyped
      <4> HIDE DEF Hello
      <4> QED BY <1>0, <2>2, <2>3, <3>2, <4>1, AppendFacts, LenFacts
    <3> QED BY <2>1, <3>1, <3>2
  <2> QED BY <2>1, <2>2, <2>4 DEF serverVars
<1>7. CASE ReadServerHello \/ SendRequest \/ ReadResponse
  <2>1. client' \in {"ready", "failed"}
    BY <1>7, Zenon DEF ReadServerHello, SendRequest, ReadResponse
  <2> QED BY <2>1
<1>8. CASE Leaves
  BY <1>8 DEF Leaves
<1>9. CASE UNCHANGED <<to_server, to_client, serverVars, clientVars, c_ver, s_ver>>
  BY <1>9 DEF serverVars, clientVars
<1> QED BY <1>1, <1>2, <1>3, <1>4, <1>5, <1>6, <1>7, <1>8, <1>9, StepKinds

\* Before the app is told that the session is open, its Hello has been read,
\* the ServerHello is all the stream carries, and nothing else has been said.
LEMMA ReadyFacts ==
    ASSUME Typed, Handshake, Typed', Handshake', QuietHandshake,
           ReadServerHello, client' = "ready"
    PROVE  /\ to_server' = <<>> /\ to_client' = <<>>
           /\ calls' = <<>> /\ got' = <<>> /\ written' = 0
           /\ UNCHANGED serverVars
<1>0. /\ to_server \in Seq(ToServerFrames) /\ to_client \in Seq(ToClientFrames)
      /\ greeted \in Seq(Versions)
  BY TypedParts
<1>1. /\ client = "await" /\ to_client # <<>> /\ to_client' = Tail(to_client)
      /\ UNCHANGED <<to_server, eof, serverVars, written, got, c_ver, s_ver>>
      /\ c_minor' = Head(to_client).v.minor
      /\ HandshakeVerdict(Head(to_client), c_ver) = "ready"
  BY Zenon DEF ReadServerHello
<1>2. Len(greeted) = 1
  <2>1. Head(to_client) = to_client[1] /\ 1 \in 1..Len(to_client)
        /\ Head(to_client) \in ToClientFrames
    BY <1>0, <1>1, TailFacts
  <2>2. /\ HandshakeVerdict(Head(to_client), c_ver) = "ready" =>
              \/ Head(to_client).t = "server_hello" /\ Head(to_client).accepted
              \/ Head(to_client).t = "server_hello" /\ Head(to_client).reject = "ready"
    BY DEF HandshakeVerdict
  <2>3. Head(to_client).t = "server_hello" => Head(to_client).reject # "ready"
    BY <2>1, ToClientFields, ConnectionAssumption DEF RejectCodes
  <2>4. Truthful(to_client[1])
    BY <2>1 DEF Handshake, HelloFirst
  <2> QED BY <1>1, <2>1, <2>2, <2>3, <2>4 DEF Truthful
<1>3. /\ calls = <<>> /\ written = 0 /\ got = <<>>
      /\ Len(to_server) + Len(greeted) <= 1
      /\ \A i \in 1..Len(to_client) : to_client[i].t = "server_hello"
  BY <1>1 DEF QuietHandshake, Waiting
<1>4. to_server = <<>>
  BY <1>0, <1>2, <1>3, LenFacts
<1>5. to_client' = <<>>
  <2>1. ASSUME NEW i \in 1..Len(to_client), i > 1 PROVE FALSE
    BY <1>3, <2>1 DEF Handshake, HelloFirst
  <2>2. Tail(to_client) \in Seq(ToClientFrames) /\ Len(Tail(to_client)) = Len(to_client) - 1
        /\ Len(to_client) \in Nat /\ Len(to_client) >= 1
    BY <1>0, <1>1, LenFacts, TailFacts
  <2>3. Len(Tail(to_client)) = 0
    BY <2>1, <2>2
  <2> QED BY <1>1, <2>2, <2>3, LenFacts
<1> QED BY <1>1, <1>3, <1>4, <1>5 DEF serverVars

\* Requests reach the daemon in the order in which the app numbered them.
LEMMA RequestsStep ==
    ASSUME Typed, Typed', Handshake, Handshake', QuietHandshake, RequestsInOrder, [Next]_vars
    PROVE  RequestsInOrder'
<1> SUFFICES ASSUME client' = "ready" PROVE RequestsInOrder'
  BY DEF RequestsInOrder
<1>0. /\ to_server \in Seq(ToServerFrames) /\ to_client \in Seq(ToClientFrames)
      /\ calls \in Seq(Calls) /\ Len(to_server) \in Nat /\ Len(calls) \in Nat
      /\ written \in Nat
  BY TypedParts, LenFacts
<1>1. CASE ReadHello \/ HelloMissing
  <2>1. server = "hello" /\ UNCHANGED client
    BY <1>1, GreetFacts DEF clientVars
  <2> QED BY <2>1 DEF Handshake, ClientSide
<1>2. CASE ReadRequest \/ RefuseRequest
  <2>1. UNCHANGED clientVars
    BY <1>2, Zenon DEF ReadRequest, RefuseRequest
  <2>2. RequestsInOrder /\ client = "ready"
    BY <2>1 DEF clientVars
  <2>3. /\ to_server # <<>> /\ to_server' = Tail(to_server)
        /\ Len(calls') = Len(calls) + 1
        /\ \A i \in 1..Len(calls) : calls'[i] = calls[i]
        /\ calls'[Len(calls')].id = Head(to_server).id
    BY <1>2, ReadFacts
  <2>4. /\ written = Len(calls) + Len(to_server)
        /\ \A i \in 1..Len(calls) : calls[i].id = i
        /\ \A i \in 1..Len(to_server) :
              to_server[i].t = "request" /\ to_server[i].id = Len(calls) + i
    BY <2>2 DEF RequestsInOrder
  <2>5. Len(to_server') = Len(to_server) - 1 /\ Len(to_server) >= 1
    BY <1>0, <2>3, LenFacts
  <2>6. written' = Len(calls') + Len(to_server')
    BY <1>0, <2>1, <2>3, <2>4, <2>5 DEF clientVars
  <2>7. \A i \in 1..Len(calls') : calls'[i].id = i
    <3>1. Head(to_server).id = Len(calls) + 1
      BY <1>0, <2>3, <2>4, TailFacts
    <3>2. ASSUME NEW i \in 1..Len(calls') PROVE i \in 1..Len(calls) \/ i = Len(calls')
      BY <1>0, <2>3
    <3> QED BY <2>3, <2>4, <3>1, <3>2
  <2>8. \A i \in 1..Len(to_server') :
            to_server'[i].t = "request" /\ to_server'[i].id = Len(calls') + i
    <3> SUFFICES ASSUME NEW i \in 1..Len(to_server')
                 PROVE  to_server'[i].t = "request" /\ to_server'[i].id = Len(calls') + i
      OBVIOUS
    <3>1. i + 1 \in 1..Len(to_server) /\ to_server'[i] = to_server[i + 1]
      BY <1>0, <2>3, TailFacts
    <3>2. to_server[i + 1].t = "request" /\ to_server[i + 1].id = Len(calls) + (i + 1)
      BY <2>4, <3>1
    <3> QED BY <1>0, <2>3, <3>1, <3>2
  <2> QED BY <2>6, <2>7, <2>8 DEF RequestsInOrder
<1>3. CASE SendFrame \/ SendToNobody
  <2>1. /\ UNCHANGED <<to_server, clientVars>> /\ server = "sending"
        /\ calls' \in {calls, Answered}
    BY <1>3, Zenon DEF SendFrame, SendToNobody, wire
  <2>2. Len(calls') = Len(calls) /\ \A i \in 1..Len(calls) : calls'[i].id = calls[i].id
    BY <2>1, AnsweredFacts
  <2> QED BY <2>1, <2>2 DEF RequestsInOrder, clientVars
<1>4. CASE DispatchWorks
  <2>1. UNCHANGED <<to_server, clientVars>>
    BY <1>4, Zenon DEF DispatchWorks, wire
  <2>2. Len(calls') = Len(calls) /\ \A i \in 1..Len(calls) : calls'[i].id = calls[i].id
    BY <1>4, WorkedFacts
  <2> QED BY <2>1, <2>2 DEF RequestsInOrder, clientVars
<1>5. CASE DispatchReturns \/ CommandTimeout
  BY <1>5, RespondFacts DEF RequestsInOrder, wire, clientVars
<1>6. CASE Fades
  <2>1. RequestsInOrder /\ client = "ready" /\ UNCHANGED <<calls, written>>
    BY <1>6 DEF Fades, clientVars
  <2>2. to_server' = to_server
    BY <1>0, <1>6, <2>1, TailFacts DEF Fades, RequestsInOrder
  <2> QED BY <1>6, <2>1, <2>2 DEF RequestsInOrder
<1>7. CASE SendHello
  <2>1. client' \in {"await", "failed"}
    BY <1>7, Zenon DEF SendHello, Fail
  <2> QED BY <2>1
<1>8. CASE ReadServerHello
  <2>1. to_server' = <<>> /\ calls' = <<>> /\ written' = 0
    BY <1>8, ReadyFacts
  <2> QED BY <2>1 DEF RequestsInOrder
<1>9. CASE SendRequest
  <2>1. /\ client = "ready" /\ UNCHANGED serverVars /\ written' = written + 1
        /\ written < MaxRequests
        /\ \E valid \in BOOLEAN : to_server' = Append(to_server, Request(written + 1, valid))
    BY <1>9 DEF SendRequest
  <2>2. PICK valid \in BOOLEAN : to_server' = Append(to_server, Request(written + 1, valid))
    BY <2>1
  <2> DEFINE f == Request(written + 1, valid)
  <2>3. f.t = "request" /\ f.id = written + 1
    BY Zenon DEF Request
  <2>4. written + 1 \in Ids
    BY <1>0, <2>1, ConnectionAssumption DEF Ids
  <2>5. f \in ToServerFrames
    BY <2>4, ToServerTyped, Zenon
  <2> HIDE DEF f
  <2>6. Len(to_server') = Len(to_server) + 1
    BY <1>0, <2>2, <2>5, LenFacts DEF f
  <2>7. \A i \in 1..Len(to_server') :
            to_server'[i].t = "request" /\ to_server'[i].id = Len(calls) + i
    <3>1. ASSUME NEW i \in 1..Len(to_server')
          PROVE  \/ i \in 1..Len(to_server) /\ to_server'[i] = to_server[i]
                 \/ i = Len(to_server) + 1 /\ to_server'[i] = f
      BY <1>0, <2>2, <2>5, AppendFacts DEF f
    <3>2. written + 1 = Len(calls) + (Len(to_server) + 1)
      BY <1>0, <2>1 DEF RequestsInOrder
    <3> QED BY <2>1, <2>3, <3>1, <3>2 DEF RequestsInOrder
  <2>8. written' = Len(calls) + Len(to_server')
    BY <1>0, <2>1, <2>6 DEF RequestsInOrder
  <2> QED BY <2>1, <2>7, <2>8 DEF RequestsInOrder, serverVars
<1>10. CASE ReadResponse
  <2>1. client = "ready" /\ UNCHANGED <<to_server, serverVars, written>>
    BY <1>10, Zenon DEF ReadResponse
  <2> QED BY <2>1 DEF RequestsInOrder, serverVars
<1>11. CASE Leaves
  BY <1>11 DEF Leaves
<1>12. CASE UNCHANGED <<to_server, to_client, serverVars, clientVars, c_ver, s_ver>>
  BY <1>12 DEF RequestsInOrder, serverVars, clientVars
<1> QED BY <1>1, <1>2, <1>3, <1>4, <1>5, <1>6, <1>7, <1>8, <1>9, <1>10, <1>11, <1>12,
           StepKinds

\* Answers go back in the order of the commands, one for each.
LEMMA AnswersStep ==
    ASSUME Typed, Typed', Handshake, Handshake', Commands, QuietHandshake, AnswersInOrder,
           got \in Seq(Ids \X Results), [Next]_vars
    PROVE  AnswersInOrder'
<1> SUFFICES ASSUME client' = "ready" PROVE AnswersInOrder'
  BY DEF AnswersInOrder
<1>0. /\ to_client \in Seq(ToClientFrames) /\ calls \in Seq(Calls)
      /\ Len(to_client) \in Nat /\ Len(calls) \in Nat /\ Len(got) \in Nat
      /\ server = "sending" => out[1] \in ToClientFrames
      /\ Pending => Len(calls) >= 1
  <2>1. Len(got) \in Nat
    BY LenFacts
  <2> QED BY <2>1, TypedParts, LenFacts
<1>1. CASE ReadHello \/ HelloMissing
  <2>1. server = "hello" /\ UNCHANGED client
    BY <1>1, GreetFacts DEF clientVars
  <2> QED BY <2>1 DEF Handshake, ClientSide
<1>2. CASE ReadRequest \/ RefuseRequest
  <2>1. /\ server = "loop" /\ server' # "loop" /\ UNCHANGED <<to_client, clientVars>>
    BY <1>2, RefuseFacts DEF ReadRequest, RefuseRequest
  <2>2. /\ Len(calls') = Len(calls) + 1
        /\ \A i \in 1..Len(calls) : calls'[i] = calls[i]
    BY <1>2, ReadFacts
  <2>3. Len(got) + Len(to_client) = Len(calls)
    BY <2>1 DEF AnswersInOrder, clientVars
  <2>4. \A j \in 1..Len(to_client) : Len(got) + j \in 1..Len(calls)
    BY <1>0, <2>3
  <2>5. /\ Len(got) + Len(to_client) <= Len(calls')
        /\ Len(got) + Len(to_client) + 1 = Len(calls')
    BY <1>0, <2>2, <2>3
  <2> QED BY <2>1, <2>2, <2>4, <2>5 DEF AnswersInOrder, clientVars
<1>3. CASE SendFrame
  <2>1. /\ server = "sending" /\ server' = after /\ calls' = Answered
        /\ to_client' = Append(to_client, out[1]) /\ UNCHANGED clientVars
    BY <1>3, Zenon DEF SendFrame
  <2>2. client = "ready" /\ out[1].t = "response"
    BY <2>1 DEF Handshake, HelloFirst, clientVars
  <2>3. /\ Len(calls') = Len(calls)
        /\ \A i \in 1..Len(calls) : i # Len(calls) => calls'[i] = calls[i]
        /\ calls'[Len(calls)].id = out[1].id
        /\ calls'[Len(calls)].result = out[1].result
    BY <2>1, <2>2, AnsweredFacts DEF Commands, AnswerHonest
  <2>4. /\ Len(got) + Len(to_client) + 1 = Len(calls)
        /\ \A j \in 1..Len(to_client) :
              /\ to_client[j].id = calls[Len(got) + j].id
              /\ to_client[j].result = calls[Len(got) + j].result
    BY <2>1, <2>2 DEF AnswersInOrder, Pending
  <2>5. Len(to_client') = Len(to_client) + 1
    BY <1>0, <2>1, LenFacts
  <2>6. ASSUME NEW j \in 1..Len(to_client')
        PROVE  /\ to_client'[j].id = calls'[Len(got) + j].id
               /\ to_client'[j].result = calls'[Len(got) + j].result
    <3>1. CASE j \in 1..Len(to_client) /\ to_client'[j] = to_client[j]
      <4>1. Len(got) + j \in 1..Len(calls) /\ Len(got) + j # Len(calls)
        BY <1>0, <2>4, <3>1
      <4> QED BY <2>3, <2>4, <3>1, <4>1
    <3>2. CASE j = Len(to_client) + 1 /\ to_client'[j] = out[1]
      <4>1. Len(got) + j = Len(calls)
        BY <1>0, <2>4, <3>2
      <4> QED BY <2>3, <3>2, <4>1
    <3> QED BY <1>0, <2>1, <3>1, <3>2, AppendFacts
  <2>7. server' \in {"loop", "closed"}
    BY <2>1, TypedParts
  <2>8. Len(got) + Len(to_client') = Len(calls')
    BY <1>0, <2>3, <2>4, <2>5
  <2>9. Len(got) + Len(to_client') <= Len(calls')
    BY <1>0, <2>3, <2>8
  <2> QED BY <2>1, <2>6, <2>7, <2>8, <2>9 DEF AnswersInOrder, Pending, clientVars
<1>4. CASE SendToNobody
  BY <1>4 DEF SendToNobody, clientVars
<1>5. CASE DispatchWorks
  <2>1. server = "dispatch" /\ server' = "dispatch" /\ UNCHANGED <<to_client, clientVars>>
    BY <1>5, Zenon DEF DispatchWorks, wire
  <2>2. /\ Len(got) + Len(to_client) + 1 = Len(calls)
        /\ Len(got) + Len(to_client) <= Len(calls)
    BY <2>1 DEF AnswersInOrder, Pending, clientVars
  <2>3. /\ Len(calls') = Len(calls)
        /\ \A i \in 1..Len(calls) : i # Len(calls) => calls'[i] = calls[i]
    BY <1>5, WorkedFacts
  <2>4. \A j \in 1..Len(to_client) :
            Len(got) + j \in 1..Len(calls) /\ Len(got) + j # Len(calls)
    BY <1>0, <2>2
  <2> QED BY <2>1, <2>2, <2>3, <2>4 DEF AnswersInOrder, Pending, clientVars
<1>6. CASE DispatchReturns \/ CommandTimeout
  <2>1. /\ server = "dispatch" /\ server' \in {"sending", "closed"}
        /\ UNCHANGED <<to_client, calls, clientVars>>
    BY <1>6, RespondFacts DEF wire
  <2> QED BY <2>1 DEF AnswersInOrder, Pending, clientVars
<1>7. CASE Fades
  BY <1>7 DEF Fades, AnswersInOrder, Pending, clientVars
<1>8. CASE SendHello
  <2>1. client' \in {"await", "failed"}
    BY <1>8, Zenon DEF SendHello, Fail
  <2> QED BY <2>1
<1>9. CASE ReadServerHello
  <2>1. /\ to_client' = <<>> /\ calls' = <<>> /\ got' = <<>> /\ UNCHANGED serverVars
    BY <1>9, ReadyFacts
  <2>2. ~Pending'
    <3>1. Pending' => calls' # <<>>
      BY DEF Typed, CallPending, Pending
    <3> QED BY <2>1, <3>1
  <2> QED BY <2>1, <2>2 DEF AnswersInOrder
<1>10. CASE SendRequest
  <2>1. client = "ready" /\ UNCHANGED <<to_client, serverVars, got>>
    BY <1>10, Zenon DEF SendRequest
  <2> QED BY <2>1 DEF AnswersInOrder, Pending, serverVars
<1>11. CASE ReadResponse
  <2> DEFINE e == <<Head(to_client).id, Head(to_client).result>>
  <2>1. /\ client = "ready" /\ UNCHANGED serverVars
        /\ to_client # <<>> /\ to_client' = Tail(to_client) /\ got' = Append(got, e)
    BY <1>11, Zenon DEF ReadResponse
  <2>2. Len(got') = Len(got) + 1
    <3> HIDE DEF e
    <3> QED BY <2>1
  <2>3. Len(to_client') = Len(to_client) - 1 /\ Len(to_client) >= 1
    BY <1>0, <2>1, LenFacts
  <2>4. Len(got') + Len(to_client') = Len(got) + Len(to_client)
    BY <1>0, <2>2, <2>3
  <2>5. ASSUME NEW j \in 1..Len(to_client')
        PROVE  /\ to_client'[j].id = calls[Len(got') + j].id
               /\ to_client'[j].result = calls[Len(got') + j].result
    <3>1. j + 1 \in 1..Len(to_client) /\ to_client'[j] = to_client[j + 1]
      BY <1>0, <2>1, TailFacts
    <3>2. Len(got') + j = Len(got) + (j + 1)
      BY <1>0, <2>2
    <3> QED BY <2>1, <3>1, <3>2 DEF AnswersInOrder
  <2> QED BY <2>1, <2>4, <2>5 DEF AnswersInOrder, Pending, serverVars
<1>12. CASE Leaves
  BY <1>12 DEF Leaves
<1>13. CASE UNCHANGED <<to_server, to_client, serverVars, clientVars, c_ver, s_ver>>
  BY <1>13 DEF AnswersInOrder, Pending, serverVars, clientVars
<1> QED BY <1>1, <1>2, <1>3, <1>4, <1>5, <1>6, <1>7, <1>8, <1>9, <1>10, <1>11, <1>12,
           <1>13, StepKinds

\* What the app has read agrees with the calls of the daemon for good.
LEMMA ReadStep ==
    ASSUME Typed, Typed', Handshake, RequestsInOrder, AnswersInOrder, QuietHandshake,
           ReadStaysRead, got \in Seq(Ids \X Results), [Next]_vars
    PROVE  ReadStaysRead'
<1>0. /\ to_client \in Seq(ToClientFrames) /\ calls \in Seq(Calls)
      /\ Len(to_client) \in Nat /\ Len(calls) \in Nat /\ Len(got) \in Nat
  <2>1. Len(got) \in Nat
    BY LenFacts
  <2> QED BY <2>1, TypedParts, LenFacts
<1>1. ASSUME UNCHANGED got, Len(calls') \in Nat, Len(calls') >= Len(calls),
             Pending' => Len(got) < Len(calls'),
             \A i \in 1..Len(got) : calls'[i].id = calls[i].id
                                    /\ calls'[i].result = calls[i].result
      PROVE  ReadStaysRead'
  <2>1. Len(got) <= Len(calls')
    BY <1>0, <1>1 DEF ReadStaysRead
  <2>2. ResponsesInOrder'
    <3> SUFFICES ASSUME NEW i \in 1..Len(got)
                 PROVE  /\ i <= Len(calls')
                        /\ got[i] = <<calls'[i].id, calls'[i].result>>
                        /\ got[i][1] = i
      BY <1>1 DEF ResponsesInOrder
    <3>1. /\ got[i] = <<calls[i].id, calls[i].result>>
          /\ got[i][1] = i
      BY DEF ReadStaysRead, ResponsesInOrder
    <3>2. i <= Len(calls')
      BY <1>0, <1>1, <2>1
    <3> QED BY <1>1, <3>1, <3>2
  <2> QED BY <1>1, <2>1, <2>2 DEF ReadStaysRead
<1>2. ASSUME UNCHANGED <<got, calls>>, Pending' => Pending PROVE ReadStaysRead'
  BY <1>2 DEF ReadStaysRead, ResponsesInOrder
<1>3. CASE ReadHello \/ HelloMissing
  <2>1. Pending' = FALSE /\ UNCHANGED <<calls, got>>
    BY <1>3, GreetFacts DEF Pending, clientVars
  <2> QED BY <1>2, <2>1
<1>4. CASE ReadRequest \/ RefuseRequest
  <2>1. UNCHANGED got
    BY <1>4, Zenon DEF ReadRequest, RefuseRequest, clientVars
  <2>2. /\ Len(calls') = Len(calls) + 1
        /\ \A i \in 1..Len(calls) : calls'[i] = calls[i]
    BY <1>4, ReadFacts
  <2>3. Len(got) <= Len(calls)
    BY DEF ReadStaysRead
  <2>4. /\ Len(calls') \in Nat /\ Len(calls') >= Len(calls) /\ Len(got) < Len(calls')
        /\ \A i \in 1..Len(got) : i \in 1..Len(calls)
    BY <1>0, <2>2, <2>3
  <2> QED BY <1>1, <2>1, <2>2, <2>4
<1>5. CASE SendFrame \/ SendToNobody
  <2>1. /\ server = "sending" /\ server' \in {after, "closed"} /\ UNCHANGED got
        /\ calls' \in {calls, Answered}
    BY <1>5, Zenon DEF SendFrame, SendToNobody, clientVars
  <2>2. ~Pending'
    BY <2>1, TypedParts DEF Pending
  <2>3. /\ Len(calls') = Len(calls)
        /\ \A i \in 1..Len(got) : calls'[i] = calls[i]
    <3>1. CASE calls' = calls
      BY <3>1
    <3>2. CASE calls' = Answered /\ out[1].t # "response"
      BY <2>1, <3>2, AnsweredFacts
    <3>3. CASE calls' = Answered /\ out[1].t = "response"
      <4>1. Len(got) < Len(calls)
        BY <2>1, <3>3 DEF ReadStaysRead, Pending
      <4>2. \A i \in 1..Len(got) : i \in 1..Len(calls) /\ i # Len(calls)
        BY <1>0, <4>1
      <4> QED BY <2>1, <3>3, <4>2, AnsweredFacts
    <3> QED BY <2>1, <3>1, <3>2, <3>3
  <2> QED BY <1>0, <1>1, <2>1, <2>2, <2>3
<1>6. CASE DispatchWorks
  <2>1. server = "dispatch" /\ server' = "dispatch" /\ UNCHANGED got
    BY <1>6, Zenon DEF DispatchWorks, clientVars
  <2>2. Len(got) < Len(calls)
    BY <2>1 DEF ReadStaysRead, Pending
  <2>3. \A i \in 1..Len(got) : i \in 1..Len(calls) /\ i # Len(calls)
    BY <1>0, <2>2
  <2>4. /\ Len(calls') = Len(calls)
        /\ \A i \in 1..Len(got) : calls'[i] = calls[i]
    BY <1>6, <2>3, WorkedFacts
  <2> QED BY <1>0, <1>1, <2>1, <2>2, <2>4
<1>7. CASE DispatchReturns \/ CommandTimeout
  <2>1. server = "dispatch" /\ UNCHANGED <<calls, got>>
    BY <1>7, RespondFacts DEF clientVars
  <2> QED BY <1>2, <2>1 DEF Pending
<1>8. CASE Fades
  BY <1>2, <1>8 DEF Fades, Pending, clientVars
<1>9. CASE SendHello \/ ReadServerHello \/ SendRequest \/ Leaves
  <2>1. UNCHANGED <<serverVars, got>>
    BY <1>9, Zenon DEF SendHello, ReadServerHello, SendRequest, Leaves
  <2> QED BY <1>2, <2>1 DEF Pending, serverVars
<1>10. CASE ReadResponse
  <2> DEFINE r == Head(to_client)
             e == <<r.id, r.result>>
             n == Len(got) + 1
  <2>1. /\ client = "ready" /\ UNCHANGED serverVars
        /\ \/ UNCHANGED got
           \/ to_client # <<>> /\ got' = Append(got, e)
    BY <1>10, Zenon DEF ReadResponse
  <2>2. CASE UNCHANGED got
    BY <1>2, <2>1, <2>2 DEF Pending, serverVars
  <2>3. CASE to_client # <<>> /\ got' = Append(got, e)
    <3>1. /\ r = to_client[1] /\ 1 \in 1..Len(to_client) /\ Len(to_client) >= 1
          /\ r \in ToClientFrames
      BY <1>0, <2>3, TailFacts, LenFacts
    <3>2. r.id = calls[n].id /\ r.result = calls[n].result
      BY <2>1, <3>1 DEF AnswersInOrder
    <3>3. /\ n <= Len(calls) /\ (Pending => n < Len(calls))
      BY <1>0, <2>1, <3>1 DEF AnswersInOrder
    <3>4. r.id = n
      <4>1. n \in 1..Len(calls)
        BY <1>0, <3>3
      <4> QED BY <2>1, <3>2, <4>1 DEF RequestsInOrder
    <3>5. /\ Len(got') = n
          /\ \A i \in 1..Len(got') :
                \/ i \in 1..Len(got) /\ got'[i] = got[i]
                \/ i = n /\ got'[i] = e
      <4>1. r.t = "response"
        BY <2>1, <3>1 DEF Handshake, HelloFirst
      <4>2. r.id \in Ids /\ r.result \in Results
        BY <3>1, <4>1, ToClientFields
      <4>3. e \in Ids \X Results
        BY <4>2
      <4> HIDE DEF e
      <4> QED BY <2>3, <4>3, AppendFacts, LenFacts
    <3>6. UNCHANGED <<calls, server, out>>
      BY <2>1 DEF serverVars
    <3>7. ResponsesInOrder'
      <4> SUFFICES ASSUME NEW i \in 1..Len(got')
                   PROVE  /\ i <= Len(calls)
                          /\ got'[i] = <<calls[i].id, calls[i].result>>
                          /\ got'[i][1] = i
        BY <3>6 DEF ResponsesInOrder
      <4>1. CASE i \in 1..Len(got) /\ got'[i] = got[i]
        BY <4>1 DEF ReadStaysRead, ResponsesInOrder
      <4>2. CASE i = n /\ got'[i] = e
        <5>1. e = <<calls[n].id, calls[n].result>> /\ e[1] = n
          BY <3>2, <3>4
        <5> QED BY <3>3, <4>2, <5>1
      <4> QED BY <3>5, <4>1, <4>2
    <3> QED BY <3>3, <3>5, <3>6, <3>7 DEF ReadStaysRead, Pending
  <2> QED BY <2>1, <2>2, <2>3
<1>11. CASE UNCHANGED <<to_server, to_client, serverVars, clientVars, c_ver, s_ver>>
  BY <1>2, <1>11 DEF Pending, serverVars, clientVars
<1> QED BY <1>3, <1>4, <1>5, <1>6, <1>7, <1>8, <1>9, <1>10, <1>11, StepKinds

\* The answer to a Hello gives the reason that is true of the two versions
\* (server_handshake).
LEMMA HelloAnswerReasoned ==
    ASSUME NEW hello \in Versions, NEW own \in Versions
    PROVE  LET g == HelloAnswer(hello, own)
           IN  /\ g.t = "server_hello"
               /\ g.accepted => g.v.major = own.major
               /\ ~g.accepted => g.reject = "VERSION_UNSUPPORTED" /\ ~Accepts(hello, own)
<1>1. CASE Accepts(hello, own)
  <2> DEFINE v == [own EXCEPT !.minor = Negotiated(hello, own)]
  <2>1. v.major = own.major
    BY DEF Versions
  <2>2. HelloAnswer(hello, own) = ServerHello(TRUE, v, None)
    BY <1>1, Zenon DEF HelloAnswer
  <2> HIDE DEF v
  <2>3. /\ HelloAnswer(hello, own).t = "server_hello"
        /\ HelloAnswer(hello, own).accepted = TRUE /\ HelloAnswer(hello, own).v = v
    BY <2>2 DEF ServerHello
  <2> QED BY <2>1, <2>3, Zenon
<1>2. CASE ~Accepts(hello, own)
  <2>1. HelloAnswer(hello, own) = ServerHello(FALSE, own, "VERSION_UNSUPPORTED")
    BY <1>2, Zenon DEF HelloAnswer
  <2>2. /\ HelloAnswer(hello, own).t = "server_hello"
        /\ HelloAnswer(hello, own).accepted = FALSE
        /\ HelloAnswer(hello, own).reject = "VERSION_UNSUPPORTED"
    BY <2>1 DEF ServerHello
  <2> QED BY <1>2, <2>2, Zenon
<1> QED BY <1>1, <1>2

\* The reasons the daemon gives, and the ones client_handshake reports, stay
\* true.
LEMMA ReasonsStep ==
    ASSUME Typed, Handshake, Handshake', QuietHandshake, Reasons, [Next]_vars
    PROVE  Reasons'
<1>0. /\ to_server \in Seq(ToServerFrames) /\ to_client \in Seq(ToClientFrames)
      /\ greeted \in Seq(Versions) /\ s_ver \in Versions /\ c_ver \in Versions
      /\ server = "sending" => out[1] \in ToClientFrames
  BY TypedParts
<1>1. CASE ReadHello
  <2> DEFINE f == Head(to_server)
  <2>1. /\ server = "hello" /\ to_server # <<>> /\ f = to_server[1] /\ 1 \in 1..Len(to_server)
        /\ f \in ToServerFrames
        /\ UNCHANGED <<to_client, clientVars, c_ver, s_ver>>
    BY <1>0, <1>1, TailFacts DEF ReadHello
  <2>2. to_client = <<>>
    BY <2>1 DEF Handshake, ServerSide
  <2>3. Reasoned(out[1])'
    <3>1. CASE f.t = "hello"
      <4> DEFINE g == HelloAnswer(f.v, s_ver)
                 next == IF Accepts(f.v, s_ver) THEN "loop" ELSE "closed"
      <4>1. Send(g, next) /\ greeted' = <<f.v>>
        BY <1>1, <3>1, Zenon DEF ReadHello
      <4>2. f.v \in Versions
        BY <2>1, <3>1, ToServerFields
      <4>3. /\ g.t = "server_hello"
            /\ g.accepted => g.v.major = s_ver.major
            /\ ~g.accepted => g.reject = "VERSION_UNSUPPORTED" /\ ~Accepts(f.v, s_ver)
        BY <1>0, <4>2, HelloAnswerReasoned, Zenon
      <4> HIDE DEF g, next, f
      <4>4. out'[1] = g
        BY <4>1 DEF Send
      <4>5. Len(greeted') = 1 /\ greeted'[1] = f.v
        BY <4>1
      <4>6. s_ver' = s_ver
        BY <2>1
      <4> QED BY <4>3, <4>4, <4>5, <4>6 DEF Reasoned, RejectCodes
    <3>2. CASE f.t # "hello"
      <4> DEFINE g == ServerHello(FALSE, s_ver, RejectCode(f))
      <4>1. Send(g, "closed")
        BY <1>1, <3>2, Zenon DEF ReadHello
      <4>2. g.accepted = FALSE /\ g.reject = RejectCode(f)
        BY Zenon DEF ServerHello
      <4>3. ~Waiting /\ ~Waiting'
        BY <2>1, <3>2 DEF QuietHandshake, Waiting, clientVars
      <4>4. RejectCode(f) \in RejectCodes /\ RejectCode(f) # "VERSION_UNSUPPORTED"
        BY DEF RejectCode, RejectCodes
      <4> HIDE DEF g, f
      <4>5. out'[1] = g
        BY <4>1 DEF Send
      <4> QED BY <4>2, <4>3, <4>4, <4>5 DEF Reasoned
    <3> QED BY <3>1, <3>2
  <2> QED BY <2>1, <2>2, <2>3 DEF Reasons, VerdictTruthful, clientVars
<1>2. CASE HelloMissing
  <2> DEFINE g == ServerHello(FALSE, s_ver, "HANDSHAKE_REQUIRED")
  <2>1. Send(g, "closed") /\ UNCHANGED <<to_client, greeted, clientVars, c_ver, s_ver>>
    BY <1>2, Zenon DEF HelloMissing, wire
  <2>2. g.accepted = FALSE /\ g.reject = "HANDSHAKE_REQUIRED"
    BY Zenon DEF ServerHello
  <2> HIDE DEF g
  <2>3. out'[1] = g
    BY <2>1 DEF Send
  <2>4. Reasoned(out[1])'
    BY <2>2, <2>3 DEF Reasoned, RejectCodes
  <2> QED BY <2>1, <2>4 DEF Reasons, Reasoned, Waiting, VerdictTruthful, clientVars
<1>3. ASSUME UNCHANGED <<greeted, c_ver, s_ver, verdict>>, Waiting' => Waiting,
             \A i \in 1..Len(to_client') : \E j \in 1..Len(to_client) :
                 to_client'[i] = to_client[j],
             server' = "sending" => \/ server = "sending" /\ out' = out
                                    \/ out'[1].t = "response"
      PROVE  Reasons'
  BY <1>3 DEF Reasons, Reasoned, VerdictTruthful
<1>4. CASE ReadRequest \/ RefuseRequest \/ DispatchWorks \/ DispatchReturns \/ CommandTimeout
  <2>1. UNCHANGED <<to_client, greeted, c_ver, s_ver, clientVars>>
    BY <1>4, Zenon DEF ReadRequest, RefuseRequest, DispatchWorks, DispatchReturns,
                       CommandTimeout, wire
  <2>2. server' = "sending" => out'[1].t = "response"
    <3>1. CASE ReadRequest \/ DispatchWorks
      BY <3>1 DEF ReadRequest, DispatchWorks
    <3> QED BY <1>4, <3>1, RefuseFacts, RespondFacts
  <2>3. UNCHANGED verdict /\ (Waiting' => Waiting)
    BY <2>1 DEF clientVars, Waiting
  <2> QED BY <1>3, <2>1, <2>2, <2>3
<1>5. CASE Fades
  <2>1. server' # "sending" /\ UNCHANGED <<to_client, greeted, c_ver, s_ver, clientVars>>
    BY <1>5 DEF Fades
  <2> QED BY <1>3, <2>1 DEF clientVars, Waiting
<1>6. CASE SendFrame \/ SendToNobody
  <2>1. /\ server = "sending" /\ server' \in {after, "closed"}
        /\ to_client' \in {to_client, Append(to_client, out[1])}
        /\ UNCHANGED <<greeted, c_ver, s_ver, clientVars>>
    BY <1>6, Zenon DEF SendFrame, SendToNobody, wire
  <2>2. server' # "sending"
    BY <2>1, TypedParts
  <2>3. \A i \in 1..Len(to_client') : Reasoned(to_client[i])'
    <3> SUFFICES ASSUME NEW i \in 1..Len(to_client') PROVE Reasoned(to_client[i])'
      OBVIOUS
    <3>1. \/ i \in 1..Len(to_client) /\ to_client'[i] = to_client[i]
          \/ to_client'[i] = out[1]
      <4>1. CASE to_client' = to_client
        BY <4>1
      <4>2. CASE to_client' = Append(to_client, out[1])
        BY <1>0, <2>1, <4>2, AppendFacts
      <4> QED BY <2>1, <4>1, <4>2
    <3> QED BY <2>1, <3>1 DEF Reasons, Reasoned, Waiting, clientVars
  <2> QED BY <2>1, <2>2, <2>3 DEF Reasons, VerdictTruthful, clientVars
<1>7. CASE SendHello \/ Leaves \/ SendRequest \/ ReadResponse
  <2>1. /\ UNCHANGED <<serverVars, c_ver, s_ver>> /\ (Waiting' => Waiting)
        /\ verdict' \in {verdict, "send", "timeout", "stream_ended"}
        /\ \/ to_client' \in {to_client, <<>>}
           \/ to_client # <<>> /\ to_client' = Tail(to_client)
    <3>1. CASE SendHello
      BY <3>1 DEF SendHello, Fail, Waiting
    <3>2. CASE SendRequest \/ ReadResponse
      BY <3>2 DEF SendRequest, ReadResponse, Waiting
    <3>3. CASE Leaves
      BY <3>3 DEF Leaves, Waiting
    <3> QED BY <1>7, <3>1, <3>2, <3>3
  <2>2. \A i \in 1..Len(to_client') : \E j \in 1..Len(to_client) :
            to_client'[i] = to_client[j]
    <3>1. CASE to_client' = to_client \/ to_client' = <<>>
      BY <3>1
    <3>2. CASE to_client # <<>> /\ to_client' = Tail(to_client)
      BY <1>0, <3>2, TailFacts
    <3> QED BY <2>1, <3>1, <3>2
  <2>3. \A i \in 1..Len(to_client') : Reasoned(to_client[i])'
    BY <2>1, <2>2 DEF Reasons, Reasoned, serverVars
  <2> QED BY <2>1, <2>3 DEF Reasons, Reasoned, VerdictTruthful, serverVars
<1>8. CASE ReadServerHello
  <2> DEFINE sh == Head(to_client)
  <2>1. /\ client = "await" /\ to_client # <<>> /\ to_client' = Tail(to_client)
        /\ verdict' = HandshakeVerdict(sh, c_ver)
        /\ client' \in {"ready", "failed"}
        /\ UNCHANGED <<serverVars, c_ver, s_ver>>
    BY <1>8, Zenon DEF ReadServerHello
  <2>2. sh = to_client[1] /\ 1 \in 1..Len(to_client)
    BY <1>0, <2>1, TailFacts
  <2>3. /\ sh.t = "server_hello" /\ Reasoned(sh) /\ Truthful(sh) /\ Waiting
        /\ Len(greeted) = 1 => greeted[1] = c_ver
    BY <2>1, <2>2 DEF Reasons, QuietHandshake, Waiting, Handshake, HelloFirst, ClientSide
  <2>6. VerdictTruthful'
    <3>4. CASE sh.accepted
      <4>1. c_ver.major = s_ver.major /\ sh.v.major = s_ver.major
        BY <2>3, <3>4 DEF Reasoned, Truthful, Accepts
      <4>2. verdict' = "ready"
        BY <2>1, <2>3, <3>4, <4>1 DEF HandshakeVerdict
      <4> QED BY <2>1, <4>1, <4>2 DEF VerdictTruthful
    <3>5. CASE ~sh.accepted
      <4>1. verdict' = sh.reject
        BY <2>1, <2>3, <3>5 DEF HandshakeVerdict
      <4>2. /\ sh.reject \in RejectCodes \ {"FRAME_TOO_LARGE", "MALFORMED_FRAME"}
            /\ sh.reject = "VERSION_UNSUPPORTED" => c_ver.major # s_ver.major
        BY <2>3, <3>5 DEF Reasoned, Accepts
      <4> HIDE DEF sh
      <4> QED BY <2>1, <4>1, <4>2 DEF VerdictTruthful, RejectCodes
    <3> QED BY <3>4, <3>5
  <2>7. \A i \in 1..Len(to_client') : Reasoned(to_client[i])'
    <3>1. \A i \in 1..Len(to_client') : \E j \in 1..Len(to_client) :
              to_client'[i] = to_client[j]
      BY <1>0, <2>1, TailFacts
    <3> QED BY <2>1, <3>1 DEF Reasons, Reasoned, Waiting, serverVars
  <2> QED BY <2>1, <2>6, <2>7 DEF Reasons, Reasoned, Waiting, serverVars
<1>9. CASE UNCHANGED <<to_server, to_client, serverVars, clientVars, c_ver, s_ver>>
  BY <1>9 DEF Reasons, Reasoned, Waiting, VerdictTruthful, serverVars, clientVars
<1> QED BY <1>1, <1>2, <1>4, <1>5, <1>6, <1>7, <1>8, <1>9, StepKinds

-----------------------------------------------------------------------------
(* The theorems about the session.                                         *)

SessionInv == ConnectionInv /\ Commands /\ Ordered /\ Reasons

\* The session's invariant holds of every connection.
LEMMA SessionInvariant == Spec => []SessionInv
<1>1. Init => SessionInv
  <2> SUFFICES ASSUME Init PROVE SessionInv
    OBVIOUS
  <2>1. ConnectionInv
    <3>1. got \in Seq(Ids \X Results)
      BY DEF Init
    <3> QED BY <3>1, TypedInit, HandshakeInit DEF ConnectionInv
  <2>2. Ordered
    BY DEF Init, Ordered, QuietHandshake, Waiting, RequestsInOrder, AnswersInOrder,
           ReadStaysRead, ResponsesInOrder, Pending
  <2>3. Reasons
    BY ConnectionAssumption DEF Init, Reasons, VerdictTruthful
  <2> QED BY <2>1, <2>2, <2>3, CommandsInit DEF SessionInv
<1>2. SessionInv /\ [Next]_vars => SessionInv'
  <2> SUFFICES ASSUME SessionInv, [Next]_vars PROVE SessionInv'
    OBVIOUS
  <2>1. Typed /\ Handshake /\ Typed' /\ Handshake' /\ got \in Seq(Ids \X Results)
        /\ ConnectionInv'
    BY TypedStep, HandshakeStep, GotStep DEF SessionInv, ConnectionInv
  <2>2. Commands'
    BY <2>1, CommandsStep DEF SessionInv
  <2>3. QuietHandshake' /\ RequestsInOrder'
    BY <2>1, QuietStep, RequestsStep DEF SessionInv, Ordered
  <2>4. AnswersInOrder' /\ ReadStaysRead'
    BY <2>1, AnswersStep, ReadStep DEF SessionInv, Ordered
  <2>5. Reasons'
    BY <2>1, ReasonsStep DEF SessionInv, Ordered
  <2> QED BY <2>1, <2>2, <2>3, <2>4, <2>5 DEF SessionInv, Ordered
<1> QED BY <1>1, <1>2, PTL DEF Spec

\* The connection is a CommandSession: whatever a peer writes and whichever
\* timer fires, commands are taken one at a time inside an open session, and
\* each is answered at most once and truthfully (handle_conn_with_nonce).
THEOREM RefinesSession == Spec => ImplementsSession
<1>1. Init => Session!SessionInit
  BY DEF Init, Session!SessionInit, Phase
<1>2. SessionInv /\ [Next]_vars => [Session!SessionNext]_(Session!sessionVars)
  BY TypedStep, SessionStep DEF SessionInv, ConnectionInv
<1> QED BY <1>1, <1>2, SessionInvariant, PTL
        DEF Spec, ImplementsSession, Session!SessionSpec

\* However many requests an app has in flight, the i-th response it reads is
\* the daemon's answer to the i-th request it sent (the loop of
\* handle_conn_with_nonce sends each response before it reads on).
THEOREM AnswersMatchRequests == Spec => []ResponsesInOrder
<1>1. SessionInv => ResponsesInOrder
  BY DEF SessionInv, Ordered, ReadStaysRead
<1> QED BY <1>1, SessionInvariant, PTL

\* client_handshake reports the true reason, for every pair of versions and
\* whatever deadline races the Hello (client_handshake, server_handshake).
THEOREM VerdictsAreTrue == Spec => []VerdictTruthful
<1>1. SessionInv => VerdictTruthful
  BY DEF SessionInv, Reasons
<1> QED BY <1>1, SessionInvariant, PTL
=============================================================================
