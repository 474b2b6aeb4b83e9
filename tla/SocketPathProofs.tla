-------------------------- MODULE SocketPathProofs --------------------------
(***************************************************************************)
(* Who a socket path leads to, in the two places where processes of this   *)
(* code contend for one: the daemons that bind the privileged endpoint     *)
(* (LocalEndpoint) and the launches that claim to be the single instance   *)
(* (SingleInstance).  The two specifications share no variable.  Both      *)
(* arguments are about a file that names a socket for longer than anybody  *)
(* listens on it, and about what an earlier system call is still worth.    *)
(***************************************************************************)
EXTENDS LocalEndpoint, SingleInstance, TLAPS

-----------------------------------------------------------------------------
(* The endpoint: the inductive invariant                                   *)

Places == {"down", "dir", "exists", "remove", "bind", "rebind", "chmod", "up"}
Sockets == [there : BOOLEAN, owner : Daemons \cup {None},
            mode : {"default", "everyone", "owner"}]
Counts == [starts : Nat, commands : Nat, faults : Nat, deaths : Nat]
LinkStates == {"idle", "queued", "left", "admitted", "refused", "gone"}
Connections == [st : LinkStates, to : Daemons \cup {None}]

EndpointTyped ==
    /\ platform \in {"linux", "windows"} /\ policy \in BOOLEAN
    /\ at \in [Daemons -> Places]
    /\ sock \in Sockets
    /\ pending \in [Daemons -> {"none", "free", "connected"}]
    /\ link \in [Clients -> Connections]
    /\ last \in Daemons \cup {None} /\ orphaned \in BOOLEAN
    /\ count \in Counts

\* A path that is not there belongs to nobody; on Windows a daemon is never
\* between two calls on the file system, and who has an instance of the pipe,
\* free or in a client's hands, serves.
EndpointShape ==
    /\ ~sock.there => sock = NoSocket
    /\ platform = "windows" =>
         \A d \in Daemons :
            /\ at[d] \in {"down", "bind", "up"}
            /\ Instances(d) => at[d] = "up"

\* The path is the socket of the daemon that bound last for as long as it
\* lives and nobody removes the path; who removed it is about to bind, or died.
PathLeads ==
    platform = "linux" =>
        \A d \in Daemons :
            /\ sock.owner = d => last = d /\ at[d] \in {"chmod", "up"}
            /\ sock.owner = d /\ at[d] = "up" => sock.mode = SocketModes
            /\ last = d /\ at[d] \in {"chmod", "up"} =>
                 IF sock.there THEN sock.owner = d
                               ELSE orphaned \/ \E e \in Daemons : at[e] = "rebind"

\* While nobody is killed or stopped, what makes a call of one daemon's bind
\* fail is a step of the other, which by then is past the point where the
\* first could disturb it.
RaceHasWinner ==
    count.deaths = 0 =>
        /\ count.starts > 0 => \E d \in Daemons : at[d] # "down"
        /\ platform = "linux" =>
             \A d, e \in Daemons : d # e =>
                /\ at[d] \in {"remove", "chmod"} /\ ~sock.there => at[e] = "rebind"
                /\ at[d] \in {"bind", "rebind"} /\ sock.there => at[e] \in {"chmod", "up"}

EndpointInv == EndpointTyped /\ EndpointShape /\ PathLeads /\ RaceHasWinner

-----------------------------------------------------------------------------
\* Two daemons that are down, with a path from an earlier run or none.
LEMMA EndpointInit == Init => EndpointInv
<1> SUFFICES ASSUME Init PROVE EndpointInv
  OBVIOUS
<1> USE EndpointAssumption DEF Init, None
<1>1. EndpointTyped
  <2>1. sock \in Sockets /\ count \in Counts
    <3>1. NoSocket \in Sockets
      BY DEF Sockets, NoSocket
    <3>2. [NoSocket EXCEPT !.there = TRUE] \in Sockets
      BY DEF Sockets, NoSocket
    <3>3. count \in Counts
      BY DEF Counts
    <3> QED
      BY <3>1, <3>2, <3>3
  <2>2. NoLink \in Connections
    BY DEF NoLink, Connections, LinkStates
  <2> QED
    BY <2>1, <2>2 DEF EndpointTyped, Places
<1>2. EndpointShape
  <2>1. \A d \in Daemons : ~Instances(d)
    BY DEF Instances, NoLink, Daemons
  <2> QED
    BY <2>1 DEF EndpointShape, NoSocket
<1>3. PathLeads /\ RaceHasWinner
  BY DEF PathLeads, RaceHasWinner, NoSocket, Daemons
<1> QED
  BY <1>1, <1>2, <1>3 DEF EndpointInv

\* A process that ends takes its instances with it and leaves a dead path; if
\* it had just removed the path of somebody else, that one is orphaned.
LEMMA DiesKeeps ==
    ASSUME EndpointInv, NEW d \in Daemons, Dies(d),
           UNCHANGED <<platform, policy, last>>, count' \in Counts
    PROVE  EndpointTyped' /\ EndpointShape' /\ PathLeads' /\ sock'.there = sock.there
<1> USE EndpointAssumption DEF None
<1>1. sock' \in Sockets /\ sock'.there = sock.there /\ sock'.mode = sock.mode
      /\ sock'.owner = (IF sock.owner = d THEN None ELSE sock.owner)
  BY DEF Dies, EndpointInv, EndpointTyped, Sockets
<1>2. NoLink \in Connections /\ NoLink.to = None
  BY DEF NoLink, Connections, LinkStates
<1>3. EndpointTyped'
  <2>1. at' \in [Daemons -> Places] /\ pending' \in [Daemons -> {"none", "free", "connected"}]
    BY DEF Dies, EndpointInv, EndpointTyped, Places
  <2>2. link' \in [Clients -> Connections]
    BY <1>2 DEF Dies, EndpointInv, EndpointTyped
  <2> QED
    BY <1>1, <2>1, <2>2 DEF Dies, EndpointInv, EndpointTyped
<1>4. EndpointShape'
  <2>1. ~sock'.there => sock' = NoSocket
    <3>1. NoSocket.owner # d
      BY DEF NoSocket, Daemons
    <3> QED
      BY <1>1, <3>1 DEF Dies, EndpointInv, EndpointShape
  <2>2. ASSUME platform = "windows", NEW e \in Daemons
        PROVE  at'[e] \in {"down", "bind", "up"} /\ (Instances(e)' => at'[e] = "up")
    <3>1. CASE e = d
      <4>1. at'[d] = "down" /\ pending'[d] = "none"
        BY DEF Dies, EndpointInv, EndpointTyped
      <4>2. \A c \in Clients : link'[c].to # d
        BY <1>2 DEF Dies, EndpointInv, EndpointTyped, Daemons
      <4> QED
        BY <3>1, <4>1, <4>2 DEF Instances
    <3>2. CASE e # d
      <4>1. at'[e] = at[e] /\ pending'[e] = pending[e]
        BY <3>2 DEF Dies, EndpointInv, EndpointTyped
      <4>2. \A c \in Clients : link'[c].to = e => link[c].to = e
        BY <1>2 DEF Dies, EndpointInv, EndpointTyped, Daemons
      <4> QED
        BY <2>2, <4>1, <4>2 DEF Instances, EndpointInv, EndpointShape
    <3> QED
      BY <3>1, <3>2
  <2> QED
    BY <2>1, <2>2 DEF EndpointShape
<1>5. PathLeads'
  <2>1. orphaned' = (orphaned \/ (at[d] = "rebind" /\ ~sock.there))
    BY DEF Dies
  <2>2. at' = [at EXCEPT ![d] = "down"]
    BY DEF Dies
  <2> QED
    BY <1>1, <1>3, <2>1, <2>2
       DEF EndpointInv, EndpointTyped, PathLeads, SocketModes, Daemons
<1> QED
  BY <1>1, <1>3, <1>4, <1>5

\* What giving up, on a call that failed, does to the race.
LEMMA GivesUpKeeps ==
    ASSUME EndpointInv, NEW d \in Daemons, GivesUp(d), UNCHANGED <<platform, policy>>,
           \/ platform = "linux" /\ at[d] \in {"remove", "chmod"} /\ ~sock.there
           \/ platform = "linux" /\ at[d] \in {"bind", "rebind"} /\ sock.there
           \/ platform = "windows" /\ at[d] = "bind" /\ \E e \in Daemons : Instances(e)
    PROVE  EndpointInv'
<1>1. count' = count /\ count \in Counts /\ last' = last /\ Dies(d)
  BY DEF GivesUp, EndpointInv, EndpointTyped
<1>2. EndpointTyped' /\ EndpointShape' /\ PathLeads' /\ sock'.there = sock.there
  BY <1>1, DiesKeeps
<1>3. at' = [at EXCEPT ![d] = "down"]
  BY <1>1 DEF Dies
<1>4. RaceHasWinner'
  <2>1. CASE platform = "linux"
    BY <1>1, <1>2, <1>3, <2>1, EndpointAssumption
       DEF EndpointInv, EndpointTyped, RaceHasWinner, Daemons
  <2>2. CASE platform = "windows"
    <3>1. PICK e \in Daemons : Instances(e)
      BY <2>2
    <3>2. at[e] = "up" /\ at[d] = "bind"
      BY <2>2, <3>1 DEF EndpointInv, EndpointShape
    <3>3. at'[e] = "up"
      BY <1>3, <3>2 DEF EndpointInv, EndpointTyped
    <3> QED
      BY <2>2, <3>3 DEF RaceHasWinner
  <2> QED
    BY <2>1, <2>2
<1> QED
  BY <1>2, <1>4 DEF EndpointInv

\* A death is no race: killed, stopped by the unit, or stopped while down.
LEMMA DeathKeeps ==
    ASSUME EndpointInv, NEW d \in Daemons, Dies(d), UNCHANGED <<platform, policy, last>>,
           count' \in Counts, count'.starts = count.starts,
           \/ count'.deaths # 0
           \/ at[d] = "down" /\ count'.deaths = count.deaths
    PROVE  EndpointInv'
<1>1. EndpointTyped' /\ EndpointShape' /\ PathLeads' /\ sock'.there = sock.there
  BY DiesKeeps
<1>2. RaceHasWinner'
  <2>1. CASE count'.deaths # 0
    BY <2>1 DEF RaceHasWinner
  <2>2. CASE at[d] = "down" /\ count'.deaths = count.deaths
    <3>1. at' = at
      BY <2>2 DEF Dies, EndpointInv, EndpointTyped
    <3> QED
      BY <1>1, <2>2, <3>1 DEF EndpointInv, RaceHasWinner
  <2> QED
    BY <2>1, <2>2
<1> QED
  BY <1>1, <1>2 DEF EndpointInv

\* A daemon that was down and starts disturbs nobody yet.
LEMMA StartKeeps ==
    ASSUME EndpointInv, NEW d \in Daemons, Starts(d), count' \in Counts,
           count'.deaths = count.deaths,
           UNCHANGED <<platform, policy, sock, pending, link, last, orphaned>>
    PROVE  EndpointInv'
<1> USE EndpointAssumption
<1>1. at[d] = "down" /\ at' = [at EXCEPT ![d] = IF platform = "linux" THEN "dir" ELSE "bind"]
  BY DEF Starts
<1>2. EndpointTyped'
  BY <1>1 DEF EndpointInv, EndpointTyped, Places
<1>3. EndpointShape'
  BY <1>1 DEF EndpointInv, EndpointTyped, EndpointShape, Instances
<1>4. PathLeads'
  BY <1>1 DEF EndpointInv, EndpointTyped, PathLeads, SocketModes, Daemons
<1>5. RaceHasWinner'
  BY <1>1 DEF EndpointInv, EndpointTyped, RaceHasWinner, Daemons
<1> QED
  BY <1>2, <1>3, <1>4, <1>5 DEF EndpointInv

-----------------------------------------------------------------------------
(* The steps of bind and of the clients                                    *)

\* The system calls of bind on Unix (transport/linux.rs).
LEMMA UnixBindKeeps ==
    ASSUME EndpointInv, NEW d \in Daemons,
           PrepareDirectory(d) \/ PathExists(d) \/ RemovePath(d) \/ UnixBind(d) \/ SetMode(d)
    PROVE  EndpointInv'
<1> USE EndpointAssumption DEF BindEnv, Goes
<1>0. platform = "linux" /\ at[d] # "down" /\ UNCHANGED <<platform, policy>>
  BY DEF PrepareDirectory, PathExists, RemovePath, UnixBind, SetMode, EndpointInv,
     EndpointTyped, EndpointShape
<1>1. CASE PrepareDirectory(d) \/ PathExists(d)
  <2>1. EndpointTyped'
    BY <1>1 DEF PrepareDirectory, PathExists, EndpointInv, EndpointTyped, Places
  <2>2. EndpointShape'
    BY <1>0, <1>1 DEF PrepareDirectory, PathExists, EndpointInv, EndpointShape
  <2>3. PathLeads'
    BY <1>0, <1>1 DEF PrepareDirectory, PathExists, EndpointInv, EndpointTyped, PathLeads,
       SocketModes, Daemons
  <2>4. RaceHasWinner'
    BY <1>0, <1>1 DEF PrepareDirectory, PathExists, EndpointInv, EndpointTyped,
       RaceHasWinner, Daemons
  <2> QED
    BY <2>1, <2>2, <2>3, <2>4 DEF EndpointInv
<1>2. CASE at[d] = "remove" /\ sock.there /\ sock' = NoSocket /\ Goes(d, "rebind")
           /\ UNCHANGED <<pending, link, last, orphaned, count>>
  <2>1. sock' \in Sockets /\ ~sock'.there /\ sock'.owner = None
    BY <1>2 DEF Sockets, NoSocket, None
  <2>2. EndpointTyped'
    BY <1>0, <1>2, <2>1 DEF EndpointInv, EndpointTyped, Places
  <2>3. EndpointShape'
    BY <1>0, <1>2 DEF EndpointShape
  <2>4. PathLeads'
    BY <1>0, <1>2, <2>1 DEF EndpointInv, EndpointTyped, PathLeads, Daemons, None
  <2>5. RaceHasWinner'
    BY <1>0, <1>2, <2>1 DEF EndpointInv, EndpointTyped, RaceHasWinner, Daemons
  <2> QED
    BY <2>2, <2>3, <2>4, <2>5 DEF EndpointInv
<1>3. CASE at[d] \in {"bind", "rebind"} /\ ~sock.there
           /\ sock' = [there |-> TRUE, owner |-> d, mode |-> "default"]
           /\ last' = d /\ orphaned' = FALSE /\ Goes(d, "chmod")
           /\ UNCHANGED <<pending, link, count>>
  <2>1. sock' \in Sockets /\ sock'.there /\ sock'.owner = d
    BY <1>3 DEF Sockets
  <2>2. EndpointTyped'
    BY <1>0, <1>3, <2>1 DEF EndpointInv, EndpointTyped, Places
  <2>3. EndpointShape'
    BY <1>0, <2>1 DEF EndpointShape
  <2>4. PathLeads'
    BY <1>0, <1>3, <2>1 DEF EndpointInv, EndpointTyped, PathLeads, Daemons
  <2>5. RaceHasWinner'
    BY <1>0, <1>3, <2>1 DEF EndpointInv, EndpointTyped, RaceHasWinner, Daemons
  <2> QED
    BY <2>2, <2>3, <2>4, <2>5 DEF EndpointInv
<1>4. CASE at[d] = "chmod" /\ sock.there
           /\ sock' = [sock EXCEPT !.mode = SocketModes] /\ Goes(d, "up")
           /\ UNCHANGED <<pending, link, last, orphaned, count>>
  <2>1. /\ sock' \in Sockets /\ sock'.there /\ sock'.owner = sock.owner
        /\ sock'.mode = SocketModes /\ SocketModes' = SocketModes
    BY <1>0, <1>4 DEF EndpointInv, EndpointTyped, Sockets, SocketModes
  <2>2. EndpointTyped'
    BY <1>0, <1>4, <2>1 DEF EndpointInv, EndpointTyped, Places
  <2>3. EndpointShape'
    BY <1>0, <2>1 DEF EndpointShape
  <2>4. PathLeads'
    BY <1>0, <1>4, <2>1 DEF EndpointInv, EndpointTyped, PathLeads, Daemons
  <2>5. RaceHasWinner'
    BY <1>0, <1>4, <2>1 DEF EndpointInv, EndpointTyped, RaceHasWinner, Daemons
  <2> QED
    BY <2>2, <2>3, <2>4, <2>5 DEF EndpointInv
<1>5. CASE GivesUp(d) /\ (\/ at[d] \in {"remove", "chmod"} /\ ~sock.there
                          \/ at[d] \in {"bind", "rebind"} /\ sock.there)
  BY <1>0, <1>5, GivesUpKeeps
<1> QED
  BY <1>1, <1>2, <1>3, <1>4, <1>5 DEF RemovePath, UnixBind, SetMode

\* PipeBind: the first instance of the name makes its daemon serve.
LEMMA PipeBindKeeps ==
    ASSUME EndpointInv, NEW d \in Daemons, PipeBind(d)
    PROVE  EndpointInv'
<1> USE EndpointAssumption DEF BindEnv, Goes
<1>0. platform = "windows" /\ at[d] = "bind" /\ UNCHANGED <<platform, policy>>
  BY DEF PipeBind
<1>1. CASE /\ pending' = [pending EXCEPT ![d] = "free"]
           /\ last' = d /\ at' = [at EXCEPT ![d] = "up"]
           /\ UNCHANGED <<sock, link, orphaned, count>>
  <2>1. EndpointTyped'
    BY <1>0, <1>1 DEF EndpointInv, EndpointTyped, Places
  <2>2. EndpointShape'
    BY <1>0, <1>1 DEF EndpointInv, EndpointTyped, EndpointShape, Instances
  <2>3. at'[d] = "up"
    BY <1>1 DEF EndpointInv, EndpointTyped
  <2>4. PathLeads' /\ RaceHasWinner'
    BY <1>0, <2>3 DEF PathLeads, RaceHasWinner
  <2> QED
    BY <2>1, <2>2, <2>4 DEF EndpointInv
<1>2. CASE (\E e \in Daemons : Instances(e)) /\ GivesUp(d)
  BY <1>0, <1>2, GivesUpKeeps
<1> QED
  BY <1>1, <1>2 DEF PipeBind

\* Clients that come and go move only the links and the pipe's instances.
LEMMA LinkKeeps ==
    ASSUME EndpointInv, UNCHANGED <<platform, policy, at, sock, last, orphaned, count>>,
           pending' \in [Daemons -> {"none", "free", "connected"}],
           link' \in [Clients -> Connections],
           \A d \in Daemons : platform = "windows" /\ Instances(d)' => at[d] = "up"
    PROVE  EndpointInv'
BY DEF EndpointInv, EndpointTyped, EndpointShape, PathLeads, RaceHasWinner, SocketModes

\* A client connects, is accepted or leaves; the path stays whose it was.
LEMMA ClientKeeps ==
    ASSUME EndpointInv,
           \/ \E d \in Daemons : Accept(d)
           \/ \E c \in Clients : Leave(c) \/ Closed(c) \/ \E d \in Daemons : Connect(c, d)
    PROVE  EndpointInv'
<1> USE EndpointAssumption DEF BindEnv
<1>0. /\ pending \in [Daemons -> {"none", "free", "connected"}]
      /\ link \in [Clients -> Connections]
      /\ \A d \in Daemons : platform = "windows" /\ Instances(d) => at[d] = "up"
  BY DEF EndpointInv, EndpointTyped, EndpointShape
<1>1. ASSUME NEW d \in Daemons, CreateInstance(d) PROVE EndpointInv'
  <2>1. \A e \in Daemons : Instances(e)' => Instances(e) \/ e = d
    BY <1>0, <1>1 DEF CreateInstance, Instances
  <2>2. pending' \in [Daemons -> {"none", "free", "connected"}]
    BY <1>0, <1>1 DEF CreateInstance
  <2> QED
    BY <1>0, <1>1, <2>1, <2>2, LinkKeeps DEF CreateInstance
\* A link that only changes its state, and a taken instance, add no instance.
<1>2. ASSUME NEW c \in Clients, NEW s \in LinkStates, link' = [link EXCEPT ![c].st = s],
             \A d \in Daemons : pending'[d] \in {pending[d], "none"},
             pending' \in [Daemons -> {"none", "free", "connected"}],
             UNCHANGED <<platform, policy, at, sock, last, orphaned, count>>
      PROVE  EndpointInv'
  <2>1. \A k \in Clients : link'[k] \in Connections /\ link'[k].to = link[k].to
    BY <1>0, <1>2 DEF Connections
  <2>2. link' \in [Clients -> Connections]
    BY <1>0, <1>2, <2>1
  <2>3. \A e \in Daemons : Instances(e)' => Instances(e)
    BY <1>0, <1>2, <2>1 DEF Instances
  <2> QED
    BY <1>0, <1>2, <2>2, <2>3, LinkKeeps
<1>3. ASSUME NEW c \in Clients, Leave(c) PROVE EndpointInv'
  BY <1>0, <1>2, <1>3 DEF Leave, LinkStates
<1>4. ASSUME NEW c \in Clients, NEW d \in Daemons, AcceptUnix(c, d) PROVE EndpointInv'
  <2>1. Judge(c) \in LinkStates
    BY DEF Judge, LinkStates
  <2> QED
    BY <1>0, <1>2, <1>4, <2>1 DEF AcceptUnix
<1>5. ASSUME NEW c \in Clients, NEW d \in Daemons, AcceptPipe(c, d) PROVE EndpointInv'
  <2>1. VerifyPeer(c) \in LinkStates
    BY DEF VerifyPeer, LinkStates
  <2>2. pending' = [pending EXCEPT ![d] = "none"]
    BY <1>5 DEF AcceptPipe, TakeConnected
  <2>3. /\ \A e \in Daemons : pending'[e] \in {pending[e], "none"}
        /\ pending' \in [Daemons -> {"none", "free", "connected"}]
    BY <1>0, <2>2
  <2>4. /\ link' = [link EXCEPT ![c].st = VerifyPeer(c)]
        /\ UNCHANGED <<platform, policy, at, sock, last, orphaned, count>>
    BY <1>5 DEF AcceptPipe
  <2> QED
    BY <1>2, <2>1, <2>3, <2>4
<1>6. ASSUME NEW c \in Clients, Closed(c) PROVE EndpointInv'
  <2> DEFINE gone == [st |-> "gone", to |-> None]
  <2>1. gone \in Connections /\ \A d \in Daemons : gone.to # d
    BY DEF Connections, LinkStates, Daemons, None
  <2>2. link' = [link EXCEPT ![c] = gone]
    BY <1>6 DEF Closed
  <2> HIDE DEF gone
  <2>3. link' \in [Clients -> Connections]
    BY <1>0, <2>1, <2>2
  <2>4. \A e \in Daemons : Instances(e)' => Instances(e)
    BY <1>0, <1>6, <2>1, <2>2 DEF Instances, Closed
  <2> QED
    BY <1>0, <1>6, <2>3, <2>4, LinkKeeps DEF Closed
<1>7. ASSUME NEW c \in Clients, NEW d \in Daemons, Connect(c, d) PROVE EndpointInv'
  <2> DEFINE new == [st |-> "queued", to |-> d]
  <2>1. new \in Connections /\ new.to = d
    BY DEF Connections, LinkStates
  <2>2. link' = [link EXCEPT ![c] = new]
    BY <1>7 DEF Connect
  <2> HIDE DEF new
  <2>3. link' \in [Clients -> Connections]
    BY <1>0, <2>1, <2>2
  <2>4. pending' \in [Daemons -> {"none", "free", "connected"}]
    BY <1>0, <1>7 DEF Connect
  <2>5. \A e \in Daemons : Instances(e)' => Instances(e) \/ e = d
    BY <1>0, <1>7, <2>1, <2>2 DEF Instances, Connect
  <2>6. platform = "windows" => Instances(d)
    BY <1>7 DEF Connect, Reaches, Instances
  <2> QED
    BY <1>0, <1>7, <2>3, <2>4, <2>5, <2>6, LinkKeeps DEF Connect
<1> QED
  BY <1>1, <1>3, <1>4, <1>5, <1>6, <1>7 DEF Accept

-----------------------------------------------------------------------------
(* The systemd unit                                                        *)

Codes == {"none", "NEEDS_ELEVATION", "NOT_INSTALLED", "STOPPED", "OK", "STARTING",
          "UNKNOWN", "REGISTER_FAILED", "START_FAILED", "FAILED"}
Calls == [op : Ops, pc : {"idle", "query", "change", "done"}, root : BOOLEAN,
          exit : Codes, fault : BOOLEAN]

\* An absent unit is neither enabled nor running; a command that is about to
\* change the unit is root's and, unless its question failed, has seen it.
UnitSeen ==
    /\ unit \in [found : BOOLEAN, enabled : BOOLEAN] /\ cmd \in Calls
    /\ ~unit.found => ~unit.enabled /\ at[Service] = "down"
    /\ cmd.pc = "query" => cmd.op # "install"
    /\ cmd.pc \in {"query", "change"} /\ cmd.op \in {"stop", "uninstall"} => cmd.root
    /\ cmd.pc = "change" /\ cmd.op # "install" /\ ~cmd.fault => unit.found

UnitInv == UnitSeen /\ UnitReports

\* A unit with no process gets one from a command alone.
LEMMA UnitFrame ==
    ASSUME UnitInv, UNCHANGED <<unit, cmd>>, at[Service] = "down" => at'[Service] = "down"
    PROVE  UnitInv'
BY DEF UnitInv, UnitSeen, UnitReports

\* Before the first command there is nothing to report.
LEMMA UnitInit == Init => UnitInv
<1> SUFFICES ASSUME Init PROVE UnitInv
  OBVIOUS
<1>1. cmd \in Calls /\ cmd.pc = "idle"
  BY DEF Init, Idle, Calls, Codes, Ops
<1>2. unit \in [found : BOOLEAN, enabled : BOOLEAN] /\ ~unit.enabled
  BY DEF Init
<1>3. at[Service] = "down"
  BY DEF Init, Daemons
<1> QED
  BY <1>1, <1>2, <1>3 DEF UnitInv, UnitSeen, UnitReports

\* The fields of a command that ends, and of one that goes on to its change.
LEMMA ExitsFields ==
    ASSUME cmd \in Calls, NEW code \in Codes, NEW faulty \in BOOLEAN, Exits(code, faulty)
    PROVE  /\ cmd' \in Calls /\ cmd'.pc = "done" /\ cmd'.exit = code
           /\ cmd'.fault = faulty /\ cmd'.op = cmd.op /\ cmd'.root = cmd.root
BY DEF Exits, Calls

\* What the answer to `systemctl show` makes of a command that asked, answer
\* being "NOT_INSTALLED" just for an absent unit unless the call failed.
LEMMA AnsweredKeeps ==
    ASSUME UnitInv, cmd.pc = "query", UNCHANGED <<unit, at>>, NEW answer \in Codes,
           NEW faulty \in BOOLEAN, Answered(answer, faulty),
           ~faulty => (answer = "NOT_INSTALLED" <=> ~unit.found),
           faulty => answer # "NOT_INSTALLED"
    PROVE  UnitInv'
<1>0. cmd \in Calls /\ "OK" \in Codes /\ "NOT_INSTALLED" \in Codes /\ "NEEDS_ELEVATION" \in Codes
  BY DEF UnitInv, UnitSeen, Codes
<1> USE DEF UnitInv, UnitSeen, UnitReports
<1>1. CASE cmd.op = "status"
  <2>1. Exits(answer, faulty)
    BY <1>1 DEF Answered
  <2> QED
    BY <1>0, <1>1, <2>1, ExitsFields
<1>2. CASE cmd.op # "status" /\ answer = "NOT_INSTALLED"
  <2>1. Exits(IF cmd.op = "repair" THEN "NOT_INSTALLED" ELSE "OK", faulty)
    BY <1>2 DEF Answered
  <2>2. CASE cmd.op = "repair"
    BY <1>0, <1>2, <2>1, <2>2, ExitsFields
  <2>3. CASE cmd.op # "repair"
    BY <1>0, <1>2, <2>1, <2>3, ExitsFields
  <2> QED
    BY <2>2, <2>3
<1>3. CASE answer # "NOT_INSTALLED" /\ cmd.op = "repair" /\ ~cmd.root
  <2>1. Exits("NEEDS_ELEVATION", faulty)
    BY <1>3 DEF Answered
  <2> QED
    BY <1>0, <1>3, <2>1, ExitsFields
<1>4. CASE cmd.op # "status" /\ answer # "NOT_INSTALLED" /\ ~(cmd.op = "repair" /\ ~cmd.root)
  <2>1. cmd' = [cmd EXCEPT !.pc = "change", !.fault = faulty]
    BY <1>4 DEF Answered
  <2>2. /\ cmd' \in Calls /\ cmd'.pc = "change" /\ cmd'.fault = faulty
        /\ cmd'.op = cmd.op /\ cmd'.root = cmd.root
    BY <1>0, <2>1 DEF Calls
  <2> QED
    BY <1>0, <1>4, <2>2
<1> QED
  BY <1>1, <1>2, <1>3, <1>4

\* A command begins: refused at once, or on its way.
LEMMA BeginKeeps ==
    ASSUME UnitInv, NEW op \in Ops, NEW root \in BOOLEAN, Begin(op, root)
    PROVE  UnitInv'
<1> DEFINE refused == ~root /\ op \in {"install", "uninstall", "stop"}
           start == CASE refused -> "done"
                      [] ~refused /\ op = "install" -> "change"
                      [] OTHER -> "query"
           code == IF refused THEN "NEEDS_ELEVATION" ELSE "none"
<1>1. cmd' = [op |-> op, root |-> root, fault |-> FALSE, exit |-> code, pc |-> start]
  BY DEF Begin
<1>2. /\ start \in {"query", "change", "done"} /\ (start = "done" <=> refused)
      /\ (start = "change" => op = "install") /\ (start = "query" => op # "install")
      /\ code \in Codes /\ (refused => code = "NEEDS_ELEVATION")
  BY DEF Codes
<1>3. refused <=> ~root /\ op \in {"install", "uninstall", "stop"}
  OBVIOUS
<1> HIDE DEF refused, start, code
<1>4. /\ cmd' \in Calls /\ cmd'.op = op /\ cmd'.root = root /\ cmd'.fault = FALSE
      /\ cmd'.exit = code /\ cmd'.pc = start
  BY <1>1, <1>2 DEF Calls
<1>5. UNCHANGED <<unit, at>>
  BY DEF Begin
<1> QED
  BY <1>2, <1>3, <1>4, <1>5 DEF UnitInv, UnitSeen, UnitReports

\* The change is made, or fails: what the command then says is so.
LEMMA ChangeKeeps ==
    ASSUME UnitInv, EndpointInv, Change \/ ChangeFails
    PROVE  UnitInv'
<1> USE DEF UnitInv, UnitSeen
<1>0. /\ cmd \in Calls /\ cmd.fault \in BOOLEAN /\ "OK" \in Codes /\ Failure \in Codes
      /\ Failure # "OK"
  BY DEF Codes, Calls, Failure
<1>1. CASE Change
  <2>1. /\ cmd' \in Calls /\ cmd'.pc = "done" /\ cmd'.exit = "OK"
        /\ cmd'.fault = cmd.fault /\ cmd'.op = cmd.op /\ cmd'.root = cmd.root
    BY <1>0, <1>1, ExitsFields DEF Change
  <2>2. /\ unit' \in [found : BOOLEAN, enabled : BOOLEAN]
        /\ unit'.found = unit.found /\ unit'.enabled = Enables(cmd.op) /\ unit.found
    BY <1>1 DEF Change, Marked, Enables
  <2>3. cmd.op \in {"stop", "uninstall"} => at'[Service] = "down"
    BY <1>1 DEF Change, Moves, StopsUnit, Dies, EndpointInv, EndpointTyped, Daemons
  <2> QED
    BY <2>1, <2>2, <2>3 DEF UnitReports, Enables
<1>2. CASE ChangeFails
  <2>1. cmd.pc = "change"
    BY <1>2 DEF ChangeFails
  <2>2. CASE ~unit.found /\ Exits(Failure, cmd.fault) /\ UNCHANGED <<unit, at>>
    <3>1. /\ cmd' \in Calls /\ cmd'.pc = "done" /\ cmd'.exit = Failure
          /\ cmd'.fault = cmd.fault /\ cmd'.op = cmd.op /\ cmd'.root = cmd.root
      BY <1>0, <2>2, ExitsFields
    <3> QED
      BY <1>0, <2>1, <2>2, <3>1 DEF UnitReports
  <2>3. CASE unit.found /\ Exits(Failure, TRUE) /\ unit' \in {unit, Marked}
    <3>1. cmd' \in Calls /\ cmd'.pc = "done" /\ cmd'.fault = TRUE /\ cmd'.exit = Failure
      BY <1>0, <2>3, ExitsFields
    <3>2. unit' \in [found : BOOLEAN, enabled : BOOLEAN] /\ unit'.found
      BY <2>3 DEF Marked, Enables
    <3> QED
      BY <1>0, <3>1, <3>2 DEF UnitReports
  <2> QED
    BY <1>2, <2>2, <2>3 DEF ChangeFails
<1> QED
  BY <1>1, <1>2

\* status and state: an answer that came says whether there is a unit.
LEMMA QueryKeeps == ASSUME UnitInv, Query \/ QueryFails PROVE UnitInv'
<1>1. CASE Query
  <2>1. PICK answer \in State : Answered(answer, FALSE)
    BY <1>1 DEF Query
  <2>2. answer \in Codes /\ (answer = "NOT_INSTALLED" <=> ~unit.found)
    <3>1. CASE ~unit.found
      BY <3>1 DEF State, Codes
    <3>2. CASE unit.found
      <4>1. State \subseteq {"STOPPED", "OK", "STARTING"}
        BY <3>2 DEF State
      <4> QED
        BY <3>2, <4>1 DEF Codes
    <3> QED
      BY <3>1, <3>2
  <2> QED
    BY <1>1, <2>1, <2>2, AnsweredKeeps DEF Query
<1>2. CASE QueryFails
  BY <1>2, AnsweredKeeps DEF QueryFails, Codes
<1> QED
  BY <1>1, <1>2

-----------------------------------------------------------------------------
(* Every step keeps both                                                   *)

\* What the commands do to the endpoint.
LEMMA CommandKeeps ==
    ASSUME EndpointInv, Command \/ \E op \in Ops, root \in BOOLEAN : Begin(op, root)
    PROVE  EndpointInv'
<1>0. count \in Counts /\ Service \in Daemons
  BY DEF EndpointInv, EndpointTyped, Daemons
<1>1. ASSUME UNCHANGED <<platform, policy, at, sock, pending, link, last, orphaned>>,
             count' \in Counts, count'.deaths = count.deaths, count'.starts = count.starts
      PROVE  EndpointInv'
  BY <1>1 DEF EndpointInv, EndpointTyped, EndpointShape, PathLeads, RaceHasWinner,
     SocketModes, Instances
<1>2. CASE Query \/ QueryFails
           \/ \E op \in Ops, root \in BOOLEAN : Begin(op, root)
  <2>1. /\ count' \in Counts /\ count'.deaths = count.deaths
        /\ count'.starts = count.starts
    <3>1. \/ count' = count
          \/ count' = [count EXCEPT !.faults = @ + 1]
          \/ count' = [count EXCEPT !.commands = @ + 1]
      BY <1>2 DEF Query, QueryFails, Begin
    <3> QED
      BY <1>0, <3>1 DEF Counts
  <2> QED
    BY <1>1, <1>2, <2>1 DEF Query, QueryFails, Begin
<1> DEFINE Like(before) == /\ before \in Counts /\ before.starts = count.starts
                           /\ before.deaths = count.deaths
<1>3. ASSUME NEW before, Like(before), StopsUnit(before), UNCHANGED <<platform, policy, last>>
      PROVE  EndpointInv'
  <2>1. /\ count' \in Counts /\ count'.starts = count.starts
        /\ \/ count'.deaths # 0
           \/ at[Service] = "down" /\ count'.deaths = count.deaths
    BY <1>0, <1>3 DEF StopsUnit, Counts
  <2> QED
    BY <1>0, <1>3, <2>1, DeathKeeps DEF StopsUnit
<1>4. ASSUME NEW before, Like(before), StartsUnit(before), UNCHANGED <<platform, policy, last>>
      PROVE  EndpointInv'
  <2>1. CASE at[Service] = "down"
    <3>1. count' \in Counts /\ count'.deaths = count.deaths
      BY <1>0, <1>4, <2>1 DEF StartsUnit, Counts
    <3> QED
      BY <1>0, <1>4, <2>1, <3>1, StartKeeps DEF StartsUnit
  <2>2. CASE at[Service] # "down"
    BY <1>0, <1>1, <1>4, <2>2 DEF StartsUnit
  <2> QED
    BY <2>1, <2>2
<1>5. Like(count)
  BY <1>0
<1>6. Like([count EXCEPT !.faults = @ + 1])
  BY <1>0 DEF Counts
<1>7. ASSUME NEW before, Like(before), Moves(before), UNCHANGED <<platform, policy, last>>
      PROVE  EndpointInv'
  BY <1>3, <1>4, <1>7 DEF Moves
<1> HIDE DEF Like
<1>8. CASE RestartsDown
  BY <1>3, <1>5, <1>8 DEF RestartsDown
<1>9. CASE Change
  BY <1>5, <1>7, <1>9 DEF Change
<1>10. CASE ChangeFails
  <2>1. CASE /\ UNCHANGED <<at, sock, pending, link, orphaned>>
             /\ count' \in {count, [count EXCEPT !.faults = @ + 1]}
    BY <1>1, <1>5, <1>6, <1>10, <2>1 DEF ChangeFails, Like
  <2>2. CASE Moves([count EXCEPT !.faults = @ + 1])
    BY <1>6, <1>7, <1>10, <2>2 DEF ChangeFails
  <2> QED
    BY <1>10, <2>1, <2>2 DEF ChangeFails
<1> QED
  BY <1>2, <1>8, <1>9, <1>10 DEF Command

\* Outside the commands nobody starts the unit's process.
LEMMA UnitAlone ==
    ASSUME EndpointInv,
           \/ StartForeground \/ RestartsDown
           \/ \E d \in Daemons : Bind(d) \/ Accept(d) \/ Killed(d)
           \/ \E c \in Clients : Leave(c) \/ Closed(c) \/ \E d \in Daemons : Connect(c, d)
    PROVE  UNCHANGED <<unit, cmd>> /\ (at[Service] = "down" => at'[Service] = "down")
<1> USE EndpointAssumption DEF EndpointInv, EndpointTyped, Daemons, BindEnv
<1>1. CASE StartForeground \/ RestartsDown
  BY <1>1 DEF StartForeground, Starts, RestartsDown, StopsUnit, Dies
<1>2. CASE \E d \in Daemons : Bind(d)
  <2>1. PICK d \in Daemons : Bind(d)
    BY <1>2
  <2>2. UNCHANGED <<unit, cmd>> /\ at[d] # "down" /\ \E p \in Places : at' = [at EXCEPT ![d] = p]
    BY <2>1 DEF Bind, PrepareDirectory, PathExists, RemovePath, UnixBind, SetMode, PipeBind,
       GivesUp, Dies, Goes, Places
  <2> QED
    BY <2>2
<1>3. CASE \E d \in Daemons : Killed(d)
  BY <1>3 DEF Killed, Dies
<1>4. CASE \/ \E d \in Daemons : Accept(d)
           \/ \E c \in Clients : Leave(c) \/ Closed(c) \/ \E d \in Daemons : Connect(c, d)
  BY <1>4 DEF Accept, CreateInstance, AcceptUnix, AcceptPipe, Leave, Closed, Connect
<1> QED
  BY <1>1, <1>2, <1>3, <1>4

\* Every step of a daemon, of a client or of a command keeps the invariant.
LEMMA EndpointStep == EndpointInv /\ UnitInv /\ [Next]_vars => EndpointInv' /\ UnitInv'
<1> SUFFICES ASSUME EndpointInv, UnitInv, [Next]_vars PROVE EndpointInv' /\ UnitInv'
  OBVIOUS
<1>1. CASE UNCHANGED vars
  <2>1. EndpointInv'
    BY <1>1 DEF vars, EndpointInv, EndpointTyped, EndpointShape, PathLeads, RaceHasWinner,
       SocketModes, Instances
  <2> QED
    BY <1>1, <2>1, UnitFrame DEF vars
<1>2. CASE StartForeground
  <2>1. count' \in Counts /\ count'.deaths = count.deaths
    BY <1>2 DEF StartForeground, Counts, EndpointInv, EndpointTyped
  <2> QED
    BY <1>2, <2>1, StartKeeps, UnitAlone, UnitFrame DEF StartForeground, Daemons
<1>3. ASSUME NEW d \in Daemons, Killed(d) PROVE EndpointInv' /\ UnitInv'
  <2>1. count' \in Counts /\ count'.deaths # 0 /\ count'.starts = count.starts
    <3>1. count' = [count EXCEPT !.faults = @ + 1, !.deaths = @ + 1] /\ count \in Counts
      BY <1>3 DEF Killed, EndpointInv, EndpointTyped
    <3>2. count.deaths \in Nat /\ count.faults \in Nat
      BY <3>1 DEF Counts
    <3>3. count.deaths + 1 \in Nat \ {0} /\ count.faults + 1 \in Nat
      BY <3>2
    <3>4. count' \in Counts /\ count'.deaths = count.deaths + 1 /\ count'.starts = count.starts
      BY <3>1, <3>3 DEF Counts
    <3> QED
      BY <3>3, <3>4
  <2>2. EndpointInv'
    BY <1>3, <2>1, DeathKeeps DEF Killed
  <2> QED
    BY <1>3, <2>2, UnitAlone, UnitFrame
<1>4. ASSUME NEW d \in Daemons, Bind(d) PROVE EndpointInv' /\ UnitInv'
  <2>1. EndpointInv'
    BY <1>4, UnixBindKeeps, PipeBindKeeps DEF Bind
  <2> QED
    BY <1>4, <2>1, UnitAlone, UnitFrame
<1>5. CASE \/ \E d \in Daemons : Accept(d)
           \/ \E c \in Clients : Leave(c) \/ Closed(c) \/ \E d \in Daemons : Connect(c, d)
  BY <1>5, ClientKeeps, UnitAlone, UnitFrame
<1>6. CASE \E op \in Ops, root \in BOOLEAN : Begin(op, root)
  BY <1>6, CommandKeeps, BeginKeeps
<1>7. CASE Command
  <2>1. EndpointInv'
    BY <1>7, CommandKeeps
  <2>2. UnitInv'
    BY <1>7, QueryKeeps, ChangeKeeps, UnitAlone, UnitFrame DEF Command
  <2> QED
    BY <2>1, <2>2
<1> QED
  BY <1>1, <1>2, <1>3, <1>4, <1>5, <1>6, <1>7 DEF Next

\* The path leads to the serving daemon that bound last, with the policy's mode,
\* unless another is between removing the path and binding it or died there;
\* and while nobody is killed or stopped a race for the endpoint has a winner.
\* Two daemons, any number of clients, starts, commands and faults
\* (LinuxListener::bind, prepare_socket_path, set_mode, WindowsListener::bind).
THEOREM EndpointReachable == Spec => []LastBinderReachable
<1>1. EndpointInv => LastBinderReachable
  <2> SUFFICES ASSUME EndpointInv PROVE LastBinderReachable
    OBVIOUS
  <2>1. ASSUME NEW d \in Daemons, platform = "linux", last = d, at[d] = "up", ~orphaned,
               \A e \in Daemons : at[e] # "rebind"
        PROVE  sock = [there |-> TRUE, owner |-> d, mode |-> SocketModes]
    <3>1. sock.there /\ sock.owner = d /\ sock.mode = SocketModes
      BY <2>1 DEF EndpointInv, PathLeads
    <3> QED
      BY <3>1 DEF EndpointInv, EndpointTyped, Sockets
  <2>2. ASSUME count.starts > 0, count.deaths = 0, \A d \in Daemons : Settled(d)
        PROVE  \E d \in Daemons : at[d] = "up"
    BY <2>2 DEF EndpointInv, RaceHasWinner, Settled
  <2> QED
    BY <2>1, <2>2 DEF LastBinderReachable
<1> QED
  BY EndpointInit, UnitInit, EndpointStep, <1>1, PTL DEF Spec

\* What a finished command on the systemd unit says is so, a call of systemctl
\* that broke off half way, in this command or in one before it, included: an OK
\* is never said of a unit left otherwise; and when no call failed, an absent
\* unit is no failure to uninstall or stop (systemd.rs: install, uninstall,
\* stop, repair).
THEOREM UnitCommandsTruthful == Spec => []UnitReports
<1>1. UnitInv => UnitReports
  BY DEF UnitInv
<1> QED
  BY EndpointInit, UnitInit, EndpointStep, <1>1, PTL DEF Spec

-----------------------------------------------------------------------------
(* The single instance.                                                    *)
(*                                                                         *)
(* PrimaryReachable is not inductive: what a claim may do to the file at   *)
(* the path depends on what the process saw in its earlier system calls.   *)
(* ClaimInv says what those observations are still worth while no other    *)
(* claim or release is under way (Alone): a process past connect knows     *)
(* that nobody listens, one about to delete that there is a file, one      *)
(* about to bind that there is none, and one that is connected to the      *)
(* primary still has its connection.                                       *)

Points == Busy \cup Resting \cup {"off", "dead"}

ClaimTyped ==
    /\ proc \in [Procs -> Points]
    /\ path \in Procs \cup {Nobody}
    /\ listening \in [Procs -> BOOLEAN]
    /\ peer \in [Procs -> Procs \cup {Nobody}]
    /\ conn \in [Procs -> {"none", "queued", "taken"}]
    /\ forwarded \in [Procs -> {"no", "sent", "delivered", "missed"}]
    /\ raced \in BOOLEAN /\ trespassed \in BOOLEAN

\* A socket listens exactly while its process is told to be the primary.
ListenersArePrimary ==
    \A p \in Procs : listening[p] <=> proc[p] = "primary"

\* A connected process has somebody it connected to and has sent nothing yet.
ConnectedToSomebody ==
    \A p \in Procs :
        proc[p] = "connected" => peer[p] \in Procs /\ forwarded[p] = "no"

\* No two processes are inside claim or release, and no release has deleted
\* the socket of another.
Alone == ~Overlapping
Orderly == ~raced /\ ~trespassed

\* What the process inside claim has seen is still so.
SeenIsSo ==
    \A p \in Procs :
        /\ proc[p] = "connected" =>
              \A q \in Procs :
                  proc[q] = "primary" => q = peer[p] /\ conn[p] # "none"
        /\ proc[p] \in Claiming \ {"connected"} =>
              \A q \in Procs : proc[q] # "primary"
        /\ proc[p] = "deleting" => path # Nobody
        /\ proc[p] = "binding" => path = Nobody

ClaimInv ==
    /\ ClaimTyped
    /\ ListenersArePrimary
    /\ ConnectedToSomebody
    /\ Orderly => Alone /\ SeenIsSo
    /\ PrimaryReachable

-----------------------------------------------------------------------------

\* Before the first launch the path is free and nobody claims it.
LEMMA InitClaim == ClaimsInit => ClaimInv
<1> SUFFICES ASSUME ClaimsInit PROVE ClaimInv
  OBVIOUS
<1> USE SingleInstanceAssumption DEF ClaimsInit, Claiming, Busy, Resting
<1>1. ClaimTyped
  BY DEF ClaimTyped, Points
<1>2. ListenersArePrimary /\ ConnectedToSomebody /\ PrimaryReachable
  BY DEF ListenersArePrimary, ConnectedToSomebody, PrimaryReachable
<1>3. Alone /\ SeenIsSo
  BY DEF Alone, Overlapping, SeenIsSo
<1> QED BY <1>1, <1>2, <1>3 DEF ClaimInv

\* Every step keeps ClaimInv.  A step after which the history is still orderly
\* ends with no other process inside claim or release, which is what makes the
\* observations of the one that is inside last.
LEMMA StepClaim ==
    ClaimInv /\ [ClaimsNext]_<<claimsVars, observed>> => ClaimInv'
<1> SUFFICES ASSUME ClaimInv, [ClaimsNext]_<<claimsVars, observed>>
             PROVE  ClaimInv'
  OBVIOUS
<1> USE SingleInstanceAssumption
    DEF ClaimInv, ClaimTyped, Points, Claiming, Busy, Resting
<1>0. CASE UNCHANGED <<claimsVars, observed>>
  BY <1>0 DEF claimsVars, observed, ListenersArePrimary, ConnectedToSomebody,
              Alone, Orderly, Overlapping, SeenIsSo, PrimaryReachable
<1>1. CASE ClaimsNext
  <2>1. PICK p \in Procs :
          \/ ConnectPeer(p) \/ Step(p) \/ Subscribe(p) \/ Receives(p)
          \/ CloseListener(p) \/ Crash(p)
    BY <1>1 DEF ClaimsNext
  <2>2. /\ raced' = (raced \/ Overlapping')
        /\ trespassed' = (trespassed \/ \E q \in Procs : Trespasses(q))
    BY <1>1 DEF ClaimsNext
  <2>3. /\ Orderly' => /\ Orderly /\ Alone /\ Alone' /\ SeenIsSo
                       /\ \A q \in Procs : ~Trespasses(q)
        /\ raced' \in BOOLEAN /\ trespassed' \in BOOLEAN
    BY <2>2 DEF Alone, Orderly
  <2>4. CASE ConnectPeer(p)
    <3>1. ClaimTyped' /\ ListenersArePrimary' /\ ConnectedToSomebody'
      <4>1. ClaimTyped'
        BY <2>3, <2>4 DEF ConnectPeer, Answers, Go
      <4>2. ListenersArePrimary'
        BY <2>4, <4>1 DEF ConnectPeer, Answers, Go, ListenersArePrimary
      <4>3. ConnectedToSomebody'
        BY <2>4, <4>1 DEF ConnectPeer, Answers, Go, ConnectedToSomebody
      <4> QED BY <4>1, <4>2, <4>3
    <3>2. Orderly' => SeenIsSo'
      BY <2>3, <2>4, <3>1 DEF ConnectPeer, Answers, Go, ListenersArePrimary,
         ConnectedToSomebody, SeenIsSo, Alone, Orderly, Overlapping,
         PrimaryReachable
    <3>3. PrimaryReachable'
      BY <2>3, <2>4, <3>1 DEF ConnectPeer, Answers, Go, ListenersArePrimary, SeenIsSo,
         Alone, Orderly, Overlapping, PrimaryReachable
    <3> QED BY <2>3, <3>1, <3>2, <3>3
  <2>5. CASE Forward(p)
    <3>1. ClaimTyped' /\ ListenersArePrimary' /\ ConnectedToSomebody'
      <4>1. ClaimTyped'
        BY <2>3, <2>5 DEF Forward, Go
      <4>2. ListenersArePrimary'
        BY <2>5, <4>1 DEF Forward, Go, ListenersArePrimary
      <4>3. ConnectedToSomebody'
        BY <2>5, <4>1 DEF Forward, Go, ConnectedToSomebody
      <4> QED BY <4>1, <4>2, <4>3
    <3>2. Orderly' => SeenIsSo'
      BY <2>3, <2>5, <3>1 DEF Forward, Go, ListenersArePrimary,
         ConnectedToSomebody, SeenIsSo, Alone, Orderly, Overlapping,
         PrimaryReachable
    <3>3. PrimaryReachable'
      BY <2>3, <2>5, <3>1 DEF Forward, Go, ListenersArePrimary, SeenIsSo,
         Alone, Orderly, Overlapping, PrimaryReachable
    <3> QED BY <2>3, <3>1, <3>2, <3>3
  <2>6. CASE Stale(p)
    <3>1. ClaimTyped' /\ ListenersArePrimary' /\ ConnectedToSomebody'
      <4>1. ClaimTyped'
        BY <2>3, <2>6 DEF Stale, Go
      <4>2. ListenersArePrimary'
        BY <2>6, <4>1 DEF Stale, Go, ListenersArePrimary
      <4>3. ConnectedToSomebody'
        BY <2>6, <4>1 DEF Stale, Go, ConnectedToSomebody
      <4> QED BY <4>1, <4>2, <4>3
    <3>2. Orderly' => SeenIsSo'
      BY <2>3, <2>6, <3>1 DEF Stale, Go, ListenersArePrimary,
         ConnectedToSomebody, SeenIsSo, Alone, Orderly, Overlapping,
         PrimaryReachable
    <3>3. PrimaryReachable'
      BY <2>3, <2>6, <3>1 DEF Stale, Go, ListenersArePrimary, SeenIsSo,
         Alone, Orderly, Overlapping, PrimaryReachable
    <3> QED BY <2>3, <3>1, <3>2, <3>3
  <2>7. CASE Delete(p)
    <3>1. ClaimTyped' /\ ListenersArePrimary' /\ ConnectedToSomebody'
      <4>1. ClaimTyped'
        BY <2>3, <2>7 DEF Delete, Go
      <4>2. ListenersArePrimary'
        BY <2>7, <4>1 DEF Delete, Go, ListenersArePrimary
      <4>3. ConnectedToSomebody'
        BY <2>7, <4>1 DEF Delete, Go, ConnectedToSomebody
      <4> QED BY <4>1, <4>2, <4>3
    <3>2. Orderly' => SeenIsSo'
      BY <2>3, <2>7, <3>1 DEF Delete, Go, ListenersArePrimary,
         ConnectedToSomebody, SeenIsSo, Alone, Orderly, Overlapping,
         PrimaryReachable
    <3>3. PrimaryReachable'
      BY <2>3, <2>7, <3>1 DEF Delete, Go, ListenersArePrimary, SeenIsSo,
         Alone, Orderly, Overlapping, PrimaryReachable
    <3> QED BY <2>3, <3>1, <3>2, <3>3
  <2>8. CASE BindServer(p)
    <3>1. ClaimTyped' /\ ListenersArePrimary' /\ ConnectedToSomebody'
      <4>1. ClaimTyped'
        BY <2>3, <2>8 DEF BindServer, Go
      <4>2. ListenersArePrimary'
        BY <2>8, <4>1 DEF BindServer, Go, ListenersArePrimary
      <4>3. ConnectedToSomebody'
        BY <2>8, <4>1 DEF BindServer, Go, ConnectedToSomebody
      <4> QED BY <4>1, <4>2, <4>3
    <3>2. Orderly' => SeenIsSo'
      BY <2>3, <2>8, <3>1 DEF BindServer, Go, ListenersArePrimary,
         ConnectedToSomebody, SeenIsSo, Alone, Orderly, Overlapping,
         PrimaryReachable
    <3>3. PrimaryReachable'
      BY <2>3, <2>8, <3>1 DEF BindServer, Go, ListenersArePrimary, SeenIsSo,
         Alone, Orderly, Overlapping, PrimaryReachable
    <3> QED BY <2>3, <3>1, <3>2, <3>3
  <2>9. CASE Unlink(p)
    <3>1. ClaimTyped' /\ ListenersArePrimary' /\ ConnectedToSomebody'
      <4>1. ClaimTyped'
        BY <2>3, <2>9 DEF Unlink, Go
      <4>2. ListenersArePrimary'
        BY <2>9, <4>1 DEF Unlink, Go, ListenersArePrimary
      <4>3. ConnectedToSomebody'
        BY <2>9, <4>1 DEF Unlink, Go, ConnectedToSomebody
      <4> QED BY <4>1, <4>2, <4>3
    <3>2. Orderly' => SeenIsSo'
      BY <2>3, <2>9, <3>1 DEF Unlink, Trespasses, Answers, Go, ListenersArePrimary,
         ConnectedToSomebody, SeenIsSo, Alone, Orderly, Overlapping,
         PrimaryReachable
    <3>3. PrimaryReachable'
      <4>1. SUFFICES ASSUME Orderly' PROVE PrimaryReachable'
        BY DEF Orderly, PrimaryReachable
      <4>2. path = p \/ ~Answers
        BY <2>3, <2>9, <4>1 DEF Trespasses
      <4>3. \A q \in Procs : q # p => proc[q] # "primary" /\ proc[q] # "failed"
        BY <2>3, <2>9, <4>1, <4>2 DEF Orderly, PrimaryReachable, Answers
      <4> QED BY <2>9, <4>3 DEF Unlink, Go, PrimaryReachable
    <3> QED BY <2>3, <3>1, <3>2, <3>3
  <2>10. CASE Subscribe(p)
    <3>1. ClaimTyped' /\ ListenersArePrimary' /\ ConnectedToSomebody'
      <4>1. ClaimTyped'
        BY <2>3, <2>10 DEF Subscribe, Go
      <4>2. ListenersArePrimary'
        BY <2>10, <4>1 DEF Subscribe, Go, ListenersArePrimary
      <4>3. ConnectedToSomebody'
        BY <2>10, <4>1 DEF Subscribe, Go, ConnectedToSomebody
      <4> QED BY <4>1, <4>2, <4>3
    <3>2. Orderly' => SeenIsSo'
      BY <2>3, <2>10, <3>1 DEF Subscribe, Go, ListenersArePrimary,
         ConnectedToSomebody, SeenIsSo, Alone, Orderly, Overlapping,
         PrimaryReachable
    <3>3. PrimaryReachable'
      BY <2>3, <2>10, <3>1 DEF Subscribe, Go, ListenersArePrimary, SeenIsSo,
         Alone, Orderly, Overlapping, PrimaryReachable
    <3> QED BY <2>3, <3>1, <3>2, <3>3
  <2>11. CASE TakePeer(p)
    <3>1. ClaimTyped' /\ ListenersArePrimary' /\ ConnectedToSomebody'
      <4>1. ClaimTyped'
        BY <2>3, <2>11 DEF TakePeer, Go
      <4>2. ListenersArePrimary'
        BY <2>11, <4>1 DEF TakePeer, Go, ListenersArePrimary
      <4>3. ConnectedToSomebody'
        BY <2>11, <4>1 DEF TakePeer, Go, ConnectedToSomebody
      <4> QED BY <4>1, <4>2, <4>3
    <3>2. Orderly' => SeenIsSo'
      BY <2>3, <2>11, <3>1 DEF TakePeer, Go, ListenersArePrimary,
         ConnectedToSomebody, SeenIsSo, Alone, Orderly, Overlapping,
         PrimaryReachable
    <3>3. PrimaryReachable'
      BY <2>3, <2>11, <3>1 DEF TakePeer, Go, ListenersArePrimary, SeenIsSo,
         Alone, Orderly, Overlapping, PrimaryReachable
    <3> QED BY <2>3, <3>1, <3>2, <3>3
  <2>12. CASE OnPeer(p)
    <3>1. ClaimTyped' /\ ListenersArePrimary' /\ ConnectedToSomebody'
      <4>1. ClaimTyped'
        BY <2>3, <2>12 DEF OnPeer, Go
      <4>2. ListenersArePrimary'
        BY <2>12, <4>1 DEF OnPeer, Go, ListenersArePrimary
      <4>3. ConnectedToSomebody'
        BY <2>12, <4>1 DEF OnPeer, Go, ConnectedToSomebody
      <4> QED BY <4>1, <4>2, <4>3
    <3>2. Orderly' => SeenIsSo'
      BY <2>3, <2>12, <3>1 DEF OnPeer, Go, ListenersArePrimary,
         ConnectedToSomebody, SeenIsSo, Alone, Orderly, Overlapping,
         PrimaryReachable
    <3>3. PrimaryReachable'
      BY <2>3, <2>12, <3>1 DEF OnPeer, Go, ListenersArePrimary, SeenIsSo,
         Alone, Orderly, Overlapping, PrimaryReachable
    <3> QED BY <2>3, <3>1, <3>2, <3>3
  <2>13. CASE CloseListener(p)
    <3>1. ClaimTyped' /\ ListenersArePrimary' /\ ConnectedToSomebody'
      <4>1. ClaimTyped'
        BY <2>3, <2>13 DEF CloseListener, Resets, Go
      <4>2. ListenersArePrimary'
        BY <2>13, <4>1 DEF CloseListener, Resets, Go, ListenersArePrimary
      <4>3. ConnectedToSomebody'
        BY <2>13, <4>1 DEF CloseListener, Resets, Go, ConnectedToSomebody
      <4> QED BY <4>1, <4>2, <4>3
    <3>2. Orderly' => SeenIsSo'
      BY <2>3, <2>13, <3>1 DEF CloseListener, Resets, Go, ListenersArePrimary,
         ConnectedToSomebody, SeenIsSo, Alone, Orderly, Overlapping,
         PrimaryReachable
    <3>3. PrimaryReachable'
      BY <2>3, <2>13, <3>1 DEF CloseListener, Resets, Go, ListenersArePrimary, SeenIsSo,
         Alone, Orderly, Overlapping, PrimaryReachable
    <3> QED BY <2>3, <3>1, <3>2, <3>3
  <2>14. CASE Crash(p)
    <3>1. ClaimTyped' /\ ListenersArePrimary' /\ ConnectedToSomebody'
      <4>1. ClaimTyped'
        BY <2>3, <2>14 DEF Crash, Resets, Go
      <4>2. ListenersArePrimary'
        BY <2>14, <4>1 DEF Crash, Resets, Go, ListenersArePrimary
      <4>3. ConnectedToSomebody'
        BY <2>14, <4>1 DEF Crash, Resets, Go, ConnectedToSomebody
      <4> QED BY <4>1, <4>2, <4>3
    <3>2. Orderly' => SeenIsSo'
      BY <2>3, <2>14, <3>1 DEF Crash, Resets, Go, ListenersArePrimary,
         ConnectedToSomebody, SeenIsSo, Alone, Orderly, Overlapping,
         PrimaryReachable
    <3>3. PrimaryReachable'
      BY <2>3, <2>14, <3>1 DEF Crash, Resets, Go, ListenersArePrimary, SeenIsSo,
         Alone, Orderly, Overlapping, PrimaryReachable
    <3> QED BY <2>3, <3>1, <3>2, <3>3
  <2> QED BY <2>1, <2>4, <2>5, <2>6, <2>7, <2>8, <2>9,
     <2>10, <2>11, <2>12, <2>13, <2>14 DEF Step, Receives
<1> QED BY <1>0, <1>1

\* As long as no two claims or releases overlapped and no process released a
\* path that another one had taken, with crashes anywhere, claims repeated and
\* any number of processes launched: the process told that it is the primary
\* is the one its socket path leads to, and claim() fails for nobody
\* (claim, _takeOver and release of SocketSingleInstance).
THEOREM LaunchesFindThePrimary == ClaimsSpec => []PrimaryReachable
<1>1. ClaimInv => PrimaryReachable
  BY DEF ClaimInv
<1> QED BY InitClaim, StepClaim, <1>1, PTL DEF ClaimsSpec
=============================================================================
