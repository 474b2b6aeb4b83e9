---------------------------- MODULE MCAcceptLoop ----------------------------
(* Two peers outside the policy and two inside it, one by uid, one by gid. *)
EXTENDS AcceptLoop

CONSTANTS app, admin, other1, other2, nopolicy

MCPeers == {app, admin, other1, other2}
MCCred == [p \in MCPeers |->
             CASE p = app   -> [uid |-> 501, gid |-> 20]
               [] p = admin -> [uid |-> 0, gid |-> 0]
               [] OTHER     -> [uid |-> 502, gid |-> 30]]
MCPolicies == {[uids |-> {0}, gids |-> {20}], [uids |-> {}, gids |-> {}]}
=============================================================================
