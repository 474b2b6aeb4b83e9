----------------------------- MODULE HttpClient -----------------------------
(***************************************************************************)
(* dovetail_http_client: requests that share one token store and one       *)
(* refresh lock, against a server whose refresh tokens are good once.      *)
(*                                                                         *)
(* A grant of the server is a number: grant n is access token n with       *)
(* refresh token n, and None is no token.  The refresher, the server and   *)
(* the network are external: the refresher does what the trait asks of it  *)
(* (present the stored refresh token, store both tokens it is given), the  *)
(* server may expire a token or end the session at any time, and a send    *)
(* may go unanswered before or after the server did the work.              *)
(***************************************************************************)
EXTENDS Naturals, FiniteSets

CONSTANTS
    Requests,     \* the calls an application makes
    Statuses,     \* HTTP statuses the server answers with
    MaxRetries,   \* ClientConfig::max_retries
    MaxGrant,     \* bound: grants the server makes
    Nobody

ASSUME HttpClientAssumption ==
    /\ Statuses \subseteq 100..599 /\ {200, 401} \subseteq Statuses
    /\ MaxRetries \in Nat
    /\ MaxGrant \in Nat \ {0}
    /\ Nobody \notin Requests

VARIABLES
    conf,         \* which TokenStore, and whether a refresher was given
    req,          \* req[r]: the future of call r
    lock,         \* refresh_lock
    store,        \* the two entries of the token store
    logout,       \* how far clear_token has come
    server,       \* [session, access]: the tokens it takes
    grants,       \* grants made so far
    log           \* observation, see Init

vars == <<conf, req, lock, store, logout, server, grants, log>>

None == 0

\* The verbs that go through request, and so refresh and retry; a call of any
\* other kind is sent once.  Those named unauth carry no bearer.
Verbs == {"auth", "unauth"}
Kinds == Verbs \cup {"put", "multipart", "bytes", "bytes_unauth"}
WithBearer == Kinds \ {"unauth", "bytes_unauth"}

\* What each kind makes of an answer with a status of success: execute_once
\* decodes it, put_no_content does not look at the body, get_bytes reads at
\* most max_bytes of it.
ExecuteOnce == {"ok", "decode"}
PutNoContent == {"ok"}
PostMultipartFile == {"ok", "decode"}
BytesAt == {"ok", "broken", "internal"}
Success(kind) ==
    CASE kind \in Verbs -> ExecuteOnce
      [] kind = "put" -> PutNoContent
      [] kind = "multipart" -> PostMultipartFile
      [] OTHER -> BytesAt

Stores == {"memory", "keyring"}
TransportErrors == {"timeout", "broken"}

\* map_status_error: what a status becomes.
MapStatus(s) ==
    CASE s \in 200..299 -> "ok"
      [] s = 401 -> "unauthorized"
      [] s = 403 -> "forbidden"
      [] s = 429 -> "too_many_requests"
      [] s \in 500..599 -> "server"
      [] OTHER -> "bad_request"

\* is_retryable: no answer in time, or an error of the server.
IsRetryable(e) == e \in {"timeout", "server"}

Results == {MapStatus(s) : s \in Statuses}
             \cup TransportErrors
             \cup {"decode", "internal", "missing_token", "token_store"}

TypeOK ==
    /\ conf \in [store : Stores, refresher : BOOLEAN]
    /\ req \in [Requests ->
                 [kind : Kinds,
                  pc : {"idle", "sent", "asleep", "refresh", "locked",
                        "granted", "half", "renewed", "done"},
                  bearer : 0..MaxGrant, grant : 0..MaxGrant, refreshed : BOOLEAN,
                  attempt : 0..MaxRetries, result : Results \cup {"none"},
                  sends : Nat, failed : Nat, refused : SUBSET (1..MaxGrant)]]
    /\ lock \in Requests \cup {Nobody}
    /\ store \in [access : 0..MaxGrant, refresh : 0..MaxGrant]
    /\ logout \in {"no", "midway", "over"}
    /\ server \in [session : 0..MaxGrant, access : 0..MaxGrant]
    /\ grants \in 0..MaxGrant

Init ==
    /\ conf \in [store : Stores, refresher : BOOLEAN]
    /\ \E kind \in [Requests -> Kinds] :
         req = [r \in Requests |->
                 [kind |-> kind[r], pc |-> "idle", bearer |-> None, grant |-> None,
                  refreshed |-> FALSE, attempt |-> 0, result |-> "none",
                  sends |-> 0,         \* observation: times it was sent,
                  failed |-> 0,        \* sends without an answer or with a 5xx,
                  refused |-> {}]]     \* bearers the server refused
    /\ lock = Nobody
    /\ store = [access |-> 1, refresh |-> 1]
    /\ logout = "no"
    /\ server = [session |-> 1, access |-> 1]
    /\ grants = 1
    /\ log = [spent |-> {},            \* refresh tokens that bought a grant
              reused |-> FALSE,        \* one of them was presented again
              wasted |-> FALSE]        \* a grant was made and not stored whole

Step(r, pc) == req' = [req EXCEPT ![r].pc = pc]
\* The call returns, and its locals are gone.
Ended(rec, result) ==
    [rec EXCEPT !.pc = "done", !.bearer = None, !.grant = None, !.attempt = 0,
                !.result = result, !.sends = 0, !.failed = 0]
Ends(r, result) == req' = [req EXCEPT ![r] = Ended(@, result)]
Releases(r) == lock' = IF lock = r THEN Nobody ELSE lock

\* The future sends (again): the answer is awaited under request_timeout.
Sends(r, rec) == req' = [req EXCEPT ![r] = [rec EXCEPT !.pc = "sent", !.sends = @ + 1]]

\* A keyring may refuse any access; a mutex around a value never does.
StoreFails == conf.store = "keyring"

-----------------------------------------------------------------------------
(* A call: request, put_no_content, post_multipart_file, get_bytes         *)

Start(r) ==
    /\ req[r].pc = "idle"
    /\ \/ req[r].kind \notin WithBearer /\ Sends(r, req[r])
       \/ /\ req[r].kind \in WithBearer
          /\ \/ store.access # None /\ Sends(r, [req[r] EXCEPT !.bearer = store.access])
             \/ store.access = None /\ Ends(r, "missing_token")
             \/ StoreFails /\ Ends(r, "token_store")
    /\ UNCHANGED <<conf, lock, store, logout, server, grants, log>>

\* execute_once returned e: the match on it.  The others return it as it is.
MayRefresh(rec, e) == rec.kind = "auth" /\ e = "unauthorized" /\ ~rec.refreshed
MayRetryAny(rec, e) ==
    /\ rec.kind \in Verbs /\ ~MayRefresh(rec, e)
    /\ e # "ok" /\ rec.attempt < MaxRetries
MayRetry(rec, e) ==
    /\ rec.kind \in Verbs /\ ~MayRefresh(rec, e)
    /\ IsRetryable(e) /\ rec.attempt < MaxRetries

Judge(r, rec, e) ==
    \/ /\ MayRefresh(rec, e) /\ conf.refresher
       /\ req' = [req EXCEPT ![r] = [rec EXCEPT !.pc = "refresh", !.refreshed = TRUE]]
    \/ /\ MayRetry(rec, e)
       /\ req' = [req EXCEPT ![r] = [rec EXCEPT !.pc = "asleep"]]
    \/ /\ ~(MayRefresh(rec, e) /\ conf.refresher) /\ ~MayRetry(rec, e)
       /\ req' = [req EXCEPT ![r] = Ended(rec, e)]

\* The server answers: a bearer it does not take is refused before any work.
Answer(r) ==
    /\ req[r].pc = "sent"
    /\ \E s \in Statuses :
         /\ (s = 401) <=> (req[r].kind \in WithBearer /\ req[r].bearer # server.access)
         /\ LET rec == [req[r] EXCEPT
                           !.failed = @ + (IF s \in 500..599 THEN 1 ELSE 0),
                           !.refused = @ \cup (IF s = 401 THEN {req[r].bearer} ELSE {})]
            IN  IF MapStatus(s) = "ok"
                  THEN \E e \in Success(rec.kind) : Judge(r, rec, e)
                  ELSE Judge(r, rec, MapStatus(s))
    /\ UNCHANGED <<conf, lock, store, logout, server, grants, log>>

\* No answer: connect or request timeout, or a body that breaks off.
NoAnswer(r) ==
    /\ req[r].pc = "sent"
    /\ \E e \in TransportErrors : Judge(r, [req[r] EXCEPT !.failed = @ + 1], e)
    /\ UNCHANGED <<conf, lock, store, logout, server, grants, log>>

\* The backoff is over.
Wake(r) ==
    /\ req[r].pc = "asleep"
    /\ Sends(r, [req[r] EXCEPT !.attempt = @ + 1])
    /\ UNCHANGED <<conf, lock, store, logout, server, grants, log>>

-----------------------------------------------------------------------------
(* refresh_session                                                         *)

TakeLockAnyway(r) ==
    /\ req[r].pc = "refresh"
    /\ Step(r, "locked") /\ lock' = r
    /\ UNCHANGED <<conf, store, logout, server, grants, log>>
TakeLock(r) ==
    /\ req[r].pc = "refresh" /\ lock = Nobody
    /\ Step(r, "locked") /\ lock' = r
    /\ UNCHANGED <<conf, store, logout, server, grants, log>>

\* Another call has renewed the session while this one waited.
Renewed(r) == store.access # None /\ store.access # req[r].bearer

UseStored(r) ==
    /\ req[r].pc = "locked" /\ Renewed(r)
    /\ Sends(r, [req[r] EXCEPT !.bearer = store.access])
    /\ Releases(r)
    /\ UNCHANGED <<conf, store, logout, server, grants, log>>

\* The store cannot be read, or the refresher fails with an error that says
\* nothing about the session: the call ends with that error.
RefreshErrs(r) ==
    /\ \/ req[r].pc \in {"locked", "renewed"} /\ StoreFails /\ Ends(r, "token_store")
       \/ req[r].pc = "locked" /\ ~Renewed(r) /\ Ends(r, "timeout")
    /\ Releases(r)
    /\ UNCHANGED <<conf, store, logout, server, grants, log>>

\* The refresher presents the stored refresh token.  None is stored, or the
\* server refuses it ...
RefreshRefused(r) ==
    /\ req[r].pc = "locked" /\ ~Renewed(r)
    /\ store.refresh # server.session \/ store.refresh = None
    /\ log' = [log EXCEPT !.reused = @ \/ store.refresh \in log.spent]
    /\ Ends(r, "unauthorized") /\ Releases(r)
    /\ UNCHANGED <<conf, store, logout, server, grants>>

\* ... or makes a grant, which may get lost on the way.
RefreshGranted(r) ==
    /\ req[r].pc = "locked" /\ ~Renewed(r)
    /\ store.refresh = server.session /\ store.refresh # None /\ grants < MaxGrant
    /\ grants' = grants + 1
    /\ server' = [session |-> grants', access |-> grants']
    /\ \/ /\ req' = [req EXCEPT ![r].pc = "granted", ![r].grant = grants']
          /\ log' = [log EXCEPT !.spent = @ \cup {store.refresh}]
          /\ UNCHANGED lock
       \/ /\ Ends(r, "timeout") /\ Releases(r)
          /\ log' = [log EXCEPT !.spent = @ \cup {store.refresh}, !.wasted = TRUE]
    /\ UNCHANGED <<conf, store, logout>>

\* The refresher stores the access token, then the refresh token.
StoreGrant(r) ==
    /\ \/ /\ req[r].pc = "granted"
          /\ store' = [store EXCEPT !.access = req[r].grant] /\ Step(r, "half")
       \/ /\ req[r].pc = "half"
          /\ store' = [store EXCEPT !.refresh = req[r].grant] /\ Step(r, "renewed")
    /\ UNCHANGED <<conf, lock, logout, server, grants, log>>

StoreGrantFails(r) ==
    /\ req[r].pc \in {"granted", "half"} /\ StoreFails
    /\ Ends(r, "token_store") /\ Releases(r)
    /\ log' = [log EXCEPT !.wasted = TRUE]
    /\ UNCHANGED <<conf, store, logout, server, grants>>

\* refresh() returned: the call goes on with what the store now holds.
UseSameBearer(r) ==
    /\ req[r].pc = "renewed"
    /\ Sends(r, req[r]) /\ Releases(r)
    /\ UNCHANGED <<conf, store, logout, server, grants, log>>
UseRenewed(r) ==
    /\ req[r].pc = "renewed"
    /\ \/ store.access # None /\ Sends(r, [req[r] EXCEPT !.bearer = store.access])
       \/ store.access = None /\ Ends(r, "unauthorized")
    /\ Releases(r)
    /\ UNCHANGED <<conf, store, logout, server, grants, log>>

\* The application drops the future at an await: its guard goes with it.
CancelKeepsLock(r) ==
    /\ req[r].pc \notin {"idle", "done"}
    /\ Ends(r, "none") /\ UNCHANGED lock
    /\ log' = [log EXCEPT !.wasted = @ \/ req[r].pc \in {"granted", "half"}]
    /\ UNCHANGED <<conf, store, logout, server, grants>>
Cancel(r) ==
    /\ req[r].pc \notin {"idle", "done"}
    /\ Ends(r, "none") /\ Releases(r)
    /\ log' = [log EXCEPT !.wasted = @ \/ req[r].pc \in {"granted", "half"}]
    /\ UNCHANGED <<conf, store, logout, server, grants>>

-----------------------------------------------------------------------------
(* The store is cleared, and the server changes its mind                   *)

\* clear_token: in memory the access token goes first, in a keyring the refresh
\* token, and a keyring that refuses to delete one ends it there.
ClearEntry ==
    IF logout = "no" THEN [store EXCEPT !.refresh = None] ELSE [store EXCEPT !.access = None]
ClearToken ==
    /\ logout # "over"
    /\ \/ /\ conf.store = "memory"
          /\ store' = IF logout = "no" THEN [store EXCEPT !.access = None]
                                       ELSE [store EXCEPT !.refresh = None]
          /\ logout' = IF logout = "no" THEN "midway" ELSE "over"
       \/ /\ conf.store = "keyring"
          /\ store' = ClearEntry
          /\ logout' = IF logout = "no" THEN "midway" ELSE "over"
       \/ StoreFails /\ logout' = "over" /\ UNCHANGED store
    /\ UNCHANGED <<conf, req, lock, server, grants, log>>

Expire ==
    /\ server.access # None
    /\ server' = [server EXCEPT !.access = None]
    /\ UNCHANGED <<conf, req, lock, store, logout, grants, log>>

Revoke ==
    /\ server.session # None
    /\ server' = [session |-> None, access |-> None]
    /\ UNCHANGED <<conf, req, lock, store, logout, grants, log>>

Runs(r) ==
    \/ Start(r) \/ Answer(r) \/ NoAnswer(r) \/ Wake(r)
    \/ TakeLock(r) \/ UseStored(r) \/ RefreshErrs(r) \/ RefreshRefused(r)
    \/ RefreshGranted(r) \/ StoreGrant(r) \/ StoreGrantFails(r) \/ UseRenewed(r)

Next ==
    \/ \E r \in Requests : Runs(r) \/ Cancel(r)
    \/ ClearToken \/ Expire \/ Revoke

\* The runtime polls every future that is ready; request_timeout bounds every
\* send, the refresher's own included.
Fairness == \A r \in Requests : WF_vars(req[r].pc # "idle" /\ Runs(r))

Spec == Init /\ [][Next]_vars /\ Fairness

-----------------------------------------------------------------------------
(* Properties                                                              *)

\* README, "refresh on 401, serialized by a lock": however many calls are
\* refused at once, a refresh token is presented twice only after a grant was
\* made that never reached the store whole (its answer lost, its call dropped
\* in refresh_session, or a write refused by the keyring).
RefreshTokenSpentOnce == log.reused => log.wasted

\* An authenticated verb of request (get, post, patch, delete_with_body) of a
\* client with a refresher reports Unauthorized only when the session is lost:
\* the user logged out, the server revoked it, a grant was wasted, or the
\* server refused two different tokens of this one call.  Only those verbs
\* refresh: put_no_content, post_multipart_file and get_bytes carry the bearer
\* too, but report Unauthorized as soon as it has expired, so the application
\* cannot tell an expiry from the end of the session by them.
SessionLossReal ==
    \A r \in Requests :
      req[r].pc = "done" /\ req[r].result = "unauthorized"
        /\ req[r].kind = "auth" /\ conf.refresher =>
        \/ logout # "no" \/ server.session = None \/ log.wasted
        \/ Cardinality(req[r].refused) >= 2

\* Every send after the first is paid for by a refresh or by one of at most
\* MaxRetries failures (no answer, or a 5xx), never by an answer: so the server
\* works twice on a call only after an answer of it was lost or was a 5xx.
EverySendPaid ==
    \A r \in Requests :
      /\ req[r].sends <= 1 + (IF req[r].refreshed THEN 1 ELSE 0)
                           + (IF req[r].failed < MaxRetries THEN req[r].failed
                                                            ELSE MaxRetries)
      /\ req[r].kind \notin Verbs => req[r].sends <= 1

\* A call that has started ends, whoever holds the refresh lock, however the
\* server and the network behave, and although the holder may be dropped.
RequestsEnd == \A r \in Requests : req[r].pc # "idle" ~> req[r].pc = "done"
=============================================================================
