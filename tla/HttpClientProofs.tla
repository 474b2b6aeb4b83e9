-------------------------- MODULE HttpClientProofs --------------------------
(***************************************************************************)
(* What the calls of one client promise each other, for any number of      *)
(* calls, statuses, retries and grants.                                    *)
(*                                                                         *)
(* The inductive invariant has four ideas.  The refresh lock is held by    *)
(* exactly the call that is between "locked" and "renewed".  While a grant *)
(* is on its way to the store, its holder has the newest one, so nobody    *)
(* else can spend or store anything.  Otherwise, if no grant was wasted,   *)
(* the stored refresh token is the one the server takes.  And a call that  *)
(* has refreshed carries a bearer other than one the server refused it.    *)
(***************************************************************************)
EXTENDS HttpClient, FiniteSetTheorems, TLAPS

Holding == {"locked", "granted", "half", "renewed"}
Refreshing == Holding \cup {"refresh"}
UnderWay == {"sent", "asleep"}

Points == {"idle", "sent", "asleep", "refresh", "locked", "granted", "half",
           "renewed", "done"}
Tokens == 0..MaxGrant
TokenSets == SUBSET (1..MaxGrant)
Attempts == 0..MaxRetries
Outcomes == Results \cup {"none"}

CallRec ==
    [kind : Kinds, pc : Points, bearer : Tokens, grant : Tokens,
     refreshed : BOOLEAN, attempt : Attempts, result : Outcomes,
     sends : Nat, failed : Nat, refused : TokenSets]

LogOK ==
    log \in [spent : SUBSET (1..MaxGrant), reused : BOOLEAN, wasted : BOOLEAN]

LockHeld == \A r \in Requests : req[r].pc \in Holding <=> lock = r

\* The account of one call's sends: what it did not pay for with the one
\* refresh it paid for with an attempt, and every attempt with a failure.
Paid(rec) ==
    /\ rec.attempt <= rec.failed
    /\ rec.sends <= 1 + rec.attempt + (IF rec.refreshed THEN 1 ELSE 0)
    /\ rec.pc \in Refreshing => rec.refreshed /\ rec.sends <= 1 + rec.attempt
    /\ rec.pc = "asleep" => rec.attempt < rec.failed /\ rec.attempt < MaxRetries
    /\ rec.pc = "idle" => rec.sends = 0 /\ ~rec.refreshed /\ rec.attempt = 0
    /\ rec.kind \notin Verbs => rec.pc \in {"idle", "sent", "done"} /\ rec.sends <= 1

\* The bearers of one call: the one it carries is a token, and when it has
\* refreshed, or is about to, the server has refused it one before.
Bearers(rec) ==
    /\ rec.kind \in WithBearer /\ rec.pc \in UnderWay \cup Refreshing =>
          rec.bearer # None
    /\ rec.pc \in Refreshing => rec.kind = "auth" /\ rec.bearer \in rec.refused
    /\ rec.pc \in UnderWay /\ rec.refreshed => \E b \in rec.refused : b # rec.bearer

CallsInv == \A r \in Requests : Paid(req[r]) /\ Bearers(req[r])

\* Nothing anybody holds is newer than the last grant, and the call that got
\* it is the only one to write it.
GrantsInv ==
    /\ grants # 0
    /\ store.access <= grants /\ store.refresh <= grants
    /\ server.session \in {None, grants}
    /\ \A t \in log.spent : t < grants
    /\ \A r \in Requests :
          /\ req[r].bearer <= grants
          /\ req[r].pc \in {"granted", "half", "renewed"} =>
                req[r].grant = grants /\ req[r].bearer < grants
          /\ req[r].pc \in {"half", "renewed"} =>
                \/ store.access = grants
                \/ store.access = None /\ logout # "no"

\* A grant has been made that is not yet stored whole.
MidGrant == \E r \in Requests : req[r].pc \in {"granted", "half"}

StoreInv ==
    ~log.wasted /\ ~MidGrant =>
        /\ store.refresh \notin log.spent
        /\ logout = "no" /\ server.session # None => store.refresh = server.session

\* SessionLossReal, with the two refused tokens themselves.
LossInv ==
    \A r \in Requests :
      req[r].pc = "done" /\ req[r].result = "unauthorized"
        /\ req[r].kind = "auth" /\ conf.refresher =>
        \/ logout # "no" \/ server.session = None \/ log.wasted
        \/ \E a, b \in req[r].refused : a # b

HttpInv ==
    /\ TypeOK /\ LogOK
    /\ LockHeld
    /\ CallsInv
    /\ GrantsInv
    /\ StoreInv
    /\ LossInv
    /\ RefreshTokenSpentOnce

-----------------------------------------------------------------------------
(* The operators                                                           *)

LEMMA StatusFacts ==
  /\ \A s \in Statuses :
       /\ MapStatus(s) \in Results
       /\ MapStatus(s) = "unauthorized" <=> s = 401
       /\ MapStatus(s) = "server" => s \in 500..599
       /\ MapStatus(s) \notin TransportErrors
  /\ {"ok", "unauthorized"} \cup TransportErrors
       \cup {"decode", "internal", "missing_token", "token_store"} \subseteq Results
  /\ \A kind \in Kinds : \A e \in Success(kind) :
       e \in Results /\ e # "unauthorized" /\ ~IsRetryable(e)
<1> USE HttpClientAssumption
<1>1. \A s \in Statuses :
       /\ MapStatus(s) \in Results
       /\ MapStatus(s) = "unauthorized" <=> s = 401
       /\ MapStatus(s) = "server" => s \in 500..599
       /\ MapStatus(s) \notin TransportErrors
  <2> SUFFICES ASSUME NEW s \in Statuses
               PROVE  /\ MapStatus(s) \in Results
                      /\ MapStatus(s) = "unauthorized" <=> s = 401
                      /\ MapStatus(s) = "server" => s \in 500..599
                      /\ MapStatus(s) \notin TransportErrors
    OBVIOUS
  <2>1. MapStatus(s) \in Results
    BY DEF Results
  <2>2. s \in Nat
    OBVIOUS
  <2>3. /\ MapStatus(s) = "unauthorized" <=> s = 401
        /\ MapStatus(s) = "server" => s \in 500..599
        /\ MapStatus(s) \notin {"timeout", "broken"}
    BY <2>2 DEF MapStatus
  <2> QED BY <2>1, <2>3 DEF TransportErrors
<1>2. MapStatus(200) = "ok" /\ MapStatus(401) = "unauthorized"
  BY DEF MapStatus
<1>3. {"ok", "unauthorized"} \cup TransportErrors
       \cup {"decode", "internal", "missing_token", "token_store"} \subseteq Results
  BY <1>2 DEF Results
<1>4. \A kind \in Kinds : \A e \in Success(kind) :
       e \in Results /\ e # "unauthorized" /\ ~IsRetryable(e)
  BY <1>3 DEF Success, ExecuteOnce, PutNoContent, PostMultipartFile, BytesAt,
              IsRetryable, TransportErrors
<1> QED BY <1>1, <1>3, <1>4

LEMMA ValueFacts ==
  /\ None \in Tokens /\ 0 \in Attempts
  /\ {"unauthorized", "timeout", "missing_token", "token_store", "none"} \subseteq Outcomes
  /\ Results \subseteq Outcomes
BY HttpClientAssumption, StatusFacts
   DEF None, Tokens, Attempts, Outcomes, TransportErrors

\* The updates a step makes to the state of a call.
LEMMA CallUpdates ==
  ASSUME NEW rec \in CallRec
  PROVE  /\ \A pc \in Points : [rec EXCEPT !.pc = pc] \in CallRec
         /\ \A pc \in Points : [rec EXCEPT !.pc = pc, !.refreshed = TRUE] \in CallRec
         /\ \A t \in Tokens : [rec EXCEPT !.bearer = t] \in CallRec
         /\ \A pc \in Points, t \in Tokens :
              [rec EXCEPT !.pc = pc, !.grant = t] \in CallRec
         /\ [rec EXCEPT !.pc = "sent", !.sends = @ + 1] \in CallRec
         /\ \A e \in Outcomes : Ended(rec, e) \in CallRec
<1>1. "done" \in Points /\ "sent" \in Points
  BY DEF Points
<1>2. \A pc \in Points : [rec EXCEPT !.pc = pc] \in CallRec
  BY DEF CallRec
<1>3. \A pc \in Points : [rec EXCEPT !.pc = pc, !.refreshed = TRUE] \in CallRec
  BY DEF CallRec
<1>4. \A t \in Tokens : [rec EXCEPT !.bearer = t] \in CallRec
  BY DEF CallRec
<1>5. \A pc \in Points, t \in Tokens : [rec EXCEPT !.pc = pc, !.grant = t] \in CallRec
  BY DEF CallRec
<1>6. [rec EXCEPT !.pc = "sent", !.sends = @ + 1] \in CallRec
  <2>1. rec.sends + 1 \in Nat
    BY DEF CallRec
  <2>2. [rec EXCEPT !.pc = "sent"].sends = rec.sends
    BY DEF CallRec
  <2>3. \A n \in Nat : [rec EXCEPT !.pc = "sent", !.sends = n] \in CallRec
    BY <1>1 DEF CallRec
  <2> QED BY <2>1, <2>2, <2>3
<1>7. \A e \in Outcomes : Ended(rec, e) \in CallRec
  BY <1>1, ValueFacts DEF CallRec, Ended
<1> QED BY <1>2, <1>3, <1>4, <1>5, <1>6, <1>7

\* A call that has ended owes nothing.
LEMMA EndedFacts ==
  ASSUME NEW rec \in CallRec, NEW e \in Outcomes
  PROVE  /\ Ended(rec, e) \in CallRec
         /\ Ended(rec, e).pc = "done" /\ Ended(rec, e).bearer = None
         /\ Ended(rec, e).kind = rec.kind /\ Ended(rec, e).result = e
         /\ Ended(rec, e).refused = rec.refused
         /\ Paid(Ended(rec, e)) /\ Bearers(Ended(rec, e))
<1> DEFINE nr == Ended(rec, e)
<1>1. nr \in CallRec
  BY CallUpdates
<1>2. /\ nr.pc = "done" /\ nr.bearer = None /\ nr.kind = rec.kind
      /\ nr.result = e /\ nr.refused = rec.refused
      /\ nr.attempt = 0 /\ nr.sends = 0 /\ nr.failed = 0
  BY DEF CallRec, Ended
<1> HIDE DEF nr
<1>3. Paid(nr)
  BY <1>2 DEF Paid, Refreshing, Holding
<1>4. Bearers(nr)
  BY <1>2 DEF Bearers, Refreshing, Holding, UnderWay
<1> QED BY <1>1, <1>2, <1>3, <1>4 DEF nr

\* Two different members make a finite set of at least two.
LEMMA TwoMembers ==
  ASSUME NEW S \in SUBSET (1..MaxGrant), NEW a \in S, NEW b \in S, a # b
  PROVE  Cardinality(S) >= 2
<1>1. IsFiniteSet(1..MaxGrant)
  BY FS_Interval, HttpClientAssumption
<1>2. IsFiniteSet(S)
  BY <1>1, FS_Subset
<1>3. IsFiniteSet({a}) /\ Cardinality({a}) = 1
  BY FS_Singleton
<1>4. Cardinality({a} \cup {b}) = 2
  BY <1>3, FS_AddElement
<1>5. {a} \cup {b} \in SUBSET S
  OBVIOUS
<1>6. Cardinality({a} \cup {b}) <= Cardinality(S)
  BY <1>2, <1>5, FS_Subset
<1>7. Cardinality(S) \in Nat
  BY <1>2, FS_CardinalityType
<1> QED BY <1>4, <1>6, <1>7

\* What becomes of a call when execute_once returned e: it goes to refresh, to
\* sleep or to its end, with its sends and its bearers accounted for.
LEMMA JudgeMoves ==
  ASSUME NEW r \in Requests, NEW rec \in CallRec, NEW e \in Results,
         Judge(r, rec, e), rec.pc = "sent", Paid(rec), Bearers(rec),
         IsRetryable(e) => rec.attempt < rec.failed,
         e = "unauthorized" /\ rec.kind = "auth" => rec.bearer \in rec.refused
  PROVE  \E nr \in CallRec :
            /\ req' = [req EXCEPT ![r] = nr]
            /\ Paid(nr) /\ Bearers(nr)
            /\ nr.bearer \in {rec.bearer, None}
            /\ nr.pc \in {"refresh", "asleep", "done"}
            /\ nr.pc = "done" /\ nr.result = "unauthorized"
                 /\ nr.kind = "auth" /\ conf.refresher =>
                 \E a, b \in nr.refused : a # b
<1>0. {"refresh", "asleep"} \subseteq Points /\ e \in Outcomes
  BY ValueFacts DEF Points
<1>1. CASE /\ MayRefresh(rec, e) /\ conf.refresher
           /\ req' = [req EXCEPT ![r] = [rec EXCEPT !.pc = "refresh", !.refreshed = TRUE]]
  <2> DEFINE nr == [rec EXCEPT !.pc = "refresh", !.refreshed = TRUE]
  <2>1. nr \in CallRec
    BY <1>0, CallUpdates
  <2>2. /\ nr.pc = "refresh" /\ nr.refreshed = TRUE /\ nr.kind = rec.kind
        /\ nr.bearer = rec.bearer /\ nr.refused = rec.refused
        /\ nr.attempt = rec.attempt /\ nr.sends = rec.sends /\ nr.failed = rec.failed
    BY DEF CallRec
  <2>3. req' = [req EXCEPT ![r] = nr]
    BY <1>1
  <2> HIDE DEF nr
  <2>4. Paid(nr)
    <3>1. rec.attempt \in Nat /\ rec.sends \in Nat /\ rec.failed \in Nat
      BY HttpClientAssumption DEF CallRec, Attempts
    <3>2. rec.kind = "auth" /\ ~rec.refreshed
      BY <1>1 DEF MayRefresh
    <3> QED BY <2>2, <3>1, <3>2 DEF Paid, Refreshing, Holding, Verbs
  <2>5. Bearers(nr)
    BY <1>1, <2>2 DEF Bearers, MayRefresh, Refreshing, Holding, UnderWay
  <2> QED BY <2>1, <2>2, <2>3, <2>4, <2>5
<1>2. CASE /\ MayRetry(rec, e)
           /\ req' = [req EXCEPT ![r] = [rec EXCEPT !.pc = "asleep"]]
  <2> DEFINE nr == [rec EXCEPT !.pc = "asleep"]
  <2>1. nr \in CallRec
    BY <1>0, CallUpdates
  <2>2. /\ nr.pc = "asleep" /\ nr.refreshed = rec.refreshed /\ nr.kind = rec.kind
        /\ nr.bearer = rec.bearer /\ nr.refused = rec.refused
        /\ nr.attempt = rec.attempt /\ nr.sends = rec.sends /\ nr.failed = rec.failed
    BY DEF CallRec
  <2>3. req' = [req EXCEPT ![r] = nr]
    BY <1>2
  <2> HIDE DEF nr
  <2>4. Paid(nr)
    BY <1>2, <2>2 DEF Paid, MayRetry, Refreshing, Holding
  <2>5. Bearers(nr)
    BY <2>2 DEF Bearers, Refreshing, Holding, UnderWay
  <2> QED BY <2>1, <2>2, <2>3, <2>4, <2>5
<1>3. CASE /\ ~(MayRefresh(rec, e) /\ conf.refresher) /\ ~MayRetry(rec, e)
           /\ req' = [req EXCEPT ![r] = Ended(rec, e)]
  <2> DEFINE nr == Ended(rec, e)
  <2>1. /\ nr \in CallRec
        /\ nr.pc = "done" /\ nr.bearer = None /\ nr.kind = rec.kind
        /\ nr.result = e /\ nr.refused = rec.refused
        /\ Paid(nr) /\ Bearers(nr)
    BY <1>0, EndedFacts
  <2>2. req' = [req EXCEPT ![r] = nr]
    BY <1>3
  <2> HIDE DEF nr
  <2>3. nr.result = "unauthorized" /\ nr.kind = "auth" /\ conf.refresher =>
          \E a, b \in nr.refused : a # b
    BY <1>3, <2>1 DEF MayRefresh, Bearers, UnderWay
  <2> QED BY <2>1, <2>2, <2>3
<1> QED BY <1>1, <1>2, <1>3 DEF Judge

-----------------------------------------------------------------------------
(* Steps of one call                                                       *)

\* TypeOK, with the state of a call as a set of its own.
Typed ==
    /\ conf \in [store : Stores, refresher : BOOLEAN]
    /\ req \in [Requests -> CallRec]
    /\ lock \in Requests \cup {Nobody}
    /\ store \in [access : Tokens, refresh : Tokens]
    /\ logout \in {"no", "midway", "over"}
    /\ server \in [session : Tokens, access : Tokens]
    /\ grants \in Tokens

LEMMA TypeRestated == (TypeOK <=> Typed) /\ (TypeOK' <=> Typed')
BY DEF TypeOK, Typed, CallRec, Points, Tokens, TokenSets, Attempts, Outcomes

\* Call r goes on as nr, and the lock goes with it.
Moves(r, nr) ==
    /\ nr \in CallRec /\ Paid(nr) /\ Bearers(nr)
    /\ req' = [req EXCEPT ![r] = nr]
    /\ lock' \in Requests \cup {Nobody}
    /\ \A q \in Requests \ {r} : lock' = q <=> lock = q
    /\ nr.pc \in Holding <=> lock' = r

LEMMA CallMoves ==
  ASSUME HttpInv, NEW r \in Requests, NEW nr, Moves(r, nr)
  PROVE  /\ req' \in [Requests -> CallRec]
         /\ req'[r] = nr
         /\ \A q \in Requests \ {r} : req'[q] = req[q]
         /\ CallsInv'
         /\ LockHeld'
<1>1. /\ req' \in [Requests -> CallRec]
      /\ req'[r] = nr
      /\ \A q \in Requests \ {r} : req'[q] = req[q]
  BY TypeRestated DEF HttpInv, Typed, Moves
<1>2. \A q \in Requests : Paid(req'[q]) /\ Bearers(req'[q])
  BY <1>1 DEF HttpInv, Moves, CallsInv
<1>3. CallsInv'
  BY <1>2 DEF CallsInv, Paid, Bearers
<1>4. LockHeld'
  BY <1>1 DEF HttpInv, Moves, LockHeld
<1> QED BY <1>1, <1>3, <1>4

\* A step of a call that neither makes nor stores a grant keeps the
\* invariant, if it wastes no grant silently.
LEMMA QuietMoves ==
  ASSUME HttpInv, NEW r \in Requests, NEW nr, Moves(r, nr),
         UNCHANGED <<conf, store, logout, server, grants>>,
         LogOK', log'.spent = log.spent, log.wasted => log'.wasted,
         log'.reused => log'.wasted,
         req[r].pc \in {"granted", "half"} => log'.wasted,
         nr.pc \notin {"granted", "half", "renewed"},
         nr.bearer <= grants,
         nr.pc = "done" /\ nr.result = "unauthorized"
             /\ nr.kind = "auth" /\ conf.refresher =>
           \/ logout # "no" \/ server.session = None \/ log.wasted
           \/ \E a, b \in nr.refused : a # b
  PROVE  HttpInv'
<1>1. /\ req' \in [Requests -> CallRec]
      /\ req'[r] = nr
      /\ \A q \in Requests \ {r} : req'[q] = req[q]
      /\ CallsInv' /\ LockHeld'
  BY CallMoves
<1>2. TypeOK'
  BY <1>1, TypeRestated DEF HttpInv, Typed, Moves
<1>3. GrantsInv'
  BY <1>1 DEF HttpInv, GrantsInv
<1>4. StoreInv'
  <2>1. ~log'.wasted /\ ~MidGrant' => ~log.wasted /\ ~MidGrant
    BY <1>1 DEF MidGrant
  <2> QED BY <2>1 DEF HttpInv, StoreInv
<1>5. LossInv'
  BY <1>1 DEF HttpInv, LossInv
<1>6. RefreshTokenSpentOnce'
  BY DEF RefreshTokenSpentOnce
<1> QED BY <1>1, <1>2, <1>3, <1>4, <1>5, <1>6 DEF HttpInv

\* What the invariant says of one call.
LEMMA CallNow ==
  ASSUME HttpInv, NEW r \in Requests
  PROVE  /\ req[r] \in CallRec /\ Paid(req[r]) /\ Bearers(req[r])
         /\ req[r].pc \in Points
         /\ req[r].attempt \in Nat /\ req[r].sends \in Nat /\ req[r].failed \in Nat
         /\ req[r].bearer \in Tokens /\ req[r].bearer <= grants
         /\ req[r].pc \in Holding <=> lock = r
<1>1. req[r] \in CallRec
  BY TypeRestated DEF HttpInv, Typed
<1>2. /\ req[r].pc \in Points
      /\ req[r].attempt \in Nat /\ req[r].sends \in Nat /\ req[r].failed \in Nat
      /\ req[r].bearer \in Tokens
  BY <1>1, HttpClientAssumption DEF CallRec, Attempts
<1> QED BY <1>1, <1>2 DEF HttpInv, CallsInv, GrantsInv, LockHeld

\* A call sends: it has paid, and its bearer was not refused to it before.
LEMMA SendMoves ==
  ASSUME HttpInv, NEW r \in Requests, NEW rec \in CallRec,
         Sends(r, rec), Releases(r),
         UNCHANGED <<conf, store, logout, server, grants, log>>,
         req[r].pc \notin {"granted", "half"},
         rec.attempt <= rec.failed,
         rec.sends <= rec.attempt + (IF rec.refreshed THEN 1 ELSE 0),
         rec.kind \notin Verbs => rec.sends = 0,
         rec.kind \in WithBearer => rec.bearer # None,
         rec.refreshed => \E b \in rec.refused : b # rec.bearer,
         rec.bearer <= grants
  PROVE  HttpInv'
<1> DEFINE nr == [rec EXCEPT !.pc = "sent", !.sends = @ + 1]
<1>1. nr \in CallRec
  BY CallUpdates
<1>2. /\ nr.pc = "sent" /\ nr.sends = rec.sends + 1 /\ nr.kind = rec.kind
      /\ nr.bearer = rec.bearer /\ nr.refused = rec.refused
      /\ nr.refreshed = rec.refreshed
      /\ nr.attempt = rec.attempt /\ nr.failed = rec.failed
  BY DEF CallRec
<1>3. req' = [req EXCEPT ![r] = nr]
  BY DEF Sends
<1> HIDE DEF nr
<1>4. rec.attempt \in Nat /\ rec.sends \in Nat /\ rec.failed \in Nat
  BY HttpClientAssumption DEF CallRec, Attempts
<1>5. Paid(nr)
  BY <1>2, <1>4 DEF Paid, Refreshing, Holding
<1>6. Bearers(nr)
  BY <1>2 DEF Bearers, Refreshing, Holding, UnderWay
<1>7. /\ lock' \in Requests \cup {Nobody}
      /\ \A q \in Requests \ {r} : lock' = q <=> lock = q
      /\ lock' # r
  BY TypeRestated, HttpClientAssumption DEF HttpInv, Typed, Releases
<1>8. Moves(r, nr)
  BY <1>1, <1>2, <1>3, <1>5, <1>6, <1>7 DEF Moves, Holding
<1>9. LogOK' /\ (log'.reused => log'.wasted)
  BY DEF HttpInv, LogOK, RefreshTokenSpentOnce
<1> QED BY <1>2, <1>8, <1>9, QuietMoves

\* A call returns, and drops the guard of the lock if it has it.
LEMMA EndMoves ==
  ASSUME HttpInv, NEW r \in Requests, NEW e \in Outcomes,
         Ends(r, e), Releases(r),
         UNCHANGED <<conf, store, logout, server, grants>>,
         LogOK', log'.spent = log.spent, log.wasted => log'.wasted,
         log'.reused => log'.wasted,
         req[r].pc \in {"granted", "half"} => log'.wasted,
         e = "unauthorized" =>
           logout # "no" \/ server.session = None \/ log.wasted
  PROVE  HttpInv'
<1> DEFINE nr == Ended(req[r], e)
<1>1. /\ nr \in CallRec
      /\ nr.pc = "done" /\ nr.bearer = None /\ nr.result = e
      /\ Paid(nr) /\ Bearers(nr)
  BY EndedFacts, CallNow
<1>2. req' = [req EXCEPT ![r] = nr]
  BY DEF Ends
<1> HIDE DEF nr
<1>3. /\ lock' \in Requests \cup {Nobody}
      /\ \A q \in Requests \ {r} : lock' = q <=> lock = q
      /\ lock' # r
  BY TypeRestated, HttpClientAssumption DEF HttpInv, Typed, Releases
<1>4. Moves(r, nr)
  BY <1>1, <1>2, <1>3 DEF Moves, Holding
<1>5. nr.bearer <= grants
  BY <1>1, TypeRestated, HttpClientAssumption DEF HttpInv, Typed, Tokens, None
<1> QED BY <1>1, <1>4, <1>5, QuietMoves

\* An error of the store or of the network, or a dropped future.
LEMMA FailMoves ==
  ASSUME HttpInv, NEW r \in Requests,
         NEW e \in {"token_store", "missing_token", "timeout", "none"},
         Ends(r, e), Releases(r),
         UNCHANGED <<conf, store, logout, server, grants, log>>,
         req[r].pc \notin {"granted", "half"}
  PROVE  HttpInv'
<1>1. e \in Outcomes /\ e # "unauthorized"
  BY ValueFacts
<1>2. LogOK' /\ (log'.reused => log'.wasted)
  BY DEF HttpInv, LogOK, RefreshTokenSpentOnce
<1> QED BY <1>1, <1>2, EndMoves

-----------------------------------------------------------------------------
(* One lemma per action                                                    *)

\* The stored token becomes the bearer of a call.
LEMMA WithStored ==
  ASSUME HttpInv, NEW r \in Requests
  PROVE  LET rec == [req[r] EXCEPT !.bearer = store.access]
         IN  /\ rec \in CallRec
             /\ rec.bearer = store.access /\ rec.bearer <= grants
             /\ rec.kind = req[r].kind /\ rec.refreshed = req[r].refreshed
             /\ rec.refused = req[r].refused /\ rec.attempt = req[r].attempt
             /\ rec.sends = req[r].sends /\ rec.failed = req[r].failed
<1>1. store.access \in Tokens /\ store.access <= grants
  BY TypeRestated DEF HttpInv, Typed, GrantsInv
<1>2. req[r] \in CallRec
  BY CallNow
<1>3. [req[r] EXCEPT !.bearer = store.access] \in CallRec
  BY <1>1, <1>2, CallUpdates
<1> QED BY <1>1, <1>2, <1>3 DEF CallRec

LEMMA StartKeeps ==
  ASSUME HttpInv, NEW r \in Requests, Start(r)
  PROVE  HttpInv'
<1>1. /\ req[r] \in CallRec /\ Paid(req[r]) /\ req[r].pc = "idle"
      /\ req[r].failed \in Nat /\ req[r].bearer <= grants /\ lock # r
  BY CallNow DEF Start, Holding
<1>2. Releases(r)
  BY <1>1 DEF Start, Releases
<1>3. req[r].sends = 0 /\ req[r].attempt = 0 /\ ~req[r].refreshed
  BY <1>1 DEF Paid
<1>4. UNCHANGED <<conf, store, logout, server, grants, log>>
  BY DEF Start
<1>5. CASE req[r].kind \notin WithBearer /\ Sends(r, req[r])
  BY <1>1, <1>2, <1>3, <1>4, <1>5, SendMoves
<1>6. CASE /\ req[r].kind \in WithBearer
           /\ store.access # None /\ Sends(r, [req[r] EXCEPT !.bearer = store.access])
  <2> DEFINE rec == [req[r] EXCEPT !.bearer = store.access]
  <2>1. /\ rec \in CallRec
        /\ rec.bearer = store.access /\ rec.bearer <= grants
        /\ ~rec.refreshed /\ rec.attempt = 0 /\ rec.sends = 0
        /\ rec.failed = req[r].failed
    BY <1>3, WithStored
  <2>2. Sends(r, rec)
    BY <1>6
  <2> HIDE DEF rec
  <2> QED BY <1>1, <1>2, <1>4, <1>6, <2>1, <2>2, SendMoves
<1>7. CASE Ends(r, "missing_token")
  BY <1>1, <1>2, <1>4, <1>7, FailMoves
<1>8. CASE Ends(r, "token_store")
  BY <1>1, <1>2, <1>4, <1>8, FailMoves
<1> QED BY <1>5, <1>6, <1>7, <1>8 DEF Start

LEMMA WakeKeeps ==
  ASSUME HttpInv, NEW r \in Requests, Wake(r)
  PROVE  HttpInv'
<1> DEFINE rec == [req[r] EXCEPT !.attempt = @ + 1]
<1>1. /\ req[r] \in CallRec /\ Paid(req[r]) /\ Bearers(req[r]) /\ req[r].pc = "asleep"
      /\ req[r].attempt \in Nat /\ req[r].sends \in Nat /\ req[r].failed \in Nat
      /\ req[r].bearer <= grants /\ lock # r
  BY CallNow DEF Wake, Holding
<1>2. Releases(r) /\ UNCHANGED <<conf, store, logout, server, grants, log>>
  BY <1>1 DEF Wake, Releases
<1>3. req[r].attempt < req[r].failed /\ req[r].attempt < MaxRetries
  BY <1>1 DEF Paid
<1>4. req[r].attempt + 1 \in Attempts
  BY <1>1, <1>3, HttpClientAssumption DEF Attempts
<1>5. rec \in CallRec
  BY <1>1, <1>4 DEF CallRec
<1>6. /\ rec.attempt = req[r].attempt + 1
      /\ rec.kind = req[r].kind /\ rec.refreshed = req[r].refreshed
      /\ rec.refused = req[r].refused /\ rec.bearer = req[r].bearer
      /\ rec.sends = req[r].sends /\ rec.failed = req[r].failed
  BY <1>1 DEF CallRec
<1>7. Sends(r, rec)
  BY DEF Wake
<1> HIDE DEF rec
<1>8. /\ rec.attempt <= rec.failed
      /\ rec.sends <= rec.attempt + (IF rec.refreshed THEN 1 ELSE 0)
      /\ rec.kind \in Verbs
  BY <1>1, <1>3, <1>6 DEF Paid
<1>9. /\ rec.kind \in WithBearer => rec.bearer # None
      /\ rec.refreshed => \E b \in rec.refused : b # rec.bearer
  BY <1>1, <1>6 DEF Bearers, UnderWay
<1> QED BY <1>1, <1>2, <1>5, <1>6, <1>7, <1>8, <1>9, SendMoves

\* The three ways on from an answer, or from none.
LEMMA JudgeKeeps ==
  ASSUME HttpInv, NEW r \in Requests, NEW rec \in CallRec, NEW e \in Results,
         Judge(r, rec, e), req[r].pc = "sent",
         rec.pc = "sent", Paid(rec), Bearers(rec), rec.bearer = req[r].bearer,
         IsRetryable(e) => rec.attempt < rec.failed,
         e = "unauthorized" /\ rec.kind = "auth" => rec.bearer \in rec.refused,
         UNCHANGED <<conf, lock, store, logout, server, grants, log>>
  PROVE  HttpInv'
<1>1. PICK nr \in CallRec :
            /\ req' = [req EXCEPT ![r] = nr]
            /\ Paid(nr) /\ Bearers(nr)
            /\ nr.bearer \in {rec.bearer, None}
            /\ nr.pc \in {"refresh", "asleep", "done"}
            /\ nr.pc = "done" /\ nr.result = "unauthorized"
                 /\ nr.kind = "auth" /\ conf.refresher =>
                 \E a, b \in nr.refused : a # b
  BY JudgeMoves
<1>2. lock # r /\ req[r].bearer <= grants /\ grants \in Nat
  BY CallNow, TypeRestated, HttpClientAssumption DEF HttpInv, Typed, Tokens, Holding
<1>3. nr.bearer <= grants
  BY <1>1, <1>2 DEF None
<1>4. Moves(r, nr)
  BY <1>1, <1>2, TypeRestated DEF HttpInv, Typed, Moves, Holding
<1>5. LogOK' /\ (log'.reused => log'.wasted)
  BY DEF HttpInv, LogOK, RefreshTokenSpentOnce
<1> QED BY <1>1, <1>3, <1>4, <1>5, QuietMoves

LEMMA NoAnswerKeeps ==
  ASSUME HttpInv, NEW r \in Requests, NoAnswer(r)
  PROVE  HttpInv'
<1> DEFINE rec == [req[r] EXCEPT !.failed = @ + 1]
<1>1. PICK e \in TransportErrors : Judge(r, rec, e)
  BY DEF NoAnswer
<1>2. /\ req[r] \in CallRec /\ Paid(req[r]) /\ Bearers(req[r]) /\ req[r].pc = "sent"
      /\ req[r].attempt \in Nat /\ req[r].failed \in Nat
  BY CallNow DEF NoAnswer
<1>3. rec \in CallRec
  BY <1>2 DEF CallRec
<1>4. /\ rec.failed = req[r].failed + 1 /\ rec.pc = req[r].pc
      /\ rec.kind = req[r].kind /\ rec.refreshed = req[r].refreshed
      /\ rec.refused = req[r].refused /\ rec.bearer = req[r].bearer
      /\ rec.sends = req[r].sends /\ rec.attempt = req[r].attempt
  BY <1>2 DEF CallRec
<1> HIDE DEF rec
<1>5. Paid(rec) /\ rec.attempt < rec.failed
  BY <1>2, <1>4 DEF Paid, Refreshing, Holding
<1>6. Bearers(rec)
  BY <1>2, <1>4 DEF Bearers
<1>7. e \in Results /\ e # "unauthorized"
  BY StatusFacts DEF TransportErrors
<1> QED BY <1>1, <1>2, <1>3, <1>4, <1>5, <1>6, <1>7, JudgeKeeps DEF NoAnswer

LEMMA AnswerKeeps ==
  ASSUME HttpInv, NEW r \in Requests, Answer(r)
  PROVE  HttpInv'
<1> DEFINE Rec(s) == [req[r] EXCEPT
                        !.failed = @ + (IF s \in 500..599 THEN 1 ELSE 0),
                        !.refused = @ \cup (IF s = 401 THEN {req[r].bearer} ELSE {})]
<1>1. PICK s \in Statuses :
         /\ (s = 401) <=> (req[r].kind \in WithBearer /\ req[r].bearer # server.access)
         /\ IF MapStatus(s) = "ok"
              THEN \E e \in Success(Rec(s).kind) : Judge(r, Rec(s), e)
              ELSE Judge(r, Rec(s), MapStatus(s))
  BY DEF Answer
<1>2. /\ req[r] \in CallRec /\ Paid(req[r]) /\ Bearers(req[r]) /\ req[r].pc = "sent"
      /\ req[r].attempt \in Nat /\ req[r].failed \in Nat /\ req[r].bearer \in Tokens
  BY CallNow DEF Answer
<1>3. s = 401 => req[r].bearer \in 1..MaxGrant
  BY <1>1, <1>2, HttpClientAssumption DEF Bearers, UnderWay, None, Tokens
<1> DEFINE rec == Rec(s)
           more == IF s \in 500..599 THEN 1 ELSE 0
           also == IF s = 401 THEN {req[r].bearer} ELSE {}
<1>4. /\ req[r].failed + more \in Nat
      /\ req[r].refused \cup also \in TokenSets
      /\ req[r].kind \in Kinds
  BY <1>2, <1>3 DEF CallRec, TokenSets
<1>5. rec = [req[r] EXCEPT !.failed = req[r].failed + more,
                           !.refused = req[r].refused \cup also]
  BY <1>2 DEF CallRec
<1>6. /\ rec \in CallRec
      /\ rec.failed = req[r].failed + more /\ rec.pc = req[r].pc
      /\ rec.kind = req[r].kind /\ rec.refreshed = req[r].refreshed
      /\ rec.refused = req[r].refused \cup also /\ rec.bearer = req[r].bearer
      /\ rec.sends = req[r].sends /\ rec.attempt = req[r].attempt
  <2> HIDE DEF more, also, rec
  <2>1. rec \in CallRec
    BY <1>2, <1>4, <1>5 DEF CallRec
  <2> QED BY <1>2, <1>5, <2>1 DEF CallRec
<1>7. IF MapStatus(s) = "ok" THEN \E e \in Success(rec.kind) : Judge(r, rec, e)
                             ELSE Judge(r, rec, MapStatus(s))
  BY <1>1
<1> HIDE DEF rec, Rec
<1>8. Paid(rec)
  BY <1>2, <1>6 DEF Paid, Refreshing, Holding
<1>9. Bearers(rec)
  BY <1>2, <1>6 DEF Bearers, Refreshing, Holding
<1>10. UNCHANGED <<conf, lock, store, logout, server, grants, log>>
  BY DEF Answer
<1>11. CASE MapStatus(s) = "ok"
  <2>1. PICK e \in Success(rec.kind) : Judge(r, rec, e)
    BY <1>7, <1>11
  <2>2. e \in Results /\ e # "unauthorized" /\ ~IsRetryable(e)
    BY <1>4, <1>6, StatusFacts
  <2> QED BY <1>2, <1>6, <1>8, <1>9, <1>10, <2>1, <2>2, JudgeKeeps
<1>12. CASE MapStatus(s) # "ok"
  <2>1. MapStatus(s) \in Results
    BY StatusFacts
  <2>2. IsRetryable(MapStatus(s)) => rec.attempt < rec.failed
    BY <1>2, <1>6, StatusFacts DEF IsRetryable, TransportErrors, Paid
  <2>3. MapStatus(s) = "unauthorized" => rec.bearer \in rec.refused
    BY <1>6, StatusFacts
  <2> QED BY <1>2, <1>6, <1>7, <1>8, <1>9, <1>10, <1>12, <2>1, <2>2, <2>3, JudgeKeeps
<1> QED BY <1>11, <1>12

\* The lock has one holder, so no grant is under way beside it.
LEMMA OneHolder ==
  ASSUME HttpInv, NEW r \in Requests, req[r].pc \in Holding
  PROVE  /\ lock = r
         /\ \A q \in Requests \ {r} : req[q].pc \notin Holding
         /\ req[r].pc \in {"locked", "renewed"} => ~MidGrant
BY DEF HttpInv, LockHeld, Holding, MidGrant

LEMMA TakeLockKeeps ==
  ASSUME HttpInv, NEW r \in Requests, TakeLock(r)
  PROVE  HttpInv'
<1> DEFINE nr == [req[r] EXCEPT !.pc = "locked"]
<1>1. /\ req[r] \in CallRec /\ Paid(req[r]) /\ Bearers(req[r]) /\ req[r].pc = "refresh"
      /\ req[r].bearer <= grants
  BY CallNow DEF TakeLock
<1>2. nr \in CallRec
  BY <1>1, CallUpdates DEF Points
<1>3. /\ nr.pc = "locked" /\ nr.kind = req[r].kind /\ nr.refreshed = req[r].refreshed
      /\ nr.refused = req[r].refused /\ nr.bearer = req[r].bearer
      /\ nr.sends = req[r].sends /\ nr.attempt = req[r].attempt
      /\ nr.failed = req[r].failed
  BY <1>1 DEF CallRec
<1>4. req' = [req EXCEPT ![r] = nr]
  BY <1>1, TypeRestated DEF TakeLock, Step, HttpInv, Typed
<1> HIDE DEF nr
<1>5. Paid(nr)
  BY <1>1, <1>3 DEF Paid, Refreshing, Holding
<1>6. Bearers(nr)
  BY <1>1, <1>3 DEF Bearers, Refreshing, Holding, UnderWay
<1>7. Moves(r, nr)
  BY <1>2, <1>3, <1>4, <1>5, <1>6, HttpClientAssumption DEF TakeLock, Moves, Holding
<1>8. LogOK' /\ (log'.reused => log'.wasted)
  BY DEF TakeLock, HttpInv, LogOK, RefreshTokenSpentOnce
<1> QED BY <1>1, <1>3, <1>7, <1>8, QuietMoves DEF TakeLock

\* A call in the middle of its refresh sends with the stored token, which is
\* not the one it was refused.
LEMMA StoredMoves ==
  ASSUME HttpInv, NEW r \in Requests, req[r].pc \in {"locked", "renewed"},
         store.access # None, store.access # req[r].bearer,
         Sends(r, [req[r] EXCEPT !.bearer = store.access]), Releases(r),
         UNCHANGED <<conf, store, logout, server, grants, log>>
  PROVE  HttpInv'
<1> DEFINE rec == [req[r] EXCEPT !.bearer = store.access]
<1>1. /\ Paid(req[r]) /\ Bearers(req[r]) /\ req[r].pc \in Refreshing
      /\ req[r].attempt \in Nat /\ req[r].sends \in Nat /\ req[r].failed \in Nat
  BY CallNow DEF Refreshing, Holding
<1>2. /\ rec \in CallRec
      /\ rec.bearer = store.access /\ rec.bearer <= grants
      /\ rec.kind = req[r].kind /\ rec.refreshed = req[r].refreshed
      /\ rec.refused = req[r].refused /\ rec.attempt = req[r].attempt
      /\ rec.sends = req[r].sends /\ rec.failed = req[r].failed
  BY WithStored
<1>3. Sends(r, rec)
  OBVIOUS
<1> HIDE DEF rec
<1>4. /\ rec.attempt <= rec.failed
      /\ rec.sends <= rec.attempt + (IF rec.refreshed THEN 1 ELSE 0)
  BY <1>1, <1>2 DEF Paid
<1>5. rec.kind \in Verbs /\ rec.refused # {} /\ req[r].bearer \in rec.refused
  BY <1>1, <1>2 DEF Bearers, Verbs
<1> QED BY <1>2, <1>3, <1>4, <1>5, SendMoves

LEMMA UseStoredKeeps ==
  ASSUME HttpInv, NEW r \in Requests, UseStored(r)
  PROVE  HttpInv'
BY StoredMoves DEF UseStored, Renewed

LEMMA RefreshErrsKeeps ==
  ASSUME HttpInv, NEW r \in Requests, RefreshErrs(r)
  PROVE  HttpInv'
BY FailMoves DEF RefreshErrs

LEMMA RefreshRefusedKeeps ==
  ASSUME HttpInv, NEW r \in Requests, RefreshRefused(r)
  PROVE  HttpInv'
<1>1. req[r].pc = "locked" /\ ~MidGrant
  BY OneHolder DEF RefreshRefused, Holding
<1>2. log \in [spent : SUBSET (1..MaxGrant), reused : BOOLEAN, wasted : BOOLEAN]
  BY DEF HttpInv, LogOK
<1>3. /\ LogOK' /\ log'.spent = log.spent /\ log'.wasted = log.wasted
      /\ log'.reused = (log.reused \/ store.refresh \in log.spent)
  BY <1>2 DEF RefreshRefused, LogOK
<1>4. log'.reused => log'.wasted
  BY <1>1, <1>3 DEF HttpInv, StoreInv, RefreshTokenSpentOnce
<1>5. logout # "no" \/ server.session = None \/ log.wasted
  BY <1>1 DEF RefreshRefused, HttpInv, StoreInv
<1>6. "unauthorized" \in Outcomes
  BY ValueFacts
<1> QED BY <1>1, <1>3, <1>4, <1>5, <1>6, EndMoves DEF RefreshRefused

LEMMA UseRenewedKeeps ==
  ASSUME HttpInv, NEW r \in Requests, UseRenewed(r)
  PROVE  HttpInv'
<1>1. req[r].pc = "renewed" /\ Releases(r)
      /\ UNCHANGED <<conf, store, logout, server, grants, log>>
  BY DEF UseRenewed
<1>2. /\ req[r].bearer < grants
      /\ store.access = grants \/ (store.access = None /\ logout # "no")
  BY <1>1 DEF HttpInv, GrantsInv
<1>3. grants \in Nat /\ req[r].bearer \in Nat
  BY CallNow, TypeRestated, HttpClientAssumption DEF HttpInv, Typed, Tokens
<1>4. CASE store.access # None /\ Sends(r, [req[r] EXCEPT !.bearer = store.access])
  <2>1. store.access # req[r].bearer
    BY <1>2, <1>3, <1>4
  <2> QED BY <1>1, <1>4, <2>1, StoredMoves
<1>5. CASE store.access = None /\ Ends(r, "unauthorized")
  <2>1. logout # "no"
    BY <1>2, <1>5 DEF HttpInv, GrantsInv, None
  <2>2. LogOK' /\ (log'.reused => log'.wasted)
    BY <1>1 DEF HttpInv, LogOK, RefreshTokenSpentOnce
  <2>3. "unauthorized" \in Outcomes
    BY ValueFacts
  <2> QED BY <1>1, <1>5, <2>1, <2>2, <2>3, EndMoves
<1> QED BY <1>4, <1>5 DEF UseRenewed

\* A future is dropped, or a keyring refuses to take half a grant: the grant
\* is wasted.
LEMMA WasteMoves ==
  ASSUME HttpInv, NEW r \in Requests, NEW e \in {"none", "token_store"},
         NEW w \in BOOLEAN, Ends(r, e), Releases(r),
         UNCHANGED <<conf, store, logout, server, grants>>,
         log' = [log EXCEPT !.wasted = w], log.wasted => w,
         req[r].pc \in {"granted", "half"} => w
  PROVE  HttpInv'
<1>1. log \in [spent : SUBSET (1..MaxGrant), reused : BOOLEAN, wasted : BOOLEAN]
  BY DEF HttpInv, LogOK
<1>2. LogOK' /\ log'.spent = log.spent /\ log'.wasted = w /\ log'.reused = log.reused
  BY <1>1 DEF LogOK
<1>3. e \in Outcomes /\ e # "unauthorized"
  BY ValueFacts
<1> QED BY <1>2, <1>3, EndMoves DEF HttpInv, RefreshTokenSpentOnce

LEMMA StoreGrantFailsKeeps ==
  ASSUME HttpInv, NEW r \in Requests, StoreGrantFails(r)
  PROVE  HttpInv'
BY WasteMoves DEF StoreGrantFails

LEMMA CancelKeeps ==
  ASSUME HttpInv, NEW r \in Requests, Cancel(r)
  PROVE  HttpInv'
<1> DEFINE w == log.wasted \/ req[r].pc \in {"granted", "half"}
<1>1. log' = [log EXCEPT !.wasted = w]
  BY DEF HttpInv, LogOK, Cancel
<1>2. w \in BOOLEAN
  BY DEF HttpInv, LogOK
<1>3. (log.wasted => w) /\ (req[r].pc \in {"granted", "half"} => w)
  OBVIOUS
<1> HIDE DEF w
<1> QED BY <1>1, <1>2, <1>3, WasteMoves DEF Cancel

\* The server makes a grant for the token in the store.  The call keeps the
\* lock with the grant in its hands, or its answer is lost.
LEMMA RefreshGrantedKeeps ==
  ASSUME HttpInv, NEW r \in Requests, RefreshGranted(r)
  PROVE  HttpInv'
<1>1. /\ req[r] \in CallRec /\ Paid(req[r]) /\ Bearers(req[r]) /\ req[r].pc = "locked"
      /\ req[r].bearer \in Tokens /\ req[r].bearer <= grants
  BY CallNow DEF RefreshGranted
<1>2. lock = r /\ ~MidGrant /\ \A q \in Requests \ {r} : req[q].pc \notin Holding
  BY <1>1, OneHolder DEF Holding
<1>3. /\ grants' = grants + 1 /\ grants \in Nat /\ grants' \in Tokens
      /\ server' = [session |-> grants', access |-> grants']
      /\ UNCHANGED <<conf, store, logout>>
  BY TypeRestated, HttpClientAssumption DEF RefreshGranted, HttpInv, Typed, Tokens
<1>4. /\ store.refresh \in 1..MaxGrant /\ store.refresh <= grants
      /\ store.access \in Nat /\ store.access <= grants
  BY TypeRestated, HttpClientAssumption
     DEF RefreshGranted, HttpInv, GrantsInv, Typed, Tokens, None
<1>5. /\ LogOK' /\ log'.spent = log.spent \cup {store.refresh}
      /\ log'.reused = log.reused
      /\ log.wasted => log'.wasted
  <2>1. log \in [spent : SUBSET (1..MaxGrant), reused : BOOLEAN, wasted : BOOLEAN]
    BY DEF HttpInv, LogOK
  <2>2. CASE log' = [log EXCEPT !.spent = @ \cup {store.refresh}]
    BY <1>4, <2>1, <2>2 DEF LogOK
  <2>3. CASE log' = [log EXCEPT !.spent = @ \cup {store.refresh}, !.wasted = TRUE]
    BY <1>4, <2>1, <2>3 DEF LogOK
  <2> QED BY <2>2, <2>3 DEF RefreshGranted
<1>6. \E nr : /\ Moves(r, nr)
              /\ nr.bearer <= grants
              /\ \/ nr.pc = "granted" /\ nr.grant = grants'
                 \/ nr.pc = "done" /\ nr.result = "timeout" /\ log'.wasted
  <2>1. CASE /\ req' = [req EXCEPT ![r].pc = "granted", ![r].grant = grants']
             /\ UNCHANGED lock
    <3> DEFINE nr == [req[r] EXCEPT !.pc = "granted", !.grant = grants']
    <3>1. nr \in CallRec
      BY <1>1, <1>3, CallUpdates DEF Points
    <3>2. /\ nr.pc = "granted" /\ nr.grant = grants' /\ nr.kind = req[r].kind
          /\ nr.refreshed = req[r].refreshed
          /\ nr.refused = req[r].refused /\ nr.bearer = req[r].bearer
          /\ nr.sends = req[r].sends /\ nr.attempt = req[r].attempt
          /\ nr.failed = req[r].failed
      BY <1>1 DEF CallRec
    <3>3. req' = [req EXCEPT ![r] = nr]
      BY <2>1, TypeRestated DEF HttpInv, Typed
    <3> HIDE DEF nr
    <3>4. Paid(nr)
      BY <1>1, <3>2 DEF Paid, Refreshing, Holding
    <3>5. Bearers(nr)
      BY <1>1, <3>2 DEF Bearers, Refreshing, Holding, UnderWay
    <3>6. Moves(r, nr)
      BY <1>2, <2>1, <3>1, <3>2, <3>3, <3>4, <3>5 DEF Moves, Holding
    <3> QED BY <1>1, <3>2, <3>6
  <2>2. CASE /\ Ends(r, "timeout") /\ Releases(r)
             /\ log' = [log EXCEPT !.spent = @ \cup {store.refresh}, !.wasted = TRUE]
    <3> DEFINE nr == Ended(req[r], "timeout")
    <3>1. /\ nr \in CallRec
          /\ nr.pc = "done" /\ nr.bearer = None /\ nr.result = "timeout"
          /\ Paid(nr) /\ Bearers(nr)
      BY <1>1, EndedFacts, ValueFacts
    <3>2. req' = [req EXCEPT ![r] = nr]
      BY <2>2 DEF Ends
    <3> HIDE DEF nr
    <3>3. Moves(r, nr)
      BY <1>2, <2>2, <3>1, <3>2, HttpClientAssumption DEF Moves, Releases, Holding
    <3>4. log'.wasted
      BY <2>2 DEF HttpInv, LogOK
    <3>5. nr.bearer <= grants
      BY <1>3, <3>1 DEF None
    <3> QED BY <3>1, <3>3, <3>4, <3>5
  <2> QED BY <2>1, <2>2 DEF RefreshGranted
<1>7. PICK nr : /\ Moves(r, nr)
                /\ nr.bearer <= grants
                /\ \/ nr.pc = "granted" /\ nr.grant = grants'
                   \/ nr.pc = "done" /\ nr.result = "timeout" /\ log'.wasted
  BY <1>6
<1>8. /\ req' \in [Requests -> CallRec]
      /\ req'[r] = nr
      /\ \A q \in Requests \ {r} : req'[q] = req[q]
      /\ CallsInv' /\ LockHeld'
  BY <1>7, CallMoves
<1>9. TypeOK'
  BY <1>3, <1>7, <1>8, TypeRestated DEF HttpInv, Typed, Moves
<1>10. GrantsInv'
  <2>1. \A q \in Requests : req[q].bearer \in Nat /\ req[q].bearer <= grants
    BY CallNow, HttpClientAssumption DEF Tokens
  <2>2. nr.bearer \in Nat
    BY <1>7, HttpClientAssumption DEF Moves, CallRec, Tokens
  <2>3. \A q \in Requests : req'[q].bearer < grants'
    BY <1>3, <1>7, <1>8, <2>1, <2>2
  <2>4. \A t \in log'.spent : t < grants'
    <3>1. \A t \in log.spent : t \in Nat /\ t < grants
      BY DEF HttpInv, LogOK, GrantsInv
    <3> QED BY <1>3, <1>4, <1>5, <3>1
  <2>5. \A q \in Requests : req'[q].pc \notin {"half", "renewed"}
    BY <1>2, <1>7, <1>8 DEF Holding
  <2>6. \A q \in Requests : req'[q].pc = "granted" => req'[q].grant = grants'
    BY <1>2, <1>7, <1>8 DEF Holding
  <2>7. store'.access <= grants' /\ store'.refresh <= grants' /\ grants' # 0
          /\ server'.session = grants'
    BY <1>3, <1>4
  <2>8. \A q \in Requests : req'[q].bearer <= grants'
    BY <1>3, <1>8, <2>1, <2>2, <2>3, <1>7
  <2> QED BY <2>3, <2>4, <2>5, <2>6, <2>7, <2>8 DEF GrantsInv
<1>11. StoreInv'
  <2>1. MidGrant' \/ log'.wasted
    BY <1>7, <1>8 DEF MidGrant
  <2> QED BY <2>1 DEF StoreInv
<1>12. LossInv'
  <2> SUFFICES ASSUME NEW q \in Requests,
                      req'[q].pc = "done", req'[q].result = "unauthorized",
                      req'[q].kind = "auth", conf'.refresher
               PROVE  \/ logout' # "no" \/ server'.session = None \/ log'.wasted
                      \/ \E a, b \in req'[q].refused : a # b
    BY DEF LossInv
  <2>1. q # r
    BY <1>7, <1>8
  <2>2. req'[q] = req[q]
    BY <1>8, <2>1
  <2>3. server.session # None
    BY DEF RefreshGranted
  <2> QED BY <1>3, <1>5, <2>2, <2>3 DEF HttpInv, LossInv
<1>13. RefreshTokenSpentOnce'
  BY <1>5 DEF HttpInv, RefreshTokenSpentOnce
<1> QED BY <1>5, <1>8, <1>9, <1>10, <1>11, <1>12, <1>13 DEF HttpInv

\* The grant reaches the store, half by half.
LEMMA StoreGrantKeeps ==
  ASSUME HttpInv, NEW r \in Requests, StoreGrant(r)
  PROVE  HttpInv'
<1> DEFINE pc == IF req[r].pc = "granted" THEN "half" ELSE "renewed"
           nr == [req[r] EXCEPT !.pc = pc]
<1>1. /\ req[r] \in CallRec /\ Paid(req[r]) /\ Bearers(req[r])
      /\ req[r].pc \in {"granted", "half"}
  BY CallNow DEF StoreGrant
<1>2. lock = r /\ MidGrant /\ \A q \in Requests \ {r} : req[q].pc \notin Holding
  BY <1>1, OneHolder DEF Holding, MidGrant
<1>3. /\ req[r].grant = grants /\ req[r].bearer < grants
      /\ grants \in Tokens /\ grants \in Nat /\ grants # 0
      /\ \A t \in log.spent : t < grants
      /\ server.session \in {None, grants}
  BY <1>1, TypeRestated, HttpClientAssumption DEF HttpInv, GrantsInv, Typed, Tokens
<1>4. UNCHANGED <<conf, lock, logout, server, grants, log>>
  BY DEF StoreGrant
<1>5. nr \in CallRec
  BY <1>1, CallUpdates DEF Points
<1>6. /\ nr.pc = pc /\ nr.kind = req[r].kind /\ nr.refreshed = req[r].refreshed
      /\ nr.refused = req[r].refused /\ nr.bearer = req[r].bearer
      /\ nr.sends = req[r].sends /\ nr.attempt = req[r].attempt
      /\ nr.failed = req[r].failed /\ nr.grant = req[r].grant
  BY <1>1 DEF CallRec
<1>7. req' = [req EXCEPT ![r] = nr]
  BY <1>1, TypeRestated DEF StoreGrant, Step, HttpInv, Typed
<1> HIDE DEF nr
<1>8. Paid(nr)
  BY <1>1, <1>6 DEF Paid, Refreshing, Holding
<1>9. Bearers(nr)
  BY <1>1, <1>6 DEF Bearers, Refreshing, Holding, UnderWay
<1>10. Moves(r, nr)
  BY <1>1, <1>2, <1>4, <1>5, <1>6, <1>7, <1>8, <1>9 DEF Moves, Holding
<1>11. /\ req' \in [Requests -> CallRec]
       /\ req'[r] = nr
       /\ \A q \in Requests \ {r} : req'[q] = req[q]
       /\ CallsInv' /\ LockHeld'
  BY <1>10, CallMoves
<1>12. /\ store' \in [access : Tokens, refresh : Tokens]
       /\ store'.access \in {store.access, grants}
       /\ store'.refresh \in {store.refresh, grants}
       /\ req[r].pc = "granted" => store'.access = grants
       /\ req[r].pc = "half" => store'.access = store.access /\ store'.refresh = grants
  <2>1. store \in [access : Tokens, refresh : Tokens]
    BY TypeRestated DEF HttpInv, Typed
  <2> QED BY <1>3, <2>1 DEF StoreGrant
<1>13. TypeOK'
  BY <1>4, <1>10, <1>11, <1>12, TypeRestated DEF HttpInv, Typed, Moves
<1>14. GrantsInv'
  <2>1. store'.access <= grants' /\ store'.refresh <= grants'
    BY <1>3, <1>4, <1>12 DEF HttpInv, GrantsInv
  <2>2. nr.grant = grants /\ nr.bearer < grants /\ nr.bearer <= grants
    BY <1>3, <1>6, CallNow
  <2>3. \/ store'.access = grants
        \/ store'.access = None /\ logout # "no"
    BY <1>1, <1>12 DEF HttpInv, GrantsInv
  <2>4. \A q \in Requests \ {r} : req'[q].pc \notin Holding /\ req'[q].bearer <= grants
    BY <1>2, <1>11 DEF HttpInv, GrantsInv
  <2> QED BY <1>3, <1>4, <1>11, <2>1, <2>2, <2>3, <2>4 DEF GrantsInv, Holding
<1>15. StoreInv'
  <2>1. CASE req[r].pc = "granted"
    BY <1>6, <1>11, <2>1 DEF StoreInv, MidGrant
  <2>2. CASE req[r].pc = "half"
    <3>1. store'.refresh = grants
      BY <1>12, <2>2
    <3>2. grants \notin log.spent
      BY <1>3
    <3> QED BY <1>3, <1>4, <3>1, <3>2 DEF StoreInv
  <2> QED BY <1>1, <2>1, <2>2
<1>16. LossInv'
  BY <1>1, <1>4, <1>6, <1>11 DEF HttpInv, LossInv
<1>17. LogOK' /\ RefreshTokenSpentOnce'
  BY <1>4 DEF HttpInv, LogOK, RefreshTokenSpentOnce
<1> QED BY <1>11, <1>13, <1>14, <1>15, <1>16, <1>17 DEF HttpInv

\* clear_token, one entry at a time: what it leaves is an entry of the store or
\* nothing, and from its first step on the user has logged out.
LEMMA ClearTokenKeeps ==
  ASSUME HttpInv, ClearToken
  PROVE  HttpInv'
<1>1. UNCHANGED <<conf, req, lock, server, grants, log>>
  BY DEF ClearToken
<1>2. store \in [access : Tokens, refresh : Tokens] /\ None \in Tokens
      /\ grants \in Nat /\ logout \in {"no", "midway", "over"}
  BY TypeRestated, ValueFacts, HttpClientAssumption DEF HttpInv, Typed, Tokens
<1>3. /\ store' \in [access : Tokens, refresh : Tokens]
      /\ store'.access \in {store.access, None}
      /\ store'.refresh \in {store.refresh, None}
      /\ logout' \in {"midway", "over"}
  BY <1>2 DEF ClearToken, ClearEntry
<1>4. TypeOK'
  BY <1>1, <1>3, TypeRestated DEF HttpInv, Typed
<1>5. GrantsInv'
  BY <1>1, <1>2, <1>3 DEF HttpInv, GrantsInv, None
<1>6. StoreInv'
  <2>1. None \notin log.spent
    BY DEF HttpInv, LogOK, None
  <2> QED BY <1>1, <1>3, <2>1 DEF HttpInv, StoreInv, MidGrant
<1>7. LossInv'
  BY <1>3 DEF LossInv
<1>8. LogOK' /\ LockHeld' /\ RefreshTokenSpentOnce'
  BY <1>1 DEF HttpInv, LogOK, LockHeld, RefreshTokenSpentOnce
<1>9. CallsInv'
  BY <1>1 DEF HttpInv, CallsInv, Paid, Bearers
<1> QED BY <1>4, <1>5, <1>6, <1>7, <1>8, <1>9 DEF HttpInv

\* The server lets the access token expire, or ends the session.
LEMMA ServerKeeps ==
  ASSUME HttpInv, Expire \/ Revoke
  PROVE  HttpInv'
<1>1. UNCHANGED <<conf, req, lock, store, logout, grants, log>>
  BY DEF Expire, Revoke
<1>2. /\ server' \in [session : Tokens, access : Tokens]
      /\ server'.session \in {server.session, None}
  BY TypeRestated, ValueFacts DEF HttpInv, Typed, Expire, Revoke
<1>3. TypeOK'
  BY <1>1, <1>2, TypeRestated DEF HttpInv, Typed
<1>4. GrantsInv'
  BY <1>1, <1>2 DEF HttpInv, GrantsInv
<1>5. StoreInv'
  BY <1>1, <1>2 DEF HttpInv, StoreInv, MidGrant
<1>6. LossInv'
  BY <1>1, <1>2 DEF HttpInv, LossInv
<1>7. LogOK' /\ LockHeld' /\ RefreshTokenSpentOnce'
  BY <1>1 DEF HttpInv, LogOK, LockHeld, RefreshTokenSpentOnce
<1>8. CallsInv'
  BY <1>1 DEF HttpInv, CallsInv, Paid, Bearers
<1> QED BY <1>3, <1>4, <1>5, <1>6, <1>7, <1>8 DEF HttpInv

-----------------------------------------------------------------------------
(* The invariant                                                           *)

LEMMA InitHttp == Init => HttpInv
<1> SUFFICES ASSUME Init PROVE HttpInv
  OBVIOUS
<1>1. PICK kind \in [Requests -> Kinds] :
         req = [r \in Requests |->
                 [kind |-> kind[r], pc |-> "idle", bearer |-> None, grant |-> None,
                  refreshed |-> FALSE, attempt |-> 0, result |-> "none",
                  sends |-> 0, failed |-> 0, refused |-> {}]]
  BY DEF Init
<1>2. /\ None \in Tokens /\ 1 \in Tokens /\ 0 \in Attempts /\ "none" \in Outcomes
      /\ "idle" \in Points /\ {} \in TokenSets
  BY ValueFacts, HttpClientAssumption DEF Tokens, Points, TokenSets
<1>3. req \in [Requests -> CallRec]
  BY <1>1, <1>2 DEF CallRec
<1>4. TypeOK
  BY <1>2, <1>3, TypeRestated DEF Init, Typed
<1>5. \A r \in Requests :
        /\ req[r].pc = "idle" /\ req[r].bearer = 0 /\ ~req[r].refreshed
        /\ req[r].attempt = 0 /\ req[r].sends = 0 /\ req[r].failed = 0
  BY <1>1 DEF None
<1>6. CallsInv
  BY <1>5 DEF CallsInv, Paid, Bearers, Refreshing, Holding, UnderWay
<1>7. LogOK /\ RefreshTokenSpentOnce
  BY DEF Init, LogOK, RefreshTokenSpentOnce
<1>8. LockHeld
  BY <1>5, HttpClientAssumption DEF Init, LockHeld, Holding
<1>9. GrantsInv
  BY <1>5 DEF Init, GrantsInv
<1>10. StoreInv
  BY DEF Init, StoreInv
<1>11. LossInv
  BY <1>5 DEF LossInv
<1> QED BY <1>4, <1>6, <1>7, <1>8, <1>9, <1>10, <1>11 DEF HttpInv

LEMMA StepHttp == HttpInv /\ [Next]_vars => HttpInv'
<1> SUFFICES ASSUME HttpInv, [Next]_vars PROVE HttpInv'
  OBVIOUS
<1>1. CASE UNCHANGED vars
  <2>1. UNCHANGED <<conf, req, lock, store, logout, server, grants, log>>
    BY <1>1 DEF vars
  <2>2. TypeOK' /\ LogOK' /\ LockHeld'
    BY <2>1, TypeRestated DEF HttpInv, Typed, LogOK, LockHeld
  <2>3. CallsInv'
    BY <2>1 DEF HttpInv, CallsInv, Paid, Bearers
  <2>4. GrantsInv'
    BY <2>1 DEF HttpInv, GrantsInv
  <2>5. StoreInv' /\ LossInv' /\ RefreshTokenSpentOnce'
    BY <2>1 DEF HttpInv, StoreInv, MidGrant, LossInv, RefreshTokenSpentOnce
  <2> QED BY <2>2, <2>3, <2>4, <2>5 DEF HttpInv
<1>2. ASSUME NEW r \in Requests, Runs(r) \/ Cancel(r)
      PROVE  HttpInv'
  BY <1>2, StartKeeps, AnswerKeeps, NoAnswerKeeps, WakeKeeps, TakeLockKeeps,
     UseStoredKeeps, RefreshErrsKeeps, RefreshRefusedKeeps, RefreshGrantedKeeps,
     StoreGrantKeeps, StoreGrantFailsKeeps, UseRenewedKeeps, CancelKeeps DEF Runs
<1>3. CASE ClearToken
  BY <1>3, ClearTokenKeeps
<1>4. CASE Expire \/ Revoke
  BY <1>4, ServerKeeps
<1> QED BY <1>1, <1>2, <1>3, <1>4 DEF Next

LEMMA HttpAlways == Spec => []HttpInv
BY InitHttp, StepHttp, PTL DEF Spec

\* However many calls are refused at once, whichever are dropped and however
\* the token store fails: refresh_session presents a refresh token twice only
\* after a grant was made that never reached the store whole.
THEOREM TokensSpentOnce == Spec => []RefreshTokenSpentOnce
<1>1. HttpInv => RefreshTokenSpentOnce
  BY DEF HttpInv
<1> QED BY <1>1, HttpAlways, PTL

\* An authenticated verb of request, of a client with a refresher, reports
\* Unauthorized only when the session is lost: after a logout, a revocation, a
\* wasted grant, or two different tokens of this one call refused.  (The other
\* calls that carry the bearer never refresh and are not meant.)
THEOREM LossesAreReal == Spec => []SessionLossReal
<1>1. HttpInv => SessionLossReal
  <2> SUFFICES ASSUME HttpInv, NEW r \in Requests,
                      req[r].pc = "done", req[r].result = "unauthorized",
                      req[r].kind = "auth", conf.refresher
               PROVE  \/ logout # "no" \/ server.session = None \/ log.wasted
                      \/ Cardinality(req[r].refused) >= 2
    BY DEF SessionLossReal
  <2>1. \/ logout # "no" \/ server.session = None \/ log.wasted
        \/ \E a, b \in req[r].refused : a # b
    BY DEF HttpInv, LossInv
  <2>2. req[r].refused \in SUBSET (1..MaxGrant)
    BY CallNow DEF CallRec, TokenSets
  <2> QED BY <2>1, <2>2, TwoMembers
<1> QED BY <1>1, HttpAlways, PTL

\* Every send of request after the first is paid for by the one refresh or by
\* one of at most max_retries failures; a call of any other kind is sent once.
THEOREM SendsArePaid == Spec => []EverySendPaid
<1>1. HttpInv => EverySendPaid
  <2> SUFFICES ASSUME HttpInv, NEW r \in Requests
               PROVE  /\ req[r].sends <= 1 + (IF req[r].refreshed THEN 1 ELSE 0)
                           + (IF req[r].failed < MaxRetries THEN req[r].failed
                                                            ELSE MaxRetries)
                      /\ req[r].kind \notin Verbs => req[r].sends <= 1
    BY DEF EverySendPaid
  <2>1. /\ Paid(req[r]) /\ req[r].attempt \in Nat /\ req[r].sends \in Nat
        /\ req[r].failed \in Nat /\ req[r].attempt <= MaxRetries
    BY CallNow, HttpClientAssumption DEF CallRec, Attempts
  <2> QED BY <2>1, HttpClientAssumption DEF Paid
<1> QED BY <1>1, HttpAlways, PTL

=============================================================================
