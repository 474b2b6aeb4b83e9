-------------------------- MODULE AcceptLoopProofs --------------------------
(***************************************************************************)
(* Proofs about the accept loop, for any number of connections, any peer   *)
(* policies, any window and backoff and any running time.                  *)
(***************************************************************************)
EXTENDS AcceptLoop, WellFoundedInduction, TLAPS

\* The type invariant is preserved by every step of server::run, of the
\* accept loop and of RefusalLog.
THEOREM TypeCorrect == Spec => []TypeOK
<1>1. Init => TypeOK
  <2> SUFFICES ASSUME Init PROVE TypeOK
    OBVIOUS
  <2>1. shutdown \in BOOLEAN
    BY Zenon DEF Init
  <2> QED
    BY <2>1 DEF Init, TypeOK, ConnStates
<1>2. TypeOK /\ [Next]_vars => TypeOK'
  <2> SUFFICES ASSUME TypeOK, [Next]_vars PROVE TypeOK'
    OBVIOUS
  <2> USE AcceptLoopAssumption DEF TypeOK, ConnStates, logVars, backoffVars
  <2>1. CASE Prepare
    BY <2>1 DEF Prepare
  <2>2. CASE Bind
    BY <2>2 DEF Bind
  <2>3. CASE AcceptPeer
    BY <2>3 DEF AcceptPeer
  <2>4. CASE RefusePeer
    <3>1. CASE Silence(now)
      BY <2>4, <3>1 DEF RefusePeer, Silence
    <3>2. CASE WriteLine(now)
      BY <2>4, <3>2 DEF RefusePeer, WriteLine
    <3> QED
      BY <2>4, <3>1, <3>2 DEF RefusePeer
  <2>5. CASE AcceptFails
    <3>1. Backoff(falhas + 1) \in Nat
      BY DEF Backoff
    <3> QED
      BY <2>5, <3>1 DEF AcceptFails
  <2>6. CASE Wake
    BY <2>6 DEF Wake
  <2>7. CASE ShutDown
    BY <2>7 DEF ShutDown, Leave
  <2>8. CASE IncomingEnds
    BY <2>8 DEF IncomingEnds, Leave
  <2>9. CASE Exit
    BY <2>9 DEF Exit
  <2>10. ASSUME NEW p \in Peers, Connect(p) PROVE TypeOK'
    BY <2>10 DEF Connect
  <2>11. ASSUME NEW p \in Peers, ConnectionEnds(p) PROVE TypeOK'
    BY <2>11 DEF ConnectionEnds
  <2>12. CASE SignalShutdown
    BY <2>12 DEF SignalShutdown
  <2>13. CASE Tick
    BY <2>13 DEF Tick
  <2>14. CASE UNCHANGED vars
    BY <2>14 DEF vars
  <2> QED
    BY <2>1, <2>2, <2>3, <2>4, <2>5, <2>6, <2>7, <2>8, <2>9, <2>10, <2>11,
       <2>12, <2>13, <2>14 DEF Next, Gone
<1> QED
  BY <1>1, <1>2, PTL DEF Spec

-----------------------------------------------------------------------------
\* RefusalsAccounted is not inductive by itself: run may return from prepare
\* or bind without passing through Leave, when the counter is still zero.
BooksInv ==
    /\ RefusalsAccounted
    /\ loop \in {"prepare", "bind"} => silenced = 0

\* The books of RefusalLog balance in every reachable state: each refused
\* peer has a line, is in the count a line carried, or is still counted.
THEOREM RefusalsAlwaysAccounted == Spec => []RefusalsAccounted
<1>1. Init => BooksInv
  BY DEF Init, BooksInv, RefusalsAccounted
<1>2. TypeOK /\ BooksInv /\ [Next]_vars => BooksInv'
  <2> SUFFICES ASSUME TypeOK, BooksInv, [Next]_vars
               PROVE  BooksInv'
    OBVIOUS
  <2> USE DEF TypeOK, BooksInv, RefusalsAccounted, logVars, backoffVars
  <2>1. CASE RefusePeer
    <3>1. CASE Silence(now)
      BY <2>1, <3>1 DEF RefusePeer, Silence
    <3>2. CASE WriteLine(now)
      BY <2>1, <3>2 DEF RefusePeer, WriteLine
    <3> QED
      BY <2>1, <3>1, <3>2 DEF RefusePeer
  <2>2. CASE ShutDown \/ IncomingEnds
    BY <2>2 DEF ShutDown, IncomingEnds, Leave
  <2>3. CASE Prepare \/ Bind
    <3>1. UNCHANGED <<refusals, lines, reported, silenced>>
      BY <2>3 DEF Prepare, Bind
    <3>2. loop \in {"prepare", "bind"} /\ loop' \in {"bind", "select", "exited"}
      BY <2>3 DEF Prepare, Bind
    <3> QED
      BY <3>1, <3>2
  <2>4. CASE AcceptPeer \/ AcceptFails \/ Wake
    <3>1. UNCHANGED <<refusals, lines, reported, silenced>>
      BY <2>4 DEF AcceptPeer, AcceptFails, Wake
    <3>2. loop \in {"select", "sleeping"} /\ loop' \in {"select", "sleeping"}
      BY <2>4 DEF AcceptPeer, AcceptFails, Wake
    <3> QED
      BY <3>1, <3>2
  <2>5. CASE Exit
    BY <2>5 DEF Exit
  <2>6. CASE \E p \in Peers : Connect(p) \/ ConnectionEnds(p)
    BY <2>6 DEF Connect, ConnectionEnds
  <2>7. CASE SignalShutdown \/ Tick
    BY <2>7 DEF SignalShutdown, Tick
  <2>8. CASE UNCHANGED vars
    BY <2>8 DEF vars
  <2> QED
    BY <2>1, <2>2, <2>3, <2>4, <2>5, <2>6, <2>7, <2>8 DEF Next, Gone
<1>3. BooksInv => RefusalsAccounted
  BY DEF BooksInv
<1> QED
  BY <1>1, <1>2, <1>3, TypeCorrect, PTL DEF Spec

-----------------------------------------------------------------------------
\* RefusalLog::last_line is the time of the last line written, and that time
\* is past; this is what makes the distance between lines inductive.
LinesInv ==
    /\ lines = <<>> => last_line = None
    /\ lines # <<>> => last_line = lines[Len(lines)] /\ last_line <= now
    /\ \A i \in 1..Len(lines) : lines[i] <= now
    /\ \A i \in 1..Len(lines) : lines[i] <= lines[Len(lines)]
    /\ OneLinePerWindow

\* Lines about refused peers are at least a window apart, for any number of
\* refusals and any interleaving with errors and accepted peers.
THEOREM LinesAlwaysSpaced == Spec => []OneLinePerWindow
<1>1. Init => LinesInv
  BY DEF Init, LinesInv, OneLinePerWindow
<1>2. TypeOK /\ LinesInv /\ [Next]_vars => LinesInv'
  <2> SUFFICES ASSUME TypeOK, LinesInv, [Next]_vars
               PROVE  LinesInv'
    OBVIOUS
  <2> USE AcceptLoopAssumption DEF TypeOK, LinesInv, OneLinePerWindow
  <2>1. CASE RefusePeer /\ WriteLine(now)
    <3>1. /\ lines' = Append(lines, now) /\ last_line' = now /\ now' = now
          /\ last_line # None => now - last_line >= Window
      BY <2>1 DEF RefusePeer, WriteLine, InWindow
    <3>2. /\ Len(lines') = Len(lines) + 1
          /\ \A i \in 1..Len(lines) : lines'[i] = lines[i]
          /\ lines'[Len(lines) + 1] = now
          /\ lines' # <<>>
      BY <3>1
    <3>3. \A i \in 1..Len(lines) : now - lines[i] >= Window
      <4> SUFFICES ASSUME NEW i \in 1..Len(lines) PROVE now - lines[i] >= Window
        OBVIOUS
      <4>1. lines # <<>> /\ lines[i] \in Nat /\ lines[i] <= lines[Len(lines)]
        OBVIOUS
      <4>2. last_line = lines[Len(lines)] /\ last_line \in Nat /\ last_line # None
        BY <4>1
      <4>3. now - last_line >= Window
        BY <4>2, <3>1
      <4>4. now \in Nat /\ Window \in Nat
        OBVIOUS
      <4> QED
        BY ONLY <4>1, <4>2, <4>3, <4>4
    <3>4. \A i \in 1..Len(lines) : lines[i] \in Nat
      OBVIOUS
    <3>5. \A i, j \in 1..Len(lines') : i < j => lines'[j] - lines'[i] >= Window
      <4> SUFFICES ASSUME NEW i \in 1..Len(lines'), NEW j \in 1..Len(lines'), i < j
                   PROVE  lines'[j] - lines'[i] >= Window
        OBVIOUS
      <4>1. i \in 1..Len(lines)
        BY <3>2
      <4>2. CASE j = Len(lines) + 1
        <5>1. lines'[j] = now /\ lines'[i] = lines[i]
          BY <4>1, <4>2, <3>2
        <5> QED
          BY <5>1, <4>1, <3>3
      <4>3. CASE j \in 1..Len(lines)
        <5>1. lines'[j] = lines[j] /\ lines'[i] = lines[i]
          BY <4>1, <4>3, <3>2
        <5>2. lines[j] - lines[i] >= Window
          BY <4>1, <4>3
        <5> QED
          BY <5>1, <5>2
      <4>4. Len(lines) \in Nat
        OBVIOUS
      <4>5. j = Len(lines) + 1 \/ j \in 1..Len(lines)
        BY ONLY <4>4, <3>2, j \in 1..Len(lines')
      <4> QED
        BY <4>2, <4>3, <4>5
    <3>6. \A i \in 1..Len(lines') : lines'[i] <= now
      <4> SUFFICES ASSUME NEW i \in 1..Len(lines') PROVE lines'[i] <= now
        OBVIOUS
      <4>1. Len(lines) \in Nat /\ now \in Nat
        OBVIOUS
      <4>2. CASE i = Len(lines) + 1
        BY ONLY <3>2, <4>1, <4>2
      <4>3. CASE i \in 1..Len(lines)
        <5>1. lines[i] <= now
          BY <4>3
        <5> QED BY ONLY <3>2, <4>3, <5>1
      <4>4. i = Len(lines) + 1 \/ i \in 1..Len(lines)
        BY ONLY <3>2, <4>1, i \in 1..Len(lines')
      <4> QED BY <4>2, <4>3, <4>4
    <3> QED
      BY <3>1, <3>2, <3>5, <3>6
  <2>2. CASE Tick
    <3>1. UNCHANGED <<lines, last_line>> /\ now' = now + 1
      BY <2>2 DEF Tick, logVars
    <3>2. \A i \in 1..Len(lines) : lines[i] \in Nat /\ lines[i] <= now + 1
      OBVIOUS
    <3>3. lines # <<>> => last_line \in Nat /\ last_line <= now + 1
      OBVIOUS
    <3> QED
      BY <3>1, <3>2, <3>3
  <2>3. CASE UNCHANGED <<lines, last_line, now>>
    BY <2>3
  <2>4. ~Tick /\ ~(RefusePeer /\ WriteLine(now)) => UNCHANGED <<lines, last_line, now>>
    BY DEF Next, Prepare, Bind, AcceptPeer, RefusePeer, Silence, AcceptFails, Wake,
           ShutDown, IncomingEnds, Leave, Exit, Connect, ConnectionEnds,
           SignalShutdown, Gone, vars, logVars, backoffVars
  <2> QED
    BY <2>1, <2>2, <2>3, <2>4
<1>3. LinesInv => OneLinePerWindow
  BY DEF LinesInv
<1> QED
  BY <1>1, <1>2, <1>3, TypeCorrect, PTL DEF Spec

-----------------------------------------------------------------------------
(* The sum of the waits                                                    *)

\* A set of natural numbers that is not empty has a least element.
LEMMA LeastNumber ==
    ASSUME NEW T \in SUBSET Nat, T # {}
    PROVE  \E x \in T : \A y \in T : x <= y
<1> DEFINE R == OpToRel(<, Nat)
<1>1. IsWellFoundedOn(R, Nat)
  BY NatLessThanWellFounded
<1>2. \A x, y \in Nat : y < x => <<y, x>> \in R
  BY DEF OpToRel
<1> HIDE DEF R
<1>3. PICK x \in T : \A y \in T : ~(<<y, x>> \in R)
  BY <1>1, WFMin
<1>4. \A y \in T : ~(y < x)
  BY <1>2, <1>3
<1> QED BY <1>3, <1>4

\* A wait is a number of ticks.
LEMMA BackoffNatural == \A n \in Nat : Backoff(n) \in Nat
BY AcceptLoopAssumption DEF Backoff

\* g holds the sums of the first 0, 1, ..., n waits.
Sums(n, g) ==
    /\ g \in [0..n -> Nat]
    /\ g[0] = 0
    /\ \A i \in 1..n : g[i] = g[i - 1] + Backoff(i)

\* There are sums up to every n, by the least n for which there are none.
LEMMA SumsExist == \A n \in Nat : \E g : Sums(n, g)
<1> DEFINE T == {n \in Nat : ~\E g : Sums(n, g)}
<1> SUFFICES ASSUME T # {} PROVE FALSE
  OBVIOUS
<1>1. PICK n \in T : \A m \in T : n <= m
  BY LeastNumber
<1>2. n # 0
  <2>1. Sums(0, [i \in 0..0 |-> 0])
    BY DEF Sums
  <2> QED BY <2>1
<1>3. n \in Nat /\ n - 1 \in Nat /\ ~(n <= n - 1)
  BY <1>2
<1>4. PICK g : Sums(n - 1, g)
  BY <1>1, <1>3
<1> DEFINE h == [i \in 0..n |-> IF i = n THEN g[n - 1] + Backoff(n) ELSE g[i]]
<1>5. \A i \in 0..(n - 1) : g[i] \in Nat
  BY <1>4 DEF Sums
<1>6. g[n - 1] + Backoff(n) \in Nat
  BY <1>3, <1>5, BackoffNatural
<1>7. h \in [0..n -> Nat]
  BY <1>3, <1>5, <1>6
<1>8. h[0] = 0
  BY <1>3, <1>4 DEF Sums
<1>9. \A i \in 1..n : h[i] = h[i - 1] + Backoff(i)
  <2> SUFFICES ASSUME NEW i \in 1..n PROVE h[i] = h[i - 1] + Backoff(i)
    OBVIOUS
  <2>1. h[i - 1] = g[i - 1]
    BY <1>3
  <2>2. CASE i = n
    BY <1>3, <2>1, <2>2
  <2>3. CASE i # n
    <3>1. i \in 1..(n - 1)
      BY <1>3, <2>3
    <3> QED BY <1>3, <1>4, <2>1, <2>3, <3>1 DEF Sums
  <2> QED BY <2>2, <2>3
<1>10. Sums(n, h)
  BY <1>7, <1>8, <1>9 DEF Sums
<1> QED BY <1>10

\* And two of them agree where both have a value.
LEMMA SumsUnique ==
    ASSUME NEW m \in Nat, NEW n \in Nat, NEW g, NEW h, Sums(m, g), Sums(n, h)
    PROVE  \A i \in (0..m) \cap (0..n) : g[i] = h[i]
<1> DEFINE T == {i \in (0..m) \cap (0..n) : g[i] # h[i]}
<1> SUFFICES ASSUME T # {} PROVE FALSE
  OBVIOUS
<1>1. T \in SUBSET Nat
  OBVIOUS
<1>2. PICK i \in T : \A j \in T : i <= j
  BY <1>1, LeastNumber
<1>3. i # 0
  BY DEF Sums
<1>4. i \in 1..m /\ i \in 1..n /\ i - 1 \in (0..m) \cap (0..n) /\ ~(i <= i - 1)
  BY <1>3
<1>5. g[i - 1] = h[i - 1]
  BY <1>2, <1>4
<1> QED BY <1>4, <1>5 DEF Sums

\* So BackoffSum is what its definition says.
LEMMA BackoffSumUnfolds ==
    /\ BackoffSum[0] = 0
    /\ \A n \in Nat : BackoffSum[n] \in Nat
    /\ \A n \in Nat : BackoffSum[n + 1] = BackoffSum[n] + Backoff(n + 1)
<1> DEFINE Upto(n) == CHOOSE g : Sums(n, g)
           F == [n \in Nat |-> Upto(n)[n]]
           Body(f) == [n \in Nat |-> IF n = 0 THEN 0 ELSE f[n - 1] + Backoff(n)]
<1>1. \A n \in Nat : Sums(n, Upto(n))
  BY SumsExist
<1> HIDE DEF Upto
<1>2. F[0] = 0
  BY <1>1 DEF Sums
<1>3. ASSUME NEW n \in Nat, n # 0
      PROVE  F[n] = F[n - 1] + Backoff(n)
  <2>1. n - 1 \in Nat /\ n \in 1..n /\ n - 1 \in (0..n) \cap (0..(n - 1))
    BY <1>3
  <2>2. Sums(n, Upto(n)) /\ Sums(n - 1, Upto(n - 1))
    BY <1>1, <2>1
  <2>3. Upto(n)[n - 1] = Upto(n - 1)[n - 1]
    BY <2>1, <2>2, SumsUnique
  <2>4. Upto(n)[n] = Upto(n)[n - 1] + Backoff(n)
    BY <2>1, <2>2 DEF Sums
  <2> QED BY <2>1, <2>3, <2>4
<1>4. F = Body(F)
  <2>1. \A n \in Nat : F[n] = Body(F)[n]
    BY <1>2, <1>3
  <2> QED BY <2>1
<1>5. BackoffSum = CHOOSE f : f = Body(f)
  BY DEF BackoffSum
<1> HIDE DEF F, Body
<1>6. BackoffSum = Body(BackoffSum)
  BY <1>4, <1>5
<1>7. \A n \in Nat :
        BackoffSum[n] = IF n = 0 THEN 0 ELSE BackoffSum[n - 1] + Backoff(n)
  BY <1>6 DEF Body
<1>8. \A n \in Nat : BackoffSum[n + 1] = BackoffSum[n] + Backoff(n + 1)
  <2> SUFFICES ASSUME NEW n \in Nat
               PROVE  BackoffSum[n + 1] = BackoffSum[n] + Backoff(n + 1)
    OBVIOUS
  <2>1. n + 1 \in Nat /\ n + 1 # 0 /\ (n + 1) - 1 = n
    OBVIOUS
  <2> QED BY <1>7, <2>1
<1>9. BackoffSum[0] = 0
  BY <1>7
<1>10. \A n \in Nat : BackoffSum[n] \in Nat
  <2> DEFINE T == {n \in Nat : BackoffSum[n] \notin Nat}
  <2> SUFFICES ASSUME T # {} PROVE FALSE
    OBVIOUS
  <2>1. PICK n \in T : \A m \in T : n <= m
    BY LeastNumber
  <2>2. n \in Nat /\ n - 1 \in Nat /\ ~(n <= n - 1) /\ (n - 1) + 1 = n
    BY <1>9, <2>1
  <2>3. BackoffSum[n - 1] \in Nat
    BY <2>1, <2>2
  <2>4. BackoffSum[n] = BackoffSum[n - 1] + Backoff(n)
    BY <1>8, <2>2
  <2> QED BY <2>1, <2>2, <2>3, <2>4, BackoffNatural
<1> QED BY <1>8, <1>9, <1>10

-----------------------------------------------------------------------------
\* NoSpin speaks of the moments at which the listener is polled; between them
\* the loop sleeps, and it is the end of that sleep that lies far enough from
\* the first failure.
SpinInv ==
    /\ loop \in {"prepare", "bind"} => falhas = 0
    /\ loop = "sleeping" => falhas > 0 /\ wake - streak >= BackoffSum[falhas]
    /\ NoSpin

\* However long accept goes on failing, and whatever peers are refused in
\* between: when the loop polls the listener again after n failures in a row,
\* all n backoffs have gone by.
THEOREM BackoffAlwaysServed == Spec => []NoSpin
<1>1. Init => SpinInv
  BY DEF Init, SpinInv, NoSpin
<1>2. TypeOK /\ SpinInv /\ [Next]_vars => SpinInv'
  <2> SUFFICES ASSUME TypeOK, SpinInv, [Next]_vars
               PROVE  SpinInv'
    OBVIOUS
  <2>0. BackoffSum[falhas] \in Nat /\ falhas \in Nat
    BY BackoffSumUnfolds DEF TypeOK
  <2>1. CASE AcceptFails
    <3>1. /\ falhas' = falhas + 1 /\ wake' = now + Backoff(falhas + 1)
          /\ streak' = IF falhas = 0 THEN now ELSE streak
          /\ loop = "select" /\ loop' = "sleeping"
      BY <2>1 DEF AcceptFails
    <3>2. BackoffSum[falhas'] = BackoffSum[falhas] + Backoff(falhas + 1)
      BY <2>0, <3>1, BackoffSumUnfolds
    <3>3. Backoff(falhas + 1) \in Nat
      BY <2>0, BackoffNatural
    <3>4. CASE falhas = 0
      <4>1. BackoffSum[falhas] = 0
        BY <3>4, BackoffSumUnfolds
      <4> QED BY <2>0, <3>1, <3>2, <3>3, <3>4, <4>1 DEF TypeOK, SpinInv, NoSpin
    <3>5. CASE falhas # 0
      <4>1. now - streak >= BackoffSum[falhas]
        BY <2>0, <3>1, <3>5 DEF SpinInv, NoSpin
      <4> QED BY <2>0, <3>1, <3>2, <3>3, <3>5, <4>1 DEF TypeOK, SpinInv, NoSpin
    <3> QED BY <3>4, <3>5
  <2>2. CASE Wake
    BY <2>0, <2>2 DEF Wake, backoffVars, TypeOK, SpinInv, NoSpin
  <2>3. CASE Tick
    BY <2>0, <2>3 DEF Tick, backoffVars, TypeOK, SpinInv, NoSpin
  <2>4. CASE AcceptPeer
    BY <2>4 DEF AcceptPeer, SpinInv, NoSpin
  <2>5. CASE Prepare \/ Bind
    <3>1. /\ UNCHANGED <<falhas, wake, streak, now>>
          /\ loop \in {"prepare", "bind"}
          /\ loop' \in {"bind", "select", "exited"}
      BY <2>5 DEF Prepare, Bind, backoffVars
    <3>2. falhas = 0 /\ falhas' = 0
      BY <3>1 DEF SpinInv
    <3> QED BY <3>1, <3>2 DEF SpinInv, NoSpin
  <2>6. CASE ShutDown \/ IncomingEnds \/ Exit
    BY <2>6 DEF ShutDown, IncomingEnds, Leave, Exit, SpinInv, NoSpin
  <2>7. CASE UNCHANGED <<loop, now, falhas, wake, streak>>
    BY <2>7 DEF SpinInv, NoSpin
  <2>8. RefusePeer \/ SignalShutdown \/ Gone \/ UNCHANGED vars
          \/ (\E p \in Peers : Connect(p) \/ ConnectionEnds(p))
          => UNCHANGED <<loop, now, falhas, wake, streak>>
    BY DEF RefusePeer, SignalShutdown, Gone, Connect, ConnectionEnds, vars, backoffVars
  <2> QED BY <2>1, <2>2, <2>3, <2>4, <2>5, <2>6, <2>7, <2>8 DEF Next
<1>3. SpinInv => NoSpin
  BY DEF SpinInv
<1> QED
  BY <1>1, <1>2, <1>3, TypeCorrect, PTL DEF Spec
=============================================================================
