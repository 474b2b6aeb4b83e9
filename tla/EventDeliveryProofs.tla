------------------------ MODULE EventDeliveryProofs -------------------------
(***************************************************************************)
(* The two ways an event travels from native code to a Dart listener: a    *)
(* key press through a callback that is registered and released            *)
(* (ShortcutChannel), and a stream through a task that PumpTable owns      *)
(* (EventPumps).  The two specifications share no variable.  In both the   *)
(* registration outlives the call that made it, and the theorems say who   *)
(* still owns it.                                                          *)
(***************************************************************************)
EXTENDS ShortcutChannel, EventPumps, TLAPS

-----------------------------------------------------------------------------
(* Global shortcuts: the inductive invariant                               *)

\* What the pump hands to the isolate.
Message == [at : {"emit"}, callable : 0..MaxCallables, press : Press]
Observation == [stuck : SUBSET Chords, owned : SUBSET Chords,
                heard : Chords \cup {None}, unspawned : BOOLEAN]

\* The types of the isolate's and the registry's state ...
SurfaceTyped ==
    /\ surface \in {"none", "live", "stopped", "closing"}
    /\ ids \in [Names -> Chords \cup {None}]
    /\ names \in [Chords -> Names \cup {None}]
    /\ bound \subseteq Chords /\ held \subseteq Chords
    /\ seen \in Observation

\* ... of the callables, a closed one being one that was made ...
CallablesTyped ==
    /\ callable \in 0..MaxCallables /\ made \in 0..MaxCallables
    /\ callable <= made /\ listener \in 0..MaxCallables
    /\ shut \subseteq 1..made
    /\ surface = "stopped" => listener = 0

\* ... and of what is on its way from the platform to the isolate.
PressesTyped ==
    /\ events \in Seq(Press)
    /\ posted \in Seq(Message)
    /\ pump \in Message \cup {At("none"), At("recv")}

\* A surface that is gone has left nothing behind, so the next one starts
\* from nothing (dispose).
NothingLeft ==
    surface = "none" => bound = {} /\ held = {} /\ names = NoNames

\* A chord that still has a name is one no release of which succeeded.
NamedIsOwned == \A c \in Chords : names[c] # None => c \in seen.owned

\* What RegistryAgrees says of a live surface, and of the listener.
LiveAgrees ==
    surface = "live" =>
        /\ bound \subseteq held /\ held \subseteq bound \cup seen.stuck
        /\ \A c \in bound : names[c] # None
        /\ \A c \in Chords : names[c] # None => c \in bound \cup seen.stuck
ListenerOpen == listener \in shut => seen.unspawned

\* A press under way, whose chord was not bound again since, would be heard
\* under the name it was made for, or not at all.
Fresh(press, named) == press.as # None => named[press.chord] \in {press.as, None}
PressesFresh ==
    /\ \A i \in DOMAIN events : Fresh(events[i], names)
    /\ \A i \in DOMAIN posted : Fresh(posted[i].press, names)
    /\ pump \in Message => Fresh(pump.press, names)

RegistryInv ==
    /\ SurfaceTyped /\ CallablesTyped /\ PressesTyped
    /\ NothingLeft /\ NamedIsOwned /\ LiveAgrees /\ ListenerOpen
    /\ PressesFresh

-----------------------------------------------------------------------------
\* Before the first surface is opened the invariant holds.
LEMMA ShortcutInit == Init => RegistryInv
<1> SUFFICES ASSUME Init PROVE RegistryInv
  OBVIOUS
<1> USE ShortcutChannelAssumption DEF Init
<1>1. SurfaceTyped /\ NothingLeft
  BY DEF SurfaceTyped, NothingLeft, Observation, NoIds, NoNames
<1>2. CallablesTyped /\ ListenerOpen
  BY DEF CallablesTyped, ListenerOpen
<1>3. PressesTyped /\ PressesFresh
  BY DEF PressesTyped, PressesFresh, Message, At
<1>4. NamedIsOwned /\ LiveAgrees
  BY DEF NamedIsOwned, LiveAgrees, NoNames
<1> QED
  BY <1>1, <1>2, <1>3, <1>4 DEF RegistryInv

\* A press under way stays fresh when names are only taken away.
LEMMA StayFresh ==
    ASSUME RegistryInv, UNCHANGED <<events, posted, pump>>,
           \A c \in Chords : names'[c] \in {names[c], None}
    PROVE  PressesFresh'
<1>1. ASSUME NEW press \in Press, Fresh(press, names) PROVE Fresh(press, names')
  BY <1>1 DEF Fresh, Press
<1>2. \A i \in DOMAIN events : events[i] \in Press
  BY DEF RegistryInv, PressesTyped
<1>3. \A i \in DOMAIN posted : posted[i].press \in Press
  <2>1. \A i \in DOMAIN posted : posted[i] \in Message
    BY DEF RegistryInv, PressesTyped
  <2> QED
    BY <2>1 DEF Message
<1>4. pump \in Message => pump.press \in Press
  BY DEF Message
<1> QED
  BY <1>1, <1>2, <1>3, <1>4 DEF RegistryInv, PressesFresh

\* A bind ages the presses of its chord that are under way: they are still
\* presses, and those that are not aged are of another chord.
LEMMA AgedPress ==
    ASSUME NEW press \in Press, NEW c \in Chords
    PROVE  /\ Aged(press, c) \in Press
           /\ Aged(press, c).as # None => Aged(press, c) = press /\ press.chord # c
BY DEF Aged, Press

LEMMA AgedMessage ==
    ASSUME NEW message \in Message, NEW c \in Chords
    PROVE  LET aged == [message EXCEPT !.press = Aged(@, c)]
           IN  aged \in Message /\ aged.press = Aged(message.press, c)
BY AgedPress DEF Message

\* _installListener and event_pump::listen: a callable that is listed is a new
\* one, so no closed one is, unless the thread could not be started.
LEMMA ListenKeeps ==
    ASSUME RegistryInv, NEW now \in Observation, NEW running, Listen(now, running),
           now.unspawned = seen.unspawned, surface = "live", surface' = surface
    PROVE  /\ CallablesTyped' /\ ListenerOpen'
           /\ pump' \in {running, At("recv")}
           /\ seen' \in Observation
           /\ seen'.stuck = now.stuck /\ seen'.owned = now.owned
<1> USE ShortcutChannelAssumption
<1>1. seen' \in Observation /\ seen'.stuck = now.stuck /\ seen'.owned = now.owned
      /\ (seen.unspawned => seen'.unspawned)
  BY DEF Listen, Observation, RegistryInv, SurfaceTyped
<1>2. CallablesTyped'
  BY DEF Listen, RegistryInv, CallablesTyped
<1>3. pump' \in {running, At("recv")}
  BY DEF Listen
<1>4. ListenerOpen'
  <2>1. CASE callable # 0
    BY <1>1, <2>1 DEF Listen, RegistryInv, ListenerOpen
  <2>2. CASE callable = 0 /\ shut' = shut
    BY <2>2 DEF Listen, RegistryInv, CallablesTyped, ListenerOpen
  <2>3. CASE callable = 0 /\ seen' = [now EXCEPT !.unspawned = TRUE]
    BY <2>3 DEF ListenerOpen, Observation
  <2> QED
    BY <2>1, <2>2, <2>3 DEF Listen
<1> QED
  BY <1>1, <1>2, <1>3, <1>4

\* presses() changes neither the maps nor the registry.
LEMMA PressesKeeps == ASSUME RegistryInv, Presses PROVE RegistryInv'
<1>1. /\ CallablesTyped' /\ ListenerOpen'
      /\ pump' \in {pump, At("recv")}
      /\ seen' \in Observation
      /\ seen'.stuck = seen.stuck /\ seen'.owned = seen.owned
  BY ListenKeeps DEF Presses, RegistryInv, SurfaceTyped
<1>2. UNCHANGED <<surface, ids, names, bound, held, events, posted>>
  BY DEF Presses, nativeVars
<1>3. PressesTyped'
  BY <1>1, <1>2 DEF RegistryInv, PressesTyped
<1>4. PressesFresh'
  <2>1. CASE pump' = pump
    BY <1>2, <2>1, StayFresh
  <2>2. CASE pump' = At("recv")
    <3>1. pump' \notin Message
      BY <2>2 DEF At, Message
    <3> QED
      BY <1>2, <3>1 DEF RegistryInv, PressesFresh, Fresh, Message
  <2> QED
    BY <1>1, <2>1, <2>2
<1> QED
  BY <1>1, <1>2, <1>3, <1>4 DEF RegistryInv, SurfaceTyped, NothingLeft, NamedIsOwned,
     LiveAgrees

\* bind: the chord is new to the registry and to the platform, and what either
\* side records names it.
LEMMA BindKeeps ==
    ASSUME RegistryInv, NEW n \in Names, NEW c \in Chords, Bind(n, c)
    PROVE  RegistryInv'
<1> DEFINE now == [seen EXCEPT !.stuck = @ \ {c}, !.owned = @ \cup {c}]
<1> USE ShortcutChannelAssumption
<1>1. /\ now \in Observation /\ now.unspawned = seen.unspawned
      /\ now.stuck = seen.stuck \ {c} /\ now.owned = seen.owned \cup {c}
  BY DEF RegistryInv, SurfaceTyped, Observation
<1> DEFINE running == [pump EXCEPT !.press = Aged(@, c)]
<1>2. Listen(now, running) /\ surface = "live" /\ UNCHANGED surface /\ Ages(c)
  BY DEF Bind
<1>a. /\ pump \in Message => running \in Message /\ running.press = Aged(pump.press, c)
      /\ pump \notin Message => running = pump
  <2>1. CASE pump \in Message
    BY <2>1, AgedMessage
  <2>2. CASE pump \in {At("none"), At("recv")}
    BY <2>2 DEF At, NoPress, Aged, Message
  <2> QED
    BY <2>1, <2>2 DEF RegistryInv, PressesTyped
<1> HIDE DEF now, running
<1>3. /\ CallablesTyped' /\ ListenerOpen'
      /\ pump' \in {running, At("recv")}
      /\ seen' \in Observation
      /\ seen'.stuck = seen.stuck \ {c} /\ seen'.owned = seen.owned \cup {c}
  BY <1>1, <1>2, ListenKeeps
<1>4. /\ names' = [names EXCEPT ![c] = n] /\ ids' = [ids EXCEPT ![n] = c]
      /\ held' = held \cup {c} /\ bound' = bound \cup {c}
  BY DEF Bind, Registered, Recorded
<1>5. SurfaceTyped' /\ NothingLeft'
  BY <1>2, <1>3, <1>4 DEF RegistryInv, SurfaceTyped, NothingLeft
<1>6. \A k \in Chords : names'[k] # None => k = c \/ names[k] # None
  BY <1>4 DEF RegistryInv, SurfaceTyped
<1>7. names'[c] # None /\ \A k \in Chords : k # c => names'[k] = names[k]
  BY <1>4 DEF RegistryInv, SurfaceTyped
<1>8. NamedIsOwned' /\ LiveAgrees'
  BY <1>2, <1>3, <1>4, <1>6, <1>7
     DEF RegistryInv, SurfaceTyped, NamedIsOwned, LiveAgrees
<1>9. ASSUME NEW press \in Press, Fresh(press, names)
      PROVE  Fresh(Aged(press, c), names')
  BY <1>7, <1>9, AgedPress DEF Fresh, Press
<1>10. /\ events' \in Seq(Press)
       /\ \A i \in DOMAIN events' : Fresh(events'[i], names')
  <2>1. events' = [i \in 1..Len(events) |-> Aged(events[i], c)] /\ Len(events) \in Nat
    BY <1>2 DEF Ages, RegistryInv, PressesTyped
  <2>2. \A i \in 1..Len(events) : events[i] \in Press /\ Fresh(events[i], names)
    BY DEF RegistryInv, PressesTyped, PressesFresh
  <2>3. \A i \in 1..Len(events) : Aged(events[i], c) \in Press
    BY <2>2, AgedPress
  <2> QED
    BY <1>9, <2>1, <2>2, <2>3
<1>11. /\ posted' \in Seq(Message)
       /\ \A i \in DOMAIN posted' : Fresh(posted'[i].press, names')
  <2>1. /\ posted' = [i \in 1..Len(posted) |-> [posted[i] EXCEPT !.press = Aged(@, c)]]
        /\ Len(posted) \in Nat
    BY <1>2 DEF Ages, RegistryInv, PressesTyped
  <2>2. \A i \in 1..Len(posted) : posted[i] \in Message /\ Fresh(posted[i].press, names)
    BY DEF RegistryInv, PressesTyped, PressesFresh
  <2>3. \A i \in 1..Len(posted) : /\ posted'[i] \in Message
                                  /\ posted'[i].press = Aged(posted[i].press, c)
                                  /\ posted[i].press \in Press
    BY <2>1, <2>2, AgedMessage DEF Message
  <2>4. posted' \in Seq(Message) /\ DOMAIN posted' = 1..Len(posted)
    BY <2>1, <2>3
  <2> QED
    BY <1>9, <2>2, <2>3, <2>4
<1>12. pump' \in Message => Fresh(pump'.press, names')
  <2>1. ASSUME pump' \in Message PROVE pump \in Message /\ pump'.press = Aged(pump.press, c)
    BY <1>3, <1>a, <2>1 DEF At, Message
  <2>2. pump \in Message => pump.press \in Press /\ Fresh(pump.press, names)
    BY DEF RegistryInv, PressesFresh, Message
  <2> QED
    BY <1>9, <2>1, <2>2
<1>13. PressesTyped' /\ PressesFresh'
  <2>1. pump' \in Message \cup {At("none"), At("recv")}
    BY <1>3, <1>a DEF RegistryInv, PressesTyped
  <2> QED
    BY <1>10, <1>11, <1>12, <2>1 DEF PressesTyped, PressesFresh
<1> QED
  BY <1>3, <1>5, <1>8, <1>13 DEF RegistryInv

\* What a release leaves alone.
LEMMA ReleaseFrame ==
    ASSUME RegistryInv, UNCHANGED <<surface, callable, made, shut, pumpVars>>,
           seen'.unspawned = seen.unspawned,
           \A c \in Chords : names'[c] \in {names[c], None}
    PROVE  CallablesTyped' /\ PressesTyped' /\ ListenerOpen' /\ PressesFresh'
<1>1. CallablesTyped' /\ PressesTyped' /\ ListenerOpen'
  BY DEF RegistryInv, CallablesTyped, PressesTyped, ListenerOpen, pumpVars
<1>2. PressesFresh'
  BY StayFresh DEF pumpVars
<1> QED
  BY <1>1, <1>2

\* release: the chord loses its name together with its place in the registry;
\* one the platform would not let go keeps the name and is a stuck one.
LEMMA ReleaseKeeps ==
    ASSUME RegistryInv, NEW n \in Names, Release(n)
    PROVE  RegistryInv'
<1> USE ShortcutChannelAssumption
<1> DEFINE c == ids[n]
<1>1. /\ surface = "live" /\ c \in bound /\ c \in Chords
      /\ UNCHANGED <<surface, callable, made, shut, pumpVars>>
      /\ bound' = bound \ {c}
  BY DEF Release, Unregisters, RegistryInv, SurfaceTyped
<1>2. CASE /\ Unregisters({c}, {})
           /\ ids' = [ids EXCEPT ![n] = None]
           /\ names' = [names EXCEPT ![c] = None]
           /\ seen' = [seen EXCEPT !.owned = @ \ {c}]
  <2>1. held' = held \ {c}
    BY <1>2 DEF Unregisters
  <2>2. /\ seen' \in Observation /\ seen'.unspawned = seen.unspawned
        /\ seen'.stuck = seen.stuck /\ seen'.owned = seen.owned \ {c}
    BY <1>2 DEF RegistryInv, SurfaceTyped, Observation
  <2>3. ids' \in [Names -> Chords \cup {None}] /\ names' \in [Chords -> Names \cup {None}]
    BY <1>2 DEF RegistryInv, SurfaceTyped
  <2>4. \A k \in Chords : names'[k] = IF k = c THEN None ELSE names[k]
    BY <1>2, <1>1 DEF RegistryInv, SurfaceTyped
  <2> HIDE DEF c
  <2>5. SurfaceTyped' /\ NothingLeft'
    BY <1>1, <2>1, <2>2, <2>3 DEF RegistryInv, SurfaceTyped, NothingLeft
  <2>6. NamedIsOwned' /\ LiveAgrees'
    BY <1>1, <2>1, <2>2, <2>4 DEF RegistryInv, SurfaceTyped, NamedIsOwned, LiveAgrees
  <2> QED
    BY <1>1, <2>2, <2>4, <2>5, <2>6, ReleaseFrame DEF RegistryInv
<1>3. CASE /\ Unregisters({c}, {c})
           /\ seen' = [seen EXCEPT !.stuck = @ \cup {c}]
           /\ UNCHANGED <<ids, names>>
  <2>1. held' \subseteq held /\ held \subseteq held' \cup {c}
    BY <1>3 DEF Unregisters
  <2>2. /\ seen' \in Observation /\ seen'.unspawned = seen.unspawned
        /\ seen'.stuck = seen.stuck \cup {c} /\ seen'.owned = seen.owned
    BY <1>1, <1>3 DEF RegistryInv, SurfaceTyped, Observation
  <2> HIDE DEF c
  <2>3. SurfaceTyped' /\ NothingLeft'
    BY <1>1, <1>3, <2>1, <2>2 DEF RegistryInv, SurfaceTyped, NothingLeft
  <2>4. NamedIsOwned' /\ LiveAgrees'
    BY <1>1, <1>3, <2>1, <2>2 DEF RegistryInv, SurfaceTyped, NamedIsOwned, LiveAgrees
  <2> QED
    BY <1>1, <1>3, <2>2, <2>3, <2>4, ReleaseFrame DEF RegistryInv
<1> QED
  BY <1>2, <1>3 DEF Release

\* releaseAll: with a single refusal every chord of the registry is stuck.
LEMMA ReleaseAllKeeps == ASSUME RegistryInv, ReleaseAll PROVE RegistryInv'
<1> USE ShortcutChannelAssumption
<1>1. surface = "live" /\ UNCHANGED <<surface, callable, made, shut, pumpVars>>
  BY DEF ReleaseAll
<1>2. PICK refused \in SUBSET bound :
         /\ Unregisters(bound, refused)
         /\ IF refused = {}
              THEN /\ ids' = NoIds /\ names' = NoNames
                   /\ seen' = [seen EXCEPT !.owned = {}]
              ELSE /\ seen' = [seen EXCEPT !.stuck = @ \cup bound]
                   /\ UNCHANGED <<ids, names>>
  BY DEF ReleaseAll
<1>3. bound' = {} /\ held' \subseteq held /\ held \subseteq held' \cup bound
  BY <1>2 DEF Unregisters
<1>4. CASE refused = {}
  <2>1. held' = held \ bound
    BY <1>2, <1>4 DEF Unregisters
  <2>2. /\ seen' \in Observation /\ seen'.unspawned = seen.unspawned
        /\ seen'.stuck = seen.stuck
    BY <1>2, <1>4 DEF RegistryInv, SurfaceTyped, Observation
  <2>3. SurfaceTyped' /\ NothingLeft'
    BY <1>1, <1>2, <1>3, <1>4, <2>2
       DEF RegistryInv, SurfaceTyped, NothingLeft, NoIds, NoNames
  <2>4. NamedIsOwned' /\ LiveAgrees'
    BY <1>1, <1>2, <1>3, <1>4, <2>1, <2>2
       DEF RegistryInv, SurfaceTyped, NamedIsOwned, LiveAgrees, NoNames
  <2>5. \A k \in Chords : names'[k] = None
    BY <1>2, <1>4 DEF NoNames
  <2> QED
    BY <1>1, <2>2, <2>3, <2>4, <2>5, ReleaseFrame DEF RegistryInv
<1>5. CASE refused # {}
  <2>1. /\ seen' \in Observation /\ seen'.unspawned = seen.unspawned
        /\ seen'.stuck = seen.stuck \cup bound /\ seen'.owned = seen.owned
    BY <1>2, <1>5 DEF RegistryInv, SurfaceTyped, Observation
  <2>2. SurfaceTyped' /\ NothingLeft'
    BY <1>1, <1>2, <1>3, <1>5, <2>1 DEF RegistryInv, SurfaceTyped, NothingLeft
  <2>3. NamedIsOwned' /\ LiveAgrees'
    BY <1>1, <1>2, <1>3, <1>5, <2>1
       DEF RegistryInv, SurfaceTyped, NamedIsOwned, LiveAgrees
  <2> QED
    BY <1>1, <1>2, <1>5, <2>1, <2>2, <2>3, ReleaseFrame DEF RegistryInv
<1> QED
  BY <1>4, <1>5

\* open and the three steps of dispose.  The listener is taken away before its
\* callable is closed, which is what keeps ListenerOpen.
LEMMA DisposeKeeps ==
    ASSUME RegistryInv, Open \/ StopListening \/ CloseCallable \/ CloseRegistry
    PROVE  RegistryInv'
<1> USE ShortcutChannelAssumption DEF dartVars, nativeVars, pumpVars
<1>0. PressesFresh'
  <2>1. UNCHANGED <<events, posted, pump>>
    BY DEF Open, StopListening, CloseCallable, CloseRegistry
  <2>2. \A c \in Chords : names'[c] \in {names[c], None}
    BY DEF Open, StopListening, CloseCallable, CloseRegistry, NoNames
  <2> QED
    BY <2>1, <2>2, StayFresh
<1>1. CASE Open
  BY <1>0, <1>1 DEF Open, RegistryInv, SurfaceTyped, CallablesTyped, PressesTyped, NothingLeft,
     NamedIsOwned, LiveAgrees, ListenerOpen, NoNames
<1>2. CASE StopListening
  BY <1>0, <1>2 DEF StopListening, RegistryInv, SurfaceTyped, CallablesTyped, PressesTyped,
     NothingLeft, NamedIsOwned, LiveAgrees, ListenerOpen
<1>3. CASE CloseCallable
  BY <1>0, <1>3 DEF CloseCallable, RegistryInv, SurfaceTyped, CallablesTyped, PressesTyped,
     NothingLeft, NamedIsOwned, LiveAgrees, ListenerOpen
<1>4. CASE CloseRegistry
  <2>1. /\ seen' \in Observation /\ seen'.unspawned = seen.unspawned
    BY <1>4 DEF CloseRegistry, RegistryInv, SurfaceTyped, Observation
  <2>2. SurfaceTyped' /\ NothingLeft' /\ NamedIsOwned' /\ LiveAgrees'
    BY <1>4, <2>1 DEF CloseRegistry, RegistryInv, SurfaceTyped, NothingLeft,
       NamedIsOwned, LiveAgrees, NoIds, NoNames
  <2>3. CallablesTyped' /\ PressesTyped' /\ ListenerOpen'
    BY <1>4, <2>1 DEF CloseRegistry, RegistryInv, CallablesTyped, PressesTyped,
       ListenerOpen
  <2> QED
    BY <1>0, <2>2, <2>3 DEF RegistryInv
<1> QED
  BY <1>1, <1>2, <1>3, <1>4

\* A press travels without touching the registry.
LEMMA PressKeeps ==
    ASSUME RegistryInv,
           (\E c \in Chords : PressKey(c)) \/ Receive \/ Call \/ OnNativePress
    PROVE  RegistryInv'
<1> USE ShortcutChannelAssumption DEF dartVars, nativeVars
<1>1. PressesTyped'
  <2>1. CASE \E c \in Chords : PressKey(c)
    <3>1. PICK c \in Chords : PressKey(c)
      BY <2>1
    <3>2. [chord |-> c, as |-> names[c]] \in Press
      BY DEF Press, RegistryInv, SurfaceTyped
    <3> QED
      BY <3>1, <3>2 DEF PressKey, RegistryInv, PressesTyped
  <2>2. CASE Receive
    <3>1. Tail(events) \in Seq(Press) /\ Head(events) \in Press
      BY <2>2 DEF Receive, RegistryInv, PressesTyped
    <3>2. Emitting(listener, Head(events)) \in Message
      BY <3>1 DEF Emitting, Message, RegistryInv, CallablesTyped
    <3> QED
      BY <2>2, <3>1, <3>2 DEF Receive, RegistryInv, PressesTyped
  <2>3. CASE Call
    <3>1. pump \in Message
      BY <2>3 DEF Call, At, RegistryInv, PressesTyped
    <3>2. Append(posted, pump) \in Seq(Message)
      BY <3>1 DEF RegistryInv, PressesTyped
    <3> QED
      BY <2>3, <3>2 DEF Call, RegistryInv, PressesTyped
  <2>4. CASE OnNativePress
    BY <2>4 DEF OnNativePress, RegistryInv, PressesTyped
  <2> QED
    BY <2>1, <2>2, <2>3, <2>4
<1>2. /\ seen' \in Observation /\ seen'.stuck = seen.stuck /\ seen'.owned = seen.owned
      /\ seen'.unspawned = seen.unspawned
  <2>1. CASE (\E c \in Chords : PressKey(c)) \/ Receive \/ Call
    BY <2>1 DEF PressKey, Receive, Call, RegistryInv, SurfaceTyped
  <2>2. CASE OnNativePress
    <3>1. Head(posted) \in Message
      BY <2>2 DEF OnNativePress, RegistryInv, PressesTyped
    <3>2. Head(posted).press.chord \in Chords
      BY <3>1 DEF Message, Press
    <3>3. \E h \in Chords \cup {None} : seen' = [seen EXCEPT !.heard = h]
      BY <2>2, <3>2 DEF OnNativePress
    <3> QED
      BY <3>3 DEF RegistryInv, SurfaceTyped, Observation
  <2> QED
    BY <2>1, <2>2
<1>3. UNCHANGED <<surface, ids, names, callable, made, shut, bound, held, listener>>
  BY DEF PressKey, Receive, Call, OnNativePress
<1>4. names' = names
  BY <1>3
<1>5. PressesFresh'
  <2>0. /\ events \in Seq(Press) /\ posted \in Seq(Message)
        /\ \A i \in 1..Len(events) : events[i] \in Press /\ Fresh(events[i], names)
        /\ \A i \in 1..Len(posted) : posted[i].press \in Press /\ Fresh(posted[i].press, names)
        /\ pump \in Message => pump.press \in Press /\ Fresh(pump.press, names)
    <3>1. /\ events \in Seq(Press) /\ posted \in Seq(Message)
          /\ \A i \in 1..Len(events) : events[i] \in Press /\ Fresh(events[i], names)
          /\ \A i \in 1..Len(posted) : posted[i] \in Message
          /\ \A i \in 1..Len(posted) : Fresh(posted[i].press, names)
          /\ pump \in Message => Fresh(pump.press, names)
      BY DEF RegistryInv, PressesTyped, PressesFresh
    <3>2. \A message \in Message : message.press \in Press
      BY DEF Message
    <3> QED
      BY <3>1, <3>2
  <2>1. CASE \E c \in Chords : PressKey(c)
    <3>1. PICK c \in Chords : PressKey(c)
      BY <2>1
    <3> DEFINE press == [chord |-> c, as |-> names[c]]
    <3>2. press \in Press /\ Fresh(press, names)
      BY DEF Press, Fresh, RegistryInv, SurfaceTyped
    <3>3. events' = Append(events, press) /\ UNCHANGED <<posted, pump>>
      BY <3>1 DEF PressKey
    <3> HIDE DEF press
    <3>4. \A i \in DOMAIN events' : events'[i] \in Press /\ Fresh(events'[i], names)
      BY <2>0, <3>2, <3>3
    <3> QED
      BY <1>4, <2>0, <3>3, <3>4 DEF PressesFresh
  <2>2. CASE Receive
    <3>1. /\ events # <<>> /\ events' = Tail(events) /\ UNCHANGED posted
          /\ pump' = pump \/ pump' = Emitting(listener, Head(events))
      BY <2>2 DEF Receive
    <3>2. \A i \in DOMAIN events' : events'[i] \in Press /\ Fresh(events'[i], names)
      BY <2>0, <3>1
    <3>3. Head(events) \in Press /\ Fresh(Head(events), names)
      BY <2>0, <3>1
    <3>4. pump' \in Message => pump'.press \in Press /\ Fresh(pump'.press, names)
      BY <2>0, <3>1, <3>3 DEF Emitting
    <3> QED
      BY <1>4, <2>0, <3>1, <3>2, <3>4 DEF PressesFresh
  <2>3. CASE Call
    <3>1. pump \in Message
      BY <2>3 DEF Call, At, RegistryInv, PressesTyped
    <3>2. /\ events' = events /\ pump' = At("recv")
          /\ posted' = posted \/ posted' = Append(posted, pump)
      BY <2>3 DEF Call
    <3>3. \A i \in DOMAIN posted' : posted'[i].press \in Press /\ Fresh(posted'[i].press, names)
      <4>1. CASE posted' = posted
        BY <2>0, <4>1
      <4>2. CASE posted' = Append(posted, pump)
        <5>0. /\ Append(posted, pump) \in Seq(Message) /\ Len(posted) \in Nat
              /\ Len(Append(posted, pump)) = Len(posted) + 1
          BY <2>0, <3>1
        <5>a. DOMAIN posted' = 1..(Len(posted) + 1)
          BY <2>0, <3>1, <4>2
        <5>1. \A i \in DOMAIN posted' :
                 \/ posted'[i] = pump
                 \/ i \in 1..Len(posted) /\ posted'[i] = posted[i]
          <6> SUFFICES ASSUME NEW i \in 1..(Len(posted) + 1)
                       PROVE  \/ Append(posted, pump)[i] = pump
                              \/ /\ i \in 1..Len(posted)
                                 /\ Append(posted, pump)[i] = posted[i]
            BY <4>2, <5>a
          <6>1. CASE i = Len(posted) + 1
            BY <2>0, <3>1, <5>0, <6>1
          <6>2. CASE i # Len(posted) + 1
            BY <2>0, <3>1, <5>0, <6>2
          <6> QED
            BY <6>1, <6>2
        <5> QED
          BY <2>0, <3>1, <5>1
      <4> QED
        BY <3>2, <4>1, <4>2
    <3>4. pump' \notin Message
      BY <3>2 DEF At, Message
    <3> QED
      BY <1>4, <2>0, <3>2, <3>3, <3>4 DEF PressesFresh
  <2>4. CASE OnNativePress
    <3>1. posted # <<>> /\ posted' = Tail(posted) /\ UNCHANGED <<events, pump>>
      BY <2>4 DEF OnNativePress
    <3>2. \A i \in DOMAIN posted' : posted'[i].press \in Press /\ Fresh(posted'[i].press, names)
      BY <2>0, <3>1
    <3> QED
      BY <1>4, <2>0, <3>1, <3>2 DEF PressesFresh
  <2> QED
    BY <2>1, <2>2, <2>3, <2>4
<1> QED
  BY <1>1, <1>2, <1>3, <1>5 DEF RegistryInv, SurfaceTyped, CallablesTyped, NothingLeft,
     NamedIsOwned, LiveAgrees, ListenerOpen

\* Whatever the isolate, the pump and the platform do next, the invariant is kept.
LEMMA ShortcutStep == RegistryInv /\ [Next]_vars => RegistryInv'
<1> SUFFICES ASSUME RegistryInv, [Next]_vars PROVE RegistryInv'
  OBVIOUS
<1>1. CASE UNCHANGED vars
  BY <1>1 DEF vars, dartVars, nativeVars, pumpVars, RegistryInv, SurfaceTyped,
     CallablesTyped, PressesTyped, NothingLeft, NamedIsOwned, LiveAgrees, ListenerOpen,
     PressesFresh, Fresh
<1>2. CASE Next
  BY <1>2, PressesKeeps, BindKeeps, ReleaseKeeps, ReleaseAllKeeps, DisposeKeeps,
     PressKeeps DEF Next, Surface
<1> QED
  BY <1>1, <1>2

\* The registry, the platform and the maps of the isolate agree across every
\* bind, refused release and surface, and no closed callable is listed unless
\* the pump thread could not be started (Registry::bind, release, release_all,
\* dispose, event_pump::listen).
THEOREM ShortcutsAgree == Spec => []RegistryAgrees
<1>1. RegistryInv => RegistryAgrees
  BY DEF RegistryInv, RegistryAgrees, LiveAgrees, ListenerOpen
<1> QED
  BY ShortcutInit, ShortcutStep, <1>1, PTL DEF Spec

\* The application hears a press only while its chord is bound, and under the
\* name it had when it was pressed, wherever the press was when the chord was
\* released and whichever surface it was meant for, unless the chord was bound
\* again since (NativeShortcutSurface._onNativePress).
THEOREM ReleasedChordsAreSilent == Spec => ReleasedChordSilent
<1> DEFINE press == Head(posted).press
           Silent == posted # <<>> /\ posted' = Tail(posted) /\ seen'.heard # None =>
                       /\ seen'.heard = press.chord /\ press.chord \in seen.owned
                       /\ press.as \in {None, names[press.chord]}
<1>1. RegistryInv /\ [Next]_vars => [Silent]_posted
  <2> SUFFICES ASSUME RegistryInv, [Next]_vars, posted' # posted,
                      posted # <<>>, posted' = Tail(posted), seen'.heard # None
               PROVE  /\ seen'.heard = press.chord /\ press.chord \in seen.owned
                      /\ press.as \in {None, names[press.chord]}
    OBVIOUS
  <2>0. Len(posted') # Len(posted)
    BY DEF RegistryInv, PressesTyped
  <2>1. ~Call
    <3> SUFFICES ASSUME Call PROVE FALSE
      OBVIOUS
    <3>1. pump \in Message /\ posted \in Seq(Message)
      BY DEF Call, At, RegistryInv, PressesTyped
    <3>2. posted' = Append(posted, pump)
      BY DEF Call
    <3>3. Len(posted') = Len(posted) + 1 /\ Len(posted) \in Nat
      BY <3>1, <3>2
    <3>4. Len(posted') < Len(posted)
      BY <3>1
    <3> QED
      BY <3>3, <3>4
  <2>2. ASSUME NEW n \in Names, NEW c \in Chords, Bind(n, c) PROVE FALSE
    <3>1. /\ posted' = [i \in 1..Len(posted) |-> [posted[i] EXCEPT !.press = Aged(@, c)]]
          /\ Len(posted) \in Nat
      BY <2>2 DEF Bind, Ages, RegistryInv, PressesTyped
    <3> QED
      BY <2>0, <3>1
  <2>3. OnNativePress
    BY <2>1, <2>2 DEF Next, Surface, Open, Presses, ReleaseAll, Release, StopListening,
       CloseCallable, CloseRegistry, PressKey, Receive, vars, pumpVars
  <2>4. press \in Press /\ Fresh(press, names)
    <3>1. 1 \in DOMAIN posted /\ Head(posted) = posted[1] /\ posted[1] \in Message
      BY DEF RegistryInv, PressesTyped
    <3> QED
      BY <3>1 DEF Message, RegistryInv, PressesFresh
  <2>5. \/ names[press.chord] # None /\ seen' = [seen EXCEPT !.heard = press.chord]
        \/ seen' = [seen EXCEPT !.heard = None]
    BY <2>3 DEF OnNativePress
  <2> HIDE DEF press
  <2>6. names[press.chord] # None /\ seen'.heard = press.chord
    BY <2>5 DEF RegistryInv, SurfaceTyped, Observation
  <2>7. press.chord \in Chords
    BY <2>4 DEF Press
  <2> QED
    BY <2>4, <2>6, <2>7 DEF RegistryInv, NamedIsOwned, Fresh
<1> QED
  BY ShortcutInit, ShortcutStep, <1>1, PTL DEF Spec, ReleasedChordSilent

-----------------------------------------------------------------------------
(* The PumpTable, for every set of streams, any number of pumps and        *)
(* callers, and every channel capacity.                                    *)

-----------------------------------------------------------------------------
(* The inductive invariant.                                                *)

\* The replace() that brings t has put it into the table.
Listed(t) == call[t] \in {"inserted", "judged", "done"}

\* Only a replace() that was begun has a task, and the table lists a pump
\* under the name it was spawned for (PumpTable::replace).
TableHonest ==
    /\ \A t \in Tasks : task[t] = "new" <=> call[t] = "none"
    /\ \A n \in Streams : table[n] # NoTask =>
          name[table[n]] = n /\ Listed(table[n])

\* What an insert handed back has left the table for good, and only one
\* replace() holds it (HashMap::insert under the lock).
DisplacedOnce ==
    \A t \in Tasks : displaced[t] # NoTask =>
        /\ Listed(t)
        /\ Listed(displaced[t])
        /\ \A n \in Streams : table[n] # displaced[t]
        /\ \A u \in Tasks : displaced[u] = displaced[t] => u = t

\* The answer errs on one side only: a pump found finished stays finished,
\* so one that is dropped alive was found alive (displaced_a_live_pump).
JudgedAlive ==
    \A t \in Tasks :
        call[t] \in {"judged", "done"} /\ displaced[t] # NoTask =>
            answer[t] \/ task[displaced[t]] = "finished"

\* Only the replace() that holds a pump interrupts it, and does so last.
KilledByHolder ==
    \A u \in killed : \E t \in Tasks :
        displaced[t] = u /\ call[t] = "done" /\ answer[t]

PumpInv ==
    /\ PumpsTypeOK
    /\ TableHonest
    /\ DisplacedOnce
    /\ JudgedAlive
    /\ KilledByHolder
    /\ RunningPumpsOwned

-----------------------------------------------------------------------------
\* A program with no pump is in order.
LEMMA PumpInit == PumpsInit => PumpInv
<1> SUFFICES ASSUME PumpsInit PROVE PumpInv
  OBVIOUS
<1>1. PumpsTypeOK
  <2>1. behind \in [Tasks -> 0..(Cap + 1)] /\ sent \in [Streams -> 0..MaxSends]
    BY EventPumpsAssumption DEF PumpsInit
  <2>2. /\ table \in [Streams -> Tasks \cup {NoTask}] /\ name \in [Tasks -> Streams]
        /\ task \in [Tasks -> {"new", "parked", "polling", "finished"}]
        /\ call \in [Tasks -> {"none", "spawned", "inserted", "judged", "done"}]
        /\ displaced \in [Tasks -> Tasks \cup {NoTask}] /\ killed \subseteq Tasks
    BY DEF PumpsInit
  <2>3. /\ aborted \in [Tasks -> BOOLEAN] /\ answer \in [Tasks -> BOOLEAN]
        /\ closed \in [Streams -> BOOLEAN] /\ warned \in BOOLEAN
    BY Zenon DEF PumpsInit
  <2> QED BY <2>1, <2>2, <2>3 DEF PumpsTypeOK
<1>2. TableHonest /\ DisplacedOnce /\ JudgedAlive /\ KilledByHolder /\ RunningPumpsOwned
  BY DEF PumpsInit, TableHonest, DisplacedOnce, JudgedAlive, KilledByHolder,
     RunningPumpsOwned
<1> QED BY <1>1, <1>2 DEF PumpInv

\* One more event leaves every receiver within its channel, or one beyond
\* (tokio's broadcast channel overwrites its oldest slot).
LEMMA OneMoreTyped ==
    ASSUME NEW b \in [Tasks -> 0..(Cap + 1)], NEW n
    PROVE  OneMore(b, n) \in [Tasks -> 0..(Cap + 1)]
BY EventPumpsAssumption DEF OneMore

\* The steps of replace(), remove() and clear() keep the table in order.
LEMMA CallsStep ==
    ASSUME PumpInv, NEW t \in Tasks, Calls(t)
    PROVE  PumpInv'
<1> USE DEF PumpInv
<1>1. CASE Spawn(t)
  <2>1. PumpsTypeOK'
    BY <1>1 DEF Spawn, PumpsTypeOK, channelVars
  <2>2. TableHonest' /\ DisplacedOnce'
    BY <1>1 DEF Spawn, PumpsTypeOK, TableHonest, DisplacedOnce, Listed
  <2>3. JudgedAlive' /\ KilledByHolder'
    BY <1>1 DEF Spawn, PumpsTypeOK, TableHonest, DisplacedOnce, Listed,
       JudgedAlive, KilledByHolder
  <2>4. RunningPumpsOwned'
    BY <1>1 DEF Spawn, PumpsTypeOK, RunningPumpsOwned
  <2> QED BY <2>1, <2>2, <2>3, <2>4
<1>2. CASE Insert(t)
  <2>0. displaced[t] = NoTask
    BY <1>2, EventPumpsAssumption DEF Insert, DisplacedOnce, Listed
  <2>1. PumpsTypeOK'
    BY <1>2 DEF Insert, PumpsTypeOK, channelVars
  <2>2. TableHonest'
    BY <1>2, EventPumpsAssumption DEF Insert, PumpsTypeOK, TableHonest, Listed
  <2>3. DisplacedOnce'
    BY <1>2, <2>0, EventPumpsAssumption DEF Insert, PumpsTypeOK,
       TableHonest, DisplacedOnce, Listed
  <2>4. JudgedAlive'
    BY <1>2 DEF Insert, PumpsTypeOK, JudgedAlive
  <2>5. KilledByHolder'
    BY <1>2, <2>0, EventPumpsAssumption DEF Insert, PumpsTypeOK, KilledByHolder
  <2>6. RunningPumpsOwned'
    BY <1>2, <2>0, EventPumpsAssumption DEF Insert, PumpsTypeOK,
       TableHonest, RunningPumpsOwned
  <2> QED BY <2>1, <2>2, <2>3, <2>4, <2>5, <2>6
<1>3. CASE Judge(t)
  <2>1. PumpsTypeOK'
    BY <1>3 DEF Judge, PumpsTypeOK, channelVars
  <2>2. TableHonest' /\ DisplacedOnce'
    BY <1>3 DEF Judge, PumpsTypeOK, TableHonest, DisplacedOnce, Listed
  <2>3. JudgedAlive'
    BY <1>3 DEF Judge, PumpsTypeOK, JudgedAlive
  <2>4. KilledByHolder'
    BY <1>3 DEF Judge, PumpsTypeOK, KilledByHolder
  <2>5. RunningPumpsOwned'
    BY <1>3 DEF Judge, PumpsTypeOK, RunningPumpsOwned
  <2> QED BY <2>1, <2>2, <2>3, <2>4, <2>5
<1>4. CASE DropDisplaced(t)
  <2>1. PumpsTypeOK'
    BY <1>4 DEF DropDisplaced, PumpsTypeOK, channelVars
  <2>2. TableHonest' /\ DisplacedOnce'
    BY <1>4 DEF DropDisplaced, PumpsTypeOK, TableHonest, DisplacedOnce, Listed
  <2>3. JudgedAlive'
    BY <1>4 DEF DropDisplaced, PumpsTypeOK, JudgedAlive
  <2>4. KilledByHolder'
    BY <1>4 DEF DropDisplaced, PumpsTypeOK, JudgedAlive, KilledByHolder
  <2>5. RunningPumpsOwned'
    <3>1. /\ UNCHANGED <<table, displaced, task>>
          /\ call' = [call EXCEPT ![t] = "done"]
          /\ aborted' = [u \in Tasks |-> aborted[u] \/ u \in {displaced[t]} \ {NoTask}]
      BY <1>4, Zenon DEF DropDisplaced
    <3>2. ASSUME NEW u \in Tasks PROVE aborted'[u] <=> (aborted[u] \/ u = displaced[t])
      BY <3>1, EventPumpsAssumption
    <3>3. \A u \in Tasks : u # t => call'[u] = call[u]
      BY <3>1 DEF PumpsTypeOK
    <3>4. call[t] # "spawned"
      BY <1>4 DEF DropDisplaced
    <3> QED BY <3>1, <3>2, <3>3, <3>4 DEF PumpsTypeOK, RunningPumpsOwned
  <2> QED BY <2>1, <2>2, <2>3, <2>4, <2>5
<1> QED BY <1>1, <1>2, <1>3, <1>4 DEF Calls

\* remove() and clear() abort what they take out.
LEMMA TakeOutStep ==
    ASSUME PumpInv, Clear \/ \E n \in Streams : Remove(n)
    PROVE  PumpInv'
<1> USE DEF PumpInv
<1>1. ASSUME NEW n \in Streams, Remove(n) PROVE PumpInv'
  <2>1. PumpsTypeOK'
    BY <1>1 DEF Remove, PumpsTypeOK, channelVars
  <2>2. TableHonest' /\ DisplacedOnce'
    BY <1>1, EventPumpsAssumption DEF Remove, PumpsTypeOK, TableHonest,
       DisplacedOnce, Listed
  <2>3. JudgedAlive' /\ KilledByHolder'
    BY <1>1 DEF Remove, JudgedAlive, KilledByHolder
  <2>4. RunningPumpsOwned'
    BY <1>1 DEF Remove, PumpsTypeOK, RunningPumpsOwned
  <2> QED BY <2>1, <2>2, <2>3, <2>4
<1>2. CASE Clear
  <2>1. PumpsTypeOK'
    BY <1>2 DEF Clear, PumpsTypeOK, channelVars
  <2>2. TableHonest' /\ DisplacedOnce'
    BY <1>2, EventPumpsAssumption DEF Clear, PumpsTypeOK, TableHonest,
       DisplacedOnce, Listed
  <2>3. JudgedAlive' /\ KilledByHolder'
    BY <1>2 DEF Clear, JudgedAlive, KilledByHolder
  <2>4. RunningPumpsOwned'
    BY <1>2 DEF Clear, PumpsTypeOK, RunningPumpsOwned
  <2> QED BY <2>1, <2>2, <2>3, <2>4
<1> QED BY <1>1, <1>2

\* A pump's own steps leave the table alone, and never revive a pump that
\* ended (the loop of pump, and the runtime that polls it).
LEMMA RunsStep ==
    ASSUME PumpInv, NEW t \in Tasks, Runs(t)
    PROVE  PumpInv'
<1> USE DEF PumpInv
<1>1. PumpsTypeOK'
  <2>1. CASE Lagged(t)
    <3> DEFINE b == [behind EXCEPT ![t] = Cap]
    <3>1. b \in [Tasks -> 0..(Cap + 1)]
      BY EventPumpsAssumption DEF PumpsTypeOK
    <3>2. behind' = OneMore(b, LogName)
      BY <2>1 DEF Lagged
    <3> HIDE DEF b
    <3>3. behind' \in [Tasks -> 0..(Cap + 1)]
      BY <3>1, <3>2, OneMoreTyped
    <3>4. warned' \in BOOLEAN
      BY <2>1, Zenon DEF Lagged, PumpsTypeOK
    <3> QED BY <2>1, <3>3, <3>4 DEF Lagged, PumpsTypeOK, tableVars
  <2>2. CASE \/ Deliver(t) \/ Refused(t) \/ Park(t)
             \/ Wake(t) \/ Cancel(t)
    BY <2>2, EventPumpsAssumption
       DEF Deliver, Refused, Park,
          Wake, Cancel, PumpsTypeOK, tableVars, channelVars
  <2> QED BY <2>1, <2>2 DEF Runs
<1>2. /\ UNCHANGED <<tableVars, aborted>>
      /\ \/ task' = task
         \/ /\ task[t] \in {"parked", "polling"}
            /\ \E s \in {"parked", "polling", "finished"} : task' = [task EXCEPT ![t] = s]
  BY Zenon DEF Runs, Deliver, Refused, Lagged, Park,
     Wake, Cancel
<1>3. /\ \A u \in Tasks : task'[u] = "new" <=> task[u] = "new"
      /\ \A u \in Tasks : task[u] = "finished" => task'[u] = "finished"
      /\ \A u \in Tasks : task'[u] \in {"parked", "polling"} => task[u] \in {"parked", "polling"}
  BY <1>2 DEF PumpsTypeOK
<1>4. TableHonest' /\ DisplacedOnce' /\ KilledByHolder'
  BY <1>2, <1>3 DEF tableVars, TableHonest, DisplacedOnce, KilledByHolder, Listed
<1>5. JudgedAlive'
  BY <1>2, <1>3 DEF PumpsTypeOK, tableVars, JudgedAlive
<1>6. RunningPumpsOwned'
  BY <1>2, <1>3 DEF tableVars, RunningPumpsOwned
<1> QED BY <1>1, <1>4, <1>5, <1>6

\* Whatever callers, pumps and sources do next, the table stays in order.
LEMMA PumpStep == PumpInv /\ [PumpsNext]_pumpsVars => PumpInv'
<1> SUFFICES ASSUME PumpInv, [PumpsNext]_pumpsVars PROVE PumpInv'
  OBVIOUS
<1>1. ASSUME NEW n \in Streams, Send(n) \/ Close(n) PROVE PumpInv'
  <2>1. UNCHANGED <<tableVars, task, aborted>>
    BY <1>1, Zenon DEF Send, Close
  <2>2. PumpsTypeOK'
    <3>1. behind' \in [Tasks -> 0..(Cap + 1)]
      BY <1>1, OneMoreTyped DEF Send, Close, PumpInv, PumpsTypeOK
    <3>2. sent' \in [Streams -> 0..MaxSends]
      BY <1>1, EventPumpsAssumption DEF Send, Close, PumpInv, PumpsTypeOK
    <3>3. warned' \in BOOLEAN /\ closed' \in [Streams -> BOOLEAN]
      BY <1>1 DEF Send, Close, PumpInv, PumpsTypeOK
    <3> QED BY <2>1, <3>1, <3>2, <3>3 DEF PumpInv, PumpsTypeOK, tableVars
  <2> QED BY <2>1, <2>2 DEF PumpInv, tableVars, TableHonest, DisplacedOnce,
     JudgedAlive,
                            KilledByHolder, RunningPumpsOwned, Listed
<1>2. CASE UNCHANGED pumpsVars
  BY <1>2 DEF PumpInv, pumpsVars, tableVars, channelVars, PumpsTypeOK,
     TableHonest, DisplacedOnce,
              JudgedAlive, KilledByHolder, RunningPumpsOwned, Listed
<1> QED BY <1>1, <1>2, CallsStep, TakeOutStep, RunsStep DEF PumpsNext

\* The invariant holds of every run of the program.
LEMMA PumpInvariant == PumpsSpec => []PumpInv
BY PumpInit, PumpStep, PTL DEF PumpsSpec

-----------------------------------------------------------------------------
(* The theorems.                                                           *)

\* A pump that runs and was not told to stop is in the table, or in the hands
\* of a replace() that lists or drops it, however many callers replace, remove
\* and clear at the same time (PumpTable).
THEOREM NoPumpLeaks == PumpsSpec => []RunningPumpsOwned
<1>1. PumpInv => RunningPumpsOwned
  BY DEF PumpInv
<1> QED BY <1>1, PumpInvariant, PTL

\* A caller whose replace() interrupted a running pump was told so, although
\* the answer is computed and the pump dropped outside the lock
\* (PumpTable::replace).
THEOREM KillsAreReported == PumpsSpec => []NoSilentKill
<1>1. PumpInv => NoSilentKill
  BY EventPumpsAssumption DEF PumpInv, PumpsTypeOK, DisplacedOnce,
     KilledByHolder, NoSilentKill
<1> QED BY <1>1, PumpInvariant, PTL
=============================================================================
