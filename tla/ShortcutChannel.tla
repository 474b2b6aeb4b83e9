--------------------------- MODULE ShortcutChannel ---------------------------
(***************************************************************************)
(* dovetail_shortcut_channel: global shortcuts, from the platform's        *)
(* manager through the registry, the pump thread and the FFI callback to   *)
(* the names the application bound.                                        *)
(*                                                                         *)
(* The isolate runs the surface's methods one at a time; the pump thread   *)
(* runs beside it, and a callback only posts a message the isolate handles *)
(* later.  A chord stands for the id that is computed from it, a callable  *)
(* for the number of the NativeCallable.  A bind that is refused (policy,  *)
(* a chord that does not parse, or one somebody holds) changes nothing and *)
(* is no step.                                                             *)
(***************************************************************************)
EXTENDS Naturals, Sequences

CONSTANTS
    Chords,
    Names,         \* names the application binds chords under
    MaxCallables,  \* bound: NativeCallables made, over all surfaces
    MaxPresses,    \* bound: keys pressed
    None

ASSUME ShortcutChannelAssumption ==
    /\ MaxCallables \in Nat /\ MaxPresses \in Nat
    /\ None \notin Chords \cup Names

VARIABLES
    backend,       \* what the session offers
    surface,       \* the live NativeShortcutSurface, or how far dispose is
    ids,           \* _nativeIdsByName
    names,         \* _namesByNativeId
    callable,      \* _callable, 0 for null
    made,          \* NativeCallables made
    shut,          \* those that are closed
    bound,         \* Registry::bound
    held,          \* what the platform holds for the manager
    listener,      \* LISTENER, 0 for None
    pumping,       \* PUMPING
    pump,          \* the pump thread
    events,        \* the manager's channel of presses
    posted,        \* messages on their way to the isolate
    pressed,       \* keys pressed so far
    seen           \* observation, see Init

dartVars == <<ids, names, callable, made, shut>>
nativeVars == <<bound, held>>
pumpVars == <<listener, pumping, pump, events, posted, pressed>>
vars == <<backend, surface, dartVars, nativeVars, pumpVars, seen>>

-----------------------------------------------------------------------------
(* The session                                                             *)

\* Backend::for_session: what is declared, then which sockets there are.
ForSession(declared, wayland, x11) ==
    CASE declared = "x11" -> "x11"
      [] declared = "wayland" \/ (declared # "x11" /\ wayland) -> "portal"
      [] declared \notin {"x11", "wayland"} /\ ~wayland /\ x11 -> "x11"
      [] OTHER -> "none"

\* backend_probe::detect
Detected ==
    {"win32", "carbon"}
      \cup {ForSession(d, w, x) : d \in {"x11", "wayland", "tty"}, w, x \in BOOLEAN}

\* Registry::open refuses a backend that does not register.
Registering == {"win32", "carbon", "x11"}
RegistryOpens == backend \in Registering

\* A press carries the chord.  Observation, "as": the name the chord had when
\* it was pressed, None when it had none or was bound again since.
Press == [chord : Chords, as : Names \cup {None}]
NoPress == [chord |-> None, as |-> None]

TypeOK ==
    /\ backend \in Detected
    /\ surface \in {"none", "live", "stopped", "closing"}
    /\ ids \in [Names -> Chords \cup {None}]
    /\ names \in [Chords -> Names \cup {None}]
    /\ callable \in 0..MaxCallables /\ made \in 0..MaxCallables
    /\ shut \subseteq 1..MaxCallables
    /\ bound \subseteq Chords /\ held \subseteq Chords
    /\ listener \in 0..MaxCallables /\ pumping \in BOOLEAN
    /\ pump \in [at : {"none", "recv", "emit"}, callable : 0..MaxCallables,
                 press : Press \cup {NoPress}]

At(where) == [at |-> where, callable |-> 0, press |-> NoPress]
Emitting(c, press) == [at |-> "emit", callable |-> c, press |-> press]
NoIds == [n \in Names |-> None]
NoNames == [c \in Chords |-> None]

Init ==
    /\ backend \in Detected
    /\ surface = "none"
    /\ ids = NoIds /\ names = NoNames
    /\ callable = 0 /\ made = 0 /\ shut = {}
    /\ bound = {} /\ held = {}
    /\ listener = 0 /\ pumping = FALSE /\ pump = At("none")
    /\ events = <<>> /\ posted = <<>> /\ pressed = 0
    /\ seen = [stuck |-> {},          \* chords the platform would not let go
               owned |-> {},          \* bound, and no release of them succeeded
               heard |-> None,        \* the last chord given to the application
               unspawned |-> FALSE]   \* the pump thread could not be started

-----------------------------------------------------------------------------
(* The surface, on the isolate                                             *)

\* NativeShortcutSurface.open: one live surface, and a backend that registers.
Open ==
    /\ surface = "none" /\ RegistryOpens
    /\ surface' = "live"
    /\ UNCHANGED <<backend, dartVars, nativeVars, pumpVars, seen>>

\* _installListener and event_pump::listen: the listener is set first; the
\* thread is started by the first listener only.  When it cannot be, the
\* callable is closed and the call throws, the listener and the flag stay.
\* now, running: what the caller has done so far, as the observations record it.
Listen(now, running) ==
    IF callable # 0
      THEN /\ seen' = now /\ pump' = running
           /\ UNCHANGED <<callable, made, shut, listener, pumping>>
      ELSE /\ made' = made + 1 /\ made' <= MaxCallables
           /\ listener' = made'
           /\ pumping' = TRUE
           /\ \/ /\ pump' = IF pumping THEN running ELSE At("recv")
                 /\ callable' = made' /\ seen' = now /\ UNCHANGED shut
              \/ /\ ~pumping
                 /\ shut' = shut \cup {made'}
                 /\ seen' = [now EXCEPT !.unspawned = TRUE]
                 /\ pump' = running /\ UNCHANGED callable

Presses ==
    /\ surface = "live"
    /\ Listen(seen, pump)
    /\ UNCHANGED <<backend, surface, ids, names, nativeVars, events, posted, pressed>>

\* Registry::bind and _bindOne: checked against bound, registered with the
\* platform, recorded on both sides.  The name may have had another chord.
RecordedByName(n, c) ==
    /\ names' = [k \in Chords |-> IF names[k] = n THEN None ELSE names[k]]
    /\ ids' = [ids EXCEPT ![n] = c]
Recorded(n, c) ==
    /\ names' = [names EXCEPT ![c] = n]
    /\ ids' = [ids EXCEPT ![n] = c]

Registered(c) ==
    /\ c \notin bound /\ c \notin held
    /\ held' = held \cup {c} /\ bound' = bound \cup {c}

\* The presses of c that are under way were made for an earlier bind.
Aged(press, c) == IF press.chord = c THEN [press EXCEPT !.as = None] ELSE press
Ages(c) ==
    /\ events' = [i \in DOMAIN events |-> Aged(events[i], c)]
    /\ posted' = [i \in DOMAIN posted |->
                     [posted[i] EXCEPT !.press = Aged(@, c)]]

Bind(n, c) ==
    /\ surface = "live"
    /\ Registered(c) /\ Recorded(n, c) /\ Ages(c)
    /\ Listen([seen EXCEPT !.stuck = @ \ {c}, !.owned = @ \cup {c}],
              [pump EXCEPT !.press = Aged(@, c)])
    /\ UNCHANGED <<backend, surface, pressed>>

\* Registry::release: out of bound first, then off the platform, which may
\* refuse, with or without letting the chord go.
Unregisters(cs, refused) ==
    /\ bound' = bound \ cs
    /\ \E kept \in SUBSET refused : held' = (held \ cs) \cup (held \cap kept)

\* release(name): a refused release puts the name back, as it was.
Release(n) ==
    /\ surface = "live" /\ ids[n] \in bound
    /\ LET c == ids[n]
       IN  \/ /\ Unregisters({c}, {})
              /\ ids' = [ids EXCEPT ![n] = None]
              /\ names' = [names EXCEPT ![c] = None]
              /\ seen' = [seen EXCEPT !.owned = @ \ {c}]
           \/ /\ Unregisters({c}, {c})
              /\ seen' = [seen EXCEPT !.stuck = @ \cup {c}]
              /\ UNCHANGED <<ids, names>>
    /\ UNCHANGED <<backend, surface, callable, made, shut, pumpVars>>

\* releaseAll: every chord is tried; a single refusal keeps all the names.
ReleaseAll ==
    /\ surface = "live"
    /\ \E refused \in SUBSET bound :
         /\ Unregisters(bound, refused)
         /\ IF refused = {}
              THEN /\ ids' = NoIds /\ names' = NoNames
                   /\ seen' = [seen EXCEPT !.owned = {}]
              ELSE /\ seen' = [seen EXCEPT !.stuck = @ \cup bound]
                   /\ UNCHANGED <<ids, names>>
    /\ UNCHANGED <<backend, surface, callable, made, shut, pumpVars>>

\* dispose: stopListening, callable.close, close of the registry, the maps.
StopListening ==
    /\ surface = "live"
    /\ surface' = "stopped"
    /\ listener' = 0
    /\ UNCHANGED <<backend, dartVars, nativeVars, pumping, pump, events, posted,
                   pressed, seen>>

CloseCallable ==
    /\ surface = "stopped"
    /\ surface' = "closing"
    /\ shut' = IF callable = 0 THEN shut ELSE shut \cup {callable}
    /\ callable' = 0
    /\ UNCHANGED <<backend, ids, names, made, nativeVars, pumpVars, seen>>

\* Dropping the manager gives back what the platform still holds for it.
CloseRegistry ==
    /\ surface = "closing"
    /\ surface' = "none"
    /\ bound' = {} /\ held' = {}
    /\ ids' = NoIds /\ names' = NoNames
    /\ seen' = [seen EXCEPT !.stuck = {}, !.owned = {}]
    /\ UNCHANGED <<backend, callable, made, shut, pumpVars>>

-----------------------------------------------------------------------------
(* Presses                                                                 *)

PressKey(c) ==
    /\ c \in held /\ pressed < MaxPresses
    /\ pressed' = pressed + 1
    /\ events' = Append(events, [chord |-> c, as |-> names[c]])
    /\ UNCHANGED <<backend, surface, dartVars, nativeVars, listener, pumping, pump,
                   posted, seen>>

\* pump and emit: the listener is copied under the lock ...
ReceiveThenLeave ==
    /\ pump.at = "recv" /\ events # <<>>
    /\ events' = Tail(events)
    /\ pump' = IF listener = 0 THEN At("none") ELSE Emitting(listener, Head(events))
    /\ UNCHANGED <<backend, surface, dartVars, nativeVars, listener, pumping, posted,
                   pressed, seen>>
Receive ==
    /\ pump.at = "recv" /\ events # <<>>
    /\ events' = Tail(events)
    /\ pump' = IF listener = 0 THEN pump ELSE Emitting(listener, Head(events))
    /\ UNCHANGED <<backend, surface, dartVars, nativeVars, listener, pumping, posted,
                   pressed, seen>>

\* ... and called outside it: a call of a callable that was closed meanwhile
\* is undefined, and here it is lost.
Call ==
    /\ pump.at = "emit"
    /\ pump' = At("recv")
    /\ posted' = IF pump.callable \in shut THEN posted ELSE Append(posted, pump)
    /\ UNCHANGED <<backend, surface, dartVars, nativeVars, listener, pumping, events,
                   pressed, seen>>

\* _onNativePress: a message of a surface that is gone finds no name.
OnNativePressUnchecked ==
    /\ posted # <<>> /\ surface \in {"none", "live"}
    /\ posted' = Tail(posted)
    /\ seen' = [seen EXCEPT !.heard = Head(posted).press.chord]
    /\ UNCHANGED <<backend, surface, dartVars, nativeVars, listener, pumping, pump,
                   events, pressed>>
OnNativePress ==
    /\ posted # <<>> /\ surface \in {"none", "live"}
    /\ posted' = Tail(posted)
    /\ LET c == Head(posted).press.chord
           heard == names[c] # None /\ Head(posted).callable = callable
       IN  seen' = IF heard THEN [seen EXCEPT !.heard = c] ELSE [seen EXCEPT !.heard = None]
    /\ UNCHANGED <<backend, surface, dartVars, nativeVars, listener, pumping, pump,
                   events, pressed>>

Surface ==
    \/ Open \/ Presses \/ ReleaseAll \/ \E n \in Names : Release(n)
    \/ \E n \in Names, c \in Chords : Bind(n, c)

Next ==
    \/ Surface \/ StopListening \/ CloseCallable \/ CloseRegistry
    \/ \E c \in Chords : PressKey(c)
    \/ Receive \/ Call \/ OnNativePress

\* The pump thread runs, dispose runs to its end and the isolate handles its
\* messages.  Nobody has to press a key or call a method.
Fairness ==
    /\ WF_vars(Receive) /\ WF_vars(Call) /\ WF_vars(OnNativePress)
    /\ WF_vars(CloseCallable) /\ WF_vars(CloseRegistry)

Spec == Init /\ [][Next]_vars /\ Fairness

-----------------------------------------------------------------------------
(* Properties                                                              *)

\* The registry, the platform and the application's maps tell one story across
\* refused releases: what the registry lists is held and has a name, so its
\* presses are heard; what is held or named beyond that is a chord whose
\* release the platform refused, which release can then never retry.  And "a
\* released listener must stop receiving" (event_pump.rs): a closed callable is
\* listed no more, so only a press whose copy the pump already had can still
\* be handed to it; the exception is a pump thread that never started.
RegistryAgrees ==
    /\ surface = "live" =>
         /\ bound \subseteq held /\ held \subseteq bound \cup seen.stuck
         /\ \A c \in bound : names[c] # None
         /\ \A c \in Chords : names[c] # None => c \in bound \cup seen.stuck
    /\ listener \in shut => seen.unspawned

\* "a press for a released chord should not reach the stream"
\* (test/native_shortcut_surface_test.dart), of this surface or of one before
\* it, wherever the press was when the chord was released: the application
\* hears a press only while its chord is bound, and under the name it had when
\* it was pressed.  The exception is a chord that is bound again while an older
\* press of it is under way: that press is heard, under the new name.
ReleasedChordSilent ==
    [][posted # <<>> /\ posted' = Tail(posted) /\ seen'.heard # None =>
         LET press == Head(posted).press
         IN  /\ seen'.heard = press.chord /\ press.chord \in seen.owned
             /\ press.as \in {None, names[press.chord]}]_posted

\* A press of a surface that listens is taken to the isolate and handled,
\* on the first surface as on one opened after it, unless the thread could
\* not be started: then no later listener starts it either.
PressesHandled ==
    (events # <<>> \/ posted # <<>>) /\ callable # 0
      ~> (events = <<>> /\ posted = <<>>) \/ callable = 0 \/ seen.unspawned
=============================================================================
