# A TLA+ model of dovetail

Dovetail is a toolkit of Dart and Rust packages for shipping desktop
applications: a privileged daemon and the channel an application talks to it
over, an updater, event streams from Rust to Dart, a single-instance guard,
windows and panels, and the command-line tool that builds, signs and releases
the result. This directory models the parts of it that keep state and meet
concurrency, failure or time; TLC checks the models on small instances and
TLAPS proves the most important statements for every instance.

Paths below are relative to `src/toolkit/`. `PROJECT.json` says for every
definition which lines it models and lists every component, hazard, run,
mutant and theorem; this file explains them.

## 1. The system and its parts

### Inventory

| part | state it keeps | operations | what makes it correct | model |
|---|---|---|---|---|
| privileged channel, protocol (`dovetail_privileged_channel/rust/src`) | negotiated minor at each end, the Hello accepted | `client_handshake`, `server_handshake`, `send_frame`, `recv_frame` | no session without a Hello of the right major; both ends agree on the minor; refusals name the true reason | `PrivilegedConnection` |
| peer policy and transports (same) | socket file and its mode, pipe instances, clients in the queue | `bind`, `accept`, `verify_peer`, `admit` | only admitted peers are served; refusals are not fatal; the daemon that bound last is reachable; the listener keeps up | `AcceptLoop` (verdicts), `LocalEndpoint` (files and pipes) |
| daemon, connection (`dovetail_privileged_daemon/rust/src/connection.rs`) | the frame being read, dispatched or answered | `handle_conn` | commands one at a time, in order, answered once, no work after a timeout was answered, nobody left waiting | `PrivilegedConnection` ⇒ `CommandSession` |
| daemon, server (`server.rs`, `refusal_log.rs`) | consecutive failures, refusal log | `run`, accept loop, `RefusalLog` | no spin, no log flood, no refusal lost, shutdown | `AcceptLoop` |
| daemon, Windows service (`service/windows`) | SCM state, two threads, stop channel | install, repair, stop, uninstall, `service_main` | Running means listening, the exit code is true, commands return | `WindowsService` |
| daemon, systemd (`service/systemd.rs`, `service/linux.rs`) | unit present, enabled, running | install, uninstall, stop, repair, status | what a command answers is so | `LocalEndpoint` |
| daemon, launchd (`service/macos.rs`) | property list, job loaded or disabled | install, uninstall, stop, repair, status | what a command answers is so, after failures and reboots; a loaded job serves | `MacDaemon` |
| daemon, code requirement (`plist_*.rs`, `requirement_*.rs`) | the requirement text and its compiled clauses | read, trust, compile, parse, judge | what is served demands the product's own code; what is acceptable is served | `CodeRequirement`, `MacDaemon` |
| updater, flow and fetch (`dovetail_updater`) | endpoint, hop, connection, manifest, artefact | `check`, `download` | https only, only what was verified, first answer wins, no leak, it ends, the running version never goes back | `UpdateFlow`, `Updating` |
| updater, installers (`install/`) | files at the application's path | `install` | a whole application survives every failure; reports are true | `AppImageInstaller`, `BundleInstaller`; the hand-over of Windows, deb and rpm not modelled |
| rust core (`dovetail_rust_core`) | table of pumps, broadcast receivers | `spawn`, `replace`, `remove`, `clear` | no pump lost, none interrupted silently, lag is survived | `EventPumps` |
| platform channel, single instance | socket file, listener | `claim`, `launches`, `release` | one primary, and reachable | `SingleInstance` |
| platform channel, panel, window state, geometry | open panel, frame to restore, last placement | `open`, `close`, `restore`, `save` | closing leaves no trace; the normal frame comes back | not modelled, see section 8 |
| shortcut channel | registry, pump thread, listener, maps of the surface | bind, release, listen, dispose, press | registry, platform and maps agree; a released chord is silent; presses arrive | `ShortcutChannel` |
| http client | token store, refresh lock, one future per call | request verbs, refresh, retry, logout | one refresh per expiry, no live session reported dead, bounded sends, calls end | `HttpClient` |
| privileged helper, store, process runner | status read from the system; file; child process | register; put; run | the whole file or the old one; a deadline that kills | not modelled |
| command-line tool, bundler, signer | artefacts of a release | ship, bundle, sign, release | sign before notarise before manifest | not modelled |
| log, form validation, screenshots, repository tooling, vendored glue | – | – | – | not modelled, see section 8 |

### How the parts interact

* The **app** talks to the **daemon** over a stream. The daemon's
  `server::run` prepares the product's state, binds the platform's listener
  and spawns one task per admitted connection; the task performs the
  handshake and then serves requests one at a time. The peer policy is judged
  between `accept` and the task. `WindowsService` runs the same `server::run`
  on a worker thread and tells the SCM when it listens. The three modules
  meet at these points: `AcceptLoop`'s `AcceptPeer` is where a
  `PrivilegedConnection` begins, and its `Bind` is what the worker reports
  through in `WindowsService`. What that bind is, file by file, and what two
  daemons do to each other there, is `LocalEndpoint`; on macOS the listener is
  launchd's, and `MacDaemon` has the commands that load the job and the
  requirement the daemon demands of its clients.
* The **updater** is driven by the application: `check`, `download`, then an
  installer. `Updating` composes `UpdateFlow` with `BundleInstaller`: what the
  flow verified is handed over, the process may be killed at any step, and the
  next launch runs what is at the bundle path and asks with that version.
* **Event pumps** are fed by broadcast channels from any thread, and listed in
  a table the Dart bridge replaces and clears.
* **Shortcuts** cross a thread and an FFI boundary: the registry and the
  listener are shared by the isolate and the pump thread.
* **HTTP calls** are futures on one runtime that share a token store and a
  refresh lock; any of them may be dropped at an `await`.
* The **single-instance guard** keeps one socket per user; other processes of
  the same application share its path.

### What is hard

Concurrency: tasks and timers of tokio, two threads and an SCM, several
processes on one socket path, Dart calls that interleave at each `await`.
Failure: every rename, chmod and elevated script may fail, and the process may
die between any two. Time: handshake, idle and command deadlines, backoff, a
log window, start and stop deadlines, a fetch timeout. `PROJECT.json` lists
40 such hazards at the line where each bites, with the property that covers it.

## 2. Modules

### PrivilegedConnection (and the abstract CommandSession)

State: a program point per end (`client`, `server`), the frames under way in
each direction, whether the app let go of its write half (`eof`), the frame the
daemon awaits to send (`out`) and where it goes afterwards (`after`), the
results of the two handshakes, and three observations (`calls`, `got`,
`verdict`). One action per `await` of `handle_conn_with_nonce` and
`server_handshake`: drawing the nonce, reading the Hello or missing it,
reading, refusing or dispatching a request, a dispatch that works, returns or
runs into `command_timeout`, sending, and the task being dropped with the
runtime. The app's end is `client_handshake` followed by pipelined requests; it
may read, stop writing, drop the stream or give up at its own deadline. A
*stranger* writes any frames in any order, undecodable ones included. Writes to
the app wait for room (`WireCap`), so a peer that does not read holds the task
up, as the code allows. Frames are tagged records: length prefixes and JSON are
reduced to whole, too large, malformed or cut.

`CommandSession` says in 60 lines what the daemon promises an implementor of
`DaemonApp`: a session opens once; a command is taken only when the previous
one is answered; it takes effect at most until it is answered, and a positive
answer is given only for work done. `ImplementsSession` maps the daemon's
program point to its phase and `calls` to its log.

### AcceptLoop

State: the program point of `server::run`, the policy, the clock, the
consecutive failures and the end of the backoff sleep, the two fields of
`RefusalLog`, the backlog and what became of each connection. Actions: prepare,
bind, the branches of the `select!` (accept and admit, accept and refuse,
accept error, shutdown), the plain sleep after an error, during which nothing
else is polled, a stream that ends, and the exit with its last log line and the connections it kills. The peer
policy is the operator the code computes from uid and gid.

### WindowsService

State: what the SCM keeps (registered, marked for deletion, state, failed), the
two threads of the process, the stop channel, whether another daemon of the
product has the pipe (`other`, started and stopped by hand at any time), and per
command its mode, program point and exit code. Commands overlap with one another
and with the service. The worker ends drained, failed before it listened, or
broken after it did; its `prepare()` may take forever. `Ready` asks for the name
of the pipe, as `endpoint_pronto` does, so the other daemon's pipe answers it too;
`shadowed` records a Running reported that way. The SCM is external: it is
modelled from how the code calls it.

### LocalEndpoint

State: where each of two daemons stands (the unit's, and one run with
`--foreground`), the socket path with its owner and mode, each daemon's pending
pipe instance, each client's connection, and the unit with the command run on
it. One action per file-system call of `prepare_socket_path`, `bind` and
`set_mode`, per step of `accept` on each platform, and per `systemctl` call. A
call may fail with nothing done, with the unit enabled or disabled and its
process left as it was, or with everything done. `peer_policy` decides the mode
and the verdict.

### CodeRequirement, MacDaemon

`CodeRequirement` holds the pure part as operators: the parser of a compiled
requirement (a blob is a sequence of words), the facts a clause establishes,
the alternatives of an `or`, and `is_strong`. `OnlyTheProductMeets` is the
reference it is compared with: it enumerates every signature a client could
have and asks whether one that is not the product's meets the requirement.
`MacDaemon` knows a requirement by its text: which texts `ensure_strong` lets
pass (`Strong`), which only the product's code meets (`Sound`) and which the
daemon's README allows (`Acceptable`) are constants of it, and `MCMacDaemon`
computes the three sets with `CodeRequirement` from the clauses of two dozen
texts. The clauses are trees and their operators recursive; the split keeps
them out of what is proved. `MacDaemon` has the property list (there, root's, open, whole, what it
declares), the job in launchd (loaded, disabled), the boot of the daemon (lstat,
read, compile, judge, serve or end) and the five commands, one step per file
operation or `launchctl` call. launchd is external: it loads only a property
list that is root's and closed to others, and starts a loaded job again; `load`
and `unload` exit with zero whatever they did, as launchctl(1) says. An outsider
(`Tamper`) writes to a property list it may write to at any time, between the
write and the chmod of install too, and may keep it open: the file is then
`tainted`, and a daemon that read it as well.

### UpdateFlow, BundleInstaller, Updating

`UpdateFlow`: where the application's update stands, the endpoint asked, the
program point of the fetch, its hop and scheme, the bytes read, the connections
held, the manifest and the artefact. Hosts answer anything at any time or
never. A URL is its scheme; a manifest is a version, a URL and the key that
signed; a version is a natural number, in the order the code compares them.

`BundleInstaller`: what is at the bundle path, at `.previous` and in the
scratch directory, and the program point of `install`. Every file operation is
an action with a success and a failure; a kill may come between any two and, in
a recursive delete or a copy, in the middle.

`Updating` composes the two with the process: it runs one version, hands what
it verified to the installer, may ask again without a restart, is killed, and
is launched from whatever whole bundle is at the path. An archive our key signed
holds any version, whatever its manifest announces: the client does not check
that, as `docs/threat-model.md:81` says. `relabelled` records the versions handed
over under a newer number.

### AppImageInstaller

State: the files at the application's path and at `.previous` (which build,
whole or not, executable or not) and the program point of each call. Several
calls may be pending, because `chmod` is awaited.

### EventPumps

State: the table, each task's state and how far it is behind its channel, and
the program point of each `replace`, whose lock is held for the insert only.
The log stream differs from the others in one respect: its pump's warning about
a lag is itself an event on that channel.

### SingleInstance

One action per system call of `claim` and `release`, by any number of
processes, each of which may die at any of them. Any process may release, a
secondary and one released before too, and claim again afterwards. A connection
waits in the kernel's backlog until the listener takes it; `listener.close()`
resets those still there. `raced` records whether two processes were ever inside
`claim` or `release` at once, `trespassed` whether a release deleted the live
socket of another process.

### HttpClient

State: each call's future (its kind, program point, bearer, attempts), the
refresh lock, the two entries of the token store, the server's session, and how
far a logout has come. A grant of the server is a number: access token *n* with
refresh token *n*, good once. Actions: a send and what it ends in (answered,
lost before or after the server did the work), the judgement of `request`
(refresh, retry, give up), the steps of `refresh_session` under the lock, the
refresher's own request and its two writes, expiry, revocation, a logout that a
keyring may interrupt half way, and a future that is dropped at any `await`.

### ShortcutChannel

State: the surface's maps and its `NativeCallable`, the registry, what the
platform holds, `LISTENER` and `PUMPING`, the pump thread with the listener it
copied, the presses in the manager's channel and those posted to the isolate.
The isolate runs one method at a time and the pump beside it; `dispose` is
three steps. A press remembers the name its chord had when it was pressed, and
that it is of an earlier bind once the chord is bound again. Surfaces succeed one another in a process whose statics stay.

## 3. Runs

Eleven runs pass and one shows a violation (section 4).

| run | instance | what it shows |
|---|---|---|
| `connection` | 2 majors × 3 minors at each end, 2 requests, 2 stranger frames, stream of 1 frame | `NoCommandBeforeHandshake`, `MinorAgreement`, `VerdictTruthful`, `ResponsesInOrder`; refinement of `CommandSession`; `ConversationSettles`: a reading app gets its answers, no task survives an app that let go |
| `accept_loop` | 4 peers, one admitted by gid, one by uid and two by neither, under that policy, an empty one and none, window 2, backoff 1 up to 2, time 3 | every refusal is accounted for in the log, lines are a window apart, errors do not make the loop spin; `LoopProgresses`: shutdown happens, no queued connection starves |
| `windows_service` | 2 commands of any mode, 3 starts, another daemon that takes and leaves the pipe, a worker that fails, breaks or hangs in `prepare()` | Running means listening unless it was reported on another daemon's pipe, success is reported exactly for requested stops that the worker followed; `ServiceSettles`: starts and accepted stops come to an end as long as `prepare()` does, commands always |
| `local_endpoint` | 2 daemons, Linux or Windows, with and without a policy, a stale socket or none, 3 starts, 2 commands, 1 fault (a death or a `systemctl` that fails after none, a part or all of its work), 2 clients | `LastBinderReachable` (and the race for the endpoint has a winner), `UnitReports`, `ListenerKeepsUp` |
| `mac_daemon` | two dozen requirements, paired as property list and policy; 4 commands, 2 faults, depth limit 6, an outsider that writes whenever it can | `ServedRequirementSound`, `ReportsTruthful`, `LoadedJobServes` |
| `update` | 3 endpoints (one http), versions 1..3 with 1 installed, an archive of any of them under any number, 1 redirect, 1 chunk, 2 installs, kills and relaunches | `InstallProvenance`, `NoConnectionHeld`, `WholeBundleKept`, `OutcomeTruthful`, `RunningNeverGoesBack`, `FlowEnds` |
| `appimage` | 3 calls, 2 builds | a whole image and, without a failed chmod, a runnable one is kept; success and put-back are reported truthfully |
| `event_pumps` | 2 tasks on one name, channel of 2, 4 events | running pumps are owned, no silent interruption, lagging pumps catch up |
| `single_instance` | 3 processes, 2 deaths or releases by anyone, claims and releases interleaved and repeated | while none overlap and nobody deletes another's socket, the primary is reachable and stale sockets are harmless; in every race a launch sent to a primary that is listened to arrives, unless that primary ends first |
| `http_client` | 2 calls of any kind, statuses 200, 401 and 500, 1 retry, 3 grants, either store, with or without a refresher | `RefreshTokenSpentOnce`, `SessionLossReal`, `EverySendPaid`, `RequestsEnd` |
| `shortcut` | 2 chords, 2 names, 2 callables over successive surfaces, 2 presses, every backend | `RegistryAgrees`, `ReleasedChordSilent`, `PressesHandled` |

Why the bounds are enough to be interesting. *Connection*: two majors give
equal and different ones, three minors an app older, equal and newer with one
minor between; two requests are the smallest pipeline; a stream of one frame
makes the daemon wait for the reader; two stranger frames let a session be
opened and then abused. *Accept loop*: two refusals inside a window and one
after it need three refused-or-late events and three ticks; the cap of two
units is reached by the second failure. *Service*: two commands suffice for
every pairwise overlap, three starts for a failure, its recovery and one more.
*Endpoint*: three starts let each daemon take the path from the other and one
come back; one fault between any two steps is a death or a refused call.
*macOS daemon*: four commands are an install, two that undo or interrupt it and
a repair, with two faults (a refusal, a kill, a crash or a reboot) among them;
the requirements are those of the daemon's own tests and their weakenings, one
clause left out at a time. *Update*: two versions above the installed one allow
a second update over the first, with and without a restart between; a
redirect is where a fetch may leave https (the number of hops is left free in the
proofs). *AppImage*: a failure, a retry and a success after it
need three calls. *Pumps*: two tasks racing for one name are the smallest race,
and four events overflow a channel of two while a pump is not looking. *Single
instance*: a primary, its successor and a third launch between them; two ends are
a release or a death of each of two primaries, or a release and the `dispose()`
after it. *HTTP*:
two calls are refused with the same token and meet at the lock; three grants
allow a refresh, its expiry and another. *Shortcuts*: a second callable is a
second surface over statics the first one left behind; two presses are one of
each bind of a chord.

Deadlock is checked for the connection and the accept loop, which say
explicitly (`Terminated`, `Gone`) where they may rest. The others stop when
their calls are used up.

Every property has a mutant: a plausible slip in the code it is about (a
dropped guard, an off-by-one, two steps swapped, a missing reset), defined next
to the original, under which TLC finds the property violated.

### Fairness

Only what the runtime or the code's own timers provide.

* *Connection*: a task whose frame, end of stream or deadline is ready is
  polled (`WF` on the daemon's reads, on `CommandTimeout`, on sends with room)
  and the app's task reads what arrived. Nothing is assumed of `dispatch`, which
  may hang, of a stranger, or of the app's decisions.
* *Accept loop*: time passes, a sleep ends, the exit completes (`WF`).
  `tokio::select!` polls its branches in random order, so a branch that is
  ready infinitely often is taken (`SF` on `ShutDown` and on taking the next
  peer). Nothing is assumed of accept errors.
* *Windows service*: threads run, deadlines of the polling loops pass, a begun
  command goes on. Nothing is assumed of the SCM's restarts or of crashes, of the
  pipe, or of the product's `prepare()`, which has no deadline and is not told of
  a stop: the parts of `ServiceSettles` that need it to return say so.
* *Update*: only the flow's own timer (`WF` on `TimesOut`); nothing is assumed
  of the hosts, of the installer's prompts or of a relaunch.
* *Endpoint*: a daemon that has begun to bind goes on, and one that listens
  polls its `accept`.
* *macOS daemon*: launchd starts a loaded job and a boot that has begun goes on.
* *HTTP*: the runtime polls a future that is ready, and `request_timeout`
  bounds every send, the refresher's own included.
* *Shortcuts*: the pump thread runs, `dispose` runs to its end and the isolate
  handles its messages.
* *Pumps*: the runtime polls a ready pump; a `replace` that has begun returns.
* *Single instance*: a living process goes on with its calls, takes connections
  from its backlog and reads those it took (one `WF` for all of a process's own
  steps).

## 4. Findings

One run shows that the code does not do what a document says.

* `log_pump` – a pump over `log_lines()` that lags once delivers nothing any
  more. `event_pump.rs:17` answers `Lagged` with `tracing::warn!`, which the
  subscriber sends into the same full channel; the oldest slot, the one the
  receiver was just moved to, is overwritten and `recv` answers `Lagged`
  again. The warning says "event pump lagged; resuming".

Facts that came up while modelling and that the properties are phrased around:

* *Single instance.* Two launches at once can both become primary: the second
  deletes, as stale, the socket the first has just bound
  (`socket_single_instance.dart:78`; `m3-si-race` of the roadmap is to make the
  claim atomic). `release()` deletes whatever is at the path
  (`socket_single_instance.dart:65`): that of a secondary, or a `dispose()` after a
  `release()` with a new primary in between, takes a live primary's socket away
  with no overlap at all. `PrimaryReachable` therefore excludes both kinds of
  histories. A launch that was written but not yet accepted is lost when the
  listener is closed, though its sender was told that it is the secondary; one
  that is read before anybody listens to `launches()` goes to nobody.
* *Windows.* `endpoint_pronto` waits for the name of the pipe, before it asks
  whether the worker is finished (`windows/mod.rs:154`): with another daemon of the
  product on that pipe the service reports Running, and install says OK, although
  its own worker could not bind. A requested stop of a service whose worker failed
  or panicked is reported as a failure (`windows/mod.rs:181`), so that the SCM may
  start it again. `prepare()` is not bounded, and `worker.join()`
  (`windows/mod.rs:179`) waits for it: a start that timed out in it never reports
  Stopped.
* *AppImage.* After a chmod failed, the file at the path is whole but not
  executable. A retry whose write fails puts exactly that file back and reports
  "so the installation still runs" (`linux_installer.dart:78`).
  `RunnableImageKept` therefore excludes histories with a failed chmod.
* *macOS bundle.* When the elevated `rm -rf bundle && mv -f incoming bundle`
  fails after the `rm`, the report says that the bundle was left untouched
  (`macos_installer.dart:98`). `WholeBundleKept` shows that the new bundle is
  then still in its scratch directory; `OutcomeTruthful` excludes those
  histories.
* *Relabelled update.* An older archive our key signed that a manifest announces
  under a newer number passes the downgrade policy and is installed
  (`docs/threat-model.md:81`). `RunningNeverGoesBack` says that nothing else takes
  the application back.
* *Update without a restart.* The policy compares with the version that runs.
  A process that installed version 3 and still runs 1 installs 2 over it when it
  is offered that: what is at the path may go back, what runs never does.
* *Endpoint.* A daemon that removes the path of another and dies before it binds
  leaves the other alive and unreachable until it restarts.
* *launchd.* `stop` answers OK even when `launchctl` refused. Stopping a job that
  is not loaded falls back to `unload -w`, which disables it for good: the
  daemon stays down after a reboot, which a stop of a loaded one does not cause;
  install and repair undo it. Install writes a property list without
  `--peer-requirement`, so the policy's requirement counts afterwards. When
  `bootstrap` failed, `load -w` is run, whose exit code is zero unless it is
  misused: install and repair then say OK (`macos.rs:136`) also of a job that
  launchd did not take. `ReportsTruthful` speaks of property lists launchd takes.
  `fs::write` (`macos.rs:39`) keeps the mode of a file that is there, and the chmod
  comes after it (`macos.rs:44`): on a property list that was open to others, what
  an outsider writes in between, or later through a file it holds open, ends up in
  one that is root's and closed, and is trusted. `ServedRequirementSound` excludes
  daemons that read such a file.
* *systemd.* `status` looks at `LoadState` before `ActiveState`: a unit whose
  file was removed while its process runs is reported as not installed, and stop
  and uninstall answer OK. The model keeps the file where it is. A `systemctl`
  that fails half way leaves an enabled unit that does not run, or a disabled one
  that does; the command reports a failure and undoes nothing.
* *HTTP.* A grant whose answer is lost, whose call is dropped while it stores it,
  or one of whose two writes a keyring refuses is wasted, and the old refresh
  token is then presented again. A refresher that itself uses an authenticated
  verb of the same client waits for the lock it holds. Only the verbs that go
  through `request` refresh: `put_no_content` (`verbs.rs:67`),
  `post_multipart_file` (`multipart.rs:35`) and `get_bytes` (`raw_bytes.rs:20`) send
  the bearer too and answer a mere expiry with `Unauthorized`, although the
  package's README lists "token refresh on 401". They are in the model, and
  `SessionLossReal` says nothing of their `Unauthorized`.
* *Shortcuts.* A release that the platform refused can never be repeated: the
  registry has forgotten the chord and answers NotBound. Binding a second chord
  under a name leaves the first one bound. A press whose copy of the listener the
  pump already holds is still delivered to it after `dispose` closed it; what
  that call does is up to the Dart VM. A press is known by its chord's number only:
  one that was under way when its chord was released is heard after all, under the
  new name, when the chord is bound again before it is handled.

## 5. Proofs

Thirty-three theorems in eight modules, over the same definitions TLC runs; no
constant is bounded in them. The assumptions on constants are the named
`ASSUME`s of the component modules, which TLC evaluates on every run. Every
inductive invariant below was checked by TLC on the bounds of its run before
it was proved.

Every safety invariant and every action property of a run is stated by a
theorem, except the half of `ServedRequirementSound` that is about the strength of
a requirement (see `ServiceProofs` below). Three modules prove about two components each, whose arguments are
alike. Such a module extends both; `SingleInstance`, `WindowsService` and
`EventPumps` therefore call their specifications `ClaimsSpec`, `ScmSpec` and
`PumpsSpec`, and share neither a variable nor a definition with their neighbour.

* **PrivilegedConnectionProofs** (any majors, minors, requests, stranger frames
  and stream capacity). `TypeCorrect`, `CommandsFollowHandshake`
  (`NoCommandBeforeHandshake`) and `MinorsAlwaysAgree` (`MinorAgreement`) rest on
  `ConnectionInv`.
  Type correctness needs `CallPending` (a response on its way out belongs to an
  unanswered call) and the handshake invariant, because what a ready app reads
  is a response only if no second `ServerHello` can be under way.
  `ServerSide` says that past the handshake the daemon holds a Hello of its
  major and the minor both speak; `HelloFirst` that a positive `ServerHello` in
  the stream or on its way out carries exactly that minor, is the first frame
  and has no second; `ClientSide` that while the app waits the daemon can have
  heard only the app's own Hello, and that a successful handshake left both
  ends with the same outcome.
  `SessionInv` adds three parts. `Commands`: at most one command is in the
  daemon's hands, and the answer on its way out is the recorded one. With it
  `RefinesSession` (`ImplementsSession`) maps the initial states to initial
  states of `CommandSession` and every step to a step or a stutter (`SessionStep`).
  `Ordered`: requests, answers and what the app has read line up, and during the
  handshake there are none; `AnswersMatchRequests` (`ResponsesInOrder`) follows.
  `Reasons`: a rejection in the stream or on its way out has its reason in the
  two versions; `VerdictsAreTrue` (`VerdictTruthful`) follows. The assumption that
  `None` is none of the results and reasons says only that it stands for absence.
* **AcceptLoopProofs** (any peers, credentials, policies, window, backoff):
  `TypeCorrect`; `RefusalsAlwaysAccounted` by `BooksInv`, which says that every
  refusal is one that got a line, one that a line counted or one the counter
  still holds, and that the counter is zero before the loop begins (`run` may
  return from there without the closing line);
  `LinesAlwaysSpaced` by `LinesInv`, which ties `last_line` to the last element
  of the log of lines, so that a new line is compared with the right one;
  `BackoffAlwaysServed` (`NoSpin`) by `SpinInv`, which says the same of the end of
  a sleep. `BackoffSum` is a recursive function, whose defining equation has to
  be proved before it can be used: `SumsExist` and `SumsUnique` build its values up to
  every `n`, each by the least number for which it would fail
  (`WFMin` of the library stands in for an induction rule), and
  `BackoffSumUnfolds` puts them together.
* **ServiceProofs** (the daemon as a service). Of `WindowsService`, with any
  number of commands and starts:
  `RunningAlwaysMeansListening` and `ExitAlwaysTruthful` by `ProcessInv`: the
  state the SCM reports follows `service_main`; the stop channel is written
  only after `service_main` stopped polling; an administrator's stop is
  accepted only from a running service; a worker drains only when there is a
  stop. Both theorems hold with another daemon on the pipe and with workers that
  fail or break: the first excepts a Running reported on the other's pipe, the
  second counts a requested stop of a worker that did not follow it as a failure,
  as the code does.
  Of `MacDaemon`, with any texts, commands, refusals, kills, crashes, reboots and
  deployments: `LaunchdCommandsTruthful` (`ReportsTruthful`) and
  `ServedRequirementIsOurs` (the first half of `ServedRequirementSound`) by `MacInv`.
  `CommandOnTrack` says which steps a command can be at, and that past `bootout`
  launchd has let the job go unless something failed, so that an `OK` after the
  fallback verb, whose exit code says nothing, still means a loaded job when
  launchd takes the property list. `PlistHonest`: a property list that only root
  can write is the product's own unless it is tainted, and one that was trusted
  stays trusted, since whatever replaces it is made by root; hence what a daemon
  reads after a trusting `lstat` is the product's own, even when the file was
  replaced in between. `Served`: a serving daemon has a text from one of the two
  sources, unless it read a tainted file. The theorem has no hypothesis and says
  whose the requirement is. That what `ensure_strong` lets pass is met by the
  product's code alone is the other half of the invariant; TLC evaluates it
  (`StrongIsSound` of `MCMacDaemon`) for the texts of the run, since for every
  clause it would be an induction over trees.
* **UpdatingProofs** (any endpoints, versions, ceilings and number of attempts,
  the process killed at any step): `ProvenanceHolds` (`InstallProvenance`),
  `ConnectionsGivenBack` (`NoConnectionHeld`), `LastBundleSurvives`
  (`WholeBundleKept`), `ReportsMatchDisk` (`OutcomeTruthful`) and `NoRollback`
  (`RunningNeverGoesBack`), all from `WholeInv` over the composition of flow and
  installer. `FetchInv` counts the one connection of a fetch; `AskedInOrder` says
  that the endpoints before the one asked have failed; `ReleaseInv` that what is
  fetched was announced as newer and what is verified is genuine; `HandOverInv`
  that the installer works on an archive our key signed, newer than what runs or
  announced as such; `SwapInv` what is at each of
  the three paths at each step of the swap; `DiskInv` that only the privileged
  `rm` tears a bundle and that nothing older than what runs can come to the
  bundle path unless it was announced under a newer number; these two are why
  `NoRollback` needs the record of relabelled versions and no more. `ReportsMatchDisk`
  covers a reported success in every history and a reported refusal in those
  without a privileged `rm`. The assumption that an absent and a torn directory are
  no versions says what the two values stand for.
* **AppImageProofs** (any number of overlapping calls, builds and crashes):
  `TypeCorrect`; `WholeImageAlwaysKept` by `KeptInv`. As long as every
  rename back has worked, a swap in progress has a whole image at `.previous`
  and a living process outside of one has it at the path. `OneHolder` says that
  at most one call holds the isolate, because a call gives it up only at
  `chmod`; and a dead process has no call pending.
  `RunnableImageAlwaysKept` by `RunnableInv`: with one call at a time
  the runnable image is at `.previous` until the new one is marked executable.
  `ReportsAlwaysTruthful` (`ReportsTruthful`, an action property) by `InstallInv`,
  what a call that runs alone has written stays at the path, and `StartInv`, what
  a call found stays where the call will look for it, in any overlap.
* **EventDeliveryProofs** (from native code to a Dart listener). Of `EventPumps`,
  with any streams, callers and capacity: `NoPumpLeaks`
  (`RunningPumpsOwned`) and `KillsAreReported` (`NoSilentKill`) by `PumpInv`: the
  table lists a pump under its own name; a displaced pump has left the table and
  is held by one `replace` alone; one found finished stays finished, so that the
  answer computed before the drop is still true at the drop; and only its holder
  interrupts a pump.
  Of `ShortcutChannel`, with any chords, names, callables and presses:
  `ShortcutsAgree` (`RegistryAgrees`) and `ReleasedChordsAreSilent`
  (`ReleasedChordSilent`, an action property) by `RegistryInv`. `NothingLeft` says
  that a surface that is gone has left no registration, which is what the next
  surface's agreement starts from; `NamedIsOwned` that a chord that still has a
  name in the isolate is one no release of which succeeded, so that a press
  which was posted before the release finds no name; `PressesFresh` that a press
  under way, whose chord was not bound again since, would be heard under the name
  it was made for or not at all; `CallablesTyped` that a
  callable is closed only after it was made and that a stopped surface has no
  listener, so that a closed callable stays listed only when no pump thread
  could be started for the new one.
* **SocketPathProofs** (who a socket path leads to). Of `SingleInstance`, with any
  number of processes: `LaunchesFindThePrimary`
  (`PrimaryReachable`) by `ClaimInv`: as long as no two claims or releases
  overlapped and no release deleted the socket of another live process
  (`Orderly`), what a process saw in its earlier system calls is still so at the
  next one (nobody listens, there is a file to delete, there is none to
  collide with, the connection it got still stands).
  Of `LocalEndpoint`, with any clients, starts, commands and faults:
  `EndpointReachable` (`LastBinderReachable`) by `EndpointInv`. `PathLeads` says
  whose the path is at every call of `bind`: the owner of the socket is the last
  to have bound, and if the last to have bound no longer owns it, the one that
  removed it is about to bind or has died there. `RaceHasWinner`: while nobody is
  killed or stopped, a call of `bind` that fails does so because the other
  daemon is past the point where the first could disturb it, so that never both
  give up. `EndpointShape` ties a pipe instance to the daemon that serves on it.
  `UnitCommandsTruthful` (`UnitReports`) by `UnitInv`: a unit that is not there
  is not enabled and runs no daemon, and a command that changes the unit is past
  the checks that it is there and that root asked; a call that broke off half way
  ends its command with a failure, and what it left is no obstacle to the next. The two daemons are told apart
  from each other and from nobody by `EndpointAssumption`.
* **HttpClientProofs** (any calls, statuses, retries and grants):
  `TokensSpentOnce` (`RefreshTokenSpentOnce`), `LossesAreReal` (`SessionLossReal`)
  and `SendsArePaid` (`EverySendPaid`) by `HttpInv`. `LockHeld`: the lock belongs
  to exactly the call between taking it and sending again. `GrantsInv`: nobody
  holds anything newer than the last grant, and the call that got it is the only
  one to store it. `StoreInv`: with no grant wasted or half stored, the stored
  refresh token is unspent and, until a logout or a revocation, the one the
  server takes. `Paid` keeps the account of a call's sends through retries and
  refresh; `Bearers` says that a call that has refreshed carries another token
  than one it was refused.

Only model-checked:

* all liveness (fairness and `ENABLED` are out of the prover's reach):
  `ConversationSettles`, `LoopProgresses`, `ServiceSettles`, `FlowEnds`,
  `PumpsCatchUp`, `LaunchesArrive`, `RequestsEnd`, `PressesHandled`,
  `ListenerKeepsUp` and `LoadedJobServes`;
* the judgement of `CodeRequirement`: that `ensure_strong` lets nothing pass that
  another's code meets (`StrongIsSound`). Clauses are trees, and what a recursive
  operator computes for every tree is out of the prover's reach.

## 6. Abstractions

* Payloads, JSON, paths, wording and logging are left out, except the refusal
  log, which is what `AcceptLoop` is partly about.
* Deadlines of the connection are nondeterministic: a timer may fire whenever
  its future is awaited. The accept loop has a clock, because its log window
  and its backoff interact.
* Keys and signatures: an artefact is genuine or not, a manifest is signed by
  our key or another. A code requirement is known by its clauses; the strings in
  it are numbers of which only the identity matters.
* A `systemctl` or `launchctl bootstrap`/`bootout` that exits with zero has done
  its work. A `systemctl` that does not may have done none, a part or all of it; a
  `bootstrap` or `bootout` that does not has done nothing. `launchctl load` and
  `unload` exit with zero whatever they did, and may fail to run at all.
* A killed process loses its memory and keeps its files. Files are not torn by
  a crash other than in a write, an extraction, a copy or a recursive delete.
* The service control manager, systemd, launchd, the sockets and pipes, the
  keyring and the broadcast channel are external: they do what the code's use of them relies on, and
  those definitions are marked external in the map.

## 7. Plan

Modelled, above: what runs with privileges on each platform, what replaces the
application's files, and what threads, processes and futures share; every
safety property of the runs is proved. What is left is code: the XPC sink and
listener, if their callbacks' order can be pinned down; the privileged helper on
top of the three services; the panel together with the window-state keeper over
one native window.

## 8. Not modelled

* XPC and code-signature checks of a connected client: calls into libxpc and
  Security.framework whose order is the system's. What requirement they are
  given is modelled.
* Log files, the lazily built runtime and the generated bridge: calls into the
  system or generated code with no order of their own.
* The panel and the window-state keeper: window calls that interleave at each
  `await`. Two hazards are known there. A close, or a second open, while an
  open awaits the window (`placed_panel_surface.dart:49`) leaves the window at
  the panel's place with nothing to restore it; and `isMaximized` and the
  bounds are read by two awaits (`window_state_keeper.dart:61`), so that a
  maximise between them is stored as the normal frame.
* The store's atomic file (write, flush, rename, sync) and the process runner,
  whose deadline covers the child's exit and not the drain of its output
  (`system_process_runner.dart:84`).
* The privileged helper: it runs the service commands that are modelled and
  reads their status again.
* Parts of modelled components: a second login while calls are under way and
  the redaction of routes (http client); chord parsing (shortcuts); the
  hand-over of deb, rpm and Windows installers to one external command; the
  Unix listener of macOS, which takes the same steps as the one on Linux with
  fixed modes and which the daemon does not use (it listens through XPC).
* Manifest writer, endpoint template and host selection, form validation:
  pure conversions of text.
* Tray, notifications, deep links, autostart and similar adapters over Flutter
  plugins.
* Bundle layouts, configuration, scaffolding, doctor reports: text and files in
  a format, written once by a sequential tool.
* The repository's own gate and release scripts, and the vendored build glue.

## 9. Running

    tlc -workers 2 -config PrivilegedConnection.cfg PrivilegedConnection
    tlapm PrivilegedConnectionProofs.tla

Each run of section 3 names its module and configuration in `PROJECT.json`;
the longest takes about two minutes of model checking, the proofs about three
minutes together.
