----------------------------- MODULE UpdateFlow -----------------------------
(***************************************************************************)
(* UpdateFlow.check and download over HttpArtifactFetcher: endpoints are   *)
(* asked in order, redirects followed by hand, the manifest judged by      *)
(* UpdatePolicy, the artefact read under a size ceiling and verified       *)
(* before the application may hand it to an installer.                     *)
(*                                                                         *)
(* The hosts answer anything at any time or never.  A url is its scheme, a *)
(* manifest its version, the artefact's url and the key of its signature.  *)
(***************************************************************************)
EXTENDS Naturals, Sequences

CONSTANTS
    EndpointScheme,  \* the configured endpoints' schemes, first asked first
    Versions,        \* versions a manifest may announce
    Installed,       \* the version found on the disk
    AllowDowngrade,  \* UpdatePolicy.allowDowngrade
    MaxRedirects,    \* maximumRedirects
    MaxBytes,        \* maximumBytes, in chunks
    HasTimeout,      \* a timeout was configured
    NoManifest       \* no manifest yet

Schemes == {"https", "http"}
Endpoints == DOMAIN EndpointScheme

ASSUME UpdateFlowAssumption ==
    /\ EndpointScheme \in Seq(Schemes)
    /\ Versions \subseteq Nat
    /\ Installed \in Nat
    /\ AllowDowngrade \in BOOLEAN
    /\ HasTimeout \in BOOLEAN
    /\ MaxRedirects \in Nat
    /\ MaxBytes \in Nat

VARIABLES
    running,     \* the version that runs, which check() takes for the installed one
    flow,        \* where the application's update stands
    ep,          \* the endpoint being asked
    fetch,       \* program point of HttpArtifactFetcher.fetch
    scheme,      \* current.scheme: the url of this hop
    hop,         \* redirects followed in this fetch
    location,    \* where the redirect being drained points
    got,         \* chunks collected in this fetch
    held,        \* connections a fetch has open
    orphans,     \* connections a timeout walked away from
    manifest,    \* the manifest check() returned
    artifact,    \* observation: what the verified bytes are
    asked,       \* observation: schemes of the urls requested
    failed       \* observation: endpoints that gave no answer

fetchVars == <<fetch, scheme, hop, location, got, held, orphans>>
vars == <<running, flow, ep, fetchVars, manifest, artifact, asked, failed>>

Manifests == [version : Versions, url : Schemes \cup {"none"},
              key : {"ours", "other"}]
Contents == {"genuine", "altered"}

Init ==
    /\ running = Installed
    /\ flow = "idle"
    /\ ep = 0
    /\ fetch = "none"
    /\ scheme = "https"
    /\ hop = 0
    /\ location = "none"
    /\ got = 0
    /\ held = 0
    /\ orphans = 0
    /\ manifest = NoManifest
    /\ artifact = "none"
    /\ asked = {}
    /\ failed = {}

\* The flow of a process that has not asked yet.
StartOver ==
    /\ flow' = "idle"
    /\ ep' = 0
    /\ fetch' = "none"
    /\ scheme' = "https"
    /\ hop' = 0
    /\ location' = "none"
    /\ got' = 0
    /\ held' = 0
    /\ orphans' = 0
    /\ manifest' = NoManifest
    /\ artifact' = "none"
    /\ asked' = {}
    /\ failed' = {}

-----------------------------------------------------------------------------
(* UpdateFlow: what follows a fetch                                        *)

\* UpdatePolicy.decide
DecideOnDifference(version) ==
    IF version = running THEN "up_to_date" ELSE "available"
Decide(version) ==
    IF version = running THEN "up_to_date"
    ELSE IF version < running /\ ~AllowDowngrade THEN "refused"
    ELSE "available"

\* MinisignVerifier.verify: the key id, then the signature over the bytes.
\* (external: ed25519 tells genuine bytes from altered ones)
VerifiesKeyOnly(m, content) == m.key = "ours"
Verifies(m, content) == m.key = "ours" /\ content = "genuine"

\* fetch() is entered with a url: one that is not https is refused before a
\* connection is opened.
Fetch(s) ==
    /\ fetch' = "opening"
    /\ scheme' = s
    /\ hop' = 0
    /\ got' = 0
    /\ s = "https"

\* The next endpoint a loop standing before endpoint i gets to ask, and the
\* ones it passes over because their scheme is refused.
Askable(i) == {j \in Endpoints : j >= i /\ EndpointScheme[j] = "https"}
NextAskable(i) == CHOOSE j \in Askable(i) : \A k \in Askable(i) : j <= k

\* The loop of check() goes on at endpoint i; when none is left it throws.
AskFrom(i) ==
    \/ /\ Askable(i) # {}
       /\ flow' = "checking"
       /\ ep' = NextAskable(i)
       /\ Fetch("https")
       /\ failed' = failed \cup {j \in Endpoints : j < NextAskable(i)}
    \/ /\ Askable(i) = {}
       /\ flow' = "refused"
       /\ fetch' = "none"
       /\ failed' = Endpoints
       /\ UNCHANGED <<ep, scheme, hop, got>>

\* fetch() threw.
FetchFails ==
    \/ flow = "checking" /\ AskFrom(ep + 1) /\ UNCHANGED <<manifest, artifact>>
    \/ /\ flow = "downloading"
       /\ flow' = "refused"
       /\ fetch' = "none"
       /\ UNCHANGED <<ep, scheme, hop, got, manifest, artifact, failed>>

\* fetch() returned a body with a success status (204 has none).
Answered(noContent) ==
    /\ fetch' = "none"
    /\ \/ /\ flow = "checking" /\ noContent
          /\ flow' = "up_to_date"
          /\ UNCHANGED <<manifest, artifact>>
       \/ /\ flow = "checking" /\ ~noContent
          /\ \/ flow' = "refused" /\ UNCHANGED manifest    \* ManifestParser throws
             \/ \E m \in Manifests :
                   /\ flow' = Decide(m.version)
                   /\ manifest' = IF flow' = "refused" THEN NoManifest ELSE m
          /\ UNCHANGED artifact
       \/ /\ flow = "downloading"
          /\ \E content \in IF noContent THEN {"altered"} ELSE Contents :
                IF Verifies(manifest, content)
                  THEN flow' = "verified" /\ artifact' = content
                  ELSE flow' = "refused" /\ UNCHANGED artifact
          /\ UNCHANGED manifest
    /\ UNCHANGED <<ep, scheme, hop, got, failed>>

-----------------------------------------------------------------------------
(* HttpArtifactFetcher                                                     *)

\* getUrl connects and close() sends the request.
Open ==
    /\ fetch = "opening"
    /\ fetch' = "awaiting"
    /\ held' = held + 1
    /\ asked' = asked \cup {scheme}
    /\ UNCHANGED <<flow, ep, scheme, hop, location, got, orphans, manifest,
                   artifact, failed>>

OpenFails ==
    /\ fetch = "opening"
    /\ FetchFails
    /\ UNCHANGED <<location, held, orphans, asked>>

\* The host answers 3xx, a body to read, 204, or a length over the ceiling
\* (the connection is discarded); or the connection breaks.
AnswerRedirect ==
    /\ fetch = "awaiting"
    /\ fetch' = "draining"
    /\ location' \in Schemes \cup {"none"}
    /\ UNCHANGED <<flow, ep, scheme, hop, got, held, orphans, manifest,
                   artifact, asked, failed>>

AnswerBody ==
    /\ fetch = "awaiting"
    /\ fetch' = "reading"
    /\ UNCHANGED <<flow, ep, scheme, hop, location, got, held, orphans,
                   manifest, artifact, asked, failed>>

AnswerNoContent ==
    /\ fetch = "awaiting"
    /\ held' = held - 1
    /\ Answered(TRUE)
    /\ UNCHANGED <<location, orphans, asked>>

OversizeKeepsConnection ==
    /\ fetch = "awaiting"
    /\ FetchFails
    /\ UNCHANGED <<location, held, orphans, asked>>
AnswerOversize ==
    /\ fetch = "awaiting"
    /\ held' = held - 1
    /\ FetchFails
    /\ UNCHANGED <<location, orphans, asked>>

\* The 3xx body is drained, then the redirect is judged.
Follow ==
    /\ fetch = "draining"
    /\ held' = held - 1
    /\ IF location # "https" \/ hop >= MaxRedirects
         THEN FetchFails
         ELSE /\ fetch' = "opening"
              /\ scheme' = location
              /\ hop' = hop + 1
              /\ UNCHANGED <<flow, ep, got, manifest, artifact, failed>>
    /\ UNCHANGED <<location, orphans, asked>>

\* One more chunk: collected, and over the ceiling the stream is cancelled.
Chunk ==
    /\ fetch = "reading"
    /\ IF got + 1 > MaxBytes
         THEN held' = held - 1 /\ FetchFails
         ELSE /\ got' = got + 1
              /\ UNCHANGED <<flow, ep, fetch, scheme, hop, held, manifest,
                             artifact, failed>>
    /\ UNCHANGED <<location, orphans, asked>>

\* The body is complete; check() and download() refuse a status outside 2xx.
BodyEnds ==
    /\ fetch = "reading"
    /\ held' = held - 1
    /\ Answered(FALSE) \/ FetchFails
    /\ UNCHANGED <<location, orphans, asked>>

\* The connection breaks.
Break ==
    /\ fetch \in {"awaiting", "draining", "reading"}
    /\ held' = held - 1
    /\ FetchFails
    /\ UNCHANGED <<location, orphans, asked>>

\* The timeout fires.  Future.timeout cancels nothing: a connection being
\* opened, awaited or drained stays behind; the body stream is cancelled.
TimesOutOnlyReading ==
    /\ HasTimeout
    /\ fetch = "reading"
    /\ held' = held - 1
    /\ FetchFails
    /\ UNCHANGED <<location, orphans, asked>>
TimesOut ==
    /\ HasTimeout
    /\ \/ /\ fetch \in {"opening", "awaiting", "draining"}
          /\ held' = 0
          /\ orphans' = orphans + 1
       \/ /\ fetch = "reading"
          /\ held' = held - 1
          /\ UNCHANGED orphans
    /\ FetchFails
    /\ UNCHANGED <<location, asked>>

-----------------------------------------------------------------------------
(* The application (external): check, then download, then install          *)

Check ==
    /\ flow = "idle"
    /\ AskFrom(1)
    /\ UNCHANGED <<location, held, orphans, manifest, artifact, asked>>

\* releaseFor throws without a release; its url goes through the same fetch.
Download ==
    /\ flow = "available"
    /\ \/ /\ Fetch(manifest.url)
          /\ flow' = "downloading"
       \/ /\ manifest.url # "https"
          /\ flow' = "refused"
          /\ UNCHANGED <<fetch, scheme, hop, got>>
    /\ UNCHANGED <<ep, location, held, orphans, manifest, artifact, asked, failed>>

Install ==
    /\ flow = "verified"
    /\ flow' = "installing"
    /\ UNCHANGED <<running, ep, fetchVars, manifest, artifact, asked, failed>>

Fetcher ==
    \/ Open \/ OpenFails \/ AnswerRedirect \/ AnswerBody \/ AnswerNoContent
    \/ AnswerOversize \/ Follow \/ Chunk \/ BodyEnds \/ Break \/ TimesOut

Ask == (Fetcher \/ Check \/ Download) /\ UNCHANGED running

Next == Ask \/ Install

Spec == Init /\ [][Next]_vars

-----------------------------------------------------------------------------
(* Properties                                                              *)

\* A fetch that is over holds no connection: refused, oversized, broken and
\* redirected answers are all drained or discarded, and only a timeout can
\* leave one behind.
NoConnectionHeld == fetch \in {"none", "opening"} => held = 0

\* With a timeout configured, check and download always end, whichever hosts
\* never answer.
FlowEnds ==
    flow \in {"checking", "downloading"} ~> flow \notin {"checking", "downloading"}
=============================================================================
