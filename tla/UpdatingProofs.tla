--------------------------- MODULE UpdatingProofs ---------------------------
(***************************************************************************)
(* Proofs about a whole update on macOS, for every list of endpoints, set  *)
(* of versions, ceiling and number of attempts, with hosts that answer     *)
(* anything and a process that may be killed at every step.                *)
(***************************************************************************)
EXTENDS Updating, WellFoundedInduction, TLAPS

-----------------------------------------------------------------------------
(* The inductive invariant.                                                *)

FlowPoints == {"idle", "checking", "available", "up_to_date", "refused",
               "downloading", "verified", "installing"}
InFetch == {"opening", "awaiting", "draining", "reading"}
MacPoints == {"idle", "extract", "find", "clear", "rename_away", "rename_in",
              "put_back", "elevate", "move", "touch", "drop_backup", "drop_scratch"}
Directories == Nat \cup {Absent, Torn}

\* The state of the flow and of the installer keeps its types.
WholeTypeOK ==
    /\ running \in Nat
    /\ flow \in FlowPoints
    /\ ep \in Nat
    /\ fetch \in {"none"} \cup InFetch
    /\ held \in Nat
    /\ pc \in MacPoints
    /\ alive \in BOOLEAN
    /\ bundle \in Directories
    /\ backup \in Directories
    /\ incoming \in Directories
    /\ scratch \in Int
    /\ start \in [bundle : Directories, scratch : Int, archive : Directories]
    /\ removed \in BOOLEAN
    /\ leftover \in BOOLEAN

\* A fetch runs only inside check() and download(), and has one connection
\* from the moment it is open to the moment the answer is used or given up.
FetchInv ==
    /\ fetch # "none" => flow \in {"checking", "downloading"}
    /\ held = IF fetch \in {"none", "opening"} THEN 0 ELSE 1
    /\ scheme = "https"
    /\ asked \subseteq {"https"}

\* The endpoints before the one asked gave no answer (the loop of check()).
AskedInOrder ==
    /\ flow = "idle" => failed = {}
    /\ flow \in {"checking", "available", "up_to_date", "downloading", "verified", "installing"}
         => failed = {j \in Endpoints : j < ep}

\* A release that is being fetched was announced as newer, and one that was
\* verified is genuine (UpdatePolicy.decide, MinisignVerifier.verify).
ReleaseInv ==
    /\ flow \in {"available", "downloading", "verified", "installing"} =>
          /\ manifest \in Manifests
          /\ AllowDowngrade \/ manifest.version >= running
    /\ flow \in {"verified", "installing"} =>
          artifact = "genuine" /\ manifest.key = "ours"

\* install() runs in a living process, on an archive that is newer than what
\* runs or was announced as such.
HandOverInv ==
    /\ pc # "idle" =>
          /\ alive
          /\ flow = "installing"
          /\ start.archive \in Nat
          /\ AllowDowngrade \/ start.archive >= running \/ start.archive \in relabelled
          /\ scratch = start.scratch + 1
    /\ ~alive => flow = "idle"

\* What is where at each point of install().
SwapInv ==
    /\ pc \in {"idle", "extract", "touch", "drop_backup", "drop_scratch"} => incoming = Absent
    /\ pc = "find" => incoming \in {Absent, start.archive}
    /\ pc \in {"clear", "rename_away", "rename_in", "put_back", "elevate", "move"} =>
          incoming = start.archive
    /\ pc \in {"extract", "find", "clear", "rename_away", "elevate"} => bundle = start.bundle
    /\ pc # "idle" => start.bundle # Absent
    /\ pc \in {"rename_away", "elevate", "move", "drop_scratch"} => backup = Absent
    /\ pc = "rename_in" => bundle = Absent /\ backup = start.bundle
    /\ pc = "put_back" =>
          \/ bundle = start.bundle /\ backup = Absent
          \/ bundle = Absent /\ backup = start.bundle
    /\ pc = "move" => bundle = Absent /\ removed
    /\ pc \in {"touch", "drop_backup", "drop_scratch"} => bundle = start.archive

\* Only the privileged rm tears a bundle, and no directory install() may put
\* at the bundle path is older than the version that runs, unless it was
\* announced under a newer number.
DiskInv ==
    /\ bundle = Torn => removed
    /\ pc # "idle" /\ start.bundle = Torn => removed
    /\ Mac!Whole(bundle) => AllowDowngrade \/ bundle >= running \/ bundle \in relabelled
    /\ pc # "idle" /\ Mac!Whole(start.bundle) =>
          AllowDowngrade \/ start.bundle >= running \/ start.bundle \in relabelled
    /\ WholeBundleKept

WholeInv ==
    /\ WholeTypeOK
    /\ FetchInv
    /\ AskedInOrder
    /\ ReleaseInv
    /\ HandOverInv
    /\ SwapInv
    /\ DiskInv

-----------------------------------------------------------------------------
(* The endpoints.                                                          *)

\* A set of natural numbers that is not empty has a least element.
LEMMA LeastNatural ==
    ASSUME NEW T \in SUBSET Nat, T # {}
    PROVE  \E x \in T : \A y \in T : x <= y
<1> DEFINE R == OpToRel(<, Nat)
<1>1. IsWellFoundedOn(R, Nat)
  BY NatLessThanWellFounded
<1>2. \A x, y \in Nat : y < x => <<y, x>> \in R
  BY DEF OpToRel
<1> HIDE DEF R
<1>3. PICK x \in T : \A y \in T : ~(<<y, x>> \in R)
  BY <1>1, WFMin
<1>4. \A y \in T : ~(y < x)
  BY <1>2, <1>3
<1> QED BY <1>3, <1>4

\* The loop of check() goes on at an endpoint it has not passed, the first
\* one that may be asked.
LEMMA NextAskableFacts ==
    ASSUME NEW i \in Nat, Askable(i) # {}
    PROVE  NextAskable(i) \in Endpoints /\ NextAskable(i) \in Nat /\ NextAskable(i) >= i
<1>1. Endpoints \subseteq Nat
  BY UpdateFlowAssumption DEF Endpoints
<1>2. Askable(i) \in SUBSET Nat
  BY <1>1 DEF Askable
<1>3. \E j \in Askable(i) : \A k \in Askable(i) : j <= k
  BY <1>2, LeastNatural
<1>4. NextAskable(i) \in Askable(i)
  BY <1>3 DEF NextAskable
<1> QED BY <1>1, <1>4 DEF Askable

\* Going on at endpoint i with those before it failed leaves the fetch and
\* the order of the endpoints as they have to be.
LEMMA AskFromFacts ==
    ASSUME NEW i \in Nat, AskFrom(i), failed \subseteq {j \in Endpoints : j < i},
           scheme = "https", ep \in Nat
    PROVE  /\ flow' \in {"checking", "refused"}
           /\ fetch' = IF flow' = "checking" THEN "opening" ELSE "none"
           /\ scheme' = "https"
           /\ ep' \in Nat
           /\ flow' = "checking" => failed' = {j \in Endpoints : j < ep'}
<1>1. Endpoints \subseteq Nat
  BY UpdateFlowAssumption DEF Endpoints
<1>2. CASE Askable(i) # {}
  <2> DEFINE n == NextAskable(i)
  <2>1. /\ flow' = "checking" /\ ep' = n /\ fetch' = "opening" /\ scheme' = "https"
        /\ failed' = failed \cup {j \in Endpoints : j < n}
    BY <1>2 DEF AskFrom, Fetch
  <2>2. n \in Nat /\ n >= i
    BY <1>2, NextAskableFacts
  <2> HIDE DEF n
  <2>3. \A j \in Endpoints : j < i => j < n
    <3>1. \A j \in Nat : j < i => j < n
      BY <2>2
    <3> QED BY <1>1, <3>1
  <2> QED BY <2>1, <2>2, <2>3
<1>3. CASE Askable(i) = {}
  BY <1>3 DEF AskFrom
<1> QED BY <1>2, <1>3

\* A fetch that throws: check() goes on with the next endpoint or gives up,
\* download() gives up.
LEMMA FetchFailsFacts ==
    ASSUME WholeInv, FetchFails
    PROVE  /\ flow \in {"checking", "downloading"}
           /\ flow' \in {"checking", "refused"}
           /\ fetch' = IF flow' = "checking" THEN "opening" ELSE "none"
           /\ scheme' = "https"
           /\ ep' \in Nat
           /\ flow' = "checking" => failed' = {j \in Endpoints : j < ep'}
           /\ UNCHANGED <<manifest, artifact>>
<1>0. ep \in Nat /\ ep + 1 \in Nat /\ scheme = "https" /\ Endpoints \subseteq Nat
  BY UpdateFlowAssumption DEF WholeInv, WholeTypeOK, FetchInv, Endpoints
<1>1. CASE flow = "checking" /\ AskFrom(ep + 1) /\ UNCHANGED <<manifest, artifact>>
  <2>1. \A j \in Nat : j < ep => j < ep + 1
    BY <1>0
  <2>2. failed = {j \in Endpoints : j < ep}
    BY <1>1 DEF WholeInv, AskedInOrder
  <2>3. failed \subseteq {j \in Endpoints : j < ep + 1}
    BY <1>0, <2>1, <2>2
  <2> QED BY <1>0, <1>1, <2>3, AskFromFacts
<1>2. CASE /\ flow = "downloading" /\ flow' = "refused" /\ fetch' = "none"
           /\ UNCHANGED <<ep, scheme, hop, got, manifest, artifact, failed>>
  BY <1>0, <1>2
<1> QED BY <1>1, <1>2 DEF FetchFails

\* What an answer leads to.
LEMMA AnsweredFacts ==
    ASSUME WholeInv, NEW noContent \in BOOLEAN, Answered(noContent)
    PROVE  /\ flow \in {"checking", "downloading"}
           /\ fetch' = "none"
           /\ UNCHANGED <<ep, scheme, failed>>
           /\ flow' \in {"up_to_date", "refused", "available", "verified"}
           /\ flow' \in {"available", "verified"} =>
                 /\ manifest' \in Manifests
                 /\ AllowDowngrade \/ manifest'.version >= running
           /\ flow' = "verified" => artifact' = "genuine" /\ manifest'.key = "ours"
<1>0. fetch' = "none" /\ UNCHANGED <<ep, scheme, failed>>
  BY Zenon DEF Answered
<1>1. CASE flow = "checking" /\ noContent /\ flow' = "up_to_date"
  BY <1>0, <1>1
<1>2. CASE flow = "checking" /\ flow' = "refused"
  BY <1>0, <1>2
<1>3. ASSUME flow = "checking", NEW m \in Manifests, flow' = Decide(m.version),
             manifest' = IF flow' = "refused" THEN NoManifest ELSE m
      PROVE  /\ flow' \in {"up_to_date", "refused", "available"}
             /\ flow' = "available" =>
                   /\ manifest' \in Manifests
                   /\ AllowDowngrade \/ manifest'.version >= running
  <2>1. m.version \in Nat /\ running \in Nat
    BY <1>3, UpdateFlowAssumption DEF Manifests, WholeInv, WholeTypeOK
  <2>2. flow' \in {"up_to_date", "refused", "available"}
    BY <1>3 DEF Decide
  <2>3. flow' = "available" => AllowDowngrade \/ m.version >= running
    BY <1>3, <2>1 DEF Decide
  <2> QED BY <1>3, <2>2, <2>3
<1>4. CASE /\ flow = "downloading" /\ UNCHANGED manifest
           /\ \/ /\ flow' = "verified"
                 /\ \E content : Verifies(manifest, content) /\ artifact' = content
              \/ flow' = "refused"
  BY <1>0, <1>4 DEF Verifies, WholeInv, ReleaseInv
<1>5. \/ flow = "checking" /\ noContent /\ flow' = "up_to_date"
      \/ flow = "checking" /\ flow' = "refused"
      \/ /\ flow = "checking"
         /\ \E m \in Manifests : /\ flow' = Decide(m.version)
                                 /\ manifest' = IF flow' = "refused" THEN NoManifest ELSE m
      \/ /\ flow = "downloading" /\ UNCHANGED manifest
         /\ \/ /\ flow' = "verified"
               /\ \E content : Verifies(manifest, content) /\ artifact' = content
            \/ flow' = "refused"
  BY Zenon DEF Answered
<1> QED BY <1>0, <1>1, <1>2, <1>3, <1>4, <1>5

-----------------------------------------------------------------------------
(* The flow's own steps.                                                   *)

\* The parts about the disk do not speak of the flow.
LEMMA InstallerUntouched ==
    ASSUME WholeInv, UNCHANGED <<installer, running, relabelled>>
    PROVE  SwapInv' /\ DiskInv'
BY DEF WholeInv, SwapInv, DiskInv, WholeBundleKept, Mac!WholeBundleKept, Mac!Whole, installer

\* A step of check() or download() keeps the invariant.
LEMMA AsksStep ==
    ASSUME WholeInv, Asks
    PROVE  WholeInv'
<1>0. /\ alive /\ UNCHANGED <<installer, running, relabelled>>
      /\ Fetcher \/ Check \/ Download
  BY Zenon DEF Asks, Ask
<1>1. SwapInv' /\ DiskInv'
  BY <1>0, InstallerUntouched
<1>2. pc = "idle"
  BY <1>0 DEF WholeInv, FetchInv, HandOverInv, Fetcher, Open, OpenFails, AnswerRedirect,
              AnswerBody, AnswerNoContent, AnswerOversize, Follow, Chunk, BodyEnds, Break,
              TimesOut, Check, Download
<1>3. HandOverInv'
  BY <1>0, <1>2 DEF HandOverInv, installer
<1>4. ASSUME flow' \in FlowPoints, fetch' \in {"none"} \cup InFetch, held' \in Nat, ep' \in Nat,
             FetchInv', AskedInOrder', ReleaseInv'
      PROVE  WholeInv'
  BY <1>0, <1>1, <1>3, <1>4 DEF WholeInv, WholeTypeOK, installer
<1>5. ASSUME FetchFails, held' = 0, UNCHANGED asked PROVE WholeInv'
  <2>1. FetchInv' /\ AskedInOrder' /\ ReleaseInv'
    BY <1>5, FetchFailsFacts DEF WholeInv, FetchInv, AskedInOrder, ReleaseInv
  <2> QED BY <1>4, <1>5, <2>1, FetchFailsFacts DEF FlowPoints, InFetch
<1>6. ASSUME NEW noContent \in BOOLEAN, Answered(noContent), held' = 0, UNCHANGED asked
      PROVE  WholeInv'
  <2>1. FetchInv'
    BY <1>6, AnsweredFacts DEF WholeInv, FetchInv
  <2>2. AskedInOrder'
    BY <1>6, AnsweredFacts DEF WholeInv, AskedInOrder
  <2>3. ReleaseInv'
    BY <1>0, <1>6, AnsweredFacts DEF ReleaseInv
  <2>4. ep' \in Nat
    BY <1>6, AnsweredFacts DEF WholeInv, WholeTypeOK
  <2> QED BY <1>4, <1>6, <2>1, <2>2, <2>3, <2>4, AnsweredFacts DEF FlowPoints
<1>7. fetch \in {"awaiting", "draining", "reading"} => held - 1 = 0
  BY DEF WholeInv, FetchInv
<1>8. CASE Open
  <2>1. FetchInv'
    BY <1>8 DEF Open, WholeInv, FetchInv
  <2>2. AskedInOrder' /\ ReleaseInv'
    BY <1>0, <1>8 DEF Open, WholeInv, AskedInOrder, ReleaseInv
  <2> QED BY <1>4, <1>8, <2>1, <2>2 DEF Open, WholeInv, WholeTypeOK, InFetch
<1>9. CASE OpenFails
  <2>1. held' = 0
    BY <1>9 DEF OpenFails, WholeInv, FetchInv
  <2> QED BY <1>5, <1>9, <2>1 DEF OpenFails
<1>10. CASE AnswerRedirect \/ AnswerBody
  <2>1. FetchInv'
    BY <1>10 DEF AnswerRedirect, AnswerBody, WholeInv, FetchInv
  <2>2. AskedInOrder' /\ ReleaseInv'
    BY <1>0, <1>10 DEF AnswerRedirect, AnswerBody, WholeInv, AskedInOrder, ReleaseInv
  <2> QED BY <1>4, <1>10, <2>1, <2>2 DEF AnswerRedirect, AnswerBody, WholeInv, WholeTypeOK, InFetch
<1>11. CASE AnswerNoContent
  BY <1>6, <1>7, <1>11 DEF AnswerNoContent
<1>12. CASE AnswerOversize \/ Break
  BY <1>5, <1>7, <1>12 DEF AnswerOversize, Break
<1>13. CASE Follow
  <2>1. CASE FetchFails
    BY <1>5, <1>7, <1>13, <2>1 DEF Follow
  <2>2. CASE ~FetchFails
    <3>1. /\ fetch = "draining" /\ held' = 0 /\ fetch' = "opening" /\ scheme' = "https"
          /\ UNCHANGED <<flow, ep, got, manifest, artifact, failed, asked>>
      BY <1>7, <1>13, <2>2 DEF Follow
    <3>2. FetchInv' /\ AskedInOrder' /\ ReleaseInv'
      BY <1>0, <3>1 DEF WholeInv, FetchInv, AskedInOrder, ReleaseInv
    <3> QED BY <1>4, <3>1, <3>2 DEF WholeInv, WholeTypeOK, InFetch
  <2> QED BY <2>1, <2>2
<1>14. CASE Chunk
  <2>1. CASE FetchFails /\ held' = held - 1
    BY <1>5, <1>7, <1>14, <2>1 DEF Chunk
  <2>2. CASE ~(FetchFails /\ held' = held - 1)
    <3>1. UNCHANGED <<flow, ep, fetch, scheme, hop, held, manifest, artifact, failed, asked>>
      BY <1>14, <2>2, Zenon DEF Chunk
    <3>2. FetchInv' /\ AskedInOrder' /\ ReleaseInv'
      BY <1>0, <3>1 DEF WholeInv, FetchInv, AskedInOrder, ReleaseInv
    <3> QED BY <1>4, <3>1, <3>2 DEF WholeInv, WholeTypeOK
  <2> QED BY <2>1, <2>2
<1>15. CASE BodyEnds
  BY <1>5, <1>6, <1>7, <1>15 DEF BodyEnds
<1>16. CASE TimesOut
  BY <1>5, <1>7, <1>16 DEF TimesOut
<1>17. CASE Check
  <2>1. /\ flow = "idle" /\ AskFrom(1) /\ UNCHANGED <<held, asked>> /\ fetch = "none"
        /\ failed = {} /\ held = 0
    BY <1>17 DEF Check, WholeInv, FetchInv, AskedInOrder
  <2>2. /\ flow' \in {"checking", "refused"}
        /\ fetch' = IF flow' = "checking" THEN "opening" ELSE "none"
        /\ scheme' = "https"
        /\ ep' \in Nat
        /\ flow' = "checking" => failed' = {j \in Endpoints : j < ep'}
    BY <2>1, AskFromFacts DEF WholeInv, WholeTypeOK, FetchInv
  <2>3. FetchInv' /\ AskedInOrder' /\ ReleaseInv'
    BY <2>1, <2>2 DEF WholeInv, FetchInv, AskedInOrder, ReleaseInv
  <2> QED BY <1>4, <2>1, <2>2, <2>3 DEF FlowPoints, InFetch
<1>18. CASE Download
  <2>1. /\ flow = "available" /\ fetch = "none" /\ held' = 0
        /\ flow' \in {"downloading", "refused"} /\ scheme' = "https"
        /\ fetch' = IF flow' = "downloading" THEN "opening" ELSE "none"
        /\ UNCHANGED <<ep, manifest, artifact, asked, failed>>
    BY <1>18 DEF Download, Fetch, WholeInv, FetchInv
  <2>2. FetchInv' /\ AskedInOrder' /\ ReleaseInv'
    BY <1>0, <2>1 DEF WholeInv, FetchInv, AskedInOrder, ReleaseInv
  <2> QED BY <1>4, <2>1, <2>2 DEF FlowPoints, InFetch, WholeInv, WholeTypeOK
<1> QED BY <1>0, <1>8, <1>9, <1>10, <1>11, <1>12, <1>13, <1>14, <1>15, <1>16, <1>17, <1>18
        DEF Fetcher

-----------------------------------------------------------------------------
(* The installer's steps.                                                  *)

\* The types of the installer's state, and what of the rest its steps rest on.
LEMMA MacFacts ==
    ASSUME WholeInv
    PROVE  /\ running \in Nat /\ pc \in MacPoints /\ alive \in BOOLEAN
           /\ bundle \in Directories /\ backup \in Directories /\ incoming \in Directories
           /\ scratch \in Int /\ start.scratch \in Int
           /\ start.bundle \in Directories /\ start.archive \in Directories
           /\ removed \in BOOLEAN /\ leftover \in BOOLEAN
           /\ pc # "idle" => /\ Mac!Whole(start.archive) /\ start.archive \in Nat
                             /\ \/ AllowDowngrade
                                \/ start.archive >= running
                                \/ start.archive \in relabelled
<1>1. /\ running \in Nat /\ pc \in MacPoints /\ alive \in BOOLEAN
      /\ bundle \in Directories /\ backup \in Directories /\ incoming \in Directories
      /\ scratch \in Int /\ start.scratch \in Int
      /\ start.bundle \in Directories /\ start.archive \in Directories
      /\ removed \in BOOLEAN /\ leftover \in BOOLEAN
  BY DEF WholeInv, WholeTypeOK
<1>2. pc # "idle" => /\ start.archive \in Nat
                     /\ \/ AllowDowngrade
                        \/ start.archive >= running
                        \/ start.archive \in relabelled
  BY DEF WholeInv, HandOverInv
<1> QED BY <1>1, <1>2, UpdateFlowAssumption, UpdatingAssumption DEF Mac!Whole

\* A step of install() leaves the flow, the process and the record of the
\* attempt alone.
LEMMA WorkFrame ==
    ASSUME Mac!Work
    PROVE  pc # "idle" /\ alive /\ UNCHANGED <<alive, attempts, start>>
BY DEF Mac!Work, Mac!At, Mac!Extract, Mac!FindBundle, Mac!Clear, Mac!RenameAway,
       Mac!RenameIn, Mac!PutBack, Mac!Elevate, Mac!Move, Mac!Touch, Mac!DropBackup,
       Mac!DropScratch

\* Where the directories may be after a step of install().
LEMMA SwapStep ==
    ASSUME WholeInv, Mac!Work
    PROVE  /\ bundle' \in Directories /\ backup' \in Directories /\ incoming' \in Directories
           /\ pc' \in MacPoints /\ removed' \in BOOLEAN /\ leftover' \in BOOLEAN
           /\ scratch' \in Int /\ (pc' # "idle" => scratch' = scratch)
           /\ SwapInv'
           /\ bundle' = Torn => removed'
           /\ removed => removed'
           /\ bundle' \in {bundle, start.bundle, start.archive, Absent, Torn}
           /\ WholeBundleKept'
           /\ Mac!EndsTruthfully
<1> USE MacFacts, WorkFrame, UpdatingAssumption
    DEF Directories, WholeBundleKept, Mac!WholeBundleKept, Mac!Whole, Mac!EndsTruthfully,
        Mac!At, Mac!Go, Mac!EndClean, Mac!EndAbandoning
<1>0. SwapInv /\ DiskInv
  BY DEF WholeInv
<1>1. pc # "idle" => scratch = start.scratch + 1
  BY DEF WholeInv, HandOverInv
<1>2. CASE Mac!Extract
  BY <1>0, <1>1, <1>2 DEF Mac!Extract, SwapInv, DiskInv, MacPoints
<1>3. CASE Mac!FindBundle
  BY <1>0, <1>1, <1>3 DEF Mac!FindBundle, SwapInv, DiskInv, MacPoints
<1>4. CASE Mac!Clear
  BY <1>0, <1>1, <1>4 DEF Mac!Clear, SwapInv, DiskInv, MacPoints
<1>5. CASE Mac!RenameAway
  BY <1>0, <1>1, <1>5 DEF Mac!RenameAway, SwapInv, DiskInv, MacPoints
<1>6. CASE Mac!RenameIn
  BY <1>0, <1>1, <1>6 DEF Mac!RenameIn, SwapInv, DiskInv, MacPoints
<1>7. CASE Mac!PutBack
  BY <1>0, <1>1, <1>7 DEF Mac!PutBack, SwapInv, DiskInv, MacPoints
<1>8. CASE Mac!Elevate
  <2>1. CASE UNCHANGED <<bundle, removed>>
    BY <1>0, <1>1, <1>8, <2>1 DEF Mac!Elevate, SwapInv, DiskInv, MacPoints
  <2>2. CASE removed' = TRUE /\ bundle' = Torn /\ Mac!EndAbandoning("refused")
    BY <1>0, <1>1, <1>8, <2>2 DEF Mac!Elevate, SwapInv, DiskInv, MacPoints
  <2>3. CASE /\ removed' = TRUE /\ bundle' = Absent /\ Mac!Go("move")
             /\ UNCHANGED <<incoming, scratch, leftover>>
    BY <1>0, <1>1, <1>8, <2>3 DEF Mac!Elevate, SwapInv, DiskInv, MacPoints
  <2> QED BY <1>8, <2>1, <2>2, <2>3, Zenon DEF Mac!Elevate
<1>9. CASE Mac!Move
  BY <1>0, <1>1, <1>9 DEF Mac!Move, SwapInv, DiskInv, MacPoints
<1>10. CASE Mac!Touch
  BY <1>0, <1>1, <1>10 DEF Mac!Touch, SwapInv, DiskInv, MacPoints
<1>11. CASE Mac!DropBackup
  BY <1>0, <1>1, <1>11 DEF Mac!DropBackup, SwapInv, DiskInv, MacPoints
<1>12. CASE Mac!DropScratch
  BY <1>0, <1>1, <1>12 DEF Mac!DropScratch, SwapInv, DiskInv, MacPoints
<1> QED BY <1>2, <1>3, <1>4, <1>5, <1>6, <1>7, <1>8, <1>9, <1>10, <1>11, <1>12 DEF Mac!Work

\* A step of install() keeps the invariant.
LEMMA InstallsStep ==
    ASSUME WholeInv, Installs
    PROVE  WholeInv'
<1>0. Mac!Work /\ UNCHANGED <<vars, relabelled>>
  BY Zenon DEF Installs
<1>1. /\ pc # "idle" /\ alive /\ UNCHANGED <<alive, attempts, start>>
      /\ UNCHANGED <<running, flow, ep, fetch, scheme, held, manifest, artifact, asked, failed>>
  BY <1>0, WorkFrame DEF vars, fetchVars
<1>2. FetchInv' /\ AskedInOrder' /\ ReleaseInv'
  BY <1>1 DEF WholeInv, FetchInv, AskedInOrder, ReleaseInv
<1>3. WholeTypeOK'
  BY <1>0, <1>1, SwapStep DEF WholeInv, WholeTypeOK
<1>4. HandOverInv'
  BY <1>0, <1>1, SwapStep DEF WholeInv, HandOverInv
<1>5. DiskInv'
  <2>1. /\ bundle' = Torn => removed'
        /\ WholeBundleKept'
        /\ start.bundle = Torn => removed'
    BY <1>0, <1>1, SwapStep DEF WholeInv, DiskInv
  <2>2. Mac!Whole(start.bundle) =>
           AllowDowngrade \/ start.bundle >= running \/ start.bundle \in relabelled
    BY <1>1 DEF WholeInv, DiskInv
  <2>3. ASSUME Mac!Whole(bundle)'
        PROVE  AllowDowngrade \/ bundle' >= running \/ bundle' \in relabelled
    BY <1>0, <1>1, <2>2, <2>3, SwapStep, MacFacts DEF WholeInv, DiskInv, Mac!Whole
  <2> QED BY <1>0, <1>1, <2>1, <2>2, <2>3 DEF DiskInv, Mac!Whole
<1> QED BY <1>0, <1>2, <1>3, <1>4, <1>5, SwapStep DEF WholeInv

\* Handing over a verified release keeps the invariant.
LEMMA HandOverStep ==
    ASSUME WholeInv, HandOver
    PROVE  WholeInv'
<1>1. /\ flow = "verified" /\ flow' = "installing"
      /\ UNCHANGED <<running, ep, fetch, scheme, held, manifest, artifact, asked, failed>>
  BY DEF HandOver, Install, fetchVars
<1>v. PICK v \in Versions :
         /\ Mac!Start(v)
         /\ relabelled' = relabelled \cup (IF v < manifest.version THEN {v} ELSE {})
  BY DEF HandOver
<1>2. /\ pc = "idle" /\ alive
      /\ start' = [bundle |-> bundle, scratch |-> scratch, archive |-> v]
      /\ UNCHANGED <<bundle, backup, incoming, alive, removed, leftover>>
      /\ \/ pc' = "idle" /\ scratch' = scratch
         \/ pc' = "extract" /\ scratch' = scratch + 1 /\ bundle # Absent
  BY <1>v DEF Mac!Start, Mac!At, Mac!Go
<1>3. v \in Nat /\ v \in Directories /\ manifest.version \in Nat /\ running \in Nat
      /\ (AllowDowngrade \/ manifest.version >= running)
  BY <1>1, UpdateFlowAssumption
     DEF WholeInv, WholeTypeOK, ReleaseInv, Manifests, Directories
<1>r. AllowDowngrade \/ v >= running \/ v \in relabelled'
  <2>1. CASE v < manifest.version
    BY <1>v, <2>1
  <2>2. CASE ~(v < manifest.version)
    BY <1>3, <2>2
  <2> QED BY <2>1, <2>2
<1>i. relabelled \subseteq relabelled'
  BY <1>v
<1>4. /\ start' \in [bundle : Directories, scratch : Int, archive : Directories]
      /\ start'.bundle = bundle /\ start'.scratch = scratch
      /\ start'.archive = v
  BY <1>2, <1>3 DEF WholeInv, WholeTypeOK
<1>5. WholeTypeOK'
  BY <1>1, <1>2, <1>4 DEF WholeInv, WholeTypeOK, MacPoints, FlowPoints
<1>6. FetchInv' /\ AskedInOrder' /\ ReleaseInv'
  BY <1>1 DEF WholeInv, FetchInv, AskedInOrder, ReleaseInv
<1>7. HandOverInv'
  BY <1>1, <1>2, <1>3, <1>4, <1>r DEF HandOverInv
<1>8. SwapInv'
  BY <1>2, <1>4 DEF WholeInv, SwapInv
<1>9. DiskInv'
  BY <1>1, <1>2, <1>4, <1>i DEF WholeInv, DiskInv, WholeBundleKept, Mac!WholeBundleKept, Mac!Whole
<1> QED BY <1>5, <1>6, <1>7, <1>8, <1>9 DEF WholeInv

\* A flow that starts over is in order, whatever the last one left.
LEMMA StartOverFacts ==
    ASSUME StartOver
    PROVE  /\ flow' = "idle" /\ fetch' = "none" /\ ep' = 0 /\ held' = 0
           /\ FetchInv' /\ AskedInOrder' /\ ReleaseInv'
BY DEF StartOver, FetchInv, AskedInOrder, ReleaseInv

\* So do asking again, being killed and being launched again.
LEMMA HostStep ==
    ASSUME WholeInv, AskAgain \/ Killed \/ Relaunched
    PROVE  WholeInv'
<1>0. StartOver
  BY DEF AskAgain, Killed, Relaunched
<1>1. CASE AskAgain
  <2>1. UNCHANGED <<installer, running, relabelled>> /\ pc = "idle" /\ alive
    BY <1>1 DEF AskAgain
  <2>2. SwapInv' /\ DiskInv'
    BY <2>1, InstallerUntouched
  <2>3. HandOverInv'
    BY <2>1 DEF HandOverInv, installer
  <2>4. WholeTypeOK'
    BY <1>0, <2>1, StartOverFacts DEF WholeInv, WholeTypeOK, installer, FlowPoints
  <2> QED BY <1>0, <2>2, <2>3, <2>4, StartOverFacts DEF WholeInv
<1>2. CASE Killed
  <2>1. /\ ~alive' /\ pc' = "idle" /\ incoming' = Absent
        /\ leftover' = (leftover \/ Mac!Whole(incoming))
        /\ backup' \in {backup, Torn}
        /\ backup' # backup => pc \in {"clear", "drop_backup"}
        /\ bundle' \in {bundle, Torn}
        /\ bundle' # bundle => pc = "move"
        /\ alive' \in BOOLEAN
        /\ UNCHANGED <<running, scratch, start, removed, relabelled>>
    BY <1>2 DEF Killed, Mac!Crash
  <2>2. WholeTypeOK'
    BY <1>0, <2>1, StartOverFacts DEF WholeInv, WholeTypeOK, FlowPoints, MacPoints, Directories
  <2>3. HandOverInv' /\ SwapInv'
    BY <1>0, <2>1, StartOverFacts DEF HandOverInv, SwapInv
  <2>4. WholeBundleKept'
    BY <2>1, MacFacts, UpdatingAssumption
       DEF WholeInv, SwapInv, DiskInv, WholeBundleKept, Mac!WholeBundleKept, Mac!Whole,
           Directories, MacPoints
  <2>5. DiskInv'
    BY <2>1, <2>4 DEF WholeInv, SwapInv, DiskInv, Mac!Whole
  <2> QED BY <1>0, <2>2, <2>3, <2>5, StartOverFacts DEF WholeInv
<1>3. CASE Relaunched
  <2>1. /\ ~alive /\ alive' /\ alive' \in BOOLEAN /\ running' = bundle /\ Mac!Whole(bundle)
        /\ UNCHANGED <<bundle, backup, incoming, scratch, pc, start, removed, leftover>>
    BY <1>3 DEF Relaunched, Mac!Launch, Mac!dirs
  <2>2. pc = "idle"
    BY <2>1 DEF WholeInv, HandOverInv
  <2>3. running' \in Nat
    BY <2>1 DEF WholeInv, WholeTypeOK, Mac!Whole, Directories
  <2>4. WholeTypeOK'
    BY <1>0, <2>1, <2>3, StartOverFacts DEF WholeInv, WholeTypeOK, FlowPoints
  <2>5. HandOverInv' /\ SwapInv'
    BY <2>1, <2>2 DEF WholeInv, HandOverInv, SwapInv
  <2>6. DiskInv'
    BY <2>1, <2>2, <2>3 DEF WholeInv, DiskInv, WholeBundleKept, Mac!WholeBundleKept, Mac!Whole
  <2> QED BY <1>0, <2>4, <2>5, <2>6, StartOverFacts DEF WholeInv
<1> QED BY <1>1, <1>2, <1>3

\* The application that was just launched for the first time is in order.
LEMMA WholeInitInv == WholeInit => WholeInv
<1> SUFFICES ASSUME WholeInit PROVE WholeInv
  OBVIOUS
<1>1. /\ running = Installed /\ flow = "idle" /\ ep = 0 /\ fetch = "none" /\ held = 0
      /\ scheme = "https" /\ asked = {} /\ failed = {}
  BY DEF WholeInit, Init
<1>2. /\ bundle = Installed /\ incoming = Absent /\ scratch = 0 /\ pc = "idle" /\ alive = TRUE
      /\ backup \in {v \in Versions : v < Installed} \cup {Absent, Torn}
      /\ start = [bundle |-> Installed, scratch |-> 0, archive |-> Absent]
      /\ removed = FALSE /\ leftover = FALSE
  BY DEF WholeInit, Mac!Init
<1>3. Installed \in Directories /\ Installed \in Nat /\ Mac!Whole(Installed)
  BY UpdateFlowAssumption, UpdatingAssumption DEF Directories, Mac!Whole
<1>4. WholeTypeOK
  <2>1. start \in [bundle : Directories, scratch : Int, archive : Directories]
    BY <1>2, <1>3 DEF Directories
  <2>2. backup \in Directories
    BY <1>2, UpdateFlowAssumption DEF Directories
  <2> QED BY <1>1, <1>2, <1>3, <2>1, <2>2 DEF WholeTypeOK, FlowPoints, MacPoints, Directories
<1>5. FetchInv /\ AskedInOrder /\ ReleaseInv /\ HandOverInv /\ SwapInv
  BY <1>1, <1>2 DEF FetchInv, AskedInOrder, ReleaseInv, HandOverInv, SwapInv
<1>6. DiskInv
  BY <1>1, <1>2, <1>3 DEF DiskInv, WholeBundleKept, Mac!WholeBundleKept, Mac!Whole
<1> QED BY <1>4, <1>5, <1>6 DEF WholeInv

\* Every step of the whole system keeps the invariant.
LEMMA WholeStep == WholeInv /\ [WholeNext]_all => WholeInv'
<1> SUFFICES ASSUME WholeInv, [WholeNext]_all PROVE WholeInv'
  OBVIOUS
<1>1. CASE UNCHANGED all
  <2>1. UNCHANGED <<installer, running, relabelled>> /\ UNCHANGED vars
    BY <1>1 DEF all, vars
  <2>2. SwapInv' /\ DiskInv'
    BY <2>1, InstallerUntouched
  <2> QED BY <2>1, <2>2 DEF WholeInv, WholeTypeOK, FetchInv, AskedInOrder, ReleaseInv,
                            HandOverInv, vars, fetchVars, installer
<1> QED BY <1>1, AsksStep, HandOverStep, InstallsStep, HostStep DEF WholeNext

\* The invariant holds of every history of updates.
LEMMA WholeInvariant == WholeSpec => []WholeInv
BY WholeInitInv, WholeStep, PTL DEF WholeSpec

-----------------------------------------------------------------------------
(* The theorems.                                                           *)

\* However often an update is tried and wherever the process is killed, a
\* whole application is left at the bundle path, at ".previous" or, after the
\* privileged rm, in a scratch directory (MacosInstaller.install).
THEOREM LastBundleSurvives == WholeSpec => []WholeBundleKept
<1>1. WholeInv => WholeBundleKept
  BY DEF WholeInv, DiskInv
<1> QED BY <1>1, WholeInvariant, PTL

\* Whatever hosts answer, no request leaves in clear text, the first endpoint
\* that answers decides, and the installer works on bytes our key signed
\* (UpdateFlow, HttpArtifactFetcher).
THEOREM ProvenanceHolds == WholeSpec => []InstallProvenance
<1>1. WholeInv => InstallProvenance
  BY DEF WholeInv, FetchInv, AskedInOrder, ReleaseInv, HandOverInv, InstallProvenance
<1> QED BY <1>1, WholeInvariant, PTL

\* Every way a fetch ends gives its connection back, a timeout excepted
\* (HttpArtifactFetcher.fetch).
THEOREM ConnectionsGivenBack == WholeSpec => []NoConnectionHeld
<1>1. WholeInv => NoConnectionHeld
  BY DEF WholeInv, FetchInv, NoConnectionHeld
<1> QED BY <1>1, WholeInvariant, PTL

\* What install() reports is what is on the disk, at the end of every attempt:
\* of an update reported as installed in every history, of one reported as
\* refused in the histories without a privileged rm (MacosInstaller.install).
THEOREM ReportsMatchDisk == WholeSpec => OutcomeTruthful
<1>1. WholeInv /\ [WholeNext]_all => [Mac!EndsTruthfully]_all
  <2> SUFFICES ASSUME WholeInv, WholeNext PROVE Mac!EndsTruthfully
    OBVIOUS
  <2>1. CASE Installs
    BY <2>1, SwapStep DEF Installs
  <2>2. CASE Asks \/ HandOver \/ AskAgain \/ Relaunched
    <3>1. pc' = pc \/ pc = "idle"
      BY <2>2 DEF Asks, HandOver, AskAgain, Relaunched, installer, Mac!Start, Mac!At, Mac!Launch
    <3> QED BY <3>1 DEF Mac!EndsTruthfully
  <2>3. CASE Killed
    <3>1. pc # "idle" => report' = "killed"
      BY <2>3 DEF Killed, Mac!Crash
    <3> QED BY <3>1 DEF Mac!EndsTruthfully
  <2> QED BY <2>1, <2>2, <2>3 DEF WholeNext
<1> QED BY <1>1, WholeInvariant, PTL DEF WholeSpec, OutcomeTruthful

\* Without allowDowngrade a launch goes back only to a version whose archive
\* was announced under a newer number: refused, interrupted and repeated
\* updates never take the application back (UpdatePolicy.decide and the swap
\* of MacosInstaller).
THEOREM NoRollback == WholeSpec => RunningNeverGoesBack
<1> DEFINE Forward == AllowDowngrade \/ running' >= running \/ running' \in relabelled
<1>1. WholeInv /\ [WholeNext]_all => [Forward]_all
  <2> SUFFICES ASSUME WholeInv, WholeNext PROVE Forward
    OBVIOUS
  <2>1. CASE Relaunched
    BY <2>1 DEF Relaunched, Mac!Launch, WholeInv, DiskInv
  <2>2. CASE Asks \/ HandOver \/ Installs \/ AskAgain \/ Killed
    <3>1. running' = running
      BY <2>2 DEF Asks, Ask, HandOver, Install, Installs, AskAgain, Killed, vars
    <3> QED BY <3>1 DEF WholeInv, WholeTypeOK
  <2> QED BY <2>1, <2>2 DEF WholeNext
<1> QED BY <1>1, WholeInvariant, PTL DEF WholeSpec, RunningNeverGoesBack
=============================================================================
