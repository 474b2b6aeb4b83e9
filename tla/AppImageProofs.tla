--------------------------- MODULE AppImageProofs ---------------------------
(***************************************************************************)
(* Proofs about AppImageInstaller, for any number of calls and builds, in  *)
(* any overlap.                                                            *)
(***************************************************************************)
EXTENDS AppImageInstaller, TLAPS

-----------------------------------------------------------------------------
(* Images                                                                  *)

\* The images the installer writes and finds are images.
LEMMA ImagesTyped ==
    ASSUME NEW b \in Builds, NEW w \in BOOLEAN, NEW e \in BOOLEAN
    PROVE  [build |-> b, whole |-> w, exec |-> e] \in Image
  BY Zenon DEF Image

\* chmod changes the mode of an image and nothing else.
LEMMA ChmodKeepsImage ==
    ASSUME NEW f \in Image
    PROVE  /\ [f EXCEPT !.exec = TRUE] \in Image
           /\ [f EXCEPT !.exec = TRUE].whole = f.whole
           /\ [f EXCEPT !.exec = TRUE].build = f.build
           /\ [f EXCEPT !.exec = TRUE].exec = TRUE
  BY Zenon DEF Image

\* No image is the absent file, and a written one is complete.
LEMMA ImagesPresent ==
    /\ \A f \in Image : f # Absent
    /\ \A c \in Calls : Written(c).whole
  BY AppImageAssumption, Zenon DEF Image, Written

-----------------------------------------------------------------------------
(* Types                                                                   *)

\* The files, program points and reports of LinuxInstaller._replaceAppImage
\* keep their types.
THEOREM TypeCorrect == Spec => []TypeOK
<1>1. Init => TypeOK
  <2> SUFFICES ASSUME Init PROVE TypeOK
    OBVIOUS
  <2>1. [build |-> FirstBuild, whole |-> TRUE, exec |-> TRUE] \in Image
    BY AppImageAssumption, ImagesTyped, Zenon
  <2> QED
    BY <2>1 DEF Init, TypeOK, Points, Holding, Reports
<1>2. TypeOK /\ [Next]_vars => TypeOK'
  <2> SUFFICES ASSUME TypeOK, [Next]_vars PROVE TypeOK'
    OBVIOUS
  <2> USE DEF TypeOK, Points, Holding, Reports, files, observed
  <2>1. ASSUME NEW c \in Calls, Start(c) PROVE TypeOK'
    BY <2>1 DEF Start, Go, End
  <2>2. ASSUME NEW c \in Calls, Clear(c) PROVE TypeOK'
    BY <2>2 DEF Clear, Go, End
  <2>3. ASSUME NEW c \in Calls, RenameAway(c) PROVE TypeOK'
    BY <2>3 DEF RenameAway, Go, End
  <2>4. ASSUME NEW c \in Calls, Write(c) PROVE TypeOK'
    <3>1. Written(c) \in Image /\ Torn(c) \in Image
      BY ImagesTyped, Zenon DEF Written, Torn
    <3> QED
      BY <2>4, <3>1 DEF Write, Go, End
  <2>5. ASSUME NEW c \in Calls, Restore(c) PROVE TypeOK'
    BY <2>5 DEF Restore, Go, End
  <2>6. ASSUME NEW c \in Calls, Chmod(c) PROVE TypeOK'
    <3>1. current # Absent => [current EXCEPT !.exec = TRUE] \in Image
      BY ChmodKeepsImage
    <3> QED
      BY <2>6, <3>1 DEF Chmod, Go, End
  <2>7. ASSUME NEW c \in Calls, Finish(c) PROVE TypeOK'
    BY <2>7 DEF Finish, Go, End
  <2>8. CASE Crash
    <3>1. \A c \in Calls : Torn(c) \in Image
      BY ImagesTyped, Zenon DEF Torn
    <3> QED
      BY <2>8, <3>1 DEF Crash
  <2>9. CASE Launch
    BY <2>9 DEF Launch
  <2>10. CASE UserChmod
    <3>1. current # Absent => [current EXCEPT !.exec = TRUE] \in Image
      BY ChmodKeepsImage
    <3> QED
      BY <2>10, <3>1 DEF UserChmod
  <2>11. CASE UNCHANGED vars
    BY <2>11 DEF vars
  <2> QED
    BY <2>1, <2>2, <2>3, <2>4, <2>5, <2>6, <2>7, <2>8, <2>9, <2>10, <2>11
    DEF Next
<1> QED
  BY <1>1, <1>2, PTL DEF Spec

-----------------------------------------------------------------------------
(* The last good image                                                     *)

\* At most one call holds the isolate.
OneHolder ==
    \A c, d \in Calls : pc[c] \in Holding /\ pc[d] \in Holding => c = d

\* Inductive strengthening of WholeImageKept: as long as every rename back
\* has worked, a swap in progress has a complete image at ".previous", a
\* living process outside of it one at the path, and a dead process left one
\* at either place (and can only be started again from the path).
KeptInv ==
    /\ OneHolder
    /\ ~alive => \A c \in Calls : pc[c] \in {"idle", "ended"}
    /\ ~unrestored =>
          /\ \A c \in Calls : pc[c] \in {"write", "restore"} => Whole(backup)
          /\ alive =>
               Whole(current) \/ \E c \in Calls : pc[c] \in {"write", "restore"}
          /\ Whole(current) \/ Whole(backup)

\* The installer begins with the whole image of FirstBuild at its path.
LEMMA KeptInit == Init => KeptInv
<1> SUFFICES ASSUME Init PROVE KeptInv
  OBVIOUS
<1>1. [build |-> FirstBuild, whole |-> TRUE, exec |-> TRUE] \in Image
  BY AppImageAssumption, ImagesTyped, Zenon
<1>2. Whole(current)
  BY <1>1, ImagesPresent, Zenon DEF Init, Whole
<1> QED
  BY <1>2 DEF Init, KeptInv, OneHolder, Holding

\* No step of install(), crash or relaunch removes the last whole image.
LEMMA KeptStep == TypeOK /\ KeptInv /\ [Next]_vars => KeptInv'
<1> SUFFICES ASSUME TypeOK, KeptInv, [Next]_vars PROVE KeptInv'
  OBVIOUS
<1> USE DEF TypeOK, KeptInv, OneHolder, Holding, Points, files, observed
<1>0. ~Whole(Absent)
  BY DEF Whole
<1>1. ASSUME NEW c \in Calls, Start(c) PROVE KeptInv'
  BY <1>1 DEF Start, IsolateFree, Go, End
<1>2. ASSUME NEW c \in Calls, Clear(c) PROVE KeptInv'
  BY <1>2 DEF Clear, Go, End
<1>3. ASSUME NEW c \in Calls, RenameAway(c) PROVE KeptInv'
  BY <1>3, <1>0 DEF RenameAway, Go, End
<1>4. ASSUME NEW c \in Calls, Write(c) PROVE KeptInv'
  <2>1. Whole(Written(c))
    <3>1. Written(c) \in Image
      BY ImagesTyped, Zenon DEF Written
    <3> QED
      BY <3>1, ImagesPresent, Zenon DEF Whole
  <2> QED
    BY <1>4, <2>1 DEF Write, Go, End
<1>5. ASSUME NEW c \in Calls, Restore(c) PROVE KeptInv'
  BY <1>5 DEF Restore, Go, End
<1>6. ASSUME NEW c \in Calls, Chmod(c) PROVE KeptInv'
  <2>1. current # Absent /\ Whole(current) =>
           Whole([current EXCEPT !.exec = TRUE])
    BY ChmodKeepsImage, ImagesPresent, Zenon DEF Whole
  <2>2. /\ pc[c] = "chmod" /\ UNCHANGED <<backup, alive, unrestored>>
        /\ pc' \in {[pc EXCEPT ![c] = "marked"], [pc EXCEPT ![c] = "failed_chmod"]}
        /\ Whole(current) => Whole(current')
    BY <1>6, <2>1 DEF Chmod, Go
  <2> QED
    BY <2>2
<1>7. ASSUME NEW c \in Calls, Finish(c) PROVE KeptInv'
  BY <1>7 DEF Finish, IsolateFree, Go, End
<1>8. CASE Crash
  BY <1>8 DEF Crash
<1>9. CASE Launch
  BY <1>9 DEF Launch, Runnable, Whole
<1>10. CASE UserChmod
  <2>1. Whole(current) => Whole([current EXCEPT !.exec = TRUE])
    BY ChmodKeepsImage, ImagesPresent, Zenon DEF Whole
  <2> QED
    BY <1>10, <2>1 DEF UserChmod
<1>11. CASE UNCHANGED vars
  BY <1>11 DEF vars
<1> QED
  BY <1>1, <1>2, <1>3, <1>4, <1>5, <1>6, <1>7, <1>8, <1>9, <1>10, <1>11
  DEF Next

\* _replaceAppImage never destroys the last complete image, for any number
\* of calls, in any overlap, with any of them failing or killed at any file
\* operation, as long as the rename back itself does not fail.
THEOREM WholeImageAlwaysKept == Spec => []WholeImageKept
<1>1. KeptInv => WholeImageKept
  BY DEF KeptInv, WholeImageKept
<1> QED
  BY <1>1, KeptInit, KeptStep, TypeCorrect, PTL DEF Spec

-----------------------------------------------------------------------------
(* One call at a time, and what a call reports                             *)

Pending(c) == pc[c] \notin {"idle", "ended"}

\* f is the image g was, but for its mode.
SameImage(f, g) == f # Absent /\ f.build = g.build /\ f.whole = g.whole

\* While no call has begun beside another, the one that is pending finds at
\* the path what it wrote there.
InstallInv ==
    ~overlapped =>
        /\ \A c, d \in Calls : Pending(c) /\ Pending(d) => c = d
        /\ \A c \in Calls :
              pc[c] \in {"chmod", "marked"} =>
                 current # Absent /\ current.build = artifact[c] /\ current.whole
        /\ \A c \in Calls : pc[c] = "marked" => current.exec

\* In any overlap, what a call found at the path is there until the call
\* renames it away, and at ".previous" from then on until its write is over:
\* it holds the isolate all the while.
StartInv ==
    \A c \in Calls :
        /\ pc[c] \in {"clear", "rename"} => SameImage(current, start[c])
        /\ pc[c] \in {"write", "restore"} => SameImage(backup, start[c])

\* Inductive strengthening of RunnableImageKept: until the new image is marked
\* executable the runnable one is at ".previous".
Calm == ~overlapped /\ ~unrestored /\ ~unmarked
RunnableInv ==
    Calm =>
        /\ \A c \in Calls : pc[c] # "failed_chmod"
        /\ \A c \in Calls : pc[c] \in {"write", "restore", "chmod"} => Runnable(backup)
        /\ alive => \/ Runnable(current)
                    \/ \E c \in Calls : pc[c] \in {"write", "restore", "chmod"}
        /\ Runnable(current) \/ Runnable(backup)

SwapInv == InstallInv /\ StartInv /\ RunnableInv

LEMMA WrittenFacts ==
    \A c \in Calls :
        TypeOK => /\ Written(c) # Absent /\ Written(c).build = artifact[c]
                  /\ Written(c).whole
<1> SUFFICES ASSUME NEW c \in Calls, TypeOK
             PROVE  /\ Written(c) # Absent /\ Written(c).build = artifact[c]
                    /\ Written(c).whole
  OBVIOUS
<1>1. artifact[c] \in Builds
  BY DEF TypeOK
<1>2. Written(c) \in Image
  BY <1>1, ImagesTyped, Zenon DEF Written
<1> QED
  BY <1>2, ImagesPresent, Zenon DEF Written

LEMMA MarkedFacts ==
    TypeOK /\ current # Absent =>
        /\ [current EXCEPT !.exec = TRUE] # Absent
        /\ [current EXCEPT !.exec = TRUE].whole = current.whole
        /\ [current EXCEPT !.exec = TRUE].build = current.build
        /\ [current EXCEPT !.exec = TRUE].exec = TRUE
BY ChmodKeepsImage, ImagesPresent DEF TypeOK

\* No step of install(), crash, relaunch or chmod of the user changes what a
\* call that runs alone has written.
LEMMA InstallStep ==
    TypeOK /\ InstallInv /\ [Next]_vars => InstallInv'
<1> SUFFICES ASSUME TypeOK, InstallInv, [Next]_vars PROVE InstallInv'
  OBVIOUS
<1> USE DEF TypeOK, InstallInv, Pending, Holding, Points, files, observed
<1>1. ASSUME NEW c \in Calls, Start(c) PROVE InstallInv'
  <2>1. ~overlapped' => ~overlapped /\ \A d \in Calls : ~Pending(d)
    BY <1>1 DEF Start
  <2>2. /\ current' = current /\ artifact' = artifact
        /\ pc' \in {[pc EXCEPT ![c] = "ended"], [pc EXCEPT ![c] = "clear"]}
    BY <1>1 DEF Start, Go, End
  <2> QED BY <2>1, <2>2
<1>2. ASSUME NEW c \in Calls, Clear(c) PROVE InstallInv'
  BY <1>2, WrittenFacts, MarkedFacts DEF Clear, Go, End
<1>3. ASSUME NEW c \in Calls, RenameAway(c) PROVE InstallInv'
  BY <1>3, WrittenFacts, MarkedFacts DEF RenameAway, Go, End
<1>4. ASSUME NEW c \in Calls, Write(c) PROVE InstallInv'
  BY <1>4, WrittenFacts, MarkedFacts DEF Write, Go, End
<1>5. ASSUME NEW c \in Calls, Restore(c) PROVE InstallInv'
  BY <1>5, WrittenFacts, MarkedFacts DEF Restore, Go, End
<1>6. ASSUME NEW c \in Calls, Chmod(c) PROVE InstallInv'
  <2>1. CASE current # Absent /\ current' = [current EXCEPT !.exec = TRUE] /\ Go(c, "marked")
    <3>1. /\ current' # Absent /\ current'.build = current.build
          /\ current'.whole = current.whole /\ current'.exec = TRUE
      BY <2>1, MarkedFacts
    <3> QED
      BY <1>6, <2>1, <3>1 DEF Chmod, Go
  <2>2. CASE UNCHANGED current /\ Go(c, "failed_chmod")
    BY <1>6, <2>2 DEF Chmod, Go
  <2> QED
    BY <1>6, <2>1, <2>2 DEF Chmod
<1>7. ASSUME NEW c \in Calls, Finish(c) PROVE InstallInv'
  BY <1>7, WrittenFacts, MarkedFacts DEF Finish, IsolateFree, Go, End
<1>8. CASE Crash
  BY <1>8 DEF Crash
<1>9. CASE Launch
  BY <1>9 DEF Launch
<1>10. CASE UserChmod
  BY <1>10, MarkedFacts DEF UserChmod
<1>11. CASE UNCHANGED vars
  BY <1>11 DEF vars
<1> QED
  BY <1>1, <1>2, <1>3, <1>4, <1>5, <1>6, <1>7, <1>8, <1>9, <1>10, <1>11
  DEF Next

\* Nobody but the call that holds the isolate moves what it found.
LEMMA StartStep ==
    TypeOK /\ KeptInv /\ StartInv /\ [Next]_vars => StartInv'
<1> SUFFICES ASSUME TypeOK, OneHolder, StartInv, [Next]_vars PROVE StartInv'
  BY DEF KeptInv
<1> USE DEF TypeOK, StartInv, SameImage, OneHolder, Holding, Points, files, observed
<1>1. ASSUME NEW c \in Calls, Start(c) PROVE StartInv'
  BY <1>1, WrittenFacts, MarkedFacts DEF Start, IsolateFree, Go, End
<1>2. ASSUME NEW c \in Calls, Clear(c) PROVE StartInv'
  BY <1>2, WrittenFacts, MarkedFacts DEF Clear, Go, End
<1>3. ASSUME NEW c \in Calls, RenameAway(c) PROVE StartInv'
  BY <1>3, WrittenFacts, MarkedFacts DEF RenameAway, Go, End
<1>4. ASSUME NEW c \in Calls, Write(c) PROVE StartInv'
  BY <1>4, WrittenFacts, MarkedFacts DEF Write, Go, End
<1>5. ASSUME NEW c \in Calls, Restore(c) PROVE StartInv'
  BY <1>5, WrittenFacts, MarkedFacts DEF Restore, Go, End
<1>6. ASSUME NEW c \in Calls, Chmod(c) PROVE StartInv'
  <2>1. current # Absent =>
          /\ current' # Absent /\ current'.build = current.build
          /\ current'.whole = current.whole
    BY <1>6, MarkedFacts DEF Chmod
  <2>2. /\ UNCHANGED <<backup, start>>
        /\ pc' \in {[pc EXCEPT ![c] = "marked"], [pc EXCEPT ![c] = "failed_chmod"]}
    BY <1>6 DEF Chmod, Go
  <2> QED
    BY <2>1, <2>2
<1>7. ASSUME NEW c \in Calls, Finish(c) PROVE StartInv'
  BY <1>7, WrittenFacts, MarkedFacts DEF Finish, IsolateFree, Go, End
<1>8. CASE Crash
  BY <1>8 DEF Crash
<1>9. CASE Launch
  BY <1>9 DEF Launch
<1>10. CASE UserChmod
  BY <1>10, MarkedFacts DEF UserChmod
<1>11. CASE UNCHANGED vars
  BY <1>11 DEF vars
<1> QED
  BY <1>1, <1>2, <1>3, <1>4, <1>5, <1>6, <1>7, <1>8, <1>9, <1>10, <1>11
  DEF Next

\* With one call at a time and no failed chmod or rename back, no step takes
\* the last runnable image.
LEMMA RunnableStep ==
    TypeOK /\ KeptInv /\ InstallInv /\ RunnableInv /\ [Next]_vars => RunnableInv'
<1> SUFFICES ASSUME TypeOK, KeptInv, InstallInv, RunnableInv, [Next]_vars
             PROVE  RunnableInv'
  OBVIOUS
<1> USE DEF TypeOK, InstallInv, RunnableInv, Calm, Pending, Runnable,
            Holding, Points, files, observed
<1>1. ASSUME NEW c \in Calls, Start(c) PROVE RunnableInv'
  BY <1>1, WrittenFacts, MarkedFacts DEF Start, IsolateFree, Go, End
<1>2. ASSUME NEW c \in Calls, Clear(c) PROVE RunnableInv'
  <2>1. alive
    BY <1>2 DEF Clear, KeptInv
  <2>2. Calm => Runnable(current) /\ \A d \in Calls \ {c} : ~Pending(d)
    BY <1>2, <2>1 DEF Clear
  <2>3. backup' \in {Absent, backup} /\ UNCHANGED <<current, alive, overlapped, unrestored, unmarked>>
        /\ pc' \in {[pc EXCEPT ![c] = "ended"], [pc EXCEPT ![c] = "rename"]}
    BY <1>2 DEF Clear, Go, End
  <2> QED BY <2>1, <2>2, <2>3
<1>3. ASSUME NEW c \in Calls, RenameAway(c) PROVE RunnableInv'
  <2>1. alive
    BY <1>3 DEF RenameAway, KeptInv
  <2>2. Calm => Runnable(current) /\ \A d \in Calls \ {c} : ~Pending(d)
    BY <1>3, <2>1 DEF RenameAway
  <2>3. /\ UNCHANGED <<alive, overlapped, unrestored, unmarked>>
        /\ \/ /\ pc' = [pc EXCEPT ![c] = "ended"]
              /\ UNCHANGED <<current, backup>>
           \/ /\ pc' = [pc EXCEPT ![c] = "write"]
              /\ backup' = current
    BY <1>3 DEF RenameAway, Go, End
  <2> QED BY <2>1, <2>2, <2>3
<1>4. ASSUME NEW c \in Calls, Write(c) PROVE RunnableInv'
  BY <1>4, WrittenFacts, MarkedFacts DEF Write, Go, End
<1>5. ASSUME NEW c \in Calls, Restore(c) PROVE RunnableInv'
  BY <1>5, WrittenFacts, MarkedFacts DEF Restore, Go, End
<1>6. ASSUME NEW c \in Calls, Chmod(c) PROVE RunnableInv'
  BY <1>6, WrittenFacts, MarkedFacts DEF Chmod, Go, End
<1>7. ASSUME NEW c \in Calls, Finish(c) PROVE RunnableInv'
  BY <1>7, WrittenFacts, MarkedFacts DEF Finish, IsolateFree, Go, End
<1>8. CASE Crash
  BY <1>8 DEF Crash
<1>9. CASE Launch
  BY <1>9 DEF Launch
<1>10. CASE UserChmod
  BY <1>10, MarkedFacts DEF UserChmod
<1>11. CASE UNCHANGED vars
  BY <1>11 DEF vars
<1> QED
  BY <1>1, <1>2, <1>3, <1>4, <1>5, <1>6, <1>7, <1>8, <1>9, <1>10, <1>11
  DEF Next

LEMMA SwapInit == Init => SwapInv
<1> SUFFICES ASSUME Init PROVE SwapInv
  OBVIOUS
<1>1. [build |-> FirstBuild, whole |-> TRUE, exec |-> TRUE] \in Image
  BY AppImageAssumption, ImagesTyped, Zenon
<1>2. Runnable(current)
  BY <1>1, ImagesPresent, Zenon DEF Init, Runnable
<1>3. \A c \in Calls : pc[c] = "idle"
  BY DEF Init
<1> QED
  BY <1>2, <1>3 DEF SwapInv, InstallInv, StartInv, RunnableInv, Pending

LEMMA SwapAlways == Spec => [](TypeOK /\ KeptInv /\ SwapInv)
<1>1. TypeOK /\ KeptInv /\ SwapInv /\ [Next]_vars => SwapInv'
  BY InstallStep, StartStep, RunnableStep DEF SwapInv
<1> QED
  BY <1>1, SwapInit, KeptInit, KeptStep, TypeCorrect, PTL DEF Spec

\* With one call at a time, and as long as no chmod and no rename back has
\* failed, there is an image at the path or at ".previous" that can be run as
\* it stands, wherever _replaceAppImage is killed.
THEOREM RunnableImageAlwaysKept == Spec => []RunnableImageKept
<1>1. SwapInv => RunnableImageKept
  BY DEF SwapInv, RunnableInv, Calm, RunnableImageKept
<1> QED
  BY <1>1, SwapAlways, PTL

\* What a call of install() reports when it ends is what is on the disk:
\* installedRestartNeeded, for a call that ran alone, means its complete,
\* executable artefact at the path and no backup; "the previous one was put
\* back" means the file it found there, in any overlap.
THEOREM ReportsAlwaysTruthful == Spec => ReportsTruthful
<1> DEFINE Told(c) ==
              report'[c] # report[c] =>
                 /\ report'[c] = "installed" /\ ~overlapped =>
                      /\ current' = [build |-> artifact[c], whole |-> TRUE, exec |-> TRUE]
                      /\ backup' = Absent
                 /\ report'[c] = "put_back" =>
                      /\ current'.build = start[c].build
                      /\ current'.whole = start[c].whole
                      /\ backup' = Absent
<1>1. TypeOK /\ SwapInv /\ [Next]_vars => [\A c \in Calls : Told(c)]_vars
  <2> SUFFICES ASSUME TypeOK, SwapInv, Next, NEW c \in Calls
               PROVE  Told(c)
    OBVIOUS
  <2> SUFFICES ASSUME report'[c] # report[c],
                      report'[c] \in {"installed", "put_back"}
               PROVE  Told(c)
    OBVIOUS
  <2>1. \/ Finish(c) /\ pc[c] = "marked" /\ report'[c] = "installed"
        \/ Restore(c) /\ current' = backup /\ report'[c] = "put_back"
    <3>1. ASSUME NEW d \in Calls, Start(d) \/ Clear(d) \/ RenameAway(d) \/ Write(d) \/ Chmod(d)
          PROVE  FALSE
      BY <3>1 DEF Start, Clear, RenameAway, Write, Chmod, Go, End, TypeOK
    <3>2. ASSUME NEW d \in Calls, Finish(d)
          PROVE  Finish(c) /\ pc[c] = "marked" /\ report'[c] = "installed"
      <4>1. d = c
        BY <3>2 DEF Finish, End, TypeOK
      <4>2. Finish(c)
        BY <3>2, <4>1
      <4> QED BY <4>2 DEF Finish, End, TypeOK
    <3>3. ASSUME NEW d \in Calls, Restore(d)
          PROVE  Restore(c) /\ current' = backup /\ report'[c] = "put_back"
      <4>1. d = c
        BY <3>3 DEF Restore, End, TypeOK
      <4>2. Restore(c)
        BY <3>3, <4>1
      <4> QED BY <4>2 DEF Restore, End, TypeOK
    <3>4. ASSUME Crash \/ Launch \/ UserChmod
          PROVE  FALSE
      BY <3>4 DEF Crash, Launch, UserChmod
    <3> QED BY <3>1, <3>2, <3>3, <3>4 DEF Next
  <2>2. CASE Finish(c) /\ pc[c] = "marked" /\ report'[c] = "installed"
    <3>1. backup' = Absent /\ current' = current
      BY <2>2 DEF Finish, End, TypeOK
    <3>2. ~overlapped => /\ current \in Image /\ current.build = artifact[c]
                         /\ current.whole = TRUE /\ current.exec = TRUE
      <4> SUFFICES ASSUME ~overlapped
                   PROVE  /\ current \in Image /\ current.build = artifact[c]
                          /\ current.whole = TRUE /\ current.exec = TRUE
        OBVIOUS
      <4>1. /\ current # Absent /\ current.build = artifact[c]
            /\ current.whole /\ current.exec
        BY <2>2 DEF SwapInv, InstallInv
      <4>2. current \in Image
        BY <4>1 DEF TypeOK
      <4>3. current.whole \in BOOLEAN /\ current.exec \in BOOLEAN
        BY <4>2 DEF Image
      <4> QED BY <4>1, <4>2, <4>3
    <3>3. ~overlapped => current = [build |-> artifact[c], whole |-> TRUE, exec |-> TRUE]
      BY <3>2 DEF Image
    <3> QED BY <2>2, <3>1, <3>3
  <2>3. CASE Restore(c) /\ current' = backup /\ report'[c] = "put_back"
    <3>1. SameImage(backup, start[c])
      BY <2>3 DEF Restore, SwapInv, StartInv
    <3>2. backup' = Absent
      BY <2>3 DEF Restore, End, TypeOK
    <3> QED BY <2>3, <3>1, <3>2 DEF SameImage
  <2> QED BY <2>1, <2>2, <2>3
<1> QED
  BY <1>1, SwapAlways, PTL DEF Spec, ReportsTruthful
=============================================================================
