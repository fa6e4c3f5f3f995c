-------------------------- MODULE ArtworkCacheProofs --------------------------
(***************************************************************************)
(* Proofs about ArtworkCache for every set of keys, runs, views and        *)
(* sweeps, every throttle and retention time: type correctness, that what  *)
(* is served is all that a run had fetched, that a file's time keeps up    *)
(* with the references to it, and what a purge may miss.                   *)
(***************************************************************************)
EXTENDS ArtworkCache, TLAPS

LEMMA ArtTypeInit == ArtInit => ArtTypeOK
BY ArtAssumption DEF ArtInit, ArtTypeOK, ArtTypes, InHand, Stage, Sweeper

\* A step of one run, seen from what each request has in hand: the others
\* keep what they have.
LEMMA RunStepInHand ==
    ASSUME ArtTypes, InHand, NEW r \in Run, NEW s, GoTo(r, s),
           \A q \in (Run \cup View \cup Cleanup) \ {r} : at'[q] = at[q],
           \A p \in Run \ {r} :
               left'[p] = left[p] /\ image'[p] = image[p],
           s \notin {"warm", "crashed"} => at'[r] # None /\ left'[r] > 0,
           s \in {"write", "resize", "publish"} => image'[r] # None
    PROVE  InHand'
<1>1. \A q \in (Run \cup View \cup Cleanup) \ {r} : stage'[q] = stage[q]
  BY DEF GoTo, ArtTypes, Sweeper
<1>2. stage'[r] = s
  BY DEF GoTo, ArtTypes
<1> QED
  BY <1>1, <1>2 DEF InHand

LEMMA NextEntryInHand ==
    ASSUME ArtTypes, InHand, NEW r \in Run, NextEntry(r)
    PROVE  InHand'
<1>1. GoTo(r, "warm")
  BY DEF NextEntry
<1>2. \A q \in (Run \cup View \cup Cleanup) \ {r} : at'[q] = at[q]
  BY DEF NextEntry, ArtTypes
<1>3. \A p \in Run \ {r} :
        left'[p] = left[p] /\ image'[p] = image[p]
  BY DEF NextEntry, ArtTypes
<1> QED
  BY <1>1, <1>2, <1>3, RunStepInHand

LEMMA ArtTypeStep == ArtTypeOK /\ [ArtNext]_artVars => ArtTypeOK'
<1> SUFFICES ASSUME ArtTypes, InHand, [ArtNext]_artVars
             PROVE  ArtTypes' /\ InHand'
  BY DEF ArtTypeOK
<1> USE ArtAssumption
<1>1. ASSUME NEW r \in Run, WarmLook(r)
      PROVE  ArtTypes' /\ InHand'
  <2>1. ArtTypes'
    BY <1>1 DEF ArtTypes, InHand, Stage, GoTo, WarmLook, NextEntry, Referenced,
                runVars, viewVars, adminVars
  <2>2. InHand'
    <3>1. CASE NextEntry(r)
      BY <3>1, NextEntryInHand
    <3>2. CASE ~NextEntry(r)
      <4>1. PICK k \in Key, s \in {"fetch", "touch"} :
              at' = [at EXCEPT ![r] = k] /\ GoTo(r, s)
        BY <1>1, <3>2 DEF WarmLook
      <4>2. UNCHANGED runVars /\ left[r] > 0
        BY <1>1, <3>2 DEF WarmLook
      <4> QED
        BY <4>1, <4>2 DEF ArtTypes, InHand, GoTo, runVars
    <3> QED
      BY <3>1, <3>2
  <2> QED
    BY <2>1, <2>2
<1>0. ASSUME NEW r \in Run, BeginRun(r)
      PROVE  ArtTypes' /\ InHand'
  <2>1. ArtTypes'
    BY <1>0 DEF ArtTypes, Stage, GoTo, BeginRun, viewVars, adminVars, Sweeper
  <2>2. InHand'
    BY <1>0 DEF ArtTypes, InHand, GoTo, BeginRun, viewVars, adminVars, Sweeper
  <2> QED
    BY <2>1, <2>2
<1>2. ASSUME NEW r \in Run, WarmTouch(r)
      PROVE  ArtTypes' /\ InHand'
  <2>1. ArtTypes'
    BY <1>2 DEF ArtTypes, InHand, Stage, GoTo, WarmTouch, Touched, NextEntry,
                Referenced, viewVars, adminVars, File
  <2>2. InHand'
    BY <1>2 DEF ArtTypes, InHand, GoTo, WarmTouch, NextEntry, viewVars, adminVars
  <2> QED
    BY <2>1, <2>2
<1>3. ASSUME NEW r \in Run, FetchArt(r)
      PROVE  ArtTypes' /\ InHand'
  <2>1. ArtTypes'
    BY <1>3 DEF ArtTypes, InHand, Stage, GoTo, FetchArt, RequestArt, NextEntry, viewVars,
                adminVars, File
  <2>2. InHand'
    <3>1. CASE NextEntry(r)
      BY <3>1, NextEntryInHand
    <3>2. CASE ~NextEntry(r)
      <4>1. GoTo(r, "write") /\ UNCHANGED <<left, at>> /\ stage[r] = "fetch"
        BY <1>3, <3>2 DEF FetchArt, RequestArt
      <4>2. image'[r] # None /\ \A p \in Run \ {r} : image'[p] = image[p]
        BY <1>3, <3>2 DEF FetchArt, RequestArt, ArtTypes, File
      <4>3. at[r] # None /\ left[r] > 0
        BY <4>1 DEF InHand
      <4> QED
        BY <4>1, <4>2, <4>3, RunStepInHand
    <3> QED
      BY <3>1, <3>2
  <2> QED
    BY <2>1, <2>2
<1>4. ASSUME NEW r \in Run, Write(r)
      PROVE  ArtTypes' /\ InHand'
  <2>1. ArtTypes'
    BY <1>4 DEF ArtTypes, InHand, Stage, GoTo, Write, NextEntry, viewVars, adminVars,
                File
  <2>2. InHand'
    <3>1. CASE NextEntry(r)
      BY <3>1, NextEntryInHand
    <3>2. CASE ~NextEntry(r)
      <4>1. PICK s \in {"resize", "publish"} : GoTo(r, s)
        BY <1>4, <3>2 DEF Write
      <4>2. image'[r] # None /\ \A p \in Run \ {r} : image'[p] = image[p]
        <5>1. [image[r] EXCEPT !.mtime = clock] \in File
          BY <1>4 DEF Write, ArtTypes, InHand, File
        <5> QED
          BY <1>4, <3>2, <5>1 DEF Write, ArtTypes
      <4>3. UNCHANGED <<left, at>> /\ stage[r] = "write"
        BY <1>4, <3>2 DEF Write
      <4>4. at[r] # None /\ left[r] > 0
        BY <4>3 DEF InHand
      <4> QED
        BY <4>1, <4>2, <4>3, <4>4, RunStepInHand
    <3> QED
      BY <3>1, <3>2
  <2> QED
    BY <2>1, <2>2
<1>5. ASSUME NEW r \in Run, Resize(r)
      PROVE  ArtTypes' /\ InHand'
  <2>1. ArtTypes'
    <3>1. CASE NextEntry(r)
      BY <1>5, <3>1 DEF ArtTypes, InHand, Stage, GoTo, Resize, NextEntry, viewVars,
                        adminVars
    <3>2. CASE ~NextEntry(r)
      BY <1>5, <3>2 DEF ArtTypes, Stage, GoTo, Resize, runVars, viewVars, adminVars
    <3> QED
      BY <3>1, <3>2
  <2>2. InHand'
    <3>1. CASE NextEntry(r)
      BY <3>1, NextEntryInHand
    <3>2. CASE ~NextEntry(r)
      <4>1. image'[r] # None /\ \A p \in Run \ {r} : image'[p] = image[p]
        BY <1>5, <3>2 DEF Resize, InHand, runVars
      <4>2. GoTo(r, "publish") /\ UNCHANGED <<left, at>> /\ stage[r] = "resize"
        BY <1>5, <3>2 DEF Resize, runVars
      <4>3. at[r] # None /\ left[r] > 0
        BY <4>2 DEF InHand
      <4> QED
        BY <4>1, <4>2, <4>3, RunStepInHand
    <3> QED
      BY <3>1, <3>2
  <2> QED
    BY <2>1, <2>2
<1>6. ASSUME NEW r \in Run, Publish(r)
      PROVE  ArtTypes' /\ InHand'
  <2>1. ArtTypes'
    BY <1>6 DEF ArtTypes, InHand, Stage, GoTo, Publish, NextEntry, viewVars, adminVars
  <2>2. InHand'
    BY <1>6 DEF ArtTypes, InHand, GoTo, Publish, NextEntry, viewVars, adminVars
  <2> QED
    BY <2>1, <2>2
<1>7. ASSUME NEW r \in Run, CrashWarming(r)
      PROVE  ArtTypes' /\ InHand'
  <2>1. ArtTypes'
    BY <1>7 DEF ArtTypes, InHand, Stage, GoTo, CrashWarming, viewVars, adminVars
  <2>2. InHand'
    BY <1>7 DEF ArtTypes, InHand, GoTo, CrashWarming, viewVars, adminVars
  <2> QED
    BY <2>1, <2>2
<1>8. ASSUME NEW v \in View, RenderLook(v)
      PROVE  ArtTypes' /\ InHand'
  <2>1. ArtTypes'
    BY <1>8 DEF ArtTypes, InHand, Stage, GoTo, RenderLook, Referenced, runVars,
                viewVars, adminVars
  <2>2. InHand'
    <3>1. v \notin Run /\ UNCHANGED runVars
      BY <1>8 DEF RenderLook
    <3>2. \A q \in (Run \cup View \cup Cleanup) \ {v} : stage'[q] = stage[q] /\ at'[q] = at[q]
      BY <1>8 DEF RenderLook, GoTo, ArtTypes, Sweeper
    <3>3. stage'[v] = "done" \/ (stage'[v] = "touch" /\ at'[v] # None)
      BY <1>8 DEF RenderLook, GoTo, ArtTypes
    <3> QED
      BY <3>1, <3>2, <3>3 DEF InHand, runVars
  <2> QED
    BY <2>1, <2>2
<1>9. ASSUME NEW v \in View, ServeLook(v)
       PROVE  ArtTypes' /\ InHand'
  <2>1. ArtTypes'
    BY <1>9 DEF ArtTypes, InHand, Stage, GoTo, ServeLook, runVars, adminVars, Old
  <2>2. InHand'
    BY <1>9 DEF ArtTypes, InHand, GoTo, ServeLook, runVars, adminVars
  <2> QED
    BY <2>1, <2>2
<1>10. ASSUME NEW v \in View, ServeRead(v)
       PROVE  ArtTypes' /\ InHand'
  <2>1. ArtTypes'
    BY <1>10 DEF ArtTypes, InHand, Stage, GoTo, ServeRead, IsImage, Referenced,
                 runVars, adminVars, File
  <2>2. InHand'
    <3>1. PICK s \in {"touch", "done"} : GoTo(v, s) /\ (s = "touch" => at' = at)
      BY <1>10 DEF ServeRead
    <3>2. v \notin Run /\ at[v] # None /\ UNCHANGED runVars
      BY <1>10 DEF ServeRead, InHand
    <3>3. at' = at \/ at' = [at EXCEPT ![v] = None]
      BY <1>10 DEF ServeRead
    <3> QED
      BY <3>1, <3>2, <3>3 DEF ArtTypes, InHand, GoTo, runVars
  <2> QED
    BY <2>1, <2>2
<1>11. ASSUME NEW v \in View, ViewTouch(v)
       PROVE  ArtTypes' /\ InHand'
  <2>1. ArtTypes'
    BY <1>11 DEF ArtTypes, InHand, Stage, GoTo, ViewTouch, Touched, Referenced,
                 runVars, viewVars, adminVars, File
  <2>2. InHand'
    BY <1>11 DEF ArtTypes, InHand, GoTo, ViewTouch, runVars, viewVars, adminVars
  <2> QED
    BY <2>1, <2>2
<1>12. ASSUME NEW s \in Sweeper, Sweep(s)
       PROVE  ArtTypes' /\ InHand'
  <2>1. ArtTypes'
    BY <1>12 DEF ArtTypes, InHand, Stage, GoTo, Sweep, BeginSweep, ScanDir, EndSweep,
                 runVars, viewVars, adminVars, Sweeper
  <2>2. InHand'
    BY <1>12 DEF ArtTypes, InHand, GoTo, Sweep, BeginSweep, ScanDir, EndSweep,
                 runVars, viewVars, adminVars, Sweeper
  <2> QED
    BY <2>1, <2>2
<1>13. ASSUME NEW a \in Admin, SaveOrigin(a)
       PROVE  ArtTypes' /\ InHand'
  <2>1. ArtTypes'
    BY <1>13 DEF ArtTypes, InHand, Stage, GoTo, SaveOrigin, runVars, viewVars,
                 adminVars, Sweeper
  <2>2. InHand'
    BY <1>13 DEF ArtTypes, InHand, GoTo, SaveOrigin, runVars, viewVars, adminVars,
                 Sweeper
  <2> QED
    BY <2>1, <2>2
<1>14. ASSUME NEW a \in Admin, Purge(a)
       PROVE  ArtTypes' /\ InHand'
  <2>1. ArtTypes'
    BY <1>14 DEF ArtTypes, InHand, Stage, GoTo, Purge, runVars, viewVars, adminVars,
                 Sweeper
  <2>2. InHand'
    BY <1>14 DEF ArtTypes, InHand, GoTo, Purge, runVars, viewVars, adminVars, Sweeper
  <2> QED
    BY <2>1, <2>2
<1>15. ASSUME NEW c \in Cleanup, CleanupLook(c)
       PROVE  ArtTypes' /\ InHand'
  <2>1. ArtTypes'
    BY <1>15 DEF ArtTypes, InHand, Stage, GoTo, CleanupLook, runVars, viewVars,
                 adminVars, Sweeper
  <2>2. InHand'
    BY <1>15 DEF ArtTypes, InHand, GoTo, CleanupLook, runVars, viewVars, adminVars,
                 Sweeper
  <2> QED
    BY <2>1, <2>2
<1>16. ASSUME NEW c \in Cleanup, CleanupUnlink(c)
       PROVE  ArtTypes' /\ InHand'
  <2>1. ArtTypes'
    BY <1>16 DEF ArtTypes, InHand, Stage, GoTo, CleanupUnlink, runVars, viewVars,
                 adminVars, Sweeper
  <2>2. InHand'
    BY <1>16 DEF ArtTypes, InHand, GoTo, CleanupUnlink, runVars, viewVars, adminVars,
                 Sweeper
  <2> QED
    BY <2>1, <2>2
<1>17. CASE TickArt
  BY <1>17 DEF ArtTypes, InHand, TickArt, runVars, viewVars, adminVars
<1>18. CASE UNCHANGED artVars
  BY <1>18 DEF ArtTypes, InHand, artVars, runVars, viewVars, adminVars
<1> QED
  BY <1>0, <1>1, <1>2, <1>3, <1>4, <1>5, <1>6, <1>7, <1>8, <1>9,
     <1>10, <1>11, <1>12, <1>13, <1>14, <1>15, <1>16, <1>17, <1>18
  DEF ArtNext, Warm

\* Type correctness of the artwork cache, whatever runs, views and sweeps meet.
THEOREM ArtTypeCorrect == ArtSpec => []ArtTypeOK
<1>1. ArtInit => ArtTypeOK
  BY ArtTypeInit
<1>2. ArtTypeOK /\ [ArtNext]_artVars => ArtTypeOK'
  BY ArtTypeStep
<1> QED
  BY <1>1, <1>2, PTL DEF ArtSpec
----------------------------------------------------------------------------
(* What is served *)

\* What makes it so: the directory holds no part of a body, because a temporary
\* file is renamed only when all of it is written, and that is all that a view
\* can have read.
WholeFiles ==
    /\ \A k \in Key : file[k] # None => file[k].size \in Body \cup {"empty"}
    /\ \A r \in Run : stage[r] \in {"write", "resize", "publish"} => image[r].size \in Body

WholeInv == ArtTypeOK /\ WholeFiles /\ ServedIsWhole

LEMMA WholeStep == WholeInv /\ [ArtNext]_artVars => WholeInv'
<1> SUFFICES ASSUME ArtTypeOK, ArtTypes, InHand, WholeFiles, ServedIsWhole,
                    [ArtNext]_artVars
             PROVE  WholeFiles' /\ ServedIsWhole'
  BY ArtTypeStep DEF WholeInv, ArtTypeOK
<1> USE ArtAssumption
<1>1. ASSUME NEW r \in Run, FetchArt(r)
      PROVE  WholeFiles' /\ ServedIsWhole'
  BY <1>1 DEF FetchArt, RequestArt, NextEntry, GoTo, viewVars, adminVars, ArtTypes, WholeFiles,
              ServedIsWhole
<1>2. ASSUME NEW r \in Run, Write(r)
      PROVE  WholeFiles' /\ ServedIsWhole'
  BY <1>2 DEF Write, NextEntry, GoTo, viewVars, adminVars, ArtTypes, InHand, File,
              WholeFiles, ServedIsWhole
<1>3. ASSUME NEW r \in Run, Resize(r)
      PROVE  WholeFiles' /\ ServedIsWhole'
  BY <1>3 DEF Resize, NextEntry, GoTo, runVars, viewVars, adminVars, ArtTypes, InHand, File,
              WholeFiles, ServedIsWhole
<1>4. ASSUME NEW r \in Run, Publish(r)
      PROVE  WholeFiles' /\ ServedIsWhole'
  BY <1>4 DEF Publish, NextEntry, GoTo, viewVars, adminVars, ArtTypes, InHand,
              WholeFiles, ServedIsWhole
<1>5. ASSUME NEW r \in Run, BeginRun(r) \/ WarmLook(r) \/ WarmTouch(r) \/ CrashWarming(r)
      PROVE  WholeFiles' /\ ServedIsWhole'
  BY <1>5 DEF BeginRun, WarmLook, WarmTouch, CrashWarming, NextEntry, GoTo, runVars, viewVars,
              adminVars,
              Touched, ArtTypes, InHand, File, WholeFiles, ServedIsWhole
<1>6. ASSUME NEW v \in View, RenderLook(v) \/ ServeLook(v) \/ ServeRead(v) \/ ViewTouch(v)
      PROVE  WholeFiles' /\ ServedIsWhole'
  BY <1>6 DEF RenderLook, ServeLook, ServeRead, ViewTouch, IsImage, GoTo, runVars,
              viewVars, adminVars,
              Touched, ArtTypes, InHand, File, WholeFiles, ServedIsWhole
<1>7. ASSUME NEW s \in Sweeper, Sweep(s)
      PROVE  WholeFiles' /\ ServedIsWhole'
  BY <1>7 DEF Sweep, BeginSweep, ScanDir, EndSweep, GoTo, runVars, viewVars,
              adminVars, ArtTypes,
              WholeFiles, ServedIsWhole
<1>8. ASSUME NEW a \in Admin, SaveOrigin(a) \/ Purge(a)
      PROVE  WholeFiles' /\ ServedIsWhole'
  BY <1>8 DEF SaveOrigin, Purge, GoTo, runVars, viewVars, adminVars, Sweeper,
              ArtTypes, WholeFiles,
              ServedIsWhole
<1>9. ASSUME NEW c \in Cleanup, CleanupLook(c) \/ CleanupUnlink(c)
       PROVE  WholeFiles' /\ ServedIsWhole'
  BY <1>9 DEF CleanupLook, CleanupUnlink, GoTo, runVars, viewVars, adminVars,
              Sweeper, ArtTypes,
               WholeFiles, ServedIsWhole
<1>10. CASE TickArt \/ UNCHANGED artVars
  BY <1>10 DEF TickArt, artVars, runVars, viewVars, adminVars, WholeFiles, ServedIsWhole
<1> QED
  BY <1>1, <1>2, <1>3, <1>4, <1>5,
     <1>6, <1>7, <1>8, <1>9, <1>10
  DEF ArtNext, Warm

\* What is served is all of a body that a run had fetched.
THEOREM ArtServedIsWhole == ArtSpec => []ServedIsWhole
<1>1. ArtInit => WholeInv
  BY ArtTypeInit, ArtAssumption DEF ArtInit, WholeInv, WholeFiles, ServedIsWhole
<1>2. WholeInv /\ [ArtNext]_artVars => WholeInv'
  BY WholeStep
<1>3. WholeInv => ServedIsWhole
  BY DEF WholeInv
<1> QED
  BY <1>1, <1>2, <1>3, PTL DEF ArtSpec

----------------------------------------------------------------------------
(* The times of files *)

\* What makes them current: an image is renamed in the hour it was written, and
\* while an artwork request reads a file it found young, only younger ones take
\* its place.
Timely ==
    /\ \A r \in Run : stage[r] \in {"resize", "publish"} => image[r].mtime = clock
    /\ \A v \in View : stage[v] = "read" /\ ~stale[v] /\ file[at[v]] # None
                        => clock - file[at[v]].mtime <= HOUR

FreshInv == ArtTypeOK /\ Timely /\ ReferencesKeepFresh

\* A file that is not old when it is referred to need not be touched.
LEMMA ReferencedYoung ==
    ASSUME ArtTypes, ReferencesKeepFresh, NEW x \in Key, file[x] # None,
           clock - file[x].mtime <= HOUR, Referenced(x), UNCHANGED file
    PROVE  ReferencesKeepFresh'
<1> SUFFICES ASSUME NEW k \in Key, file[k] # None
             PROVE  file[k].mtime + HOUR >= referenced'[k]
  BY DEF ReferencesKeepFresh
<1>1. file[k].mtime \in 0..MaxTime
  BY DEF ArtTypes, File
<1>2. CASE k = x
  BY <1>1, <1>2, ArtAssumption DEF Referenced, ArtTypes
<1>3. CASE k # x
  BY <1>3 DEF Referenced, ReferencesKeepFresh, ArtTypes
<1> QED
  BY <1>2, <1>3

LEMMA FreshStep == FreshInv /\ [ArtNext]_artVars => FreshInv'
<1> SUFFICES ASSUME ArtTypeOK, ArtTypes, InHand, Timely, ReferencesKeepFresh,
                    [ArtNext]_artVars, ArtTypes'
             PROVE  Timely' /\ ReferencesKeepFresh'
  BY ArtTypeStep DEF FreshInv, ArtTypeOK
<1> USE ArtAssumption
<1>1. ASSUME NEW r \in Run, WarmLook(r)
      PROVE  Timely' /\ ReferencesKeepFresh'
  <2>1. Timely'
    BY <1>1 DEF Timely, ArtTypes, InHand, GoTo, WarmLook, NextEntry, Referenced, Old,
                runVars, viewVars, adminVars
  <2>2. ReferencesKeepFresh'
    <3>1. CASE UNCHANGED referenced
      BY <1>1, <3>1 DEF WarmLook, ReferencesKeepFresh
    <3>2. CASE ~UNCHANGED referenced
      <4>1. PICK k \in Key : file[k] # None /\ ~Old(k, HOUR) /\ Referenced(k)
        BY <1>1, <3>2 DEF WarmLook
      <4>2. clock - file[k].mtime <= HOUR
        BY <4>1 DEF Old, ArtTypes, File
      <4> QED
        BY <1>1, <4>1, <4>2, ReferencedYoung DEF WarmLook
    <3> QED
      BY <3>1, <3>2
  <2> QED
    BY <2>1, <2>2
<1>0. ASSUME NEW r \in Run, BeginRun(r)
      PROVE  Timely' /\ ReferencesKeepFresh'
  <2>1. Timely'
    BY <1>0 DEF Timely, ArtTypes, InHand, GoTo, BeginRun, viewVars, adminVars
  <2>2. ReferencesKeepFresh'
    BY <1>0 DEF ReferencesKeepFresh, BeginRun
  <2> QED
    BY <2>1, <2>2
<1>2. ASSUME NEW r \in Run, WarmTouch(r)
      PROVE  Timely' /\ ReferencesKeepFresh'
  <2>1. Timely'
    BY <1>2 DEF Timely, ArtTypes, InHand, GoTo, WarmTouch, Touched, NextEntry,
                Referenced, viewVars, adminVars, File
  <2>2. ReferencesKeepFresh'
    BY <1>2 DEF ReferencesKeepFresh, Timely, ArtTypes, InHand, GoTo, WarmTouch,
                Touched, NextEntry, Referenced, viewVars, adminVars, File
  <2> QED
    BY <2>1, <2>2
<1>3. ASSUME NEW r \in Run, FetchArt(r)
      PROVE  Timely' /\ ReferencesKeepFresh'
  <2>1. Timely'
    BY <1>3 DEF Timely, ArtTypes, InHand, GoTo, FetchArt, RequestArt, NextEntry, viewVars, adminVars
  <2>2. ReferencesKeepFresh'
    BY <1>3 DEF ReferencesKeepFresh, Timely, ArtTypes, InHand, GoTo, FetchArt,
                NextEntry, viewVars, adminVars
  <2> QED
    BY <2>1, <2>2
<1>4. ASSUME NEW r \in Run, Write(r)
      PROVE  Timely' /\ ReferencesKeepFresh'
  <2>1. Timely'
    BY <1>4 DEF Timely, ArtTypes, InHand, GoTo, Write, NextEntry, viewVars,
                adminVars, File
  <2>2. ReferencesKeepFresh'
    BY <1>4 DEF ReferencesKeepFresh, Timely, ArtTypes, InHand, GoTo, Write,
                NextEntry, viewVars, adminVars, File
  <2> QED
    BY <2>1, <2>2
<1>5. ASSUME NEW r \in Run, Resize(r)
      PROVE  Timely' /\ ReferencesKeepFresh'
  <2>1. Timely'
    BY <1>5 DEF Timely, ArtTypes, InHand, GoTo, Resize, NextEntry, runVars, viewVars,
                adminVars, File
  <2>2. ReferencesKeepFresh'
    BY <1>5 DEF ReferencesKeepFresh, Timely, ArtTypes, InHand, GoTo, Resize,
                NextEntry, runVars, viewVars, adminVars, File
  <2> QED
    BY <2>1, <2>2
<1>6. ASSUME NEW r \in Run, Publish(r)
      PROVE  Timely' /\ ReferencesKeepFresh'
  <2>1. Timely'
    BY <1>6 DEF Timely, ArtTypes, InHand, GoTo, Publish, NextEntry, viewVars,
                adminVars, File
  <2>2. ReferencesKeepFresh'
    BY <1>6 DEF ReferencesKeepFresh, Timely, ArtTypes, InHand, GoTo, Publish,
                NextEntry, viewVars, adminVars, File
  <2> QED
    BY <2>1, <2>2
<1>7. ASSUME NEW r \in Run, CrashWarming(r)
      PROVE  Timely' /\ ReferencesKeepFresh'
  <2>1. Timely'
    BY <1>7 DEF Timely, ArtTypes, InHand, GoTo, CrashWarming, viewVars, adminVars
  <2>2. ReferencesKeepFresh'
    BY <1>7 DEF ReferencesKeepFresh, Timely, ArtTypes, InHand, GoTo, CrashWarming,
                viewVars, adminVars
  <2> QED
    BY <2>1, <2>2
<1>8. ASSUME NEW v \in View, RenderLook(v)
      PROVE  Timely' /\ ReferencesKeepFresh'
  <2>1. Timely'
    BY <1>8 DEF Timely, ArtTypes, InHand, GoTo, RenderLook, Referenced, Old, runVars,
                viewVars, adminVars
  <2>2. ReferencesKeepFresh'
    <3>1. CASE UNCHANGED referenced
      BY <1>8, <3>1 DEF RenderLook, ReferencesKeepFresh
    <3>2. CASE ~UNCHANGED referenced
      <4>1. PICK k \in Key : file[k] # None /\ ~Old(k, HOUR) /\ Referenced(k)
        BY <1>8, <3>2 DEF RenderLook
      <4>2. clock - file[k].mtime <= HOUR
        BY <4>1 DEF Old, ArtTypes, File
      <4> QED
        BY <1>8, <4>1, <4>2, ReferencedYoung DEF RenderLook
    <3> QED
      BY <3>1, <3>2
  <2> QED
    BY <2>1, <2>2
<1>9. ASSUME NEW v \in View, ServeLook(v)
       PROVE  Timely' /\ ReferencesKeepFresh'
  <2>1. Timely'
    <3>1. PICK k \in Key : /\ file[k] # None
                          /\ at' = [at EXCEPT ![v] = k]
                          /\ stale' = [stale EXCEPT ![v] = Old(k, HOUR)]
      BY <1>9 DEF ServeLook
    <3>2. UNCHANGED <<clock, file, image>> /\ GoTo(v, "read")
      BY <1>9 DEF ServeLook, runVars, adminVars
    <3>3. \A r \in Run : stage'[r] \in {"resize", "publish"} => image'[r].mtime = clock'
      BY <3>2 DEF Timely, GoTo, ArtTypes
    <3>4. ASSUME NEW w \in View, stage'[w] = "read", ~stale'[w], file[at'[w]] # None
          PROVE  clock - file[at'[w]].mtime <= HOUR
      <4>1. CASE w # v
        BY <3>1, <3>2, <3>4, <4>1 DEF Timely, GoTo, ArtTypes
      <4>2. CASE w = v
        <5>1. at'[v] = k /\ ~Old(k, HOUR)
          BY <3>1, <3>4, <4>2 DEF ArtTypes
        <5> QED
          BY <3>1, <4>2, <5>1 DEF Old, ArtTypes, File
      <4> QED
        BY <4>1, <4>2
    <3> QED
      BY <3>2, <3>3, <3>4 DEF Timely
  <2>2. ReferencesKeepFresh'
    BY <1>9 DEF ReferencesKeepFresh, Timely, ArtTypes, InHand, GoTo, ServeLook,
                runVars, adminVars, Old
  <2> QED
    BY <2>1, <2>2
<1>10. ASSUME NEW v \in View, ServeRead(v)
       PROVE  Timely' /\ ReferencesKeepFresh'
  <2>1. Timely'
    BY <1>10 DEF Timely, ArtTypes, InHand, GoTo, ServeRead, IsImage, Referenced,
                 runVars, adminVars
  <2>2. ReferencesKeepFresh'
    <3>1. CASE UNCHANGED referenced
      BY <1>10, <3>1 DEF ServeRead, ReferencesKeepFresh
    <3>2. CASE ~UNCHANGED referenced
      <4>1. /\ stage[v] = "read"
            /\ ~stale[v]
            /\ file[at[v]] # None
            /\ Referenced(at[v])
        BY <1>10, <3>2 DEF ServeRead, IsImage
      <4>2. at[v] \in Key /\ clock - file[at[v]].mtime <= HOUR
        BY <4>1 DEF Timely, ArtTypes, InHand
      <4> QED
        BY <1>10, <4>1, <4>2, ReferencedYoung DEF ServeRead
    <3> QED
      BY <3>1, <3>2
  <2> QED
    BY <2>1, <2>2
<1>11. ASSUME NEW v \in View, ViewTouch(v)
       PROVE  Timely' /\ ReferencesKeepFresh'
  <2>1. Timely'
    BY <1>11 DEF Timely, ArtTypes, InHand, GoTo, ViewTouch, Touched, Referenced,
                 runVars, viewVars, adminVars, File
  <2>2. ReferencesKeepFresh'
    BY <1>11 DEF ReferencesKeepFresh, Timely, ArtTypes, InHand, GoTo, ViewTouch,
                 Touched, Referenced, runVars, viewVars, adminVars, File
  <2> QED
    BY <2>1, <2>2
<1>12. ASSUME NEW s \in Sweeper, Sweep(s)
       PROVE  Timely' /\ ReferencesKeepFresh'
  <2>1. Timely'
    BY <1>12 DEF Timely, ArtTypes, InHand, GoTo, Sweep, BeginSweep, ScanDir,
                 EndSweep, runVars, viewVars, adminVars, Sweeper
  <2>2. ReferencesKeepFresh'
    BY <1>12 DEF ReferencesKeepFresh, Timely, ArtTypes, InHand, GoTo, Sweep,
                 BeginSweep, ScanDir, EndSweep, runVars, viewVars, adminVars, Sweeper
  <2> QED
    BY <2>1, <2>2
<1>13. ASSUME NEW a \in Admin, SaveOrigin(a)
       PROVE  Timely' /\ ReferencesKeepFresh'
  <2>1. Timely'
    BY <1>13 DEF Timely, ArtTypes, InHand, GoTo, SaveOrigin, runVars, viewVars,
                 adminVars, Sweeper
  <2>2. ReferencesKeepFresh'
    BY <1>13 DEF ReferencesKeepFresh, Timely, ArtTypes, InHand, GoTo, SaveOrigin,
                 runVars, viewVars, adminVars, Sweeper
  <2> QED
    BY <2>1, <2>2
<1>14. ASSUME NEW a \in Admin, Purge(a)
       PROVE  Timely' /\ ReferencesKeepFresh'
  <2>1. Timely'
    BY <1>14 DEF Timely, ArtTypes, InHand, GoTo, Purge, runVars, viewVars, adminVars,
                 Sweeper
  <2>2. ReferencesKeepFresh'
    BY <1>14 DEF ReferencesKeepFresh, Timely, ArtTypes, InHand, GoTo, Purge, runVars,
                 viewVars, adminVars, Sweeper
  <2> QED
    BY <2>1, <2>2
<1>15. ASSUME NEW c \in Cleanup, CleanupLook(c)
       PROVE  Timely' /\ ReferencesKeepFresh'
  <2>1. Timely'
    BY <1>15 DEF Timely, ArtTypes, InHand, GoTo, CleanupLook, runVars, viewVars,
                 adminVars, Sweeper
  <2>2. ReferencesKeepFresh'
    BY <1>15 DEF ReferencesKeepFresh, Timely, ArtTypes, InHand, GoTo, CleanupLook,
                 runVars, viewVars, adminVars, Sweeper
  <2> QED
    BY <2>1, <2>2
<1>16. ASSUME NEW c \in Cleanup, CleanupUnlink(c)
       PROVE  Timely' /\ ReferencesKeepFresh'
  <2>1. Timely'
    BY <1>16 DEF Timely, ArtTypes, InHand, GoTo, CleanupUnlink, runVars, viewVars,
                 adminVars, Sweeper
  <2>2. ReferencesKeepFresh'
    BY <1>16 DEF ReferencesKeepFresh, Timely, ArtTypes, InHand, GoTo, CleanupUnlink,
                 runVars, viewVars, adminVars, Sweeper
  <2> QED
    BY <2>1, <2>2
<1>17. CASE TickArt
  BY <1>17 DEF TickArt, Timely, ReferencesKeepFresh, ArtTypes, runVars, viewVars,
               adminVars
<1>18. CASE UNCHANGED artVars
  BY <1>18 DEF artVars, runVars, viewVars, adminVars, Timely, ReferencesKeepFresh
<1> QED
  BY <1>0, <1>1, <1>2, <1>3, <1>4, <1>5, <1>6, <1>7, <1>8, <1>9,
     <1>10, <1>11, <1>12, <1>13, <1>14, <1>15, <1>16, <1>17, <1>18
  DEF ArtNext, Warm

\* A file's time is at most an hour behind the last reference to it.
THEOREM ArtReferencesKeepFresh == ArtSpec => []ReferencesKeepFresh
<1>1. ArtInit => FreshInv
  BY ArtTypeInit, ArtAssumption DEF ArtInit, FreshInv, Timely, ReferencesKeepFresh
<1>2. FreshInv /\ [ArtNext]_artVars => FreshInv'
  BY FreshStep
<1>3. FreshInv => ReferencesKeepFresh
  BY DEF FreshInv
<1> QED
  BY <1>1, <1>2, <1>3, PTL DEF ArtSpec

----------------------------------------------------------------------------
(* Artwork of another server *)

\* Some purge under way has yet to come to the file.
PurgeToCome(k) ==
    \E a \in Admin : stage[a] = "scan" \/ (stage[a] = "sweep" /\ k \in listing[a])

\* What makes it so: any other file of another server has a purge coming.
Accounted ==
    \A k \in Key : file[k] # None /\ file[k].from \notin {None, origin} /\ k \notin late
                     => PurgeToCome(k)

LateInv == ArtTypeOK /\ Accounted

LEMMA LateStep == LateInv /\ [ArtNext]_artVars => LateInv'
<1> SUFFICES ASSUME ArtTypeOK, ArtTypes, InHand, Accounted, [ArtNext]_artVars, ArtTypes'
             PROVE  Accounted'
  BY ArtTypeStep DEF LateInv, ArtTypeOK
<1> USE ArtAssumption
<1>1. ASSUME NEW r \in Run, WarmLook(r)
      PROVE  Accounted'
  BY <1>1 DEF Accounted, PurgeToCome, ArtTypes, InHand, GoTo, Sweeper, WarmLook,
              adminVars, viewVars, NextEntry, runVars
<1>0. ASSUME NEW r \in Run, BeginRun(r)
      PROVE  Accounted'
  BY <1>0 DEF Accounted, PurgeToCome, ArtTypes, InHand, GoTo, Sweeper, BeginRun,
              adminVars, viewVars
<1>2. ASSUME NEW r \in Run, WarmTouch(r)
      PROVE  Accounted'
  BY <1>2 DEF Accounted, PurgeToCome, ArtTypes, InHand, GoTo, Sweeper, WarmTouch,
              adminVars, viewVars, Touched, NextEntry, File
<1>3. ASSUME NEW r \in Run, FetchArt(r)
      PROVE  Accounted'
  BY <1>3 DEF Accounted, PurgeToCome, ArtTypes, InHand, GoTo, Sweeper, FetchArt, RequestArt,
              adminVars, viewVars, NextEntry
<1>4. ASSUME NEW r \in Run, Write(r)
      PROVE  Accounted'
  BY <1>4 DEF Accounted, PurgeToCome, ArtTypes, InHand, GoTo, Sweeper, Write,
              adminVars, viewVars, NextEntry, File
<1>5. ASSUME NEW r \in Run, Resize(r)
      PROVE  Accounted'
  BY <1>5 DEF Accounted, PurgeToCome, ArtTypes, InHand, GoTo, Sweeper, Resize,
              adminVars, viewVars, NextEntry, runVars
<1>6. ASSUME NEW r \in Run, Publish(r)
      PROVE  Accounted'
  BY <1>6 DEF Accounted, PurgeToCome, ArtTypes, InHand, GoTo, Sweeper, Publish,
              adminVars, viewVars, NextEntry
<1>7. ASSUME NEW r \in Run, CrashWarming(r)
      PROVE  Accounted'
  BY <1>7 DEF Accounted, PurgeToCome, ArtTypes, InHand, GoTo, Sweeper, CrashWarming,
              adminVars, viewVars
<1>8. ASSUME NEW v \in View, RenderLook(v)
      PROVE  Accounted'
  BY <1>8 DEF Accounted, PurgeToCome, ArtTypes, InHand, GoTo, Sweeper, RenderLook,
              adminVars, viewVars, runVars
<1>9. ASSUME NEW v \in View, ServeLook(v)
      PROVE  Accounted'
  BY <1>9 DEF Accounted, PurgeToCome, ArtTypes, InHand, GoTo, Sweeper, ServeLook,
              adminVars, viewVars, runVars
<1>10. ASSUME NEW v \in View, ServeRead(v)
       PROVE  Accounted'
  BY <1>10 DEF Accounted, PurgeToCome, ArtTypes, InHand, GoTo, Sweeper, ServeRead,
               adminVars, viewVars, runVars
<1>11. ASSUME NEW v \in View, ViewTouch(v)
       PROVE  Accounted'
  BY <1>11 DEF Accounted, PurgeToCome, ArtTypes, InHand, GoTo, Sweeper, ViewTouch,
               adminVars, viewVars, Touched, runVars, File
<1>12. ASSUME NEW s \in Sweeper, Sweep(s)
       PROVE  Accounted'
  BY <1>12 DEF Accounted, PurgeToCome, ArtTypes, InHand, GoTo, Sweeper, Sweep,
               adminVars, viewVars, BeginSweep, ScanDir, EndSweep, runVars, Sweeper
<1>13. ASSUME NEW a \in Admin, SaveOrigin(a)
       PROVE  Accounted'
  BY <1>13 DEF Accounted, PurgeToCome, ArtTypes, InHand, GoTo, Sweeper, SaveOrigin,
               adminVars, viewVars, runVars, Sweeper
<1>14. ASSUME NEW a \in Admin, Purge(a)
       PROVE  Accounted'
  BY <1>14 DEF Accounted, PurgeToCome, ArtTypes, InHand, GoTo, Sweeper, Purge,
               adminVars, viewVars, runVars, Sweeper
<1>15. ASSUME NEW c \in Cleanup, CleanupLook(c)
       PROVE  Accounted'
  BY <1>15 DEF Accounted, PurgeToCome, ArtTypes, InHand, GoTo, Sweeper, CleanupLook,
               adminVars, viewVars, runVars, Sweeper
<1>16. ASSUME NEW c \in Cleanup, CleanupUnlink(c)
       PROVE  Accounted'
  BY <1>16 DEF Accounted, PurgeToCome, ArtTypes, InHand, GoTo, Sweeper,
               CleanupUnlink, adminVars, viewVars, runVars, Sweeper
<1>17. CASE TickArt \/ UNCHANGED artVars
  BY <1>17 DEF TickArt, artVars, runVars, viewVars, adminVars, Accounted, PurgeToCome
<1> QED
  BY <1>0, <1>1, <1>2, <1>3, <1>4, <1>5, <1>6, <1>7, <1>8, <1>9,
     <1>10, <1>11, <1>12, <1>13, <1>14, <1>15, <1>16, <1>17
  DEF ArtNext, Warm

\* Once the purges are over, artwork of another server was stored after the
\* origin changed.
THEOREM ArtOldFromLateRuns == ArtSpec => []OldArtFromLateRuns
<1>1. ArtInit => LateInv
  BY ArtTypeInit, ArtAssumption DEF ArtInit, LateInv, Accounted
<1>2. LateInv /\ [ArtNext]_artVars => LateInv'
  BY LateStep
<1>3. LateInv => OldArtFromLateRuns
  BY DEF LateInv, Accounted, PurgeToCome, OldArtFromLateRuns
<1> QED
  BY <1>1, <1>2, <1>3, PTL DEF ArtSpec
=============================================================================
