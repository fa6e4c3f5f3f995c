---------------------------- MODULE ArtworkCache ----------------------------
(***************************************************************************)
(* The artwork cache: files in the uploads directory, one per key, that    *)
(* refresh runs store (warm_artwork), page views link to and serve, the    *)
(* daily cleanup ages out and administrators purge.  No lock is common to  *)
(* all of them; what orders them is the file system, one call at a time.   *)
(*                                                                         *)
(* Within a request PHP remembers the last stat of a path, so file_exists  *)
(* and the filemtime that follows it are one look at the file.             *)
(***************************************************************************)
EXTENDS Integers, FiniteSets

CONSTANTS
    Key,        \* make_key(): the names of the files
    Run, View,  \* refresh runs, page views and artwork requests
    Cleanup,    \* runs of the daily cleanup hook
    Admin,      \* "Clear cached snapshot" or settings saved
    Origin,
    HOUR,       \* HOUR_IN_SECONDS
    MAX_AGE,    \* MAX_AGE_SECONDS
    MaxEntries, \* entries a run warms
    MaxTime,
    None

Sweeper == Cleanup \cup Admin

\* What get_art brings: an image within MAX_DIMENSION, a larger one, or, of
\* whatever is longer, the first ART_SIZE_LIMIT bytes.
Body == {"fit", "large", "cut"}

\* What a file holds: no byte, part of a body, or a body; where it is from.
File == [size : {"empty", "partial"} \cup Body,
         from : Origin \cup {None}, mtime : 0..MaxTime]

\* Of a run, a view and a sweep.
Stage == {"start", "warm", "touch", "fetch", "write", "resize", "publish", "crashed"}
         \cup {"start", "read", "touch", "done"} \cup {"start", "scan", "sweep", "unlink", "done"}

ASSUME ArtAssumption ==
    /\ {HOUR, MAX_AGE, MaxEntries, MaxTime} \subseteq Nat
    /\ HOUR <= MAX_AGE
    /\ Run \cap View = {}
    /\ (Run \cup View) \cap Sweeper = {}
    /\ Cleanup \cap Admin = {}
    /\ None \notin File \cup Key \cup Run \cup Origin

VARIABLES
    clock,
    origin,     \* jba_settings['origin']
    server,     \* the origin in the copy of the settings each run's request has
    file,       \* the cache directory
    image,      \* what each run is storing: the body, then its temporary file
    left,       \* entries each run has left
    stage,      \* where each request is
    at,         \* the key each request is about
    stale,      \* the stat of serve() was older than an hour
    listing,    \* what a sweep has left of scandir()
    response,   \* what an artwork request was answered with
    referenced, \* history: when each key was last linked to or served
    late        \* history: files stored since the origin last changed

runVars == <<server, image, left>>
viewVars == <<stale, response>>
adminVars == <<origin, listing, late>>
artVars == <<clock, file, stage, at, referenced, runVars, viewVars, adminVars>>

ArtInit ==
    /\ clock = 0
    /\ origin \in Origin
    /\ server = [r \in Run |-> None]
    /\ file = [k \in Key |-> None]
    /\ image = [r \in Run |-> None]
    /\ left = [r \in Run |-> MaxEntries]
    /\ stage = [q \in Run \cup View \cup Sweeper |-> "start"]
    /\ at = [q \in Run \cup View \cup Cleanup |-> None]
    /\ stale = [v \in View |-> FALSE]
    /\ listing = [s \in Sweeper |-> {}]
    /\ response = [v \in View |-> None]
    /\ referenced = [k \in Key |-> 0]
    /\ late = {}

GoTo(q, s) == stage' = [stage EXCEPT ![q] = s]

Old(k, age) == clock - file[k].mtime > age

\* touch() makes a new, empty file when there is none.
Touched(k) ==
    file' = [file EXCEPT ![k] =
               IF @ = None THEN [size |-> "empty", from |-> None, mtime |-> clock]
                           ELSE [@ EXCEPT !.mtime = clock]]

\* sniff_mime(): the bytes begin as those of an image.
IsImage(k) == file[k] # None /\ file[k].size # "empty"

Referenced(k) == referenced' = [referenced EXCEPT ![k] = clock]

----------------------------------------------------------------------------
(* A run: warm_artwork(), one entry after the other *)

\* The settings are read once, when the request of the run starts.
BeginRun(r) ==
    /\ stage[r] = "start"
    /\ server' = [server EXCEPT ![r] = origin]
    /\ GoTo(r, "warm")
    /\ UNCHANGED <<clock, file, image, left, at, referenced, viewVars, adminVars>>

\* The entry is done.  A temporary file that a failed write or rename leaves
\* stays on the disk, where nothing reads or removes it.
NextEntry(r) ==
    /\ GoTo(r, "warm")
    /\ left' = [left EXCEPT ![r] = @ - 1]
    /\ at' = [at EXCEPT ![r] = None]
    /\ image' = [image EXCEPT ![r] = None]
    /\ UNCHANGED server

\* Slip: get_url() of a run does not count as a reference.
WarmLookOnly(r) ==
    /\ stage[r] = "warm"
    /\ left[r] > 0
    /\ \E k \in Key :
         \/ /\ file[k] = None
            /\ at' = [at EXCEPT ![r] = k]
            /\ GoTo(r, "fetch")
            /\ UNCHANGED <<runVars, referenced>>
         \/ /\ file[k] # None
            /\ Referenced(k)
            /\ NextEntry(r)
    /\ UNCHANGED <<clock, file, viewVars, adminVars>>

\* get_url(): a miss is fetched; a hit is touched, once an hour, and skipped.
WarmLook(r) ==
    /\ stage[r] = "warm"
    /\ left[r] > 0
    /\ \E k \in Key :
         \/ /\ file[k] = None
            /\ at' = [at EXCEPT ![r] = k]
            /\ GoTo(r, "fetch")
            /\ UNCHANGED <<runVars, referenced>>
         \/ /\ file[k] # None
            /\ Old(k, HOUR)
            /\ at' = [at EXCEPT ![r] = k]
            /\ GoTo(r, "touch")
            /\ UNCHANGED <<runVars, referenced>>
         \/ /\ file[k] # None
            /\ ~Old(k, HOUR)
            /\ Referenced(k)
            /\ NextEntry(r)
    /\ UNCHANGED <<clock, file, viewVars, adminVars>>

WarmTouch(r) ==
    /\ stage[r] = "touch"
    /\ Touched(at[r])
    /\ Referenced(at[r])
    /\ NextEntry(r)
    /\ UNCHANGED <<clock, viewVars, adminVars>>

\* request_art(), to the server the request's settings name; its transport
\* keeps the first ART_SIZE_LIMIT bytes of what is longer.
RequestArt(r) == [size : Body, from : {server[r]}, mtime : {clock}]

\* Slip: what arrives is written under the file's own name.
FetchArtInPlace(r) ==
    /\ stage[r] = "fetch"
    /\ \E body \in RequestArt(r) :
         /\ image' = [image EXCEPT ![r] = body]
         /\ file' = [file EXCEPT ![at[r]] = [body EXCEPT !.size = "partial"]]
    /\ GoTo(r, "write")
    /\ UNCHANGED <<clock, server, left, at, referenced, viewVars, adminVars>>

\* The request and the checks of store(): an image that can be stored, or
\* nothing of use.  A cut body is just not longer than MAX_FETCH_BYTES.
FetchArt(r) ==
    /\ stage[r] = "fetch"
    /\ \/ NextEntry(r)
       \/ /\ \E body \in RequestArt(r) : image' = [image EXCEPT ![r] = body]
          /\ GoTo(r, "write")
          /\ UNCHANGED <<server, left, at>>
    /\ UNCHANGED <<clock, file, referenced, viewVars, adminVars>>

\* file_put_contents(): all of the body in a temporary file of the run's own.
\* What is cut may be of any dimension.
Write(r) ==
    /\ stage[r] = "write"
    /\ \/ NextEntry(r)
       \/ /\ image' = [image EXCEPT ![r].mtime = clock]
          /\ \/ image[r].size # "fit" /\ GoTo(r, "resize")
             \/ image[r].size # "large" /\ GoTo(r, "publish")
          /\ UNCHANGED <<server, left, at>>
    /\ UNCHANGED <<clock, file, referenced, viewVars, adminVars>>

\* Slip: a failed resize unlinks the temporary file and goes on.
ResizeGoesOn(r) ==
    /\ stage[r] = "resize"
    /\ image' \in {image, [image EXCEPT ![r] = None]}
    /\ GoTo(r, "publish")
    /\ UNCHANGED <<clock, server, file, left, at, referenced, viewVars, adminVars>>

\* resize_in_place() fails, and the temporary file is unlinked, or the smaller
\* image is saved: beside the temporary file, as the editor gives what it saves
\* the extension of the image's type, and that of <key>.tmp-<password> is none.
\* The temporary file is what it was.  Nothing reads <key>.jpg or <key>.png.
Resize(r) ==
    /\ stage[r] = "resize"
    /\ \/ NextEntry(r)
       \/ /\ GoTo(r, "publish")
          /\ UNCHANGED <<runVars, at>>
    /\ UNCHANGED <<clock, file, referenced, viewVars, adminVars>>

\* rename(), which keeps the time of the last write, or fails.
Publish(r) ==
    /\ stage[r] = "publish"
    /\ \/ UNCHANGED <<file, late>>
       \/ /\ file' = [file EXCEPT ![at[r]] = image[r]]
          /\ late' = late \cup {at[r]}
    /\ NextEntry(r)
    /\ UNCHANGED <<clock, origin, listing, referenced, viewVars>>

CrashWarming(r) ==
    /\ stage[r] # "crashed"
    /\ GoTo(r, "crashed")
    /\ at' = [at EXCEPT ![r] = None]
    /\ image' = [image EXCEPT ![r] = None]
    /\ left' = [left EXCEPT ![r] = 0]
    /\ UNCHANGED <<clock, server, file, referenced, viewVars, adminVars>>

Warm(r) ==
    \/ BeginRun(r)
    \/ WarmLook(r)
    \/ WarmTouch(r)
    \/ FetchArt(r)
    \/ Write(r)
    \/ Resize(r)
    \/ Publish(r)
    \/ CrashWarming(r)

----------------------------------------------------------------------------
(* Views *)

\* The renderer's get_url(): a miss shows no artwork.
RenderLook(v) ==
    /\ stage[v] = "start"
    /\ \E k \in Key :
         \/ /\ file[k] = None
            /\ GoTo(v, "done")
            /\ UNCHANGED <<at, referenced>>
         \/ /\ file[k] # None
            /\ Old(k, HOUR)
            /\ at' = [at EXCEPT ![v] = k]
            /\ GoTo(v, "touch")
            /\ UNCHANGED referenced
         \/ /\ file[k] # None
            /\ ~Old(k, HOUR)
            /\ Referenced(k)
            /\ GoTo(v, "done")
            /\ UNCHANGED at
    /\ UNCHANGED <<clock, file, runVars, viewVars, adminVars>>

\* serve(): the file exists ...
ServeLook(v) ==
    /\ stage[v] = "start"
    /\ \E k \in Key :
         /\ file[k] # None
         /\ at' = [at EXCEPT ![v] = k]
         /\ stale' = [stale EXCEPT ![v] = Old(k, HOUR)]
    /\ GoTo(v, "read")
    /\ UNCHANGED <<clock, file, response, referenced, runVars, adminVars>>

\* ... and is read whole.  What does not begin as an image does is not found;
\* one that is gone by now reads as no bytes.
ServeRead(v) ==
    LET k == at[v]
    IN  /\ stage[v] = "read"
        /\ \/ /\ ~IsImage(k)
              /\ GoTo(v, "done")
              /\ at' = [at EXCEPT ![v] = None]
              /\ UNCHANGED <<response, referenced>>
           \/ /\ IsImage(k)
              /\ stale[v]
              /\ response' = [response EXCEPT ![v] = file[k].size]
              /\ GoTo(v, "touch")
              /\ UNCHANGED <<at, referenced>>
           \/ /\ IsImage(k)
              /\ ~stale[v]
              /\ response' = [response EXCEPT ![v] = file[k].size]
              /\ Referenced(k)
              /\ GoTo(v, "done")
              /\ at' = [at EXCEPT ![v] = None]
        /\ stale' = [stale EXCEPT ![v] = FALSE]
        /\ UNCHANGED <<clock, file, runVars, adminVars>>

ViewTouch(v) ==
    /\ stage[v] = "touch"
    /\ Touched(at[v])
    /\ Referenced(at[v])
    /\ at' = [at EXCEPT ![v] = None]
    /\ GoTo(v, "done")
    /\ UNCHANGED <<clock, runVars, viewVars, adminVars>>

----------------------------------------------------------------------------
(* Sweeps: for_each_cached_file(), which skips temporary files *)

\* The origin is stored, and the hook of the settings option purges.
SaveOrigin(a) ==
    /\ stage[a] = "start"
    /\ \E o \in Origin : origin' = o /\ o # origin
    /\ late' = {}
    /\ GoTo(a, "scan")
    /\ UNCHANGED <<clock, file, at, listing, referenced, runVars, viewVars>>

\* "Clear cached snapshot", or the daily hook.
BeginSweep(s) ==
    /\ stage[s] = "start"
    /\ GoTo(s, "scan")
    /\ UNCHANGED <<clock, file, at, referenced, runVars, viewVars, adminVars>>

ScanDir(s) ==
    /\ stage[s] = "scan"
    /\ listing' = [listing EXCEPT ![s] = {k \in Key : file[k] # None}]
    /\ GoTo(s, "sweep")
    /\ UNCHANGED <<clock, origin, file, at, referenced, late, runVars, viewVars>>

EndSweep(s) ==
    /\ stage[s] = "sweep"
    /\ listing[s] = {}
    /\ GoTo(s, "done")
    /\ UNCHANGED <<clock, file, at, referenced, runVars, viewVars, adminVars>>

\* Slip: the purge spares what the daily cleanup would.
PurgeAged(a) ==
    /\ stage[a] = "sweep"
    /\ \E k \in listing[a] :
         /\ file' = [file EXCEPT ![k] = IF @ # None /\ Old(k, MAX_AGE) THEN None ELSE @]
         /\ listing' = [listing EXCEPT ![a] = @ \ {k}]
    /\ UNCHANGED <<clock, origin, stage, at, referenced, late, runVars, viewVars>>

\* purge_all()
Purge(a) ==
    /\ stage[a] = "sweep"
    /\ \E k \in listing[a] :
         /\ file' = [file EXCEPT ![k] = None]
         /\ listing' = [listing EXCEPT ![a] = @ \ {k}]
    /\ UNCHANGED <<clock, origin, stage, at, referenced, late, runVars, viewVars>>

\* run_daily_cleanup(): filemtime() ...
CleanupLook(c) ==
    /\ stage[c] = "sweep"
    /\ \E k \in listing[c] :
         /\ listing' = [listing EXCEPT ![c] = @ \ {k}]
         /\ IF file[k] # None /\ Old(k, MAX_AGE)
              THEN at' = [at EXCEPT ![c] = k] /\ GoTo(c, "unlink")
              ELSE UNCHANGED <<at, stage>>
    /\ UNCHANGED <<clock, origin, file, referenced, late, runVars, viewVars>>

\* ... then unlink()
CleanupUnlink(c) ==
    /\ stage[c] = "unlink"
    /\ file' = [file EXCEPT ![at[c]] = None]
    /\ at' = [at EXCEPT ![c] = None]
    /\ GoTo(c, "sweep")
    /\ UNCHANGED <<clock, referenced, runVars, viewVars, adminVars>>

Sweep(s) == BeginSweep(s) \/ ScanDir(s) \/ EndSweep(s)

----------------------------------------------------------------------------

\* A unit of time is long: a sweep, a view, or a run's storing of one image
\* does not stretch over it.  A run's requests to Ampache may.
TickArt ==
    /\ clock < MaxTime
    /\ \A q \in Run \cup View \cup Sweeper :
         stage[q] \in {"warm", "fetch", "write", "crashed", "start", "done"}
    /\ clock' = clock + 1
    /\ UNCHANGED <<file, stage, at, referenced, runVars, viewVars, adminVars>>

ArtNext ==
    \/ \E r \in Run : Warm(r)
    \/ \E v \in View : RenderLook(v) \/ ServeLook(v) \/ ServeRead(v) \/ ViewTouch(v)
    \/ \E s \in Sweeper : Sweep(s)
    \/ \E a \in Admin : SaveOrigin(a) \/ Purge(a)
    \/ \E c \in Cleanup : CleanupLook(c) \/ CleanupUnlink(c)
    \/ TickArt

ArtSpec == ArtInit /\ [][ArtNext]_artVars

----------------------------------------------------------------------------
(* Properties *)

ArtTypes ==
    /\ clock \in 0..MaxTime
    /\ origin \in Origin
    /\ server \in [Run -> Origin \cup {None}]
    /\ file \in [Key -> File \cup {None}]
    /\ image \in [Run -> File \cup {None}]
    /\ left \in [Run -> 0..MaxEntries]
    /\ stage \in [Run \cup View \cup Sweeper -> Stage]
    /\ at \in [Run \cup View \cup Cleanup -> Key \cup {None}]
    /\ stale \in [View -> BOOLEAN]
    /\ listing \in [Sweeper -> SUBSET Key]
    /\ response \in [View -> Body \cup {"partial", None}]
    /\ referenced \in [Key -> 0..clock]
    /\ late \subseteq Key

\* Whoever is about to act on a file, or to store one, has it in hand.
InHand ==
    /\ \A q \in Run \cup View \cup Cleanup :
         stage[q] \in {"touch", "fetch", "write", "resize", "publish", "read", "unlink"}
             => at[q] # None
    /\ \A r \in Run :
         /\ stage[r] \notin {"start", "warm", "crashed"} => left[r] > 0
         /\ stage[r] \in {"write", "resize", "publish"} => image[r] # None

\* The type invariant: every variable has its type, and no request is about to
\* touch, store or unlink a file without having one in hand.
ArtTypeOK == ArtTypes /\ InHand

\* Whatever is served is all of a body that a run had fetched: never a file
\* that is being written or that touch() has made, although files are replaced,
\* unlinked and touched between the look at one and its reading.
ServedIsWhole ==
    \A v \in View : response[v] \in Body \cup {None}

\* Once the purges are over, whatever is of another server was stored after the
\* origin changed, by a run whose request had begun before and goes on asking
\* the server of its settings: purge_all() misses none of what the directory
\* held.  The key does not name the origin, so such a file is shown as the new
\* server's.
OldArtFromLateRuns ==
    (\A a \in Admin : stage[a] \in {"start", "done"}) =>
        \A k \in Key : file[k] # None /\ file[k].from \notin {None, origin}
                         => k \in late

\* A file's time is at most an hour behind the last page view, artwork request
\* or run that referred to it, although most references do not touch it and
\* files are replaced: the daily cleanup, which goes by that time, "deletes
\* files unreferenced for 30 days" (plan 02-architecture-api) and not others.
ReferencesKeepFresh ==
    \A k \in Key : file[k] # None => file[k].mtime + HOUR >= referenced[k]

\* get_url "Returns the local URL for already-cached artwork, or null on a
\* cache miss" (class-artwork-cache.php:52): what it finds is artwork.
CachedIsArtwork ==
    \A k \in Key : file[k] # None => IsImage(k)
=============================================================================
