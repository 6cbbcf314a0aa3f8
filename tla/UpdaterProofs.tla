----------------------------- MODULE UpdaterProofs -----------------------------
(* Theorems about module Updater, for every value of its constants.        *)
EXTENDS Updater, FiniteSetTheorems, TLAPS

USE UpdaterAssumption

(* The types, in three parts: what threads do, the disk, the counters.     *)
Pcs == Staging \cup Installing \cup {"gone", "launch", "tidy", "discard", "forget",
             "drop", "watch", "open", "flock", "compare", "unlink", "close", "done"}
Files == 0..(Cardinality(Workers) + 1)

ThreadsTyped ==
    /\ lock_file \in Files
    /\ thread \in [Workers -> [pc : Pcs, file : Files, locked : BOOLEAN, tries : 0..2]]
    /\ \A w \in Workers :
           thread[w].locked <=> Working(w) \/ thread[w].pc \in {"compare", "close"}

DiskTyped ==
    /\ plugin \in Paths /\ previous \in Paths
    /\ staging \in [folder : {"none", "private", "open"}, incoming : Paths, staged : Paths]

CountsTyped ==
    /\ loaded \in [Helpers -> 0..LastVersion] /\ running \in [Helpers -> 0..LastVersion]
    /\ offer \in [Helpers -> 0..LastVersion]
    /\ sessions \in 0..MaxSessions /\ crashes \in 0..MaxCrashes
    /\ failures \in 0..MaxFailures /\ cut \in BOOLEAN

LEMMA TypeParts == TypeOK <=> ThreadsTyped /\ DiskTyped /\ CountsTyped
<1> QED BY DEF TypeOK, ThreadsTyped, DiskTyped, CountsTyped, Pcs, Files

(* The places of a thread that works.                                      *)
Busy == Staging \cup Installing \cup {"unlink"}

(* The lock: two threads that have locked a file have locked different     *)
(* ones, only the file at the path lets a thread work, and a file that was *)
(* removed is not at the path again.                                       *)
Locks ==
    /\ \A w, o \in Workers :
           thread[w].locked /\ thread[o].locked /\ thread[w].file = thread[o].file => w = o
    /\ \A w \in Workers :
           /\ thread[w].pc \in Busy => thread[w].file = lock_file
           /\ thread[w].pc \in Busy \cup {"flock", "compare", "close"} => thread[w].file # 0
           /\ At(w, "close") => thread[w].file # lock_file

(* Which thread can be where.  The main thread stays until OBS has gone.   *)
Launching == {"launch", "tidy", "discard", "forget", "drop", "watch"}

Places ==
    \A h \in Helpers :
        /\ thread[Main(h)].pc \notin Staging \cup {"done"}
        /\ thread[Download(h)].pc \notin Installing \cup Launching
        /\ thread[Main(h)].pc \in {"gone", "launch"} => At(Download(h), "gone") /\ offer[h] = 0
        /\ loaded[h] # 0 => thread[Main(h)].pc \in Launching \cup {"gone"}

(* Nobody tidies during a swap.                                            *)
Apart ==
    \A w, o \in Workers : thread[w].pc \in Swapping => thread[o].pc \notin {"discard", "drop"}

HoldsWhole(path) == \E b \in path : b.whole

(* What the disk holds at each step of an install.                         *)
Swap ==
    /\ staging.folder = "none" => staging.staged = {} /\ staging.incoming = {}
    /\ PluginWhole
    /\ \A w \in Workers :
           /\ thread[w].pc \in {"verify", "clear_previous", "swap_out", "drop"} => plugin # {}
           /\ thread[w].pc \in {"swap_in", "roll_back"} => plugin = {} /\ HoldsWhole(previous)
           /\ At(w, "verify")
                  => \A b \in staging.staged : b.whole => b.version > VersionOf(plugin)
           /\ thread[w].pc \in {"clear_previous", "swap_out", "swap_in"}
                  => HoldsWhole(staging.staged)
           /\ thread[w].pc \in {"clear_previous", "swap_out"}
                  => VersionOf(staging.staged) > VersionOf(plugin)
           /\ At(w, "swap_in") => VersionOf(staging.staged) > VersionOf(previous)
           /\ thread[w].pc \in {"roll_back", "undo"} => failures > 0

(* The sessions and helpers are not newer than the plugin, or than what is *)
(* put back in its place.                                                  *)
OldEnough(path) ==
    \A h \in Helpers : VersionOf(path) >= loaded[h] /\ VersionOf(path) >= running[h]

Order ==
    /\ plugin # {} => OldEnough(plugin)
    /\ plugin # {} /\ previous # {} => VersionOf(plugin) > VersionOf(previous)
    /\ \A w \in Workers : thread[w].pc \in {"swap_in", "roll_back"} => OldEnough(previous)

(* Only a second failing rename leaves the plugin's path empty for good.   *)
Kept ==
    failures <= 1 =>
        /\ plugin = {} => HoldsWhole(previous)
        /\ \A w \in Workers : At(w, "undo") => plugin # {}

(* A newer update waits, and a helper that has not yet decided about it is *)
(* there: one that still watches its OBS, one that has opened the lock     *)
(* file of the moment, or one that is about to install.                    *)
Waits ==
    /\ staging.folder = "private"
    /\ \E b \in staging.staged, p \in plugin : b.whole /\ b.version > p.version

Looking == Launching \cup {"open", "recheck", "verify", "clear_previous", "swap_out"}

WillLook(h) ==
    \/ thread[Main(h)].pc \in Looking
    \/ thread[Main(h)].pc \in {"flock", "compare"} /\ thread[Main(h)].file = lock_file

(* Whoever decided about the update left none that waits.                  *)
Decided ==
    \A h \in Helpers :
        failures = 0 /\ thread[Main(h)].pc \in {"reject", "clean_up", "unlink"} => ~Waits

(* While nothing is cut short, a download has its OBS, and so its helper.  *)
Accompanied ==
    ~cut => \A h \in Helpers : thread[Download(h)].pc \notin {"gone", "done"} => loaded[h] # 0

Watched ==
    /\ Decided /\ Accompanied
    /\ ~cut /\ failures = 0 /\ Waits => \E h \in Helpers : WillLook(h)

-----------------------------------------------------------------------------
(* What the operators on paths and files give.                             *)
LEMMA PathForms ==
    /\ {} \in Paths
    /\ \A b \in Bundles : {b} \in Paths
    /\ \A p \in Paths : p = {} \/ \E b \in Bundles : p = {b}
<1> QED BY DEF Paths

LEMMA VersionOfBundle == VersionOf({}) = 0 /\ \A b : VersionOf({b}) = b.version
<1>1. ASSUME NEW b PROVE (CHOOSE c \in {b} : TRUE) = b
      OBVIOUS
<1> QED BY <1>1 DEF VersionOf

LEMMA VersionTyped == \A p \in Paths : VersionOf(p) \in 0..LastVersion
<1>1. \A b \in Bundles : b.version \in 0..LastVersion
      BY DEF Bundles
<1> QED BY <1>1, PathForms, VersionOfBundle

(* What is cut short leaves no whole bundle, and none of a higher version. *)
LEMMA DamagedPath ==
    ASSUME NEW p \in Paths, NEW d \in Damaged(p)
    PROVE  /\ d \in Paths /\ VersionOf(d) <= VersionOf(p)
           /\ \A b \in d : ~b.whole
           /\ p = {} => d = {}
<1>1. CASE p = {}
      <2>1. d = {}
            BY <1>1 DEF Damaged
      <2>2. VersionOf(d) = 0 /\ VersionOf(p) = 0
            BY <1>1, <2>1, VersionOfBundle
      <2> QED BY <1>1, <2>1, <2>2, PathForms
<1>2. CASE p # {}
      <2>1. VersionOf(p) \in 0..LastVersion
            BY VersionTyped
      <2>2. PICK v \in {0, VersionOf(p)} : d = {[version |-> v, whole |-> FALSE]}
            BY <1>2 DEF Damaged
      <2>3. [version |-> v, whole |-> FALSE] \in Bundles
            BY <2>1 DEF Bundles
      <2>4. VersionOf(d) = v
            BY <2>2, VersionOfBundle
      <2>5. d \in Paths
            BY <2>2, <2>3, PathForms
      <2> QED BY <1>2, <2>1, <2>2, <2>4, <2>5
<1> QED BY <1>1, <1>2

LEMMA WholePath ==
    ASSUME NEW v \in 0..LastVersion
    PROVE  Whole(v) \in Paths /\ VersionOf(Whole(v)) = v
<1>1. [version |-> v, whole |-> TRUE] \in Bundles
      BY DEF Bundles
<1>2. VersionOf(Whole(v)) = v
      <2> DEFINE b == [version |-> v, whole |-> TRUE]
      <2>1. b.version = v /\ Whole(v) = {b}
            BY DEF Whole
      <2> HIDE DEF b
      <2> QED BY <2>1, VersionOfBundle
<1> QED BY <1>1, <1>2, PathForms DEF Whole

LEMMA WorkersFinite == IsFiniteSet(Workers) /\ Cardinality(Workers) \in Nat
<1>1. IsFiniteSet({"main", "download"})
      <2>1. IsFiniteSet({"main"} \cup {"download"})
            BY FS_Singleton, FS_AddElement
      <2> QED BY <2>1
<1> QED BY <1>1, FS_Product, FS_CardinalityType DEF Workers

LEMMA WorkerForms ==
    /\ \A h \in Helpers :
           /\ Main(h) \in Workers /\ Main(h)[1] = h /\ Main(h)[2] = "main"
           /\ Download(h) \in Workers /\ Download(h)[1] = h /\ Download(h)[2] = "download"
    /\ \A w \in Workers :
           /\ w[1] \in Helpers
           /\ (w = Main(w[1]) /\ w[2] = "main") \/ (w = Download(w[1]) /\ w[2] = "download")
<1>1. ASSUME NEW w \in Workers
      PROVE  \E h \in Helpers : w = <<h, "main">> \/ w = <<h, "download">>
      BY DEF Workers
<1>2. ASSUME NEW h \in Helpers
      PROVE  /\ Main(h) \in Workers /\ Main(h)[1] = h /\ Main(h)[2] = "main"
             /\ Download(h) \in Workers /\ Download(h)[1] = h /\ Download(h)[2] = "download"
      BY DEF Workers, Main, Download
<1>3. ASSUME NEW w \in Workers
      PROVE  /\ w[1] \in Helpers
             /\ (w = Main(w[1]) /\ w[2] = "main") \/ (w = Download(w[1]) /\ w[2] = "download")
      <2>1. PICK h \in Helpers : w = Main(h) \/ w = Download(h)
            BY <1>1 DEF Main, Download
      <2>2. CASE w = Main(h)
            BY <1>2, <2>2
      <2>3. CASE w = Download(h)
            BY <1>2, <2>3
      <2> QED BY <2>1, <2>2, <2>3
<1> QED BY <1>2, <1>3

(* There is always a file number that no thread has open.                  *)
LEMMA FreshExists ==
    ASSUME ThreadsTyped, lock_file = 0
    PROVE  FreshFile \in Files \ {0} /\ \A w \in Workers : thread[w].file # FreshFile
<1> DEFINE N == Cardinality(Workers)
           Open == {thread[w].file : w \in Workers}
           f == [w \in Workers |-> thread[w].file]
<1>1. IsFiniteSet(Open) /\ Cardinality(Open) <= N
      <2>1. f \in Surjection(Workers, Open)
            BY DEF Surjection
      <2> QED BY <2>1, WorkersFinite, FS_Surjection
<1>2. N \in Nat /\ Cardinality(1..(N + 1)) = N + 1 /\ Cardinality(Open) \in Nat
      BY <1>1, WorkersFinite, FS_Interval, FS_CardinalityType
<1>3. \E g \in 1..(N + 1) : g \notin Open
      <2> SUFFICES ASSUME 1..(N + 1) \subseteq Open PROVE FALSE
          OBVIOUS
      <2>1. Cardinality(1..(N + 1)) <= Cardinality(Open)
            BY <1>1, FS_Subset
      <2> QED BY <1>1, <1>2, <2>1
<1>4. \E g \in 1..(N + 1) : g # lock_file /\ \A w \in Workers : thread[w].file # g
      BY <1>3
<1>5. FreshFile \in 1..(N + 1) /\ \A w \in Workers : thread[w].file # FreshFile
      BY <1>4 DEF FreshFile
<1> QED BY <1>2, <1>5 DEF Files

-----------------------------------------------------------------------------
(* The steps, with the removals of the two folders named.                  *)
RemovesStaging(w) ==
    \/ At(w, "clear") /\ RemoveStaging(w, "create")
    \/ At(w, "abandon") /\ RemoveStaging(w, "unlink")
    \/ At(w, "reject") /\ RemoveStaging(w, "unlink")
    \/ At(w, "clean_up") /\ RemoveStaging(w, "unlink")
    \/ At(w, "discard") /\ MayTidy /\ RemoveStaging(w, "forget")

RemovesPrevious(w) ==
    \/ At(w, "clear_previous") /\ RemovePrevious(w, "swap_out")
    \/ At(w, "undo") /\ RemovePrevious(w, "unlink")
    \/ At(w, "drop") /\ MayTidy /\ RemovePrevious(w, "watch")

Tidies(w) ==
    /\ MayTidy /\ UNCHANGED <<disk, failures>>
    /\ \/ /\ At(w, "tidy")
          /\ GoTo(w, IF VersionOf(staging.staged) > running[w[1]] THEN "forget" ELSE "discard")
       \/ /\ At(w, "forget")
          /\ GoTo(w, IF 0 < VersionOf(previous) /\ VersionOf(previous) < VersionOf(plugin)
                     THEN "drop" ELSE "watch")

LockQuiet == UNCHANGED <<disk, loaded, sessions, crashes, failures, cut>>
DiskQuiet == UNCHANGED <<session, lock_file>>

LEMMA StepKinds ==
    ASSUME [Next]_vars
    PROVE  \/ \E w \in Workers :
                  LockQuiet /\ (OpenLock(w) \/ FlockLock(w) \/ CompareLock(w) \/ Unlock(w))
           \/ \E w \in Workers :
                  DiskQuiet /\ (\/ RemovesStaging(w) \/ RemovesPrevious(w) \/ Tidies(w)
                                \/ Create(w) \/ Unpack(w) \/ CheckUnpacked(w) \/ Move(w)
                                \/ Recheck(w) \/ Verify(w) \/ SwapOut(w) \/ SwapIn(w) \/ RollBack(w))
           \/ \E h \in Helpers : \/ StartOBS(h) \/ Launch(h) \/ Offer(h) \/ Accept(h)
                                 \/ QuitOBS(h) \/ ParentGone(h) \/ Crash(h)
           \/ UNCHANGED vars
<1>1. ASSUME NEW w \in Workers, LockStep(w)
      PROVE  LockQuiet /\ (OpenLock(w) \/ FlockLock(w) \/ CompareLock(w) \/ Unlock(w))
      BY <1>1 DEF LockStep, LockQuiet
<1>2. ASSUME NEW w \in Workers, DiskStep(w)
      PROVE  DiskQuiet /\ (\/ RemovesStaging(w) \/ RemovesPrevious(w) \/ Tidies(w)
                           \/ Create(w) \/ Unpack(w) \/ CheckUnpacked(w) \/ Move(w)
                           \/ Recheck(w) \/ Verify(w) \/ SwapOut(w) \/ SwapIn(w) \/ RollBack(w))
      <2>1. StageStep(w) => \/ RemovesStaging(w)
                            \/ Create(w) \/ Unpack(w) \/ CheckUnpacked(w) \/ Move(w)
            BY DEF StageStep, RemovesStaging
      <2>2. InstallStep(w) => \/ RemovesStaging(w) \/ RemovesPrevious(w)
                              \/ Recheck(w) \/ Verify(w) \/ SwapOut(w) \/ SwapIn(w) \/ RollBack(w)
            BY DEF InstallStep, RemovesStaging, RemovesPrevious
      <2>3. MayTidy /\ TidyStep(w) => RemovesStaging(w) \/ RemovesPrevious(w) \/ Tidies(w)
            BY DEF TidyStep, RemovesStaging, RemovesPrevious, Tidies
      <2> QED BY <1>2, <2>1, <2>2, <2>3 DEF DiskStep, DiskQuiet
<1> QED BY <1>1, <1>2 DEF Next

(* What a removal does to the staging folder, and to the kept version.     *)
LEMMA StagingRemoved ==
    ASSUME DiskTyped, NEW w \in Workers, RemovesStaging(w)
    PROVE  /\ staging' \in [folder : {"none", "private", "open"}, incoming : Paths, staged : Paths]
           /\ staging'.folder \in {staging.folder, "none"}
           /\ VersionOf(staging'.staged) <= VersionOf(staging.staged)
           /\ \A b \in staging'.staged : b.whole => b \in staging.staged
           /\ (staging.folder = "none" => staging.staged = {} /\ staging.incoming = {})
                  => (staging.folder = "none" => staging.staged = {} /\ staging.incoming = {})'
           /\ UNCHANGED <<plugin, previous, failures>>
<1>1. PICK next : RemoveStaging(w, next)
      BY DEF RemovesStaging
<1>2. staging.staged \in Paths /\ staging.incoming \in Paths /\ staging.folder \in {"none", "private", "open"}
      BY DEF DiskTyped
<1>3. VersionOf(staging.staged) \in 0..LastVersion
      BY <1>2, VersionTyped
<1>4. ASSUME NEW i \in Damaged(staging.incoming), NEW s \in Damaged(staging.staged),
             staging' = [staging EXCEPT !.incoming = i, !.staged = s]
      PROVE  /\ staging' \in [folder : {"none", "private", "open"}, incoming : Paths, staged : Paths]
             /\ staging'.folder = staging.folder
             /\ VersionOf(staging'.staged) <= VersionOf(staging.staged)
             /\ \A b \in staging'.staged : ~b.whole
             /\ staging.staged = {} /\ staging.incoming = {} => staging'.staged = {} /\ staging'.incoming = {}
      <2>1. staging'.staged = s /\ staging'.incoming = i /\ staging'.folder = staging.folder
            BY <1>4 DEF DiskTyped
      <2>2. s \in Paths /\ i \in Paths
            BY <1>2, DamagedPath
      <2>3. VersionOf(s) <= VersionOf(staging.staged) /\ \A b \in s : ~b.whole
            BY <1>2, DamagedPath
      <2>4. staging.staged = {} /\ staging.incoming = {} => s = {} /\ i = {}
            BY <1>2, DamagedPath
      <2> QED BY <1>4, <2>1, <2>2, <2>3, <2>4 DEF DiskTyped
<1>5. CASE staging' = NoStaging
      <2>1. staging'.staged = {} /\ staging'.incoming = {} /\ staging'.folder = "none"
            BY <1>5 DEF NoStaging
      <2>2. VersionOf(staging'.staged) <= VersionOf(staging.staged)
            BY <1>3, <2>1, VersionOfBundle
      <2>3. NoStaging \in [folder : {"none", "private", "open"}, incoming : Paths, staged : Paths]
            BY PathForms DEF NoStaging
      <2> QED BY <1>1, <1>5, <2>1, <2>2, <2>3 DEF RemoveStaging
<1>6. CASE staging' = staging
      BY <1>1, <1>2, <1>3, <1>6 DEF RemoveStaging, DiskTyped
<1> QED BY <1>1, <1>4, <1>5, <1>6 DEF RemoveStaging

LEMMA PreviousRemoved ==
    ASSUME DiskTyped, NEW w \in Workers, RemovesPrevious(w)
    PROVE  /\ previous' \in Paths /\ VersionOf(previous') <= VersionOf(previous)
           /\ previous = {} => previous' = {}
           /\ UNCHANGED <<plugin, staging, failures>>
<1>1. PICK next : RemovePrevious(w, next)
      BY DEF RemovesPrevious
<1>2. previous \in Paths /\ VersionOf(previous) \in 0..LastVersion
      BY VersionTyped DEF DiskTyped
<1>3. CASE previous' \in Damaged(previous)
      BY <1>1, <1>2, <1>3, DamagedPath DEF RemovePrevious
<1>4. CASE previous' = {}
      BY <1>1, <1>2, <1>4, PathForms, VersionOfBundle DEF RemovePrevious
<1> QED BY <1>1, <1>3, <1>4 DEF RemovePrevious

-----------------------------------------------------------------------------
(* What a step does to the threads and the lock file: it moves a thread    *)
(* among the places with the lock or among those without, it ends threads, *)
(* or it is a step of the lock.                                            *)
Thread == [pc : Pcs, file : Files, locked : BOOLEAN, tries : 0..2]
Idle == Launching \cup {"gone", "open", "done"}

Shifts(w, pcs) == thread[w].pc \in pcs /\ \E pc \in pcs : GoTo(w, pc)
Done == [Gone EXCEPT !.pc = "done"]
Quits ==
    /\ thread' \in [Workers -> Thread]
    /\ \A w \in Workers : thread'[w] = thread[w] \/ thread'[w] = Gone \/ thread'[w] = Done

LEMMA GoneTyped == /\ Gone \in Thread /\ ~Gone.locked /\ Gone.pc = "gone" /\ Gone.file = 0
                   /\ Done \in Thread /\ ~Done.locked /\ Done.pc = "done" /\ Done.file = 0
<1>1. 0 \in Files
      BY WorkersFinite DEF Files
<1>2. "gone" \in Pcs /\ "done" \in Pcs
      BY DEF Pcs
<1>3. Gone \in Thread /\ ~Gone.locked /\ Gone.pc = "gone" /\ Gone.file = 0
      BY <1>1, <1>2 DEF Gone, Thread
<1>4. Done \in Thread /\ Done.pc = "done" /\ Done.file = Gone.file /\ Done.locked = Gone.locked
      BY <1>2, <1>3 DEF Done, Thread
<1> QED BY <1>3, <1>4

LEMMA ProcessEnds ==
    ASSUME ThreadsTyped, NEW h, EndProcess(h)
    PROVE  /\ Quits
           /\ \A w \in Workers : thread'[w] = IF w[1] = h THEN Gone ELSE thread[w]
<1>1. \A w \in Workers : thread'[w] = IF w[1] = h THEN Gone ELSE thread[w]
      BY DEF EndProcess
<1>2. \A w \in Workers : thread[w] \in Thread
      BY DEF ThreadsTyped, Thread
<1>3. thread' \in [Workers -> Thread]
      BY <1>2, GoneTyped DEF EndProcess
<1> QED BY <1>1, <1>3 DEF Quits

LEMMA LockGivenUp ==
    ASSUME ThreadsTyped, NEW w \in Workers, GiveUpLock(w)
    PROVE  /\ Quits /\ lock_file' = lock_file
           /\ w[2] = "main" => EndProcess(w[1])
           /\ w[2] # "main" => /\ thread' = [thread EXCEPT ![w] = Done]
                               /\ running' = running
<1>1. CASE w[2] = "main"
      BY <1>1, ProcessEnds DEF GiveUpLock
<1>2. CASE w[2] # "main"
      <2>1. thread' = [thread EXCEPT ![w] = Done] /\ lock_file' = lock_file /\ running' = running
            BY <1>2 DEF GiveUpLock, Done
      <2>2. Quits
            BY <2>1, GoneTyped DEF ThreadsTyped, Thread, Quits
      <2> QED BY <1>2, <2>1, <2>2
<1> QED BY <1>1, <1>2

LEMMA DiskMoves ==
    ASSUME NEW w \in Workers,
           \/ RemovesStaging(w) \/ RemovesPrevious(w) \/ Tidies(w)
           \/ Create(w) \/ Unpack(w) \/ CheckUnpacked(w) \/ Move(w)
           \/ Recheck(w) \/ Verify(w) \/ SwapOut(w) \/ SwapIn(w) \/ RollBack(w)
    PROVE  /\ thread[w].pc # "unlink"
           /\ \/ UNCHANGED thread
              \/ Shifts(w, Staging \cup {"unlink"}) \/ Shifts(w, Installing \cup {"unlink"})
              \/ Shifts(w, Launching \ {"launch"})
<1> USE DEF Shifts, At, Staging, Installing, Swapping, Launching
<1>1. CASE RemovesStaging(w)
      BY <1>1 DEF RemovesStaging, RemoveStaging
<1>2. CASE RemovesPrevious(w)
      BY <1>2 DEF RemovesPrevious, RemovePrevious
<1>3. CASE Tidies(w)
      BY <1>3 DEF Tidies
<1>4. CASE Create(w) \/ Unpack(w) \/ CheckUnpacked(w) \/ Move(w)
      BY <1>4 DEF Create, Unpack, CheckUnpacked, Move
<1>5. CASE Recheck(w) \/ Verify(w) \/ SwapOut(w) \/ SwapIn(w) \/ RollBack(w)
      BY <1>5 DEF Recheck, Verify, SwapOut, SwapIn, RollBack
<1> QED BY <1>1, <1>2, <1>3, <1>4, <1>5

LEMMA ThreadKinds ==
    ASSUME ThreadsTyped, [Next]_vars
    PROVE  \/ \E w \in Workers : \/ OpenLock(w)
                                 \/ lock_file' = lock_file /\ At(w, "flock") /\ FlockLock(w) /\ ~GiveUpLock(w)
                                 \/ lock_file' = lock_file /\ CompareLock(w) /\ ~GiveUpLock(w)
                                 \/ At(w, "unlink") /\ lock_file' = 0 /\ GoTo(w, "close")
           \/ lock_file' = lock_file /\ Quits
           \/ lock_file' = lock_file /\ thread' = thread
           \/ lock_file' = lock_file /\ \E w \in Workers : Shifts(w, Busy) \/ Shifts(w, Idle)
<1>1. ASSUME NEW w \in Workers, FlockLock(w) \/ CompareLock(w)
      PROVE  lock_file' = lock_file
      BY <1>1, LockGivenUp DEF FlockLock, CompareLock
<1>2. ASSUME NEW w \in Workers, Unlock(w)
      PROVE  \/ At(w, "unlink") /\ lock_file' = 0 /\ GoTo(w, "close")
             \/ lock_file' = lock_file /\ Quits
      BY <1>2, LockGivenUp DEF Unlock
<1>3. ASSUME NEW w \in Workers, DiskQuiet,
             \/ RemovesStaging(w) \/ RemovesPrevious(w) \/ Tidies(w)
             \/ Create(w) \/ Unpack(w) \/ CheckUnpacked(w) \/ Move(w)
             \/ Recheck(w) \/ Verify(w) \/ SwapOut(w) \/ SwapIn(w) \/ RollBack(w)
      PROVE  /\ lock_file' = lock_file
             /\ thread' = thread \/ Shifts(w, Busy) \/ Shifts(w, Idle)
      BY <1>3, DiskMoves DEF DiskQuiet, Shifts, Busy, Idle
<1>4. ASSUME NEW h \in Helpers, StartOBS(h) \/ Launch(h) \/ Accept(h)
      PROVE  lock_file' = lock_file /\ \E w \in Workers : Shifts(w, Idle)
      BY <1>4, WorkerForms DEF StartOBS, Launch, Accept, At, Shifts, Idle, Launching
<1>5. ASSUME NEW h \in Helpers, Offer(h) \/ QuitOBS(h)
      PROVE  lock_file' = lock_file /\ thread' = thread
      BY <1>5 DEF Offer, QuitOBS
<1>6. ASSUME NEW h \in Helpers, ParentGone(h) \/ Crash(h)
      PROVE  lock_file' = lock_file /\ (Quits \/ \E w \in Workers : Shifts(w, Idle))
      BY <1>6, ProcessEnds, WorkerForms DEF ParentGone, Crash, At, Shifts, Idle, Launching
<1>7. CASE UNCHANGED vars
      BY <1>7 DEF vars
<1>8. ASSUME NEW w \in Workers, GiveUpLock(w) PROVE Quits
      BY <1>8, LockGivenUp
<1>9. ASSUME NEW w \in Workers, FlockLock(w) \/ CompareLock(w)
      PROVE  \/ lock_file' = lock_file /\ Quits
             \/ lock_file' = lock_file /\ At(w, "flock") /\ FlockLock(w) /\ ~GiveUpLock(w)
             \/ lock_file' = lock_file /\ CompareLock(w) /\ ~GiveUpLock(w)
      BY <1>1, <1>8, <1>9 DEF FlockLock
<1> QED BY <1>2, <1>3, <1>4, <1>5, <1>6, <1>7, <1>9, StepKinds

-----------------------------------------------------------------------------
LEMMA Shifted ==
    ASSUME ThreadsTyped, NEW w \in Workers, NEW pcs, pcs \subseteq Pcs, Shifts(w, pcs)
    PROVE  /\ thread' \in [Workers -> Thread]
           /\ thread[w].pc \in pcs /\ thread'[w].pc \in pcs
           /\ thread'[w].file = thread[w].file /\ thread'[w].locked = thread[w].locked
           /\ \A o \in Workers \ {w} : thread'[o] = thread[o]
<1>1. PICK pc \in pcs : GoTo(w, pc)
      BY DEF Shifts
<1> QED BY <1>1 DEF Shifts, GoTo, ThreadsTyped, Thread

LEMMA Groups ==
    /\ Busy \subseteq Pcs /\ Idle \subseteq Pcs
    /\ \A w \in Workers : Working(w) <=> thread[w].pc \in Busy
    /\ \A w \in Workers : Working(w)' <=> thread'[w].pc \in Busy
    /\ Busy \cap (Idle \cup {"flock", "compare", "close"}) = {}
<1> QED BY DEF Busy, Idle, Pcs, Working, Launching, Staging, Installing, Swapping

(* The lock is held exactly while a thread works, or is about to or has    *)
(* just stopped.                                                           *)
LEMMA ThreadsStep ==
    ASSUME ThreadsTyped, [Next]_vars
    PROVE  ThreadsTyped'
<1> USE DEF At
<1>0. SUFFICES /\ lock_file' \in Files /\ thread' \in [Workers -> Thread]
               /\ \A w \in Workers : thread'[w].locked
                      <=> thread'[w].pc \in Busy \cup {"compare", "close"}
      BY Groups DEF ThreadsTyped, Thread
<1>1. /\ lock_file \in Files /\ thread \in [Workers -> Thread]
      /\ \A w \in Workers : thread[w].locked <=> thread[w].pc \in Busy \cup {"compare", "close"}
      BY Groups DEF ThreadsTyped, Thread
<1> DEFINE Held(w) == thread'[w].locked <=> thread'[w].pc \in Busy \cup {"compare", "close"}
<1>2. ASSUME NEW w \in Workers, OpenLock(w)
      PROVE  /\ lock_file' \in Files /\ thread' \in [Workers -> Thread]
             /\ \A o \in Workers : Held(o)
      <2>1. lock_file' \in Files
            BY <1>1, <1>2, FreshExists DEF OpenLock
      <2>2. thread' = [thread EXCEPT ![w].pc = "flock", ![w].file = lock_file']
            BY <1>2 DEF OpenLock
      <2>3. "flock" \in Pcs /\ "flock" \notin Busy /\ "open" \notin Busy
            BY DEF Pcs, Busy, Staging, Installing, Swapping
      <2>4. thread' \in [Workers -> Thread]
            BY <1>1, <2>1, <2>2, <2>3 DEF Thread
      <2>5. ~thread[w].locked
            BY <1>1, <1>2, <2>3 DEF OpenLock
      <2> QED BY <1>1, <2>1, <2>2, <2>3, <2>4, <2>5 DEF Thread
<1>3. ASSUME NEW w \in Workers, At(w, "flock"), FlockLock(w), ~GiveUpLock(w)
      PROVE  thread' \in [Workers -> Thread] /\ \A o \in Workers : Held(o)
      <2>1. thread' = [thread EXCEPT ![w].pc = "compare", ![w].locked = TRUE]
            BY <1>3 DEF FlockLock
      <2> DEFINE holder == [thread[w] EXCEPT !.pc = "compare", !.locked = TRUE]
      <2>2. thread[w] \in Thread /\ "compare" \in Pcs
            BY <1>1 DEF Pcs
      <2>3. holder \in Thread /\ holder.locked /\ holder.pc = "compare"
            BY <2>2 DEF Thread
      <2>4. thread' = [thread EXCEPT ![w] = holder]
            BY <2>1
      <2> HIDE DEF holder
      <2> QED BY <1>1, <2>3, <2>4
<1>4. ASSUME NEW w \in Workers, CompareLock(w), ~GiveUpLock(w)
      PROVE  thread' \in [Workers -> Thread] /\ \A o \in Workers : Held(o)
      <2>1. FirstStep(w) \in Pcs /\ FirstStep(w) \in Busy
            BY DEF FirstStep, Pcs, Busy, Staging, Installing
      <2>2. CASE GoTo(w, FirstStep(w))
            BY <1>1, <1>4, <2>1, <2>2 DEF GoTo, Thread, CompareLock
      <2>3. CASE /\ thread[w].tries < 2
                 /\ thread' = [thread EXCEPT ![w] = [pc |-> "open", file |-> 0, locked |-> FALSE,
                                                     tries |-> @.tries + 1]]
            <3>1. "open" \in Pcs /\ 0 \in Files /\ "open" \notin Busy
                  BY WorkersFinite DEF Pcs, Files, Busy, Staging, Installing, Swapping
            <3>2. thread[w].tries + 1 \in 0..2
                  BY <1>1, <2>3 DEF Thread
            <3> DEFINE again == [pc |-> "open", file |-> 0, locked |-> FALSE,
                                 tries |-> thread[w].tries + 1]
            <3>3. again \in Thread
                  BY <3>1, <3>2 DEF Thread
            <3>4. thread' = [thread EXCEPT ![w] = again]
                  BY <2>3
            <3>5. ~again.locked /\ again.pc = "open"
                  OBVIOUS
            <3> HIDE DEF again
            <3> QED BY <1>1, <3>1, <3>3, <3>4, <3>5
      <2> QED BY <1>4, <2>2, <2>3 DEF CompareLock
<1>5. ASSUME NEW w \in Workers, At(w, "unlink"), lock_file' = 0, GoTo(w, "close")
      PROVE  /\ lock_file' \in Files /\ thread' \in [Workers -> Thread]
             /\ \A o \in Workers : Held(o)
      <2>1. 0 \in Files /\ "close" \in Pcs /\ "unlink" \in Busy
            BY WorkersFinite DEF Files, Pcs, Busy
      <2> QED BY <1>1, <1>5, <2>1 DEF GoTo, Thread
<1>6. ASSUME Quits PROVE thread' \in [Workers -> Thread] /\ \A o \in Workers : Held(o)
      <2>1. "gone" \notin Busy /\ "done" \notin Busy
            BY DEF Busy, Staging, Installing, Swapping
      <2> QED BY <1>1, <1>6, <2>1, GoneTyped DEF Quits
<1>7. ASSUME NEW w \in Workers, Shifts(w, Busy) \/ Shifts(w, Idle)
      PROVE  thread' \in [Workers -> Thread] /\ \A o \in Workers : Held(o)
      <2>1. CASE Shifts(w, Busy)
            BY <1>1, <2>1, Shifted, Groups
      <2>2. CASE Shifts(w, Idle)
            <3>1. "compare" \notin Idle /\ "close" \notin Idle
                  BY DEF Idle, Launching
            <3> QED BY <1>1, <2>2, <3>1, Shifted, Groups
      <2> QED BY <1>7, <2>1, <2>2
<1> QED BY <1>1, <1>2, <1>3, <1>4, <1>5, <1>6, <1>7, ThreadKinds

-----------------------------------------------------------------------------
LEMMA LocksStep ==
    ASSUME ThreadsTyped, Locks, [Next]_vars
    PROVE  Locks'
<1> USE DEF At
<1> DEFINE Apart2(w, o) ==
               thread'[w].locked /\ thread'[o].locked /\ thread'[w].file = thread'[o].file => w = o
           Own(w) ==
               /\ thread'[w].pc \in Busy => thread'[w].file = lock_file'
               /\ thread'[w].pc \in Busy \cup {"flock", "compare", "close"} => thread'[w].file # 0
               /\ thread'[w].pc = "close" => thread'[w].file # lock_file'
           Goal == \A w, o \in Workers : Apart2(w, o) /\ Own(w)
<1>0. SUFFICES Goal
      BY DEF Locks
<1>1. /\ lock_file \in Files /\ thread \in [Workers -> Thread]
      /\ \A w \in Workers : thread[w].locked <=> thread[w].pc \in Busy \cup {"compare", "close"}
      BY Groups DEF ThreadsTyped, Thread
<1>a. /\ "open" \notin Busy /\ "flock" \notin Busy /\ "compare" \notin Busy /\ "close" \notin Busy
      /\ "gone" \notin Busy /\ "done" \notin Busy /\ "unlink" \in Busy
      BY DEF Busy, Staging, Installing, Swapping
<1>2. ASSUME NEW w \in Workers, OpenLock(w) PROVE Goal
      <2>1. /\ thread' = [thread EXCEPT ![w].pc = "flock", ![w].file = lock_file']
            /\ lock_file' = (IF lock_file = 0 THEN FreshFile ELSE lock_file)
            BY <1>2 DEF OpenLock
      <2>2. lock_file' # 0 /\ \A o \in Workers : lock_file = 0 => thread[o].file # lock_file'
            BY <1>1, <2>1, FreshExists
      <2>3. /\ thread'[w].pc = "flock" /\ thread'[w].file = lock_file'
            /\ thread'[w].locked = thread[w].locked /\ ~thread[w].locked
            /\ \A o \in Workers \ {w} : thread'[o] = thread[o]
            BY <1>1, <1>a, <1>2, <2>1 DEF Thread, OpenLock
      <2> QED BY <1>1, <1>a, <2>1, <2>2, <2>3 DEF Locks
<1>3. ASSUME NEW w \in Workers, lock_file' = lock_file, At(w, "flock"), FlockLock(w), ~GiveUpLock(w)
      PROVE  Goal
      <2>1. /\ thread' = [thread EXCEPT ![w].pc = "compare", ![w].locked = TRUE]
            /\ \A o \in Workers : thread[o].locked => thread[o].file # thread[w].file
            BY <1>3 DEF FlockLock
      <2>2. /\ thread'[w].pc = "compare" /\ thread'[w].file = thread[w].file
            /\ \A o \in Workers \ {w} : thread'[o] = thread[o]
            BY <1>1, <2>1 DEF Thread
      <2> QED BY <1>1, <1>a, <1>3, <2>1, <2>2 DEF Locks
<1>4. ASSUME NEW w \in Workers, lock_file' = lock_file, CompareLock(w), ~GiveUpLock(w)
      PROVE  Goal
      <2>1. CASE thread[w].file = lock_file /\ GoTo(w, FirstStep(w))
            <3>1. /\ thread'[w].pc = FirstStep(w) /\ thread'[w].file = thread[w].file
                  /\ thread'[w].locked = thread[w].locked
                  /\ \A o \in Workers \ {w} : thread'[o] = thread[o]
                  BY <1>1, <2>1 DEF Thread, GoTo
            <3>2. thread[w].pc = "compare" /\ FirstStep(w) # "close"
                  BY <1>4 DEF CompareLock, FirstStep
            <3> QED BY <1>1, <1>a, <1>4, <2>1, <3>1, <3>2 DEF Locks
      <2>2. CASE thread' = [thread EXCEPT ![w] = [pc |-> "open", file |-> 0, locked |-> FALSE,
                                                  tries |-> @.tries + 1]]
            <3>1. /\ thread'[w].pc = "open" /\ ~thread'[w].locked
                  /\ \A o \in Workers \ {w} : thread'[o] = thread[o]
                  BY <1>1, <2>2
            <3> QED BY <1>1, <1>a, <1>4, <3>1 DEF Locks
      <2> QED BY <1>4, <2>1, <2>2 DEF CompareLock
<1>5. ASSUME NEW w \in Workers, At(w, "unlink"), lock_file' = 0, GoTo(w, "close")
      PROVE  Goal
      <2>1. /\ thread'[w].pc = "close" /\ thread'[w].file = thread[w].file
            /\ thread'[w].locked = thread[w].locked
            /\ \A o \in Workers \ {w} : thread'[o] = thread[o]
            BY <1>1, <1>5 DEF Thread, GoTo
      <2>2. ASSUME NEW o \in Workers \ {w} PROVE thread[o].pc \notin Busy
            BY <1>1, <1>a, <1>5, <2>2 DEF Locks
      <2> QED BY <1>1, <1>a, <1>5, <2>1, <2>2 DEF Locks
<1>6. ASSUME Quits, lock_file' = lock_file PROVE Goal
      BY <1>1, <1>a, <1>6, GoneTyped DEF Quits, Locks
<1>7. ASSUME NEW w \in Workers, lock_file' = lock_file, Shifts(w, Busy) \/ Shifts(w, Idle)
      PROVE  Goal
      <2>1. CASE Shifts(w, Busy)
            <3>1. "close" \notin Busy
                  BY <1>a
            <3> QED BY <1>1, <1>7, <2>1, <3>1, Shifted, Groups DEF Locks
      <2>2. CASE Shifts(w, Idle)
            <3>1. Idle \cap (Busy \cup {"flock", "compare", "close"}) = {}
                  BY Groups DEF Idle, Launching
            <3> QED BY <1>1, <1>7, <2>2, <3>1, Shifted, Groups DEF Locks
      <2> QED BY <1>7, <2>1, <2>2
<1>8. CASE thread' = thread /\ lock_file' = lock_file
      BY <1>8 DEF Locks
<1> QED BY <1>2, <1>3, <1>4, <1>5, <1>6, <1>7, <1>8, ThreadKinds

(* Only one thread at a time has the lock of the file at the path.         *)
LEMMA OneBusy ==
    ASSUME ThreadsTyped, Locks
    PROVE  \A w, o \in Workers : thread[w].pc \in Busy /\ thread[o].pc \in Busy => w = o
<1>1. \A w \in Workers : thread[w].pc \in Busy => thread[w].locked
      BY Groups DEF ThreadsTyped
<1> QED BY <1>1 DEF Locks

-----------------------------------------------------------------------------
LEMMA UnpackedTyped ==
    ASSUME DiskTyped, CountsTyped, NEW w \in Workers, Unpack(w)
    PROVE  /\ staging'.incoming \in Paths /\ staging'.staged = staging.staged
           /\ staging'.folder = (IF staging.folder = "none" THEN "open" ELSE staging.folder)
           /\ staging' \in [folder : {"none", "private", "open"}, incoming : Paths, staged : Paths]
           /\ UNCHANGED <<plugin, previous, failures>>
<1>1. offer[w[1]] \in 0..LastVersion
      BY WorkerForms DEF CountsTyped
<1>2. PICK b \in {Whole(offer[w[1]])} \cup Damaged(Whole(offer[w[1]])) :
          staging' = [staging EXCEPT !.incoming = b,
                                     !.folder = IF @ = "none" THEN "open" ELSE @]
      BY DEF Unpack
<1>3. b \in Paths
      BY <1>1, <1>2, WholePath, DamagedPath
<1> QED BY <1>2, <1>3 DEF DiskTyped, Unpack

LEMMA DiskTypedStep ==
    ASSUME DiskTyped, CountsTyped, [Next]_vars
    PROVE  DiskTyped'
<1>1. ASSUME disk' = disk PROVE DiskTyped'
      BY <1>1 DEF DiskTyped, disk
<1>2. ASSUME NEW w \in Workers, RemovesStaging(w) \/ RemovesPrevious(w) PROVE DiskTyped'
      BY <1>2, StagingRemoved, PreviousRemoved DEF DiskTyped
<1>3. ASSUME NEW w \in Workers, Create(w) \/ Move(w) PROVE DiskTyped'
      BY <1>3, PathForms DEF DiskTyped, Create, Move
<1>4. ASSUME NEW w \in Workers, Unpack(w) PROVE DiskTyped'
      BY <1>4, UnpackedTyped DEF DiskTyped
<1>5. ASSUME NEW w \in Workers, SwapOut(w) \/ SwapIn(w) \/ RollBack(w) PROVE DiskTyped'
      BY <1>5, PathForms DEF DiskTyped, SwapOut, SwapIn, RollBack
<1>6. ASSUME NEW w \in Workers, CheckUnpacked(w) \/ Recheck(w) \/ Verify(w) \/ Tidies(w)
      PROVE  disk' = disk
      BY <1>6 DEF CheckUnpacked, Recheck, Verify, Tidies, disk
<1>7. ASSUME NEW h \in Helpers, \/ StartOBS(h) \/ Launch(h) \/ Offer(h) \/ Accept(h)
                                \/ QuitOBS(h) \/ ParentGone(h) \/ Crash(h)
      PROVE  disk' = disk
      BY <1>7 DEF StartOBS, Launch, Offer, Accept, QuitOBS, ParentGone, Crash, disk
<1>8. LockQuiet \/ UNCHANGED vars => disk' = disk
      BY DEF LockQuiet, vars, disk
<1> QED BY <1>1, <1>2, <1>3, <1>4, <1>5, <1>6, <1>7, <1>8, StepKinds

(* What a process that ends, or a thread that gives up, leaves of the      *)
(* versions a helper has.                                                  *)
LEMMA OffersLeft ==
    ASSUME CountsTyped, NEW w \in Workers,
           \/ OpenLock(w) \/ FlockLock(w) \/ CompareLock(w) \/ Unlock(w)
           \/ GiveUpLock(w) \/ \E h : EndProcess(h)
    PROVE  /\ offer' \in [Helpers -> 0..LastVersion] /\ running' \in [Helpers -> 0..LastVersion]
           /\ \A h \in Helpers : /\ offer'[h] \in {0, offer[h]}
                                 /\ running'[h] \in {0, running[h]}
<1>1. 0 \in 0..LastVersion
      OBVIOUS
<1>2. CASE UNCHANGED <<offer, running>>
      BY <1>2 DEF CountsTyped
<1>3. CASE \E h : EndProcess(h)
      <2>1. PICK h : offer' = [offer EXCEPT ![h] = 0] /\ running' = [running EXCEPT ![h] = 0]
            BY <1>3 DEF EndProcess
      <2>2. offer \in [Helpers -> 0..LastVersion] /\ running \in [Helpers -> 0..LastVersion]
            BY DEF CountsTyped
      <2> QED BY <1>1, <2>1, <2>2
<1>4. CASE GiveUpLock(w) /\ w[2] # "main"
      BY <1>1, <1>4 DEF CountsTyped, GiveUpLock
<1> QED BY <1>2, <1>3, <1>4 DEF OpenLock, FlockLock, CompareLock, Unlock, GiveUpLock

LEMMA CountsStep ==
    ASSUME DiskTyped, CountsTyped, [Next]_vars
    PROVE  CountsTyped'
<1>1. ASSUME NEW w \in Workers, LockQuiet,
             OpenLock(w) \/ FlockLock(w) \/ CompareLock(w) \/ Unlock(w)
      PROVE  CountsTyped'
      BY <1>1, OffersLeft DEF LockQuiet, CountsTyped
<1>2. ASSUME NEW w \in Workers,
             \/ RemovesStaging(w) \/ RemovesPrevious(w) \/ Tidies(w)
             \/ Create(w) \/ Unpack(w) \/ CheckUnpacked(w) \/ Move(w)
             \/ Recheck(w) \/ Verify(w) \/ SwapOut(w) \/ SwapIn(w) \/ RollBack(w)
      PROVE  failures' \in 0..MaxFailures
      <2>1. failures' = failures \/ (failures < MaxFailures /\ failures' = failures + 1)
            BY <1>2, StagingRemoved, PreviousRemoved
               DEF Tidies, Create, Unpack, CheckUnpacked, Move, Recheck, Verify, SwapOut, SwapIn,
                   RollBack, Fails
      <2> QED BY <2>1 DEF CountsTyped
<1>3. ASSUME DiskQuiet, failures' \in 0..MaxFailures PROVE CountsTyped'
      BY <1>3 DEF DiskQuiet, session, CountsTyped
<1>4. ASSUME NEW h \in Helpers, StartOBS(h) \/ Launch(h) PROVE CountsTyped'
      <2>1. VersionOf(plugin) \in 0..LastVersion
            BY VersionTyped DEF DiskTyped
      <2>2. CASE StartOBS(h)
            <3>1. loaded' \in [Helpers -> 0..LastVersion] /\ sessions' \in 0..MaxSessions
                  BY <2>1, <2>2 DEF StartOBS, CountsTyped
            <3>2. cut' \in BOOLEAN
                  BY <2>2 DEF StartOBS
            <3> QED BY <2>2, <3>1, <3>2 DEF StartOBS, CountsTyped
      <2>3. CASE Launch(h)
            BY <2>1, <2>3 DEF Launch, CountsTyped
      <2> QED BY <1>4, <2>2, <2>3
<1>5. ASSUME NEW h \in Helpers, Offer(h) PROVE CountsTyped'
      BY <1>5 DEF Offer, CountsTyped
<1>6. ASSUME NEW h \in Helpers, Accept(h) \/ QuitOBS(h) PROVE CountsTyped'
      <2>1. loaded' \in [Helpers -> 0..LastVersion]
            BY <1>6 DEF Accept, QuitOBS, CountsTyped
      <2>2. cut' \in BOOLEAN
            BY <1>6 DEF Accept, QuitOBS
      <2> QED BY <1>6, <2>1, <2>2 DEF Accept, QuitOBS, CountsTyped
<1>7. ASSUME NEW h \in Helpers, ParentGone(h) \/ Crash(h) PROVE CountsTyped'
      <2>1. /\ offer' \in [Helpers -> 0..LastVersion] /\ running' \in [Helpers -> 0..LastVersion]
            BY <1>7, OffersLeft, WorkerForms DEF ParentGone, Crash, CountsTyped
      <2>2. UNCHANGED <<loaded, sessions, failures>>
            BY <1>7 DEF ParentGone, Crash
      <2>3. cut' = cut \/ cut' = TRUE
            BY <1>7 DEF ParentGone, Crash
      <2>4. crashes' \in 0..MaxCrashes
            BY <1>7 DEF ParentGone, Crash, CountsTyped
      <2> QED BY <2>1, <2>2, <2>3, <2>4 DEF CountsTyped
<1>8. CASE UNCHANGED vars
      BY <1>8 DEF vars, CountsTyped
<1> QED BY <1>1, <1>2, <1>3, <1>4, <1>5, <1>6, <1>7, <1>8, StepKinds

-----------------------------------------------------------------------------
(* A thread that moves on and stays where its kind may be.                 *)
Stays(w) ==
    /\ loaded' = loaded /\ \A h \in Helpers : offer'[h] \in {0, offer[h]}
    /\ \A o \in Workers \ {w} : thread'[o].pc = thread[o].pc
    /\ thread[w].pc \notin {"gone", "launch"}
    /\ w[2] = "main" =>
           /\ thread'[w].pc \notin Staging \cup {"done", "gone", "launch"}
           /\ thread[w].pc \in Launching => thread'[w].pc \in Launching
    /\ w[2] = "download" => thread'[w].pc \notin Installing \cup Launching

LEMMA StaysPlaced ==
    ASSUME Places, NEW w \in Workers, Stays(w)
    PROVE  Places'
<1> SUFFICES ASSUME NEW h \in Helpers
             PROVE  /\ thread'[Main(h)].pc \notin Staging \cup {"done"}
                    /\ thread'[Download(h)].pc \notin Installing \cup Launching
                    /\ thread'[Main(h)].pc \in {"gone", "launch"}
                           => thread'[Download(h)].pc = "gone" /\ offer'[h] = 0
                    /\ loaded'[h] # 0 => thread'[Main(h)].pc \in Launching \cup {"gone"}
    BY DEF Places, At, Main, Download
<1>1. /\ thread[Main(h)].pc \notin Staging \cup {"done"}
      /\ thread[Download(h)].pc \notin Installing \cup Launching
      /\ thread[Main(h)].pc \in {"gone", "launch"}
             => thread[Download(h)].pc = "gone" /\ offer[h] = 0
      /\ loaded[h] # 0 => thread[Main(h)].pc \in Launching \cup {"gone"}
      BY DEF Places, At
<1>2. /\ Main(h) \in Workers /\ Download(h) \in Workers
      /\ Main(h)[2] = "main" /\ Download(h)[2] = "download" /\ Main(h) # Download(h)
      BY WorkerForms
<1>3. CASE w = Main(h)
      BY <1>1, <1>2, <1>3 DEF Stays
<1>4. CASE w = Download(h)
      BY <1>1, <1>2, <1>4 DEF Stays
<1>5. CASE w # Main(h) /\ w # Download(h)
      BY <1>1, <1>2, <1>5 DEF Stays
<1> QED BY <1>3, <1>4, <1>5

LEMMA EndPlaced ==
    ASSUME ThreadsTyped, CountsTyped, Places, NEW g \in Helpers, EndProcess(g), loaded' = loaded
    PROVE  Places'
<1>1. \A w \in Workers : thread'[w].pc = IF w[1] = g THEN "gone" ELSE thread[w].pc
      BY ProcessEnds, GoneTyped
<1>2. \A h \in Helpers : offer'[h] = IF h = g THEN 0 ELSE offer[h]
      BY DEF EndProcess, CountsTyped
<1>3. "gone" \notin Staging \cup {"done"} /\ "gone" \notin Installing \cup Launching
      BY DEF Staging, Installing, Swapping, Launching
<1>4. \A h \in Helpers :
          /\ thread'[Main(h)].pc = IF h = g THEN "gone" ELSE thread[Main(h)].pc
          /\ thread'[Download(h)].pc = IF h = g THEN "gone" ELSE thread[Download(h)].pc
      BY <1>1, WorkerForms
<1>5. \A h \in Helpers :
          /\ thread'[Main(h)].pc \notin Staging \cup {"done"}
          /\ thread'[Download(h)].pc \notin Installing \cup Launching
          /\ thread'[Main(h)].pc \in {"gone", "launch"}
                 => thread'[Download(h)].pc = "gone" /\ offer'[h] = 0
          /\ loaded'[h] # 0 => thread'[Main(h)].pc \in Launching \cup {"gone"}
      BY <1>2, <1>3, <1>4 DEF Places, At
<1> QED BY <1>5 DEF Places, At, Main, Download

LEMMA GiveUpPlaced ==
    ASSUME ThreadsTyped, CountsTyped, Places, NEW w \in Workers, GiveUpLock(w), loaded' = loaded,
           thread[w].pc \notin {"gone", "launch"}
    PROVE  Places'
<1>1. CASE w[2] = "main"
      BY <1>1, EndPlaced, WorkerForms, LockGivenUp
<1>2. CASE w[2] # "main"
      <2>1. thread' = [thread EXCEPT ![w] = Done]
            BY <1>2, LockGivenUp
      <2>2. /\ thread'[w].pc = "done"
            /\ \A o \in Workers \ {w} : thread'[o] = thread[o]
            BY <2>1, GoneTyped DEF ThreadsTyped
      <2>3. "done" \notin Installing \cup Launching
            BY DEF Installing, Swapping, Launching
      <2>4. Stays(w)
            BY <1>2, <2>2, <2>3, OffersLeft DEF Stays
      <2> QED BY <2>4, StaysPlaced
<1> QED BY <1>1, <1>2

LEMMA PlacesStep ==
    ASSUME ThreadsTyped, DiskTyped, CountsTyped, Places, [Next]_vars
    PROVE  Places'
<1> USE DEF At
<1>a. thread \in [Workers -> Thread]
      BY DEF ThreadsTyped, Thread
<1>1. ASSUME NEW w \in Workers, LockQuiet,
             OpenLock(w) \/ FlockLock(w) \/ CompareLock(w) \/ Unlock(w)
      PROVE  Places'
      <2>1. loaded' = loaded
            BY <1>1 DEF LockQuiet
      <2>2. thread[w].pc \in {"open", "flock", "compare", "unlink", "close"}
            BY <1>1 DEF OpenLock, FlockLock, CompareLock, Unlock
      <2>3. CASE GiveUpLock(w)
            BY <2>1, <2>2, <2>3, GiveUpPlaced
      <2>4. CASE ~GiveUpLock(w)
            <3>1. \A o \in Workers \ {w} : thread'[o] = thread[o]
                  BY <1>a, <1>1, <2>4 DEF OpenLock, FlockLock, CompareLock, Unlock, GoTo
            <3>2. thread'[w].pc \in {"flock", "compare", "open", "close", FirstStep(w)}
                  BY <1>a, <1>1, <2>4 DEF OpenLock, FlockLock, CompareLock, Unlock, GoTo, Thread
            <3>3. /\ thread[w].pc \notin {"gone", "launch"} \cup Launching
                  /\ w[2] = "main" => thread'[w].pc \notin Staging \cup {"done", "gone", "launch"}
                  /\ w[2] = "download" => thread'[w].pc \notin Installing \cup Launching
                  BY <2>2, <3>2 DEF FirstStep, Staging, Installing, Swapping, Launching
            <3>4. Stays(w)
                  BY <1>1, <2>1, <3>1, <3>3, OffersLeft DEF Stays
            <3> QED BY <3>4, StaysPlaced
      <2> QED BY <2>3, <2>4
<1>2. ASSUME NEW w \in Workers, DiskQuiet,
             \/ RemovesStaging(w) \/ RemovesPrevious(w) \/ Tidies(w)
             \/ Create(w) \/ Unpack(w) \/ CheckUnpacked(w) \/ Move(w)
             \/ Recheck(w) \/ Verify(w) \/ SwapOut(w) \/ SwapIn(w) \/ RollBack(w)
      PROVE  Places'
      <2>1. loaded' = loaded /\ offer' = offer
            BY <1>2 DEF DiskQuiet, session
      <2>2. CASE thread' = thread
            BY <2>1, <2>2 DEF Places
      <2>3. ASSUME NEW pcs, thread[w].pc # "unlink", Shifts(w, pcs), pcs \subseteq Pcs,
                   pcs \in {Staging \cup {"unlink"}, Installing \cup {"unlink"},
                            Launching \ {"launch"}}
            PROVE  Places'
            <3>1. /\ thread[w].pc \in pcs /\ thread'[w].pc \in pcs
                  /\ \A o \in Workers \ {w} : thread'[o] = thread[o]
                  BY <2>3, Shifted
            <3>2. w[2] = "main" => thread[w].pc \notin Staging
                  BY WorkerForms DEF Places
            <3>3. w[2] = "download" => thread[w].pc \notin Installing \cup Launching
                  BY WorkerForms DEF Places
            <3>4. /\ thread[w].pc \notin {"gone", "launch"}
                  /\ w[2] = "main" =>
                         /\ thread'[w].pc \notin Staging \cup {"done", "gone", "launch"}
                         /\ thread[w].pc \in Launching => thread'[w].pc \in Launching
                  /\ w[2] = "download" => thread'[w].pc \notin Installing \cup Launching
                  BY <2>3, <3>1, <3>2, <3>3 DEF Staging, Installing, Swapping, Launching
            <3>5. Stays(w)
                  BY <2>1, <3>1, <3>4 DEF Stays
            <3> QED BY <3>5, StaysPlaced
      <2>4. /\ Staging \cup {"unlink"} \subseteq Pcs /\ Installing \cup {"unlink"} \subseteq Pcs
            /\ Launching \ {"launch"} \subseteq Pcs
            BY DEF Pcs, Launching
      <2> QED BY <1>2, <2>2, <2>3, <2>4, DiskMoves
<1>3. ASSUME NEW g \in Helpers, loaded' = loaded, EndProcess(g) PROVE Places'
      BY <1>3, EndPlaced
<1>4. ASSUME NEW g \in Helpers,
             \/ StartOBS(g) \/ Launch(g) \/ Accept(g)
             \/ loaded[g] = 0 /\ At(Main(g), "watch") /\ GoTo(Main(g), "open")
                    /\ UNCHANGED <<loaded, offer>>
      PROVE  Places'
      <2> SUFFICES ASSUME NEW h \in Helpers
                   PROVE  /\ thread'[Main(h)].pc \notin Staging \cup {"done"}
                          /\ thread'[Download(h)].pc \notin Installing \cup Launching
                          /\ thread'[Main(h)].pc \in {"gone", "launch"}
                                 => thread'[Download(h)].pc = "gone" /\ offer'[h] = 0
                          /\ loaded'[h] # 0 => thread'[Main(h)].pc \in Launching \cup {"gone"}
          BY DEF Places, Main, Download
      <2>1. /\ thread[Main(h)].pc \notin Staging \cup {"done"}
            /\ thread[Download(h)].pc \notin Installing \cup Launching
            /\ thread[Main(h)].pc \in {"gone", "launch"}
                   => thread[Download(h)].pc = "gone" /\ offer[h] = 0
            /\ loaded[h] # 0 => thread[Main(h)].pc \in Launching \cup {"gone"}
            BY DEF Places
      <2>2. /\ Main(h) \in Workers /\ Download(h) \in Workers /\ Main(g) \in Workers
            /\ Download(g) \in Workers /\ Main(h) # Download(g) /\ Main(g) # Download(h)
            /\ (Main(g) = Main(h) => g = h) /\ (Download(g) = Download(h) => g = h)
            BY WorkerForms
      <2>3. CASE StartOBS(g)
            <3>1. /\ offer' = offer /\ thread[Main(g)].pc = "gone"
                  /\ \A o \in Workers : thread'[o].pc = IF o = Main(g) THEN "launch" ELSE thread[o].pc
                  /\ \A k \in Helpers \ {g} : loaded'[k] = loaded[k]
                  BY <1>a, <2>2, <2>3 DEF StartOBS, GoTo, Thread
            <3> QED BY <2>1, <2>2, <3>1 DEF Launching, Staging
      <2>4. CASE Launch(g)
            <3>1. /\ offer' = offer /\ loaded' = loaded /\ thread[Main(g)].pc = "launch"
                  /\ \A o \in Workers \ {Main(g)} : thread'[o].pc = thread[o].pc
                  /\ thread'[Main(g)].pc \in {"gone", "tidy"}
                  BY <1>a, <2>2, <2>4 DEF Launch, GoTo, Thread
            <3> QED BY <2>1, <2>2, <3>1 DEF Launching, Staging
      <2>5. CASE Accept(g)
            <3>1. /\ offer' = offer /\ loaded' = loaded /\ offer[g] # 0
                  /\ \A o \in Workers : thread'[o].pc = IF o = Download(g) THEN "open" ELSE thread[o].pc
                  BY <1>a, <2>2, <2>5 DEF Accept, GoTo, Thread
            <3> QED BY <2>1, <2>2, <3>1 DEF Launching, Installing, Swapping
      <2>6. CASE loaded[g] = 0 /\ At(Main(g), "watch") /\ GoTo(Main(g), "open")
                     /\ UNCHANGED <<loaded, offer>>
            <3>1. \A o \in Workers : thread'[o].pc = IF o = Main(g) THEN "open" ELSE thread[o].pc
                  BY <1>a, <2>2, <2>6 DEF GoTo, Thread
            <3> QED BY <2>1, <2>2, <2>6, <3>1 DEF Staging
      <2> QED BY <1>4, <2>3, <2>4, <2>5, <2>6
<1>5. ASSUME NEW g \in Helpers, Offer(g) PROVE Places'
      <2>1. /\ loaded' = loaded /\ thread' = thread /\ thread[Main(g)].pc = "watch"
            /\ \A h \in Helpers \ {g} : offer'[h] = offer[h]
            BY <1>5 DEF Offer, CountsTyped
      <2> QED BY <2>1 DEF Places, Main, Download
<1>6. ASSUME NEW g \in Helpers, QuitOBS(g) PROVE Places'
      <2>1. /\ offer' = offer /\ thread' = thread
            /\ \A h \in Helpers : loaded'[h] \in {0, loaded[h]}
            BY <1>6 DEF QuitOBS, CountsTyped
      <2> QED BY <2>1 DEF Places, Main, Download
<1>7. CASE UNCHANGED vars
      BY <1>7 DEF vars, Places, Main, Download
<1> QED BY <1>1, <1>2, <1>3, <1>4, <1>5, <1>6, <1>7, StepKinds DEF ParentGone, Crash

-----------------------------------------------------------------------------
LEMMA BundleOfPath ==
    ASSUME NEW p \in Paths, NEW b \in p
    PROVE  p = {b} /\ b \in Bundles /\ b.version \in 0..LastVersion /\ VersionOf(p) = b.version
<1>1. PICK c \in Bundles : p = {c}
      BY PathForms
<1>2. b = c
      BY <1>1
<1>3. c.version \in 0..LastVersion
      BY DEF Bundles
<1> QED BY <1>1, <1>2, <1>3, VersionOfBundle

(* The steps on the disk, and what the others leave alone: they move       *)
(* threads to places that say nothing of the disk.                         *)
DiskAction(w) ==
    \/ RemovesStaging(w) \/ RemovesPrevious(w) \/ Tidies(w)
    \/ Create(w) \/ Unpack(w) \/ CheckUnpacked(w) \/ Move(w)
    \/ Recheck(w) \/ Verify(w) \/ SwapOut(w) \/ SwapIn(w) \/ RollBack(w)

Settled == {"gone", "done", "flock", "compare", "open", "close", "recheck", "clear",
            "launch", "tidy"}
Settles ==
    /\ UNCHANGED <<disk, failures>>
    /\ \A o \in Workers : thread'[o].pc \in Settled \cup {thread[o].pc}

LEMMA DiskOrSettles ==
    ASSUME ThreadsTyped, [Next]_vars
    PROVE  (\E w \in Workers : DiskQuiet /\ DiskAction(w)) \/ Settles
<1> USE DEF Settles
<1>a. thread \in [Workers -> Thread]
      BY DEF ThreadsTyped, Thread
<1>b. {"gone", "done", "flock", "compare", "open", "close", "recheck", "clear",
       "launch", "tidy"} = Settled
      BY DEF Settled
<1>1. ASSUME Quits, UNCHANGED <<disk, failures>> PROVE Settles
      BY <1>b, <1>1, GoneTyped DEF Quits
<1>2. ASSUME NEW w \in Workers, LockQuiet,
             OpenLock(w) \/ FlockLock(w) \/ CompareLock(w) \/ Unlock(w)
      PROVE  Settles
      <2>1. UNCHANGED <<disk, failures>>
            BY <1>2 DEF LockQuiet
      <2>2. CASE GiveUpLock(w)
            BY <1>1, <2>1, <2>2, LockGivenUp
      <2>3. CASE ~GiveUpLock(w)
            <3>1. \A o \in Workers \ {w} : thread'[o] = thread[o]
                  BY <1>a, <1>2, <2>3 DEF OpenLock, FlockLock, CompareLock, Unlock, GoTo
            <3>2. thread'[w].pc \in {"flock", "compare", "open", "close", FirstStep(w)}
                  BY <1>a, <1>2, <2>3 DEF OpenLock, FlockLock, CompareLock, Unlock, GoTo, Thread
            <3>3. thread'[w].pc \in Settled
                  BY <1>b, <3>2 DEF FirstStep
            <3> QED BY <2>1, <3>1, <3>3
      <2> QED BY <2>2, <2>3
<1>3. ASSUME NEW h \in Helpers, \/ StartOBS(h) \/ Launch(h) \/ Offer(h) \/ Accept(h)
                                \/ QuitOBS(h) \/ ParentGone(h) \/ Crash(h)
      PROVE  Settles
      <2>1. UNCHANGED <<disk, failures>>
            BY <1>3 DEF StartOBS, Launch, Offer, Accept, QuitOBS, ParentGone, Crash
      <2>2. CASE EndProcess(h)
            BY <1>1, <2>1, <2>2, ProcessEnds
      <2>3. CASE ~EndProcess(h)
            <3>1. \/ thread' = thread
                  \/ \E w \in Workers, pc \in {"launch", "gone", "tidy", "open"} : GoTo(w, pc)
                  BY <1>3, <2>3, WorkerForms
                     DEF StartOBS, Launch, Offer, Accept, QuitOBS, ParentGone, Crash
            <3>2. ASSUME NEW w \in Workers, NEW pc \in {"launch", "gone", "tidy", "open"}, GoTo(w, pc)
                  PROVE  \A o \in Workers : thread'[o].pc \in Settled \cup {thread[o].pc}
                  BY <1>a, <1>b, <3>2 DEF GoTo, Thread
            <3> QED BY <2>1, <3>1, <3>2
      <2> QED BY <2>2, <2>3
<1>4. CASE UNCHANGED vars
      BY <1>4 DEF vars, disk
<1> QED BY <1>2, <1>3, <1>4, StepKinds DEF DiskAction

LEMMA OthersStay ==
    ASSUME ThreadsTyped, NEW w \in Workers, DiskAction(w)
    PROVE  \A o \in Workers \ {w} : thread'[o] = thread[o]
<1>1. /\ Staging \cup {"unlink"} \subseteq Pcs /\ Installing \cup {"unlink"} \subseteq Pcs
      /\ Launching \ {"launch"} \subseteq Pcs
      BY DEF Pcs, Launching
<1> QED BY <1>1, DiskMoves, Shifted DEF DiskAction

LEMMA Went ==
    ASSUME ThreadsTyped, NEW w \in Workers, NEW pc, GoTo(w, pc)
    PROVE  thread'[w].pc = pc
<1> QED BY DEF GoTo, ThreadsTyped

LEMMA FailuresGrow ==
    ASSUME DiskTyped, NEW w \in Workers, DiskAction(w)
    PROVE  failures' = failures \/ failures' = failures + 1
<1> QED BY StagingRemoved, PreviousRemoved DEF DiskAction, Tidies, Create, Unpack, CheckUnpacked,
         Move, Recheck, Verify, SwapOut, SwapIn, RollBack, Fails

(* Nobody tidies while a bundle is swapped: the two exclude each other.    *)
LEMMA ApartStep ==
    ASSUME ~SwapOverlaps, ThreadsTyped, Apart, [Next]_vars
    PROVE  Apart'
<1> DEFINE Tidying == {"discard", "drop"}
<1> SUFFICES ASSUME NEW w \in Workers, NEW o \in Workers,
                    thread'[w].pc \in Swapping, thread'[o].pc \in Tidying
             PROVE  FALSE
    BY DEF Apart
<1>1. Swapping \cap (Settled \cup Tidying) = {} /\ Tidying \cap Settled = {}
      BY DEF Swapping, Settled
<1>2. CASE Settles
      BY <1>1, <1>2 DEF Settles, Apart
<1>3. ASSUME NEW v \in Workers, DiskAction(v) PROVE FALSE
      <2>1. \A u \in Workers \ {v} : thread'[u] = thread[u]
            BY <1>3, OthersStay
      <2>2. thread'[v].pc \in Swapping
                => thread[v].pc \in Swapping \/ \A u \in Workers : thread[u].pc \notin Tidying
            BY <1>3, Went DEF DiskAction, At, Swapping, Staging, RemovesStaging, RemoveStaging,
               RemovesPrevious, RemovePrevious, Tidies, Create, Unpack, CheckUnpacked, Move,
               Recheck, Verify, SwapOut, SwapIn, RollBack, MaySwap
      <2>3. thread'[v].pc \in Tidying
                => thread[v].pc \in Tidying \/ \A u \in Workers : thread[u].pc \notin Swapping
            BY <1>3, Went DEF DiskAction, At, Staging, RemovesStaging, RemoveStaging,
               RemovesPrevious, RemovePrevious, Tidies, Create, Unpack, CheckUnpacked, Move,
               Recheck, Verify, SwapOut, SwapIn, RollBack, MayTidy
      <2> QED BY <1>1, <2>1, <2>2, <2>3 DEF Apart
<1> QED BY <1>2, <1>3, DiskOrSettles

-----------------------------------------------------------------------------
(* What Swap says of one thread.                                           *)
SwapAt(w) ==
    /\ thread[w].pc \in {"verify", "clear_previous", "swap_out", "drop"} => plugin # {}
    /\ thread[w].pc \in {"swap_in", "roll_back"} => plugin = {} /\ HoldsWhole(previous)
    /\ At(w, "verify")
           => \A b \in staging.staged : b.whole => b.version > VersionOf(plugin)
    /\ thread[w].pc \in {"clear_previous", "swap_out", "swap_in"}
           => HoldsWhole(staging.staged)
    /\ thread[w].pc \in {"clear_previous", "swap_out"}
           => VersionOf(staging.staged) > VersionOf(plugin)
    /\ At(w, "swap_in") => VersionOf(staging.staged) > VersionOf(previous)
    /\ thread[w].pc \in {"roll_back", "undo"} => failures > 0

LEMMA SwapParts ==
    Swap <=> /\ staging.folder = "none" => staging.staged = {} /\ staging.incoming = {}
             /\ PluginWhole
             /\ \A w \in Workers : SwapAt(w)
<1> QED BY DEF Swap, SwapAt

(* The thread that does not move: the one that works is alone, and the one *)
(* that tidies sees no swap.                                               *)
LEMMA SwapAtOther ==
    ASSUME ThreadsTyped, DiskTyped, CountsTyped, Locks, Apart, Swap,
           NEW w \in Workers, DiskAction(w), NEW o \in Workers \ {w}
    PROVE  SwapAt(o)'
<1> DEFINE At2(t, pg, st, pv, fl) ==
        /\ t.pc \in {"verify", "clear_previous", "swap_out", "drop"} => pg # {}
        /\ t.pc \in {"swap_in", "roll_back"} => pg = {} /\ HoldsWhole(pv)
        /\ t.pc = "verify" => \A b \in st.staged : b.whole => b.version > VersionOf(pg)
        /\ t.pc \in {"clear_previous", "swap_out", "swap_in"} => HoldsWhole(st.staged)
        /\ t.pc \in {"clear_previous", "swap_out"} => VersionOf(st.staged) > VersionOf(pg)
        /\ t.pc = "swap_in" => VersionOf(st.staged) > VersionOf(pv)
        /\ t.pc \in {"roll_back", "undo"} => fl > 0
<1>1. At2(thread[o], plugin, staging, previous, failures)
      BY SwapParts DEF SwapAt, At
<1>2. SUFFICES At2(thread'[o], plugin', staging', previous', failures')
      BY DEF SwapAt, At, HoldsWhole, VersionOf
<1>3. thread'[o] = thread[o]
      BY OthersStay
<1>4. failures' = failures \/ failures' = failures + 1
      BY FailuresGrow
<1>5. failures \in Nat
      BY DEF CountsTyped
<1>6. CASE thread[o].pc = "drop"
      <2>1. thread[w].pc \notin Swapping
            BY <1>6 DEF Apart
      <2>2. plugin' = plugin
            BY <2>1, StagingRemoved, PreviousRemoved
               DEF At, Swapping, DiskAction, Tidies, Create, Unpack, CheckUnpacked, Move, Recheck,
                   Verify, SwapOut, SwapIn, RollBack, disk
      <2> QED BY <1>1, <1>3, <1>6, <2>2
<1>7. CASE thread[o].pc \in Swapping \cup {"verify"}
      <2>1. thread[o].pc \in Busy /\ thread[w].pc \notin Busy
            BY <1>7, OneBusy DEF Busy, Installing
      <2>2. \/ Tidies(w)
            \/ At(w, "discard") /\ RemovesStaging(w)
            \/ At(w, "drop") /\ RemovesPrevious(w)
            <3>1. /\ RemovesStaging(w) => At(w, "discard")
                  /\ RemovesPrevious(w) => At(w, "drop")
                  BY <2>1 DEF At, Busy, Staging, Installing, Swapping, RemovesStaging, RemovesPrevious
            <3>2. ~(Create(w) \/ Unpack(w) \/ CheckUnpacked(w) \/ Move(w))
                  BY <2>1 DEF At, Busy, Staging, Create, Unpack, CheckUnpacked, Move
            <3>3. ~(Recheck(w) \/ Verify(w) \/ SwapOut(w) \/ SwapIn(w) \/ RollBack(w))
                  BY <2>1 DEF At, Busy, Installing, Swapping, Recheck, Verify, SwapOut, SwapIn, RollBack
            <3>4. RemovesStaging(w) \/ RemovesPrevious(w) \/ Tidies(w)
                  BY <3>2, <3>3 DEF DiskAction
            <3> QED BY <3>1, <3>4
      <2>3. CASE Tidies(w)
            BY <1>1, <1>3, <2>3 DEF Tidies, disk
      <2>4. CASE ~Tidies(w)
            <3>1. thread[o].pc = "verify"
                  BY <1>7, <2>2, <2>4 DEF At, Apart
            <3>2. plugin' = plugin /\ \A b \in staging'.staged : b.whole => b \in staging.staged
                  BY <2>2, <2>4, StagingRemoved, PreviousRemoved
            <3> HIDE DEF HoldsWhole
            <3> QED BY <1>1, <1>3, <3>1, <3>2
      <2> QED BY <2>3, <2>4
<1>8. CASE thread[o].pc \notin Swapping \cup {"verify", "drop"}
      BY <1>3, <1>8 DEF Swapping
<1> QED BY <1>6, <1>7, <1>8

LEMMA SwapAtRest ==
    ASSUME NEW w \in Workers,
           thread'[w].pc \notin {"verify", "clear_previous", "swap_out", "drop", "swap_in",
                                 "roll_back", "undo"}
    PROVE  SwapAt(w)'
<1> QED BY DEF SwapAt, At

(* The thread that moves.                                                  *)
LEMMA SwapAtMover ==
    ASSUME ThreadsTyped, DiskTyped, CountsTyped, Apart, Swap, NEW w \in Workers, DiskAction(w)
    PROVE  SwapAt(w)'
<1> USE DEF At
<1>1. /\ thread[w].pc \in {"verify", "clear_previous", "swap_out", "drop"} => plugin # {}
      /\ thread[w].pc \in {"swap_in", "roll_back"} => plugin = {} /\ HoldsWhole(previous)
      /\ thread[w].pc = "verify"
             => \A b \in staging.staged : b.whole => b.version > VersionOf(plugin)
      /\ thread[w].pc \in {"clear_previous", "swap_out", "swap_in"} => HoldsWhole(staging.staged)
      /\ thread[w].pc \in {"clear_previous", "swap_out"}
             => VersionOf(staging.staged) > VersionOf(plugin)
      /\ thread[w].pc = "swap_in" => VersionOf(staging.staged) > VersionOf(previous)
      /\ thread[w].pc \in {"roll_back", "undo"} => failures > 0
      BY SwapParts DEF SwapAt
<1>2. PluginWhole /\ failures \in Nat
      BY SwapParts DEF CountsTyped
<1>3. /\ plugin \in Paths /\ previous \in Paths /\ staging.staged \in Paths
      /\ VersionOf(plugin) \in Int /\ VersionOf(staging.staged) \in Int
      BY VersionTyped DEF DiskTyped
<1>4. CASE RemovesStaging(w)
      <2>1. thread'[w].pc \in {"create", "unlink", "forget", "clear", "abandon", "reject",
                               "clean_up", "discard"}
            BY <1>4, Went DEF RemovesStaging, RemoveStaging
      <2> QED BY <2>1, SwapAtRest
<1>5. CASE RemovesPrevious(w)
      <2>1. UNCHANGED <<plugin, staging, failures>>
            BY <1>5, PreviousRemoved
      <2>2. CASE At(w, "clear_previous") /\ RemovePrevious(w, "swap_out")
            <3>1. thread'[w].pc \in {"clear_previous", "swap_out"}
                  BY <2>2, Went DEF RemovePrevious
            <3> QED BY <1>1, <2>1, <2>2, <3>1 DEF SwapAt, HoldsWhole, VersionOf
      <2>3. CASE At(w, "undo") /\ RemovePrevious(w, "unlink")
            <3>1. thread'[w].pc \in {"undo", "unlink"}
                  BY <2>3, Went DEF RemovePrevious
            <3> QED BY <1>1, <2>1, <2>3, <3>1 DEF SwapAt
      <2>4. CASE At(w, "drop") /\ RemovePrevious(w, "watch")
            <3>1. thread'[w].pc \in {"drop", "watch"}
                  BY <2>4, Went DEF RemovePrevious
            <3> QED BY <1>1, <2>1, <2>4, <3>1 DEF SwapAt
      <2> QED BY <1>5, <2>2, <2>3, <2>4 DEF RemovesPrevious
<1>6. CASE Tidies(w)
      <2>1. /\ thread'[w].pc \in {"forget", "discard", "drop", "watch"}
            /\ thread'[w].pc = "drop" => 0 < VersionOf(previous) /\ VersionOf(previous) < VersionOf(plugin)
            /\ plugin' = plugin
            BY <1>6, Went DEF Tidies, disk
      <2>2. thread'[w].pc = "drop" => plugin # {}
            <3>1. VersionOf(previous) \in Int
                  BY <1>3, VersionTyped
            <3>2. plugin = {} => VersionOf(plugin) = 0
                  BY VersionOfBundle
            <3> QED BY <2>1, <3>1, <3>2
      <2> QED BY <2>1, <2>2 DEF SwapAt
<1>7. CASE Create(w) \/ Unpack(w) \/ CheckUnpacked(w) \/ Move(w)
      <2>1. thread'[w].pc \in {"unpack", "unlink", "check", "abandon", "move"}
            BY <1>7, Went DEF Create, Unpack, CheckUnpacked, Move
      <2> QED BY <2>1, SwapAtRest
<1>8. CASE Recheck(w)
      <2>1. /\ thread'[w].pc \in {"unlink", "verify", "reject"}
            /\ thread'[w].pc = "verify" => plugin # {} /\ VersionOf(staging.staged) > VersionOf(plugin)
            /\ plugin' = plugin /\ staging' = staging
            BY <1>8, Went DEF Recheck, CanInstall, disk
      <2>2. \A b \in staging.staged : b.version = VersionOf(staging.staged)
            BY <1>3, BundleOfPath
      <2> QED BY <2>1, <2>2 DEF SwapAt, VersionOf
<1>9. CASE Verify(w)
      <2>1. /\ thread'[w].pc \in {"clear_previous", "reject"}
            /\ thread'[w].pc = "clear_previous" => \E b \in staging.staged : b.whole
            /\ plugin' = plugin /\ staging' = staging
            BY <1>9, Went DEF Verify, disk
      <2>2. \A b \in staging.staged : b.version = VersionOf(staging.staged)
            BY <1>3, BundleOfPath
      <2>3. plugin # {} /\ \A b \in staging.staged : b.whole => b.version > VersionOf(plugin)
            BY <1>1, <1>9 DEF Verify
      <2>4. thread'[w].pc = "clear_previous" => VersionOf(staging.staged) > VersionOf(plugin)
            BY <2>1, <2>2, <2>3
      <2> QED BY <2>1, <2>3, <2>4 DEF SwapAt, VersionOf, HoldsWhole
<1>10. CASE SwapOut(w)
      <2>1. \A o \in Workers : thread[o].pc # "drop"
            BY <1>10 DEF SwapOut, Apart, Swapping
      <2>2. CASE GoTo(w, "undo")
            <3>1. thread'[w].pc = "undo"
                  BY <2>2, Went
            <3>2. GoTo(w, "swap_in") => FALSE
                  BY <3>1, Went
            <3>3. failures' > 0
                  BY <1>2, <1>10, <2>1, <3>2 DEF SwapOut, Fails
            <3> QED BY <3>1, <3>3 DEF SwapAt
      <2>3. CASE GoTo(w, "swap_in") /\ plugin # {} /\ previous' = plugin /\ plugin' = {}
            <3>1. thread'[w].pc = "swap_in" /\ staging' = staging
                  BY <1>10, <2>3, Went DEF SwapOut
            <3>2. HoldsWhole(plugin)
                  BY <1>2, <2>3 DEF HoldsWhole, PluginWhole
            <3> QED BY <1>1, <1>10, <2>3, <3>1, <3>2 DEF SwapAt, SwapOut, HoldsWhole, VersionOf
      <2> QED BY <1>10, <2>2, <2>3 DEF SwapOut
<1>11. CASE SwapIn(w)
      <2>1. staging.staged # {}
            BY <1>1, <1>11 DEF SwapIn, HoldsWhole
      <2>2. CASE GoTo(w, "clean_up")
            BY <2>2, Went, SwapAtRest
      <2>3. CASE GoTo(w, "roll_back") /\ UNCHANGED <<plugin, staging>> /\ Fails
            <3>1. thread'[w].pc = "roll_back" /\ previous' = previous /\ failures' > 0
                  BY <1>2, <1>11, <2>3, Went DEF SwapIn, Fails
            <3> QED BY <1>1, <1>11, <2>3, <3>1 DEF SwapAt, SwapIn, HoldsWhole
      <2> QED BY <1>11, <2>1, <2>2, <2>3 DEF SwapIn
<1>12. CASE RollBack(w)
      <2>1. thread'[w].pc = "undo" /\ failures > 0 /\ previous # {}
            BY <1>1, <1>12, Went DEF RollBack, HoldsWhole
      <2>2. failures' = failures \/ failures' = failures + 1
            BY <1>12 DEF RollBack, Fails
      <2> QED BY <1>2, <2>1, <2>2 DEF SwapAt
<1> QED BY <1>4, <1>5, <1>6, <1>7, <1>8, <1>9, <1>10, <1>11, <1>12 DEF DiskAction

LEMMA SwapStep ==
    ASSUME ThreadsTyped, DiskTyped, CountsTyped, Locks, Apart, Swap, [Next]_vars
    PROVE  Swap'
<1> DEFINE Empty == staging.folder = "none" => staging.staged = {} /\ staging.incoming = {}
<1>1. Empty /\ PluginWhole /\ \A w \in Workers : SwapAt(w)
      BY SwapParts
<1>2. SUFFICES Empty' /\ PluginWhole' /\ \A w \in Workers : SwapAt(w)'
      BY DEF Swap, SwapAt
<1>3. CASE Settles
      <2>1. /\ plugin' = plugin /\ staging' = staging /\ previous' = previous /\ failures' = failures
            BY <1>3 DEF Settles, disk
      <2>2. ASSUME NEW w \in Workers PROVE SwapAt(w)'
            <3>1. CASE thread'[w].pc = thread[w].pc
                  BY <1>1, <2>1, <3>1 DEF SwapAt, At, HoldsWhole, VersionOf
            <3>2. CASE thread'[w].pc \in Settled
                  BY <3>2, SwapAtRest DEF Settled
            <3> QED BY <1>3, <3>1, <3>2 DEF Settles
      <2> QED BY <1>1, <2>1, <2>2 DEF PluginWhole
<1>4. ASSUME NEW w \in Workers, DiskAction(w)
      PROVE  Empty' /\ PluginWhole' /\ \A o \in Workers : SwapAt(o)'
      <2>1. \A o \in Workers : SwapAt(o)'
            BY <1>4, SwapAtOther, SwapAtMover
      <2>2. Empty'
            <3>1. CASE RemovesStaging(w)
                  BY <1>1, <3>1, StagingRemoved
            <3>2. CASE Create(w) \/ Move(w) \/ SwapIn(w)
                  BY <1>1, <3>2 DEF Create, Move, SwapIn, DiskTyped
            <3>3. CASE Unpack(w)
                  BY <1>1, <3>3, UnpackedTyped DEF DiskTyped
            <3>4. CASE \/ RemovesPrevious(w) \/ Tidies(w) \/ CheckUnpacked(w)
                       \/ Recheck(w) \/ Verify(w) \/ SwapOut(w) \/ RollBack(w)
                  BY <1>1, <3>4, PreviousRemoved
                     DEF Tidies, CheckUnpacked, Recheck, Verify, SwapOut, RollBack, disk
            <3> QED BY <1>4, <3>1, <3>2, <3>3, <3>4 DEF DiskAction
      <2>3. PluginWhole'
            <3>1. CASE SwapOut(w)
                  BY <1>1, <3>1 DEF SwapOut, PluginWhole
            <3>2. CASE SwapIn(w)
                  <4>1. HoldsWhole(staging.staged) /\ staging.staged \in Paths
                        BY <1>1, <3>2 DEF SwapAt, At, SwapIn, DiskTyped
                  <4>2. \A b \in staging.staged : b.whole
                        BY <4>1, BundleOfPath DEF HoldsWhole
                  <4> QED BY <1>1, <3>2, <4>2 DEF SwapIn, PluginWhole
            <3>3. CASE RollBack(w)
                  <4>1. HoldsWhole(previous) /\ previous \in Paths
                        BY <1>1, <3>3 DEF SwapAt, At, RollBack, DiskTyped
                  <4>2. \A b \in previous : b.whole
                        BY <4>1, BundleOfPath DEF HoldsWhole
                  <4> QED BY <1>1, <3>3, <4>2 DEF RollBack, PluginWhole
            <3>4. CASE \/ RemovesStaging(w) \/ RemovesPrevious(w) \/ Tidies(w)
                       \/ Create(w) \/ Unpack(w) \/ CheckUnpacked(w) \/ Move(w)
                       \/ Recheck(w) \/ Verify(w)
                  BY <1>1, <3>4, StagingRemoved, PreviousRemoved
                     DEF Tidies, Create, Unpack, CheckUnpacked, Move, Recheck, Verify, disk, PluginWhole
            <3> QED BY <1>4, <3>1, <3>2, <3>3, <3>4 DEF DiskAction
      <2> QED BY <2>1, <2>2, <2>3
<1> QED BY <1>3, <1>4, DiskOrSettles

-----------------------------------------------------------------------------
(* Sessions and helpers get the plugin's version, or none.                 *)
LEMMA VersionsStep ==
    ASSUME CountsTyped, [Next]_vars, NEW h \in Helpers
    PROVE  /\ loaded'[h] \in {0, loaded[h]} \/ (plugin # {} /\ loaded'[h] = VersionOf(plugin))
           /\ running'[h] \in {0, running[h]} \/ (plugin # {} /\ running'[h] = VersionOf(plugin))
<1> DEFINE Goal ==
        /\ loaded'[h] \in {0, loaded[h]} \/ (plugin # {} /\ loaded'[h] = VersionOf(plugin))
        /\ running'[h] \in {0, running[h]} \/ (plugin # {} /\ running'[h] = VersionOf(plugin))
<1>1. ASSUME NEW w \in Workers, LockQuiet,
             OpenLock(w) \/ FlockLock(w) \/ CompareLock(w) \/ Unlock(w)
      PROVE  Goal
      BY <1>1, OffersLeft DEF LockQuiet
<1>2. CASE DiskQuiet
      BY <1>2 DEF DiskQuiet, session
<1>3. ASSUME NEW g \in Helpers, StartOBS(g) \/ QuitOBS(g) \/ Offer(g) \/ Accept(g) PROVE Goal
      BY <1>3 DEF StartOBS, QuitOBS, Offer, Accept, CountsTyped
<1>4. ASSUME NEW g \in Helpers, Launch(g) PROVE Goal
      BY <1>4, VersionOfBundle DEF Launch, CountsTyped
<1>5. ASSUME NEW g \in Helpers, ParentGone(g) \/ Crash(g) PROVE Goal
      <2>1. loaded' = loaded
            BY <1>5 DEF ParentGone, Crash
      <2>2. running' = running \/ EndProcess(g)
            BY <1>5 DEF ParentGone, Crash
      <2> QED BY <2>1, <2>2, WorkerForms, OffersLeft
<1>6. CASE UNCHANGED vars
      BY <1>6 DEF vars
<1> QED BY <1>1, <1>2, <1>3, <1>4, <1>5, <1>6, StepKinds

LEMMA OldEnoughStep ==
    ASSUME DiskTyped, CountsTyped, [Next]_vars, NEW p \in Paths, OldEnough(p),
           plugin # {} => VersionOf(p) >= VersionOf(plugin)
    PROVE  \A h \in Helpers : VersionOf(p) >= loaded'[h] /\ VersionOf(p) >= running'[h]
<1>1. VersionOf(p) \in Nat
      BY VersionTyped
<1> SUFFICES ASSUME NEW h \in Helpers
             PROVE  VersionOf(p) >= loaded'[h] /\ VersionOf(p) >= running'[h]
    OBVIOUS
<1>2. VersionOf(p) >= loaded[h] /\ VersionOf(p) >= running[h]
      BY DEF OldEnough
<1> QED BY <1>1, <1>2, VersionsStep

LEMMA SameVersions ==
    ASSUME DiskQuiet, NEW p
    PROVE  /\ OldEnough(p) => \A h \in Helpers : VersionOf(p) >= loaded'[h] /\ VersionOf(p) >= running'[h]
<1> QED BY DEF DiskQuiet, session, OldEnough

(* Versions grow along an install, and what is put back is old enough.     *)
LEMMA OrderStep ==
    ASSUME ThreadsTyped, DiskTyped, CountsTyped, Locks, Apart, Swap, Order, [Next]_vars
    PROVE  Order'
<1> USE DEF At
<1> DEFINE Fits(p) == \A h \in Helpers : VersionOf(p) >= loaded'[h] /\ VersionOf(p) >= running'[h]
           Back(w) == thread[w].pc \in {"swap_in", "roll_back"}
           Goal == /\ plugin' # {} => Fits(plugin')
                   /\ plugin' # {} /\ previous' # {} => VersionOf(plugin') > VersionOf(previous')
                   /\ \A w \in Workers : Back(w)' => Fits(previous')
<1>0. SUFFICES Goal
      BY DEF Order, OldEnough, VersionOf
<1>1. /\ plugin # {} => OldEnough(plugin)
      /\ plugin # {} /\ previous # {} => VersionOf(plugin) > VersionOf(previous)
      /\ \A w \in Workers : Back(w) => OldEnough(previous)
      BY DEF Order
<1>2. /\ plugin \in Paths /\ previous \in Paths /\ staging.staged \in Paths
      /\ VersionOf(plugin) \in Nat /\ VersionOf(previous) \in Nat /\ VersionOf(staging.staged) \in Nat
      BY VersionTyped DEF DiskTyped
<1>3. \A w \in Workers : Back(w) => plugin = {}
      BY DEF Swap
<1>4. CASE Settles
      <2>1. plugin' = plugin /\ previous' = previous
            BY <1>4 DEF Settles, disk
      <2>2. \A w \in Workers : Back(w)' => Back(w)
            BY <1>4 DEF Settles, Settled
      <2>3. plugin # {} => Fits(plugin)
            BY <1>1, <1>2, OldEnoughStep
      <2>4. \A w \in Workers : Back(w) => Fits(previous)
            BY <1>1, <1>2, <1>3, OldEnoughStep
      <2> HIDE DEF Fits, Back
      <2> QED BY <1>1, <2>1, <2>2, <2>3, <2>4
<1>5. ASSUME NEW w \in Workers, DiskQuiet, DiskAction(w) PROVE Goal
      <2>0. \A p : OldEnough(p) => Fits(p)
            BY <1>5, SameVersions
      <2>1. \A o \in Workers \ {w} : thread'[o] = thread[o]
            BY <1>5, OthersStay
      <2>2. thread[w].pc \in Busy => \A o \in Workers \ {w} : ~Back(o)
            BY OneBusy DEF Busy, Installing, Swapping
      <2>3. CASE SwapOut(w)
            <3>1. CASE plugin # {} /\ previous' = plugin /\ plugin' = {}
                  BY <1>1, <2>0, <3>1
            <3>2. CASE UNCHANGED <<plugin, previous>> /\ GoTo(w, "undo")
                  <4>1. thread'[w].pc = "undo"
                        BY <3>2, Went
                  <4>2. \A o \in Workers : Back(o)' => Back(o)
                        BY <2>1, <4>1
                  <4> QED BY <1>1, <2>0, <3>2, <4>2
            <3> QED BY <2>3, <3>1, <3>2 DEF SwapOut
      <2>4. CASE SwapIn(w)
            <3>1. previous' = previous /\ OldEnough(previous)
                  BY <1>1, <2>4 DEF SwapIn
            <3>2. CASE plugin' = staging.staged
                  <4>1. VersionOf(staging.staged) > VersionOf(previous)
                        BY <2>4 DEF SwapIn, Swap
                  <4>2. loaded \in [Helpers -> Int] /\ running \in [Helpers -> Int]
                        BY DEF CountsTyped
                  <4>3. OldEnough(staging.staged)
                        BY <1>2, <3>1, <4>1, <4>2 DEF OldEnough
                  <4> QED BY <2>0, <3>1, <3>2, <4>1, <4>3
            <3>3. CASE plugin' = plugin
                  BY <1>1, <2>0, <3>1, <3>3
            <3> QED BY <2>4, <3>2, <3>3 DEF SwapIn
      <2>5. CASE RollBack(w)
            <3>1. thread'[w].pc = "undo"
                  BY <2>5, Went DEF RollBack
            <3>2. \A o \in Workers : ~Back(o)'
                  BY <2>1, <2>2, <2>5, <3>1 DEF RollBack, Busy, Installing, Swapping
            <3>3. OldEnough(previous)
                  BY <1>1, <2>5 DEF RollBack
            <3> QED BY <1>1, <2>0, <2>5, <3>2, <3>3 DEF RollBack
      <2>6. CASE RemovesPrevious(w)
            <3>1. /\ plugin' = plugin /\ previous' \in Paths
                  /\ VersionOf(previous') <= VersionOf(previous) /\ (previous = {} => previous' = {})
                  BY <2>6, PreviousRemoved
            <3>2. VersionOf(previous') \in Nat
                  BY <3>1, VersionTyped
            <3>3. \A o \in Workers : ~Back(o)'
                  <4>1. ~Back(w)'
                        BY <2>6, Went DEF RemovesPrevious, RemovePrevious
                  <4>2. ASSUME NEW o \in Workers \ {w} PROVE ~Back(o)
                        BY <2>2, <2>6 DEF RemovesPrevious, Busy, Installing, Swapping, Apart
                  <4> QED BY <2>1, <4>1, <4>2
            <3>4. plugin' # {} /\ previous' # {} => VersionOf(plugin') > VersionOf(previous')
                  BY <1>1, <1>2, <3>1, <3>2
            <3> QED BY <1>1, <2>0, <3>1, <3>3, <3>4
      <2>7. CASE \/ RemovesStaging(w) \/ Tidies(w)
                 \/ Create(w) \/ Unpack(w) \/ CheckUnpacked(w) \/ Move(w)
                 \/ Recheck(w) \/ Verify(w)
            <3>1. plugin' = plugin /\ previous' = previous
                  BY <2>7, StagingRemoved
                     DEF Tidies, Create, Unpack, CheckUnpacked, Move, Recheck, Verify, disk
            <3>2. ~Back(w)'
                  <4>1. CASE RemovesStaging(w)
                        BY <4>1, Went DEF RemovesStaging, RemoveStaging
                  <4>2. CASE Tidies(w) \/ Create(w) \/ Unpack(w) \/ CheckUnpacked(w)
                        BY <4>2, Went DEF Tidies, Create, Unpack, CheckUnpacked
                  <4>3. CASE Move(w) \/ Recheck(w) \/ Verify(w)
                        BY <4>3, Went DEF Move, Recheck, Verify
                  <4> QED BY <2>7, <4>1, <4>2, <4>3
            <3> HIDE DEF Fits
            <3> QED BY <1>1, <2>0, <2>1, <3>1, <3>2
      <2> QED BY <1>5, <2>3, <2>4, <2>5, <2>6, <2>7 DEF DiskAction
<1> QED BY <1>4, <1>5, DiskOrSettles

-----------------------------------------------------------------------------
(* The plugin's path is empty only while the kept version can be put back. *)
LEMMA KeptStep ==
    ASSUME ThreadsTyped, DiskTyped, CountsTyped, Locks, Apart, Swap, Kept, [Next]_vars
    PROVE  Kept'
<1> USE DEF At
<1> DEFINE Undoing(w) == thread[w].pc = "undo"
           Goal == failures' <= 1 =>
                       /\ plugin' = {} => HoldsWhole(previous')
                       /\ \A w \in Workers : Undoing(w)' => plugin' # {}
<1>0. SUFFICES Goal
      BY DEF Kept, HoldsWhole
<1>1. failures <= 1 => /\ plugin = {} => HoldsWhole(previous)
                       /\ \A w \in Workers : Undoing(w) => plugin # {}
      BY DEF Kept
<1>2. PluginWhole /\ failures \in Nat
      BY DEF Swap, CountsTyped
<1>3. CASE Settles
      <2>1. plugin' = plugin /\ previous' = previous /\ failures' = failures
            BY <1>3 DEF Settles, disk
      <2>2. \A w \in Workers : Undoing(w)' => Undoing(w)
            BY <1>3 DEF Settles, Settled
      <2> HIDE DEF Undoing
      <2> QED BY <1>1, <2>1, <2>2
<1>4. ASSUME NEW w \in Workers, DiskAction(w) PROVE Goal
      <2>1. \A o \in Workers \ {w} : thread'[o] = thread[o]
            BY <1>4, OthersStay
      <2>2. thread[w].pc \in Busy => \A o \in Workers \ {w} : ~Undoing(o)
            BY OneBusy DEF Busy, Installing, Swapping
      <2>3. CASE SwapOut(w)
            <3>1. thread[w].pc = "swap_out" /\ plugin # {}
                  BY <2>3 DEF SwapOut, Swap
            <3>2. HoldsWhole(plugin)
                  BY <1>2, <3>1 DEF HoldsWhole, PluginWhole
            <3>3. CASE previous' = plugin /\ plugin' = {} /\ GoTo(w, "swap_in")
                  <4>1. thread'[w].pc = "swap_in"
                        BY <3>3, Went
                  <4>2. \A o \in Workers : ~Undoing(o)'
                        BY <2>1, <2>2, <3>1, <4>1 DEF Busy, Installing, Swapping
                  <4> QED BY <3>2, <3>3, <4>2
            <3>4. CASE plugin' = plugin
                  BY <3>1, <3>4
            <3> QED BY <2>3, <3>3, <3>4 DEF SwapOut
      <2>4. CASE SwapIn(w)
            <3>1. /\ thread[w].pc = "swap_in" /\ previous' = previous
                  /\ HoldsWhole(previous) /\ HoldsWhole(staging.staged)
                  BY <2>4 DEF SwapIn, Swap
            <3>2. thread'[w].pc \in {"clean_up", "roll_back"}
                  BY <2>4, Went DEF SwapIn
            <3>3. \A o \in Workers : ~Undoing(o)'
                  BY <2>1, <2>2, <3>1, <3>2 DEF Busy, Installing, Swapping
            <3> QED BY <3>1, <3>3
      <2>5. CASE RollBack(w)
            <3>1. thread[w].pc = "roll_back" /\ HoldsWhole(previous) /\ failures > 0
                  BY <2>5 DEF RollBack, Swap
            <3>2. previous # {}
                  BY <3>1 DEF HoldsWhole
            <3> QED BY <1>2, <2>5, <3>1, <3>2 DEF RollBack, Fails
      <2>6. CASE RemovesPrevious(w)
            <3>1. plugin' = plugin /\ failures' = failures
                  BY <2>6, PreviousRemoved
            <3>2. failures <= 1 => plugin # {}
                  BY <1>1, <2>6 DEF RemovesPrevious, Swap
            <3> QED BY <3>1, <3>2
      <2>7. CASE \/ RemovesStaging(w) \/ Tidies(w)
                 \/ Create(w) \/ Unpack(w) \/ CheckUnpacked(w) \/ Move(w)
                 \/ Recheck(w) \/ Verify(w)
            <3>1. plugin' = plugin /\ previous' = previous /\ failures' = failures
                  BY <2>7, StagingRemoved
                     DEF Tidies, Create, Unpack, CheckUnpacked, Move, Recheck, Verify, disk
            <3>2. ~Undoing(w)'
                  <4>1. CASE RemovesStaging(w)
                        BY <4>1, Went DEF RemovesStaging, RemoveStaging
                  <4>2. CASE Tidies(w) \/ Create(w) \/ Unpack(w) \/ CheckUnpacked(w)
                        BY <4>2, Went DEF Tidies, Create, Unpack, CheckUnpacked
                  <4>3. CASE Move(w) \/ Recheck(w) \/ Verify(w)
                        BY <4>3, Went DEF Move, Recheck, Verify
                  <4> QED BY <2>7, <4>1, <4>2, <4>3
            <3> QED BY <1>1, <2>1, <3>1, <3>2
      <2> QED BY <1>4, <2>3, <2>4, <2>5, <2>6, <2>7 DEF DiskAction
<1> QED BY <1>3, <1>4, DiskOrSettles

-----------------------------------------------------------------------------
LEMMA StillWaits ==
    ASSUME plugin' = plugin, staging'.folder \in {staging.folder, "none"},
           \A b \in staging'.staged : b.whole => b \in staging.staged
    PROVE  Waits' => Waits
<1> QED BY DEF Waits

NewerWaits ==
    /\ staging.folder = "private" /\ plugin # {} /\ HoldsWhole(staging.staged)
    /\ VersionOf(staging.staged) > VersionOf(plugin) /\ VersionOf(plugin) \in Nat

LEMMA WaitingVersion == DiskTyped /\ Waits => NewerWaits
<1> SUFFICES ASSUME DiskTyped, Waits PROVE NewerWaits
    OBVIOUS
<1>1. PICK b \in staging.staged, p \in plugin : b.whole /\ b.version > p.version
      BY DEF Waits
<1>2. VersionOf(staging.staged) = b.version /\ VersionOf(plugin) = p.version
      BY BundleOfPath DEF DiskTyped
<1>3. VersionOf(plugin) \in Nat
      BY VersionTyped DEF DiskTyped
<1> QED BY <1>1, <1>2, <1>3 DEF Waits, HoldsWhole, NewerWaits

LEMMA WaitingVersionNext == (DiskTyped /\ Waits => NewerWaits)'
<1> QED BY WaitingVersion, PTL

(* A thread that finds nothing to install leaves nothing that waits.       *)
LEMMA DecidedStep ==
    ASSUME ThreadsTyped, DiskTyped, CountsTyped, Locks, Places, Apart, Swap, Decided,
           [Next]_vars
    PROVE  Decided'
<1> USE DEF At
<1> DEFINE Leaving == {"reject", "clean_up", "unlink"}
           Goal == \A h \in Helpers : failures' = 0 /\ thread'[Main(h)].pc \in Leaving => ~Waits'
<1>0. SUFFICES Goal
      BY DEF Decided, Main
<1>1. CASE Settles
      <2>1. failures' = failures /\ (Waits' => Waits)
            BY <1>1, StillWaits DEF Settles, disk
      <2>2. \A w \in Workers : thread'[w].pc \in Leaving => thread[w].pc \in Leaving
            BY <1>1 DEF Settles, Settled
      <2> QED BY <2>1, <2>2, WorkerForms DEF Decided
<1>2. ASSUME NEW w \in Workers, DiskAction(w), NEW h \in Helpers, failures' = 0,
             thread'[Main(h)].pc \in Leaving, Waits'
      PROVE  FALSE
      <2>1. DiskTyped'
            BY DiskTypedStep
      <2>2. /\ staging'.folder = "private" /\ plugin' # {} /\ HoldsWhole(staging'.staged)
            /\ VersionOf(staging'.staged) > VersionOf(plugin') /\ VersionOf(plugin') \in Nat
            BY <1>2, <2>1, WaitingVersionNext DEF NewerWaits, HoldsWhole, VersionOf
      <2>3. Main(h) \in Workers
            BY WorkerForms
      <2>4. failures = 0
            BY <1>2, FailuresGrow DEF CountsTyped
      <2>5. CASE w # Main(h)
            <3>1. thread'[Main(h)] = thread[Main(h)]
                  BY <1>2, <2>3, <2>5, OthersStay
            <3>2. thread[Main(h)].pc \in Busy /\ ~Waits
                  BY <1>2, <2>4, <3>1 DEF Busy, Installing, Decided
            <3>3. thread[w].pc \notin Busy
                  BY <2>3, <2>5, <3>2, OneBusy
            <3>4. RemovesStaging(w) \/ RemovesPrevious(w) \/ Tidies(w)
                  <4>1. ~(Create(w) \/ Unpack(w) \/ CheckUnpacked(w) \/ Move(w))
                        BY <3>3 DEF Busy, Staging, Create, Unpack, CheckUnpacked, Move
                  <4>2. ~(Recheck(w) \/ Verify(w) \/ SwapOut(w) \/ SwapIn(w) \/ RollBack(w))
                        BY <3>3 DEF Busy, Installing, Swapping, Recheck, Verify, SwapOut, SwapIn, RollBack
                  <4> QED BY <1>2, <4>1, <4>2 DEF DiskAction
            <3>5. /\ plugin' = plugin /\ staging'.folder \in {staging.folder, "none"}
                  /\ \A b \in staging'.staged : b.whole => b \in staging.staged
                  BY <3>4, StagingRemoved, PreviousRemoved DEF Tidies, disk
            <3> QED BY <1>2, <3>2, <3>5, StillWaits
      <2>6. CASE w = Main(h)
            <3>1. CASE RemovesStaging(w)
                  <4>1. thread[w].pc \in Leaving \cup {"abandon"}
                        BY <1>2, <2>6, <3>1, Went DEF RemovesStaging, RemoveStaging
                  <4>2. thread[w].pc \in Leaving
                        BY <2>6, <4>1 DEF Places, Staging
                  <4> QED BY <1>2, <2>4, <2>6, <3>1, <4>2, StagingRemoved, StillWaits DEF Decided
            <3>2. CASE RemovesPrevious(w)
                  <4>1. thread[w].pc = "undo"
                        BY <1>2, <2>6, <3>2, Went DEF RemovesPrevious, RemovePrevious
                  <4> QED BY <1>2, <2>4, <4>1 DEF Swap
            <3>3. CASE Tidies(w)
                  BY <1>2, <2>6, <3>3, Went DEF Tidies
            <3>4. CASE Create(w) \/ Unpack(w) \/ CheckUnpacked(w) \/ Move(w)
                  BY <2>6, <3>4 DEF Create, Unpack, CheckUnpacked, Move, Places, Staging
            <3>5. CASE Recheck(w)
                  <4>1. plugin' = plugin /\ staging' = staging
                        BY <3>5 DEF Recheck, disk
                  <4>2. VersionOf(staging.staged) # 0 /\ CanInstall
                        BY <2>2, <4>1 DEF CanInstall, VersionOf
                  <4>3. GoTo(w, "verify")
                        BY <3>5, <4>2 DEF Recheck
                  <4> QED BY <1>2, <2>6, <4>3, Went
            <3>6. CASE Verify(w)
                  <4>1. staging' = staging
                        BY <3>6 DEF Verify, disk
                  <4>2. GoTo(w, "clear_previous")
                        BY <2>2, <3>6, <4>1 DEF Verify, HoldsWhole
                  <4> QED BY <1>2, <2>6, <4>2, Went
            <3>7. CASE SwapOut(w)
                  BY <1>2, <2>6, <3>7, Went DEF SwapOut
            <3>8. CASE SwapIn(w)
                  <4>1. CASE staging' = [staging EXCEPT !.staged = {}]
                        BY <2>2, <4>1 DEF HoldsWhole, DiskTyped
                  <4>2. CASE GoTo(w, "roll_back")
                        BY <1>2, <2>6, <4>2, Went
                  <4> QED BY <3>8, <4>1, <4>2 DEF SwapIn
            <3>9. CASE RollBack(w)
                  BY <1>2, <2>6, <3>9, Went DEF RollBack
            <3> QED BY <1>2, <3>1, <3>2, <3>3, <3>4, <3>5, <3>6, <3>7, <3>8, <3>9 DEF DiskAction
      <2> QED BY <2>5, <2>6
<1> QED BY <1>1, <1>2, DiskOrSettles

-----------------------------------------------------------------------------
(* A step of the lock starts no thread, and leaves all others but those of *)
(* a process that ends.                                                    *)
LEMMA LockLeaves ==
    ASSUME ThreadsTyped, NEW w \in Workers,
           OpenLock(w) \/ FlockLock(w) \/ CompareLock(w) \/ Unlock(w)
    PROVE  /\ thread[w].pc \in {"open", "flock", "compare", "unlink", "close"}
           /\ \A o \in Workers \ {w} :
                  \/ thread'[o] = thread[o]
                  \/ thread'[o].pc = "gone" /\ w[2] = "main" /\ o[1] = w[1]
<1>1. thread[w].pc \in {"open", "flock", "compare", "unlink", "close"}
      BY DEF OpenLock, FlockLock, CompareLock, Unlock, At
<1>2. CASE ~GiveUpLock(w)
      <2>1. \A o \in Workers \ {w} : thread'[o] = thread[o]
            BY <1>2 DEF OpenLock, FlockLock, CompareLock, Unlock, GoTo, ThreadsTyped
      <2> QED BY <1>1, <2>1
<1>3. CASE GiveUpLock(w) /\ w[2] = "main"
      BY <1>1, <1>3, LockGivenUp, ProcessEnds, GoneTyped
<1>4. CASE GiveUpLock(w) /\ w[2] # "main"
      BY <1>1, <1>4, LockGivenUp DEF ThreadsTyped
<1> QED BY <1>2, <1>3, <1>4

LEMMA AccompaniedStep ==
    ASSUME ThreadsTyped, CountsTyped, Places, Accompanied, [Next]_vars
    PROVE  Accompanied'
<1> USE DEF At
<1> DEFINE Off == {"gone", "done"}
<1>0. SUFFICES ASSUME ~cut', NEW h \in Helpers, thread'[Download(h)].pc \notin Off
               PROVE  loaded'[h] # 0
      BY DEF Accompanied, Download
<1>1. /\ Download(h) \in Workers /\ Download(h)[1] = h /\ Download(h)[2] = "download"
      /\ \A g \in Helpers : Main(g) \in Workers /\ Main(g) # Download(h) /\ Main(g)[1] = g
      /\ \A g \in Helpers : Download(g) = Download(h) => g = h
      BY WorkerForms
<1>2. CASE thread[Download(h)].pc \notin Off /\ loaded'[h] = loaded[h] /\ (cut' = cut \/ cut' = TRUE)
      BY <1>0, <1>2 DEF Accompanied
<1>3. ASSUME NEW w \in Workers, LockQuiet,
             OpenLock(w) \/ FlockLock(w) \/ CompareLock(w) \/ Unlock(w)
      PROVE  loaded'[h] # 0
      <2>1. thread[Download(h)].pc \notin Off
            BY <1>0, <1>1, <1>3, LockLeaves
      <2> QED BY <1>2, <1>3, <2>1 DEF LockQuiet
<1>4. ASSUME NEW w \in Workers, DiskQuiet, DiskAction(w) PROVE loaded'[h] # 0
      <2>1. thread[w].pc \notin Off
            BY <1>4 DEF DiskAction, RemovesStaging, RemovesPrevious, Tidies, Create, Unpack,
               CheckUnpacked, Move, Recheck, Verify, SwapOut, SwapIn, RollBack
      <2>2. thread[Download(h)].pc \notin Off
            BY <1>0, <1>1, <1>4, <2>1, OthersStay
      <2> QED BY <1>2, <1>4, <2>2 DEF DiskQuiet, session
<1>5. ASSUME NEW g \in Helpers, StartOBS(g) PROVE loaded'[h] # 0
      <2>1. thread'[Download(h)] = thread[Download(h)]
            BY <1>1, <1>5 DEF StartOBS, GoTo, ThreadsTyped
      <2>2. h # g /\ ~NobodyThere
            BY <1>0, <1>5, <2>1 DEF StartOBS, Places, NobodyThere
      <2>3. loaded'[h] = loaded[h] /\ (cut' = cut \/ cut' = TRUE)
            BY <1>0, <1>5, <2>2 DEF StartOBS, CountsTyped
      <2> QED BY <1>0, <1>2, <2>1, <2>3
<1>6. ASSUME NEW g \in Helpers, Launch(g) \/ Offer(g) PROVE loaded'[h] # 0
      <2>1. thread'[Download(h)] = thread[Download(h)] /\ loaded' = loaded /\ cut' = cut
            BY <1>1, <1>6 DEF Launch, Offer, GoTo, ThreadsTyped
      <2> QED BY <1>0, <1>2, <2>1
<1>7. ASSUME NEW g \in Helpers, Accept(g) PROVE loaded'[h] # 0
      <2>1. loaded' = loaded /\ cut' = (cut \/ loaded[g] = 0)
            BY <1>7 DEF Accept
      <2>2. CASE g = h
            BY <1>0, <2>1, <2>2
      <2>3. CASE g # h
            <3>1. thread'[Download(h)] = thread[Download(h)]
                  BY <1>1, <1>7, <2>3 DEF Accept, GoTo, ThreadsTyped
            <3>2. ~cut
                  BY <1>0, <2>1
            <3> QED BY <1>0, <2>1, <3>1, <3>2 DEF Accompanied
      <2> QED BY <2>2, <2>3
<1>8. ASSUME NEW g \in Helpers, QuitOBS(g) PROVE loaded'[h] # 0
      <2>1. /\ thread' = thread /\ loaded' = [loaded EXCEPT ![g] = 0]
            /\ cut' = (cut \/ ~(thread[Download(g)].pc \in Off))
            BY <1>8 DEF QuitOBS
      <2>2. ~cut /\ g # h
            BY <1>0, <2>1
      <2> QED BY <1>0, <2>1, <2>2 DEF Accompanied, CountsTyped
<1>9. ASSUME NEW g \in Helpers, ParentGone(g) PROVE loaded'[h] # 0
      <2>1. thread[Download(h)].pc \notin Off
            <3>1. CASE EndProcess(g)
                  BY <1>0, <1>1, <3>1, ProcessEnds, GoneTyped
            <3>2. CASE GoTo(Main(g), "open")
                  BY <1>0, <1>1, <3>2 DEF GoTo, ThreadsTyped
            <3> QED BY <1>9, <3>1, <3>2 DEF ParentGone
      <2> QED BY <1>2, <1>9, <2>1 DEF ParentGone
<1>10. ASSUME NEW g \in Helpers, Crash(g) PROVE FALSE
      BY <1>0, <1>10 DEF Crash
<1>11. CASE UNCHANGED vars
      BY <1>0, <1>2, <1>11 DEF vars
<1> QED BY <1>3, <1>4, <1>5, <1>6, <1>7, <1>8, <1>9, <1>10, <1>11, StepKinds DEF DiskAction

-----------------------------------------------------------------------------
LEMMA DownloaderThere ==
    ASSUME Places, Accompanied, ~cut, NEW w \in Workers, w[2] = "download",
           thread[w].pc \notin {"gone", "done"}
    PROVE  thread[Main(w[1])].pc \in Launching /\ w[1] \in Helpers
<1>1. w[1] \in Helpers /\ w = Download(w[1])
      BY WorkerForms
<1>2. loaded[w[1]] # 0
      BY <1>1 DEF Accompanied
<1> QED BY <1>1, <1>2 DEF Places, At

(* A step on the disk leaves its own helper looking, or nothing waits.     *)
LEMMA DiskLooks ==
    ASSUME ThreadsTyped, DiskTyped, CountsTyped, Locks, Places, Apart, Swap, Decided, Accompanied,
           [Next]_vars, NEW w \in Workers, DiskQuiet, DiskAction(w),
           ~cut', failures' = 0, Waits'
    PROVE  \E h \in Helpers : WillLook(h)'
<1>1. cut' = cut /\ lock_file' = lock_file
      BY DEF DiskQuiet, session
<1>2. thread[w].pc \notin {"gone", "done"}
      BY DEF At, DiskAction, RemovesStaging, RemovesPrevious, Tidies, Create, Unpack,
         CheckUnpacked, Move, Recheck, Verify, SwapOut, SwapIn, RollBack
<1>3. CASE w[2] = "download"
      <2>1. thread[Main(w[1])].pc \in Launching /\ w[1] \in Helpers
            BY <1>1, <1>2, <1>3, DownloaderThere
      <2>2. thread'[Main(w[1])] = thread[Main(w[1])]
            BY <1>3, <2>1, OthersStay, WorkerForms
      <2> QED BY <2>1, <2>2 DEF WillLook, Looking, Main
<1>4. CASE w[2] # "download"
      <2>1. w = Main(w[1]) /\ w[1] \in Helpers /\ thread[w].pc \notin Staging
            BY <1>4, WorkerForms DEF Places
      <2>2. thread'[w].pc \in Installing \cup {"unlink"} \cup Launching
            <3>1. CASE thread' = thread
                  <4>1. thread[w].pc \in Installing \cup Launching
                        BY <2>1 DEF At, DiskAction, RemovesStaging, RemovesPrevious, Tidies, Create,
                           Unpack, CheckUnpacked, Move, Recheck, Verify, SwapOut, SwapIn, RollBack,
                           Staging, Installing, Swapping, Launching
                  <4> QED BY <3>1, <4>1
            <3>2. CASE thread' # thread
                  <4>1. /\ Staging \cup {"unlink"} \subseteq Pcs
                        /\ Installing \cup {"unlink"} \subseteq Pcs
                        /\ Launching \ {"launch"} \subseteq Pcs
                        BY DEF Pcs, Launching
                  <4>2. /\ thread[w].pc # "unlink"
                        /\ \/ Shifts(w, Staging \cup {"unlink"}) \/ Shifts(w, Installing \cup {"unlink"})
                           \/ Shifts(w, Launching \ {"launch"})
                        BY <3>2, DiskMoves DEF DiskAction
                  <4> QED BY <2>1, <4>1, <4>2, Shifted
            <3> QED BY <3>1, <3>2
      <2>3. thread'[w].pc \notin {"reject", "clean_up", "unlink"}
            BY <2>1, DecidedStep DEF Decided, Main
      <2>4. thread'[w].pc \notin {"swap_in", "roll_back", "undo"}
            <3>1. Swap'
                  BY SwapStep
            <3>2. plugin' # {}
                  BY DEF Waits
            <3> QED BY <3>1, <3>2 DEF Swap, At
      <2>5. thread'[w].pc \in Looking
            BY <2>2, <2>3, <2>4 DEF Looking, Installing, Swapping
      <2> QED BY <2>1, <2>5 DEF Looking, WillLook, Main
<1> QED BY <1>3, <1>4

(* Whoever has the lock file of the moment, or goes out of its way, leaves *)
(* another helper that looks: its own main thread while OBS runs, or the   *)
(* thread that installs.                                                   *)
LEMMA HolderLooks ==
    ASSUME ThreadsTyped, Locks, Places, Swap, Decided, Accompanied, ~cut, failures = 0, Waits,
           NEW o \in Workers, thread[o].locked, ~At(o, "close"), thread[o].file = lock_file
    PROVE  WillLook(o[1])
<1> USE DEF At
<1>1. thread[o].pc \in Busy \cup {"compare"}
      BY Groups DEF ThreadsTyped
<1>2. CASE o[2] = "download"
      <2>1. thread[o].pc \notin {"gone", "done"}
            BY <1>1 DEF Busy, Staging, Installing, Swapping
      <2> QED BY <1>2, <2>1, DownloaderThere DEF WillLook, Looking
<1>3. CASE o[2] # "download"
      <2>1. o = Main(o[1]) /\ o[1] \in Helpers /\ thread[o].pc \notin Staging
            BY <1>3, WorkerForms DEF Places
      <2>2. thread[o].pc \notin {"reject", "clean_up", "unlink"}
            BY <2>1 DEF Decided
      <2>3. thread[o].pc \notin {"swap_in", "roll_back", "undo"}
            BY DEF Swap, Waits
      <2> QED BY <1>1, <2>1, <2>2, <2>3 DEF WillLook, Looking, Busy, Installing, Swapping
<1> QED BY <1>2, <1>3

LEMMA LockLooks ==
    ASSUME ThreadsTyped, Locks, Places, Swap, Decided, Accompanied, NEW w \in Workers,
           OpenLock(w) \/ FlockLock(w) \/ CompareLock(w) \/ Unlock(w),
           ~cut, failures = 0, Waits, NEW h \in Helpers, WillLook(h)
    PROVE  \E g \in Helpers : WillLook(g)'
<1> USE DEF At
<1>a. thread \in [Workers -> Thread]
      BY DEF ThreadsTyped, Thread
<1>b. /\ Main(h) \in Workers /\ Main(h)[1] = h /\ Main(h)[2] = "main"
      /\ \A g \in Helpers : Main(g) \in Workers /\ Main(g)[1] = g /\ Main(g)[2] = "main"
      BY WorkerForms
<1>c. ASSUME NEW g \in Helpers, thread'[Main(g)] = thread[Main(g)], WillLook(g),
             lock_file' = lock_file \/ thread[Main(g)].pc \in Looking
      PROVE  WillLook(g)'
      BY <1>c DEF WillLook, Main
<1>1. CASE OpenLock(w)
      <2>1. /\ thread' = [thread EXCEPT ![w].pc = "flock", ![w].file = lock_file']
            /\ lock_file' = (IF lock_file = 0 THEN FreshFile ELSE lock_file)
            BY <1>1 DEF OpenLock
      <2>2. CASE w = Main(h)
            <3>1. thread'[Main(h)].pc = "flock" /\ thread'[Main(h)].file = lock_file'
                  BY <1>a, <1>b, <2>1, <2>2 DEF Thread
            <3> QED BY <3>1 DEF WillLook, Main
      <2>3. CASE w # Main(h)
            <3>1. thread'[Main(h)] = thread[Main(h)]
                  BY <1>a, <1>b, <2>1, <2>3
            <3>2. lock_file' = lock_file \/ thread[Main(h)].pc \in Looking
                  BY <1>b, <2>1 DEF Locks, WillLook
            <3> QED BY <1>c, <3>1, <3>2
      <2> QED BY <2>2, <2>3
<1>2. CASE (FlockLock(w) \/ CompareLock(w)) /\ ~GiveUpLock(w)
      <2>1. lock_file' = lock_file
            BY <1>2 DEF FlockLock, CompareLock
      <2>2. CASE w = Main(h)
            <3>1. CASE FlockLock(w)
                  <4>1. thread' = [thread EXCEPT ![w].pc = "compare", ![w].locked = TRUE]
                        BY <1>2, <3>1 DEF FlockLock
                  <4>2. thread'[w].pc = "compare" /\ thread'[w].file = thread[w].file
                        BY <1>a, <4>1 DEF Thread
                  <4>3. thread[w].file = lock_file
                        BY <2>2, <3>1 DEF FlockLock, WillLook, Looking, Launching
                  <4> QED BY <2>1, <2>2, <4>2, <4>3 DEF WillLook, Main
            <3>2. CASE CompareLock(w)
                  <4>1. thread[w].pc = "compare" /\ thread[w].file = lock_file
                        BY <2>2, <3>2 DEF CompareLock, WillLook, Looking, Launching
                  <4>2. GoTo(w, "recheck")
                        BY <1>2, <1>b, <2>2, <3>2, <4>1 DEF CompareLock, FirstStep
                  <4>3. thread'[w].pc = "recheck"
                        BY <4>2, Went
                  <4> QED BY <2>2, <4>3 DEF WillLook, Looking, Main
            <3> QED BY <1>2, <3>1, <3>2
      <2>3. CASE w # Main(h)
            <3>1. thread'[Main(h)] = thread[Main(h)]
                  BY <1>2, <1>a, <1>b, <2>3 DEF FlockLock, CompareLock, GoTo
            <3> QED BY <1>c, <2>1, <3>1
      <2> QED BY <2>2, <2>3
<1>3. ASSUME GiveUpLock(w), NEW g \in Helpers, WillLook(g), w # Main(g) PROVE WillLook(g)'
      <2>1. lock_file' = lock_file
            BY <1>3, LockGivenUp
      <2>2. w[2] = "main" => w = Main(w[1])
            BY WorkerForms
      <2>3. CASE w[2] = "main"
            <3>1. Main(g)[1] # w[1] /\ EndProcess(w[1])
                  BY <1>3, <1>b, <2>2, <2>3, LockGivenUp
            <3>2. thread'[Main(g)] = thread[Main(g)]
                  BY <1>b, <3>1, ProcessEnds
            <3> QED BY <1>3, <1>c, <2>1, <3>2
      <2>4. CASE w[2] # "main"
            <3>1. thread'[Main(g)] = thread[Main(g)]
                  BY <1>3, <1>a, <1>b, <2>4, LockGivenUp
            <3> QED BY <1>3, <1>c, <2>1, <3>1
      <2> QED BY <2>3, <2>4
<1>4. CASE GiveUpLock(w) /\ w # Main(h)
      BY <1>3, <1>4
<1>5. CASE FlockLock(w) /\ GiveUpLock(w) /\ w = Main(h)
      <2>1. thread[w].pc = "flock" /\ thread[w].file = lock_file /\ ~thread[w].locked
            <3>1. thread[w].pc = "flock" /\ thread[w].file = lock_file
                  BY <1>5 DEF FlockLock, WillLook, Looking, Launching
            <3>2. "flock" \notin Busy
                  BY Groups
            <3> QED BY <3>1, <3>2, Groups DEF ThreadsTyped
      <2>2. PICK o \in Workers : thread[o].locked /\ thread[o].file = thread[w].file
            <3>1. thread' # [thread EXCEPT ![w].pc = "compare", ![w].locked = TRUE]
                  <4>1. thread'[w].pc = "gone"
                        BY <1>5, <1>b, LockGivenUp, ProcessEnds, GoneTyped
                  <4>2. [thread EXCEPT ![w].pc = "compare", ![w].locked = TRUE][w].pc = "compare"
                        BY <1>a DEF Thread
                  <4> QED BY <4>1, <4>2
            <3> QED BY <1>5, <3>1 DEF FlockLock
      <2>3. ~At(o, "close")
            BY <2>1, <2>2 DEF Locks
      <2>4. WillLook(o[1]) /\ o[1] \in Helpers
            BY <2>1, <2>2, <2>3, HolderLooks, WorkerForms
      <2>5. o[1] # h
            <3>1. CASE o[2] = "main"
                  BY <1>5, <2>1, <2>2, <3>1, WorkerForms
            <3>2. CASE o[2] # "main"
                  <4>1. o[2] = "download" /\ thread[o].pc \notin {"gone", "done"}
                        <5>1. "gone" \notin Busy /\ "done" \notin Busy
                              BY DEF Busy, Staging, Installing, Swapping
                        <5> QED BY <2>2, <3>2, <5>1, WorkerForms, Groups DEF ThreadsTyped
                  <4>2. thread[Main(o[1])].pc \in Launching
                        BY <4>1, DownloaderThere
                  <4> QED BY <1>5, <2>1, <4>2 DEF Launching
            <3> QED BY <3>1, <3>2
      <2>6. w # Main(o[1])
            BY <1>5, <1>b, <2>4, <2>5
      <2> QED BY <1>3, <1>5, <2>4, <2>6
<1>6. CASE (CompareLock(w) \/ (At(w, "close") /\ Unlock(w))) /\ GiveUpLock(w) /\ w = Main(h)
      <2>1. thread'[w].pc = "gone"
            BY <1>6, <1>b, LockGivenUp, ProcessEnds, GoneTyped
      <2>2. ~GoTo(w, FirstStep(w))
            <3>1. FirstStep(w) # "gone"
                  BY DEF FirstStep
            <3> QED BY <2>1, <3>1, Went
      <2>3. thread[w].pc = "close" \/ (thread[w].pc = "compare" /\ thread[w].file # lock_file)
            BY <1>6, <2>2 DEF CompareLock
      <2> QED BY <1>6, <2>3 DEF WillLook, Looking, Launching
<1>7. CASE At(w, "unlink") /\ lock_file' = 0 /\ GoTo(w, "close")
      <2>1. w[2] = "download"
            <3>1. CASE w[2] # "download"
                  <4>1. w = Main(w[1]) /\ w[1] \in Helpers
                        BY <3>1, WorkerForms
                  <4> QED BY <1>7, <4>1 DEF Decided
            <3> QED BY <3>1
      <2>2. thread[Main(w[1])].pc \in Launching /\ w[1] \in Helpers
            BY <1>7, <2>1, DownloaderThere
      <2>3. thread'[Main(w[1])] = thread[Main(w[1])]
            BY <1>7, <1>a, <1>b, <2>1, <2>2 DEF GoTo
      <2> QED BY <1>c, <2>2, <2>3 DEF WillLook, Looking
<1>8. OpenLock(w) \/ FlockLock(w) \/ CompareLock(w)
      \/ (At(w, "unlink") /\ lock_file' = 0 /\ GoTo(w, "close"))
      \/ (At(w, "close") /\ Unlock(w) /\ GiveUpLock(w))
      BY DEF Unlock
<1> QED BY <1>1, <1>2, <1>4, <1>5, <1>6, <1>7, <1>8

LEMMA WatchedStep ==
    ASSUME Watched, [Next]_vars, ThreadsTyped, DiskTyped, CountsTyped, Locks, Places,
           Apart, Swap, Order, Decided, Accompanied
    PROVE  Watched'
<1>1. Decided' /\ Accompanied'
      BY DecidedStep, AccompaniedStep
<1>2. SUFFICES ASSUME ~cut', failures' = 0, Waits' PROVE \E h \in Helpers : WillLook(h)'
      BY <1>1 DEF Watched
<1>3. ~cut /\ failures = 0 /\ Waits => \E h \in Helpers : WillLook(h)
      BY DEF Watched
<1>4. ASSUME NEW w \in Workers, LockQuiet,
             OpenLock(w) \/ FlockLock(w) \/ CompareLock(w) \/ Unlock(w)
      PROVE  \E h \in Helpers : WillLook(h)'
      <2>1. ~cut /\ failures = 0 /\ Waits
            BY <1>2, <1>4, StillWaits DEF LockQuiet, disk
      <2>2. PICK h \in Helpers : WillLook(h)
            BY <1>3, <2>1
      <2> QED BY <1>4, <2>1, <2>2, LockLooks
<1>5. ASSUME NEW w \in Workers, DiskQuiet, DiskAction(w)
      PROVE  \E h \in Helpers : WillLook(h)'
      BY <1>2, <1>5, DiskLooks
<1>6. ASSUME NEW g \in Helpers, \/ StartOBS(g) \/ Launch(g) \/ Offer(g) \/ Accept(g)
                                \/ QuitOBS(g) \/ ParentGone(g) \/ Crash(g)
      PROVE  \E h \in Helpers : WillLook(h)'
      <2> USE DEF At
      <2>1. Waits /\ failures = 0 /\ UNCHANGED <<disk, failures, lock_file>>
            <3>1. UNCHANGED <<disk, failures, lock_file>>
                  BY <1>6 DEF StartOBS, Launch, Offer, Accept, QuitOBS, ParentGone, Crash
            <3> QED BY <1>2, <3>1, StillWaits DEF disk
      <2>2. Main(g) \in Workers /\ \A h \in Helpers : Main(h) \in Workers /\ Main(h) # Download(g)
            BY WorkerForms
      <2>3. ASSUME NEW pc \in {"launch", "tidy", "open"}, GoTo(Main(g), pc)
            PROVE  \E h \in Helpers : WillLook(h)'
            <3>1. thread'[Main(g)].pc = pc
                  BY <2>2, <2>3, Went
            <3> QED BY <3>1 DEF WillLook, Looking, Launching, Main
      <2>4. plugin # {} /\ VersionOf(staging.staged) > VersionOf(plugin) /\ VersionOf(plugin) \in Nat
            BY <2>1, WaitingVersion DEF NewerWaits
      <2>5. CASE StartOBS(g) \/ Launch(g)
            BY <2>3, <2>4, <2>5 DEF StartOBS, Launch
      <2>6. CASE Offer(g) \/ Accept(g) \/ QuitOBS(g)
            <3>1. ~cut
                  BY <1>2, <2>6 DEF Offer, Accept, QuitOBS
            <3>2. PICK h \in Helpers : WillLook(h)
                  BY <1>3, <2>1, <3>1
            <3>3. thread'[Main(h)] = thread[Main(h)]
                  BY <2>2, <2>6 DEF Offer, Accept, QuitOBS, GoTo, ThreadsTyped
            <3> QED BY <2>1, <3>2, <3>3 DEF WillLook, Main
      <2>7. CASE ParentGone(g)
            <3>1. VersionOf(plugin) >= running[g] /\ running[g] \in Nat
                  BY <2>4 DEF Order, OldEnough, CountsTyped
            <3>2. VersionOf(staging.staged) \in Nat
                  BY VersionTyped DEF DiskTyped
            <3>3. GoTo(Main(g), "open")
                  BY <2>4, <2>7, <3>1, <3>2 DEF ParentGone
            <3> QED BY <2>3, <3>3
      <2>8. CASE Crash(g)
            BY <1>2, <2>8 DEF Crash
      <2> QED BY <1>6, <2>5, <2>6, <2>7, <2>8
<1>7. CASE UNCHANGED vars
      <2>1. ~cut /\ failures = 0 /\ Waits
            BY <1>2, <1>7, StillWaits DEF vars
      <2> QED BY <1>3, <1>7, <2>1 DEF vars, WillLook, Main
<1> QED BY <1>4, <1>5, <1>6, <1>7, StepKinds DEF DiskAction

-----------------------------------------------------------------------------
(* The invariant that holds whatever overlaps, and the one of the disk.    *)
Inv == ThreadsTyped /\ DiskTyped /\ CountsTyped /\ Locks /\ Places
SwapInv == Apart /\ Swap /\ Order /\ Kept

LEMMA InitThreads ==
    ASSUME Init
    PROVE  \A w \in Workers : thread[w] = Gone
<1> QED BY DEF Init

LEMMA InitInv == Init => Inv
<1> SUFFICES ASSUME Init PROVE Inv
    OBVIOUS
<1>1. ThreadsTyped
      <2>1. "gone" \notin Busy \cup {"compare", "close"}
            BY DEF Busy, Staging, Installing, Swapping
      <2>2. 0 \in Files
            BY WorkersFinite DEF Files
      <2> QED BY <2>1, <2>2, GoneTyped, Groups DEF Init, ThreadsTyped, Thread
<1>2. DiskTyped
      <2>1. Whole(1) \in Paths
            BY WholePath
      <2> QED BY <2>1, PathForms DEF Init, DiskTyped, NoStaging
<1>3. CountsTyped
      <2>1. 0 \in 0..LastVersion /\ 0 \in 0..MaxSessions /\ 0 \in 0..MaxCrashes /\ 0 \in 0..MaxFailures
            OBVIOUS
      <2>2. cut \in BOOLEAN
            BY DEF Init
      <2> QED BY <2>1, <2>2 DEF Init, CountsTyped
<1>4. Locks
      <2>1. "gone" \notin Busy
            BY DEF Busy, Staging, Installing, Swapping
      <2> QED BY <2>1, InitThreads, GoneTyped DEF Locks, At
<1>5. Places
      <2>1. \A h \in Helpers : thread[Main(h)].pc = "gone" /\ thread[Download(h)].pc = "gone"
            BY InitThreads, GoneTyped, WorkerForms
      <2> QED BY <2>1 DEF Places, At, Init, Staging, Installing, Swapping, Launching
<1> QED BY <1>1, <1>2, <1>3, <1>4, <1>5 DEF Inv

LEMMA NextInv == Inv /\ [Next]_vars => Inv'
<1> SUFFICES ASSUME Inv, [Next]_vars PROVE Inv'
    OBVIOUS
<1>1. ThreadsTyped' /\ DiskTyped' /\ CountsTyped'
      BY ThreadsStep, DiskTypedStep, CountsStep DEF Inv
<1>2. Locks' /\ Places'
      BY LocksStep, PlacesStep DEF Inv
<1> QED BY <1>1, <1>2 DEF Inv

LEMMA InvHolds == Spec => []Inv
<1> QED BY InitInv, NextInv, PTL DEF Spec

LEMMA InitSwap == Init => SwapInv
<1> SUFFICES ASSUME Init PROVE SwapInv
    OBVIOUS
<1>1. \A w \in Workers : thread[w].pc = "gone"
      BY InitThreads, GoneTyped
<1>2. VersionOf(plugin) = 1 /\ plugin = {[version |-> 1, whole |-> TRUE]} /\ previous = {}
      BY WholePath DEF Init, Whole
<1>3. Apart
      BY <1>1 DEF Apart
<1>4. Swap
      BY <1>1, <1>2 DEF Swap, PluginWhole, Init, NoStaging, At
<1>5. Order
      BY <1>1, <1>2 DEF Order, OldEnough, Init
<1>6. Kept
      BY <1>1, <1>2 DEF Kept, At
<1> QED BY <1>3, <1>4, <1>5, <1>6 DEF SwapInv

LEMMA NextSwap == ~SwapOverlaps /\ Inv /\ SwapInv /\ [Next]_vars => SwapInv'
<1> SUFFICES ASSUME ~SwapOverlaps, Inv, SwapInv, [Next]_vars PROVE SwapInv'
    OBVIOUS
<1>1. Apart'
      BY ApartStep DEF Inv, SwapInv
<1>2. Swap'
      BY SwapStep DEF Inv, SwapInv
<1>3. Order'
      BY OrderStep DEF Inv, SwapInv
<1>4. Kept'
      BY KeptStep DEF Inv, SwapInv
<1> QED BY <1>1, <1>2, <1>3, <1>4 DEF SwapInv

LEMMA SwapHolds == ASSUME ~SwapOverlaps PROVE Spec => []SwapInv
<1>1. SwapInv /\ Inv /\ [Next]_vars => SwapInv'
      BY NextSwap
<1> QED BY <1>1, InitSwap, InvHolds, PTL DEF Spec

(* All variables keep their types: the numbers of files, versions and      *)
(* tries stay in their ranges, and a thread has a lock exactly while it    *)
(* works, compares or closes.                                              *)
THEOREM UpdaterTypeCorrect == Spec => []TypeOK
<1>1. Inv => TypeOK
      BY TypeParts DEF Inv
<1> QED BY <1>1, InvHolds, PTL

(* At most one thread of all helpers works on the folders at a time, for   *)
(* any number of helpers that start, end and are killed at any moment: a   *)
(* lock file that is removed and made again never lets two threads in.     *)
THEOREM OneHolderAlways == Spec => []OneHolder
<1>1. Inv => OneHolder
      BY OneBusy, Groups DEF Inv, OneHolder
<1> QED BY <1>1, InvHolds, PTL

(* Unless a launching helper tidies in the middle of a swap, the plugin's  *)
(* path never holds a bundle that is not whole, however removals, renames  *)
(* and unpackings are cut short.                                           *)
THEOREM WholeAlways == ASSUME ~SwapOverlaps PROVE Spec => []PluginWhole
<1>1. SwapInv => PluginWhole
      BY DEF SwapInv, Swap
<1> QED BY <1>1, SwapHolds, PTL

(* With the same condition no install goes back to an older version, and   *)
(* the kept version is older than the plugin.                              *)
THEOREM NeverBackAlways == ASSUME ~SwapOverlaps PROVE Spec => []NeverBack
<1>1. ASSUME Inv, SwapInv PROVE NeverBack
      <2> SUFFICES ASSUME NEW b \in plugin
                   PROVE  /\ previous # {} => b.version > VersionOf(previous)
                          /\ \A h \in Helpers : b.version >= loaded[h]
          BY DEF NeverBack
      <2>1. VersionOf(plugin) = b.version
            BY <1>1, BundleOfPath DEF Inv, DiskTyped
      <2> QED BY <1>1, <2>1 DEF SwapInv, Order, OldEnough
<1>2. Inv /\ SwapInv => NeverBack
      BY <1>1
<1> QED BY <1>2, InvHolds, SwapHolds, PTL

(* A whole bundle is left as long as at most one rename has failed: a roll *)
(* back that fails as well is the only way to lose every copy.             *)
THEOREM CopyLeftAlways == ASSUME ~SwapOverlaps PROVE Spec => [](failures <= 1 => CopyLeft)
<1>1. ASSUME SwapInv, failures <= 1 PROVE CopyLeft
      <2>1. CASE plugin = {}
            BY <1>1, <2>1 DEF SwapInv, Kept, HoldsWhole, CopyLeft
      <2>2. CASE plugin # {}
            BY <1>1, <2>2 DEF SwapInv, Swap, PluginWhole, CopyLeft
      <2> QED BY <2>1, <2>2
<1>2. SwapInv => (failures <= 1 => CopyLeft)
      BY <1>1
<1> QED BY <1>2, SwapHolds, PTL

LEMMA InitWatched == Init => Watched
<1> SUFFICES ASSUME Init PROVE Watched
    OBVIOUS
<1>1. \A h \in Helpers : thread[Main(h)].pc = "gone" /\ thread[Download(h)].pc = "gone"
      BY InitThreads, GoneTyped, WorkerForms
<1>2. ~Waits
      BY DEF Init, NoStaging, Waits
<1> QED BY <1>1, <1>2 DEF Watched, Decided, Accompanied

(* Once every session and helper has gone, no newer update is left waiting *)
(* unless a helper was cut short or a rename failed: whoever cannot have   *)
(* the lock is outlived by a helper that looks at the update again.        *)
THEOREM NothingWaitsAlways == ASSUME ~SwapOverlaps PROVE Spec => []NothingLeftWaiting
<1>1. Inv /\ SwapInv /\ Watched /\ [Next]_vars => Watched'
      BY WatchedStep DEF Inv, SwapInv, Watched
<1>2. ASSUME Inv, Watched PROVE NothingLeftWaiting
      <2> SUFFICES ASSUME NobodyThere, ~cut, failures = 0, staging.folder = "private",
                          NEW b \in staging.staged, NEW p \in plugin, b.whole
                   PROVE  b.version <= p.version
          BY DEF NothingLeftWaiting
      <2>1. \A h \in Helpers : ~WillLook(h)
            BY DEF NobodyThere, At, WillLook, Looking, Launching
      <2>2. ~(b.version > p.version)
            BY <1>2, <2>1 DEF Watched, Waits
      <2>3. b.version \in Int /\ p.version \in Int
            BY <1>2, BundleOfPath DEF Inv, DiskTyped
      <2> QED BY <2>2, <2>3
<1>3. Inv /\ Watched => NothingLeftWaiting
      BY <1>2
<1> QED BY <1>1, <1>3, InitWatched, InvHolds, SwapHolds, PTL DEF Spec
================================================================================
