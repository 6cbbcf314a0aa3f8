-------------------------------- MODULE Updater --------------------------------
(***************************************************************************)
(* The updater (src/plugin-updater.mm) as the discovery helpers            *)
(* (src/airplay-ble-discovery.mm) use it: one helper process for each OBS  *)
(* session, with a thread that downloads and stages an update and a main   *)
(* thread that installs it once its OBS has gone.  What they share is the  *)
(* plugins folder: the plugin, the staging folder, the folder of the       *)
(* previous version and the lock file.                                     *)
(*                                                                         *)
(* A path holds a set of at most one bundle.  A removal or an unpacking    *)
(* that is cut short leaves a bundle that is not whole, whose version may  *)
(* or may not be readable; 0 is no version.                                *)
(***************************************************************************)
EXTENDS Integers, FiniteSets

CONSTANTS
    Helpers,      \* OBS sessions, and their helpers, that can exist at a time
    LastVersion,  \* releases are versions 2..LastVersion
    SwapOverlaps, \* whether a launching helper may tidy during another one's swap
    MaxSessions,  \* bound: OBS sessions
    MaxCrashes,   \* bound: helpers that are killed
    MaxFailures   \* bound: renames that fail

ASSUME UpdaterAssumption ==
    /\ IsFiniteSet(Helpers) /\ LastVersion \in Nat \ {0} /\ SwapOverlaps \in BOOLEAN
    /\ MaxSessions \in Nat /\ MaxCrashes \in Nat /\ MaxFailures \in Nat

VARIABLES
    plugin,    \* the installed plugin
    staging,   \* .obs-airplay.update: the folder and the bundles in it
    previous,  \* .obs-airplay.previous
    lock_file, \* the file at the lock's path, 0 when there is none
    loaded,    \* the version each OBS session has loaded, 0 without a session
    running,   \* the version of each helper's own bundle
    offer,     \* the release each helper offers, 0 when there is none
    thread,    \* the threads of the helpers
    sessions, crashes, failures,
    cut        \* whether a helper was killed, or its OBS quit during its download,
               \* since no helper was there

vars == <<plugin, staging, previous, lock_file, loaded, running, offer, thread,
          sessions, crashes, failures, cut>>
disk == <<plugin, staging, previous>>
session == <<loaded, running, offer, sessions, crashes, cut>>

Workers == Helpers \X {"main", "download"}
Bundles == [version : 0..LastVersion, whole : BOOLEAN]
Paths == {{}} \cup {{b} : b \in Bundles}

VersionOf(path) == IF path = {} THEN 0 ELSE (CHOOSE b \in path : TRUE).version
Whole(version) == {[version |-> version, whole |-> TRUE]}
Damaged(path) ==
    IF path = {} THEN {{}}
    ELSE {{[version |-> v, whole |-> FALSE]} : v \in {0, VersionOf(path)}}

NoStaging == [folder |-> "none", incoming |-> {}, staged |-> {}]
Gone == [pc |-> "gone", file |-> 0, locked |-> FALSE, tries |-> 0]

Init ==
    /\ plugin = Whole(1) /\ staging = NoStaging /\ previous = {} /\ lock_file = 0
    /\ loaded = [h \in Helpers |-> 0] /\ running = [h \in Helpers |-> 0]
    /\ offer = [h \in Helpers |-> 0]
    /\ thread = [w \in Workers |-> Gone]
    /\ sessions = 0 /\ crashes = 0 /\ failures = 0 /\ cut = FALSE

Main(h) == <<h, "main">>
Download(h) == <<h, "download">>
At(w, pc) == thread[w].pc = pc
GoTo(w, pc) == thread' = [thread EXCEPT ![w].pc = pc]

(* The places of a thread that holds the lock.                             *)
Staging == {"clear", "create", "unpack", "check", "move", "abandon"}
Swapping == {"clear_previous", "swap_out", "swap_in", "roll_back", "undo"}
Installing == {"recheck", "verify", "reject", "clean_up"} \cup Swapping
Working(w) == thread[w].pc \in Staging \cup Installing \cup {"unlink"}

(* The process ends: its threads are gone and the kernel drops its locks.  *)
EndProcess(h) ==
    /\ thread' = [w \in Workers |-> IF w[1] = h THEN Gone ELSE thread[w]]
    /\ offer' = [offer EXCEPT ![h] = 0] /\ running' = [running EXCEPT ![h] = 0]

-----------------------------------------------------------------------------
(* Mutant: the file stays open and locked.                                 *)
LeakLock(w) ==
    /\ IF w[2] = "main" THEN EndProcess(w[1])
       ELSE GoTo(w, "done") /\ offer' = [offer EXCEPT ![w[1]] = 0] /\ UNCHANGED running
    /\ UNCHANGED lock_file

(* The thread goes on without the lock: the main thread's helper exits.    *)
GiveUpLock(w) ==
    /\ IF w[2] = "main" THEN EndProcess(w[1])
       ELSE /\ thread' = [thread EXCEPT ![w] = [Gone EXCEPT !.pc = "done"]]
            /\ offer' = [offer EXCEPT ![w[1]] = 0] /\ UNCHANGED running
    /\ UNCHANGED lock_file

(* UpdateLock: up to three times, the file is opened or created, locked,   *)
(* and compared with the one that is now at the path.                      *)
FreshFile == CHOOSE f \in 1..(Cardinality(Workers) + 1) :
                 f # lock_file /\ \A w \in Workers : thread[w].file # f

(* Mutant: the lock is the file itself, which a killed helper leaves.      *)
OpenExclusive(w) ==
    /\ At(w, "open")
    /\ \/ lock_file # 0 /\ GiveUpLock(w)
       \/ /\ lock_file = 0 /\ lock_file' = FreshFile
          /\ thread' = [thread EXCEPT ![w].pc = "flock", ![w].file = FreshFile]
          /\ UNCHANGED <<offer, running>>

OpenLock(w) ==
    /\ At(w, "open")
    /\ lock_file' = (IF lock_file = 0 THEN FreshFile ELSE lock_file)
    /\ thread' = [thread EXCEPT ![w].pc = "flock", ![w].file = lock_file']
    /\ UNCHANGED <<offer, running>>

FlockLock(w) ==
    /\ At(w, "flock")
    /\ \/ /\ \E o \in Workers : thread[o].locked /\ thread[o].file = thread[w].file
          /\ GiveUpLock(w)
       \/ /\ \A o \in Workers : thread[o].locked => thread[o].file # thread[w].file
          /\ thread' = [thread EXCEPT ![w].pc = "compare", ![w].locked = TRUE]
          /\ UNCHANGED <<lock_file, offer, running>>

FirstStep(w) == IF w[2] = "main" THEN "recheck" ELSE "clear"

(* Mutant: the file that was locked may no longer be the one at the path.  *)
CompareNothing(w) ==
    /\ At(w, "compare")
    /\ GoTo(w, FirstStep(w)) /\ UNCHANGED <<lock_file, offer, running>>

CompareLock(w) ==
    /\ At(w, "compare")
    /\ \/ /\ thread[w].file = lock_file
          /\ GoTo(w, FirstStep(w)) /\ UNCHANGED <<lock_file, offer, running>>
       \/ /\ thread[w].file # lock_file /\ thread[w].tries < 2
          /\ thread' = [thread EXCEPT ![w] = [pc |-> "open", file |-> 0, locked |-> FALSE,
                                              tries |-> @.tries + 1]]
          /\ UNCHANGED <<lock_file, offer, running>>
       \/ /\ thread[w].file # lock_file /\ thread[w].tries = 2
          /\ GiveUpLock(w)

(* The destructor: the file is removed, then closed.  The main thread's    *)
(* helper then exits.                                                      *)
Unlock(w) ==
    \/ /\ At(w, "unlink")
       /\ lock_file' = 0 /\ GoTo(w, "close") /\ UNCHANGED <<offer, running>>
    \/ /\ At(w, "close")
       /\ GiveUpLock(w)

LockStep(w) ==
    /\ OpenLock(w) \/ FlockLock(w) \/ CompareLock(w) \/ Unlock(w)
    /\ UNCHANGED <<disk, loaded, sessions, crashes, failures, cut>>

-----------------------------------------------------------------------------
(* Removing a folder takes time, and leaves what another thread puts there *)
(* meanwhile.                                                              *)
OthersInFolder(w) == \E o \in Workers \ {w} : Working(o) \/ At(o, "discard")

RemoveStaging(w, next) ==
    /\ \/ /\ \E i \in Damaged(staging.incoming), s \in Damaged(staging.staged) :
                 staging' = [staging EXCEPT !.incoming = i, !.staged = s]
          /\ staging' # staging /\ UNCHANGED thread
       \/ staging' = NoStaging /\ GoTo(w, next)
       \/ OthersInFolder(w) /\ UNCHANGED staging /\ GoTo(w, next)
    /\ UNCHANGED <<plugin, previous, failures>>

RemovePrevious(w, next) ==
    /\ \/ previous' \in Damaged(previous) \ {previous} /\ UNCHANGED thread
       \/ previous' = {} /\ GoTo(w, next)
    /\ UNCHANGED <<plugin, staging, failures>>

(* OBSAirPlayStageUpdate() of the offered release, whose digest and        *)
(* signature were right.                                                   *)
Create(w) ==
    /\ At(w, "create")
    /\ IF staging.folder = "none"
       THEN staging' = [staging EXCEPT !.folder = "private"] /\ GoTo(w, "unpack")
       ELSE UNCHANGED staging /\ GoTo(w, "unlink")
    /\ UNCHANGED <<plugin, previous, failures>>

(* ditto makes the folders that are missing, and cannot tell that files it *)
(* wrote were removed again.                                               *)
Unpack(w) ==
    /\ At(w, "unpack")
    /\ \E b \in {Whole(offer[w[1]])} \cup Damaged(Whole(offer[w[1]])) :
           staging' = [staging EXCEPT !.incoming = b,
                                      !.folder = IF @ = "none" THEN "open" ELSE @]
    /\ GoTo(w, "check") \/ GoTo(w, "abandon")
    /\ UNCHANGED <<plugin, previous, failures>>

CheckUnpacked(w) ==
    /\ At(w, "check")
    /\ GoTo(w, IF staging.incoming = Whole(offer[w[1]]) THEN "move" ELSE "abandon")
    /\ UNCHANGED <<disk, failures>>

Move(w) ==
    /\ At(w, "move")
    /\ IF staging.incoming = {}
       THEN UNCHANGED staging /\ GoTo(w, "abandon")
       ELSE /\ staging' = [staging EXCEPT !.staged = staging.incoming, !.incoming = {}]
            /\ GoTo(w, "unlink")
    /\ UNCHANGED <<plugin, previous, failures>>

StageStep(w) ==
    \/ At(w, "clear") /\ RemoveStaging(w, "create")
    \/ Create(w) \/ Unpack(w) \/ CheckUnpacked(w) \/ Move(w)
    \/ At(w, "abandon") /\ RemoveStaging(w, "unlink")

-----------------------------------------------------------------------------
(* Mutant: the versions are not compared again.                            *)
CanInstallAny == staging.folder = "private" /\ plugin # {}

(* A swap, and what a launching helper reads and then removes, take        *)
(* milliseconds each: they overlap only where SwapOverlaps says so.        *)
MaySwap == SwapOverlaps \/ \A o \in Workers : ~(thread[o].pc \in {"discard", "drop"})
MayTidy == SwapOverlaps \/ \A o \in Workers : ~(thread[o].pc \in Swapping)

(* OBSAirPlayInstallStagedUpdate().                                        *)
CanInstall ==
    /\ staging.folder = "private" /\ plugin # {}
    /\ VersionOf(staging.staged) > VersionOf(plugin)

Recheck(w) ==
    /\ At(w, "recheck")
    /\ GoTo(w, IF VersionOf(staging.staged) = 0 THEN "unlink"
               ELSE IF CanInstall THEN "verify" ELSE "reject")
    /\ UNCHANGED <<disk, failures>>

(* Mutant: a waiting update is not verified again.                         *)
VerifyNothing(w) ==
    /\ At(w, "verify") /\ MaySwap /\ GoTo(w, "clear_previous")
    /\ UNCHANGED <<disk, failures>>

Verify(w) ==
    /\ At(w, "verify") /\ MaySwap
    /\ GoTo(w, IF \E b \in staging.staged : b.whole THEN "clear_previous" ELSE "reject")
    /\ UNCHANGED <<disk, failures>>

Fails == failures < MaxFailures /\ failures' = failures + 1

SwapOut(w) ==
    /\ At(w, "swap_out") /\ UNCHANGED staging
    /\ \/ /\ plugin # {} /\ previous' = plugin /\ plugin' = {}
          /\ GoTo(w, "swap_in") /\ UNCHANGED failures
       \/ /\ Fails \/ ((\E o \in Workers : At(o, "drop")) /\ UNCHANGED failures)
          /\ GoTo(w, "undo") /\ UNCHANGED <<plugin, previous>>

SwapIn(w) ==
    /\ At(w, "swap_in") /\ UNCHANGED previous
    /\ \/ /\ staging.staged # {}
          /\ plugin' = staging.staged /\ staging' = [staging EXCEPT !.staged = {}]
          /\ GoTo(w, "clean_up") /\ UNCHANGED failures
       \/ /\ Fails \/ (staging.staged = {} /\ UNCHANGED failures)
          /\ GoTo(w, "roll_back") /\ UNCHANGED <<plugin, staging>>

(* Mutant: the plugin is not put back.                                     *)
NoRollBack(w) == At(w, "roll_back") /\ GoTo(w, "undo") /\ UNCHANGED <<disk, failures>>

RollBack(w) ==
    /\ At(w, "roll_back") /\ UNCHANGED staging
    /\ \/ /\ previous # {} /\ plugin' = previous /\ previous' = {} /\ UNCHANGED failures
       \/ /\ Fails \/ (previous = {} /\ UNCHANGED failures)
          /\ UNCHANGED <<plugin, previous>>
    /\ GoTo(w, "undo")

InstallStep(w) ==
    \/ Recheck(w) \/ Verify(w) \/ SwapOut(w) \/ SwapIn(w) \/ RollBack(w)
    \/ At(w, "reject") /\ RemoveStaging(w, "unlink")
    \/ At(w, "clear_previous") /\ RemovePrevious(w, "swap_out")
    \/ At(w, "undo") /\ RemovePrevious(w, "unlink")
    \/ At(w, "clean_up") /\ RemoveStaging(w, "unlink")

-----------------------------------------------------------------------------
(* A launching helper removes a staged update that is not newer than the   *)
(* plugin it was launched from, and the kept version once the plugin on    *)
(* disk is newer.  Neither takes the lock.                                 *)

TidyStep(w) ==
    \/ /\ At(w, "tidy")
       /\ GoTo(w, IF VersionOf(staging.staged) > running[w[1]] THEN "forget" ELSE "discard")
       /\ UNCHANGED <<disk, failures>>
    \/ At(w, "discard") /\ RemoveStaging(w, "forget")
    \/ /\ At(w, "forget")
       /\ GoTo(w, IF 0 < VersionOf(previous) /\ VersionOf(previous) < VersionOf(plugin)
                  THEN "drop" ELSE "watch")
       /\ UNCHANGED <<disk, failures>>
    \/ At(w, "drop") /\ RemovePrevious(w, "watch")

DiskStep(w) ==
    /\ StageStep(w) \/ InstallStep(w) \/ (MayTidy /\ TidyStep(w))
    /\ UNCHANGED <<session, lock_file>>

NobodyThere == \A h \in Helpers : loaded[h] = 0 /\ At(Main(h), "gone")

(* OBS starts and loads the plugin, which has its helper launched from the *)
(* plugin that is then on disk.                                            *)
StartOBS(h) ==
    /\ sessions < MaxSessions /\ loaded[h] = 0 /\ At(Main(h), "gone") /\ plugin # {}
    /\ loaded' = [loaded EXCEPT ![h] = VersionOf(plugin)]
    /\ sessions' = sessions + 1 /\ GoTo(Main(h), "launch")
    /\ cut' = (cut /\ ~NobodyThere)
    /\ UNCHANGED <<disk, lock_file, running, offer, crashes, failures>>

Launch(h) ==
    /\ At(Main(h), "launch")
    /\ IF plugin = {} THEN GoTo(Main(h), "gone") ELSE GoTo(Main(h), "tidy")
    /\ running' = [running EXCEPT ![h] = VersionOf(plugin)]
    /\ UNCHANGED <<disk, lock_file, loaded, offer, sessions, crashes, failures, cut>>

QuitOBS(h) ==
    /\ loaded[h] # 0 /\ ~At(Main(h), "launch")
    /\ loaded' = [loaded EXCEPT ![h] = 0]
    /\ cut' = (cut \/ ~(thread[Download(h)].pc \in {"gone", "done"}))
    /\ UNCHANGED <<disk, lock_file, running, offer, thread, sessions, crashes, failures>>

(* checkForUpdates(): a release newer than the helper, not staged already. *)
Offer(h) ==
    /\ At(Main(h), "watch") /\ At(Download(h), "gone") /\ loaded[h] # 0 /\ offer[h] = 0
    /\ \E r \in 2..LastVersion :
           /\ r > running[h] /\ r # VersionOf(staging.staged)
           /\ offer' = [offer EXCEPT ![h] = r]
    /\ UNCHANGED <<disk, lock_file, loaded, running, thread, sessions, crashes, failures, cut>>

(* The prompt is accepted and the download done.                           *)
Accept(h) ==
    /\ offer[h] # 0 /\ At(Download(h), "gone")
    /\ GoTo(Download(h), "open")
    /\ cut' = (cut \/ loaded[h] = 0)
    /\ UNCHANGED <<disk, lock_file, loaded, running, offer, sessions, crashes, failures>>

(* The watch on the parent: OBS has gone.  installStagedUpdateAfterOBS()   *)
(* installs a newer update, or the helper exits, whatever is at work.      *)
ParentGone(h) ==
    /\ At(Main(h), "watch") /\ loaded[h] = 0
    /\ \/ /\ VersionOf(staging.staged) > running[h]
          /\ GoTo(Main(h), "open") /\ UNCHANGED <<offer, running>>
       \/ VersionOf(staging.staged) <= running[h] /\ EndProcess(h)
    /\ UNCHANGED <<disk, lock_file, loaded, sessions, crashes, failures, cut>>

(* The helper is killed, or the machine stops, at any moment.              *)
Crash(h) ==
    /\ crashes < MaxCrashes /\ ~At(Main(h), "gone") /\ ~At(Main(h), "launch")
    /\ crashes' = crashes + 1 /\ cut' = TRUE /\ EndProcess(h)
    /\ UNCHANGED <<disk, lock_file, loaded, sessions, failures>>

Next ==
    \/ \E w \in Workers : LockStep(w) \/ DiskStep(w)
    \/ \E h \in Helpers : \/ StartOBS(h) \/ Launch(h) \/ Offer(h) \/ Accept(h)
                          \/ QuitOBS(h) \/ ParentGone(h) \/ Crash(h)

Spec == Init /\ [][Next]_vars

-----------------------------------------------------------------------------
TypeOK ==
    /\ plugin \in Paths /\ previous \in Paths
    /\ staging \in [folder : {"none", "private", "open"}, incoming : Paths, staged : Paths]
    /\ lock_file \in 0..(Cardinality(Workers) + 1)
    /\ loaded \in [Helpers -> 0..LastVersion] /\ running \in [Helpers -> 0..LastVersion]
    /\ offer \in [Helpers -> 0..LastVersion]
    /\ thread \in [Workers ->
           [pc : Staging \cup Installing \cup {"gone", "launch", "tidy", "discard", "forget",
                "drop", "watch", "open", "flock", "compare", "unlink", "close", "done"},
            file : 0..(Cardinality(Workers) + 1), locked : BOOLEAN, tries : 0..2]]
    /\ \A w \in Workers :
           thread[w].locked <=> Working(w) \/ thread[w].pc \in {"compare", "close"}
    /\ sessions \in 0..MaxSessions /\ crashes \in 0..MaxCrashes
    /\ failures \in 0..MaxFailures /\ cut \in BOOLEAN

(* At most one thread of all helpers is staging or installing, although    *)
(* the lock file is removed by its holder and may be a different file each *)
(* time (UpdateLock: "so two helpers never interleave").                   *)
OneHolder == \A w, o \in Workers : Working(w) /\ Working(o) => w = o

(* What is at the plugin's path is always a whole bundle that was checked, *)
(* whatever was cut short and whoever removes folders meanwhile.           *)
PluginWhole == \A b \in plugin : b.whole

(* A whole bundle is always left to start from or to put back by hand: the *)
(* plugin, the kept version or the waiting update.                         *)
CopyLeft == \E b \in plugin \cup previous \cup staging.staged : b.whole

(* The version that is kept is older than the plugin, and none that a      *)
(* session has loaded is newer: an install never goes back, although the   *)
(* update may have waited while another one was installed.                 *)
NeverBack ==
    \A b \in plugin :
        /\ previous # {} => b.version > VersionOf(previous)
        /\ \A h \in Helpers : b.version >= loaded[h]

(* Once the last session and its helper are gone, no newer update is left  *)
(* waiting, unless one of them was cut short or a rename failed: whoever   *)
(* cannot have the lock leaves the update to its holder, and "a lock left  *)
(* by a crashed process never blocks".                                     *)
NothingLeftWaiting ==
    NobodyThere /\ ~cut /\ failures = 0 /\ staging.folder = "private" =>
        \A b \in staging.staged, p \in plugin : b.whole => b.version <= p.version

(* "Called once OBS has gone: nothing is using the plugin any more.": the  *)
(* plugin is never replaced while a session has it loaded.                 *)
NotReplacedInUse == [][plugin' # plugin => \A h \in Helpers : loaded[h] = 0]_vars
================================================================================
