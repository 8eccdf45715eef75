------------------------------ MODULE HotReload ------------------------------
(***************************************************************************)
(* HotReloadManager of src/pystreamai/hot_reload.py for one model id:      *)
(* versions loaded and activated by an operator, and watcher threads that  *)
(* poll the modification time of a file and load and activate what their   *)
(* callback makes of it, under a version named by the current second.      *)
(* load_model and activate_version each hold the manager's RLock from      *)
(* start to end (the loader runs under it), so each is one step; a         *)
(* watcher's reload is several, between which other threads run.  An       *)
(* update gives the file any modification time: two within the file        *)
(* system's granularity have the same one, and a copied or restored file   *)
(* may have an older one.                                                  *)
(***************************************************************************)
EXTENDS Naturals

CONSTANTS Watchers,     \* calls of watch_for_updates: a daemon thread each
          OpVersions,   \* version names the operator uses
          MaxUpdates,   \* bound: updates of the watched file
          MTimes,       \* bound: modification times that files have
          MaxTime,      \* bound: seconds explored
          None          \* no version, no model

ASSUME HotReloadAssumption ==
    /\ MaxUpdates \in Nat
    /\ MTimes \subseteq Nat
    /\ MaxTime \in Nat
    /\ None \notin OpVersions \cup Nat
    /\ None \notin [model : OpVersions \cup Nat, active : BOOLEAN]
    /\ OpVersions \cap Nat = {}

VARIABLES
    models,     \* models[n]: the ModelVersion named n, or None
    current,    \* current_versions[model_id], or None
    file,       \* content of the watched file: its number of updates
    mtime,      \* its st_mtime
    present,    \* whether the file exists: an update may remove it first
    now,        \* the clock, in seconds
    pc,         \* where each watcher thread is
    last,       \* its last_mtime
    got,        \* its new_model
    ver,        \* its version string
    newest,     \* history: the greatest st_mtime of earlier files
    seen,       \* history: the content each watcher last found newer
    retired,    \* history: versions that were current and are not, unless
                \* loaded again since
    best,       \* history: the latest file content that became current
    failed      \* history: file contents whose reload raised

shared == <<models, current>>
disk   == <<file, mtime, newest, present>>
locals == <<last, seen, got, ver>>
vars   == <<shared, disk, now, pc, locals, retired, best, failed>>

Contents == 0..MaxUpdates
Names    == OpVersions \cup 0..MaxTime

\* model: what was loaded, the operator's versions standing for themselves.
ModelVersions == [model : OpVersions \cup Contents, active : BOOLEAN]

Init ==
    /\ models = [n \in Names |-> None]
    /\ current = None
    /\ file = 0
    /\ mtime \in MTimes
    /\ newest = 0
    /\ present = TRUE
    /\ now = 0
    /\ pc = [w \in Watchers |-> "off"]
    /\ last = [w \in Watchers |-> 0]
    /\ seen = [w \in Watchers |-> 0]
    /\ got = [w \in Watchers |-> 0]
    /\ ver = [w \in Watchers |-> 0]
    /\ retired = {}
    /\ best = 0
    /\ failed = {}

------------------------------------------------------------------------------
(* The critical sections.                                                  *)

BestOf(m) == IF m \in Contents /\ m > best THEN m ELSE best

\* load_model: a new ModelVersion replaces one of the same name; the first
\* version of the model becomes current.
Load(n, m) ==
    /\ models' = [models EXCEPT ![n] = [model |-> m, active |-> TRUE]]
    /\ current' = IF current = None THEN n ELSE current
    /\ retired' = retired \ {n}
    /\ best' = IF current' = n THEN BestOf(m) ELSE best

\* A plausible bug: the version that stops being current stays active.
ActivateOnly(n) ==
    /\ current' = n
    /\ UNCHANGED models
    /\ retired' = (retired \cup ({current} \ {None})) \ {n}
    /\ best' = BestOf(models[n].model)

\* activate_version of a loaded version: the old current version, also if it
\* is n itself, is marked inactive.
Activate(n) ==
    /\ current' = n
    /\ models' = IF current = None THEN models
                 ELSE [models EXCEPT ![current].active = FALSE]
    /\ retired' = (retired \cup ({current} \ {None})) \ {n}
    /\ best' = BestOf(models[n].model)

------------------------------------------------------------------------------
(* The operator.                                                           *)

OperatorLoad(v) ==
    /\ Load(v, v)
    /\ UNCHANGED <<disk, now, pc, locals, failed>>

\* A plausible bug: the version is not looked up first.
ActivateUnchecked(n) ==
    /\ current' = n
    /\ UNCHANGED <<models, retired, best>>
    /\ UNCHANGED <<disk, now, pc, locals, failed>>

\* An unknown version raises ValueError.
OperatorActivate(n) ==
    /\ models[n] # None
    /\ Activate(n)
    /\ UNCHANGED <<disk, now, pc, locals, failed>>

------------------------------------------------------------------------------
(* The watcher threads.                                                    *)

Goto(w, next) == pc' = [pc EXCEPT ![w] = next]

\* watch_for_updates starts the thread and returns.
Watch(w) ==
    /\ pc[w] = "off"
    /\ Goto(w, "start")
    /\ UNCHANGED <<shared, disk, now, locals, retired, best, failed>>

\* The first stat is outside the try: without a file the thread dies.
Baseline(w) ==
    /\ pc[w] = "start"
    /\ IF present
       THEN Goto(w, "sleep") /\ last' = [last EXCEPT ![w] = mtime]
       ELSE Goto(w, "dead") /\ UNCHANGED last
    /\ UNCHANGED <<shared, disk, now, seen, got, ver, retired, best, failed>>

\* A plausible bug: last_mtime is left for the end of the reload.
CheckOnly(w) ==
    /\ pc[w] = "sleep"
    /\ present /\ mtime > last[w]
    /\ seen' = [seen EXCEPT ![w] = file]
    /\ Goto(w, "reload")
    /\ UNCHANGED <<shared, disk, now, last, got, ver, retired, best, failed>>

\* Every five seconds: a file with a greater mtime starts a reload and is
\* remembered before it.  (Otherwise the thread sleeps again.)
Check(w) ==
    /\ pc[w] = "sleep"
    /\ present /\ mtime > last[w]
    /\ last' = [last EXCEPT ![w] = mtime]
    /\ seen' = [seen EXCEPT ![w] = file]
    /\ Goto(w, "reload")
    /\ UNCHANGED <<shared, disk, now, got, ver, retired, best, failed>>

\* A plausible bug: the callback answers with the model that is current.
CallbackCached(w) ==
    /\ pc[w] = "reload"
    /\ present
    /\ got' = [got EXCEPT ![w] = best]
    /\ Goto(w, "name")
    /\ UNCHANGED <<shared, disk, now, last, seen, ver, retired, best, failed>>

\* reload_callback makes a model of the file as it is by now.
Callback(w) ==
    /\ pc[w] = "reload"
    /\ present
    /\ got' = [got EXCEPT ![w] = file]
    /\ Goto(w, "name")
    /\ UNCHANGED <<shared, disk, now, last, seen, ver, retired, best, failed>>

\* The version is the second at which the callback has returned.
NameVersion(w) ==
    /\ pc[w] = "name"
    /\ ver' = [ver EXCEPT ![w] = now]
    /\ Goto(w, "load")
    /\ UNCHANGED <<shared, disk, now, last, seen, got, retired, best, failed>>

\* reload_callback raises, as it must without a file: the error is logged.
CallbackFails(w) ==
    /\ pc[w] = "reload"
    /\ failed' = failed \cup {seen[w]}
    /\ Goto(w, "sleep")
    /\ UNCHANGED <<shared, disk, now, locals, retired, best>>

WatcherLoad(w) ==
    /\ pc[w] = "load"
    /\ Load(ver[w], got[w])
    /\ Goto(w, "activate")
    /\ UNCHANGED <<disk, now, locals, failed>>

\* A plausible bug: last_mtime is read again after the reload.
WatcherActivateRestat(w) ==
    /\ pc[w] = "activate"
    /\ Activate(ver[w])
    /\ last' = [last EXCEPT ![w] = mtime]
    /\ Goto(w, "sleep")
    /\ UNCHANGED <<disk, now, seen, got, ver, failed>>

WatcherActivate(w) ==
    /\ pc[w] = "activate"
    /\ Activate(ver[w])
    /\ Goto(w, "sleep")
    /\ UNCHANGED <<disk, now, locals, failed>>

------------------------------------------------------------------------------
(* The file and the clock.                                                 *)

\* An update either removes the file and writes it, or replaces it at once.
RemoveFile ==
    /\ present /\ file < MaxUpdates
    /\ present' = FALSE
    /\ UNCHANGED <<shared, file, mtime, newest, now, pc, locals, retired, best, failed>>

WriteFile ==
    /\ file < MaxUpdates
    /\ file' = file + 1
    /\ mtime' \in MTimes
    /\ newest' = IF mtime > newest THEN mtime ELSE newest
    /\ present' = TRUE
    /\ UNCHANGED <<shared, now, pc, locals, retired, best, failed>>

Tick ==
    /\ now < MaxTime
    /\ now' = now + 1
    /\ UNCHANGED <<shared, disk, pc, locals, retired, best, failed>>

------------------------------------------------------------------------------
ThreadStep(w) == \/ Baseline(w) \/ Check(w) \/ Callback(w) \/ CallbackFails(w)
                 \/ NameVersion(w) \/ WatcherLoad(w) \/ WatcherActivate(w)

Next == \/ \E v \in OpVersions : OperatorLoad(v)
        \/ \E n \in Names : OperatorActivate(n)
        \/ \E w \in Watchers : Watch(w) \/ ThreadStep(w)
        \/ RemoveFile \/ WriteFile
        \/ Tick

Spec == Init /\ [][Next]_vars

\* The operating system runs every thread again and again, and whoever has
\* removed the file writes it in the end.
FairSpec == /\ Spec
            /\ \A w \in Watchers : WF_vars(ThreadStep(w))
            /\ WF_vars(~present /\ WriteFile)

------------------------------------------------------------------------------
(* Properties.                                                             *)

Watching(w) == pc[w] \in {"sleep", "reload", "name", "load", "activate"}

\* Every variable has its type, and a model being loaded is at least as new
\* as the file whose modification time caused the reload.
TypeOK ==
    /\ models \in [Names -> ModelVersions \cup {None}]
    /\ current \in Names \cup {None}
    /\ file \in Contents
    /\ mtime \in MTimes
    /\ newest \in MTimes \cup {0}
    /\ present \in BOOLEAN
    /\ now \in 0..MaxTime
    /\ pc \in [Watchers -> {"off", "start", "dead", "sleep", "reload", "name",
                            "load", "activate"}]
    /\ last \in [Watchers -> MTimes \cup {0}]
    /\ seen \in [Watchers -> Contents]
    /\ got \in [Watchers -> Contents]
    /\ ver \in [Watchers -> 0..MaxTime]
    /\ retired \subseteq Names
    /\ best \in Contents
    /\ failed \subseteq Contents
    /\ \A w \in Watchers : pc[w] \in {"name", "load", "activate"} => got[w] >= seen[w]

\* The current version is always one that is loaded, so that once a model was
\* loaded get_current_model returns one, whatever runs between a watcher's
\* load and its activation.
CurrentIsLoaded ==
    /\ current # None => models[current] # None
    /\ (\E n \in Names : models[n] # None) => current # None

\* get_model_status reports no version as active that another has replaced.
\* (That the current version is active does not hold: activating the current
\* version again, or going back to an earlier one, leaves it inactive.)
RetiredInactive ==
    \A n \in retired : n # current /\ models[n] # None /\ ~models[n].active

\* Whatever updates, other watchers and the operator do meanwhile, an update
\* of the file that a watcher finds newer becomes current, it or a later one,
\* unless its reload raises, after which it is never tried again, or the file
\* is replaced by one whose modification time is no newer than an earlier
\* one's.
UpdateServed ==
    \A c \in Contents : \A w \in Watchers :
      (Watching(w) /\ last[w] < mtime /\ file = c)
        ~> \/ best >= c
           \/ \E f \in failed : f >= c
           \/ mtime <= newest
=============================================================================
