--------------------------- MODULE HotReload_proofs ---------------------------
(***************************************************************************)
(* Proofs about HotReload: its types, and what the manager serves and      *)
(* reports whatever the operator, the watcher threads and the file do.     *)
(***************************************************************************)
EXTENDS HotReload, TLAPS

\* A thread has seen no later file than there is.
SeenExists == \A w \in Watchers : seen[w] <= file

\* Between a watcher's load and its activation the version stays loaded.
ReloadLoaded ==
    \A w \in Watchers : pc[w] = "activate" => models[ver[w]] # None

Inv == TypeOK /\ CurrentIsLoaded /\ RetiredInactive /\ SeenExists /\ ReloadLoaded

\* The versions the application sees.
Served == models \in [Names -> ModelVersions \cup {None}]
          /\ current \in Names \cup {None}
          /\ retired \subseteq Names
          /\ best \in Contents

\* load_model keeps the types of what it changes, keeps a loaded current
\* version, and makes the version that it loads one that is not retired.
LEMMA LoadStep ==
    ASSUME Served, CurrentIsLoaded, RetiredInactive,
           NEW n \in Names, NEW m \in OpVersions \cup Contents, Load(n, m)
    PROVE  /\ Served' /\ CurrentIsLoaded' /\ RetiredInactive'
           /\ models'[n] # None
           /\ \A k \in Names : models[k] # None => models'[k] # None
PROOF
<1> DEFINE new == [model |-> m, active |-> TRUE]
<1>1. new \in ModelVersions /\ new # None
  <2>1. new \in [model : OpVersions \cup Contents, active : BOOLEAN]
    OBVIOUS
  <2>2. new \in [model : OpVersions \cup Nat, active : BOOLEAN]
    BY HotReloadAssumption DEF Contents
  <2> QED BY <2>1, <2>2, HotReloadAssumption DEF ModelVersions
<1>2. models' = [models EXCEPT ![n] = new]
  BY DEF Load
<1>3. \A k \in Names : models'[k] = IF k = n THEN new ELSE models[k]
  BY <1>2 DEF Served
<1>4. None \notin Names
  BY HotReloadAssumption DEF Names
<1>5. best' \in Contents
  BY DEF Load, BestOf, Served, Contents
<1>6. Served'
  BY <1>1, <1>2, <1>5 DEF Served, Load
<1>7. \A k \in Names : models[k] # None => models'[k] # None
  BY <1>1, <1>3
<1>8. CurrentIsLoaded'
  BY <1>1, <1>3, <1>4, <1>7 DEF CurrentIsLoaded, Load, Served
<1>9. RetiredInactive'
  BY <1>3, <1>4 DEF RetiredInactive, Load, Served
<1> HIDE DEF new
<1> QED BY <1>1, <1>3, <1>6, <1>7, <1>8, <1>9

\* activate_version of a loaded version does the same, and the version that
\* it replaces is loaded, retired and inactive.
LEMMA ActivateStep ==
    ASSUME Served, CurrentIsLoaded, RetiredInactive,
           NEW n \in Names, models[n] # None, Activate(n)
    PROVE  /\ Served' /\ CurrentIsLoaded' /\ RetiredInactive'
           /\ \A k \in Names : models[k] # None => models'[k] # None
PROOF
<1>1. None \notin Names /\ None \notin ModelVersions
  BY HotReloadAssumption DEF Names, ModelVersions, Contents
<1>2. best' \in Contents
  BY DEF Activate, BestOf, Served, Contents
<1>3. CASE current = None
  <2>1. models' = models /\ current' = n /\ retired' = retired \ {n}
    BY <1>3 DEF Activate
  <2> QED BY <2>1, <1>1, <1>2
    DEF Served, CurrentIsLoaded, RetiredInactive
<1>4. CASE current # None
  <2> DEFINE old == [models[current] EXCEPT !.active = FALSE]
  <2>1. models[current] \in ModelVersions
    BY <1>4 DEF Served, CurrentIsLoaded
  <2>2. old \in ModelVersions /\ old.active = FALSE
    BY <2>1 DEF ModelVersions
  <2>3. old # None
    BY <2>2, <1>1
  <2>4. models' = [models EXCEPT ![current] = old]
    BY <1>4 DEF Activate
  <2>5. \A k \in Names : models'[k] = IF k = current THEN old ELSE models[k]
    BY <2>4 DEF Served
  <2>6. current' = n /\ retired' = (retired \cup {current}) \ {n}
    BY <1>4 DEF Activate
  <2> HIDE DEF old
  <2>7. \A k \in Names : models[k] # None => models'[k] # None
    BY <2>3, <2>5
  <2>8. Served'
    BY <2>2, <2>4, <2>6, <1>2, <1>4 DEF Served
  <2>9. CurrentIsLoaded'
    <3>1. models'[n] # None /\ n # None
      BY <2>7, <1>1
    <3> QED BY <2>6, <3>1 DEF CurrentIsLoaded
  <2>10. RetiredInactive'
    BY <2>2, <2>3, <2>5, <2>6, <1>1, <1>4 DEF RetiredInactive, Served
  <2> QED BY <2>7, <2>8, <2>9, <2>10
<1> QED BY <1>3, <1>4

LEMMA InitInv == Init => Inv
PROOF
<1> SUFFICES ASSUME Init PROVE Inv
  OBVIOUS
<1>1. \A n \in Names : models[n] = None
  BY DEF Init
<1>2. TypeOK
  BY HotReloadAssumption DEF Init, TypeOK, Contents
<1> QED BY <1>1, <1>2 DEF Init, Inv, CurrentIsLoaded, RetiredInactive,
           SeenExists, ReloadLoaded

\* Steps that touch no version: a thread on its way, the file, the clock.
LEMMA OtherStep ==
    ASSUME Inv, UNCHANGED <<models, current, retired, best>>,
           TypeOK', SeenExists',
           \A w \in Watchers : pc'[w] = "activate" => pc[w] = "activate" /\ ver'[w] = ver[w]
    PROVE  Inv'
PROOF
  BY DEF Inv, CurrentIsLoaded, RetiredInactive, ReloadLoaded

\* A step that only adds to what is loaded.
LEMMA VersionStep ==
    ASSUME Inv, UNCHANGED <<file, mtime, newest, present, now, last, seen, got, ver, failed>>,
           Served', CurrentIsLoaded', RetiredInactive',
           \A k \in Names : models[k] # None => models'[k] # None,
           pc' \in [Watchers -> {"off", "start", "dead", "sleep", "reload",
                                 "name", "load", "activate"}],
           \A w \in Watchers : \/ pc'[w] = pc[w]
                               \/ pc'[w] = "sleep"
                               \/ /\ pc[w] = "load" /\ pc'[w] = "activate"
                                  /\ models'[ver[w]] # None
    PROVE  Inv'
PROOF
<1>1. TypeOK'
  BY DEF Inv, TypeOK, Served
<1>2. \A w \in Watchers : ver[w] \in Names
  BY DEF Inv, TypeOK, Names
<1>3. ReloadLoaded'
  BY <1>2 DEF Inv, ReloadLoaded
<1> QED BY <1>1, <1>3 DEF Inv, SeenExists

\* One step for each action.
LEMMA NextInv == Inv /\ [Next]_vars => Inv'
PROOF
<1> SUFFICES ASSUME Inv, [Next]_vars PROVE Inv'
  OBVIOUS
<1> USE HotReloadAssumption
<1>0. Served /\ CurrentIsLoaded /\ RetiredInactive
  BY DEF Inv, TypeOK, Served
<1>1. ASSUME NEW v \in OpVersions, OperatorLoad(v) PROVE Inv'
  <2>1. v \in Names /\ Load(v, v)
    BY <1>1 DEF OperatorLoad, Names
  <2>2. UNCHANGED <<file, mtime, newest, present, now, pc, last, seen, got, ver, failed>>
    BY <1>1 DEF OperatorLoad, disk, locals
  <2> QED BY <2>1, <2>2, <1>0, LoadStep, VersionStep DEF Inv, TypeOK
<1>2. ASSUME NEW n \in Names, OperatorActivate(n) PROVE Inv'
  <2>1. models[n] # None /\ Activate(n)
    BY <1>2 DEF OperatorActivate
  <2>2. UNCHANGED <<file, mtime, newest, present, now, pc, last, seen, got, ver, failed>>
    BY <1>2 DEF OperatorActivate, disk, locals
  <2> QED BY <2>1, <2>2, <1>0, ActivateStep, VersionStep DEF Inv, TypeOK
<1>3. ASSUME NEW w \in Watchers, WatcherLoad(w) PROVE Inv'
  <2>1. ver[w] \in Names /\ got[w] \in Contents /\ Load(ver[w], got[w])
    BY <1>3 DEF WatcherLoad, Names, Inv, TypeOK
  <2>2. UNCHANGED <<file, mtime, newest, present, now, last, seen, got, ver, failed>>
    BY <1>3 DEF WatcherLoad, disk, locals
  <2>3. pc[w] = "load" /\ pc' = [pc EXCEPT ![w] = "activate"]
    BY <1>3 DEF WatcherLoad, Goto
  <2> QED BY <2>1, <2>2, <2>3, <1>0, LoadStep, VersionStep DEF Inv, TypeOK
<1>4. ASSUME NEW w \in Watchers, WatcherActivate(w) PROVE Inv'
  <2>1. ver[w] \in Names /\ models[ver[w]] # None /\ Activate(ver[w])
    BY <1>4 DEF WatcherActivate, Names, Inv, TypeOK, ReloadLoaded
  <2>2. UNCHANGED <<file, mtime, newest, present, now, last, seen, got, ver, failed>>
    BY <1>4 DEF WatcherActivate, disk, locals
  <2>3. pc' = [pc EXCEPT ![w] = "sleep"]
    BY <1>4 DEF WatcherActivate, Goto
  <2> QED BY <2>1, <2>2, <2>3, <1>0, ActivateStep, VersionStep DEF Inv, TypeOK
<1>5. ASSUME NEW w \in Watchers,
             Watch(w) \/ Baseline(w) \/ Check(w) \/ Callback(w)
               \/ CallbackFails(w) \/ NameVersion(w)
      PROVE Inv'
  <2>1. UNCHANGED <<models, current, retired, best>>
    BY <1>5 DEF Watch, Baseline, Check, Callback, CallbackFails, NameVersion, shared
  <2>2. SeenExists'
    BY <1>5 DEF Watch, Baseline, Check, Callback, CallbackFails, NameVersion,
                Inv, TypeOK, SeenExists, disk, locals, Contents
  <2>3. \A x \in Watchers : pc'[x] = "activate"
          => pc[x] = "activate" /\ ver'[x] = ver[x]
    BY <1>5 DEF Watch, Baseline, Check, Callback, CallbackFails, NameVersion,
                Goto, Inv, TypeOK, locals
  <2>4. TypeOK'
    <3>1. CASE Watch(w)
      BY <3>1 DEF Watch, Goto, Inv, TypeOK, shared, disk, locals, Contents
    <3>2. CASE Baseline(w)
      BY <3>2 DEF Baseline, Goto, Inv, TypeOK, shared, disk, Contents
    <3>3. CASE Check(w)
      BY <3>3 DEF Check, Goto, Inv, TypeOK, shared, disk, Contents
    <3>4. CASE Callback(w)
      BY <3>4 DEF Callback, Goto, Inv, TypeOK, SeenExists, shared, disk, Contents
    <3>5. CASE CallbackFails(w)
      BY <3>5 DEF CallbackFails, Goto, Inv, TypeOK, shared, disk, locals, Contents
    <3>6. CASE NameVersion(w)
      BY <3>6 DEF NameVersion, Goto, Inv, TypeOK, shared, disk, Contents
    <3> QED BY <1>5, <3>1, <3>2, <3>3, <3>4, <3>5, <3>6
  <2> QED BY <2>1, <2>2, <2>3, <2>4, OtherStep
<1>6. CASE RemoveFile \/ WriteFile \/ Tick
  <2>1. UNCHANGED <<models, current, retired, best, pc, ver>>
    BY <1>6 DEF RemoveFile, WriteFile, Tick, shared, locals
  <2>2. CASE RemoveFile
    BY <2>1, <2>2, OtherStep
      DEF RemoveFile, Inv, TypeOK, SeenExists, shared, locals
  <2>3. CASE WriteFile
    <3>1. file' = file + 1 /\ file < MaxUpdates /\ present' = TRUE
          /\ mtime' \in MTimes /\ newest' \in {mtime, newest}
          /\ UNCHANGED <<now, last, seen, got, failed>>
      BY <2>3 DEF WriteFile, locals
    <3>2. file' \in Contents /\ file' >= file
      BY <3>1 DEF Inv, TypeOK, Contents
    <3>3. TypeOK'
      BY <2>1, <3>1, <3>2 DEF Inv, TypeOK
    <3>4. SeenExists'
      BY <3>1, <3>2 DEF Inv, TypeOK, SeenExists, Contents
    <3> QED BY <2>1, <3>3, <3>4, OtherStep
  <2>4. CASE Tick
    <3>1. now' \in 0..MaxTime /\ UNCHANGED <<file, mtime, newest, present, last, seen, got, failed>>
      BY <2>4 DEF Tick, Inv, TypeOK, disk, locals
    <3> QED BY <2>1, <3>1, OtherStep DEF Inv, TypeOK, SeenExists
  <2> QED BY <1>6, <2>2, <2>3, <2>4
<1>7. CASE UNCHANGED vars
  <2>1. UNCHANGED <<models, current, file, mtime, newest, present, now, pc, last,
                    seen, got, ver, retired, best, failed>>
    BY <1>7 DEF vars, shared, disk, locals
  <2>2. TypeOK' /\ SeenExists'
    BY <2>1 DEF Inv, TypeOK, SeenExists
  <2> QED BY <2>1, <2>2, OtherStep
<1> QED BY <1>1, <1>2, <1>3, <1>4, <1>5, <1>6, <1>7 DEF Next, ThreadStep

LEMMA Invariance == Spec => []Inv
PROOF
<1> QED BY InitInv, NextInv, PTL DEF Spec

\* Every variable has its type, and a watcher loads no older model than the
\* file whose modification time made it reload.
THEOREM HotReloadTypeCorrect == Spec => []TypeOK
PROOF
<1>1. Inv => TypeOK
  BY DEF Inv
<1> QED BY <1>1, Invariance, PTL

\* get_current_model finds the current version in `models' at every moment,
\* between a watcher's load and its activation too.
THEOREM CurrentAlwaysLoaded == Spec => []CurrentIsLoaded
PROOF
<1>1. Inv => CurrentIsLoaded
  BY DEF Inv
<1> QED BY <1>1, Invariance, PTL

\* get_model_status never reports as active a version that was replaced and
\* not loaded again.
THEOREM ReplacedNeverActive == Spec => []RetiredInactive
PROOF
<1>1. Inv => RetiredInactive
  BY DEF Inv
<1> QED BY <1>1, Invariance, PTL
=============================================================================
