------------------------- MODULE ConfigReloadProofs -------------------------
(***************************************************************************)
(* Proofs about FileWatcher and ConfigReload, for every set of files and   *)
(* commands, every content of the versions and every bound.                *)
(***************************************************************************)
EXTENDS ConfigReload, TLAPS

ReloadTypeOK ==
    /\ config \in Version /\ {limits, usage, agents} \subseteq Setting
    /\ monitors \in Nat /\ polling \subseteq 0 .. monitors
    /\ stage \in [Reloader -> {"idle", "stopping", "starting", "done"}]
    /\ old \in [Reloader -> Version] /\ new \in [Reloader -> Version]
    /\ registry \in [Reloader -> 0 .. monitors]
    /\ tried \in Stamp /\ unseen \in BOOLEAN /\ overlapped \in BOOLEAN

\* The callback that is suspended is the one of config.yaml, and its reload is
\* the one that is under way for the watcher.
Flow ==
    /\ loop = "calling" => calling = Cfg
    /\ stage[Watcher] # "done"
    /\ stage[Watcher] \in {"stopping", "starting"} <=> loop = "calling"

\* A change is a candidate for the callback only if the copy of the baselines
\* agrees with the baselines of now.
Fresh == \A p \in File : snap[p] # None /\ pending[p] # None => snap[p] = baseline[p]

BasicInv == WatcherTypeOK /\ ReloadTypeOK /\ Flow /\ Fresh

-----------------------------------------------------------------------------
(* Types, the suspended callback and the copy of the baselines.             *)

\* What the file says at a version.
LEMMA VersionSettings ==
    ASSUME NEW s \in Version
    PROVE  s \in Stamp /\ Content[s].providers \in Setting /\ Content[s].agents \in Setting
BY DEF Version, Setting

\* None is none of the values that variables have otherwise.
LEMMA NoneIsNone ==
    /\ None \notin File /\ None \notin Stamp
    /\ None \notin [stamp : Stamp, polls : 0 .. Window]
BY WatcherAssumption

LEMMA CfgIsFile == Cfg \in File
BY WatcherAssumption, ReloadAssumption

\* Acknowledging a file leaves no candidate of it.
LEMMA AcknowledgedFresh ==
    ASSUME WatcherTypeOK, Fresh, NEW p \in File, NEW s \in Stamp,
           Acknowledged(p, s), snap' = snap
    PROVE  /\ baseline' \in [File -> Stamp \cup {None}]
           /\ pending' \in [File -> [stamp : Stamp, polls : 0 .. Window] \cup {None}]
           /\ Fresh'
BY DEF WatcherTypeOK, Fresh, Acknowledged

\* A candidate is a poll older.
LEMMA EarlierType ==
    ASSUME NEW w \in [stamp : Stamp, polls : 0 .. Window] \cup {None}
    PROVE  /\ Earlier(w) \in [stamp : Stamp, polls : 0 .. Window] \cup {None}
           /\ Earlier(w) = None <=> w = None
<1>1. CASE w = None
  BY <1>1 DEF Earlier
<1>2. CASE w # None
  <2>1. w \in [stamp : Stamp, polls : 0 .. Window]
    BY <1>2
  <2>2. (IF w.polls < Window THEN w.polls + 1 ELSE w.polls) \in 0 .. Window
    BY <2>1, WatcherAssumption
  <2>3. Earlier(w) \in [stamp : Stamp, polls : 0 .. Window]
    BY <1>2, <2>1, <2>2 DEF Earlier
  <2> QED BY <1>2, <2>3, NoneIsNone
<1> QED BY <1>1, <1>2

LEMMA InitBasic == Init => BasicInv
<1> SUFFICES ASSUME Init PROVE BasicInv
  OBVIOUS
<1> USE WatcherAssumption, ReloadAssumption
<1>1. 0 \in Stamp /\ 1 \in Stamp
  BY DEF Stamp
<1>2. WatcherTypeOK
  <2>1. mtime \in [File -> Stamp] /\ baseline \in [File -> Stamp \cup {None}]
    BY <1>1 DEF Init, WatcherInit
  <2>2. pending \in [File -> [stamp : Stamp, polls : 0 .. Window] \cup {None}]
    BY DEF Init, WatcherInit
  <2>3. snap \in [File -> Stamp \cup {None}] /\ calling \in File \cup {None}
        /\ told \in [File -> Nat]
    BY DEF Init, WatcherInit
  <2>4. writes \in 0 .. MaxWrites /\ saves \in 0 .. MaxSaves
    BY DEF Init, WatcherInit
  <2> QED BY <2>1, <2>2, <2>3, <2>4 DEF Init, WatcherInit, WatcherTypeOK
<1>3. ReloadTypeOK
  <2>1. 1 \in Version /\ Content[1].providers \in Setting /\ Content[1].agents \in Setting
    BY VersionSettings
  <2>2. monitors \in Nat /\ polling \subseteq 0 .. monitors /\ 0 \in 0 .. monitors
    BY DEF Init
  <2> QED BY <1>1, <2>1, <2>2 DEF Init, ReloadTypeOK
<1>4. Flow
  BY DEF Init, WatcherInit, Flow, Reloader
<1>5. Fresh
  BY DEF Init, WatcherInit, Fresh
<1> QED BY <1>2, <1>3, <1>4, <1>5 DEF BasicInv

\* Steps of the scan that call nobody.
LEMMA ScanBasic ==
    ASSUME BasicInv, Scan
    PROVE  BasicInv'
<1>1. ReloadTypeOK'
  BY DEF BasicInv, ReloadTypeOK, Scan, applied, reloads, ghosts
<1>2. CASE Wake
  <2>1. WatcherTypeOK'
    BY <1>2, EarlierType DEF BasicInv, WatcherTypeOK, Wake, counts
  <2>2. Fresh'
    BY <1>2, EarlierType DEF BasicInv, Fresh, Wake
  <2>3. Flow'
    BY <1>2 DEF BasicInv, Flow, Wake, Scan, reloads
  <2> QED BY <1>1, <2>1, <2>2, <2>3 DEF BasicInv
<1>3. CASE ScanEnds
  <2>1. WatcherTypeOK' /\ Fresh'
    BY <1>3 DEF BasicInv, WatcherTypeOK, Fresh, ScanEnds, counts
  <2>2. Flow'
    BY <1>3 DEF BasicInv, Flow, ScanEnds, Scan, reloads
  <2> QED BY <1>1, <2>1, <2>2 DEF BasicInv
<1>4. ASSUME NEW p \in File, Unchanged(p) \/ Suspect(p) \/ Wait(p)
      PROVE  BasicInv'
  <2>1. [stamp |-> mtime[p], polls |-> 0] \in [stamp : Stamp, polls : 0 .. Window]
    BY WatcherAssumption DEF BasicInv, WatcherTypeOK
  <2>2. WatcherTypeOK' /\ Fresh'
    BY <1>4, <2>1 DEF BasicInv, WatcherTypeOK, Fresh, Unchanged, Suspect, Wait, counts
  <2>3. Flow'
    BY <1>4 DEF BasicInv, Flow, Unchanged, Suspect, Wait, Scan, reloads
  <2> QED BY <1>1, <2>2, <2>3 DEF BasicInv
<1> QED BY <1>2, <1>3, <1>4 DEF Scan

\* The beginning of a reload keeps the types of what it applies.
LEMMA LoadType ==
    ASSUME BasicInv, NEW r \in Reloader, CannotLoad(r) \/ Load(r)
    PROVE  /\ ReloadTypeOK'
           /\ stage' \in [Reloader -> {"idle", "stopping", "starting", "done"}]
           /\ \A q \in Reloader \ {r} : stage'[q] = stage[q]
           /\ stage'[r] \in {"stopping", "starting", IF r = Watcher THEN "idle" ELSE "done"}
<1> USE DEF BasicInv, ReloadTypeOK, WatcherTypeOK
<1>1. mtime[Cfg] \in Stamp
  BY CfgIsFile
<1>2. CASE CannotLoad(r)
  BY <1>1, <1>2 DEF CannotLoad, Tried, Ended, applied
<1>3. CASE Load(r)
  <2>1. mtime[Cfg] \in Version /\ config' \in Version /\ tried' \in Stamp
        /\ unseen' \in BOOLEAN /\ overlapped' \in BOOLEAN
    BY <1>1, <1>3 DEF Load, Tried
  <2>2. Content[mtime[Cfg]].providers \in Setting /\ Content[mtime[Cfg]].agents \in Setting
    BY <2>1, VersionSettings
  <2>3. CASE SameProviders(r)
    BY <2>1, <2>2, <2>3 DEF SameProviders, Agents, Ended
  <2>4. CASE OtherProviders(r) /\ monitors \in polling
    BY <2>1, <2>2, <2>4 DEF OtherProviders
  <2>5. CASE OtherProviders(r) /\ monitors \notin polling
    BY <2>1, <2>2, <2>5 DEF OtherProviders, Renew
  <2> QED BY <1>3, <2>3, <2>4, <2>5 DEF Load
<1> QED BY <1>2, <1>3

\* A callback is called.
LEMMA FireBasic ==
    ASSUME BasicInv, NEW p \in File, Fire(p)
    PROVE  WatcherTypeOK' /\ Fresh' /\ loop = "scanning"
BY DEF BasicInv, WatcherTypeOK, Fresh, Fire, Differs, Due, Same, counts

LEMMA NextBasic == BasicInv /\ [Next]_vars => BasicInv'
<1> SUFFICES ASSUME BasicInv, [Next]_vars PROVE BasicInv'
  OBVIOUS
<1>0. Watcher \in Reloader /\ Cfg \in File
  BY CfgIsFile DEF Reloader
<1>1. CASE Scan
  BY <1>1, ScanBasic
<1>2. CASE Notified
  <2>1. WatcherTypeOK' /\ Fresh' /\ loop = "scanning"
    BY <1>0, <1>2, FireBasic DEF Notified
  <2>2. ReloadTypeOK' /\ stage'[Watcher] \in {"stopping", "starting", "idle"}
    BY <1>0, <1>2, LoadType DEF Notified
  <2>3. Flow'
    BY <1>2, <2>1, <2>2 DEF Flow, Notified, Fire
  <2> QED BY <2>1, <2>2, <2>3 DEF BasicInv
<1>3. CASE Acknowledges
  <2>1. calling = Cfg /\ loop = "calling"
    BY <1>3 DEF BasicInv, Flow, Acknowledges, Returned
  <2>2. mtime[Cfg] \in Stamp
    BY <1>0 DEF BasicInv, WatcherTypeOK
  <2>3. WatcherTypeOK' /\ Fresh'
    <3>1. Acknowledged(Cfg, mtime[Cfg]) /\ snap' = snap
      BY <1>3, <2>1 DEF Acknowledges, Returned
    <3>2. /\ baseline' \in [File -> Stamp \cup {None}]
          /\ pending' \in [File -> [stamp : Stamp, polls : 0 .. Window] \cup {None}]
          /\ Fresh'
      BY <1>0, <2>2, <3>1, AcknowledgedFresh DEF BasicInv
    <3> QED BY <1>3, <3>2 DEF BasicInv, WatcherTypeOK, Acknowledges, Returned, counts
  <2>4. ReloadTypeOK'
    BY <1>0, <1>3, VersionSettings DEF BasicInv, ReloadTypeOK, Acknowledges, Started, Agents, Ended
  <2>5. Flow'
    BY <1>0, <1>3, <2>1 DEF BasicInv, ReloadTypeOK, Flow, Acknowledges, Returned, Started, Ended
  <2> QED BY <2>3, <2>4, <2>5 DEF BasicInv
<1>4. CASE Shutdown
  <2>1. WatcherTypeOK' /\ Fresh'
    BY <1>4 DEF BasicInv, WatcherTypeOK, Fresh, Shutdown, StopWatcher, counts
  <2>2. ReloadTypeOK'
    BY <1>0, <1>4 DEF BasicInv, ReloadTypeOK, Shutdown, applied, ghosts
  <2>3. Flow'
    BY <1>0, <1>4 DEF BasicInv, ReloadTypeOK, Flow, Shutdown, StopWatcher
  <2> QED BY <2>1, <2>2, <2>3 DEF BasicInv
<1>5. ASSUME NEW p \in File, JobsChange(p)
      PROVE  BasicInv'
  <2>1. WatcherTypeOK' /\ Fresh' /\ loop = "scanning"
    BY <1>5, FireBasic DEF JobsChange
  <2>2. ReloadTypeOK'
    BY <1>5 DEF BasicInv, ReloadTypeOK, JobsChange, applied, reloads, ghosts
  <2>3. Flow'
    BY <1>5, <2>1 DEF BasicInv, Flow, JobsChange, reloads
  <2> QED BY <2>1, <2>2, <2>3 DEF BasicInv
<1>6. ASSUME NEW p \in File, Write(p) /\ Edited(p)
      PROVE  BasicInv'
  <2>1. WatcherTypeOK' /\ Fresh'
    BY <1>6, WatcherAssumption DEF BasicInv, WatcherTypeOK, Fresh, Write
  <2>2. ReloadTypeOK'
    BY <1>6 DEF BasicInv, ReloadTypeOK, Edited, applied, reloads
  <2>3. Flow'
    BY <1>6 DEF BasicInv, Flow, Write, Edited, reloads
  <2> QED BY <2>1, <2>2, <2>3 DEF BasicInv
<1>7. ASSUME NEW p \in File, Save(p) /\ Edited(p)
      PROVE  BasicInv'
  <2>1. PICK s \in Stamp : mtime' = [mtime EXCEPT ![p] = s] /\ Acknowledged(p, s)
    BY <1>7 DEF Save
  <2>2. /\ baseline' \in [File -> Stamp \cup {None}]
        /\ pending' \in [File -> [stamp : Stamp, polls : 0 .. Window] \cup {None}]
        /\ Fresh'
    BY <1>7, <2>1, AcknowledgedFresh DEF BasicInv, Save
  <2>3. WatcherTypeOK'
    <3>1. saves' \in 0 .. MaxSaves
      BY <1>7, WatcherAssumption DEF BasicInv, WatcherTypeOK, Save
    <3> QED BY <1>7, <2>1, <2>2, <3>1 DEF BasicInv, WatcherTypeOK, Save
  <2>4. ReloadTypeOK'
    BY <1>7 DEF BasicInv, ReloadTypeOK, Edited, applied, reloads
  <2>5. Flow'
    BY <1>7 DEF BasicInv, Flow, Save, Edited, reloads
  <2> QED BY <2>2, <2>3, <2>4, <2>5 DEF BasicInv
<1>8. ASSUME NEW r \in Reloader, Stopped(r)
      PROVE  BasicInv'
  <2>1. WatcherTypeOK' /\ Fresh'
    BY <1>8 DEF BasicInv, WatcherTypeOK, Fresh, Stopped, watcherVars, counts
  <2>2. ReloadTypeOK'
    <3>1. /\ monitors' = monitors + 1 /\ monitors' \in Nat
          /\ 0 .. monitors \subseteq 0 .. monitors' /\ monitors' \in 0 .. monitors'
      BY <1>8 DEF BasicInv, ReloadTypeOK, Stopped, Renew
    <3>2. polling' \subseteq 0 .. monitors' /\ registry' \in [Reloader -> 0 .. monitors']
      BY <1>8, <3>1 DEF BasicInv, ReloadTypeOK, Stopped, Renew
    <3>3. usage' \in Setting
      BY <1>8, VersionSettings DEF BasicInv, ReloadTypeOK, Stopped, Renew
    <3> QED BY <1>8, <3>1, <3>2, <3>3 DEF BasicInv, ReloadTypeOK, Stopped, Renew, ghosts
  <2>3. Flow'
    BY <1>0, <1>8 DEF BasicInv, ReloadTypeOK, Flow, Stopped, Renew, watcherVars
  <2> QED BY <2>1, <2>2, <2>3 DEF BasicInv
<1>9. ASSUME NEW c \in Command, Ask(c)
      PROVE  BasicInv'
  <2>1. c \in Reloader /\ c # Watcher
    BY ReloadAssumption DEF Reloader
  <2>2. WatcherTypeOK' /\ Fresh'
    BY <1>9 DEF BasicInv, WatcherTypeOK, Fresh, Ask, watcherVars, counts
  <2>3. ReloadTypeOK' /\ stage'[Watcher] = stage[Watcher]
    BY <1>0, <1>9, <2>1, LoadType DEF Ask
  <2>4. Flow'
    BY <1>9, <2>3 DEF BasicInv, Flow, Ask, watcherVars
  <2> QED BY <2>2, <2>3, <2>4 DEF BasicInv
<1>10. ASSUME NEW c \in Command, Finished(c)
       PROVE  BasicInv'
  <2>1. c \in Reloader /\ c # Watcher
    BY ReloadAssumption DEF Reloader
  <2>2. WatcherTypeOK' /\ Fresh'
    BY <1>10 DEF BasicInv, WatcherTypeOK, Fresh, Finished, watcherVars, counts
  <2>3. ReloadTypeOK'
    BY <1>10, <2>1, VersionSettings DEF BasicInv, ReloadTypeOK, Finished, Started, Agents, Ended
  <2>4. Flow'
    BY <1>0, <1>10, <2>1 DEF BasicInv, ReloadTypeOK, Flow, Finished, Started, Ended, watcherVars
  <2> QED BY <2>2, <2>3, <2>4 DEF BasicInv
<1>11. CASE UNCHANGED vars
  BY <1>11 DEF BasicInv, WatcherTypeOK, ReloadTypeOK, Flow, Fresh, vars, watcherVars, counts, applied, reloads, ghosts
<1> QED BY <1>1, <1>2, <1>3, <1>4, <1>5, <1>6, <1>7, <1>8, <1>9, <1>10, <1>11 DEF Next

\* Every variable of the watcher and of the reloads has its type.
THEOREM TypeCorrect == Spec => [](TypeOK /\ Flow)
<1>1. BasicInv => TypeOK /\ Flow
  BY DEF BasicInv, TypeOK, ReloadTypeOK
<1>2. Init /\ [][Next]_vars => []BasicInv
  BY InitBasic, NextBasic, PTL
<1> QED BY <1>1, <1>2, PTL DEF Spec

-----------------------------------------------------------------------------
(* What is told was a change.                                               *)

\* A file is told of only if it is dirty, and it is clean afterwards.
LEMMA FireTells ==
    ASSUME BasicInv, NEW p \in File, Fire(p)
    PROVE  p \in Dirty /\ Dirty' = Dirty \ {p} /\ told' = [told EXCEPT ![p] = @ + 1]
<1>1. snap[p] # None /\ pending[p] # None /\ mtime[p] # snap[p]
  BY DEF Fire, Differs, Due, Same
<1>2. snap[p] = baseline[p]
  BY <1>1 DEF BasicInv, Fresh
<1>3. p \in Dirty
  BY <1>1, <1>2 DEF Dirty
<1>4. Dirty' = Dirty \ {p}
  BY <1>2 DEF BasicInv, WatcherTypeOK, Fire, Dirty
<1> QED BY <1>3, <1>4 DEF Fire

\* An acknowledged file is clean.
LEMMA AcknowledgedSettles ==
    ASSUME BasicInv, NEW p \in File, NEW s \in Stamp,
           mtime' = [mtime EXCEPT ![p] = s], Acknowledged(p, s)
    PROVE  Dirty' = Dirty \ {p}
BY DEF BasicInv, WatcherTypeOK, Acknowledged, Dirty

LEMMA NextNotice == BasicInv /\ [Next]_vars => [Notice!Next]_(Notice!vars)
<1> SUFFICES ASSUME BasicInv, [Next]_vars PROVE [Notice!Next]_(Notice!vars)
  OBVIOUS
<1> USE DEF Notice!Next, Notice!vars
<1>0. Cfg \in File
  BY CfgIsFile
<1>1. CASE Scan
  <2>1. mtime' = mtime /\ baseline' = baseline /\ told' = told
    BY <1>1 DEF Scan, Wake, ScanEnds, Unchanged, Suspect, Wait
  <2>2. (loop' # "stopped") = (loop # "stopped")
    BY <1>1 DEF Scan, Wake, ScanEnds, Unchanged, Suspect, Wait
  <2> QED BY <2>1, <2>2 DEF Dirty
<1>2. CASE Notified
  <2>1. Cfg \in Dirty /\ Dirty' = Dirty \ {Cfg} /\ told' = [told EXCEPT ![Cfg] = @ + 1]
    BY <1>0, <1>2, FireTells DEF Notified
  <2>2. loop = "scanning" /\ loop' # "stopped"
    BY <1>2 DEF Notified, Fire, Differs, Due
  <2> QED BY <1>0, <2>1, <2>2 DEF Notice!Tell
<1>3. CASE Acknowledges
  <2>1. calling = Cfg /\ loop = "calling" /\ loop' = "scanning" /\ told' = told
    BY <1>3 DEF BasicInv, Flow, Acknowledges, Returned
  <2>2. mtime[Cfg] \in Stamp /\ mtime' = [mtime EXCEPT ![Cfg] = mtime[Cfg]]
    BY <1>0, <1>3 DEF BasicInv, WatcherTypeOK, Acknowledges, Returned
  <2>3. Dirty' = Dirty \ {Cfg}
    BY <1>0, <1>3, <2>1, <2>2, AcknowledgedSettles DEF Acknowledges, Returned
  <2> QED BY <1>0, <2>1, <2>3 DEF Notice!Settle
<1>4. CASE Shutdown
  <2>1. Dirty' = Dirty /\ told' = told
    BY <1>4 DEF Shutdown, StopWatcher, Dirty
  <2>2. CASE loop' = "stopped"
    BY <2>1, <2>2 DEF Notice!Close
  <2>3. CASE loop' # "stopped"
    BY <1>4, <2>1, <2>3 DEF Shutdown, StopWatcher
  <2> QED BY <2>2, <2>3
<1>5. ASSUME NEW p \in File, JobsChange(p)
      PROVE  [Notice!Next]_(Notice!vars)
  <2>1. p \in Dirty /\ Dirty' = Dirty \ {p} /\ told' = [told EXCEPT ![p] = @ + 1]
    BY <1>5, FireTells DEF JobsChange
  <2>2. loop = "scanning" /\ loop' # "stopped"
    BY <1>5 DEF JobsChange, Fire, Differs, Due
  <2> QED BY <2>1, <2>2 DEF Notice!Tell
<1>6. ASSUME NEW p \in File, Write(p)
      PROVE  [Notice!Next]_(Notice!vars)
  <2>1. PICK s \in Stamp : mtime' = [mtime EXCEPT ![p] = s]
    BY <1>6 DEF Write
  <2>2. baseline' = baseline /\ told' = told /\ loop' = loop
    BY <1>6 DEF Write
  <2>3. Dirty' = Dirty \cup {p} \/ Dirty' = Dirty \ {p}
    BY <2>1, <2>2 DEF BasicInv, WatcherTypeOK, Dirty
  <2> QED BY <2>2, <2>3 DEF Notice!Change, Notice!Settle
<1>7. ASSUME NEW p \in File, Save(p)
      PROVE  [Notice!Next]_(Notice!vars)
  <2>1. PICK s \in Stamp : mtime' = [mtime EXCEPT ![p] = s] /\ Acknowledged(p, s)
    BY <1>7 DEF Save
  <2>2. Dirty' = Dirty \ {p} /\ told' = told /\ loop' = loop
    BY <1>7, <2>1, AcknowledgedSettles DEF Save
  <2> QED BY <2>2 DEF Notice!Settle
<1>8. CASE UNCHANGED watcherVars
  BY <1>8 DEF watcherVars, Dirty
<1> QED
  BY <1>1, <1>2, <1>3, <1>4, <1>5, <1>6, <1>7, <1>8 DEF Next, Stopped, Ask, Finished, vars

\* A callback is called for a change that nobody acknowledged or undid, once.
THEOREM WatcherImplementsNotice == Spec => ImplementsNotice
<1>1. Init => Notice!Init
  BY DEF Init, WatcherInit, Notice!Init, Dirty
<1>2. Init /\ [][Next]_vars => []BasicInv
  BY InitBasic, NextBasic, PTL
<1> QED BY <1>1, <1>2, NextNotice, PTL DEF Spec, ImplementsNotice, Notice!Safety

-----------------------------------------------------------------------------
(* What is loaded is applied.                                               *)

\* The newest monitors poll, or the reload that made them is about to say so.
Newest ==
    loop # "stopped" =>
        \/ monitors \in polling
        \/ \E r \in Reloader : stage[r] = "starting" /\ registry[r] = monitors

\* The one reload under way: what it compares, and what it still has to apply.
Remains(r) ==
    /\ Under = {r} /\ new[r] = config /\ registry[r] = monitors
    /\ agents = Content[old[r]].agents
    /\ stage[r] = "stopping" => polling = {monitors}
    /\ stage[r] = "starting" => polling = {} /\ usage = Content[config].providers

Complete ==
    /\ usage = Content[config].providers /\ polling = {monitors}
    /\ agents = Content[config].agents

Alone ==
    ~overlapped /\ loop # "stopped" =>
        /\ Under = {} => Complete
        /\ \A r \in Under : Remains(r)

AppliedInv == limits = Content[config].providers /\ Newest /\ Alone

\* A watcher that has stopped does not start again.
LEMMA StoppedForGood == BasicInv /\ [Next]_vars /\ loop' # "stopped" => loop # "stopped"
BY DEF BasicInv, WatcherTypeOK, Next, Scan, Wake, ScanEnds, Unchanged, Suspect, Wait,
       Notified, Fire, Differs, Due, Acknowledges, Returned, Shutdown, StopWatcher,
       JobsChange, Write, Save, Stopped, Ask, Finished, vars, watcherVars

\* Steps that change neither what is applied nor a reload.
LEMMA QuietApplied ==
    ASSUME AppliedInv, UNCHANGED <<applied, reloads, overlapped>>,
           loop' # "stopped" => loop # "stopped"
    PROVE  AppliedInv'
<1>1. Under' = Under
  BY DEF Under, reloads
<1>2. \A r \in Under : Remains(r) => Remains(r)'
  BY <1>1 DEF Remains, applied, reloads
<1>3. Newest'
  BY DEF AppliedInv, Newest, applied, reloads
<1>4. Alone'
  BY <1>1, <1>2 DEF AppliedInv, Alone, Complete, applied
<1> QED BY <1>3, <1>4 DEF AppliedInv, applied

\* A reload begins, and ends at once if the file does not load or if it has
\* nothing to wait for.
LEMMA LoadApplied ==
    ASSUME BasicInv, AppliedInv, NEW r \in Reloader, r \notin Under,
           CannotLoad(r) \/ Load(r), loop' # "stopped" => loop # "stopped"
    PROVE  AppliedInv'
<1> USE DEF BasicInv, ReloadTypeOK
<1>1. stage[r] \notin {"stopping", "starting"}
  BY DEF Under
<1>2. CASE CannotLoad(r)
  <2>1. stage' = [stage EXCEPT ![r] = IF r = Watcher THEN "idle" ELSE "done"]
    BY <1>2 DEF CannotLoad, Ended
  <2>2. UNCHANGED <<applied, old, new, registry, overlapped>>
    BY <1>2 DEF CannotLoad
  <2>3. Under' = Under
    BY <1>1, <2>1 DEF Under
  <2>4. \A q \in Reloader : stage'[q] # stage[q] => q \notin Under /\ stage[q] \notin {"stopping", "starting"}
    BY <1>1, <2>1 DEF Under
  <2>5. \A q \in Under : Remains(q) => Remains(q)'
    <3>1. \A q \in Under : stage'[q] = stage[q]
      BY <2>4 DEF Under
    <3> QED BY <2>2, <2>3, <3>1 DEF Remains, applied
  <2>6. Newest'
    BY <2>1, <2>2, <2>4 DEF AppliedInv, Newest, applied
  <2>7. Alone'
    BY <2>2, <2>3, <2>5 DEF AppliedInv, Alone, Complete, applied
  <2> QED BY <2>2, <2>6, <2>7 DEF AppliedInv, applied
<1>3. CASE Load(r) /\ SameProviders(r)
  <2>1. stage' = [stage EXCEPT ![r] = IF r = Watcher THEN "idle" ELSE "done"]
        /\ UNCHANGED <<limits, monitors, usage, polling, old, new, registry>>
    BY <1>3 DEF SameProviders, Ended
  <2>2. config' = mtime[Cfg] /\ Content[config'].providers = Content[config].providers
    BY <1>3 DEF Load, SameProviders
  <2>3. Under' = Under
    BY <1>1, <2>1 DEF Under
  <2>4. Newest'
    BY <1>1, <2>1 DEF AppliedInv, Newest
  <2>5. Alone'
    <3>1. SUFFICES ASSUME ~overlapped', loop' # "stopped" PROVE (Under = {} => Complete)' /\ Under' = {}
      BY DEF Alone
    <3>2. Under = {} /\ ~overlapped
      BY <1>3, <3>1 DEF Load
    <3>3. Complete
      BY <3>1, <3>2 DEF AppliedInv, Alone
    <3>4. agents' = Content[config'].agents
      BY <1>3, <2>2, <3>3 DEF SameProviders, Agents, Complete
    <3> QED BY <2>1, <2>2, <2>3, <3>2, <3>3, <3>4 DEF Complete
  <2> QED BY <2>1, <2>2, <2>4, <2>5 DEF AppliedInv
<1>4. CASE Load(r) /\ OtherProviders(r)
  <2>1. /\ config' = mtime[Cfg] /\ limits' = Content[config'].providers
        /\ polling' = polling /\ agents' = agents
        /\ old' = [old EXCEPT ![r] = config] /\ new' = [new EXCEPT ![r] = config']
    BY <1>4 DEF Load, OtherProviders
  <2>2. CASE monitors \in polling
    <3>1. /\ stage' = [stage EXCEPT ![r] = "stopping"]
          /\ registry' = [registry EXCEPT ![r] = monitors]
          /\ UNCHANGED <<monitors, usage>>
      BY <1>4, <2>2 DEF OtherProviders
    <3>2. Newest'
      BY <2>1, <2>2, <3>1 DEF Newest
    <3>3. Under' = Under \cup {r}
      BY <3>1 DEF Under
    <3>4. Alone'
      <4>1. SUFFICES ASSUME ~overlapped', loop' # "stopped" PROVE Remains(r)' /\ Under' = {r}
        BY DEF Alone
      <4>2. Under = {} /\ Complete
        BY <1>4, <4>1 DEF Load, AppliedInv, Alone
      <4> QED BY <2>1, <3>1, <3>3, <4>2 DEF Complete, Remains
    <3> QED BY <2>1, <3>2, <3>4 DEF AppliedInv
  <2>3. CASE monitors \notin polling
    <3>1. /\ monitors' = monitors + 1
          /\ stage' = [stage EXCEPT ![r] = "starting"]
          /\ registry' = [registry EXCEPT ![r] = monitors + 1]
      BY <1>4, <2>3 DEF OtherProviders, Renew
    <3>2. Newest'
      BY <3>1 DEF Newest
    <3>3. Alone'
      BY <1>4, <2>3 DEF Load, AppliedInv, Alone, Complete
    <3> QED BY <2>1, <3>2, <3>3 DEF AppliedInv
  <2> QED BY <2>2, <2>3
<1> QED BY <1>2, <1>3, <1>4 DEF Load

\* The old monitors have ended and there are new ones.
LEMMA StoppedApplied ==
    ASSUME BasicInv, AppliedInv, NEW r \in Reloader, Stopped(r)
    PROVE  AppliedInv'
<1> USE DEF BasicInv, ReloadTypeOK
<1>1. /\ stage[r] = "stopping" /\ stage' = [stage EXCEPT ![r] = "starting"]
      /\ monitors' = monitors + 1 /\ registry' = [registry EXCEPT ![r] = monitors']
      /\ usage' = Content[new[r]].providers /\ polling' = polling \ {registry[r]}
      /\ UNCHANGED <<config, limits, agents, old, new, overlapped, loop>>
  BY DEF Stopped, Renew, watcherVars, ghosts
<1>2. Newest'
  BY <1>1 DEF Newest
<1>3. Under' = Under /\ r \in Under
  BY <1>1 DEF Under
<1>4. Alone'
  <2>1. SUFFICES ASSUME ~overlapped, loop # "stopped" PROVE Remains(r)' /\ Under' = {r}
    BY <1>1 DEF Alone
  <2>2. Remains(r)
    BY <1>3, <2>1 DEF AppliedInv, Alone
  <2> QED BY <1>1, <1>3, <2>2 DEF Remains
<1> QED BY <1>1, <1>2, <1>4 DEF AppliedInv

\* The new monitors poll, and the agents' part is done.
LEMMA StartedApplied ==
    ASSUME BasicInv, AppliedInv, NEW r \in Reloader, Started(r),
           loop' # "stopped" => loop # "stopped"
    PROVE  AppliedInv'
<1> USE DEF BasicInv, ReloadTypeOK
<1>1. /\ stage[r] = "starting" /\ polling' = polling \cup {registry[r]}
      /\ stage' = [stage EXCEPT ![r] = IF r = Watcher THEN "idle" ELSE "done"]
      /\ UNCHANGED <<config, limits, monitors, usage, old, new, registry, overlapped>>
  BY DEF Started, Ended
<1>2. Newest'
  BY <1>1 DEF AppliedInv, Newest
<1>3. Under' = Under \ {r} /\ r \in Under
  BY <1>1 DEF Under
<1>4. Alone'
  <2>1. SUFFICES ASSUME ~overlapped, loop # "stopped" PROVE Complete' /\ Under' = {}
    BY <1>1 DEF Alone
  <2>2. Remains(r)
    BY <1>3, <2>1 DEF AppliedInv, Alone
  <2>3. agents' = Content[config].agents
    BY <2>2 DEF Started, Agents, Remains
  <2> QED BY <1>1, <1>3, <2>2, <2>3 DEF Remains, Complete
<1> QED BY <1>1, <1>2, <1>4 DEF AppliedInv

LEMMA InitApplied == Init => AppliedInv
<1> SUFFICES ASSUME Init PROVE AppliedInv
  OBVIOUS
<1>1. Under = {}
  BY DEF Init, Under
<1>2. Newest /\ Complete
  BY DEF Init, Newest, Complete
<1> QED BY <1>1, <1>2 DEF Init, AppliedInv, Alone

LEMMA NextApplied == BasicInv /\ AppliedInv /\ [Next]_vars => AppliedInv'
<1> SUFFICES ASSUME BasicInv, AppliedInv, [Next]_vars PROVE AppliedInv'
  OBVIOUS
<1>0. Watcher \in Reloader /\ (loop' # "stopped" => loop # "stopped")
  BY StoppedForGood DEF Reloader
<1>1. CASE UNCHANGED <<applied, reloads, overlapped>>
  BY <1>0, <1>1, QuietApplied
<1>2. CASE Notified
  <2>1. Watcher \notin Under
    BY <1>2 DEF Notified, Fire, Differs, Due, BasicInv, Flow, Under
  <2> QED BY <1>0, <1>2, <2>1, LoadApplied DEF Notified
<1>3. CASE Acknowledges
  BY <1>0, <1>3, StartedApplied DEF Acknowledges
<1>4. CASE Shutdown
  <2>1. CASE loop' = "stopped"
    BY <1>4, <2>1 DEF AppliedInv, Newest, Alone, Shutdown, applied
  <2>2. CASE loop' # "stopped"
    <3>1. loop' = loop /\ stage[Watcher] = "stopping"
      BY <1>4, <2>2 DEF Shutdown, StopWatcher
    <3>2. stage' = stage
      BY <1>0, <1>4, <3>1 DEF BasicInv, ReloadTypeOK, Shutdown
    <3> QED BY <1>0, <1>4, <3>2, QuietApplied DEF Shutdown, reloads, ghosts
  <2> QED BY <2>1, <2>2
<1>5. ASSUME NEW r \in Reloader, Stopped(r)
      PROVE  AppliedInv'
  BY <1>5, StoppedApplied
<1>6. ASSUME NEW c \in Command, Ask(c)
      PROVE  AppliedInv'
  <2>1. c \in Reloader /\ c \notin Under
    BY <1>6 DEF Ask, Under, Reloader
  <2> QED BY <1>0, <1>6, <2>1, LoadApplied DEF Ask
<1>7. ASSUME NEW c \in Command, Finished(c)
      PROVE  AppliedInv'
  BY <1>0, <1>7, StartedApplied DEF Finished, Reloader
<1> QED
  BY <1>1, <1>2, <1>3, <1>4, <1>5, <1>6, <1>7 DEF Next, Scan, JobsChange, Edited, vars, ghosts

\* When no reload is under way the loaded limits hold and the newest monitors poll;
\* if reloads never overlapped, usage and agents are those of the configuration too.
THEOREM LoadedIsApplied == Spec => []Applied
<1>1. AppliedInv => Applied
  <2> SUFFICES ASSUME AppliedInv, Under = {}, loop # "stopped"
               PROVE  /\ monitors \in polling /\ limits = Content[config].providers
                      /\ ~overlapped => Complete
    BY DEF Applied, Complete
  <2>1. monitors \in polling
    BY DEF AppliedInv, Newest, Under
  <2>2. ~overlapped => Complete
    BY DEF AppliedInv, Alone
  <2> QED BY <2>1, <2>2 DEF AppliedInv
<1>2. Init /\ [][Next]_vars => [](BasicInv /\ AppliedInv)
  BY InitBasic, NextBasic, InitApplied, NextApplied, PTL
<1> QED BY <1>1, <1>2, PTL DEF Spec

-----------------------------------------------------------------------------
(* What the watcher takes for known.                                        *)

Noticed == baseline[Cfg] # None /\ (unseen <=> tried # mtime[Cfg] /\ baseline[Cfg] = mtime[Cfg])

\* Loading, or finding that the version does not load, settles it.
LEMMA TriedNoticed ==
    ASSUME BasicInv, Noticed, Tried, UNCHANGED mtime,
           baseline'[Cfg] # None
    PROVE  Noticed'
BY DEF Noticed, Tried

LEMMA NextNoticed == BasicInv /\ Noticed /\ [Next]_vars => Noticed'
<1> SUFFICES ASSUME BasicInv, Noticed, [Next]_vars PROVE Noticed'
  OBVIOUS
<1>0. /\ Cfg \in File /\ None \notin Stamp
      /\ mtime \in [File -> Stamp] /\ baseline \in [File -> Stamp \cup {None}]
      /\ unseen \in BOOLEAN
  BY CfgIsFile, NoneIsNone DEF BasicInv, WatcherTypeOK, ReloadTypeOK
<1>1. CASE UNCHANGED <<mtime[Cfg], baseline[Cfg], tried, unseen>>
  BY <1>1 DEF Noticed
<1>2. CASE Notified
  <2>1. Tried /\ mtime' = mtime /\ baseline' = [baseline EXCEPT ![Cfg] = mtime[Cfg]]
    BY <1>2 DEF Notified, Fire, CannotLoad, Load
  <2>2. baseline'[Cfg] = mtime[Cfg] /\ mtime[Cfg] # None
    BY <1>0, <2>1
  <2> QED BY <2>1, <2>2, TriedNoticed
<1>3. CASE Acknowledges
  <2>1. calling = Cfg
    BY <1>3 DEF BasicInv, Flow, Acknowledges, Returned
  <2>2. Acknowledged(Cfg, mtime[Cfg]) /\ mtime' = mtime /\ tried' = tried
    BY <1>3, <2>1 DEF Acknowledges, Returned, Started
  <2>3. baseline' = [baseline EXCEPT ![Cfg] = mtime[Cfg]]
    BY <2>2 DEF Acknowledged, Noticed
  <2>4. unseen' = (tried # mtime[Cfg])
    BY <1>3 DEF Acknowledges
  <2>5. baseline'[Cfg] = mtime[Cfg] /\ mtime[Cfg] # None
    BY <1>0, <2>3
  <2> QED BY <2>2, <2>4, <2>5 DEF Noticed
<1>4. CASE \E c \in Command : Ask(c)
  <2>1. Tried /\ mtime' = mtime /\ baseline' = baseline
    BY <1>4 DEF Ask, CannotLoad, Load, watcherVars
  <2> QED BY <2>1, TriedNoticed DEF Noticed
<1>5. ASSUME NEW p \in File, Write(p), Edited(p) PROVE Noticed'
  <2>1. baseline' = baseline /\ tried' = tried
    BY <1>5 DEF Write, Edited
  <2>2. CASE p = Cfg
    BY <1>5, <2>1, <2>2 DEF Noticed, Edited
  <2>3. CASE p # Cfg
    <3>1. mtime'[Cfg] = mtime[Cfg]
      BY <1>0, <1>5, <2>3 DEF Write
    <3> QED BY <1>5, <2>1, <2>3, <3>1 DEF Noticed, Edited
  <2> QED BY <2>2, <2>3
<1>6. ASSUME NEW p \in File, Save(p), Edited(p) PROVE Noticed'
  <2>1. tried' = tried
    BY <1>6 DEF Edited
  <2>2. PICK s \in Stamp : mtime' = [mtime EXCEPT ![p] = s] /\ Acknowledged(p, s)
    BY <1>6 DEF Save
  <2>3. CASE p = Cfg
    <3>1. baseline' = [baseline EXCEPT ![Cfg] = s]
      BY <2>2, <2>3 DEF Acknowledged, Noticed
    <3>2. baseline'[Cfg] = s /\ s # None
      BY <1>0, <3>1
    <3> QED BY <1>6, <2>1, <2>3, <3>2 DEF Noticed, Edited
  <2>4. CASE p # Cfg
    <3>1. mtime'[Cfg] = mtime[Cfg]
      BY <1>0, <2>2, <2>4
    <3>2. baseline'[Cfg] = baseline[Cfg]
      BY <1>0, <2>2, <2>4 DEF Acknowledged
    <3> QED BY <1>6, <2>1, <2>4, <3>1, <3>2 DEF Noticed, Edited
  <2> QED BY <2>3, <2>4
<1>7. CASE \E p \in File : JobsChange(p)
  <2>1. PICK p \in File : JobsChange(p)
    BY <1>7
  <2>2. p # Cfg /\ mtime' = mtime /\ baseline' = [baseline EXCEPT ![p] = mtime[p]]
        /\ tried' = tried /\ unseen' = unseen
    BY <2>1 DEF JobsChange, Fire, ghosts
  <2>3. baseline'[Cfg] = baseline[Cfg]
    BY <1>0, <2>2
  <2> QED BY <1>1, <2>2, <2>3
<1>8. CASE Scan \/ Shutdown
  BY <1>1, <1>8 DEF Scan, Wake, ScanEnds, Unchanged, Suspect, Wait, Shutdown, StopWatcher, ghosts
<1>9. CASE \/ \E r \in Reloader : Stopped(r)
           \/ \E c \in Command : Finished(c)
  BY <1>1, <1>9 DEF Stopped, Finished, Started, watcherVars, ghosts
<1>10. CASE UNCHANGED vars
  BY <1>1, <1>10 DEF vars, watcherVars, ghosts
<1> QED BY <1>2, <1>3, <1>4, <1>5, <1>6, <1>7, <1>8, <1>9, <1>10 DEF Next

\* No version of config.yaml is overlooked: what was not tried is a change that the watcher
\* still sees, unless a save or the acknowledgement after a reload made it known.
THEOREM EditsAreNoticed == Spec => []NothingIsOverlooked
<1>1. Init => Noticed
  <2> SUFFICES ASSUME Init PROVE Noticed
    OBVIOUS
  <2>1. Cfg \in File /\ Cfg \in Present /\ 1 \in Stamp /\ 1 # None
    BY CfgIsFile, ReloadAssumption, WatcherAssumption DEF Version
  <2> QED BY <2>1 DEF Init, WatcherInit, Noticed
<1>2. BasicInv /\ Noticed => NothingIsOverlooked
  BY CfgIsFile DEF Noticed, NothingIsOverlooked, Dirty
<1>3. Init /\ [][Next]_vars => [](BasicInv /\ Noticed)
  BY InitBasic, NextBasic, <1>1, NextNoticed, PTL
<1> QED BY <1>2, <1>3, PTL DEF Spec
=============================================================================
