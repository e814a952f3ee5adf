---------------------------- MODULE ConfigReload ----------------------------
(***************************************************************************)
(* Gateway.reload_config (core/gateway.py) and those who call it: the file *)
(* watcher when config.yaml changes, and /reload, /restart and the API at  *)
(* any time.                                                               *)
(*                                                                         *)
(* A reload applies what differs between the configuration before and the  *)
(* one it has loaded.  While it stops the old usage monitors and starts    *)
(* new ones it is suspended and another reload may begin.                  *)
(***************************************************************************)
EXTENDS FileWatcher

CONSTANTS
    Cfg,        \* config.yaml
    Content,    \* Content[s]: what the file with modification time s says, or None: it does not load
    Command,    \* reloads asked for by commands and by the API
    Watcher     \* the reload the watcher asks for

Reloader == Command \cup {Watcher}
Version == {s \in Stamp : Content[s] # None}
Setting == UNION {{Content[s].providers, Content[s].agents} : s \in Version}

ASSUME ReloadAssumption ==
    /\ Cfg \in Present
    /\ Content[0] = None /\ 1 \in Version
    /\ Watcher \notin Command

VARIABLES
    config,      \* the version in Gateway._config
    limits,      \* the providers whose limits the concurrency manager has
    monitors,    \* the number of the usage registry
    usage,       \* the providers it was made for
    polling,     \* registries whose monitors poll
    agents,      \* the configuration the agents have
    stage,       \* where a reload is suspended
    old, new,    \* the versions it compares
    registry,    \* the registry it is stopping or starting
    tried,       \* the version last loaded, or found not to load
    unseen,      \* there is another version, and the watcher takes it for known
    overlapped   \* a reload began during another

applied == <<config, limits, monitors, usage, polling, agents>>
reloads == <<stage, old, new, registry>>
ghosts == <<tried, unseen, overlapped>>
vars == <<watcherVars, applied, reloads, ghosts>>

TypeOK ==
    /\ WatcherTypeOK
    /\ config \in Version /\ {limits, usage, agents} \subseteq Setting
    /\ monitors \in Nat /\ polling \subseteq 0 .. monitors
    /\ stage \in [Reloader -> {"idle", "stopping", "starting", "done"}]
    /\ old \in [Reloader -> Version] /\ new \in [Reloader -> Version]
    /\ registry \in [Reloader -> 0 .. monitors]
    /\ tried \in Stamp /\ unseen \in BOOLEAN /\ overlapped \in BOOLEAN

Init ==
    /\ WatcherInit
    /\ config = 1 /\ limits = Content[1].providers /\ usage = Content[1].providers
    /\ agents = Content[1].agents
    /\ monitors = 0 /\ polling = {0}
    /\ stage = [r \in Reloader |-> "idle"]
    /\ old = [r \in Reloader |-> 1] /\ new = [r \in Reloader |-> 1]
    /\ registry = [r \in Reloader |-> 0]
    /\ tried = 1 /\ unseen = FALSE /\ overlapped = FALSE

-----------------------------------------------------------------------------
(* A reload.                                                                *)

Under == {r \in Reloader : stage[r] \in {"stopping", "starting"}}

\* The file was loaded, or was found not to load.
Tried ==
    /\ tried' = mtime[Cfg] /\ unseen' = FALSE

\* The new registry is made, and its monitors poll for the first time.
Renew(r, s) ==
    /\ monitors' = monitors + 1 /\ usage' = Content[s].providers
    /\ stage' = [stage EXCEPT ![r] = "starting"]
    /\ registry' = [registry EXCEPT ![r] = monitors + 1]

\* The last part: the agents whose configuration differs get the new one.
Agents(from, to) ==
    agents' = IF Content[from].agents # Content[to].agents THEN Content[to].agents ELSE agents

Ended(r) == stage' = [stage EXCEPT ![r] = IF r = Watcher THEN "idle" ELSE "done"]

BugCannotLoadAssigned(r) ==
    /\ mtime[Cfg] \notin Version /\ Tried
    /\ Ended(r)
    /\ config' = mtime[Cfg]
    /\ UNCHANGED <<limits, monitors, usage, polling, agents, old, new, registry, overlapped>>

\* load() raises before anything is assigned.
CannotLoad(r) ==
    /\ mtime[Cfg] \notin Version /\ Tried
    /\ Ended(r)
    /\ UNCHANGED <<applied, old, new, registry, overlapped>>

\* The usage monitors are left alone.
SameProviders(r) ==
    /\ Content[config].providers = Content[mtime[Cfg]].providers
    /\ Agents(config, mtime[Cfg])
    /\ Ended(r)
    /\ UNCHANGED <<limits, monitors, usage, polling, old, new, registry>>

\* The registry of now is stopped.  If its monitors do not poll yet there is
\* nothing to wait for.
OtherProviders(r) ==
    /\ Content[config].providers # Content[mtime[Cfg]].providers
    /\ limits' = Content[mtime[Cfg]].providers
    /\ old' = [old EXCEPT ![r] = config] /\ new' = [new EXCEPT ![r] = mtime[Cfg]]
    /\ IF monitors \in polling
       THEN /\ stage' = [stage EXCEPT ![r] = "stopping"]
            /\ registry' = [registry EXCEPT ![r] = monitors]
            /\ UNCHANGED <<monitors, usage>>
       ELSE Renew(r, mtime[Cfg])
    /\ UNCHANGED <<polling, agents>>

Load(r) ==
    /\ mtime[Cfg] \in Version /\ Tried
    /\ config' = mtime[Cfg]
    /\ overlapped' = (overlapped \/ Under # {})
    /\ SameProviders(r) \/ OtherProviders(r)

BugStoppedPolls(r) ==
    /\ stage[r] = "stopping" /\ Free
    /\ Renew(r, new[r])
    /\ UNCHANGED <<watcherVars, config, limits, polling, agents, old, new, ghosts>>

\* The monitors of the old registry have ended.
Stopped(r) ==
    /\ stage[r] = "stopping" /\ Free
    /\ polling' = polling \ {registry[r]}
    /\ Renew(r, new[r])
    /\ UNCHANGED <<watcherVars, config, limits, agents, old, new, ghosts>>

\* The new ones have polled once and do so from now on: the end of the reload.
Started(r) ==
    /\ stage[r] = "starting" /\ Free
    /\ polling' = polling \cup {registry[r]}
    /\ Agents(old[r], new[r])
    /\ Ended(r)
    /\ UNCHANGED <<config, limits, monitors, usage, old, new, registry, tried, overlapped>>

-----------------------------------------------------------------------------
(* Who reloads.                                                             *)

\* /reload, /restart, POST /config/reload; each is carried out to its end.
Ask(c) ==
    /\ Free /\ stage[c] = "idle"
    /\ CannotLoad(c) \/ Load(c)
    /\ UNCHANGED watcherVars

Finished(c) == Started(c) /\ UNCHANGED <<watcherVars, unseen>>

\* _on_config_change: the scan goes on at once if the reload does not suspend.
Notified ==
    /\ Fire(Cfg)
    /\ CannotLoad(Watcher) \/ Load(Watcher)
    /\ loop' = IF stage'[Watcher] = "idle" THEN "scanning" ELSE "calling"

\* It acknowledges the file as it is after the reload.
Acknowledges ==
    /\ Returned /\ Started(Watcher)
    /\ unseen' = (tried # mtime[Cfg])

\* _on_jobs_change does not suspend.
JobsChange(p) ==
    /\ p # Cfg /\ Fire(p) /\ loop' = loop
    /\ UNCHANGED <<applied, reloads, ghosts>>

\* A reload that starts monitors is cut off; one that stops them takes the
\* cancellation for that of the monitor it waits for.
Shutdown ==
    /\ StopWatcher
    /\ loop' = IF stage[Watcher] = "stopping" THEN loop ELSE "stopped"
    /\ stage' = [stage EXCEPT ![Watcher] = IF @ = "stopping" THEN @ ELSE "idle"]
    /\ UNCHANGED <<applied, old, new, registry, ghosts>>

\* Known to the watcher, because it was acknowledged or is the version it saw last.
Edited(p) ==
    /\ unseen' = (mtime'[Cfg] # tried /\ IF p = Cfg THEN mtime'[Cfg] = baseline'[Cfg] ELSE unseen)
    /\ UNCHANGED <<applied, reloads, tried, overlapped>>

Scan ==
    /\ Wake \/ ScanEnds \/ \E p \in File : Unchanged(p) \/ Suspect(p) \/ Wait(p)
    /\ UNCHANGED <<applied, reloads, ghosts>>

Next ==
    \/ Scan \/ Notified \/ Acknowledges \/ Shutdown
    \/ \E p \in File : JobsChange(p) \/ (Write(p) /\ Edited(p)) \/ (Save(p) /\ Edited(p))
    \/ \E r \in Reloader : Stopped(r)
    \/ \E c \in Command : Ask(c) \/ Finished(c)

\* The event loop runs the scan; a monitor's poll has a time-out of ten seconds.
Fairness ==
    /\ WF_vars(Scan \/ Notified \/ \E p \in File : JobsChange(p))
    /\ WF_vars(Stopped(Watcher)) /\ WF_vars(Acknowledges)

Spec == Init /\ [][Next]_vars /\ Fairness

-----------------------------------------------------------------------------
(* Properties                                                               *)

\* When no reload is under way the usage monitors poll; and if reloads never
\* overlapped, limits, monitors and agents are those of the loaded configuration
\* and no older monitors poll beside them.
Applied ==
    Under = {} /\ loop # "stopped" =>
        /\ monitors \in polling /\ limits = Content[config].providers
        /\ ~overlapped =>
              /\ usage = Content[config].providers /\ polling = {monitors}
              /\ agents = Content[config].agents

\* What EditsAreLoaded rests on: a version of config.yaml that was not tried is one that
\* the watcher sees as a change, except for those it took for known without loading them.
NothingIsOverlooked == unseen <=> tried # mtime[Cfg] /\ Cfg \notin Dirty

\* "When a watched file changes on disk the relevant subsystem is reloaded
\* automatically" (gateway.py 1265): a version of config.yaml that the watcher does
\* not take for known is loaded, or another one comes.
EditsAreLoaded ==
    (tried # mtime[Cfg] /\ ~unseen) ~> (tried = mtime[Cfg] \/ unseen \/ loop = "stopped")
=============================================================================
