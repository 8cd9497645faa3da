----------------------------- MODULE ProcessMonitor -----------------------------
(***************************************************************************)
(* The DLL injection mode: ProcessMonitor finds processes of the target    *)
(* executables, writes each one's shared memory and loads the hook DLL     *)
(* into it; the hook does the same to the processes its host creates.      *)
(*                                                                         *)
(* Three threads of the launcher inject: the window's, the polling         *)
(* thread, and the thread WMI delivers its events on.  The operations are  *)
(* the public ones of the class; processes come and go and process ids     *)
(* are used again.  Shared memory is named by the process id and goes with *)
(* its last handle: the launcher and a parent's hook keep theirs open as   *)
(* long as they run, and so does the hook that has read it.                *)
(***************************************************************************)
EXTENDS Naturals, FiniteSets

CONSTANTS
  Pids,
  Exes,        \* executable names
  NoExe,       \* no process has this id
  Launcher,    \* the holder of handles that is no hooked process
  MaxTries,    \* maxRetries of onProcessCreated
  Uses,        \* bound: how often each process id is used
  Parents,     \* bound: ids whose processes create others through the hook, in each mode
  MaxCalls     \* bound: calls that start the monitor or add a target, in each mode

ASSUME MonitorAssumption ==
  /\ NoExe \notin Exes /\ Launcher \notin Pids
  /\ MaxTries \in Nat \ {0} /\ Parents \in [{"wmi", "poll"} -> SUBSET Pids]

VARIABLES
  image,       \* the executable each process runs
  mapping,     \* the shared memory of each id: enabled or not, cleared, or all defaults
  holders,     \* who has a handle on it open
  hook,        \* the configuration the hook cached when it was loaded
  pending,     \* remote threads that have not loaded the DLL yet
  birth,       \* what a creating process's hook still does to its child
  targets,     \* m_targetProcesses
  injected,    \* m_injectedProcesses
  running,     \* m_running
  mode,        \* what this launcher may use: WMI's events, or polling
  events,      \* start events not delivered yet
  job,         \* the injection each thread is working on
  gui,         \* how far startMonitoring, addTargetProcess or stopMonitoring is
  todo,        \* the processes the window's thread has still to look at
  started,     \* bound: how often each id was used
  calls,       \* bound: how many such calls were made
  late,        \* history: enabled by a write no entry of injected has followed
  lapsed       \* history: what loads the DLL has not, or no more, a written memory

memoryVars == <<mapping, holders, lapsed>>
processVars == <<image, started, memoryVars, hook, pending, birth>>
monitorVars == <<targets, injected, running, mode>>
guiVars == <<gui, todo, calls>>
vars == <<processVars, monitorVars, events, job, guiVars, late>>

Threads == {"window", "worker"}
Configs == {"on", "off", "bare"}      \* bare: no valid shared memory was found
NoJob == [st |-> "idle"]
JobStates == {"premap", "prefill", "open", "map", "fill", "load", "wait", "after"}
Jobs == [st : JobStates, pid : Pids, try : 1 .. MaxTries]
NoBirth == [st |-> "none"]
Births == [st : {"map", "load"}, cached : Configs, by : Pids]

Alive(p) == image[p] # NoExe
Hooked(p) == hook[p] # "none"
IsTarget(p) == image[p] \in targets

\* An open handle keeps the process id from being used again.
Held(p) == \E t \in Threads : job[t] # NoJob /\ job[t].pid = p
                              /\ job[t].st \in {"map", "fill", "load", "wait"}

\* Something is past the writing of p's memory and has not loaded the DLL yet.
Injecting(p) ==
  \/ p \in pending \/ birth[p].st = "load"
  \/ \E t \in Threads : job[t].st = "load" /\ job[t].pid = p

\* The subscription is in force, or the polling thread exists.
Watching == running \/ gui = "disable"

Init ==
  /\ image = [p \in Pids |-> NoExe]
  /\ mapping = [p \in Pids |-> "none"] /\ holders = [p \in Pids |-> {}] /\ lapsed = {}
  /\ hook = [p \in Pids |-> "none"]
  /\ pending = {} /\ birth = [p \in Pids |-> NoBirth]
  /\ targets \in SUBSET Exes /\ injected = {}
  /\ running = FALSE /\ mode \in {"wmi", "poll"}
  /\ events = {} /\ job = [t \in Threads |-> NoJob]
  /\ gui = "idle" /\ todo = {} /\ started = [p \in Pids |-> 0] /\ calls = 0 /\ late = {}
-------------------------------------------------------------------------------
(* The processes, and the hook inside them. *)

Notify(p) == events' = IF mode = "wmi" /\ Watching THEN events \cup {p} ELSE events

Starts(p, e) ==
  /\ gui # "aborted" /\ started[p] < Uses[p] /\ started' = [started EXCEPT ![p] = @ + 1]
  /\ ~Alive(p) /\ ~Held(p)
  /\ image' = [image EXCEPT ![p] = e]

\* Started by a process the hook is not in.
Spawn(p, e) ==
  /\ Starts(p, e)
  /\ Notify(p)
  /\ UNCHANGED <<memoryVars, hook, pending, birth, monitorVars, job, guiVars, late>>

\* Hooked_CreateProcess and Hooked_ShellExecuteEx take every child, target or not.
SpawnHooked(parent, p, e) ==
  /\ Hooked(parent) /\ Starts(p, e)
  /\ birth' = [birth EXCEPT ![p] = [st |-> "map", cached |-> hook[parent], by |-> parent]]
  /\ Notify(p)
  /\ UNCHANGED <<memoryVars, hook, pending, monitorVars, job, guiVars, late>>

\* A handle on p's memory, which is created when there is none, and what it then says.
Write(p, holder, config) ==
  /\ mapping' = [mapping EXCEPT ![p] = config]
  /\ holders' = [holders EXCEPT ![p] = @ \cup {holder}]
  /\ late' = late \cup {p}

\* A configuration is in the memory again before the DLL is there to read it.
Mended(p) == IF Hooked(p) THEN lapsed ELSE lapsed \ {p}

\* The child gets its parent's configuration as it was when the parent was hooked;
\* the parent keeps the handle.
CreateSharedMemoryForProcess(p) ==
  /\ birth[p].st = "map"
  /\ Write(p, birth[p].by, birth[p].cached)
  /\ lapsed' = IF birth[p].cached = "bare" THEN lapsed \cup {p} ELSE Mended(p)
  /\ birth' = [birth EXCEPT ![p].st = "load"]
  /\ UNCHANGED <<image, started, hook, pending, monitorVars, events, job, guiVars>>

\* No mapping, or no view of it: the caller does not look, and injects all the same.
CreateSharedMemoryFails(p) ==
  /\ birth[p].st = "map"
  /\ lapsed' = IF mapping[p] \in {"on", "off"} THEN lapsed ELSE lapsed \cup {p}
  /\ late' = late \cup {p}
  /\ birth' = [birth EXCEPT ![p].st = "load"]
  /\ UNCHANGED <<image, started, mapping, holders, hook, pending, monitorVars, events, job, guiVars>>

\* Mutant: the remote thread is started before the shared memory is there.
InjectBeforeMapping(p) ==
  /\ birth[p] # NoBirth
  /\ pending' = pending \cup {p}
  /\ birth' = [birth EXCEPT ![p] = NoBirth]
  /\ UNCHANGED <<image, started, memoryVars, hook, monitorVars, events, job, guiVars, late>>

InjectIntoChild(p) ==
  /\ birth[p].st = "load"
  /\ pending' = pending \cup {p}
  /\ birth' = [birth EXCEPT ![p] = NoBirth]
  /\ UNCHANGED <<image, started, memoryVars, hook, monitorVars, events, job, guiVars, late>>

\* InjectIntoProcessByPid, for ShellExecuteEx, tries again and maps again.
InjectAgain(p) ==
  /\ birth[p].st = "load"
  /\ birth' = [birth EXCEPT ![p].st = "map"]
  /\ UNCHANGED <<image, started, memoryVars, hook, pending, monitorVars, events, job, guiVars, late>>

\* No memory or no thread in the child.
ChildNotInjected(p) ==
  /\ birth[p] # NoBirth
  /\ birth' = [birth EXCEPT ![p] = NoBirth]
  /\ UNCHANGED <<image, started, memoryVars, hook, pending, monitorVars, events, job, guiVars, late>>

\* LoadProxyConfig: a cleared memory is not valid; one that is being filled again may
\* be valid and not enabled yet.
Read(p) ==
  CASE mapping[p] = "none"  -> {"bare"}
    [] mapping[p] = "blank" -> {"bare", "off"}
    [] OTHER                -> {mapping[p]}

\* LoadLibraryW; a second load of the DLL changes nothing.  The handle on what was
\* read stays open.
DllMain(p) ==
  /\ p \in pending
  /\ pending' = pending \ {p}
  /\ IF Hooked(p) THEN UNCHANGED <<hook, holders>>
     ELSE \E c \in Read(p) :
            /\ hook' = [hook EXCEPT ![p] = c]
            /\ holders' = [holders EXCEPT ![p] = IF c = "bare" THEN @ ELSE @ \cup {p}]
  /\ UNCHANGED <<image, started, mapping, lapsed, birth, monitorVars, events, job, guiVars, late>>

\* The end of a process or of the launcher closes its handles, and a memory nobody
\* has a handle on any more is gone.
Closed(h) == {p \in Pids : holders[p] = {h}}
CloseHandles(h) ==
  /\ holders' = [p \in Pids |-> holders[p] \ {h}]
  /\ mapping' = [p \in Pids |-> IF p \in Closed(h) THEN "none" ELSE mapping[p]]

\* A parent's hook ends with it, and the children it had not injected stay alone.
Exit(p) ==
  /\ Alive(p)
  /\ image' = [image EXCEPT ![p] = NoExe]
  /\ hook' = [hook EXCEPT ![p] = "none"]
  /\ CloseHandles(p)
  /\ lapsed' = (lapsed \cup Closed(p)) \ {p}
  /\ pending' = pending \ {p}
  /\ birth' = [q \in Pids |-> IF q = p \/ (birth[q] # NoBirth /\ birth[q].by = p)
                             THEN NoBirth ELSE birth[q]]
  /\ late' = late \ {p}
  /\ UNCHANGED <<started, monitorVars, events, job, guiVars>>

\* The live flag; the cached one while the memory is not valid; and a hook that found
\* no memory has the default, enabled.
IsProxyEnabled(p) ==
  \/ hook[p] = "bare" \/ mapping[p] \in {"on", "bare"}
  \/ hook[p] = "on" /\ mapping[p] = "blank"
IsProxyConfigured(p) == hook[p] # "bare"

\* ProcessConnection: what becomes of a connection to a destination of kind d.
ProcessConnection(p, d) ==
  IF /\ Hooked(p) /\ IsProxyEnabled(p) /\ IsProxyConfigured(p)
     /\ d \in {"ipv4", "mapped"}
  THEN "proxy" ELSE "direct"
-------------------------------------------------------------------------------
(* injectIntoProcess, on any of the three threads. *)

At(t, st) == job[t] # NoJob /\ job[t].st = st
Goto(t, st) == job' = [job EXCEPT ![t].st = st]
Finish(t) == job' = [job EXCEPT ![t] = NoJob]
Take(t, st, p) == job' = [job EXCEPT ![t] = [st |-> st, pid |-> p, try |-> 1]]

\* An entry follows a write that is not under way any more.
Insert(p) ==
  /\ injected' = injected \cup {p}
  /\ late' = IF running /\ mapping[p] # "blank" THEN late \ {p} ELSE late

\* A process that has the DLL counts as a success, and its memory is left alone.
AlreadyInjected(t) ==
  /\ At(t, "open") /\ Hooked(job[t].pid)
  /\ Insert(job[t].pid) /\ Finish(t)
  /\ UNCHANGED <<processVars, targets, running, mode, events, guiVars>>

OpenProcess(t) ==
  /\ At(t, "open") /\ Alive(job[t].pid) /\ ~Hooked(job[t].pid)
  /\ Goto(t, "map")
  /\ UNCHANGED <<processVars, monitorVars, events, guiVars, late>>

\* createProxySharedMemory: the memory is created, or found, and cleared ...
ClearMapping(t) ==
  /\ At(t, "premap") \/ At(t, "map")
  /\ LET p == job[t].pid
     IN /\ Write(p, Launcher, "blank")
        /\ lapsed' = IF Injecting(p) THEN lapsed \cup {p} ELSE lapsed
  /\ Goto(t, IF At(t, "premap") THEN "prefill" ELSE "fill")
  /\ UNCHANGED <<image, started, hook, pending, birth, monitorVars, events, guiVars>>

\* ... and then filled.  injectIntoRunningProcess does this before injectIntoProcess
\* does it again.
FillMapping(t) ==
  /\ At(t, "prefill") \/ At(t, "fill")
  /\ LET p == job[t].pid
     IN Write(p, Launcher, "on") /\ lapsed' = Mended(p)
  /\ Goto(t, IF At(t, "prefill") THEN "open" ELSE "load")
  /\ UNCHANGED <<image, started, hook, pending, birth, monitorVars, events, guiVars>>

CreateRemoteThread(t) ==
  /\ At(t, "load") /\ Alive(job[t].pid)
  /\ pending' = pending \cup {job[t].pid}
  /\ Goto(t, "wait")
  /\ UNCHANGED <<image, started, memoryVars, hook, birth, monitorVars, events, guiVars, late>>

\* Mutant: the wait has no limit.
WaitsForever(t) ==
  /\ At(t, "wait") /\ job[t].pid \notin pending
  /\ Insert(job[t].pid) /\ Finish(t)
  /\ UNCHANGED <<processVars, targets, running, mode, events, guiVars>>

\* The thread has ended, or the five seconds have: a success in either case.
WaitReturns(t) ==
  /\ At(t, "wait")
  /\ Insert(job[t].pid) /\ Finish(t)
  /\ UNCHANGED <<processVars, targets, running, mode, events, guiVars>>

\* Mutant: one attempt too many.
InjectFailsOnceMore(t) ==
  /\ At(t, "premap") \/ At(t, "open") \/ At(t, "map") \/ At(t, "load")
  /\ IF t = "worker" /\ mode = "wmi"
     THEN \/ /\ Alive(job[t].pid) /\ job[t].try <= MaxTries
             /\ job' = [job EXCEPT ![t].st = "open", ![t].try = @ + 1]
          \/ Goto(t, "after")
     ELSE Finish(t)
  /\ UNCHANGED <<processVars, monitorVars, events, guiVars, late>>

\* The process cannot be opened (access denied, or gone), has the other
\* architecture, or gives no memory or thread; or there is no shared memory.  Only
\* WMI's handler tries again.
InjectFails(t) ==
  /\ At(t, "premap") \/ At(t, "open") \/ At(t, "map") \/ At(t, "load")
  /\ IF t = "worker" /\ mode = "wmi"
     THEN \/ /\ Alive(job[t].pid) /\ job[t].try < MaxTries
             /\ job' = [job EXCEPT ![t].st = "open", ![t].try = @ + 1]
          \/ Goto(t, "after")
     ELSE Finish(t)
  /\ UNCHANGED <<processVars, monitorVars, events, guiVars, late>>
-------------------------------------------------------------------------------
(* onProcessCreated on WMI's thread; nothing on this path reads m_running. *)

OnProcessCreated(p) ==
  /\ p \in events /\ job["worker"] = NoJob
  /\ events' = events \ {p}
  /\ IF IsTarget(p) /\ p \notin injected THEN Take("worker", "open", p) ELSE UNCHANGED job
  /\ UNCHANGED <<processVars, monitorVars, guiVars, late>>

\* Gone before an attempt: nothing is recorded.
SkipGone ==
  /\ mode = "wmi" /\ At("worker", "open") /\ ~Alive(job["worker"].pid)
  /\ Finish("worker")
  /\ UNCHANGED <<processVars, monitorVars, events, guiVars, late>>

\* After the last attempt a process that is gone or has the DLL counts as done.
AfterRetries ==
  /\ At("worker", "after")
  /\ LET p == job["worker"].pid
     IN IF Alive(p) /\ ~Hooked(p) THEN UNCHANGED <<injected, late>> ELSE Insert(p)
  /\ Finish("worker")
  /\ UNCHANGED <<processVars, targets, running, mode, events, guiVars>>
-------------------------------------------------------------------------------
(* onMonitorThread *)

PollTakes(p) ==
  /\ mode = "poll" /\ Watching /\ running /\ job["worker"] = NoJob
  /\ IsTarget(p) /\ p \notin injected
  /\ Take("worker", "open", p)
  /\ UNCHANGED <<processVars, monitorVars, events, guiVars, late>>

PollCleans(p) ==
  /\ mode = "poll" /\ Watching /\ job["worker"] = NoJob
  /\ p \in injected /\ ~Alive(p)
  /\ injected' = injected \ {p}
  /\ UNCHANGED <<processVars, targets, running, mode, events, job, guiVars, late>>
-------------------------------------------------------------------------------
(* The window's thread. *)

Called == calls < MaxCalls[mode] /\ calls' = calls + 1

Scan(kind, exes) ==
  /\ Called
  /\ gui' = kind
  /\ todo' = {p \in Pids : image[p] \in exes /\ p \notin injected}

StartMonitoring ==
  /\ gui = "idle" /\ ~running /\ targets # {}
  /\ Scan("scan", targets)
  /\ UNCHANGED <<processVars, monitorVars, events, job, late>>

\* With injectNow while monitoring; the window checks isMonitoring first.
AddTargetProcess(e) ==
  /\ gui = "idle" /\ running /\ e \notin targets
  /\ targets' = targets \cup {e}
  /\ Scan("add", {e})
  /\ UNCHANGED <<processVars, injected, running, mode, events, job, late>>

RemoveTargetProcess(e) ==
  /\ gui = "idle" /\ running /\ e \in targets
  /\ calls < MaxCalls[mode]
  /\ targets' = targets \ {e}
  /\ UNCHANGED <<processVars, injected, running, mode, events, job, guiVars, late>>

\* injectIntoExistingProcesses and injectIntoRunningProcess
ScanTakes(p) ==
  /\ gui \in {"scan", "add"} /\ p \in todo /\ job["window"] = NoJob
  /\ todo' = todo \ {p}
  /\ IF p \in injected THEN UNCHANGED job
     ELSE Take("window", IF gui = "scan" THEN "open" ELSE "premap", p)
  /\ UNCHANGED <<processVars, monitorVars, events, gui, calls, late>>

ScanEnds == todo = {} /\ job["window"] = NoJob

AddEnds ==
  /\ gui = "add" /\ ScanEnds
  /\ gui' = "idle"
  /\ UNCHANGED <<processVars, monitorVars, events, job, todo, calls, late>>

\* The events since the scan are not asked for.
Subscribe ==
  /\ gui = "scan" /\ ScanEnds
  /\ running' = TRUE
  /\ gui' = "idle"
  /\ UNCHANGED <<processVars, targets, injected, mode, events, job, todo, calls, late>>

StopMonitoring ==
  /\ gui = "idle" /\ running
  /\ running' = FALSE
  /\ gui' = "disable" /\ todo' = injected
  /\ UNCHANGED <<processVars, targets, injected, mode, events, job, calls, late>>

\* disableAllInjectedProcesses: setProxyEnabled for those that still run; the flag
\* of a memory being written over is written over with it.
DisableInjected(p) ==
  /\ gui = "disable" /\ p \in todo
  /\ todo' = todo \ {p}
  /\ IF Alive(p) /\ mapping[p] # "none"
        /\ mapping[p] # "blank"
     THEN mapping' = [mapping EXCEPT ![p] = "off"] /\ late' = late \ {p}
     ELSE UNCHANGED <<mapping, late>>
  /\ UNCHANGED <<image, started, holders, lapsed, hook, pending, birth, monitorVars, events, job, gui, calls>>

\* Mutant: the set is cleared before the processes in it are disabled.
StopEndsBeforeDisabling ==
  /\ gui = "disable"
  /\ mode = "poll" => job["worker"] = NoJob
  /\ events' = {} /\ injected' = {} /\ todo' = {}
  /\ gui' = "idle"
  /\ UNCHANGED <<processVars, targets, running, mode, job, calls, late>>

\* cleanupWMI, or the polling thread is waited for; then m_injectedProcesses.clear.
StopEnds ==
  /\ gui = "disable" /\ todo = {}
  /\ mode = "poll" => job["worker"] = NoJob
  /\ events' = {} /\ injected' = {}
  /\ gui' = "idle"
  /\ UNCHANGED <<processVars, targets, running, mode, job, todo, calls, late>>

\* The polling thread is waited for three seconds and may be in a wait of five;
\* deleting a QThread that runs aborts the launcher, and its handles are closed.
DeleteRunningThread ==
  /\ gui = "disable" /\ todo = {} /\ mode = "poll" /\ At("worker", "wait")
  /\ gui' = "aborted"
  /\ CloseHandles(Launcher)
  /\ job' = [t \in Threads |-> NoJob]
  /\ events' = {} /\ injected' = {}
  /\ UNCHANGED <<image, started, lapsed, hook, pending, birth, targets, running, mode, todo, calls,
                 late>>
-------------------------------------------------------------------------------
Process(p) ==
  \/ \E e \in Exes : Spawn(p, e)
  \/ \E e \in Exes, parent \in Parents[mode] \ {p} : SpawnHooked(parent, p, e)
  \/ CreateSharedMemoryForProcess(p) \/ CreateSharedMemoryFails(p) \/ InjectIntoChild(p) \/ InjectAgain(p)
  \/ ChildNotInjected(p) \/ DllMain(p) \/ Exit(p)

Injector(t) ==
  \/ AlreadyInjected(t) \/ OpenProcess(t) \/ ClearMapping(t) \/ FillMapping(t)
  \/ CreateRemoteThread(t) \/ WaitReturns(t) \/ InjectFails(t)

Wmi == (\E p \in Pids : OnProcessCreated(p)) \/ SkipGone \/ AfterRetries

Window ==
  \/ StartMonitoring \/ AddEnds \/ Subscribe
  \/ \E e \in Exes : AddTargetProcess(e) \/ RemoveTargetProcess(e)
  \/ \E p \in Pids : ScanTakes(p) \/ DisableInjected(p)
  \/ StopMonitoring \/ StopEnds \/ DeleteRunningThread

Next ==
  \/ \E p \in Pids : Process(p) \/ PollTakes(p) \/ PollCleans(p)
  \/ \E t \in Threads : Injector(t)
  \/ Wmi \/ Window

Spec == Init /\ [][Next]_vars

\* A round of the polling thread takes every process in turn, a process that can
\* be injected is not refused for ever, and the waits of injectIntoProcess end.
\* Nothing makes the remote thread run.
Fairness ==
  /\ WF_vars(WaitReturns("worker")) /\ WF_vars(InjectFails("worker"))
  /\ SF_vars(AlreadyInjected("worker") \/ OpenProcess("worker"))
  /\ SF_vars(ClearMapping("worker")) /\ WF_vars(FillMapping("worker"))
  /\ SF_vars(CreateRemoteThread("worker"))
  /\ \A p \in Pids : SF_vars(PollTakes(p))

FairSpec == Spec /\ Fairness
-------------------------------------------------------------------------------
\* The variables stay within their types, and a process that is not there has no
\* hook, no remote thread and no hook of a parent at work on it.
TypeOK ==
  /\ image \in [Pids -> Exes \cup {NoExe}]
  /\ mapping \in [Pids -> Configs \cup {"none", "blank"}]
  /\ holders \in [Pids -> SUBSET (Pids \cup {Launcher})] /\ lapsed \subseteq Pids
  /\ hook \in [Pids -> Configs \cup {"none"}]
  /\ birth \in [Pids -> Births \cup {NoBirth}]
  /\ pending \subseteq Pids /\ injected \subseteq Pids /\ events \subseteq Pids
  /\ todo \subseteq Pids /\ late \subseteq Pids
  /\ targets \subseteq Exes /\ running \in BOOLEAN /\ mode \in {"wmi", "poll"}
  /\ job \in [Threads -> Jobs \cup {NoJob}]
  /\ gui \in {"idle", "scan", "add", "disable", "aborted"}
  /\ \A p \in Pids : ~Alive(p) => hook[p] = "none" /\ p \notin pending /\ birth[p] = NoBirth

\* The comments "Create shared memory BEFORE starting the remote thread": whoever
\* injects, with whichever other injection racing it and however ids are used again,
\* the hook finds its configuration when it loads.  Lapsed names the hooks that may
\* not: a parent's hook could not create the memory, or had no configuration itself;
\* the parent ended with the only handle; or the launcher had cleared the memory to
\* write it again while another thread was loading the DLL.  A write that comes
\* before the loading mends each of them.
HookFindsItsConfiguration ==
  gui # "aborted" => \A p \in Pids : hook[p] = "bare" => p \in lapsed

\* "Disable proxy for all injected processes": once stopMonitoring has returned no
\* hook that this run of the monitor recorded still proxies; what is left proxied
\* was enabled by a parent's hook or by an injection that was under way.
StoppedProcessesAreDirect ==
  gui = "idle" /\ ~running
    => \A p \in Pids \ late : ProcessConnection(p, "ipv4") = "direct"

\* While the monitor polls, a running target is sooner or later in its set, however
\* long the loading of the DLL into other processes takes.
TargetsAreFound ==
  \A p \in Pids : (running /\ mode = "poll" /\ IsTarget(p))
                    ~> (p \in injected \/ ~running \/ ~IsTarget(p))
===============================================================================
