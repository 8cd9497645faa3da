----------------------------- MODULE MonitorProofs -----------------------------
(***************************************************************************)
(* Proofs about the injection mode (ProcessMonitor), for any processes,    *)
(* executables, retries and uses of process ids: a hook finds its          *)
(* configuration unless its memory has lapsed, and after a stop no hook    *)
(* that the monitor recorded still proxies.                                *)
(*                                                                         *)
(* The argument: whatever is about to load the DLL into a process finds    *)
(* the process's memory written, or the lapse is on record; an exit takes  *)
(* with it everything that could load the DLL later, an open handle        *)
(* keeping the id from being used again meanwhile (Configured); a hook     *)
(* that has read its memory keeps it (Handles); and memory that says "on"  *)
(* for such a process has been recorded in the set that the stop goes      *)
(* through, or stands in late (Recorded).                                  *)
(***************************************************************************)
EXTENDS ProcessMonitor, TLAPS

\* An injection or a parent's hook is about to load the DLL, or it is loaded.
Loading(p) == \E t \in Threads : job[t].st = "load" /\ job[t].pid = p /\ Alive(p)
Touched(p) == Hooked(p) \/ p \in pending \/ birth[p].st = "load" \/ Loading(p)

Configured ==
  gui # "aborted" =>
    \A p \in Pids :
      /\ hook[p] = "bare" => p \in lapsed
      /\ Touched(p) /\ ~Hooked(p) /\ p \notin lapsed => mapping[p] \in {"on", "off"}

Handles ==
  \A p \in Pids :
    /\ hook[p] \in {"on", "off"} => p \in holders[p]
    /\ mapping[p] = "none" <=> holders[p] = {}

Recorded ==
  gui # "aborted" =>
    \A p \in Pids \ late :
      Touched(p) /\ mapping[p] \notin {"off", "none"} =>
        /\ mapping[p] # "blank"
        /\ \/ running /\ p \in injected
           \/ gui = "disable" /\ p \in todo

DisabledIsStopped == gui = "disable" => ~running

MonitorInv == TypeOK /\ Configured /\ Handles /\ Recorded /\ DisabledIsStopped

\* What is known of a job and of a birth from the types.
LEMMA JobTypes ==
  ASSUME TypeOK, NEW t \in Threads
  PROVE  /\ job[t] = NoJob \/ job[t] \in Jobs
         /\ job[t] = NoJob <=> job[t].st = "idle"
         /\ job[t] # NoJob => job[t].pid \in Pids /\ job[t].try \in 1 .. MaxTries
         /\ \A st \in JobStates :
              job[t] # NoJob => [job[t] EXCEPT !.st = st] \in Jobs
BY DEF TypeOK, Jobs, JobStates, NoJob

LEMMA BirthTypes ==
  ASSUME TypeOK, NEW p \in Pids
  PROVE  /\ birth[p] = NoBirth <=> birth[p].st = "none"
         /\ birth[p] # NoBirth => birth[p] \in Births /\ birth[p].st \in {"map", "load"}
                                  /\ birth[p].cached \in Configs /\ birth[p].by \in Pids
         /\ \A st \in {"map", "load"} :
              birth[p] # NoBirth => [birth[p] EXCEPT !.st = st] \in Births
BY DEF TypeOK, Births, NoBirth

LEMMA InitEstablishes == Init => MonitorInv
<1> SUFFICES ASSUME Init PROVE MonitorInv
  OBVIOUS
<1>1. TypeOK
  BY DEF Init, TypeOK, Alive
<1>2. \A p \in Pids : ~Touched(p) /\ birth[p].st = "none"
  BY DEF Init, Touched, Hooked, Loading, NoBirth, NoJob
<1>3. Configured /\ Handles /\ Recorded /\ DisabledIsStopped
  BY <1>2 DEF Init, Configured, Handles, Recorded, DisabledIsStopped
<1> QED BY <1>1, <1>3 DEF MonitorInv
-------------------------------------------------------------------------------
(* The processes. *)

\* A new process is not touched: the one before took its hook and its pending thread
\* with it, and no injection holds a handle on it.
LEMMA NewIsUntouched ==
  ASSUME MonitorInv, NEW p \in Pids, NEW e \in Exes, Starts(p, e)
  PROVE  /\ hook[p] = "none" /\ p \notin pending /\ birth[p] = NoBirth
         /\ \A t \in Threads : ~(job[t].st = "load" /\ job[t].pid = p)
         /\ image' \in [Pids -> Exes \cup {NoExe}]
         /\ \A q \in Pids : Alive(q)' <=> (q = p \/ Alive(q))
<1>1. ~Alive(p) /\ ~Held(p) /\ image' = [image EXCEPT ![p] = e]
  BY DEF Starts
<1>2. \A t \in Threads : ~(job[t].st = "load" /\ job[t].pid = p)
  BY <1>1, JobTypes DEF MonitorInv, Held
<1> QED BY <1>1, <1>2, MonitorAssumption DEF MonitorInv, TypeOK, Alive

LEMMA SpawnPreserves ==
  ASSUME MonitorInv, NEW p \in Pids, NEW e \in Exes,
         Spawn(p, e) \/ \E parent \in Parents[mode] \ {p} : SpawnHooked(parent, p, e)
  PROVE  MonitorInv'
<1> USE DEF MonitorInv
<1>0. /\ Starts(p, e)
      /\ UNCHANGED <<mapping, holders, lapsed, hook, pending, targets, injected, running, mode, job,
                     gui, todo, late>>
  BY DEF Spawn, SpawnHooked, memoryVars, monitorVars, guiVars
<1>1. /\ hook[p] = "none" /\ p \notin pending /\ birth[p] = NoBirth
      /\ \A t \in Threads : ~(job[t].st = "load" /\ job[t].pid = p)
      /\ image' \in [Pids -> Exes \cup {NoExe}]
      /\ \A q \in Pids : Alive(q)' <=> (q = p \/ Alive(q))
  BY <1>0, NewIsUntouched
<1>2. events' \subseteq Pids
  BY DEF Spawn, SpawnHooked, Notify, TypeOK
<1>3. /\ birth' \in [Pids -> Births \cup {NoBirth}]
      /\ \A q \in Pids \ {p} : birth'[q] = birth[q]
      /\ birth'[p] = NoBirth \/ birth'[p].st = "map"
  <2>1. CASE Spawn(p, e)
    BY <1>1, <2>1 DEF Spawn, TypeOK
  <2>2. ASSUME NEW parent \in Pids, SpawnHooked(parent, p, e)
        PROVE  /\ birth' \in [Pids -> Births \cup {NoBirth}]
               /\ \A q \in Pids \ {p} : birth'[q] = birth[q]
               /\ birth'[p].st = "map"
    <3>1. /\ birth' = [birth EXCEPT ![p] = [st |-> "map", cached |-> hook[parent], by |-> parent]]
          /\ hook[parent] \in Configs
      BY <2>2 DEF SpawnHooked, Hooked, TypeOK
    <3>2. [st |-> "map", cached |-> hook[parent], by |-> parent] \in Births
      BY <3>1 DEF Births
    <3> QED BY <3>1, <3>2 DEF TypeOK
  <2>3. \A q \in Parents[mode] : q \in Pids
    BY MonitorAssumption DEF TypeOK
  <2> QED BY <2>1, <2>2, <2>3
<1>4. \A q \in Pids : Touched(q)' => Touched(q)
  <2> TAKE q \in Pids
  <2>1. CASE q = p
    BY <1>0, <1>1, <1>3, <2>1 DEF Touched, Loading, Hooked, NoBirth
  <2>2. CASE q # p
    BY <1>0, <1>1, <1>3, <2>2 DEF Touched, Loading, Hooked
  <2> QED BY <2>1, <2>2
<1>5. TypeOK'
  BY <1>0, <1>1, <1>2, <1>3 DEF TypeOK
<1>6. Configured' /\ Handles'
  BY <1>0, <1>4 DEF Configured, Handles, Hooked
<1>7. Recorded' /\ DisabledIsStopped'
  BY <1>0, <1>4 DEF Recorded, DisabledIsStopped
<1> QED BY <1>5, <1>6, <1>7

\* A write of p's memory: the handle is there, and p stands in late.
LEMMA WriteTypes ==
  ASSUME TypeOK, Handles, NEW p \in Pids, NEW h \in Pids \cup {Launcher},
         NEW c \in Configs \cup {"blank"}, Write(p, h, c), UNCHANGED hook
  PROVE  /\ mapping' \in [Pids -> Configs \cup {"none", "blank"}] /\ mapping'[p] = c
         /\ holders' \in [Pids -> SUBSET (Pids \cup {Launcher})]
         /\ late' = late \cup {p}
         /\ \A q \in Pids \ {p} : mapping'[q] = mapping[q] /\ holders'[q] = holders[q]
         /\ Handles'
<1>1. /\ mapping' \in [Pids -> Configs \cup {"none", "blank"}] /\ mapping'[p] = c
      /\ holders' \in [Pids -> SUBSET (Pids \cup {Launcher})]
      /\ holders'[p] = holders[p] \cup {h} /\ late' = late \cup {p}
      /\ \A q \in Pids \ {p} : mapping'[q] = mapping[q] /\ holders'[q] = holders[q]
  BY DEF Write, TypeOK
<1>2. Handles'
  BY <1>1 DEF Handles, Configs
<1> QED BY <1>1, <1>2

\* A parent's hook at work on its child.
LEMMA BirthPreserves ==
  ASSUME MonitorInv, NEW p \in Pids,
         \/ CreateSharedMemoryForProcess(p) \/ CreateSharedMemoryFails(p)
         \/ InjectIntoChild(p) \/ InjectAgain(p) \/ ChildNotInjected(p)
  PROVE  MonitorInv'
<1> USE DEF MonitorInv
<1>0. TypeOK
  OBVIOUS
<1>1. /\ birth[p] # NoBirth /\ birth[p] \in [st : {"map", "load"}, cached : Configs, by : Pids]
      /\ birth[p].cached \in Configs /\ birth[p].by \in Pids
  <2>1. birth[p] # NoBirth
    BY DEF CreateSharedMemoryForProcess, CreateSharedMemoryFails, InjectIntoChild, InjectAgain,
           ChildNotInjected, NoBirth
  <2> QED BY <1>0, <2>1, BirthTypes DEF Births
<1>2. Alive(p)
  BY <1>1 DEF TypeOK
<1>3. ASSUME NEW st \in {"map", "load"}, birth' = [birth EXCEPT ![p].st = st]
      PROVE  /\ birth' \in [Pids -> Births \cup {NoBirth}] /\ birth'[p].st = st
             /\ \A q \in Pids \ {p} : birth'[q] = birth[q]
  <2>1. birth' = [birth EXCEPT ![p] = [birth[p] EXCEPT !.st = st]]
    BY <1>0, <1>3 DEF TypeOK
  <2>2. [birth[p] EXCEPT !.st = st] \in Births /\ [birth[p] EXCEPT !.st = st].st = st
    BY <1>1, <1>3 DEF Births
  <2> QED BY <2>1, <2>2 DEF TypeOK
<1>4. CASE CreateSharedMemoryForProcess(p)
  <2>1. /\ birth' = [birth EXCEPT ![p].st = "load"]
        /\ Write(p, birth[p].by, birth[p].cached)
        /\ lapsed' = IF birth[p].cached = "bare" THEN lapsed \cup {p} ELSE Mended(p)
        /\ UNCHANGED <<image, hook, pending, targets, injected, running, mode, events, job, gui, todo>>
    BY <1>4 DEF CreateSharedMemoryForProcess, monitorVars, guiVars
  <2>2. /\ birth' \in [Pids -> Births \cup {NoBirth}]
        /\ \A q \in Pids \ {p} : birth'[q] = birth[q]
    BY <1>3, <2>1
  <2>3. /\ mapping' \in [Pids -> Configs \cup {"none", "blank"}] /\ mapping'[p] = birth[p].cached
        /\ holders' \in [Pids -> SUBSET (Pids \cup {Launcher})]
        /\ late' = late \cup {p}
        /\ \A q \in Pids \ {p} : mapping'[q] = mapping[q] /\ holders'[q] = holders[q]
        /\ Handles'
    BY <1>1, <2>1, WriteTypes
  <2>4. /\ lapsed' \subseteq Pids /\ \A q \in Pids \ {p} : q \in lapsed' <=> q \in lapsed
        /\ birth[p].cached = "bare" \/ Hooked(p) => (p \in lapsed => p \in lapsed')
        /\ birth[p].cached = "bare" => p \in lapsed'
    BY <2>1 DEF Mended, TypeOK
  <2>5. \A q \in Pids \ {p} : Touched(q)' => Touched(q)
    BY <2>1, <2>2 DEF Touched, Hooked, Loading, Alive
  <2>6. TypeOK'
    BY <1>2, <2>1, <2>2, <2>3, <2>4 DEF TypeOK, Alive
  <2>7. Configured'
    BY <1>1, <2>1, <2>3, <2>4, <2>5 DEF Configured, Hooked, Configs
  <2>8. Recorded' /\ DisabledIsStopped'
    BY <2>1, <2>3, <2>5 DEF Recorded, DisabledIsStopped
  <2> QED BY <2>3, <2>6, <2>7, <2>8
<1>5. CASE CreateSharedMemoryFails(p)
  <2>1. /\ birth' = [birth EXCEPT ![p].st = "load"]
        /\ lapsed' = IF mapping[p] \in {"on", "off"} THEN lapsed ELSE lapsed \cup {p}
        /\ late' = late \cup {p}
        /\ UNCHANGED <<image, mapping, holders, hook, pending, targets, injected, running, mode, events,
                       job, gui, todo>>
    BY <1>5 DEF CreateSharedMemoryFails, monitorVars, guiVars
  <2>2. /\ birth' \in [Pids -> Births \cup {NoBirth}]
        /\ \A q \in Pids \ {p} : birth'[q] = birth[q]
    BY <1>3, <2>1
  <2>3. \A q \in Pids \ {p} : Touched(q)' => Touched(q)
    BY <2>1, <2>2 DEF Touched, Hooked, Loading, Alive
  <2>4. TypeOK'
    BY <1>2, <2>1, <2>2 DEF TypeOK, Alive
  <2>5. Configured' /\ Handles'
    BY <2>1, <2>3 DEF Configured, Handles, Hooked
  <2> QED BY <2>1, <2>3, <2>4, <2>5 DEF Recorded, DisabledIsStopped
<1>6. CASE InjectIntoChild(p) \/ ChildNotInjected(p) \/ InjectAgain(p)
  <2>1. /\ pending' = pending \/ (birth[p].st = "load" /\ pending' = pending \cup {p})
        /\ UNCHANGED <<image, mapping, holders, lapsed, hook, targets, injected, running, mode, events,
                       job, gui, todo, late>>
    BY <1>6 DEF InjectIntoChild, InjectAgain, ChildNotInjected, memoryVars, monitorVars, guiVars
  <2>2. /\ birth' \in [Pids -> Births \cup {NoBirth}] /\ birth'[p].st # "load"
        /\ \A q \in Pids \ {p} : birth'[q] = birth[q]
    <3>1. CASE InjectAgain(p)
      BY <1>3, <3>1 DEF InjectAgain
    <3>2. CASE InjectIntoChild(p) \/ ChildNotInjected(p)
      BY <1>0, <3>2 DEF InjectIntoChild, ChildNotInjected, TypeOK, NoBirth
    <3> QED BY <1>6, <3>1, <3>2
  <2>3. \A q \in Pids : Touched(q)' => Touched(q)
    BY <2>1, <2>2 DEF Touched, Hooked, Loading, Alive
  <2>4. TypeOK'
    BY <1>2, <2>1, <2>2 DEF TypeOK, Alive
  <2>5. Configured' /\ Handles'
    BY <2>1, <2>3 DEF Configured, Handles, Hooked
  <2> QED BY <2>1, <2>3, <2>4, <2>5 DEF Recorded, DisabledIsStopped
<1> QED BY <1>4, <1>5, <1>6

\* The loading of the DLL: what it reads is good unless the lapse is on record.
LEMMA LoadPreserves ==
  ASSUME MonitorInv, NEW p \in Pids, DllMain(p)
  PROVE  MonitorInv'
<1> USE DEF MonitorInv
<1>0. TypeOK
  OBVIOUS
<1>1. /\ p \in pending /\ pending' = pending \ {p}
      /\ UNCHANGED <<image, mapping, lapsed, birth, targets, injected, running, mode, events, job, gui,
                     todo, late>>
  BY DEF DllMain, monitorVars, guiVars
<1>2. Touched(p) /\ Alive(p)
  BY <1>1 DEF Touched, TypeOK
<1>3. CASE Hooked(p)
  <2>1. UNCHANGED <<hook, holders>>
    BY <1>3 DEF DllMain
  <2>2. \A q \in Pids : Touched(q)' => Touched(q)
    BY <1>1, <2>1 DEF Touched, Hooked, Loading, Alive
  <2>3. TypeOK'
    BY <1>1, <2>1 DEF TypeOK, Alive
  <2>4. Configured' /\ Handles'
    BY <1>1, <2>1, <2>2 DEF Configured, Handles, Hooked
  <2> QED BY <1>1, <2>2, <2>3, <2>4 DEF Recorded, DisabledIsStopped
<1>4. CASE ~Hooked(p)
  <2>1. PICK c \in Read(p) :
          /\ hook' = [hook EXCEPT ![p] = c]
          /\ holders' = [holders EXCEPT ![p] = IF c = "bare" THEN @ ELSE @ \cup {p}]
    BY <1>4 DEF DllMain
  <2>2. /\ c \in Configs
        /\ mapping[p] = "none" => c = "bare"
        /\ c = "bare" => mapping[p] \notin {"on", "off"}
    BY <1>0 DEF Read, TypeOK, Configs
  <2>3. /\ holders' \in [Pids -> SUBSET (Pids \cup {Launcher})]
        /\ hook' \in [Pids -> Configs \cup {"none"}] /\ hook'[p] = c
        /\ \A q \in Pids \ {p} : hook'[q] = hook[q] /\ holders'[q] = holders[q]
        /\ IF c = "bare" THEN holders'[p] = holders[p] ELSE holders'[p] = holders[p] \cup {p}
    BY <1>0, <2>1, <2>2 DEF TypeOK
  <2>4. \A q \in Pids : Touched(q)' => Touched(q)
    BY <1>1, <1>2, <2>3 DEF Touched, Hooked, Loading, Alive
  <2>5. TypeOK'
    BY <1>1, <1>2, <2>3 DEF TypeOK, Alive
  <2>6. Configured'
    BY <1>1, <1>2, <1>4, <2>2, <2>3, <2>4 DEF Configured, Hooked, Configs
  <2>7. Handles'
    BY <1>1, <2>2, <2>3 DEF Handles
  <2> QED BY <1>1, <2>4, <2>5, <2>6, <2>7 DEF Recorded, DisabledIsStopped
<1> QED BY <1>3, <1>4

\* The handles of whoever ends are closed; the memory others have open stays.
LEMMA ClosedHandles ==
  ASSUME TypeOK, Handles, NEW h, CloseHandles(h)
  PROVE  /\ mapping' \in [Pids -> Configs \cup {"none", "blank"}]
         /\ holders' \in [Pids -> SUBSET (Pids \cup {Launcher})]
         /\ \A q \in Pids : /\ holders'[q] = holders[q] \ {h}
                            /\ mapping'[q] = "none" <=> holders'[q] = {}
                            /\ mapping'[q] = mapping[q] \/ (mapping'[q] = "none" /\ q \in Closed(h))
<1>1. /\ mapping' \in [Pids -> Configs \cup {"none", "blank"}]
      /\ holders' \in [Pids -> SUBSET (Pids \cup {Launcher})]
  BY DEF CloseHandles, TypeOK
<1>2. ASSUME NEW q \in Pids
      PROVE  /\ holders'[q] = holders[q] \ {h}
             /\ mapping'[q] = "none" <=> holders'[q] = {}
             /\ mapping'[q] = mapping[q] \/ (mapping'[q] = "none" /\ q \in Closed(h))
  <2>1. holders'[q] = holders[q] \ {h} /\ (mapping[q] = "none" <=> holders[q] = {})
    BY DEF CloseHandles, Handles
  <2>2. CASE q \in Closed(h)
    BY <2>1, <2>2 DEF CloseHandles, Closed
  <2>3. CASE q \notin Closed(h)
    <3>1. mapping'[q] = mapping[q] /\ holders[q] # {h}
      BY <2>3 DEF CloseHandles, Closed
    <3> QED BY <2>1, <3>1
  <2> QED BY <2>1, <2>2, <2>3
<1> QED BY <1>1, <1>2

LEMMA ExitPreserves ==
  ASSUME MonitorInv, NEW p \in Pids, Exit(p)
  PROVE  MonitorInv'
<1> USE DEF MonitorInv
<1>0. TypeOK
  OBVIOUS
<1>1. /\ image' = [image EXCEPT ![p] = NoExe] /\ hook' = [hook EXCEPT ![p] = "none"]
      /\ CloseHandles(p) /\ lapsed' = (lapsed \cup Closed(p)) \ {p}
      /\ pending' = pending \ {p} /\ late' = late \ {p}
      /\ birth' = [q \in Pids |-> IF q = p \/ (birth[q] # NoBirth /\ birth[q].by = p)
                                 THEN NoBirth ELSE birth[q]]
      /\ UNCHANGED <<targets, injected, running, mode, events, job, gui, todo>>
  BY DEF Exit, monitorVars, guiVars
<1>2. /\ mapping' \in [Pids -> Configs \cup {"none", "blank"}]
      /\ holders' \in [Pids -> SUBSET (Pids \cup {Launcher})]
      /\ \A q \in Pids : /\ holders'[q] = holders[q] \ {p}
                         /\ mapping'[q] = "none" <=> holders'[q] = {}
                         /\ mapping'[q] = mapping[q] \/ (mapping'[q] = "none" /\ q \in Closed(p))
  BY <1>1, ClosedHandles
<1>3. /\ birth' \in [Pids -> Births \cup {NoBirth}] /\ birth'[p] = NoBirth
      /\ \A q \in Pids : birth'[q] = NoBirth \/ birth'[q] = birth[q]
  BY <1>0, <1>1 DEF TypeOK
<1>4. ~Touched(p)'
  BY <1>0, <1>1, <1>3 DEF Touched, Hooked, Loading, Alive, NoBirth, TypeOK
<1>5. \A q \in Pids : Touched(q)' => Touched(q) /\ q # p
  BY <1>0, <1>1, <1>3, <1>4 DEF Touched, Hooked, Loading, Alive, NoBirth, TypeOK
<1>6. \A q \in Pids \ {p} : hook'[q] = hook[q] /\ (Hooked(q)' <=> Hooked(q))
  BY <1>0, <1>1 DEF Hooked, TypeOK
<1>7. TypeOK'
  <2>1. lapsed' \subseteq Pids /\ late' \subseteq Pids /\ pending' \subseteq Pids
    BY <1>0, <1>1 DEF TypeOK, Closed
  <2>2. /\ image' \in [Pids -> Exes \cup {NoExe}] /\ hook' \in [Pids -> Configs \cup {"none"}]
        /\ \A q \in Pids : ~Alive(q)' => hook'[q] = "none" /\ q \notin pending' /\ birth'[q] = NoBirth
    BY <1>0, <1>1, <1>3 DEF TypeOK, Alive
  <2> QED BY <1>0, <1>1, <1>2, <1>3, <2>1, <2>2 DEF TypeOK
<1>8. hook'[p] = "none"
  BY <1>0, <1>1 DEF TypeOK
<1>9. Handles'
  <2> SUFFICES ASSUME NEW q \in Pids
               PROVE  /\ hook'[q] \in {"on", "off"} => q \in holders'[q]
                      /\ mapping'[q] = "none" <=> holders'[q] = {}
    BY DEF Handles
  <2>1. mapping'[q] = "none" <=> holders'[q] = {}
    BY <1>2
  <2>2. CASE q = p
    BY <1>8, <2>1, <2>2
  <2>3. CASE q # p
    BY <1>2, <1>6, <2>1, <2>3 DEF Handles
  <2> QED BY <2>2, <2>3
<1>10. Configured'
  <2> SUFFICES ASSUME gui # "aborted", NEW q \in Pids
               PROVE  /\ hook'[q] = "bare" => q \in lapsed'
                      /\ Touched(q)' /\ ~Hooked(q)' /\ q \notin lapsed' => mapping'[q] \in {"on", "off"}
    BY <1>1 DEF Configured
  <2>1. CASE q = p
    BY <1>4, <1>8, <2>1
  <2>2. CASE q # p
    <3>1. q \in lapsed' <=> (q \in lapsed \/ q \in Closed(p))
      BY <1>1, <2>2
    <3>2. hook'[q] = hook[q] /\ (Hooked(q)' <=> Hooked(q)) /\ (Touched(q)' => Touched(q))
      BY <1>5, <1>6, <2>2
    <3>3. mapping'[q] = mapping[q] \/ q \in Closed(p)
      BY <1>2
    <3> QED BY <3>1, <3>2, <3>3 DEF Configured
  <2> QED BY <2>1, <2>2
<1>11. Recorded'
  <2> SUFFICES ASSUME gui # "aborted", NEW q \in Pids \ late', Touched(q)',
                      mapping'[q] \notin {"off", "none"}
               PROVE  /\ mapping'[q] # "blank"
                      /\ (running /\ q \in injected) \/ (gui = "disable" /\ q \in todo)
    BY <1>1 DEF Recorded
  <2>1. q \in Pids \ late /\ Touched(q) /\ mapping'[q] = mapping[q]
    BY <1>1, <1>2, <1>5
  <2> QED BY <2>1 DEF Recorded
<1> QED BY <1>1, <1>7, <1>9, <1>10, <1>11 DEF DisabledIsStopped
-------------------------------------------------------------------------------
(* injectIntoProcess. *)

\* What moves a job on or ends it keeps the types, and loads nothing by itself.
LEMMA JobMoves ==
  ASSUME TypeOK, NEW t \in Threads
  PROVE  /\ Finish(t) => job' \in [Threads -> Jobs \cup {NoJob}]
         /\ \A st \in JobStates :
              job[t] # NoJob /\ Goto(t, st) =>
                job' \in [Threads -> Jobs \cup {NoJob}] /\ job'[t].st = st
                /\ job'[t].pid = job[t].pid
         /\ \A st \in {"premap", "open"}, p \in Pids :
              Take(t, st, p) =>
                job' \in [Threads -> Jobs \cup {NoJob}] /\ job'[t].st = st
         /\ Finish(t) => job'[t].st = "idle"
         /\ (Finish(t) \/ (\E st : Goto(t, st)) \/ (\E st, p : Take(t, st, p)))
              => \A u \in Threads \ {t} : job'[u] = job[u]
<1>1. Finish(t) => job' \in [Threads -> Jobs \cup {NoJob}] /\ job'[t].st = "idle"
  BY DEF Finish, TypeOK, NoJob
<1>2. ASSUME NEW st \in JobStates, job[t] # NoJob, Goto(t, st)
      PROVE  /\ job' \in [Threads -> Jobs \cup {NoJob}]
             /\ job'[t].st = st /\ job'[t].pid = job[t].pid
  <2>1. job' = [job EXCEPT ![t] = [job[t] EXCEPT !.st = st]]
    BY <1>2 DEF Goto, TypeOK
  <2>2. job[t] \in [st : JobStates, pid : Pids, try : 1 .. MaxTries]
    BY <1>2, JobTypes DEF Jobs
  <2>3. [job[t] EXCEPT !.st = st] \in Jobs
    BY <1>2, JobTypes
  <2> QED BY <2>1, <2>2, <2>3 DEF TypeOK
<1>3. ASSUME NEW st \in {"premap", "open"}, NEW p \in Pids, Take(t, st, p)
      PROVE  job' \in [Threads -> Jobs \cup {NoJob}] /\ job'[t].st = st
  <2>1. [st |-> st, pid |-> p, try |-> 1] \in Jobs
    BY MonitorAssumption DEF Jobs, JobStates
  <2> QED BY <1>3, <2>1 DEF Take, TypeOK
<1>4. (Finish(t) \/ (\E st : Goto(t, st)) \/ (\E st, p : Take(t, st, p)))
        => \A u \in Threads \ {t} : job'[u] = job[u]
  BY DEF Finish, Goto, Take, TypeOK
<1> QED BY <1>1, <1>2, <1>3, <1>4

\* Steps that only move a job, but not to the loading, and may record its process.
LEMMA JobStepPreserves ==
  ASSUME MonitorInv, NEW t \in Threads,
         job' \in [Threads -> Jobs \cup {NoJob}],
         job'[t].st # "load", \A u \in Threads \ {t} : job'[u] = job[u],
         UNCHANGED <<image, mapping, holders, lapsed, hook, pending, birth, targets, running, mode, gui>>,
         events' \subseteq events,
         UNCHANGED todo \/ (gui # "disable" /\ todo' \subseteq Pids),
         \/ UNCHANGED <<injected, late>>
         \/ \E p \in Pids : Insert(p)
  PROVE  MonitorInv'
<1> USE DEF MonitorInv
<1>1. \A q \in Pids : Touched(q)' => Touched(q)
  BY DEF Touched, Hooked, Loading, Alive
<1>2. TypeOK'
  BY DEF TypeOK, Insert, Alive
<1>3. Configured' /\ Handles'
  BY <1>1 DEF Configured, Handles, Hooked
<1>4. Recorded'
  BY <1>1 DEF Recorded, Insert
<1> QED BY <1>2, <1>3, <1>4 DEF DisabledIsStopped

\* The steps that write the shared memory: cleared, it has lapsed for what is loading
\* the DLL; filled, it is there for what is about to.
LEMMA WritePreserves ==
  ASSUME MonitorInv, NEW t \in Threads, ClearMapping(t) \/ FillMapping(t)
  PROVE  MonitorInv'
<1> USE DEF MonitorInv
<1>0. job[t] # NoJob /\ job[t].pid \in Pids
  BY JobTypes DEF ClearMapping, FillMapping, At
<1>1. PICK p \in Pids : p = job[t].pid
  BY <1>0
<1>2. PICK c \in {"blank", "on"} :
        /\ Write(p, Launcher, c)
        /\ lapsed' = IF c = "on" THEN Mended(p) ELSE IF Injecting(p) THEN lapsed \cup {p} ELSE lapsed
        /\ \E st \in JobStates : Goto(t, st) /\ (st = "load" => c = "on")
        /\ UNCHANGED <<image, hook, pending, birth, targets, injected, running, mode, events, gui, todo>>
  <2>1. CASE ClearMapping(t)
    BY <1>1, <2>1 DEF ClearMapping, JobStates, monitorVars, guiVars
  <2>2. CASE FillMapping(t)
    BY <1>1, <2>2 DEF FillMapping, JobStates, monitorVars, guiVars
  <2> QED BY <2>1, <2>2
<1>3. /\ job' \in [Threads -> Jobs \cup {NoJob}]
      /\ job'[t].pid = p /\ \A u \in Threads \ {t} : job'[u] = job[u]
      /\ job'[t].st = "load" => c = "on"
  <2>1. PICK st \in JobStates : Goto(t, st) /\ (st = "load" => c = "on")
    BY <1>2
  <2> QED BY <1>0, <1>1, <2>1, JobMoves
<1>4. /\ mapping' \in [Pids -> Configs \cup {"none", "blank"}] /\ mapping'[p] = c
      /\ holders' \in [Pids -> SUBSET (Pids \cup {Launcher})]
      /\ late' = late \cup {p}
      /\ \A q \in Pids \ {p} : mapping'[q] = mapping[q] /\ holders'[q] = holders[q]
      /\ Handles'
  BY <1>1, <1>2, WriteTypes DEF Configs
<1>5. /\ lapsed' \subseteq Pids /\ \A q \in Pids \ {p} : q \in lapsed' <=> q \in lapsed
      /\ Hooked(p) => (p \in lapsed => p \in lapsed')
      /\ c = "blank" /\ Injecting(p) => p \in lapsed'
  BY <1>1, <1>2 DEF Mended, TypeOK
<1>6. \A q \in Pids \ {p} : Touched(q)' => Touched(q)
  BY <1>2, <1>3 DEF Touched, Hooked, Loading, Alive
<1>7. TypeOK'
  BY <1>1, <1>2, <1>3, <1>4, <1>5 DEF TypeOK, Alive
<1>8. Configured'
  <2>1. c = "blank" /\ Touched(p)' /\ ~Hooked(p)' => Injecting(p)
    <3>1. \A u \in Threads : c = "blank" /\ job'[u].st = "load" => job[u] = job'[u]
      BY <1>3
    <3>2. UNCHANGED <<hook, pending, birth>>
      BY <1>2
    <3>3. ASSUME c = "blank", Loading(p)' PROVE Injecting(p)
      <4>1. PICK u \in Threads : job'[u].st = "load" /\ job'[u].pid = p
        BY <3>3 DEF Loading
      <4>2. job[u].st = "load" /\ job[u].pid = p
        BY <3>1, <3>3, <4>1
      <4> QED BY <4>2 DEF Injecting
    <3>4. p \in pending \/ birth[p].st = "load" => Injecting(p)
      BY DEF Injecting
    <3> QED BY <3>2, <3>3, <3>4 DEF Touched, Hooked
  <2>2. UNCHANGED <<hook, gui>>
    BY <1>2
  <2> SUFFICES ASSUME gui # "aborted", NEW q \in Pids
               PROVE  /\ hook[q] = "bare" => q \in lapsed'
                      /\ Touched(q)' /\ ~Hooked(q)' /\ q \notin lapsed' => mapping'[q] \in {"on", "off"}
    BY <2>2 DEF Configured
  <2>3. Hooked(q)' <=> Hooked(q)
    BY <2>2 DEF Hooked
  <2>4. CASE q = p
    <3>1. hook[p] = "bare" => Hooked(p) /\ p \in lapsed
      BY <1>1 DEF Hooked, Configured
    <3> QED BY <1>4, <1>5, <2>1, <2>3, <2>4, <3>1
  <2>5. CASE q # p
    <3>1. /\ q \in lapsed' <=> q \in lapsed
          /\ mapping'[q] = mapping[q] /\ (Touched(q)' => Touched(q))
      BY <1>4, <1>5, <1>6, <2>5
    <3> QED BY <2>3, <3>1 DEF Configured
  <2> QED BY <2>4, <2>5
<1>9. Recorded'
  BY <1>1, <1>2, <1>4, <1>6 DEF Recorded
<1> QED BY <1>2, <1>4, <1>7, <1>8, <1>9 DEF DisabledIsStopped

\* The remote thread: what was about to load it is now pending.
LEMMA RemoteThreadPreserves ==
  ASSUME MonitorInv, NEW t \in Threads, CreateRemoteThread(t)
  PROVE  MonitorInv'
<1> USE DEF MonitorInv
<1> DEFINE p == job[t].pid
<1>1. job[t] # NoJob /\ p \in Pids /\ job[t].st = "load" /\ Alive(p)
  BY JobTypes DEF CreateRemoteThread, At
<1>2. /\ pending' = pending \cup {p}
      /\ UNCHANGED <<image, mapping, holders, lapsed, hook, birth, targets, injected, running, mode,
                     events, gui, todo, late>>
  BY DEF CreateRemoteThread, memoryVars, monitorVars, guiVars
<1>3. /\ job' \in [Threads -> Jobs \cup {NoJob}]
      /\ job'[t].st = "wait" /\ \A u \in Threads \ {t} : job'[u] = job[u]
  BY <1>1, JobMoves DEF CreateRemoteThread, JobStates
<1>4. Touched(p)
  BY <1>1 DEF Touched, Loading
<1> HIDE DEF p
<1>5. \A q \in Pids : Touched(q)' => Touched(q)
  BY <1>2, <1>3, <1>4 DEF Touched, Hooked, Loading, Alive
<1>6. TypeOK'
  BY <1>1, <1>2, <1>3 DEF TypeOK, Alive
<1>7. Configured' /\ Handles' /\ Recorded'
  BY <1>2, <1>5 DEF Configured, Handles, Recorded, Hooked
<1> QED BY <1>2, <1>6, <1>7 DEF DisabledIsStopped

LEMMA InjectorPreserves ==
  ASSUME MonitorInv, NEW t \in Threads, Injector(t)
  PROVE  MonitorInv'
<1>0. TypeOK
  BY DEF MonitorInv
<1>1. CASE AlreadyInjected(t) \/ WaitReturns(t)
  <2>1. /\ Finish(t) /\ Insert(job[t].pid) /\ job[t].pid \in Pids
        /\ UNCHANGED <<image, mapping, holders, lapsed, hook, pending, birth, targets, running, mode, gui, todo, events>>
    BY <1>0, <1>1, JobTypes DEF AlreadyInjected, WaitReturns, At, processVars, memoryVars, guiVars
  <2>2. /\ job' \in [Threads -> Jobs \cup {NoJob}] /\ job'[t].st = "idle"
        /\ \A u \in Threads \ {t} : job'[u] = job[u]
    BY <1>0, <2>1, JobMoves
  <2> QED BY <2>1, <2>2, JobStepPreserves
<1>2. CASE InjectFails(t)
  <2>1. /\ job[t] # NoJob
        /\ UNCHANGED <<image, mapping, holders, lapsed, hook, pending, birth, targets, running, mode, gui, todo, events,
                       injected, late>>
    BY <1>2 DEF InjectFails, At, processVars, memoryVars, monitorVars, guiVars
  <2>2. CASE Finish(t) \/ Goto(t, "after")
    <3>1. /\ job' \in [Threads -> Jobs \cup {NoJob}] /\ job'[t].st # "load"
          /\ \A u \in Threads \ {t} : job'[u] = job[u]
      BY <1>0, <2>1, <2>2, JobMoves DEF JobStates
    <3> QED BY <2>1, <3>1, JobStepPreserves
  <2>3. CASE job[t].try < MaxTries /\ job' = [job EXCEPT ![t].st = "open", ![t].try = @ + 1]
    <3>1. job[t] \in Jobs /\ job[t].try + 1 \in 1 .. MaxTries
      <4>1. job[t] \in Jobs /\ job[t].try \in 1 .. MaxTries
        BY <1>0, <2>1, JobTypes
      <4>2. \A n \in 1 .. MaxTries : n < MaxTries => n + 1 \in 1 .. MaxTries
        BY MonitorAssumption
      <4> QED BY <2>3, <4>1, <4>2
    <3>2. job[t] \in [st : JobStates, pid : Pids, try : 1 .. MaxTries]
      BY <3>1 DEF Jobs
    <3>3. job' = [job EXCEPT ![t] = [st |-> "open", pid |-> job[t].pid, try |-> job[t].try + 1]]
      BY <1>0, <2>3, <3>2 DEF TypeOK
    <3>4. [st |-> "open", pid |-> job[t].pid, try |-> job[t].try + 1] \in Jobs
      BY <3>1, <3>2 DEF Jobs, JobStates
    <3>5. /\ job' \in [Threads -> Jobs \cup {NoJob}] /\ job'[t].st # "load"
          /\ \A u \in Threads \ {t} : job'[u] = job[u]
      BY <1>0, <3>3, <3>4 DEF TypeOK
    <3> QED BY <2>1, <3>5, JobStepPreserves
  <2> QED BY <1>2, <2>2, <2>3 DEF InjectFails
<1>3. CASE OpenProcess(t)
  <2>1. /\ job[t] # NoJob /\ Goto(t, "map")
        /\ UNCHANGED <<image, mapping, holders, lapsed, hook, pending, birth, targets, running, mode,
                       gui, todo, events, injected, late>>
    BY <1>3 DEF OpenProcess, At, processVars, memoryVars, monitorVars, guiVars
  <2>2. /\ job' \in [Threads -> Jobs \cup {NoJob}] /\ job'[t].st = "map"
        /\ \A u \in Threads \ {t} : job'[u] = job[u]
    BY <1>0, <2>1, JobMoves DEF JobStates
  <2> QED BY <2>1, <2>2, JobStepPreserves
<1> QED BY <1>1, <1>2, <1>3, WritePreserves, RemoteThreadPreserves DEF Injector
-------------------------------------------------------------------------------
(* The threads that take processes to inject. *)

LEMMA WorkerPreserves ==
  ASSUME MonitorInv, Wmi \/ \E p \in Pids : PollTakes(p)
  PROVE  MonitorInv'
<1>0. TypeOK /\ "worker" \in Threads
  BY DEF MonitorInv, Threads
<1>1. ASSUME NEW p \in Pids, OnProcessCreated(p) \/ PollTakes(p) PROVE MonitorInv'
  <2>1. /\ UNCHANGED <<image, mapping, holders, lapsed, hook, pending, birth, targets, running, mode, gui, todo,
                       injected, late>>
        /\ events' \subseteq events
        /\ job["worker"] = NoJob
        /\ UNCHANGED job \/ Take("worker", "open", p)
    BY <1>1 DEF OnProcessCreated, PollTakes, processVars, memoryVars, monitorVars, guiVars
  <2>2. /\ job' \in [Threads -> Jobs \cup {NoJob}] /\ job'["worker"].st # "load"
        /\ \A u \in Threads \ {"worker"} : job'[u] = job[u]
    <3>1. CASE UNCHANGED job
      BY <1>0, <2>1, <3>1 DEF TypeOK, NoJob
    <3>2. CASE Take("worker", "open", p)
      BY <1>0, <3>2, JobMoves
    <3> QED BY <2>1, <3>1, <3>2
  <2> QED BY <1>0, <2>1, <2>2, JobStepPreserves
<1>2. CASE SkipGone \/ AfterRetries
  <2>1. /\ UNCHANGED <<image, mapping, holders, lapsed, hook, pending, birth, targets, running, mode, gui, todo, events>>
        /\ Finish("worker") /\ job["worker"].pid \in Pids
        /\ UNCHANGED <<injected, late>> \/ Insert(job["worker"].pid)
    BY <1>0, <1>2, JobTypes DEF SkipGone, AfterRetries, At, processVars, memoryVars, monitorVars, guiVars
  <2>2. /\ job' \in [Threads -> Jobs \cup {NoJob}] /\ job'["worker"].st = "idle"
        /\ \A u \in Threads \ {"worker"} : job'[u] = job[u]
    BY <1>0, <2>1, JobMoves
  <2> QED BY <1>0, <2>1, <2>2, JobStepPreserves
<1> QED BY <1>1, <1>2 DEF Wmi

\* A process that is gone needs no entry.
LEMMA PollCleansPreserves ==
  ASSUME MonitorInv, NEW p \in Pids, PollCleans(p)
  PROVE  MonitorInv'
<1> USE DEF MonitorInv
<1>1. /\ ~Alive(p) /\ injected' = injected \ {p}
      /\ UNCHANGED <<image, mapping, holders, lapsed, hook, pending, birth, targets, running, mode, events, job,
                     gui, todo, late>>
  BY DEF PollCleans, processVars, memoryVars, guiVars
<1>2. ~Touched(p)
  BY <1>1 DEF Touched, Hooked, Loading, TypeOK, NoBirth
<1>3. \A q \in Pids : Touched(q)' <=> Touched(q)
  BY <1>1 DEF Touched, Hooked, Loading, Alive
<1>4. TypeOK'
  BY <1>1 DEF TypeOK, Alive
<1> QED BY <1>1, <1>2, <1>3, <1>4 DEF Configured, Handles, Recorded, DisabledIsStopped, Hooked
-------------------------------------------------------------------------------
(* The window's thread. *)

\* Starting, adding and removing targets: nothing is recorded or forgotten.
LEMMA CallsPreserve ==
  ASSUME MonitorInv,
         \/ StartMonitoring \/ AddEnds \/ Subscribe
         \/ \E e \in Exes : AddTargetProcess(e) \/ RemoveTargetProcess(e)
  PROVE  MonitorInv'
<1> USE DEF MonitorInv
<1>1. /\ UNCHANGED <<image, mapping, holders, lapsed, hook, pending, birth, injected, mode, events, job, late>>
      /\ running' \in BOOLEAN /\ (running => running')
      /\ gui \in {"idle", "scan", "add"} /\ gui' \in {"idle", "scan", "add"}
      /\ targets' \subseteq Exes /\ todo' \subseteq Pids
  BY DEF StartMonitoring, AddEnds, Subscribe, AddTargetProcess, RemoveTargetProcess, Scan,
         processVars, memoryVars, monitorVars, guiVars, TypeOK
<1>2. \A q \in Pids : Touched(q)' <=> Touched(q)
  BY <1>1 DEF Touched, Hooked, Loading, Alive
<1>3. TypeOK'
  BY <1>1 DEF TypeOK, Alive
<1> QED BY <1>1, <1>2, <1>3 DEF Configured, Handles, Recorded, DisabledIsStopped, Hooked

LEMMA ScanTakesPreserves ==
  ASSUME MonitorInv, NEW p \in Pids, ScanTakes(p)
  PROVE  MonitorInv'
<1>0. TypeOK /\ "window" \in Threads
  BY DEF MonitorInv, Threads
<1>1. /\ UNCHANGED <<image, mapping, holders, lapsed, hook, pending, birth, targets, running, mode, gui, events,
                     injected, late>>
      /\ gui # "disable" /\ todo' \subseteq Pids /\ job["window"] = NoJob
      /\ UNCHANGED job \/ \E st \in {"premap", "open"} : Take("window", st, p)
  BY <1>0 DEF ScanTakes, processVars, memoryVars, monitorVars, TypeOK
<1>2. /\ job' \in [Threads -> Jobs \cup {NoJob}] /\ job'["window"].st # "load"
      /\ \A u \in Threads \ {"window"} : job'[u] = job[u]
  <2>1. CASE UNCHANGED job
    BY <1>0, <1>1, <2>1 DEF TypeOK, NoJob
  <2>2. ASSUME NEW st \in {"premap", "open"}, Take("window", st, p)
        PROVE  /\ job' \in [Threads -> Jobs \cup {NoJob}] /\ job'["window"].st # "load"
               /\ \A u \in Threads \ {"window"} : job'[u] = job[u]
    BY <1>0, <2>2, JobMoves
  <2> QED BY <1>1, <2>1, <2>2
<1> QED BY <1>0, <1>1, <1>2, JobStepPreserves

\* The stop: what was recorded stands in todo until its memory says "off".
LEMMA StopPreserves ==
  ASSUME MonitorInv,
         \/ StopMonitoring \/ StopEnds \/ DeleteRunningThread
         \/ \E p \in Pids : DisableInjected(p)
  PROVE  MonitorInv'
<1> USE DEF MonitorInv
<1>1. CASE StopMonitoring
  <2>1. /\ UNCHANGED <<image, mapping, holders, lapsed, hook, pending, birth, targets, injected, mode, events, job, late>>
        /\ gui = "idle" /\ gui' = "disable" /\ running' = FALSE /\ todo' = injected
    BY <1>1 DEF StopMonitoring, processVars, memoryVars
  <2>2. \A q \in Pids : Touched(q)' <=> Touched(q)
    BY <2>1 DEF Touched, Hooked, Loading, Alive
  <2>3. TypeOK'
    BY <2>1 DEF TypeOK, Alive
  <2> QED BY <2>1, <2>2, <2>3 DEF Configured, Handles, Recorded, DisabledIsStopped, Hooked
<1>2. CASE StopEnds
  <2>1. /\ UNCHANGED <<image, mapping, holders, lapsed, hook, pending, birth, targets, running, mode, job, todo, late>>
        /\ gui = "disable" /\ todo = {} /\ gui' = "idle" /\ events' = {} /\ injected' = {}
    BY <1>2 DEF StopEnds, processVars, memoryVars
  <2>2. \A q \in Pids : Touched(q)' <=> Touched(q)
    BY <2>1 DEF Touched, Hooked, Loading, Alive
  <2>3. TypeOK'
    BY <2>1 DEF TypeOK, Alive
  <2> QED BY <2>1, <2>2, <2>3 DEF Configured, Handles, Recorded, DisabledIsStopped, Hooked
<1>3. CASE DeleteRunningThread
  <2>1. /\ UNCHANGED <<image, lapsed, hook, pending, birth, targets, running, mode, todo, late>>
        /\ gui' = "aborted" /\ events' = {} /\ injected' = {}
        /\ CloseHandles(Launcher)
        /\ job' = [t \in Threads |-> NoJob]
    BY <1>3 DEF DeleteRunningThread
  <2>2. /\ mapping' \in [Pids -> Configs \cup {"none", "blank"}]
        /\ holders' \in [Pids -> SUBSET (Pids \cup {Launcher})]
        /\ \A q \in Pids : /\ holders'[q] = holders[q] \ {Launcher}
                           /\ mapping'[q] = "none" <=> holders'[q] = {}
    BY <2>1, ClosedHandles
  <2>3. TypeOK'
    BY <2>1, <2>2 DEF TypeOK, Alive
  <2>4. Handles'
    BY <2>1, <2>2, MonitorAssumption DEF Handles
  <2> QED BY <2>1, <2>3, <2>4 DEF Configured, Recorded, DisabledIsStopped
<1>4. ASSUME NEW p \in Pids, DisableInjected(p) PROVE MonitorInv'
  <2>1. /\ UNCHANGED <<image, holders, lapsed, hook, pending, birth, targets, injected, running, mode,
                       events, job, gui>>
        /\ gui = "disable" /\ p \in todo /\ todo' = todo \ {p}
    BY <1>4 DEF DisableInjected, monitorVars
  <2>2. \A q \in Pids : Touched(q)' <=> Touched(q)
    BY <2>1 DEF Touched, Hooked, Loading, Alive
  <2>3. CASE Alive(p) /\ mapping[p] # "none" /\ mapping[p] # "blank"
    <3>1. mapping' = [mapping EXCEPT ![p] = "off"] /\ late' = late \ {p}
      BY <1>4, <2>3 DEF DisableInjected
    <3>2. /\ mapping' \in [Pids -> Configs \cup {"none", "blank"}] /\ mapping'[p] = "off"
          /\ \A q \in Pids \ {p} : mapping'[q] = mapping[q]
      BY <3>1 DEF TypeOK, Configs
    <3>3. TypeOK'
      BY <2>1, <3>1, <3>2 DEF TypeOK, Alive
    <3>4. Configured' /\ Handles'
      BY <2>1, <2>2, <2>3, <3>2 DEF Configured, Handles, Hooked
    <3>5. Recorded'
      BY <2>1, <2>2, <3>1, <3>2 DEF Recorded
    <3> QED BY <2>1, <3>3, <3>4, <3>5 DEF DisabledIsStopped
  <2>4. CASE ~(Alive(p) /\ mapping[p] # "none" /\ mapping[p] # "blank")
    <3>1. UNCHANGED <<mapping, late>>
      BY <1>4, <2>4 DEF DisableInjected
    <3>2. p \notin late => ~(Touched(p) /\ mapping[p] \notin {"off", "none"})
      <4>1. ~Alive(p) => ~Touched(p)
        BY DEF Touched, Hooked, Loading, TypeOK, NoBirth
      <4> QED BY <2>1, <2>4, <4>1 DEF Recorded
    <3>3. TypeOK'
      BY <2>1, <3>1 DEF TypeOK, Alive
    <3>4. Configured' /\ Handles'
      BY <2>1, <2>2, <3>1 DEF Configured, Handles, Hooked
    <3>5. Recorded'
      BY <2>1, <2>2, <3>1, <3>2 DEF Recorded
    <3> QED BY <2>1, <3>3, <3>4, <3>5 DEF DisabledIsStopped
  <2> QED BY <2>3, <2>4
<1> QED BY <1>1, <1>2, <1>3, <1>4
-------------------------------------------------------------------------------
\* The invariant of the injection mode, for any processes and any uses of their ids:
\* what is about to load the DLL finds its memory written unless it is on record that
\* no memory could be created, its last holder ended or the launcher is writing it over.
THEOREM MonitorInvariance == Spec => []MonitorInv
<1>1. MonitorInv /\ [Next]_vars => MonitorInv'
  <2> SUFFICES ASSUME MonitorInv, [Next]_vars PROVE MonitorInv'
    OBVIOUS
  <2>1. ASSUME NEW p \in Pids, Process(p) PROVE MonitorInv'
    BY <2>1, SpawnPreserves, BirthPreserves, LoadPreserves, ExitPreserves DEF Process
  <2>2. ASSUME NEW p \in Pids, PollTakes(p) \/ PollCleans(p) PROVE MonitorInv'
    BY <2>2, WorkerPreserves, PollCleansPreserves
  <2>3. ASSUME NEW t \in Threads, Injector(t) PROVE MonitorInv'
    BY <2>3, InjectorPreserves
  <2>4. CASE Wmi
    BY <2>4, WorkerPreserves
  <2>5. CASE Window
    BY <2>5, CallsPreserve, ScanTakesPreserves, StopPreserves DEF Window
  <2>6. CASE UNCHANGED vars
    <3>1. UNCHANGED <<image, mapping, holders, lapsed, hook, pending, birth, targets, injected, running, mode,
                      events, job, gui, todo, late>>
      BY <2>6 DEF vars, processVars, memoryVars, monitorVars, guiVars
    <3>2. TypeOK'
      BY <3>1 DEF MonitorInv, TypeOK, Alive
    <3>3. \A q \in Pids : Touched(q)' <=> Touched(q)
      BY <3>1 DEF Touched, Hooked, Loading, Alive
    <3> QED BY <3>1, <3>2, <3>3 DEF MonitorInv, Configured, Handles, Recorded, DisabledIsStopped, Hooked
  <2> QED BY <2>1, <2>2, <2>3, <2>4, <2>5, <2>6 DEF Next
<1> QED BY InitEstablishes, <1>1, PTL DEF Spec

\* TypeOK of the processes, their hooks and the monitor's sets holds throughout.
THEOREM TypeCorrect == Spec => []TypeOK
<1>1. MonitorInv => TypeOK
  BY DEF MonitorInv
<1> QED BY MonitorInvariance, <1>1, PTL

\* "Create shared memory BEFORE starting the remote thread": HookFindsItsConfiguration
\* for every process, however many injections race and whoever ends between them.
THEOREM HookIsConfigured == Spec => []HookFindsItsConfiguration
<1>1. MonitorInv => HookFindsItsConfiguration
  BY DEF MonitorInv, Configured, HookFindsItsConfiguration
<1> QED BY MonitorInvariance, <1>1, PTL

\* "Disable proxy for all injected processes": StoppedProcessesAreDirect after every
\* stop, for every process whose enabling write the set has recorded.
THEOREM StoppedAreDirect == Spec => []StoppedProcessesAreDirect
<1>1. MonitorInv => StoppedProcessesAreDirect
  <2> SUFFICES ASSUME MonitorInv, gui = "idle", ~running, NEW p \in Pids \ late
               PROVE  ProcessConnection(p, "ipv4") = "direct"
    BY DEF StoppedProcessesAreDirect
  <2>1. CASE ~Hooked(p)
    BY <2>1 DEF ProcessConnection
  <2>2. CASE Hooked(p)
    <3>1. mapping[p] \in {"off", "none"}
      BY <2>2 DEF MonitorInv, Recorded, Touched
    <3>2. CASE hook[p] = "bare"
      BY <3>2 DEF ProcessConnection, IsProxyConfigured
    <3>3. CASE hook[p] # "bare"
      <4>1. hook[p] \in {"on", "off"} /\ mapping[p] # "none"
        BY <2>2, <3>3 DEF MonitorInv, Handles, TypeOK, Hooked, Configs
      <4> QED BY <3>1, <3>3, <4>1 DEF ProcessConnection, IsProxyEnabled
    <3> QED BY <3>2, <3>3
  <2> QED BY <2>1, <2>2
<1> QED BY MonitorInvariance, <1>1, PTL
===============================================================================
