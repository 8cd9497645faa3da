# OpenProxifier: specifications, model checks and proofs

OpenProxifier sends the TCP and UDP traffic of chosen Windows programs through a SOCKS5 or
HTTP proxy.  It has two ways of doing so: *redirection* (the engine in `src/core`, used by the
command line and by the GUI's WinDivert mode), where packets are diverted in the network stack,
and *injection* (`src/launcher` and `src/hookdll`), where a DLL hooks the Winsock calls of each
program.  The GUI offers the second as a class of its own, `ProcessMonitor`; in this version no widget is
connected to `MainWindow::onWinDivertModeChanged` (`MainWindow.cpp:1057`), so the window always redirects.

## The system

| Component | State | Operations | Hard behaviour | What makes it correct |
|---|---|---|---|---|
| Rule engine, `core/RuleEngine.c` | linked list of rules, next id | Add, Remove, Enable, Clear, Match | order of a prepended list, wildcard fallback | the newest applicable rule decides; an operation touches one rule |
| Qt facade, `launcher/ProxyEngineWrapper.cpp` | `m_rules`, `m_initialized`, `m_running` | the same operations, init, start, stop | a second list kept in step by hand, not emptied by `cleanup` | both lists agree |
| Packet processor, `core/PacketProcessor.c` | WinDivert handle, three caches, active ports | one packet at a time: decide, redirect, translate | stale caches, failed lookups, a thread that outlives Stop | a decision is the rule's; a response finds its way back |
| Connection tracker, `core/ConnectionTracker.c` | list keyed by source port | Add, Get, GetFull, GetProxy, Remove, Clear | read in two steps, removed by whoever ends last | an entry is its port's present client's |
| Local proxy, `core/LocalProxy.c` | listener, accept loop, a handler thread per connection | accept, dial, relay, close | handlers outlive Stop, close before Remove | a client is served for its own destination and proxy |
| Handshakes, `core/Socks5.c`, `hookdll/Socks5Client.cpp`, `launcher/ConnectionTestThread.cpp` | none | SOCKS5, HTTP CONNECT, UDP ASSOCIATE; resolve | answers in parts, silence, unexpected methods | succeeds only on what was offered and agreed; comes back |
| UDP relay, `core/UdpRelay.c` | 256 sessions, one lock, one thread | AddSession, expire, relay both ways | lock held over a connect and over untimed receives, 64-handle wait, blocking sockets | a datagram reaches its destination and its answer the client |
| Engine, `core/ProxyEngine.c` | global proxy, running flags | Init, Cleanup, Start, Stop, SetProxy | partial start, roll-back, time-outs, restart | Stop leaves nothing running; Start after a failure works |
| Process monitor, `launcher/ProcessMonitor.cpp` | target names, injected pids, WMI events or a polling thread | start, stop, add and remove targets, inject | events against stop, racing injections, pid reuse | a target is found; what was injected is disabled by the stop |
| Hook DLL, `hookdll/*.cpp` | shared-memory configuration, hooks | connect through proxy, inject child processes | configuration switched under it, written by its parent | finds its configuration, follows the switch |
| Main window, `launcher/MainWindow.cpp` | fields, saved servers, table, test thread, settings on disk | test, start, stop, select, save, edit | events of a test between clicks, combo box signals, a crash inside a save | the running server is the shown and tested one; the table comes back |
| Command line, IFEO manager, injectors, process tracker | arguments, registry, an unused table | sequential | none of note | |

**How they interact.**  `ProxyEngine_Start` starts the UDP relay, the local proxy and the packet
processor, in that order; `ProxyEngine_Stop` stops them in the reverse order and clears the
tracker.  The packet thread asks the rule engine for a verdict, writes the tracker
(`ConnectionTracker_Add`) and re-addresses the client's packet to the local proxy's port.  The
accept loop reads the tracker twice, for destination and proxy, and starts a handler, which dials
the proxy, relays, closes the client's socket and removes the tracker's entry.  What the listener
sends is diverted again and translated back by the packet thread with the tracker's entry.  So
four kinds of threads share the table, keyed by the client's source port alone, and nothing but
the order of packets says which connection of a port an entry belongs to.

The UDP relay is called by the packet thread as well, which stays inside `UdpRelay_AddSession`, with the relay's
lock, while it connects to the proxy and waits for its answers.  `ProxyEngine_Stop` waits five seconds for the packet
thread, then needs that lock, without a limit, and waits five seconds for the relay thread.  The window drives the engine through `ProxyEngineWrapper`, and a connection test of its own thread
through queued signals.  In the injection mode launcher and hooks share nothing but one piece of shared memory per
process id; a hook hands its cached configuration on to the processes its host creates.

## Modules

| Module | Models | State and actions against the code |
|---|---|---|
| `RuleEngine` | `core/RuleEngine.c` | `rules` is `g_rules_list`, head first; `nextId` is `g_next_rule_id`; an action per operation (each holds the lock throughout); `Match` is `RuleEngine_Match` |
| `RuleMirror` | `launcher/ProxyEngineWrapper.cpp` over it | `mirror` is `m_rules`, with the texts as given, where the engine's list has them as `Stored`; each wrapper call is one action with the engine's call inside, `init` and `cleanup` among them |
| `TtlCache` | the slot table of the three caches of `core/PacketProcessor.c`, as operators over a record that describes a cache | `Table` is `g_process_cache`, `g_connection_cache` or `g_decision_cache`; `AfterGet` and `AfterSet` are what `..._Get` and `..._Set` leave behind, `Fresh` and `Read` what `..._Get` answers |
| `PacketDecision` | from a packet to its verdict: `PacketProcessorThread` 553-658 with the lookups it calls, over processes and sockets that come and go | `conn`, `proc`, `dec` are the three tables, described by the records `Conn`, `Proc`, `Dec`; `owner` and `image` are what the system's tables say; `Packet` is one packet's way through the loop (one thread uses the caches), `PacketUnidentified` the same with a failed lookup |
| `TcpRedirect` | packet thread, tracker, accept loop, handlers, Start/Stop, between a model of clients, of WinDivert's queue and of the listener's TCP stack | see below |
| `ProxyTunnel` | one connection to a proxy: the seven handshakes and the two `TransferThread`s of `core/LocalProxy.c` | `pc` is how far the handshake is, `method` and `reply` what the proxy said; `thread[s]`, `buf[s]` and `read[s]` are the transfer that reads socket `s`; `rdShut` and `wrShut` are its `shutdown` calls |
| `UdpSessions` | what the UDP relay promises its clients | where each client's session goes (`dest`), who has `asked` through it, for whom an answer is `waiting` |
| `UdpRelay` | `core/UdpRelay.c` with the packet thread and the stop | `session` is `g_sessions`, `lock` is `g_lock`, `adder` the packet thread in `AddSession` (`connecting`, then `asking`), `relay` the position of `UdpRelayThread`; each action is the code between two waits for the lock, the network or an event; `Sessions` is the refinement mapping to `UdpSessions` |
| `EngineService` | what the engine promises its caller | `phase` and the parts that are `up` |
| `EngineLifecycle` | `core/ProxyEngine.c`, the start and stop of its three parts, and `ProxyEngineWrapper` above | `call` is how far the call in progress is, `running`, `port` and `filter` the parts' flags and ports, `accepting`, `relay` and `packet` their threads, `lock` the UDP relay's; `Service` is the refinement mapping to `EngineService` |
| `ProcessMonitor` | `launcher/ProcessMonitor.cpp` and the hook DLL's loading, switch and child injection | `targets`, `injected`, `running` are the members of these names, `mapping` the shared memory of each process id and `holders` who keeps it open, `hook` the configuration a loaded hook cached, `job` `injectIntoProcess` on each of the launcher's threads |
| `MainWindow` | `launcher/MainWindow.cpp` as far as it has state | an action per slot; `thread` and `queue` are the test threads and their posted events, `stored` is `QSettings`; a save either goes through or ends in a crash between two of its keys |
| `RuleProofs`, `PacketDecisionProofs`, `TcpProofs`, `TunnelProofs`, `UdpProofs`, `EngineProofs`, `MonitorProofs`, `MainWindowProofs` | | theorems about the modules above |
| `MC...` | | values of the constants for TLC |

`TcpRedirect` in detail.  `tracker` is the connection list as a function of the port.  `queue` is what
WinDivert holds for the packet thread; `ForwardDirect`, `DropBlocked`, `Redirect`, `Reply` and
`ReplyRefused` are the ways the packet loop ends for one packet, each with the answer it draws
from the TCP stack that gets the packet.  `acceptor` is the accept loop between its two looks at
the tracker: `AcceptTracked` is `accept` with `ConnectionTracker_Get`, `AcceptSpawn` is
`ConnectionTracker_GetProxy` with the fall-back to the global proxy and the new thread.
`handler[c]` is a `ConnectionHandler`; closing the socket (`DialFails`, `RelayEnds`) and
`RemoveEntry` are two steps, as in the code.  `StopCapture` and `StopProxy` are the two halves of
`ProxyEngine_Stop` between which the accept loop still runs; handlers run on.  A connection is a
value of `Conns`, which stands for its sequence numbers: TCP stacks tell old segments from new ones,
the program does not.

`ProxyTunnel` opens up what is the state `relaying`, and the dialling before it, in `TcpRedirect`; `EngineLifecycle`
what is one `Start` and a few stopping steps in `TcpRedirect` and `UdpRelay`; `ProxyTunnel` with its client `test` the
test thread of `MainWindow`, and with `hook` the hooked connect of `ProcessMonitor`.

Where one definition stands for a step of all seven handshakes, its entry in the map names the one whose lines show
most.  They are `Socks5_Connect` (`Socks5.c:57-178`), `Http_Connect` (`:199-265`), `Socks5_ConnectIPv6` (`:268-385`),
`Socks5_UdpAssociate` (`UdpRelay.c:85-169`), the hook's two (`Socks5Client.cpp:110-338`) and
`ConnectionTestThread::run` (`ConnectionTestThread.cpp:15-256`).

### What is abstracted

* Patterns of rules are sets of values; only the texts `*` and the empty one are kept apart, and those longer than
  their field in the engine (`Cut`).
* The rule verdict of a connection is fixed while the engine runs.  Nothing changes rules or proxy then
  (`MainWindow::startWinDivertMode` sets both before the start and the GUI calls neither
  `removeRule` nor `enableRule`; the command line sets them once).  How the verdict comes about, and goes
  stale, is `PacketDecision`; there a verdict is a function of the program and the destination, with the proxy
  already resolved.
* A cache entry carries its age in ticks up to its time to live; the wrap of `GetTickCount` is left out.  Packets
  to broadcast, multicast and private addresses are forwarded before any decision.  `quiet` is a history
  variable of `PacketDecision`: ticks since an endpoint's socket, its owner, a lookup or the rules changed.
* One IPv4 address in `TcpRedirect`, so a source port has at most one live connection at a time.  IPv6 is passed on by
  the packet processor.
* A client of `TcpRedirect` closes with a reset (`Abort`): that is the case in which its port is free at once.  The
  other ways a connection ends are in `ProxyTunnel`.
* `ProxyTunnel` counts bytes instead of keeping them.  A proxy's answer is what it says and how many units it is long, cut
  where the code can tell the difference; what a short `recv` has left of it is the first thing the tunnel forwards.
* `UdpRelay` keeps of a datagram where it seems to come from and who sent it.  `AddSession` has two states in which it
  holds the lock: `connecting`, which ends by a time-out at the latest, and `asking`, the receives of UDP ASSOCIATE, which
  have none.  A relay thread the last stop gave up has ended before the next start; `EngineLifecycle` has the other case.
* Whether `connect` succeeds in `AddSession` is left open.  The filter (`PacketProcessor.c:690-694`) captures the
  packet thread's own SYN as well, which waits for the very thread that is in `connect`; the attempt then ends by its
  time-out after some 21 s, with the lock held, and the datagram goes out as if DIRECT.  It succeeds where nobody has to
  pass the SYN on: with a proxy on the port number of the TCP listener, which the filter leaves out, with a second
  packet thread beside a given-up one, or once a stop has closed the handle.
* In `EngineLifecycle` the five seconds for a thread are only over while the thread is with the proxy or somebody has the
  lock it needs.  The accept loop waits for nobody (`closesocket` wakes it), so `LocalProxy_Stop` never gives it up.  A listening
  port that is taken makes `Start` try the next one.  (The TCP listener sets `SO_REUSEADDR`, with which Windows may let `bind`
  succeed on a port in use; the choice of a step failing or not covers both.)
* In `ProcessMonitor` shared memory goes with its last handle: the launcher's and a creating hook's stay open as long as they
  run.  `lapsed` is a history variable: processes that load, or have loaded, the DLL without a written memory.
* In `ProcessMonitor` the three threads that may run `injectIntoProcess` are two jobs, as WMI and polling exclude each
  other; the hook's own injection is `birth`.  A connection is its kind (`ProcessConnection`).
* In `MainWindow` a server is its address, one text for host and port, and the state of the authentication fields;
  `NoAddress` is a text that is none.  A row's name may be empty, and such rows are skipped when loading, as in the code.
  The keys of the saved table are their numbers, compared as their texts compare (`KeyBefore`), up to 999 rows.

## Runs

| Run | Checks | Instance |
|---|---|---|
| `rules` | `TypeOK`, `MirrorAgrees`, `NewestRuleDecides`, `OnlyTouchedFlowsChange` | five bodies (a full wildcard with an empty host, a host list longer than its field, an all-matching list that is not `*`, a process rule of another protocol, one without a process, which is refused), ids up to three, at most four rows in the wrapper's list; removals, switches, clears, clean-ups and initialisations without bound |
| `tcp` | `TypeOK`, `HandlerServesItsClient`, `TrackerAgreesWithClient`; under fairness `ConnectingClientIsAnswered`, `AbandonedClientIsReset` | two connections that use one port in turn, two starts with three configurations (own, global, missing and blocking), queue of two, one loss or failed allocation |
| `tcp_rule_proxy` | `RuleProxyHonoured` (violated) | the same with one start: the finding at `LocalProxy.c:212` |
| `decision` | `TypeOK`, `CachesWellPlaced`, `SettledDecisionsAreRight`, `RedirectionIsFresh` | one endpoint that the engine and another process have in turn; the other exits and restarts as another program; three destinations that compete for a window of two decision slots; times to live 2, 1 and 3 ticks; two rule sets |
| `own_traffic` | `OwnTrafficForwarded` (violated) | the finding at `PacketProcessor.c:563` |
| `udp` | `TypeOK`, `AnswersAreForTheirClient`, `AtMostOneSurvivor`, `ImplementsSessions`; under fairness `DatagramsAreTaken`, `StopReturns` | three clients, one of which has two destinations and also writes to the relay by itself (`SendsTo`, `Strangers`), two slots, a wait that takes two handles (so that both sessions with the listener are too many), sessions that expire after one tick, one datagram waiting |
| `udp_swapped` | `RedirectedDatagramHasSession` (violated) | the finding at `PacketProcessor.c:645` |
| `engine` | `TypeOK`, `PacketsReachTheRelays`, `OffIsQuiet`, `OneThreadPerPart`, `ImplementsService`; under fairness `CallsReturn` | two ports to try, two packet threads and two relay threads (of each one current and one given up) |
| `monitor` | `TypeOK`, `HookFindsItsConfiguration`, `StoppedProcessesAreDirect`; under fairness `TargetsAreFound` | two process ids, the second used twice, the first one's process creating others (with WMI only, `Parents`); one target name, two tries; one call that starts or adds with WMI, two with polling |
| `tunnel` | `TypeOK`, `MethodWasOffered`, `EveryByteArrives`; under fairness `ConnectReturns`, `HandlerEnds` | all seven handshakes with and without a user name, replies of three or four units, two bytes from each end |
| `window` | `TypeOK`, `RunningServerIsShown`, `ButtonsFollowEngine`, `TestedUnlessRaced`, `RestartKeepsTable`; under fairness `TestIsAnswered` | two servers, two test threads, four clicks; starting from an empty table with auto-start and from nine rows with two saved servers; saves cut short before, in and between rows (`Cuts`) |
| `window_race` | `StartedServerWasTested` (violated) | the finding at `MainWindow.cpp:893` |

What some of them show:

* `SettledDecisionsAreRight` is the best that can be said of the caches: a decision is made from a pid up to
  `ConnTtl` old (30 s) and a DIRECT stays for `DecTtl` (60 s), so a process may get another's treatment for
  90 s after the last disturbance, and no longer.  `RedirectionIsFresh` is why only a cached DIRECT is taken from the
  decision cache: redirecting or dropping never rests on anything older than 30 s.
* `MirrorAgrees` has one exception: `cleanup()` empties the engine's list and leaves `m_rules` as it is, and the next `init()`
  starts the ids again.  Nothing reads the list in that state: `startWinDivertMode` calls `clearRules` (`MainWindow.cpp:1137`)
  between `init` and its first `addRule`.
* `AbandonedClientIsReset` covers a client whose handler is through, one that never got a handler (no entry, no memory),
  one whose listener was closed under it, and one whose connection was opened before the engine (`Abandoned`, `Seized`).
* `DatagramsAreTaken`, `StopReturns` and `CallsReturn` have a condition, `LockIsReleased`, because without it they are false.  A proxy
  that accepts and then says nothing holds `AddSession` in `recv` with the lock (`UdpRelay.c:106`, `:120`, `:144`: `asking`).  A
  session put in after the relay thread has selected its events has a socket that still blocks, and once something went
  through it `recvfrom` (`UdpRelay.c:281`) waits with the lock until the proxy's relay sends something (`Stuck`).  In both, `UdpRelay_Stop` waits
  for the lock for ever, and the window with it.  `DatagramsAreTaken` also excepts `TooManyEvents`: with as many sessions
  as the wait takes handles (64, of 256 slots) the relay thread spins without receiving.
* `ImplementsSessions` says what a client may count on: one session, whose destination is the one it was opened for.
  A datagram to a second destination goes to the first one, and keeps the session from expiring
  (`AddSessionFound`).  What may not happen, and does not, is that the destination changes under a session, or that an answer
  waits for a client that has not asked through its present session.
* `OneThreadPerPart` and `OffIsQuiet` except a packet or relay thread that its stop has given up on: it goes on beside the
  next start's thread, on the same caches (whose look-ups and stores share `g_cache_lock`) or the same socket.  What they show
  is that nothing else leads there.
* `EveryByteArrives` names what the single `recv` of a reply gets wrong: `stray`, the rest of a SOCKS reply that came in parts,
  reaches the application as data, and `lost`, what came right behind an HTTP response, does not reach it.
* `MethodWasOffered` names UDP ASSOCIATE, which takes a method it does not know for no authentication.
* `HookFindsItsConfiguration` names the hooks that may not find it (`lapsed`): a parent's hook could not create the memory and injects
  all the same (`WinsockHooks.cpp:423`, `:472`), or had none to hand on; the parent ended with the only handle
  (`HookManager.cpp:94`); or the launcher was between `memset` and `MAGIC` of the same memory (`ProcessMonitor.cpp:742`)
  for a second injection.  A later write before the loading mends each of them, and nothing else may leave a hook bare.
* `TargetsAreFound` ends at `m_injectedProcesses`, where a process also gets when its DLL never loads.
* `StoppedProcessesAreDirect` excepts the processes in `late`, enabled by an injection that the stop did not find in
  `m_injectedProcesses`: one of WMI's handler that was under way, or a parent's hook.
* `RestartKeepsTable` holds up to nine rows: `QSettings` sorts the keys `rule_1`, `rule_10`, `rule_2`.  Rows without a name
  are skipped, the others keep their order, and a table of which nothing is left comes back with the default row.  `unsaved`
  names the two exceptions: editing a name in place is not saved until the next change or the exit, and a crash inside
  `saveSettings`, which removes the old rules first (`MainWindow.cpp:255`), leaves a part of the table.  A crash anywhere
  else keeps it.
* The auto-start's timer looks at `m_serverConnected` right after it has begun the test (`MainWindow.cpp:156`), so it
  finds what was there before: `AutoStart` only starts the engine if the user has tested within the 500 ms.

**Why these bounds are enough.**  What goes wrong in the redirection is between an old and a new
connection of one port, so two connections suffice; a third would repeat the second's role.  A queue of
two holds an old packet and a new one, and makes the bound itself felt; the proofs take any.  Two starts give a handler of the
first run the time to act in the second.  In `decision` three keys compete for a window of two, so
that a store may find its window full, and the times to live keep the order of the code's (5, 30 and 60
seconds), two of them with an age at which an entry is stale but not expired.  The destinations are
interchangeable, which the symmetry set uses.  In `udp` the hazards are between one session being added and one
being served; the first client is the one that asks and has a second
destination, the second is the next owner of its slot, the third finds none free.  In `engine` two ports let the search fail after one
port, after all, or not, and two threads of each kind let a stop meet one that an earlier one has given up on.  In `rules` three rules are
a neighbour on either side, and a mirror longer than the ids in use is one a clean-up has left behind.  In `monitor` the
reuse of one id is what separates the records of an old and a new process; the calls are bounded, as polling without a bound on
starts has millions of states.  In `tunnel` two bytes are the least that `recv` or `send` can cut.  In
`window` four clicks are a test, a change, a start and one more between any of their events.
The proofs do not depend on any of these.

**Deadlock** is checked in the runs of `RuleMirror`, `PacketDecision`, `UdpRelay` and `EngineLifecycle`, in which something can
always happen.  Elsewhere the system may rightly have nothing to do: in `TcpRedirect` with every bounded counter used up and every client closed, in `ProxyTunnel` once the
connection is over, in `ProcessMonitor` after its bounded calls and processes or the launcher's abort, and in `MainWindow`
without clicks left.

**Fairness.**  Weak fairness for a thread's step that waits for nothing but its turn, as Windows schedules every ready
thread, and for a wait that has a time-out.  Nothing is assumed of users or of a proxy's answers.
* `TcpRedirect`: strong fairness for a client's repeated SYN and for its sending, as TCP's timers repeat the
  one, a client that is left hanging has something to send, and the bounded queue refuses both for a while only; weak for the expiry of a cached DIRECT.  None for the end of a relay, or for Start and
  Stop.
* `UdpRelay`: strong fairness for the packet thread, the relay thread and the stop, which wait for a critical section that
  others use again and again, and weak for `Dial`, which is `connect` with its time-out.  None for `ProxyGrants` and
  `ProxyRefuses`: the receives of UDP ASSOCIATE have no limit.
* `EngineLifecycle`: likewise, with a packet thread's return from `dialling` but not from `asking`, and none for `RelayUnlocks`.
* `ProxyTunnel`: `RecvTimesOut` only exists for those handshakes that set `SO_RCVTIMEO`; the local proxy's own sets none, and may wait
  for a silent proxy for ever.  A peer that was told the end of the stream closes its own side (`HandlerEnds` rests on it).
* `ProcessMonitor`: a round of the polling thread takes every process in turn, hence strong fairness for each process; a
  process that can be injected is not refused for ever.  Nothing makes the DLL load.
* `MainWindow`: the test has limits on everything it waits for (`ConnectReturns`), and the event loop delivers.

## Findings

1. `LocalProxy.c:212`: the accept loop's two looks at the tracker are not one step; an old handler's `Remove`
   between them makes a rule's own proxy the global one, against `README_EN.md:87`.
2. `PacketProcessor.c:563`: self-exclusion trusts the cached owner of a port, so a connection of the engine's own from a
   port that a proxied program has just left is redirected to the engine, against `PacketProcessor.c:575` and
   `ProxyEngine.h:78`.
3. `PacketProcessor.c:645`: the relay looks for a redirected datagram's session under the destination's address, where it is not, and
   drops the datagram, against `UdpRelay.h:25`.  It shows where there is a session at all, which takes one of the three cases above in
   which `AddSession` can reach the proxy; in every other one the datagram goes out unproxied after the time-out.
4. `MainWindow.cpp:893`: the answer of a test marks whatever server the fields show as tested, against
   `MainWindow.cpp:935` and `:511`.

Seen while modelling, without a run of their own: the verdict of an unidentified packet is cached like any other, so the retry that the
comment at `PacketProcessor.c:369` counts on does not happen for 60 s when it is DIRECT; the FIN of a handler
that closes is translated only if the packet thread is faster than `ConnectionTracker_Remove` (`LocalProxy.c:110`), otherwise
the client learns of the end when it next sends (`AbandonedClientIsReset`).

## Proofs

TLAPS proves for every value of the constants:

* `RuleProofs`: `TypeOK`, `MirrorAgrees`, `NewestRuleDecides`, `OnlyTouchedFlowsChange`, and `NewestFirst`, that ids fall along the list.
  `MirrorAgrees` is proved with its exception, and up to what `Stored` makes of the texts.
  The inductive invariant is the conjunction of the first two with `NewestFirst`; the order of ids is what makes positions in the two lists correspond, and
  the verdict follows from the order without induction.  For `OnlyTouchedFlowsChange` one lemma per operation shows that the rules it
  touches share an id, and `UntouchedFlowsKeep` that a flow to which none of them applies has the same applicable rules before and
  after; as the verdict is a function of that set (`VerdictIsNewest`), it is the same.
* `TcpProofs`: `TypeOK`, `HandlerServesItsClient`, `TrackerAgreesWithClient`.  Neither is inductive.  That an entry is
  its client's needs to know that no packet of an earlier connection of the port can still be redirected
  (`NoOldPackets`); that needs the order of the queue (`OldPacketsFirst`: what former clients sent stands before
  what is about the present one, so the answer that establishes the client has pushed them through); that needs that
  a port has one live client (`OneClientPerPort`) and that nothing is known of a connection before its client
  opened it (`UnopenedIsUnknown`, `UnansweredIsHalfOpen`).  `TcpInv` is their conjunction; one lemma per action
  shows that it is kept.
* `PacketDecisionProofs`: `TypeOK`, `CachesWellPlaced`, `SettledDecisionsAreRight`, `RedirectionIsFresh`, for any sizes,
  windows, hash functions and times to live.  The inductive invariant `DecisionInv` says of every entry that it is
  right now, or has expired, or is older than the last disturbance of what it is about: `OwnersKnown` and `NamesKnown` for
  the identity caches, `DecisionsKnown` for the decision cache, whose entries get the longer identity time on top
  of their own age.  `OwnersRun` (who owns a socket runs) is what makes a reused process id harmless.  One lemma
  (`TablesUntouched`) serves every action that leaves the caches alone.  The module begins with lemmas about any one cache: what a
  look-up finds, what a store or a tick changes, and that none of them puts a key into two slots or out of its window
  (`SetWellPlaced`).
* `UdpProofs`: `TypeOK`, `OneSessionPerClient`, `AnswersAreForTheirClient`, `AtMostOneSurvivor`, `ImplementsSessions`, for any clients, slots and
  limits, whether `connect` succeeds or not.  `UdpInv` adds who holds the lock (`Exclusive`), that the slot `AddSession` has chosen stays
  free and its client without a session until it is filled (`SlotKept`), and that a call which outlasts the stop finds
  all sessions closed (`LateCall`).  For the refinement, `ClientView` reads the mapping off the slots: as no client has two, its destination is
  that of its slot whichever is chosen.  Filling a slot is `Open` (there are no more served clients than used slots),
  expiry and stop are `End`, and what only moves the threads or the lock is a stutter.
* `EngineProofs`: `TypeOK`, `PacketsReachTheRelays`, `OffIsQuiet`, `OneThreadPerPart`, and that every step is one of `EngineService` or
  changes nothing of it (`ImplementsService`).  `EngineInv` says that the point a call has reached tells which parts run
  (`WhatRuns`), that a packet or relay thread which no stop has given up is the current one (`ThreadKnown`, `ServerKnown`),
  and that a running relay's port is the one the engine remembers (`PortsKnown`): a failed start that left a relay running would break it.
* `TunnelProofs`: `TypeOK`, `MethodWasOffered`, `EveryByteArrives`, for any number of bytes.  `TunnelInv` accounts for each unit
  read, those of the reply included, as delivered or held (`Accounted`) and shows that without a reset a socket is shut down
  only after its stream's end (`ShutAfterEnd`), so that no send fails.
* `MonitorProofs`: `TypeOK`, `HookFindsItsConfiguration`, `StoppedProcessesAreDirect`, for any processes, names and reuse of ids.  `MonitorInv`:
  whatever is about to load the DLL into a process has its memory written or is in `lapsed`, and an exit takes it all
  with it (`Configured`); a hook that has read its memory keeps it (`Handles`); an enabled memory is recorded in the set the stop goes
  through, or stands in `late` (`Recorded`).
* `MainWindowProofs`: `TypeOK`, `RunningServerIsShown`, `ButtonsFollowEngine`, `TestedUnlessRaced`, `RestartKeepsTable`, for any servers,
  programs, test threads, clicks, saved settings and table lengths.  `TestedUnlessRaced` is not inductive: that the engine's server
  was tested rests on `ConnectedWasTested`; this on `TestsShown`, that a test under way, or an answer not yet
  heard, is of the address shown or the address was changed meanwhile; and this on `EventsInOrder`, that a thread's answer is posted
  once and before its end, so that no event is left of a thread that is used again.  `ClosedIsQuiet` makes a new
  launch begin with nothing of the last one.  For the table, `SavedTable` says that the disk has what the window
  shows unless something is `unsaved`, and that a save cut short leaves what can be loaded.  That loading keeps the order of
  the rows with a name, up to nine, is a counting argument over finite sets of keys (`PlacesFollowKeys`, `PlacesDiffer`,
  `ShortTableInOrder`), and that loading never reads a place no key has is `EveryPlaceIsTaken`.

The assumptions are those on the constants: for the caches `CachesAssumption` (sizes and times positive, windows
no larger than the table), for the redirection a port and a destination per connection, for the window that the blank field is no address and
that what is on disk has the form `saveSettings` gives it, for the rules that what the engine makes of a body it accepts is one of its own and that `*` is no set of values, elsewhere that bounds are natural numbers and that the values for "none"
are none of the others.

Model-checked only: liveness (`ConnectingClientIsAnswered`, `AbandonedClientIsReset`, `DatagramsAreTaken`, `StopReturns`, `CallsReturn`,
`TargetsAreFound`, `ConnectReturns`, `HandlerEnds`, `TestIsAnswered`), which TLAPS does not reach here, as it needs fairness and
`ENABLED`; and what the findings refute.  Every invariant, every action property and both
refinements of the passing runs are proved.

## Not modelled

* The command line's and the widgets' handling of text, the tray, the log and the languages: no state that the
  rest depends on.
* `IFEOManager` and the two injector programs: straight sequences of Windows calls.  What they leave behind, a process with or
  without shared memory and hook, is in `ProcessMonitor`.
* `ProcessTracker.c`, `UdpRelay_AddSessionIPv6`, `ConnectionTracker_AddIPv6`, `GetEx` and `IsTracked`, and the hooks of
  `SocketMapper` that are not attached: nothing calls them.
* What a program makes of the socket that `ProcessConnection` has switched to blocking, and the ways past the two hooked
  calls (`ConnectEx`, pure IPv6): they go direct, which is all there is to say of them.
* The single-instance mutex of `main.cpp` and `dllmain.cpp`'s clean-up at unload.

What a next step could add: the wrap of `GetTickCount` in the caches and the sessions; the accept loop and the
UDP relay under the two packet threads that a given-up stop may leave; an abstract specification of the redirection, as `UdpSessions` is
one of the UDP relay.
