---------------------------- MODULE PacketDecision -----------------------------
(***************************************************************************)
(* How PacketProcessorThread (core/PacketProcessor.c) decides what to do   *)
(* with an outbound packet: decision cache, owner of the source port,      *)
(* self-exclusion, program of the owner, rule.  Each step may be answered  *)
(* from a cache while processes start, exit and reuse each other's ports   *)
(* and process ids.  Only the packet thread uses the caches, so a packet's *)
(* way through the loop is one action.                                     *)
(*                                                                         *)
(* Packets to broadcast, multicast, loopback and private addresses are     *)
(* forwarded before any of this and have no action here.  An endpoint is   *)
(* a source address and port with the protocol.                            *)
(***************************************************************************)
EXTENDS TtlCache

CONSTANTS
  Endpoints,
  Dests,
  Pids,
  Self,        \* g_current_process_id
  NoPid,       \* 0: no owner found
  Programs,
  Engine,      \* the program of Self
  Unknown,     \* the empty process name
  Rules,       \* [Programs \cup {Unknown} -> [Dests -> Actions]] that may be set
  ConnSize, ConnWindow, ConnTtl, ConnHome,
  ProcSize, ProcWindow, ProcTtl, ProcHome,
  DecSize, DecWindow, DecTtl, DecHome

\* RuleEngine_Match with the proxy resolved: PROXY without any proxy is DIRECT,
\* and so is port 53 unless g_dns_via_proxy.
Actions == {"PROXY", "DIRECT", "BLOCK"}

ASSUME DecisionAssumption ==
  /\ Self \in Pids /\ NoPid \notin Pids /\ Engine \in Programs /\ Unknown \notin Programs
  /\ Rules \subseteq [Programs \cup {Unknown} -> [Dests -> Actions]]

\* The three caches, see TtlCache.
Conn == [keys |-> Endpoints, values |-> Pids,
         size |-> ConnSize, window |-> ConnWindow, ttl |-> ConnTtl, home |-> ConnHome]
Proc == [keys |-> Pids, values |-> Programs,
         size |-> ProcSize, window |-> ProcWindow, ttl |-> ProcTtl, home |-> ProcHome]
Dec == [keys |-> Endpoints \X Dests, values |-> Actions,
        size |-> DecSize, window |-> DecWindow, ttl |-> DecTtl, home |-> DecHome]

ASSUME CachesAssumption == ProperCache(Conn) /\ ProperCache(Proc) /\ ProperCache(Dec)

VARIABLES
  owner,     \* the system's table of sockets: who has the endpoint, or NoPid
  image,     \* the program of each process, Unknown where none runs
  rule,      \* the rules in force
  conn,      \* g_connection_cache
  proc,      \* g_process_cache
  dec,       \* g_decision_cache
  quiet      \* history: ticks since the facts about an endpoint were disturbed

caches == <<conn, proc, dec>>
vars == <<owner, image, rule, conn, proc, dec, quiet>>

\* How long a cached owner or program name counts, and how long it takes until no
\* decision made with one from before a disturbance does.
IdentityTtl == IF ConnTtl > ProcTtl THEN ConnTtl ELSE ProcTtl
Settled == IdentityTtl + DecTtl - 1

Init ==
  /\ owner = [e \in Endpoints |-> NoPid]
  /\ image = [p \in Pids |-> IF p = Self THEN Engine ELSE Unknown]
  /\ rule \in Rules
  /\ conn = EmptyTable(Conn) /\ proc = EmptyTable(Proc) /\ dec = EmptyTable(Dec)
  /\ quiet = [e \in Endpoints |-> 0]

Disturbed(S) == quiet' = [e \in Endpoints |-> IF e \in S THEN 0 ELSE quiet[e]]
-------------------------------------------------------------------------------
(* Processes and their sockets. *)

OpenSocket(p, e) ==
  /\ image[p] # Unknown /\ owner[e] = NoPid
  /\ owner' = [owner EXCEPT ![e] = p]
  /\ Disturbed({e})
  /\ UNCHANGED <<image, rule, caches>>

CloseSocket(e) ==
  /\ owner[e] # NoPid
  /\ owner' = [owner EXCEPT ![e] = NoPid]
  /\ Disturbed({e})
  /\ UNCHANGED <<image, rule, caches>>

StartProcess(p, program) ==
  /\ image[p] = Unknown
  /\ image' = [image EXCEPT ![p] = program]
  /\ UNCHANGED <<owner, rule, caches, quiet>>

ExitProcess(p) ==
  /\ p # Self /\ image[p] # Unknown
  /\ image' = [image EXCEPT ![p] = Unknown]
  /\ owner' = [e \in Endpoints |-> IF owner[e] = p THEN NoPid ELSE owner[e]]
  /\ Disturbed({e \in Endpoints : owner[e] = p})
  /\ UNCHANGED <<rule, caches>>
-------------------------------------------------------------------------------
(* A packet from e to d.  found is what the system's table says of e, named what *)
(* it says of the program of a process.                                          *)

\* Mutant: whatever decision is cached is taken, PROXY and BLOCK too.
CachedAny(e, d) ==
  IF Fresh(Dec, dec, <<e, d>>) THEN Read(Dec, dec, <<e, d>>) ELSE "UNKNOWN"

\* Only a cached DIRECT counts.
Cached(e, d) ==
  IF Fresh(Dec, dec, <<e, d>>) /\ Read(Dec, dec, <<e, d>>) = "DIRECT" THEN "DIRECT" ELSE "UNKNOWN"

Pid(e, found) == IF Fresh(Conn, conn, e) THEN Read(Conn, conn, e) ELSE found

Name(p, named) ==
  IF p # NoPid /\ Fresh(Proc, proc, p) THEN Read(Proc, proc, p) ELSE named

Image(p) == IF p = NoPid THEN Unknown ELSE image[p]

\* Mutant: a hit renews the entry's time.
ConnAfterRenewing(e, found) ==
  IF Pid(e, found) = NoPid THEN AfterGet(Conn, conn, e)
  ELSE AfterSet(Conn, AfterGet(Conn, conn, e), e, Pid(e, found))

\* The entry of a hit keeps its time.
ConnAfter(e, found) ==
  IF Fresh(Conn, conn, e) \/ found = NoPid THEN AfterGet(Conn, conn, e)
  ELSE AfterSet(Conn, AfterGet(Conn, conn, e), e, found)

\* Mutant: the name is stored without looking whether there is one.
ProcAfterUnchecked(p, named) ==
  IF p = NoPid THEN proc
  ELSE IF Fresh(Proc, proc, p) THEN AfterGet(Proc, proc, p)
  ELSE AfterSet(Proc, AfterGet(Proc, proc, p), p, named)

\* PacketProcessor_GetProcessName stores a name that it found.
ProcAfter(p, named) ==
  IF p = NoPid THEN proc
  ELSE IF Fresh(Proc, proc, p) \/ named = Unknown THEN AfterGet(Proc, proc, p)
  ELSE AfterSet(Proc, AfterGet(Proc, proc, p), p, named)

\* A cached DIRECT is taken at once and changes nothing; the engine's own packets
\* are forwarded and leave no decision.
Decide(e, d, found, named) ==
  LET p == Pid(e, found)
      looked == AfterGet(Dec, dec, <<e, d>>)
  IN /\ Cached(e, d) = "UNKNOWN"
     /\ conn' = ConnAfter(e, found)
     /\ IF p = Self
        THEN dec' = looked /\ UNCHANGED proc
        ELSE /\ proc' = ProcAfter(p, named)
             /\ dec' = AfterSet(Dec, looked, <<e, d>>, rule[Name(p, named)][d])
     /\ UNCHANGED <<owner, image, rule>>

Packet(e, d) ==
  /\ Decide(e, d, owner[e], Image(Pid(e, owner[e])))
  /\ UNCHANGED quiet

\* GetExtendedTcpTable or OpenProcess fails: found or named stays empty.
PacketUnidentified(e, d) ==
  /\ \/ Decide(e, d, NoPid, Image(Pid(e, NoPid)))
     \/ Decide(e, d, owner[e], Unknown)
  /\ Disturbed({e})

Tick ==
  /\ conn' = Aged(Conn, conn) /\ proc' = Aged(Proc, proc) /\ dec' = Aged(Dec, dec)
  /\ quiet' = [e \in Endpoints |-> IF quiet[e] < Settled THEN quiet[e] + 1 ELSE quiet[e]]
  /\ UNCHANGED <<owner, image, rule>>

\* The engine is stopped, given other rules and started; the caches stay.
Restart ==
  /\ rule' \in Rules
  /\ Disturbed(Endpoints)
  /\ UNCHANGED <<owner, image, caches>>

Next ==
  \/ \E e \in Endpoints : CloseSocket(e) \/ \E p \in Pids : OpenSocket(p, e)
  \/ \E p \in Pids : ExitProcess(p) \/ \E program \in Programs : StartProcess(p, program)
  \/ \E e \in Endpoints, d \in Dests : Packet(e, d) \/ PacketUnidentified(e, d)
  \/ Tick
  \/ Restart

Spec == Init /\ [][Next]_vars
-------------------------------------------------------------------------------
(* Properties. *)

TypeOK ==
  /\ owner \in [Endpoints -> Pids \cup {NoPid}]
  /\ image \in [Pids -> Programs \cup {Unknown}]
  /\ rule \in Rules
  /\ conn \in Table(Conn) /\ proc \in Table(Proc) /\ dec \in Table(Dec)
  /\ quiet \in [Endpoints -> 0 .. Settled]

\* No cache holds a key twice or where its search does not come by: a second
\* entry would be found, stale, once the first has expired.
CachesWellPlaced ==
  WellPlaced(Conn, conn) /\ WellPlaced(Proc, proc) /\ WellPlaced(Dec, dec)

\* What the next packet gets, and what it should get.
Outcome(e, d) ==
  LET p == Pid(e, owner[e])
  IN IF Cached(e, d) # "UNKNOWN" THEN Cached(e, d)
     ELSE IF p = Self THEN "DIRECT"
     ELSE rule[Name(p, Image(p))][d]

Meant(e, d) == IF owner[e] = Self THEN "DIRECT" ELSE rule[Image(owner[e])][d]

\* However processes, ports, process ids and rules have changed and lookups have
\* failed: once an endpoint has been left alone for the connection cache's time
\* and then the decision cache's, its packets get what their process is due.
SettledDecisionsAreRight ==
  \A e \in Endpoints, d \in Dests : quiet[e] >= Settled => Outcome(e, d) = Meant(e, d)

\* A packet is never redirected or dropped on account of facts older than the
\* connection and process caches keep them: the long-lived decision cache only
\* ever lets packets through.
RedirectionIsFresh ==
  \A e \in Endpoints, d \in Dests :
    Outcome(e, d) # "DIRECT" /\ quiet[e] >= IdentityTtl => Outcome(e, d) = Meant(e, d)

\* Why: the parts of the inductive invariant.  A process that has a socket runs;
\* an entry says what is so now, or has expired, or is older than the last
\* disturbance of the endpoint.
OwnersRun == \A e \in Endpoints : owner[e] # NoPid => image[owner[e]] # Unknown

OwnersKnown ==
  \A q \in 0 .. (ConnSize - 1) : conn[q] # Free =>
    \/ conn[q].value = owner[conn[q].key]
    \/ conn[q].age = ConnTtl \/ conn[q].age >= quiet[conn[q].key]

NamesKnown ==
  \A q \in 0 .. (ProcSize - 1) : proc[q] # Free =>
    \/ proc[q].value = image[proc[q].key]
    \/ proc[q].age = ProcTtl
    \/ \A e \in Endpoints : owner[e] = proc[q].key => proc[q].age >= quiet[e]

DecisionsKnown ==
  \A q \in 0 .. (DecSize - 1) : dec[q] # Free =>
    \/ dec[q].value = Meant(dec[q].key[1], dec[q].key[2])
    \/ dec[q].age = DecTtl
    \/ dec[q].age + IdentityTtl > quiet[dec[q].key[1]]

DecisionInv ==
  /\ TypeOK /\ CachesWellPlaced
  /\ OwnersRun /\ OwnersKnown /\ NamesKnown /\ DecisionsKnown

\* What "Self-exclusion" promises: the engine's own packets, its connections to
\* the proxies among them, are never redirected to itself.
OwnTrafficForwarded ==
  \A e \in Endpoints, d \in Dests : owner[e] = Self => Outcome(e, d) = "DIRECT"
===============================================================================
