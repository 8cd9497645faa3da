------------------------------ MODULE RuleEngine ------------------------------
(***************************************************************************)
(* core/RuleEngine.c: the list of routing rules behind ProxyEngine_AddRule *)
(* and the verdict RuleEngine_Match gives for one packet.                  *)
(*                                                                         *)
(* g_rules_list is a linked list guarded by one critical section, and each *)
(* operation holds it throughout, so an operation is one action and the    *)
(* list is a sequence whose head is g_rules_list.  A pattern string is     *)
(* abstracted to what the matching code tells apart: the literal "*" (Star) *)
(* or the set of values the semicolon list matches.  A list that happens   *)
(* to match everything ("*.*.*.*", "a;*") is the full set and NOT Star: the *)
(* code recognises a wildcard rule by comparing the text with "*".  The    *)
(* text a caller gives may also be empty (Blank) or longer than the field  *)
(* strncpy copies it to: Cut is what the copied part of such a text        *)
(* matches.                                                                *)
(***************************************************************************)
EXTENDS Integers, SequencesExt

CONSTANTS
  Procs,        \* process names a packet may come from
  Hosts,        \* destination addresses
  TargetPorts,  \* destination ports
  Proxies,      \* proxy servers a rule may name
  NoProxy,      \* ProxyInfo with has_proxy = false
  Star,         \* the pattern "*"
  Blank,        \* the empty text
  Cut,          \* the over-long texts, each with the pattern left of it
  Bodies,       \* what the user may pass to AddRule
  MaxId         \* bound: the 2^32 ids of g_next_rule_id, before they wrap

Protocols == {"TCP", "UDP", "BOTH"}
Actions == {"PROXY", "DIRECT", "BLOCK"}

\* The fields of ProxyRule that AddRule fills from its arguments.
Body ==
  [process: {Star} \cup SUBSET Procs, hosts: {Star} \cup SUBSET Hosts,
   ports: {Star} \cup SUBSET TargetPorts, protocol: Protocols,
   action: Actions, proxy: Proxies \cup {NoProxy}]

\* strncpy of an argument to a field of ProxyRule.
Fitted(text) == IF text \in DOMAIN Cut THEN Cut[text] ELSE text

\* What AddRule makes of the texts it is given: no host or port means any.
Stored(body) ==
  [body EXCEPT !.process = Fitted(@),
               !.hosts = IF @ = Blank THEN Star ELSE Fitted(@),
               !.ports = IF @ = Blank THEN Star ELSE Fitted(@)]

ASSUME BodiesAssumption ==
  \A body \in Bodies : body.process # Blank => Stored(body) \in Body
ASSUME MaxIdAssumption == MaxId \in Nat
ASSUME StarAssumption ==
  \A S \in (SUBSET Procs) \cup (SUBSET Hosts) \cup (SUBSET TargetPorts) : Star # S

Ids == 1 .. MaxId
Rule == [id: Ids, body: Body, enabled: BOOLEAN]
Flow == [process: Procs, host: Hosts, port: TargetPorts, protocol: {"TCP", "UDP"}]
Verdict == [action: Actions, proxy: Proxies \cup {NoProxy}]

VARIABLES
  rules,   \* g_rules_list, head first
  nextId,  \* g_next_rule_id
  ready    \* g_initialized

ruleVars == <<rules, nextId, ready>>

-------------------------------------------------------------------------------
(* The list. *)

\* Where the loops of RemoveRule and EnableRule stop: 0 when no rule has the id.
Position(list, id) ==
  IF \E i \in 1 .. Len(list) : list[i].id = id
  THEN CHOOSE i \in 1 .. Len(list) :
         /\ list[i].id = id
         /\ \A j \in 1 .. (i - 1) : list[j].id # id
  ELSE 0

NewRule(body) == [id |-> nextId, body |-> Stored(body), enabled |-> TRUE]

\* rule->next = g_rules_list; g_rules_list = rule
LinkAtHead(body) == <<NewRule(body)>> \o rules

\* Mutant: *ptr = NULL, which drops the rest of the list with the rule.
UnlinkTruncating(i) == SubSeq(rules, 1, i - 1)

\* *ptr = (*ptr)->next
Unlink(i) == RemoveAt(rules, i)

AddRule(body) ==
  /\ ready
  /\ body.process # Blank
  /\ nextId \in Ids
  /\ rules' = LinkAtHead(body)
  /\ nextId' = nextId + 1
  /\ UNCHANGED ready

RemoveRule(id) ==
  /\ ready
  /\ Position(rules, id) # 0
  /\ rules' = Unlink(Position(rules, id))
  /\ UNCHANGED <<nextId, ready>>

EnableRule(id, enable) ==
  /\ ready
  /\ Position(rules, id) # 0
  /\ rules' = [rules EXCEPT ![Position(rules, id)].enabled = enable]
  /\ UNCHANGED <<nextId, ready>>

\* Without g_initialized it returns at once: the list is empty then anyway.
ClearRules ==
  /\ rules' = <<>>
  /\ UNCHANGED <<nextId, ready>>

\* Mutant: the first id is 0, which AddRule also returns for a failure.
EngineInitFromZero ==
  /\ ~ready
  /\ rules' = <<>>
  /\ nextId' = 0
  /\ ready' = TRUE

\* RuleEngine_Init: the ids start again with every initialisation.
EngineInit ==
  /\ ~ready
  /\ rules' = <<>>
  /\ nextId' = 1
  /\ ready' = TRUE

\* RuleEngine_Cleanup
EngineCleanup ==
  /\ ready
  /\ rules' = <<>>
  /\ ready' = FALSE
  /\ UNCHANGED nextId

\* The module's static variables before the first initialisation.
RuleInit ==
  /\ rules = <<>>
  /\ nextId = 1
  /\ ready = FALSE

-------------------------------------------------------------------------------
(* The verdict. *)

Selects(pattern, value) == pattern = Star \/ value \in pattern

ProtocolAllows(rule, flow) == rule.body.protocol \in {"BOTH", flow.protocol}

\* A "*" process with neither an address nor a port filter: the loop only
\* remembers the first of these and goes on.
FullyWildcard(rule) ==
  rule.body.process = Star /\ rule.body.hosts = Star /\ rule.body.ports = Star

Applies(rule, flow) ==
  /\ rule.enabled
  /\ ProtocolAllows(rule, flow)
  /\ Selects(rule.body.process, flow.process)
  /\ Selects(rule.body.hosts, flow.host)
  /\ Selects(rule.body.ports, flow.port)

SpecificHits(list, flow) ==
  {i \in 1 .. Len(list) : Applies(list[i], flow) /\ ~FullyWildcard(list[i])}

WildcardHits(list, flow) ==
  {i \in 1 .. Len(list) : Applies(list[i], flow) /\ FullyWildcard(list[i])}

\* Mutant: a fully wildcard rule returns at once, as any other rule does.
DecidingWithoutFallback(list, flow) ==
  LET hits == SpecificHits(list, flow) \cup WildcardHits(list, flow)
  IN IF hits # {} THEN Min(hits) ELSE 0

\* The index of the rule that decides, 0 when none does: the first specific
\* rule that applies, and only when there is none, the first fully wildcard one.
Deciding(list, flow) ==
  IF SpecificHits(list, flow) # {} THEN Min(SpecificHits(list, flow))
  ELSE IF WildcardHits(list, flow) # {} THEN Min(WildcardHits(list, flow))
  ELSE 0

Match(list, flow) ==
  IF Deciding(list, flow) = 0
  THEN [action |-> "DIRECT", proxy |-> NoProxy]
  ELSE LET body == list[Deciding(list, flow)].body
       IN [action |-> body.action, proxy |-> body.proxy]
===============================================================================
