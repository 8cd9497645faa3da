------------------------------ MODULE RuleMirror ------------------------------
(***************************************************************************)
(* launcher/ProxyEngineWrapper.cpp over core/RuleEngine.c: the Qt side      *)
(* keeps its own list m_rules beside the engine's.  The wrapper is used    *)
(* from the GUI thread only, while the packet thread only reads the        *)
(* engine's list under its lock, so each wrapper call is one action that   *)
(* contains the engine's call.  The wrapper appends where the engine       *)
(* prepends.                                                               *)
(***************************************************************************)
EXTENDS RuleEngine

CONSTANT MaxMirror   \* bound: the length of m_rules

ASSUME MaxMirrorAssumption == MaxMirror \in Nat

VARIABLES
  mirror,  \* ProxyEngineWrapper::m_rules
  stale    \* history: cleanup left rules in m_rules that no clearRules took away

vars == <<rules, nextId, ready, mirror, stale>>

\* m_rules keeps the texts as they were given.
Listed == [id: Ids, body: Bodies, enabled: BOOLEAN]

Init == RuleInit /\ mirror = <<>> /\ stale = FALSE

\* Mutant: EnableRule's loop in the wrapper runs over the engine's positions.
EnableInMirrorByEngineIndex(id, enable) ==
  [mirror EXCEPT ![Position(rules, id)].enabled = enable]

\* The loops of the wrapper's own list stop at the first entry with the id.
EnableInMirror(id, enable) ==
  IF Position(mirror, id) = 0 THEN mirror
  ELSE [mirror EXCEPT ![Position(mirror, id)].enabled = enable]

RemoveFromMirror(id) ==
  IF Position(mirror, id) = 0 THEN mirror ELSE RemoveAt(mirror, Position(mirror, id))

\* m_initialized follows the engine's flag.
WrapperInit == EngineInit /\ UNCHANGED <<mirror, stale>>

\* cleanup() empties the engine's list, and leaves m_rules as it is.
WrapperCleanup ==
  /\ EngineCleanup
  /\ stale' = (stale \/ mirror # <<>>)
  /\ UNCHANGED mirror

\* A call that the engine refuses returns 0 and changes nothing.
WrapperAddRule(body) ==
  /\ Len(mirror) < MaxMirror
  /\ AddRule(body)
  /\ mirror' = Append(mirror, [id |-> nextId, body |-> body, enabled |-> TRUE])
  /\ UNCHANGED stale

WrapperRemoveRule(id) ==
  /\ RemoveRule(id)
  /\ mirror' = RemoveFromMirror(id)
  /\ UNCHANGED stale

WrapperEnableRule(id, enable) ==
  /\ EnableRule(id, enable)
  /\ mirror' = EnableInMirror(id, enable)
  /\ UNCHANGED stale

WrapperClearRules ==
  /\ ClearRules
  /\ mirror' = <<>>
  /\ stale' = FALSE

Next ==
  \/ WrapperInit
  \/ WrapperCleanup
  \/ \E body \in Bodies : WrapperAddRule(body)
  \/ \E id \in Ids : WrapperRemoveRule(id)
  \/ \E id \in Ids, enable \in BOOLEAN : WrapperEnableRule(id, enable)
  \/ WrapperClearRules

Spec == Init /\ [][Next]_vars

-------------------------------------------------------------------------------
(* Properties. *)

\* Types of the engine's list, of the id counter and of the wrapper's list.
TypeOK ==
  /\ rules \in Seq(Rule)
  /\ nextId \in 1 .. (MaxId + 1)
  /\ ready \in BOOLEAN
  /\ ready \/ rules = <<>>
  /\ mirror \in Seq(Listed)
  /\ stale \in BOOLEAN

\* Along the list the ids fall strictly, and none has been given out yet that
\* the counter has not passed: ids are unique and the head is the newest rule.
NewestFirst ==
  /\ \A i, j \in 1 .. Len(rules) : i < j => rules[i].id > rules[j].id
  /\ \A i \in 1 .. Len(rules) : rules[i].id < nextId

\* The wrapper shows exactly the engine's rules, each with its own id and
\* enabled flag and with a text that means what the engine made of it, in the
\* opposite order (m_rules.append against the prepend).  The exception: the rules
\* that a cleanup left in m_rules stay listed, though the engine's list is empty
\* and its ids start again, until clearRules is called; startWinDivertMode calls
\* it between init and its first addRule.
MirrorAgrees ==
  ~stale =>
    /\ Len(mirror) = Len(rules)
    /\ \A i \in 1 .. Len(rules) :
         rules[i] = [mirror[Len(mirror) + 1 - i] EXCEPT !.body = Stored(@)]

\* What RuleEngine_Match means to its user, said of the set of rules and not of
\* the list: the most recently added enabled rule that applies decides, a rule
\* with no filter at all only where no other one applies.
Newest(S) == CHOOSE r \in S : \A s \in S : s.id <= r.id

RuleSet == {rules[i] : i \in 1 .. Len(rules)}

MeantVerdict(flow) ==
  LET applying == {r \in RuleSet : Applies(r, flow)}
      specific == {r \in applying : ~FullyWildcard(r)}
      winner == IF specific # {} THEN Newest(specific) ELSE Newest(applying)
  IN IF applying = {} THEN [action |-> "DIRECT", proxy |-> NoProxy]
     ELSE [action |-> winner.body.action, proxy |-> winner.body.proxy]

\* RuleEngine_Match's walk down the list gives that verdict for every flow.
NewestRuleDecides ==
  \A flow \in Flow : Match(rules, flow) = MeantVerdict(flow)

\* A step that does not empty the list changes the verdict of a flow only where
\* the rule it adds, removes, enables or disables applies: RemoveRule and
\* EnableRule never disturb a neighbour in the list.
Touched == {r \in RuleSet : r \notin RuleSet'} \cup {r \in RuleSet' : r \notin RuleSet}

OnlyTouchedFlowsChange ==
  [][~(WrapperClearRules \/ WrapperCleanup) =>
       /\ \A r, s \in Touched : r.id = s.id
       /\ \A flow \in Flow :
            Match(rules', flow) # Match(rules, flow) =>
              \E r \in Touched : Applies(r, flow)]_vars
===============================================================================
