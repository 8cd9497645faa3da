------------------------------ MODULE RuleProofs ------------------------------
(***************************************************************************)
(* Proofs about the rule list and its mirror (RuleMirror).  The inductive  *)
(* invariant is the type invariant together with the order of the ids and  *)
(* the agreement of the two lists: the order makes ids unique, which is    *)
(* what lets the searches by id in both lists find the same rule.          *)
(***************************************************************************)
EXTENDS RuleMirror, SequenceTheorems, WellFoundedInduction, TLAPS

RuleInv == TypeOK /\ NewestFirst /\ MirrorAgrees

-------------------------------------------------------------------------------
(* Lists. *)

\* What removing one element of a list leaves, and where.
LEMMA RemoveAtProperties ==
  ASSUME NEW S, NEW s \in Seq(S), NEW i \in 1 .. Len(s)
  PROVE  /\ RemoveAt(s, i) \in Seq(S)
         /\ Len(RemoveAt(s, i)) = Len(s) - 1
         /\ \A j \in 1 .. (Len(s) - 1) :
              RemoveAt(s, i)[j] = IF j < i THEN s[j] ELSE s[j + 1]
<1> DEFINE front == SubSeq(s, 1, i - 1)
           back == SubSeq(s, i + 1, Len(s))
<1>0. Len(s) \in Nat /\ \A j \in 1 .. Len(s) : s[j] \in S
  BY LenProperties, ElementOfSeq
<1>1. /\ front \in Seq(S) /\ Len(front) = i - 1
      /\ \A j \in 1 .. (i - 1) : front[j] = s[j]
  <2>1. \A j \in 1 .. (i - 1) : s[j] \in S
    BY <1>0
  <2>2. /\ front \in Seq(S)
        /\ Len(front) = IF 1 <= i - 1 THEN (i - 1) - 1 + 1 ELSE 0
        /\ \A j \in 1 .. ((i - 1) - 1 + 1) : front[j] = s[1 + j - 1]
    BY <1>0, <2>1, SubSeqProperties
  <2> QED BY <1>0, <2>2
<1>2. /\ back \in Seq(S) /\ Len(back) = Len(s) - i
      /\ \A j \in 1 .. (Len(s) - i) : back[j] = s[i + j]
  <2>1. \A j \in (i + 1) .. Len(s) : s[j] \in S
    BY <1>0
  <2>2. /\ back \in Seq(S)
        /\ Len(back) = IF i + 1 <= Len(s) THEN Len(s) - (i + 1) + 1 ELSE 0
        /\ \A j \in 1 .. (Len(s) - (i + 1) + 1) : back[j] = s[(i + 1) + j - 1]
    BY <1>0, <2>1, SubSeqProperties
  <2> QED BY <1>0, <2>2
<1>3. RemoveAt(s, i) = front \o back
  BY DEF RemoveAt
<1> HIDE DEF front, back
<1>4. /\ front \o back \in Seq(S)
      /\ Len(front \o back) = Len(front) + Len(back)
      /\ \A j \in 1 .. Len(front) + Len(back) :
           (front \o back)[j] = IF j <= Len(front) THEN front[j] ELSE back[j - Len(front)]
  BY <1>1, <1>2, ConcatProperties
<1> QED
  BY <1>0, <1>1, <1>2, <1>3, <1>4

\* A set of positions has a least one.
LEMMA MinIsLeast ==
  ASSUME NEW T \in SUBSET Nat, T # {}
  PROVE  Min(T) \in T /\ \A y \in T : Min(T) <= y
<1>1. PICK x \in T : \A y \in T : ~(<<y, x>> \in OpToRel(<, Nat))
  BY NatLessThanWellFounded, WFMin
<1>2. ASSUME NEW y \in T PROVE x <= y
  <2>1. x \in Nat /\ y \in Nat
    OBVIOUS
  <2>2. y < x => <<y, x>> \in OpToRel(<, Nat)
    BY <2>1 DEF OpToRel
  <2>3. ~(y < x)
    BY <1>1, <2>2
  <2> QED BY <2>1, <2>3
<1>3. \A z \in T : (\A y \in T : z <= y) => z = x
  BY <1>2
<1> QED
  BY <1>2, <1>3 DEF Min

\* The search by id finds the only rule that has it.
LEMMA PositionFound ==
  ASSUME NEW S, NEW list \in Seq(S), NEW i \in 1 .. Len(list), NEW id,
         list[i].id = id,
         \A j \in 1 .. Len(list) : list[j].id = id => j = i
  PROVE  Position(list, id) = i
<1> DEFINE Stops(k) == list[k].id = id /\ \A j \in 1 .. (k - 1) : list[j].id # id
<1>0. Len(list) \in Nat
  BY LenProperties
<1>1. Stops(i)
  BY <1>0
<1>2. \A k \in 1 .. Len(list) : Stops(k) => k = i
  OBVIOUS
<1>3. (CHOOSE k \in 1 .. Len(list) : Stops(k)) = i
  BY <1>1, <1>2
<1> QED
  BY <1>3 DEF Position

\* Where a search by id stops there is an element, also where several have the id.
LEMMA PositionInList ==
  ASSUME NEW S, NEW list \in Seq(S), NEW id, Position(list, id) # 0
  PROVE  Position(list, id) \in 1 .. Len(list)
<1> DEFINE T == {i \in 1 .. Len(list) : list[i].id = id}
           Stops(k) == list[k].id = id /\ \A j \in 1 .. (k - 1) : list[j].id # id
<1>0. Len(list) \in Nat
  BY LenProperties
<1>1. T \in SUBSET Nat /\ T # {}
  BY <1>0 DEF Position
<1>2. Min(T) \in T /\ \A y \in T : Min(T) <= y
  BY <1>1, MinIsLeast
<1>3. ASSUME NEW j \in 1 .. (Min(T) - 1) PROVE list[j].id # id
  <2>1. Min(T) \in 1 .. Len(list) /\ j \in 1 .. Len(list) /\ ~(Min(T) <= j)
    BY <1>0, <1>2
  <2> QED BY <1>2, <2>1
<1>4. Min(T) \in 1 .. Len(list) /\ Stops(Min(T))
  BY <1>2, <1>3
<1>5. (CHOOSE k \in 1 .. Len(list) : Stops(k)) \in 1 .. Len(list)
  BY <1>4
<1> QED
  BY <1>5 DEF Position

\* A search that succeeds stops at a rule with the id.
LEMMA PositionStops ==
  ASSUME TypeOK, NewestFirst, NEW id, Position(rules, id) # 0
  PROVE  /\ Position(rules, id) \in 1 .. Len(rules)
         /\ rules[Position(rules, id)].id = id
<1>0. Len(rules) \in Nat
  BY LenProperties DEF TypeOK
<1>1. PICK i \in 1 .. Len(rules) : rules[i].id = id
  BY DEF Position
<1>2. \A j \in 1 .. Len(rules) : rules[j] \in Rule
  BY ElementOfSeq DEF TypeOK
<1>3. \A j \in 1 .. Len(rules) : rules[j].id = id => j = i
  BY <1>0, <1>1, <1>2 DEF NewestFirst, Rule, Ids
<1>4. Position(rules, id) = i
  BY <1>1, <1>3, PositionFound DEF TypeOK
<1> QED
  BY <1>1, <1>4

\* An entry of the wrapper's list has the id and the flag of the rule it shows.
LEMMA Shown ==
  ASSUME RuleInv, ~stale
  PROVE  /\ Len(rules) \in Nat /\ Len(mirror) = Len(rules)
         /\ \A j \in 1 .. Len(rules) :
              /\ rules[j] \in Rule
              /\ mirror[j] \in Listed
              /\ mirror[j].id = rules[Len(rules) + 1 - j].id
              /\ rules[j] = [mirror[Len(rules) + 1 - j] EXCEPT !.body = Stored(@)]
<1>1. /\ Len(rules) \in Nat /\ Len(mirror) = Len(rules)
      /\ \A j \in 1 .. Len(rules) : rules[j] \in Rule /\ mirror[j] \in Listed
  BY LenProperties, ElementOfSeq DEF RuleInv, TypeOK, MirrorAgrees
<1>2. \A j \in 1 .. Len(rules) :
        rules[j] = [mirror[Len(rules) + 1 - j] EXCEPT !.body = Stored(@)]
  BY <1>1 DEF RuleInv, MirrorAgrees
<1>3. ASSUME NEW j \in 1 .. Len(rules)
      PROVE  mirror[j].id = rules[Len(rules) + 1 - j].id
  <2>1. Len(rules) + 1 - j \in 1 .. Len(rules) /\ Len(rules) + 1 - (Len(rules) + 1 - j) = j
    BY <1>1
  <2>2. rules[Len(rules) + 1 - j] = [mirror[j] EXCEPT !.body = Stored(@)]
    BY <1>2, <2>1
  <2> QED BY <1>1, <2>2 DEF Listed
<1> QED
  BY <1>1, <1>2, <1>3

\* The two lists hold a rule at opposite places.
LEMMA OppositePositions ==
  ASSUME RuleInv, ~stale, NEW id, Position(rules, id) # 0
  PROVE  /\ Len(mirror) = Len(rules)
         /\ Position(rules, id) \in 1 .. Len(rules)
         /\ Position(mirror, id) = Len(rules) + 1 - Position(rules, id)
         /\ Position(mirror, id) \in 1 .. Len(mirror)
<1> DEFINE i == Position(rules, id)
           k == Len(rules) + 1 - i
<1>0. /\ Len(rules) \in Nat /\ Len(mirror) = Len(rules)
      /\ \A j \in 1 .. Len(rules) : rules[j] \in Rule
      /\ \A j \in 1 .. Len(rules) : mirror[j].id = rules[Len(rules) + 1 - j].id
  BY Shown
<1>1. i \in 1 .. Len(rules) /\ rules[i].id = id
  BY PositionStops DEF RuleInv
<1>3. \A j \in 1 .. Len(rules) : rules[j].id = id => j = i
  BY <1>0, <1>1 DEF RuleInv, NewestFirst, Rule, Ids
<1> HIDE DEF i
<1>4. k \in 1 .. Len(mirror) /\ mirror[k].id = id
  <2>1. k \in 1 .. Len(mirror) /\ Len(rules) + 1 - k = i
    BY <1>0, <1>1
  <2> QED BY <1>0, <1>1, <2>1
<1>5. \A j \in 1 .. Len(mirror) : mirror[j].id = id => j = k
  <2> SUFFICES ASSUME NEW j \in 1 .. Len(mirror), mirror[j].id = id
               PROVE  j = k
    OBVIOUS
  <2>1. Len(rules) + 1 - j \in 1 .. Len(rules)
    BY <1>0
  <2>2. rules[Len(rules) + 1 - j].id = id
    BY <1>0
  <2>3. Len(rules) + 1 - j = i
    BY <1>3, <2>1, <2>2
  <2> QED BY <1>0, <1>1, <2>3
<1>6. Position(mirror, id) = k
  BY <1>4, <1>5, PositionFound DEF RuleInv, TypeOK
<1> QED
  BY <1>0, <1>1, <1>4, <1>6 DEF i

-------------------------------------------------------------------------------
(* The invariant. *)

LEMMA InitEstablishes == Init => RuleInv
<1> SUFFICES ASSUME Init PROVE RuleInv
  OBVIOUS
<1>1. rules = <<>> /\ mirror = <<>> /\ nextId = 1 /\ ready = FALSE /\ stale = FALSE
  BY DEF Init, RuleInit
<1>2. TypeOK
  <2>1. /\ rules \in Seq(Rule) /\ mirror \in Seq(Listed) /\ rules = <<>>
        /\ nextId \in 1 .. (MaxId + 1)
    BY <1>1, MaxIdAssumption, EmptySeq
  <2>2. ready \in BOOLEAN /\ stale \in BOOLEAN
    BY <1>1
  <2> QED BY <2>1, <2>2 DEF TypeOK
<1>3. NewestFirst /\ MirrorAgrees
  BY <1>1 DEF NewestFirst, MirrorAgrees
<1> QED
  BY <1>2, <1>3 DEF RuleInv

LEMMA BodyReplaced ==
  ASSUME NEW id, NEW body, NEW other, NEW enabled
  PROVE  [[id |-> id, body |-> body, enabled |-> enabled] EXCEPT !.body = other]
           = [id |-> id, body |-> other, enabled |-> enabled]
OBVIOUS

\* What the engine makes of a body it accepts is a rule.
LEMMA NewRuleInRule ==
  ASSUME NEW body \in Bodies, body.process # Blank, nextId \in Ids
  PROVE  NewRule(body) \in Rule /\ NewRule(body).id = nextId
<1>1. Stored(body) \in Body
  BY BodiesAssumption
<1> QED
  BY <1>1 DEF NewRule, Rule

\* The new rule is the head of the one list and the tail of the other, and its
\* id is above every other one.
LEMMA AddPreserves ==
  ASSUME RuleInv, NEW body \in Bodies, WrapperAddRule(body)
  PROVE  RuleInv'
<1> DEFINE rule == NewRule(body)
           entry == [id |-> nextId, body |-> body, enabled |-> TRUE]
<1>0. /\ rules \in Seq(Rule) /\ mirror \in Seq(Listed) /\ nextId \in Ids
      /\ Len(rules) \in Nat /\ Len(mirror) \in Nat
      /\ MaxId \in Nat
  BY LenProperties, MaxIdAssumption DEF RuleInv, TypeOK, WrapperAddRule, AddRule
<1>1. rule \in Rule /\ rule.id = nextId
  BY <1>0, NewRuleInRule DEF WrapperAddRule, AddRule
<1>e. entry \in Listed /\ rule = [entry EXCEPT !.body = Stored(@)]
  <2>1. entry \in Listed
    BY <1>0 DEF Listed
  <2>2. [entry EXCEPT !.body = Stored(body)]
          = [id |-> nextId, body |-> Stored(body), enabled |-> TRUE]
    BY BodyReplaced
  <2>3. [entry EXCEPT !.body = Stored(@)] = [entry EXCEPT !.body = Stored(body)]
    OBVIOUS
  <2> QED BY <2>1, <2>2, <2>3 DEF NewRule
<1>2. /\ rules' = <<rule>> \o rules
      /\ mirror' = Append(mirror, entry)
      /\ nextId' = nextId + 1
      /\ ready' = ready /\ stale' = stale /\ ready
  BY DEF WrapperAddRule, AddRule, LinkAtHead
<1> HIDE DEF rule, entry
<1>3. /\ rules' \in Seq(Rule) /\ Len(rules') = Len(rules) + 1
      /\ rules'[1] = rule
      /\ \A i \in 2 .. Len(rules') : rules'[i] = rules[i - 1]
  <2>1. <<rule>> \in Seq(Rule) /\ Len(<<rule>>) = 1 /\ <<rule>>[1] = rule
    BY <1>1
  <2>2. /\ <<rule>> \o rules \in Seq(Rule)
        /\ Len(<<rule>> \o rules) = Len(<<rule>>) + Len(rules)
        /\ \A i \in 1 .. Len(<<rule>>) + Len(rules) :
             (<<rule>> \o rules)[i] =
               IF i <= Len(<<rule>>) THEN <<rule>>[i] ELSE rules[i - Len(<<rule>>)]
    BY <1>0, <2>1, ConcatProperties
  <2> QED BY <1>0, <1>2, <2>1, <2>2
<1>4. /\ mirror' \in Seq(Listed) /\ Len(mirror') = Len(mirror) + 1
      /\ mirror'[Len(mirror) + 1] = entry
      /\ \A i \in 1 .. Len(mirror) : mirror'[i] = mirror[i]
  BY <1>0, <1>e, <1>2, AppendProperties
<1>5. TypeOK'
  BY <1>0, <1>2, <1>3, <1>4 DEF RuleInv, TypeOK, Ids
<1>6. NewestFirst'
  <2>1. \A i \in 1 .. Len(rules) : rules[i] \in Rule /\ rules[i].id < nextId
    BY <1>0, ElementOfSeq DEF RuleInv, NewestFirst
  <2>2. ASSUME NEW i \in 1 .. Len(rules') PROVE rules'[i].id < nextId'
    <3>0. nextId \in Nat /\ nextId' = nextId + 1
      BY <1>0, <1>2 DEF Ids
    <3>1. CASE i = 1
      BY <1>1, <1>3, <3>0, <3>1
    <3>2. CASE i # 1
      <4>1. i - 1 \in 1 .. Len(rules) /\ rules'[i] = rules[i - 1]
        BY <1>0, <1>3, <3>2
      <4>2. rules[i - 1].id < nextId /\ rules[i - 1].id \in Nat
        BY <2>1, <4>1 DEF Rule, Ids
      <4> QED BY <3>0, <4>1, <4>2
    <3> QED BY <3>1, <3>2
  <2>3. ASSUME NEW i \in 1 .. Len(rules'), NEW j \in 1 .. Len(rules'), i < j
        PROVE  rules'[i].id > rules'[j].id
    <3>1. j - 1 \in 1 .. Len(rules) /\ rules'[j] = rules[j - 1]
      BY <1>0, <1>3, <2>3
    <3>2. CASE i = 1
      BY <1>1, <1>3, <2>1, <3>1, <3>2 DEF Rule, Ids
    <3>3. CASE i # 1
      <4>1. i - 1 \in 1 .. Len(rules) /\ rules'[i] = rules[i - 1]
        BY <1>0, <1>3, <2>3, <3>3
      <4> QED BY <2>3, <3>1, <4>1 DEF RuleInv, NewestFirst
    <3> QED BY <3>2, <3>3
  <2> QED BY <2>2, <2>3 DEF NewestFirst
<1>7. MirrorAgrees'
  <2> SUFFICES ASSUME ~stale, NEW i \in 1 .. Len(rules'), Len(mirror) = Len(rules)
               PROVE  rules'[i] = [mirror'[Len(mirror') + 1 - i] EXCEPT !.body = Stored(@)]
    <3>1. ~stale => Len(mirror) = Len(rules)
      BY DEF RuleInv, MirrorAgrees
    <3> QED BY <1>2, <1>3, <1>4, <3>1 DEF MirrorAgrees
  <2>1. CASE i = 1
    <3>1. Len(mirror') + 1 - i = Len(mirror) + 1
      BY <1>0, <1>4, <2>1
    <3> QED BY <1>e, <1>3, <1>4, <2>1, <3>1
  <2>2. CASE i # 1
    <3>1. i - 1 \in 1 .. Len(rules) /\ rules'[i] = rules[i - 1]
      BY <1>0, <1>3, <2>2
    <3>2. rules[i - 1] = [mirror[Len(mirror) + 1 - (i - 1)] EXCEPT !.body = Stored(@)]
      BY <3>1 DEF RuleInv, MirrorAgrees
    <3>3. /\ Len(mirror) + 1 - (i - 1) \in 1 .. Len(mirror)
          /\ Len(mirror') + 1 - i = Len(mirror) + 1 - (i - 1)
      BY <1>0, <1>4, <3>1
    <3> QED BY <1>4, <3>1, <3>2, <3>3
  <2> QED BY <2>1, <2>2
<1> QED
  BY <1>5, <1>6, <1>7 DEF RuleInv

\* The rule vanishes from both lists; what was behind it closes up in both.
LEMMA RemovePreserves ==
  ASSUME RuleInv, NEW id \in Ids, WrapperRemoveRule(id)
  PROVE  RuleInv'
<1> DEFINE i == Position(rules, id)
           k == Position(mirror, id)
           n == Len(rules)
<1>0. Position(rules, id) # 0 /\ ready /\ ready' = ready /\ stale' = stale
  BY DEF WrapperRemoveRule, RemoveRule
<1>1. n \in Nat /\ Len(rules) = n /\ i \in 1 .. n
  BY <1>0, PositionStops, LenProperties DEF RuleInv, TypeOK
<1>a. /\ rules \in Seq(Rule) /\ mirror \in Seq(Listed)
      /\ \A j \in 1 .. n : rules[j] \in Rule
  BY <1>1, ElementOfSeq DEF RuleInv, TypeOK
<1>2. rules' = RemoveAt(rules, i) /\ nextId' = nextId
  BY DEF WrapperRemoveRule, RemoveRule, Unlink
<1>b. mirror' = IF k = 0 THEN mirror ELSE RemoveAt(mirror, k)
  BY DEF WrapperRemoveRule, RemoveFromMirror
<1>c. k # 0 => k \in 1 .. Len(mirror)
  BY <1>a, PositionInList
<1>d. ~stale => Len(mirror) = n /\ k \in 1 .. n /\ k = n + 1 - i
  BY <1>0, OppositePositions
<1> HIDE DEF i, k, n
<1>3. /\ rules' \in Seq(Rule) /\ Len(rules') = n - 1
      /\ \A j \in 1 .. (n - 1) : rules'[j] = IF j < i THEN rules[j] ELSE rules[j + 1]
  BY <1>1, <1>a, <1>2, RemoveAtProperties
<1>4. mirror' \in Seq(Listed)
  BY <1>a, <1>b, <1>c, RemoveAtProperties
<1>5. TypeOK'
  BY <1>0, <1>2, <1>3, <1>4 DEF RuleInv, TypeOK
<1>6. NewestFirst'
  <2>1. \A j \in 1 .. (n - 1) : rules'[j].id < nextId'
    BY <1>1, <1>2, <1>3 DEF RuleInv, NewestFirst
  <2>2. ASSUME NEW a \in 1 .. (n - 1), NEW b \in 1 .. (n - 1), a < b
        PROVE  rules'[a].id > rules'[b].id
    <3>1. PICK x \in 1 .. n, y \in 1 .. n :
            x < y /\ rules'[a] = rules[x] /\ rules'[b] = rules[y]
      <4>1. CASE b < i
        BY <1>1, <1>3, <2>2, <4>1
      <4>2. CASE ~(b < i)
        BY <1>1, <1>3, <2>2, <4>2
      <4> QED BY <4>1, <4>2
    <3> QED BY <1>1, <3>1 DEF RuleInv, NewestFirst
  <2> QED BY <1>3, <2>1, <2>2 DEF NewestFirst
<1>7. MirrorAgrees'
  <2> SUFFICES ASSUME ~stale PROVE MirrorAgrees'
    BY <1>0 DEF MirrorAgrees
  <2>k. Len(mirror) = n /\ k \in 1 .. n /\ k = n + 1 - i
    BY <1>d
  <2>k0. k \in 1 .. Len(mirror) /\ mirror' = RemoveAt(mirror, k)
    BY <1>1, <1>b, <2>k
  <2>m. /\ Len(mirror') = n - 1
        /\ \A j \in 1 .. (n - 1) : mirror'[j] = IF j < k THEN mirror[j] ELSE mirror[j + 1]
    BY <1>a, <2>k, <2>k0, RemoveAtProperties
  <2> SUFFICES ASSUME NEW j \in 1 .. (n - 1)
               PROVE  rules'[j] = [mirror'[n - j] EXCEPT !.body = Stored(@)]
    <3>1. Len(mirror') = Len(rules') /\ Len(rules') = n - 1
      BY <1>3, <2>m
    <3>2. \A j \in 1 .. (n - 1) : Len(mirror') + 1 - j = n - j
      BY <1>1, <3>1
    <3> QED BY <1>3, <3>1, <3>2 DEF MirrorAgrees
  <2>0. \A m \in 1 .. n : rules[m] = [mirror[n + 1 - m] EXCEPT !.body = Stored(@)]
    BY <1>1, <2>k DEF RuleInv, MirrorAgrees
  <2>1. n - j \in 1 .. (n - 1)
    BY <1>1
  <2>2. CASE j < i
    <3>1. ~(n - j < k) /\ j \in 1 .. n /\ n - j + 1 = n + 1 - j
      BY <1>1, <2>k, <2>2
    <3>2. rules'[j] = rules[j] /\ mirror'[n - j] = mirror[n - j + 1]
      BY <1>3, <2>m, <2>1, <2>2, <3>1
    <3> QED BY <2>0, <3>1, <3>2
  <2>3. CASE ~(j < i)
    <3>0. n - j < k
      BY <1>1, <2>k, <2>3
    <3>1. rules'[j] = rules[j + 1] /\ mirror'[n - j] = mirror[n - j]
      BY <1>3, <2>m, <2>1, <2>3, <3>0
    <3>2. j + 1 \in 1 .. n /\ n + 1 - (j + 1) = n - j
      BY <1>1
    <3> QED BY <2>0, <3>1, <3>2
  <2> QED BY <2>2, <2>3
<1> QED
  BY <1>5, <1>6, <1>7 DEF RuleInv

\* The flag changes at the same rule in both lists, and nothing else does.
LEMMA EnablePreserves ==
  ASSUME RuleInv, NEW id \in Ids, NEW enable \in BOOLEAN, WrapperEnableRule(id, enable)
  PROVE  RuleInv'
<1> DEFINE i == Position(rules, id)
           k == Position(mirror, id)
           n == Len(rules)
           r == [rules[i] EXCEPT !.enabled = enable]
           e == [mirror[k] EXCEPT !.enabled = enable]
<1>0. Position(rules, id) # 0 /\ ready /\ ready' = ready /\ stale' = stale
  BY DEF WrapperEnableRule, EnableRule
<1>1. n \in Nat /\ Len(rules) = n /\ i \in 1 .. n
  BY <1>0, PositionStops, LenProperties DEF RuleInv, TypeOK
<1>a. /\ rules \in Seq(Rule) /\ mirror \in Seq(Listed) /\ Len(mirror) \in Nat
      /\ \A j \in 1 .. n : rules[j] \in Rule
      /\ \A j \in 1 .. Len(mirror) : mirror[j] \in Listed
  BY <1>1, ElementOfSeq, LenProperties DEF RuleInv, TypeOK
<1>2. /\ rules' = [rules EXCEPT ![i] = r]
      /\ mirror' = IF k = 0 THEN mirror ELSE [mirror EXCEPT ![k] = e]
      /\ nextId' = nextId
  BY DEF WrapperEnableRule, EnableRule, EnableInMirror
<1>3. k # 0 => k \in 1 .. Len(mirror)
  BY <1>a, PositionInList
<1>4. r \in Rule /\ r.id = rules[i].id
  BY <1>1, <1>a DEF Rule
<1>5. k # 0 => e \in Listed
  BY <1>a, <1>3 DEF Listed
<1>b. ~stale => Len(mirror) = n /\ k \in 1 .. n /\ k = n + 1 - i
  BY <1>0, OppositePositions
<1>c. ~stale => r = [e EXCEPT !.body = Stored(@)]
  <2> SUFFICES ASSUME ~stale PROVE r = [e EXCEPT !.body = Stored(@)]
    OBVIOUS
  <2>1. /\ k \in 1 .. n /\ n + 1 - i = k /\ mirror[k] \in Listed
        /\ rules[i] = [mirror[n + 1 - i] EXCEPT !.body = Stored(@)]
    BY <1>1, <1>a, <1>b, Shown
  <2>2. rules[i] = [mirror[k] EXCEPT !.body = Stored(@)]
    BY <2>1
  <2> QED BY <2>1, <2>2 DEF Listed
<1> HIDE DEF i, k, n, r, e
<1>6. /\ rules' \in Seq(Rule) /\ Len(rules') = n
      /\ \A j \in 1 .. n : rules'[j] = IF j = i THEN r ELSE rules[j]
  BY <1>1, <1>a, <1>2, <1>4, ExceptSeq
<1>7. /\ mirror' \in Seq(Listed)
      /\ k # 0 =>
           /\ Len(mirror') = Len(mirror)
           /\ \A j \in 1 .. Len(mirror) : mirror'[j] = IF j = k THEN e ELSE mirror[j]
  BY <1>a, <1>2, <1>3, <1>5, ExceptSeq
<1>8. TypeOK'
  BY <1>0, <1>2, <1>6, <1>7 DEF RuleInv, TypeOK
<1>9. NewestFirst'
  <2>1. \A j \in 1 .. n : rules'[j].id = rules[j].id
    BY <1>4, <1>6
  <2> QED BY <1>1, <1>2, <1>6, <2>1 DEF RuleInv, NewestFirst
<1>10. MirrorAgrees'
  <2> SUFFICES ASSUME ~stale, NEW j \in 1 .. n
               PROVE  rules'[j] = [mirror'[n + 1 - j] EXCEPT !.body = Stored(@)]
    BY <1>0, <1>1, <1>6, <1>7, <1>b DEF MirrorAgrees
  <2>1. n + 1 - j \in 1 .. n /\ (j = i <=> n + 1 - j = k) /\ k # 0 /\ Len(mirror) = n
    BY <1>1, <1>b
  <2>2. rules[j] = [mirror[n + 1 - j] EXCEPT !.body = Stored(@)]
    BY Shown DEF n
  <2> QED BY <1>6, <1>7, <1>c, <2>1, <2>2
<1> QED
  BY <1>8, <1>9, <1>10 DEF RuleInv

LEMMA ClearPreserves ==
  ASSUME RuleInv, WrapperClearRules
  PROVE  RuleInv'
<1>1. /\ rules' = <<>> /\ mirror' = <<>> /\ nextId' = nextId
      /\ ready' = ready /\ stale' = FALSE
  BY DEF WrapperClearRules, ClearRules
<1>2. TypeOK'
  BY <1>1, EmptySeq DEF RuleInv, TypeOK
<1>3. NewestFirst' /\ MirrorAgrees'
  BY <1>1 DEF NewestFirst, MirrorAgrees
<1> QED
  BY <1>2, <1>3 DEF RuleInv

\* An engine that is not initialised has no rule, so a wrapper whose list is
\* not stale lists none either when the ids start again.
LEMMA EngineInitPreserves ==
  ASSUME RuleInv, WrapperInit
  PROVE  RuleInv'
<1>1. /\ ~ready /\ rules = <<>> /\ rules' = <<>> /\ nextId' = 1 /\ ready' = TRUE
      /\ mirror' = mirror /\ stale' = stale
  BY DEF RuleInv, TypeOK, WrapperInit, EngineInit
<1>2. TypeOK'
  BY <1>1, EmptySeq, MaxIdAssumption DEF RuleInv, TypeOK
<1>3. NewestFirst' /\ MirrorAgrees'
  BY <1>1 DEF RuleInv, NewestFirst, MirrorAgrees
<1> QED
  BY <1>2, <1>3 DEF RuleInv

\* A cleanup leaves nothing stale only where nothing was listed.
LEMMA CleanupPreserves ==
  ASSUME RuleInv, WrapperCleanup
  PROVE  RuleInv'
<1>1. /\ rules' = <<>> /\ nextId' = nextId /\ ready' = FALSE
      /\ mirror' = mirror /\ stale' = (stale \/ mirror # <<>>)
  BY DEF WrapperCleanup, EngineCleanup
<1>2. TypeOK'
  BY <1>1, EmptySeq DEF RuleInv, TypeOK
<1>3. NewestFirst'
  BY <1>1 DEF NewestFirst
<1>4. MirrorAgrees'
  <2>1. ASSUME ~stale' PROVE Len(mirror') = 0 /\ Len(rules') = 0
    BY <1>1, <2>1
  <2> QED BY <2>1 DEF MirrorAgrees
<1> QED
  BY <1>2, <1>3, <1>4 DEF RuleInv

LEMMA StepPreserves == RuleInv /\ [Next]_vars => RuleInv'
<1> SUFFICES ASSUME RuleInv, [Next]_vars PROVE RuleInv'
  OBVIOUS
<1>1. CASE \E body \in Bodies : WrapperAddRule(body)
  BY <1>1, AddPreserves
<1>2. CASE \E id \in Ids : WrapperRemoveRule(id)
  BY <1>2, RemovePreserves
<1>3. CASE \E id \in Ids, enable \in BOOLEAN : WrapperEnableRule(id, enable)
  BY <1>3, EnablePreserves
<1>4. CASE WrapperClearRules
  BY <1>4, ClearPreserves
<1>5. CASE WrapperInit
  BY <1>5, EngineInitPreserves
<1>6. CASE WrapperCleanup
  BY <1>6, CleanupPreserves
<1>7. CASE UNCHANGED vars
  BY <1>7 DEF vars, RuleInv, TypeOK, NewestFirst, MirrorAgrees
<1> QED
  BY <1>1, <1>2, <1>3, <1>4, <1>5, <1>6, <1>7 DEF Next

\* The rule list, the id counter and the wrapper's list have their types, ids
\* fall strictly from the head, and the wrapper shows the engine's rules in
\* reverse: for any sets of rules and any bound on the ids.
THEOREM RuleInvariance == Spec => []RuleInv
<1>1. Init => RuleInv
  BY InitEstablishes
<1>2. RuleInv /\ [Next]_vars => RuleInv'
  BY StepPreserves
<1> QED
  BY <1>1, <1>2, PTL DEF Spec

\* RuleEngine's and ProxyEngineWrapper's lists keep their types.
THEOREM TypeCorrect == Spec => []TypeOK
<1>1. RuleInv => TypeOK
  BY DEF RuleInv
<1> QED
  BY <1>1, RuleInvariance, PTL

\* AddRule links at the head, so the list stays ordered by age, newest first.
THEOREM OrderedByAge == Spec => []NewestFirst
<1>1. RuleInv => NewestFirst
  BY DEF RuleInv
<1> QED
  BY <1>1, RuleInvariance, PTL

\* ProxyEngineWrapper::m_rules drifts from the engine's list in one way only: by
\* the rules that a cleanup left in it.  Through every other sequence of init,
\* addRule, removeRule, enableRule, clearRules and cleanup the two agree.
THEOREM MirrorIsFaithful == Spec => []MirrorAgrees
<1>1. RuleInv => MirrorAgrees
  BY DEF RuleInv
<1> QED
  BY <1>1, RuleInvariance, PTL

-------------------------------------------------------------------------------
(* The verdict. *)

\* Among the rules at some positions the one at the least position is the newest.
LEMMA LeastPositionIsNewest ==
  ASSUME TypeOK, NewestFirst, NEW I \in SUBSET (1 .. Len(rules)), I # {}
  PROVE  Newest({rules[i] : i \in I}) = rules[Min(I)]
<1> DEFINE R == {rules[i] : i \in I}
           m == Min(I)
<1>0. Len(rules) \in Nat /\ \A i \in 1 .. Len(rules) : rules[i] \in Rule
  BY LenProperties, ElementOfSeq DEF TypeOK
<1>1. m \in I /\ \A i \in I : m <= i
  BY <1>0, MinIsLeast
<1> HIDE DEF m
<1>2. \A i \in I : i # m => rules[i].id < rules[m].id
  <2> SUFFICES ASSUME NEW i \in I, i # m PROVE rules[i].id < rules[m].id
    OBVIOUS
  <2>1. m < i /\ m \in 1 .. Len(rules) /\ i \in 1 .. Len(rules)
    BY <1>0, <1>1
  <2> QED BY <2>1 DEF NewestFirst
<1>3. \A i \in I : rules[i].id <= rules[m].id
  BY <1>0, <1>1, <1>2 DEF Rule, Ids
<1>4. rules[m] \in R /\ \A s \in R : s.id <= rules[m].id
  BY <1>1, <1>3
<1>5. \A r \in R : (\A s \in R : s.id <= r.id) => r = rules[m]
  <2> SUFFICES ASSUME NEW i \in I, \A s \in R : s.id <= rules[i].id
               PROVE  i = m
    OBVIOUS
  <2>1. rules[m].id <= rules[i].id
    BY <1>4
  <2>2. rules[m].id \in Int /\ rules[i].id \in Int
    BY <1>0, <1>1 DEF Rule, Ids
  <2> QED BY <1>2, <2>1, <2>2
<1> QED
  BY <1>4, <1>5 DEF Newest, m

\* On a list ordered by age, the walk of RuleEngine_Match finds the rule that
\* the set of rules means.
LEMMA WalkFindsNewest ==
  ASSUME TypeOK, NewestFirst, NEW flow \in Flow
  PROVE  Match(rules, flow) = MeantVerdict(flow)
<1> DEFINE applying == {r \in RuleSet : Applies(r, flow)}
           specific == {r \in applying : ~FullyWildcard(r)}
           S == SpecificHits(rules, flow)
           W == WildcardHits(rules, flow)
<1>0. Len(rules) \in Nat
  BY LenProperties DEF TypeOK
<1>1. /\ S \in SUBSET (1 .. Len(rules)) /\ W \in SUBSET (1 .. Len(rules))
      /\ \A i \in S \cup W : i # 0
  BY <1>0 DEF SpecificHits, WildcardHits
<1>2. specific = {rules[i] : i \in S}
  BY DEF SpecificHits, RuleSet
<1>3. applying = {rules[i] : i \in S \cup W}
  BY DEF SpecificHits, WildcardHits, RuleSet
<1> HIDE DEF applying, specific, S, W
<1>4. MeantVerdict(flow) =
        IF applying = {} THEN [action |-> "DIRECT", proxy |-> NoProxy]
        ELSE LET winner == IF specific # {} THEN Newest(specific) ELSE Newest(applying)
             IN [action |-> winner.body.action, proxy |-> winner.body.proxy]
  BY DEF MeantVerdict, applying, specific
<1>5. Deciding(rules, flow) = IF S # {} THEN Min(S) ELSE IF W # {} THEN Min(W) ELSE 0
  BY DEF Deciding, S, W
<1>6. CASE S # {}
  <2>1. Deciding(rules, flow) = Min(S) /\ Min(S) # 0
    BY <1>0, <1>1, <1>5, <1>6, MinIsLeast
  <2>2. specific # {} /\ applying # {} /\ Newest(specific) = rules[Min(S)]
    BY <1>1, <1>2, <1>3, <1>6, LeastPositionIsNewest
  <2> QED BY <1>4, <2>1, <2>2 DEF Match
<1>7. CASE S = {} /\ W # {}
  <2>1. Deciding(rules, flow) = Min(W) /\ Min(W) # 0
    BY <1>0, <1>1, <1>5, <1>7, MinIsLeast
  <2>2. specific = {} /\ applying # {} /\ Newest(applying) = rules[Min(W)]
    BY <1>1, <1>2, <1>3, <1>7, LeastPositionIsNewest
  <2> QED BY <1>4, <2>1, <2>2 DEF Match
<1>8. CASE S = {} /\ W = {}
  <2>1. Deciding(rules, flow) = 0 /\ applying = {}
    BY <1>3, <1>5, <1>8
  <2> QED BY <1>4, <2>1 DEF Match
<1> QED
  BY <1>6, <1>7, <1>8

\* RuleEngine_Match's walk, with its early returns and its wildcard fall-back,
\* always decides as the newest applicable rule does: for any rules and flows.
THEOREM VerdictIsNewest == Spec => []NewestRuleDecides
<1>1. RuleInv => NewestRuleDecides
  BY WalkFindsNewest DEF RuleInv, NewestRuleDecides
<1> QED
  BY <1>1, RuleInvariance, PTL

-------------------------------------------------------------------------------
(* What a step may change. *)

\* When only rules of one id come or go, they are all that is touched.
LEMMA TouchedHasId ==
  ASSUME NEW id,
         \A r \in RuleSet : r.id # id => r \in RuleSet',
         \A r \in RuleSet' : r.id # id => r \in RuleSet
  PROVE  \A r, s \in Touched : r.id = s.id
<1>1. \A r \in Touched : r.id = id
  BY DEF Touched
<1> QED BY <1>1

\* Every rule of the old list is behind the new head.
LEMMA AddTouchesOne ==
  ASSUME RuleInv, NEW body \in Bodies, WrapperAddRule(body)
  PROVE  \A r, s \in Touched : r.id = s.id
<1> DEFINE rule == NewRule(body)
           n == Len(rules)
<1>1. /\ rules \in Seq(Rule) /\ n \in Nat /\ rule \in Rule /\ rule.id = nextId
      /\ rules' = <<rule>> \o rules
  BY NewRuleInRule, LenProperties DEF RuleInv, TypeOK, WrapperAddRule, AddRule, LinkAtHead
<1> HIDE DEF rule
<1>2. <<rule>> \in Seq(Rule) /\ Len(<<rule>>) = 1 /\ <<rule>>[1] = rule
  BY <1>1
<1>3. /\ Len(rules') = n + 1 /\ rules'[1] = rule
      /\ \A i \in 2 .. (n + 1) : rules'[i] = rules[i - 1]
  <2>1. /\ Len(<<rule>> \o rules) = 1 + n
        /\ \A i \in 1 .. 1 + n :
             (<<rule>> \o rules)[i] = IF i <= 1 THEN <<rule>>[i] ELSE rules[i - 1]
    BY <1>1, <1>2, ConcatProperties
  <2> QED BY <1>1, <1>2, <2>1
<1>4. \A r \in RuleSet : r \in RuleSet'
  <2> SUFFICES ASSUME NEW i \in 1 .. n PROVE rules[i] \in RuleSet'
    BY DEF RuleSet
  <2>1. i + 1 \in 1 .. Len(rules') /\ rules'[i + 1] = rules[i]
    BY <1>1, <1>3
  <2> QED BY <2>1 DEF RuleSet
<1>5. \A r \in RuleSet' : r.id # nextId => r \in RuleSet
  <2> SUFFICES ASSUME NEW i \in 1 .. Len(rules'), rules'[i].id # nextId
               PROVE  rules'[i] \in RuleSet
    BY DEF RuleSet
  <2>1. i # 1
    BY <1>1, <1>3
  <2>2. i - 1 \in 1 .. n /\ rules'[i] = rules[i - 1]
    BY <1>1, <1>3, <2>1
  <2> QED BY <2>2 DEF RuleSet
<1> QED
  BY <1>4, <1>5, TouchedHasId

\* What closes up behind the removed rule is what was there.
LEMMA RemoveTouchesOne ==
  ASSUME RuleInv, NEW id \in Ids, WrapperRemoveRule(id)
  PROVE  \A r, s \in Touched : r.id = s.id
<1> DEFINE i == Position(rules, id)
           n == Len(rules)
<1>1. /\ rules \in Seq(Rule) /\ n \in Nat
      /\ i \in 1 .. n /\ rules[i].id = id /\ rules' = RemoveAt(rules, i)
  BY PositionStops, LenProperties
     DEF RuleInv, TypeOK, WrapperRemoveRule, RemoveRule, Unlink
<1> HIDE DEF i
<1>2. /\ Len(rules') = n - 1
      /\ \A j \in 1 .. (n - 1) : rules'[j] = IF j < i THEN rules[j] ELSE rules[j + 1]
  BY <1>1, RemoveAtProperties
<1>3. \A r \in RuleSet : r.id # id => r \in RuleSet'
  <2> SUFFICES ASSUME NEW j \in 1 .. n, rules[j].id # id PROVE rules[j] \in RuleSet'
    BY DEF RuleSet
  <2>1. CASE j < i
    <3>1. j \in 1 .. Len(rules') /\ rules'[j] = rules[j]
      BY <1>1, <1>2, <2>1
    <3> QED BY <3>1 DEF RuleSet
  <2>2. CASE ~(j < i)
    <3>1. i < j
      BY <1>1, <2>2
    <3>2. j - 1 \in 1 .. Len(rules') /\ rules'[j - 1] = rules[j]
      BY <1>1, <1>2, <3>1
    <3> QED BY <3>2 DEF RuleSet
  <2> QED BY <2>1, <2>2
<1>4. \A r \in RuleSet' : r \in RuleSet
  <2> SUFFICES ASSUME NEW j \in 1 .. Len(rules') PROVE rules'[j] \in RuleSet
    BY DEF RuleSet
  <2>1. j \in 1 .. n /\ j + 1 \in 1 .. n /\ rules'[j] \in {rules[j], rules[j + 1]}
    BY <1>1, <1>2
  <2> QED BY <2>1 DEF RuleSet
<1> QED
  BY <1>3, <1>4, TouchedHasId

\* A flag is changed in place.
LEMMA EnableTouchesOne ==
  ASSUME RuleInv, NEW id \in Ids, NEW enable \in BOOLEAN, WrapperEnableRule(id, enable)
  PROVE  \A r, s \in Touched : r.id = s.id
<1> DEFINE i == Position(rules, id)
           n == Len(rules)
           x == [rules[i] EXCEPT !.enabled = enable]
<1>1. /\ rules \in Seq(Rule) /\ n \in Nat /\ i \in 1 .. n /\ rules[i].id = id
      /\ \A j \in 1 .. n : rules[j] \in Rule
  BY PositionStops, LenProperties, ElementOfSeq
     DEF RuleInv, TypeOK, WrapperEnableRule, EnableRule
<1>2. rules' = [rules EXCEPT ![i] = x]
  BY DEF WrapperEnableRule, EnableRule
<1>3. x \in Rule /\ x.id = id
  BY <1>1 DEF Rule
<1> HIDE DEF i, x
<1>4. Len(rules') = n /\ \A j \in 1 .. n : rules'[j] = IF j = i THEN x ELSE rules[j]
  BY <1>1, <1>2, <1>3, ExceptSeq
<1>5. \A r \in RuleSet : r.id # id => r \in RuleSet'
  <2> SUFFICES ASSUME NEW j \in 1 .. n, rules[j].id # id PROVE rules[j] \in RuleSet'
    BY DEF RuleSet
  <2>1. j \in 1 .. Len(rules') /\ rules'[j] = rules[j]
    BY <1>1, <1>4
  <2> QED BY <2>1 DEF RuleSet
<1>6. \A r \in RuleSet' : r.id # id => r \in RuleSet
  <2> SUFFICES ASSUME NEW j \in 1 .. n, rules'[j].id # id PROVE rules'[j] \in RuleSet
    BY <1>4 DEF RuleSet
  <2>1. rules'[j] = rules[j]
    BY <1>3, <1>4
  <2> QED BY <2>1 DEF RuleSet
<1> QED
  BY <1>5, <1>6, TouchedHasId

\* There is no rule yet when the engine is initialised.
LEMMA InitTouchesNone ==
  ASSUME RuleInv, WrapperInit
  PROVE  \A r, s \in Touched : r.id = s.id
<1>1. rules = <<>> /\ rules' = <<>>
  BY DEF RuleInv, TypeOK, WrapperInit, EngineInit
<1> QED
  BY <1>1 DEF Touched, RuleSet

\* A flow to which nothing touched applies has the same rules to choose from.
LEMMA UntouchedFlowsKeep ==
  ASSUME NEW flow \in Flow, \A r \in Touched : ~Applies(r, flow)
  PROVE  MeantVerdict(flow)' = MeantVerdict(flow)
<1>1. {r \in RuleSet' : Applies(r, flow)} = {r \in RuleSet : Applies(r, flow)}
  BY DEF Touched
<1> QED
  BY <1>1 DEF MeantVerdict

\* Adding, removing, enabling or disabling one rule changes the verdict only of flows that
\* rule applies to: the list operations of RuleEngine.c disturb no neighbour of it.
THEOREM NeighboursUndisturbed == Spec => OnlyTouchedFlowsChange
<1> DEFINE A == ~(WrapperClearRules \/ WrapperCleanup) =>
                  /\ \A r, s \in Touched : r.id = s.id
                  /\ \A flow \in Flow :
                       Match(rules', flow) # Match(rules, flow) =>
                         \E r \in Touched : Applies(r, flow)
<1>1. RuleInv /\ NewestRuleDecides /\ NewestRuleDecides' /\ [Next]_vars => [A]_vars
  <2> SUFFICES ASSUME RuleInv, NewestRuleDecides, NewestRuleDecides', Next,
                      ~WrapperClearRules, ~WrapperCleanup
               PROVE  /\ \A r, s \in Touched : r.id = s.id
                      /\ \A flow \in Flow :
                           Match(rules', flow) # Match(rules, flow) =>
                             \E r \in Touched : Applies(r, flow)
    OBVIOUS
  <2>1. \A r, s \in Touched : r.id = s.id
    BY AddTouchesOne, RemoveTouchesOne, EnableTouchesOne, InitTouchesNone DEF Next
  <2>2. ASSUME NEW flow \in Flow, \A r \in Touched : ~Applies(r, flow)
        PROVE  Match(rules', flow) = Match(rules, flow)
    <3>1. MeantVerdict(flow)' = MeantVerdict(flow)
      BY <2>2, UntouchedFlowsKeep
    <3>2. Match(rules, flow) = MeantVerdict(flow)
      BY DEF NewestRuleDecides
    <3>3. Match(rules', flow) = MeantVerdict(flow)'
      BY DEF NewestRuleDecides
    <3> QED BY <3>1, <3>2, <3>3
  <2> QED BY <2>1, <2>2
<1> HIDE DEF A
<1>2. Spec => [][A]_vars
  BY <1>1, RuleInvariance, VerdictIsNewest, PTL DEF Spec
<1> QED
  BY <1>2 DEF A, OnlyTouchedFlowsChange
===============================================================================
