------------------------- MODULE PacketDecisionProofs -------------------------
(***************************************************************************)
(* Proofs about the decision for a packet (PacketDecision), for any number *)
(* of processes, ports and destinations, any table sizes, windows, hash    *)
(* functions and times to live; before that, about any one of the caches   *)
(* (TtlCache).                                                             *)
(***************************************************************************)
EXTENDS PacketDecision, WellFoundedInduction, TLAPS

-------------------------------------------------------------------------------
(* What the operators do, for every table and key: cited where a cache is used. *)

\* A search that finds anything stops at one of the slots that hold the key.
LEMMA MinIsMember ==
  ASSUME NEW S \in SUBSET Nat, S # {}
  PROVE  Min(S) \in S
<1>1. PICK x \in S : \A y \in S : ~(<<y, x>> \in OpToRel(<, Nat))
  BY NatLessThanWellFounded, WFMin
<1>2. ASSUME NEW y \in S PROVE x <= y
  <2>1. x \in Nat /\ y \in Nat
    OBVIOUS
  <2>2. y < x => <<y, x>> \in OpToRel(<, Nat)
    BY <2>1 DEF OpToRel
  <2>3. ~(y < x)
    BY <1>1, <2>2
  <2> QED BY <2>1, <2>3
<1>3. \A z \in S : (\A y \in S : z <= y) => z = x
  BY <1>2
<1> QED
  BY <1>2, <1>3 DEF Min

LEMMA PlacesAreSlots ==
  ASSUME NEW c, ProperCache(c), NEW k \in c.keys, NEW i \in 0 .. (c.window - 1)
  PROVE  Place(c, k, i) \in 0 .. (c.size - 1)
<1>1. c.home[k] \in Nat /\ i \in Nat /\ c.size \in Nat \ {0}
  BY DEF ProperCache
<1> QED
  BY <1>1 DEF Place

LEMMA HitHoldsKey ==
  ASSUME NEW c, ProperCache(c), NEW t, NEW k \in c.keys, Hits(c, t, k) # {}
  PROVE  /\ HitPlace(c, t, k) \in 0 .. (c.size - 1)
         /\ t[HitPlace(c, t, k)] # Free /\ t[HitPlace(c, t, k)].key = k
<1>1. Hits(c, t, k) \in SUBSET Nat
  BY DEF Hits, ProperCache
<1>2. Min(Hits(c, t, k)) \in Hits(c, t, k)
  BY <1>1, MinIsMember
<1> QED
  BY <1>2, PlacesAreSlots DEF Hits, HitPlace

\* What Get finds is an entry of that key that has not expired.
LEMMA FreshEntry ==
  ASSUME NEW c, ProperCache(c), NEW t \in Table(c), NEW k \in c.keys, Fresh(c, t, k)
  PROVE  \E p \in 0 .. (c.size - 1) :
           /\ t[p] # Free /\ t[p].key = k /\ t[p].age < c.ttl
           /\ Read(c, t, k) = t[p].value
BY HitHoldsKey DEF Fresh, Read

\* Get changes no entry; it may free a slot.
LEMMA GetOnlyFrees ==
  ASSUME NEW c, ProperCache(c), NEW t \in Table(c), NEW k \in c.keys
  PROVE  /\ AfterGet(c, t, k) \in Table(c)
         /\ \A p \in 0 .. (c.size - 1) : AfterGet(c, t, k)[p] \in {t[p], Free}
BY HitHoldsKey DEF AfterGet, Table

\* Set writes one new entry, or nothing.
LEMMA SetOnlyStores ==
  ASSUME NEW c, ProperCache(c), NEW t \in Table(c), NEW k \in c.keys, NEW v \in c.values
  PROVE  /\ AfterSet(c, t, k, v) \in Table(c)
         /\ \A p \in 0 .. (c.size - 1) :
              AfterSet(c, t, k, v)[p] \in {t[p], [key |-> k, value |-> v, age |-> 0]}
<1> DEFINE entry == [key |-> k, value |-> v, age |-> 0]
<1>1. entry \in Slot(c)
  BY DEF Slot, ProperCache
<1>2. ASSUME Vacancies(c, t, k) # {}
      PROVE  Place(c, k, Min(Vacancies(c, t, k))) \in 0 .. (c.size - 1)
  <2>1. Vacancies(c, t, k) \in SUBSET Nat /\ Vacancies(c, t, k) \subseteq 0 .. (c.window - 1)
    BY DEF Vacancies, ProperCache
  <2> QED BY <1>2, <2>1, MinIsMember, PlacesAreSlots
<1> HIDE DEF entry
<1> QED
  BY <1>1, <1>2, HitHoldsKey DEF AfterSet, Table, entry

\* A tick frees nothing and makes every entry older, up to Ttl.
LEMMA AgedEntries ==
  ASSUME NEW c, ProperCache(c), NEW t \in Table(c)
  PROVE  /\ Aged(c, t) \in Table(c)
         /\ \A p \in 0 .. (c.size - 1) :
              /\ Aged(c, t)[p] = Free <=> t[p] = Free
              /\ t[p] # Free => /\ Aged(c, t)[p].key = t[p].key
                                /\ Aged(c, t)[p].value = t[p].value
                                /\ \/ Aged(c, t)[p].age = t[p].age + 1
                                   \/ Aged(c, t)[p].age = c.ttl
<1>1. DOMAIN t = 0 .. (c.size - 1)
  BY DEF Table
<1>2. ASSUME NEW p \in 0 .. (c.size - 1), t[p] # Free
      PROVE  /\ Aged(c, t)[p] \in Slot(c)
             /\ Aged(c, t)[p].key = t[p].key /\ Aged(c, t)[p].value = t[p].value
             /\ Aged(c, t)[p].age = t[p].age + 1 \/ Aged(c, t)[p].age = c.ttl
  <2>1. t[p] \in Slot(c) /\ c.ttl \in Nat
    BY <1>2 DEF Table, ProperCache
  <2>2. Aged(c, t)[p] = IF t[p].age = c.ttl THEN t[p] ELSE [t[p] EXCEPT !.age = @ + 1]
    BY <1>1, <1>2 DEF Aged
  <2>3. CASE t[p].age = c.ttl
    BY <2>1, <2>2, <2>3
  <2>4. CASE t[p].age # c.ttl
    BY <2>1, <2>2, <2>4 DEF Slot
  <2> QED BY <2>3, <2>4
<1>3. ASSUME NEW p \in 0 .. (c.size - 1), t[p] = Free
      PROVE  Aged(c, t)[p] = Free
  BY <1>1, <1>3 DEF Aged
<1>4. Aged(c, t) = [p \in 0 .. (c.size - 1) |-> Aged(c, t)[p]]
  BY <1>1 DEF Aged
<1>5. \A p \in 0 .. (c.size - 1) : Aged(c, t)[p] \in Slot(c) \cup {Free}
  BY <1>2, <1>3
<1>6. Aged(c, t) \in Table(c)
  BY <1>4, <1>5 DEF Table
<1> QED
  BY <1>2, <1>3, <1>6 DEF ProperCache

\* No operation puts a key into a second slot or out of its window.
LEMMA EmptyWellPlaced == \A c : WellPlaced(c, EmptyTable(c))
BY DEF WellPlaced, EmptyTable

LEMMA GetWellPlaced ==
  ASSUME NEW c, ProperCache(c), NEW t \in Table(c), NEW k \in c.keys, WellPlaced(c, t)
  PROVE  WellPlaced(c, AfterGet(c, t, k))
<1>1. DOMAIN t = 0 .. (c.size - 1) /\ DOMAIN AfterGet(c, t, k) = 0 .. (c.size - 1)
  BY GetOnlyFrees DEF Table
<1>2. \A p \in 0 .. (c.size - 1) : AfterGet(c, t, k)[p] \in {t[p], Free}
  BY GetOnlyFrees
<1> QED
  BY <1>1, <1>2 DEF WellPlaced

\* Set puts no key into two slots or outside its window, although it stores into the first
\* free slot of the window and an expired entry of the key may stand behind it.
LEMMA SetWellPlaced ==
  ASSUME NEW c, ProperCache(c), NEW t \in Table(c), NEW k \in c.keys, NEW v \in c.values,
         WellPlaced(c, t)
  PROVE  WellPlaced(c, AfterSet(c, t, k, v))
<1> DEFINE entry == [key |-> k, value |-> v, age |-> 0]
           u == AfterSet(c, t, k, v)
<1>1. DOMAIN t = 0 .. (c.size - 1) /\ DOMAIN u = 0 .. (c.size - 1)
  BY SetOnlyStores DEF Table
<1>2. u = t \/ \E q \in 0 .. (c.size - 1) :
        /\ u = [t EXCEPT ![q] = entry]
        /\ \E i \in 0 .. (c.window - 1) : q = Place(c, k, i)
        /\ \A p \in 0 .. (c.size - 1) : p # q /\ t[p] # Free => t[p].key # k
  <2>1. CASE Hits(c, t, k) # {}
    <3> DEFINE q == HitPlace(c, t, k)
    <3>1. /\ q \in 0 .. (c.size - 1) /\ t[q] # Free /\ t[q].key = k
      BY <2>1, HitHoldsKey
    <3>2. u = [t EXCEPT ![q] = entry]
      BY <2>1 DEF AfterSet
    <3>3. \E i \in 0 .. (c.window - 1) : q = Place(c, k, i)
      BY <1>1, <3>1 DEF WellPlaced
    <3>4. \A p \in 0 .. (c.size - 1) : p # q /\ t[p] # Free => t[p].key # k
      BY <1>1, <3>1 DEF WellPlaced
    <3> QED BY <3>1, <3>2, <3>3, <3>4
  <2>2. CASE Hits(c, t, k) = {} /\ Vacancies(c, t, k) # {}
    <3> DEFINE i == Min(Vacancies(c, t, k))
               q == Place(c, k, i)
    <3>1. Vacancies(c, t, k) \in SUBSET Nat /\ Vacancies(c, t, k) \subseteq 0 .. (c.window - 1)
      BY DEF Vacancies, ProperCache
    <3>2. i \in 0 .. (c.window - 1)
      BY <2>2, <3>1, MinIsMember
    <3>3. q \in 0 .. (c.size - 1)
      BY <3>2, PlacesAreSlots
    <3>4. u = [t EXCEPT ![q] = entry]
      BY <2>2 DEF AfterSet
    <3>5. \A p \in 0 .. (c.size - 1) : t[p] # Free => t[p].key # k
      BY <1>1, <2>2 DEF WellPlaced, Hits
    <3> QED BY <3>2, <3>3, <3>4, <3>5
  <2>3. CASE Hits(c, t, k) = {} /\ Vacancies(c, t, k) = {}
    BY <2>3 DEF AfterSet
  <2> QED BY <2>1, <2>2, <2>3
<1>3. entry.key = k
  OBVIOUS
<1> HIDE DEF entry, u
<1>4. CASE u = t
  BY <1>4 DEF u
<1>5. ASSUME NEW q \in 0 .. (c.size - 1), u = [t EXCEPT ![q] = entry],
             \E i \in 0 .. (c.window - 1) : q = Place(c, k, i),
             \A p \in 0 .. (c.size - 1) : p # q /\ t[p] # Free => t[p].key # k
      PROVE  WellPlaced(c, u)
  <2>1. u[q] = entry /\ \A p \in 0 .. (c.size - 1) : p # q => u[p] = t[p]
    BY <1>1, <1>5
  <2>2. \A p, r \in DOMAIN u : p # r /\ u[p] # Free /\ u[r] # Free => u[p].key # u[r].key
    BY <1>1, <1>3, <1>5, <2>1 DEF WellPlaced
  <2>3. \A p \in DOMAIN u :
          u[p] # Free => \E i \in 0 .. (c.window - 1) : p = Place(c, u[p].key, i)
    BY <1>1, <1>3, <1>5, <2>1 DEF WellPlaced
  <2> QED BY <2>2, <2>3 DEF WellPlaced
<1> QED
  BY <1>2, <1>4, <1>5 DEF u

LEMMA AgedWellPlaced ==
  ASSUME NEW c, ProperCache(c), NEW t \in Table(c), WellPlaced(c, t)
  PROVE  WellPlaced(c, Aged(c, t))
<1>1. DOMAIN t = 0 .. (c.size - 1) /\ DOMAIN Aged(c, t) = 0 .. (c.size - 1)
  BY AgedEntries DEF Table
<1>2. \A p \in 0 .. (c.size - 1) :
        (Aged(c, t)[p] = Free <=> t[p] = Free) /\ (t[p] # Free => Aged(c, t)[p].key = t[p].key)
  BY AgedEntries
<1> QED
  BY <1>1, <1>2 DEF WellPlaced
-------------------------------------------------------------------------------
(* The three caches. *)

LEMMA Shapes ==
  /\ Conn.keys = Endpoints /\ Conn.values = Pids /\ Conn.size = ConnSize /\ Conn.ttl = ConnTtl
  /\ Proc.keys = Pids /\ Proc.values = Programs /\ Proc.size = ProcSize /\ Proc.ttl = ProcTtl
  /\ Dec.keys = Endpoints \X Dests /\ Dec.values = Actions /\ Dec.size = DecSize
  /\ Dec.ttl = DecTtl
BY DEF Conn, Proc, Dec

(* Times to live. *)

LEMMA Times ==
  /\ ConnTtl \in Nat \ {0} /\ ProcTtl \in Nat \ {0} /\ DecTtl \in Nat \ {0}
  /\ IdentityTtl \in Nat \ {0} /\ IdentityTtl >= ConnTtl /\ IdentityTtl >= ProcTtl
  /\ Settled \in Nat /\ Settled = IdentityTtl + DecTtl - 1
<1>1. ConnTtl \in Nat \ {0} /\ ProcTtl \in Nat \ {0} /\ DecTtl \in Nat \ {0}
  BY CachesAssumption, Shapes DEF ProperCache
<1> QED
  BY <1>1 DEF IdentityTtl, Settled

\* The types of the entries of the three tables.
LEMMA Entries ==
  ASSUME TypeOK
  PROVE  /\ \A q \in 0 .. (ConnSize - 1) : conn[q] # Free =>
              /\ conn[q].key \in Endpoints /\ conn[q].value \in Pids
              /\ conn[q].age \in Nat /\ conn[q].age <= ConnTtl
         /\ \A q \in 0 .. (ProcSize - 1) : proc[q] # Free =>
              /\ proc[q].key \in Pids /\ proc[q].value \in Programs
              /\ proc[q].age \in Nat /\ proc[q].age <= ProcTtl
         /\ \A q \in 0 .. (DecSize - 1) : dec[q] # Free =>
              /\ dec[q].key \in Endpoints \X Dests /\ dec[q].value \in Actions
              /\ dec[q].age \in Nat /\ dec[q].age <= DecTtl
<1>1. /\ \A q \in 0 .. (ConnSize - 1) : conn[q] # Free => conn[q] \in Slot(Conn)
      /\ \A q \in 0 .. (ProcSize - 1) : proc[q] # Free => proc[q] \in Slot(Proc)
      /\ \A q \in 0 .. (DecSize - 1) : dec[q] # Free => dec[q] \in Slot(Dec)
  BY Shapes DEF TypeOK, Table
<1> QED
  BY <1>1, Times, Shapes DEF Slot

-------------------------------------------------------------------------------
(* One packet. *)

\* Once the identity caches have had time to forget, they say what is so.
LEMMA IdentifiedRightly ==
  ASSUME DecisionInv, NEW e \in Endpoints, quiet[e] >= IdentityTtl
  PROVE  /\ Pid(e, owner[e]) = owner[e]
         /\ Name(owner[e], Image(owner[e])) = Image(owner[e])
<1>1. quiet[e] \in Nat
  BY Times DEF DecisionInv, TypeOK
<1>2. Pid(e, owner[e]) = owner[e]
  <2>1. CASE Fresh(Conn, conn, e)
    <3>1. PICK q \in 0 .. (ConnSize - 1) :
            /\ conn[q] # Free /\ conn[q].key = e /\ conn[q].age < ConnTtl
            /\ Read(Conn, conn, e) = conn[q].value
      BY <2>1, CachesAssumption, FreshEntry, Shapes DEF DecisionInv, TypeOK
    <3>2. conn[q].age \in Nat /\ ~(conn[q].age >= quiet[e]) /\ conn[q].age # ConnTtl
      BY <1>1, <3>1, Times, Entries DEF DecisionInv
    <3>3. conn[q].value = owner[e]
      BY <3>1, <3>2 DEF DecisionInv, OwnersKnown
    <3> QED BY <2>1, <3>1, <3>3 DEF Pid
  <2>2. CASE ~Fresh(Conn, conn, e)
    BY <2>2 DEF Pid
  <2> QED BY <2>1, <2>2
<1>3. Name(owner[e], Image(owner[e])) = Image(owner[e])
  <2>1. CASE owner[e] # NoPid /\ Fresh(Proc, proc, owner[e])
    <3>0. owner[e] \in Pids
      BY <2>1 DEF DecisionInv, TypeOK
    <3>1. PICK q \in 0 .. (ProcSize - 1) :
            /\ proc[q] # Free /\ proc[q].key = owner[e] /\ proc[q].age < ProcTtl
            /\ Read(Proc, proc, owner[e]) = proc[q].value
      BY <2>1, <3>0, CachesAssumption, FreshEntry, Shapes DEF DecisionInv, TypeOK
    <3>2. proc[q].age \in Nat /\ ~(proc[q].age >= quiet[e]) /\ proc[q].age # ProcTtl
      BY <1>1, <3>1, Times, Entries DEF DecisionInv
    <3>3. proc[q].value = image[owner[e]]
      BY <3>1, <3>2 DEF DecisionInv, NamesKnown
    <3> QED BY <2>1, <3>1, <3>3 DEF Name, Image
  <2>2. CASE ~(owner[e] # NoPid /\ Fresh(Proc, proc, owner[e]))
    BY <2>2 DEF Name
  <2> QED BY <2>1, <2>2
<1> QED
  BY <1>2, <1>3

\* The names and verdicts a packet may get are of the right kind.
LEMMA LookedUp ==
  ASSUME TypeOK, NEW e \in Endpoints, NEW d \in Dests,
         NEW found \in Pids \cup {NoPid}
  PROVE  LET p == Pid(e, found) IN
         /\ p \in Pids \cup {NoPid}
         /\ Image(p) \in Programs \cup {Unknown}
         /\ \A named \in Programs \cup {Unknown} :
              /\ Name(p, named) \in Programs \cup {Unknown}
              /\ rule[Name(p, named)][d] \in Actions
<1> DEFINE p == Pid(e, found)
<1>1. p \in Pids \cup {NoPid}
  <2>1. Fresh(Conn, conn, e) => Read(Conn, conn, e) \in Pids
    BY CachesAssumption, FreshEntry, Entries, Shapes DEF TypeOK
  <2> QED BY <2>1 DEF Pid
<1> HIDE DEF p
<1>2. Image(p) \in Programs \cup {Unknown}
  BY <1>1 DEF Image, TypeOK
<1>3. ASSUME NEW named \in Programs \cup {Unknown}
      PROVE  Name(p, named) \in Programs \cup {Unknown}
  <2>1. p \in Pids /\ Fresh(Proc, proc, p) => Read(Proc, proc, p) \in Programs
    BY CachesAssumption, FreshEntry, Entries, Shapes DEF TypeOK
  <2> QED BY <1>1, <2>1 DEF Name
<1>4. rule \in [Programs \cup {Unknown} -> [Dests -> Actions]]
  BY DecisionAssumption DEF TypeOK
<1> QED
  BY <1>1, <1>2, <1>3, <1>4 DEF p

\* What one packet leaves in the tables: what was there, or an entry of age 0 that
\* says what the lookup gave.
LEMMA Decided ==
  ASSUME TypeOK, CachesWellPlaced, NEW e \in Endpoints, NEW d \in Dests,
         NEW found \in {NoPid, owner[e]},
         NEW named \in {Unknown, Image(Pid(e, found))}, Decide(e, d, found, named)
  PROVE  /\ UNCHANGED <<owner, image, rule>>
         /\ conn' \in Table(Conn) /\ proc' \in Table(Proc) /\ dec' \in Table(Dec)
         /\ CachesWellPlaced'
         /\ \A q \in 0 .. (ConnSize - 1) : conn'[q] # Free =>
              \/ conn'[q] = conn[q]
              \/ conn'[q] = [key |-> e, value |-> owner[e], age |-> 0]
         /\ \A q \in 0 .. (ProcSize - 1) : proc'[q] # Free =>
              \/ proc'[q] = proc[q]
              \/ proc'[q].value = image[proc'[q].key]
         /\ \A q \in 0 .. (DecSize - 1) : dec'[q] # Free =>
              \/ dec'[q] = dec[q]
              \/ /\ Pid(e, found) # Self
                 /\ dec'[q] = [key |-> <<e, d>>,
                               value |-> rule[Name(Pid(e, found), named)][d], age |-> 0]
<1> DEFINE p == Pid(e, found)
           verdict == rule[Name(p, named)][d]
<1>1. found \in Pids \cup {NoPid}
  BY DEF TypeOK
<1>2. /\ p \in Pids \cup {NoPid}
      /\ named \in Programs \cup {Unknown}
      /\ verdict \in Actions
  BY <1>1, LookedUp
<1>3. /\ conn \in Table(Conn) /\ proc \in Table(Proc) /\ dec \in Table(Dec)
      /\ ProperCache(Conn) /\ ProperCache(Proc) /\ ProperCache(Dec)
      /\ WellPlaced(Conn, conn) /\ WellPlaced(Proc, proc) /\ WellPlaced(Dec, dec)
  BY CachesAssumption DEF TypeOK, CachesWellPlaced
<1>4. /\ conn' \in Table(Conn) /\ WellPlaced(Conn, conn')
      /\ \A q \in 0 .. (ConnSize - 1) :
           conn'[q] \in {conn[q], Free, [key |-> e, value |-> owner[e], age |-> 0]}
  <2> DEFINE got == AfterGet(Conn, conn, e)
  <2>1. /\ got \in Table(Conn) /\ WellPlaced(Conn, got)
        /\ \A q \in 0 .. (ConnSize - 1) : got[q] \in {conn[q], Free}
    BY <1>3, GetOnlyFrees, GetWellPlaced, Shapes
  <2> HIDE DEF got
  <2>2. CASE conn' = got
    BY <2>1, <2>2
  <2>3. CASE found # NoPid /\ conn' = AfterSet(Conn, got, e, found)
    <3>1. found \in Pids /\ found = owner[e]
      BY <1>1, <2>3
    <3>2. /\ conn' \in Table(Conn) /\ WellPlaced(Conn, conn')
          /\ \A q \in 0 .. (ConnSize - 1) :
               conn'[q] \in {got[q], [key |-> e, value |-> found, age |-> 0]}
      BY <1>3, <2>1, <2>3, <3>1, SetOnlyStores, SetWellPlaced, Shapes
    <3> QED BY <2>1, <3>1, <3>2
  <2>4. conn' = ConnAfter(e, found)
    BY DEF Decide
  <2> QED BY <2>2, <2>3, <2>4 DEF ConnAfter, got
<1>5. /\ proc' \in Table(Proc) /\ WellPlaced(Proc, proc')
      /\ \A q \in 0 .. (ProcSize - 1) : proc'[q] # Free =>
           proc'[q] = proc[q] \/ proc'[q].value = image[proc'[q].key]
  <2> DEFINE got == AfterGet(Proc, proc, p)
  <2>1. p # NoPid => /\ got \in Table(Proc) /\ WellPlaced(Proc, got)
                     /\ \A q \in 0 .. (ProcSize - 1) : got[q] \in {proc[q], Free}
    BY <1>2, <1>3, GetOnlyFrees, GetWellPlaced, Shapes
  <2> HIDE DEF got, p
  <2>2. CASE proc' = proc
    BY <1>3, <2>2
  <2>3. CASE p # NoPid /\ proc' = got
    BY <2>1, <2>3
  <2>4. CASE p # NoPid /\ named # Unknown /\ proc' = AfterSet(Proc, got, p, named)
    <3>1. p \in Pids /\ named \in Programs /\ named = image[p]
      BY <1>2, <2>4 DEF Image, p
    <3>2. /\ proc' \in Table(Proc) /\ WellPlaced(Proc, proc')
          /\ \A q \in 0 .. (ProcSize - 1) :
               proc'[q] \in {got[q], [key |-> p, value |-> named, age |-> 0]}
      BY <1>3, <2>1, <2>4, <3>1, SetOnlyStores, SetWellPlaced, Shapes
    <3> QED BY <2>1, <2>4, <3>1, <3>2
  <2>5. proc' = proc \/ proc' = ProcAfter(p, named)
    BY DEF Decide, p
  <2> QED BY <2>2, <2>3, <2>4, <2>5 DEF ProcAfter, got
<1>6. /\ dec' \in Table(Dec) /\ WellPlaced(Dec, dec')
      /\ \A q \in 0 .. (DecSize - 1) : dec'[q] # Free =>
           \/ dec'[q] = dec[q]
           \/ p # Self /\ dec'[q] = [key |-> <<e, d>>, value |-> verdict, age |-> 0]
  <2> DEFINE got == AfterGet(Dec, dec, <<e, d>>)
  <2>0. <<e, d>> \in Endpoints \X Dests
    OBVIOUS
  <2>1. /\ got \in Table(Dec) /\ WellPlaced(Dec, got)
        /\ \A q \in 0 .. (DecSize - 1) : got[q] \in {dec[q], Free}
    BY <1>3, <2>0, GetOnlyFrees, GetWellPlaced, Shapes
  <2> HIDE DEF got, p, verdict
  <2>2. CASE dec' = got
    BY <2>1, <2>2
  <2>3. CASE p # Self /\ dec' = AfterSet(Dec, got, <<e, d>>, verdict)
    <3>1. /\ dec' \in Table(Dec) /\ WellPlaced(Dec, dec')
          /\ \A q \in 0 .. (DecSize - 1) :
               dec'[q] \in {got[q], [key |-> <<e, d>>, value |-> verdict, age |-> 0]}
      BY <1>2, <1>3, <2>0, <2>1, <2>3, SetOnlyStores, SetWellPlaced, Shapes
    <3> QED BY <2>1, <2>3, <3>1
  <2> QED BY <2>2, <2>3 DEF Decide, got, p, verdict
<1>7. CachesWellPlaced'
  BY <1>4, <1>5, <1>6 DEF CachesWellPlaced, WellPlaced, Place
<1>8. UNCHANGED <<owner, image, rule>>
  BY DEF Decide
<1> HIDE DEF p, verdict
<1> QED
  BY <1>4, <1>5, <1>6, <1>7, <1>8 DEF p, verdict
-------------------------------------------------------------------------------
(* The invariant holds at first, and each action keeps it. *)

LEMMA DecisionInit == Init => DecisionInv
<1> SUFFICES ASSUME Init PROVE DecisionInv
  OBVIOUS
<1>1. /\ EmptyTable(Conn) \in Table(Conn) /\ EmptyTable(Proc) \in Table(Proc)
      /\ EmptyTable(Dec) \in Table(Dec)
  BY DEF EmptyTable, Table
<1>2. TypeOK
  BY <1>1, DecisionAssumption, Times DEF Init, TypeOK
<1>3. CachesWellPlaced
  BY EmptyWellPlaced DEF Init, CachesWellPlaced
<1>4. OwnersRun
  BY DEF Init, OwnersRun
<1>5. OwnersKnown /\ NamesKnown /\ DecisionsKnown
  BY Shapes DEF Init, OwnersKnown, NamesKnown, DecisionsKnown, EmptyTable
<1> QED
  BY <1>2, <1>3, <1>4, <1>5 DEF DecisionInv

\* Whatever the outside does, the tables stay right if it disturbs every endpoint of
\* which it changes the owner, that owner's program or the rules.
LEMMA TablesUntouched ==
  ASSUME DecisionInv, TypeOK', OwnersRun', UNCHANGED caches,
         \A e \in Endpoints :
           \/ quiet'[e] = 0
           \/ /\ quiet'[e] = quiet[e] /\ owner'[e] = owner[e] /\ rule' = rule
              /\ owner[e] # NoPid => image'[owner[e]] = image[owner[e]],
         \A p \in Pids :
           image'[p] = image[p] \/ \A e \in Endpoints : owner'[e] = p => quiet'[e] = 0
  PROVE  DecisionInv'
<1>1. CachesWellPlaced'
  BY DEF DecisionInv, CachesWellPlaced, caches, WellPlaced, Place
<1>2. OwnersKnown'
  BY Entries DEF DecisionInv, OwnersKnown, caches
<1>3. NamesKnown'
  <2> SUFFICES ASSUME NEW q \in 0 .. (ProcSize - 1), proc[q] # Free
               PROVE  \/ proc[q].value = image'[proc[q].key]
                      \/ proc[q].age = ProcTtl
                      \/ \A e \in Endpoints : owner'[e] = proc[q].key => proc[q].age >= quiet'[e]
    BY DEF NamesKnown, caches
  <2>1. proc[q].key \in Pids /\ proc[q].age \in Nat
    BY Entries DEF DecisionInv
  <2>2. CASE image'[proc[q].key] = image[proc[q].key]
    BY <2>1, <2>2 DEF DecisionInv, NamesKnown
  <2>3. CASE \A e \in Endpoints : owner'[e] = proc[q].key => quiet'[e] = 0
    BY <2>1, <2>3
  <2> QED BY <2>1, <2>2, <2>3
<1>4. DecisionsKnown'
  <2> SUFFICES ASSUME NEW q \in 0 .. (DecSize - 1), dec[q] # Free
               PROVE  \/ dec[q].value = Meant(dec[q].key[1], dec[q].key[2])'
                      \/ dec[q].age = DecTtl
                      \/ dec[q].age + IdentityTtl > quiet'[dec[q].key[1]]
    BY DEF DecisionsKnown, caches
  <2> DEFINE e == dec[q].key[1]
  <2>1. e \in Endpoints /\ dec[q].age \in Nat
    BY Entries DEF DecisionInv
  <2>2. CASE quiet'[e] = 0
    BY <2>1, <2>2, Times
  <2>3. CASE /\ quiet'[e] = quiet[e] /\ owner'[e] = owner[e] /\ rule' = rule
             /\ owner[e] # NoPid => image'[owner[e]] = image[owner[e]]
    <3>1. Meant(e, dec[q].key[2])' = Meant(e, dec[q].key[2])
      BY <2>3 DEF Meant, Image, caches
    <3> QED BY <2>3, <3>1 DEF DecisionInv, DecisionsKnown
  <2> QED BY <2>1, <2>2, <2>3
<1> QED
  BY <1>1, <1>2, <1>3, <1>4 DEF DecisionInv

LEMMA OpenSocketKeeps ==
  ASSUME DecisionInv, NEW p \in Pids, NEW e \in Endpoints, OpenSocket(p, e)
  PROVE  DecisionInv'
<1>1. /\ UNCHANGED caches /\ image' = image /\ rule' = rule
      /\ \A f \in Endpoints : f # e => owner'[f] = owner[f] /\ quiet'[f] = quiet[f]
      /\ owner'[e] = p /\ quiet'[e] = 0
  BY DEF OpenSocket, Disturbed, DecisionInv, TypeOK
<1>2. TypeOK'
  BY Times DEF OpenSocket, Disturbed, DecisionInv, TypeOK, caches
<1>3. OwnersRun'
  BY <1>1 DEF OpenSocket, DecisionInv, OwnersRun
<1> QED
  BY <1>1, <1>2, <1>3, TablesUntouched

LEMMA CloseSocketKeeps ==
  ASSUME DecisionInv, NEW e \in Endpoints, CloseSocket(e)
  PROVE  DecisionInv'
<1>1. /\ UNCHANGED caches /\ image' = image /\ rule' = rule
      /\ \A f \in Endpoints : f # e => owner'[f] = owner[f] /\ quiet'[f] = quiet[f]
      /\ owner'[e] = NoPid /\ quiet'[e] = 0
  BY DEF CloseSocket, Disturbed, DecisionInv, TypeOK
<1>2. TypeOK'
  BY Times DEF CloseSocket, Disturbed, DecisionInv, TypeOK, caches
<1>3. OwnersRun'
  BY <1>1 DEF DecisionInv, OwnersRun
<1> QED
  BY <1>1, <1>2, <1>3, TablesUntouched

LEMMA StartProcessKeeps ==
  ASSUME DecisionInv, NEW p \in Pids, NEW program \in Programs, StartProcess(p, program)
  PROVE  DecisionInv'
<1>1. /\ UNCHANGED caches /\ owner' = owner /\ rule' = rule /\ quiet' = quiet
      /\ \A r \in Pids : r # p => image'[r] = image[r]
      /\ image'[p] = program /\ image[p] = Unknown
  BY DEF StartProcess, DecisionInv, TypeOK
<1>2. \A e \in Endpoints : owner[e] # p /\ (owner[e] # NoPid => owner[e] \in Pids)
  BY <1>1, DecisionAssumption DEF DecisionInv, OwnersRun, TypeOK
<1>3. TypeOK'
  BY DEF StartProcess, DecisionInv, TypeOK, caches
<1>4. OwnersRun'
  BY <1>1, <1>2 DEF DecisionInv, OwnersRun
<1> QED
  BY <1>1, <1>2, <1>3, <1>4, TablesUntouched

LEMMA ExitProcessKeeps ==
  ASSUME DecisionInv, NEW p \in Pids, ExitProcess(p)
  PROVE  DecisionInv'
<1>1. /\ UNCHANGED caches /\ rule' = rule
      /\ \A r \in Pids : r # p => image'[r] = image[r]
      /\ \A e \in Endpoints :
           IF owner[e] = p THEN owner'[e] = NoPid /\ quiet'[e] = 0
           ELSE owner'[e] = owner[e] /\ quiet'[e] = quiet[e]
  BY DEF ExitProcess, Disturbed, DecisionInv, TypeOK
<1>2. \A e \in Endpoints :
        owner'[e] # p /\ (owner[e] # NoPid => owner[e] \in Pids)
  BY <1>1, DecisionAssumption DEF DecisionInv, TypeOK
<1>3. TypeOK'
  BY Times DEF ExitProcess, Disturbed, DecisionInv, TypeOK, caches
<1>4. OwnersRun'
  BY <1>1, <1>2 DEF DecisionInv, OwnersRun
<1> QED
  BY <1>1, <1>2, <1>3, <1>4, TablesUntouched

LEMMA RestartKeeps ==
  ASSUME DecisionInv, Restart
  PROVE  DecisionInv'
<1>1. /\ UNCHANGED caches /\ owner' = owner /\ image' = image
      /\ \A e \in Endpoints : quiet'[e] = 0
  BY DEF Restart, Disturbed
<1>2. TypeOK'
  BY Times DEF Restart, Disturbed, DecisionInv, TypeOK, caches
<1>3. OwnersRun'
  BY <1>1 DEF DecisionInv, OwnersRun
<1> QED
  BY <1>1, <1>2, <1>3, TablesUntouched

\* A packet whose owner and program were found: what is stored says what is so, or the
\* endpoint was disturbed too recently for the identity caches to have forgotten.
LEMMA PacketKeeps ==
  ASSUME DecisionInv, NEW e \in Endpoints, NEW d \in Dests, Packet(e, d)
  PROVE  DecisionInv'
<1> DEFINE p == Pid(e, owner[e])
           verdict == rule[Name(p, Image(p))][d]
<1>1. TypeOK /\ CachesWellPlaced
  BY DEF DecisionInv
<1>2. /\ UNCHANGED <<owner, image, rule, quiet>>
      /\ conn' \in Table(Conn) /\ proc' \in Table(Proc) /\ dec' \in Table(Dec)
      /\ CachesWellPlaced'
      /\ \A q \in 0 .. (ConnSize - 1) : conn'[q] # Free =>
           \/ conn'[q] = conn[q]
           \/ conn'[q] = [key |-> e, value |-> owner[e], age |-> 0]
      /\ \A q \in 0 .. (ProcSize - 1) : proc'[q] # Free =>
           proc'[q] = proc[q] \/ proc'[q].value = image[proc'[q].key]
      /\ \A q \in 0 .. (DecSize - 1) : dec'[q] # Free =>
           \/ dec'[q] = dec[q]
           \/ p # Self /\ dec'[q] = [key |-> <<e, d>>, value |-> verdict, age |-> 0]
  BY <1>1, Decided DEF Packet
<1>3. TypeOK'
  BY <1>1, <1>2 DEF TypeOK
<1>4. OwnersRun'
  BY <1>2 DEF DecisionInv, OwnersRun
<1>5. OwnersKnown'
  BY <1>2 DEF DecisionInv, OwnersKnown
<1>6. NamesKnown'
  BY <1>2 DEF DecisionInv, NamesKnown
<1>7. DecisionsKnown'
  <2>1. quiet[e] \in Nat
    BY <1>1, Times DEF TypeOK
  <2>2. p # Self /\ quiet[e] >= IdentityTtl => verdict = Meant(e, d)
    BY IdentifiedRightly DEF Meant
  <2>3. verdict = Meant(e, d) \/ p = Self \/ 0 + IdentityTtl > quiet[e]
    BY <2>1, <2>2, Times
  <2>4. \A f \in Endpoints, g \in Dests : Meant(f, g)' = Meant(f, g)
    BY <1>2 DEF Meant, Image
  <2>5. ASSUME NEW q \in 0 .. (DecSize - 1), dec'[q] # Free
        PROVE  \/ dec'[q].value = Meant(dec[q].key[1], dec[q].key[2])'
               \/ dec'[q].age = DecTtl
               \/ dec'[q].age + IdentityTtl > quiet'[dec'[q].key[1]]
    <3>1. CASE dec'[q] = dec[q]
      <4>1. dec[q].key \in Endpoints \X Dests
        BY <1>1, <2>5, <3>1, Entries
      <4>2. \/ dec[q].value = Meant(dec[q].key[1], dec[q].key[2])
            \/ dec[q].age = DecTtl
            \/ dec[q].age + IdentityTtl > quiet[dec[q].key[1]]
        BY <2>5, <3>1 DEF DecisionInv, DecisionsKnown
      <4>3. Meant(dec[q].key[1], dec[q].key[2])' = Meant(dec[q].key[1], dec[q].key[2])
        BY <1>2, <3>1 DEF Meant, Image
      <4> QED BY <1>2, <3>1, <4>2, <4>3
    <3>2. CASE p # Self /\ dec'[q] = [key |-> <<e, d>>, value |-> verdict, age |-> 0]
      <4> HIDE DEF p, verdict
      <4>1. dec'[q].key[1] = e /\ dec'[q].key[2] = d /\ dec'[q].value = verdict
            /\ dec'[q].age = 0
        BY <3>2
      <4>2. Meant(dec[q].key[1], dec[q].key[2])' = Meant(e, d)
        BY <1>2, <4>1 DEF Meant, Image
      <4> QED BY <1>2, <2>3, <3>2, <4>1, <4>2
    <3> QED BY <1>2, <2>5, <3>1, <3>2
  <2> QED BY <2>5 DEF DecisionsKnown
<1> QED
  BY <1>2, <1>3, <1>4, <1>5, <1>6, <1>7 DEF DecisionInv

\* A packet that was identified wrongly is itself a disturbance.
LEMMA PacketUnidentifiedKeeps ==
  ASSUME DecisionInv, NEW e \in Endpoints, NEW d \in Dests, PacketUnidentified(e, d)
  PROVE  DecisionInv'
<1>1. TypeOK /\ CachesWellPlaced
  BY DEF DecisionInv
<1>0. PICK found \in {NoPid, owner[e]} :
        \E named \in {Unknown, Image(Pid(e, found))} : Decide(e, d, found, named)
  BY DEF PacketUnidentified
<1>2. PICK named \in {Unknown, Image(Pid(e, found))} : Decide(e, d, found, named)
  BY <1>0
<1>3. /\ UNCHANGED <<owner, image, rule>>
      /\ conn' \in Table(Conn) /\ proc' \in Table(Proc) /\ dec' \in Table(Dec)
      /\ CachesWellPlaced'
      /\ \A q \in 0 .. (ConnSize - 1) : conn'[q] # Free =>
           \/ conn'[q] = conn[q]
           \/ conn'[q] = [key |-> e, value |-> owner[e], age |-> 0]
      /\ \A q \in 0 .. (ProcSize - 1) : proc'[q] # Free =>
           proc'[q] = proc[q] \/ proc'[q].value = image[proc'[q].key]
      /\ \A q \in 0 .. (DecSize - 1) : dec'[q] # Free =>
           dec'[q] = dec[q] \/ (dec'[q].key = <<e, d>> /\ dec'[q].age = 0)
  <2>1. /\ UNCHANGED <<owner, image, rule>>
        /\ conn' \in Table(Conn) /\ proc' \in Table(Proc) /\ dec' \in Table(Dec)
        /\ CachesWellPlaced'
        /\ \A q \in 0 .. (ConnSize - 1) : conn'[q] # Free =>
             \/ conn'[q] = conn[q]
             \/ conn'[q] = [key |-> e, value |-> owner[e], age |-> 0]
        /\ \A q \in 0 .. (ProcSize - 1) : proc'[q] # Free =>
             proc'[q] = proc[q] \/ proc'[q].value = image[proc'[q].key]
    BY <1>1, <1>2, Decided
  <2>2. \A q \in 0 .. (DecSize - 1) : dec'[q] # Free =>
          dec'[q] = dec[q] \/ (dec'[q].key = <<e, d>> /\ dec'[q].age = 0)
    <3> DEFINE verdict == rule[Name(Pid(e, found), named)][d]
    <3>1. \A q \in 0 .. (DecSize - 1) : dec'[q] # Free =>
            \/ dec'[q] = dec[q]
            \/ dec'[q] = [key |-> <<e, d>>, value |-> verdict, age |-> 0]
      BY <1>1, <1>2, Decided
    <3> HIDE DEF verdict
    <3> QED BY <3>1
  <2> QED BY <2>1, <2>2
<1>4. quiet' = [f \in Endpoints |-> IF f \in {e} THEN 0 ELSE quiet[f]]
  BY DEF PacketUnidentified, Disturbed
<1>5. quiet'[e] = 0 /\ \A f \in Endpoints : quiet'[f] \in {0, quiet[f]}
  BY <1>4
<1>6. TypeOK'
  <2>1. quiet' \in [Endpoints -> 0 .. Settled]
    BY <1>1, <1>4, Times DEF TypeOK
  <2> QED BY <1>1, <1>3, <2>1 DEF TypeOK
<1>7. OwnersRun'
  BY <1>3 DEF DecisionInv, OwnersRun
<1>8. OwnersKnown'
  BY <1>1, <1>3, <1>5, Entries DEF DecisionInv, OwnersKnown
<1>9. NamesKnown'
  BY <1>1, <1>3, <1>5, Entries DEF DecisionInv, NamesKnown
<1>10. DecisionsKnown'
  <2>1. ASSUME NEW q \in 0 .. (DecSize - 1), dec'[q] # Free
        PROVE  \/ dec'[q].value = Meant(dec[q].key[1], dec[q].key[2])'
               \/ dec'[q].age = DecTtl
               \/ dec'[q].age + IdentityTtl > quiet'[dec'[q].key[1]]
    <3>1. CASE dec'[q] = dec[q]
      <4>1. dec[q].key[1] \in Endpoints /\ dec[q].age \in Nat
        BY <1>1, <2>1, <3>1, Entries
      <4>2. \/ dec[q].value = Meant(dec[q].key[1], dec[q].key[2])
            \/ dec[q].age = DecTtl
            \/ dec[q].age + IdentityTtl > quiet[dec[q].key[1]]
        BY <2>1, <3>1 DEF DecisionInv, DecisionsKnown
      <4>3. Meant(dec[q].key[1], dec[q].key[2])' = Meant(dec[q].key[1], dec[q].key[2])
        BY <1>3, <3>1 DEF Meant, Image
      <4> QED BY <1>5, <3>1, <4>1, <4>2, <4>3, Times
    <3>2. CASE dec'[q].key = <<e, d>> /\ dec'[q].age = 0
      BY <1>5, <3>2, Times
    <3> QED BY <1>3, <2>1, <3>1, <3>2
  <2> QED BY <2>1 DEF DecisionsKnown
<1> QED
  BY <1>3, <1>6, <1>7, <1>8, <1>9, <1>10 DEF DecisionInv

\* Entries age at least as fast as the quiet of an endpoint grows.
LEMMA TickKeeps ==
  ASSUME DecisionInv, Tick
  PROVE  DecisionInv'
<1>1. TypeOK /\ CachesWellPlaced
  BY DEF DecisionInv
<1>2. /\ UNCHANGED <<owner, image, rule>>
      /\ conn' = Aged(Conn, conn) /\ proc' = Aged(Proc, proc) /\ dec' = Aged(Dec, dec)
      /\ \A e \in Endpoints : quiet'[e] \in Nat /\ quiet'[e] <= quiet[e] + 1
  BY <1>1, Times DEF Tick, TypeOK
<1>3. /\ conn \in Table(Conn) /\ proc \in Table(Proc) /\ dec \in Table(Dec)
      /\ ProperCache(Conn) /\ ProperCache(Proc) /\ ProperCache(Dec)
  BY <1>1, CachesAssumption DEF TypeOK
<1>4. TypeOK'
  <2>1. conn' \in Table(Conn) /\ proc' \in Table(Proc) /\ dec' \in Table(Dec)
    BY <1>2, <1>3, AgedEntries
  <2>2. quiet' \in [Endpoints -> 0 .. Settled]
    BY <1>1, Times DEF Tick, TypeOK
  <2> QED BY <1>1, <1>2, <2>1, <2>2 DEF TypeOK
<1>5. CachesWellPlaced'
  <2>1. /\ WellPlaced(Conn, Aged(Conn, conn)) /\ WellPlaced(Proc, Aged(Proc, proc))
        /\ WellPlaced(Dec, Aged(Dec, dec))
    BY <1>1, <1>3, AgedWellPlaced
       DEF CachesWellPlaced
  <2> QED
    BY <1>2, <2>1 DEF CachesWellPlaced, WellPlaced, Place
<1>6. OwnersRun'
  BY <1>2 DEF DecisionInv, OwnersRun
<1>7. OwnersKnown'
  <2>1. \A q \in 0 .. (ConnSize - 1) :
          /\ conn'[q] = Free <=> conn[q] = Free
          /\ conn[q] # Free => /\ conn'[q].key = conn[q].key /\ conn'[q].value = conn[q].value
                               /\ conn'[q].age = conn[q].age + 1 \/ conn'[q].age = ConnTtl
    BY <1>2, <1>3, AgedEntries, Shapes
  <2>2. \A e \in Endpoints : quiet[e] \in Nat
    BY <1>1, Times DEF TypeOK
  <2>3. \A q \in 0 .. (ConnSize - 1) : conn[q] # Free =>
          /\ conn[q].key \in Endpoints /\ conn[q].age \in Nat
          /\ conn[q].age <= ConnTtl /\ ConnTtl \in Nat
          /\ conn'[q].age <= ConnTtl
    <3>1. \A q \in 0 .. (ConnSize - 1) : conn'[q] # Free => conn'[q].age <= ConnTtl
      BY <1>4, Times, Shapes DEF TypeOK, Table, Slot
    <3> QED BY <1>1, <2>1, <3>1, Entries, Times
  <2> QED BY <1>2, <2>1, <2>2, <2>3 DEF DecisionInv, OwnersKnown
<1>8. NamesKnown'
  <2>1. \A q \in 0 .. (ProcSize - 1) :
          /\ proc'[q] = Free <=> proc[q] = Free
          /\ proc[q] # Free => /\ proc'[q].key = proc[q].key /\ proc'[q].value = proc[q].value
                               /\ proc'[q].age = proc[q].age + 1 \/ proc'[q].age = ProcTtl
    BY <1>2, <1>3, AgedEntries, Shapes
  <2>2. \A e \in Endpoints : quiet[e] \in Nat
    BY <1>1, Times DEF TypeOK
  <2>3. \A q \in 0 .. (ProcSize - 1) : proc'[q] # Free => proc'[q].age <= ProcTtl
    BY <1>4, Times, Shapes DEF TypeOK, Table, Slot
  <2>4. \A q \in 0 .. (ProcSize - 1) : proc[q] # Free =>
          proc[q].age \in Nat /\ proc[q].age <= ProcTtl /\ ProcTtl \in Nat
    BY <1>1, Entries, Times
  <2> QED BY <1>2, <2>1, <2>2, <2>3, <2>4 DEF DecisionInv, NamesKnown
<1>9. DecisionsKnown'
  <2>1. \A q \in 0 .. (DecSize - 1) :
          /\ dec'[q] = Free <=> dec[q] = Free
          /\ dec[q] # Free => /\ dec'[q].key = dec[q].key /\ dec'[q].value = dec[q].value
                              /\ dec'[q].age = dec[q].age + 1 \/ dec'[q].age = DecTtl
    BY <1>2, <1>3, AgedEntries, Shapes
  <2>2. ASSUME NEW q \in 0 .. (DecSize - 1), dec'[q] # Free
        PROVE  \/ dec'[q].value = Meant(dec[q].key[1], dec[q].key[2])'
               \/ dec'[q].age = DecTtl
               \/ dec'[q].age + IdentityTtl > quiet'[dec'[q].key[1]]
    <3> DEFINE e == dec[q].key[1]
    <3>1. dec[q] # Free
      BY <2>1, <2>2
    <3>2. e \in Endpoints /\ dec[q].age \in Nat /\ dec[q].age <= DecTtl
      BY <1>1, <3>1, Entries
    <3>3. quiet[e] \in Nat
      BY <1>1, <3>2, Times DEF TypeOK
    <3>4. Meant(dec[q].key[1], dec[q].key[2])' = Meant(dec[q].key[1], dec[q].key[2])
      BY <1>2, <2>1, <3>1 DEF Meant, Image
    <3>5. \/ dec[q].value = Meant(e, dec[q].key[2])
          \/ dec[q].age = DecTtl
          \/ dec[q].age + IdentityTtl > quiet[e]
      BY <3>1 DEF DecisionInv, DecisionsKnown
    <3>6. quiet'[e] \in Nat /\ quiet'[e] <= quiet[e] + 1
      BY <1>2, <3>2
    <3>7. dec'[q].age \in Nat /\ dec'[q].age <= DecTtl
      BY <1>4, <2>2, Times, Shapes DEF TypeOK, Table, Slot
    <3>8. /\ dec'[q].key = dec[q].key /\ dec'[q].value = dec[q].value
          /\ dec'[q].age = dec[q].age + 1 \/ dec'[q].age = DecTtl
      BY <2>1, <3>1
    <3>9. dec[q].age = DecTtl => dec'[q].age = DecTtl
      BY <3>2, <3>7, <3>8, Times
    <3> QED BY <3>2, <3>3, <3>4, <3>5, <3>6, <3>7, <3>8, <3>9, Times
  <2> QED BY <2>2 DEF DecisionsKnown
<1> QED
  BY <1>4, <1>5, <1>6, <1>7, <1>8, <1>9 DEF DecisionInv
-------------------------------------------------------------------------------
(* The theorems. *)

LEMMA DecisionStep == DecisionInv /\ [Next]_vars => DecisionInv'
<1> SUFFICES ASSUME DecisionInv, [Next]_vars PROVE DecisionInv'
  OBVIOUS
<1>1. ASSUME NEW e \in Endpoints, CloseSocket(e) PROVE DecisionInv'
  BY <1>1, CloseSocketKeeps
<1>2. ASSUME NEW e \in Endpoints, NEW p \in Pids, OpenSocket(p, e) PROVE DecisionInv'
  BY <1>2, OpenSocketKeeps
<1>3. ASSUME NEW p \in Pids, ExitProcess(p) PROVE DecisionInv'
  BY <1>3, ExitProcessKeeps
<1>4. ASSUME NEW p \in Pids, NEW program \in Programs, StartProcess(p, program)
      PROVE  DecisionInv'
  BY <1>4, StartProcessKeeps
<1>5. ASSUME NEW e \in Endpoints, NEW d \in Dests, Packet(e, d) PROVE DecisionInv'
  BY <1>5, PacketKeeps
<1>6. ASSUME NEW e \in Endpoints, NEW d \in Dests, PacketUnidentified(e, d)
      PROVE  DecisionInv'
  BY <1>6, PacketUnidentifiedKeeps
<1>7. CASE Tick
  BY <1>7, TickKeeps
<1>8. CASE Restart
  BY <1>8, RestartKeeps
<1>9. CASE UNCHANGED vars
  <2>1. UNCHANGED caches /\ UNCHANGED <<owner, image, rule, quiet>>
    BY <1>9 DEF vars, caches
  <2>2. TypeOK' /\ OwnersRun'
    BY <2>1 DEF DecisionInv, TypeOK, OwnersRun, caches
  <2> QED BY <2>1, <2>2, TablesUntouched
<1> QED
  BY <1>1, <1>2, <1>3, <1>4, <1>5, <1>6, <1>7, <1>8, <1>9 DEF Next

\* The inductive invariant: what every entry of the three caches says, of now or of a
\* time since the last disturbance, for any sizes, windows, hashes and times to live.
THEOREM DecisionInvariant == Spec => []DecisionInv
BY DecisionInit, DecisionStep, PTL DEF Spec

\* The variables of PacketProcessorThread and its caches keep their types.
THEOREM DecisionTypes == Spec => []TypeOK
BY DecisionInvariant, PTL DEF DecisionInv

\* ..._Get and ..._Set never leave a key in two slots or outside its window.
THEOREM CachesStayWellPlaced == Spec => []CachesWellPlaced
BY DecisionInvariant, PTL DEF DecisionInv

\* What is cached as DIRECT and still counts was decided too long after the last
\* disturbance to be wrong, if the endpoint has settled.
LEMMA SettledDirect ==
  ASSUME DecisionInv, NEW e \in Endpoints, NEW d \in Dests,
         quiet[e] >= Settled, Cached(e, d) # "UNKNOWN"
  PROVE  Cached(e, d) = "DIRECT" /\ Meant(e, d) = "DIRECT"
<1>1. Fresh(Dec, dec, <<e, d>>) /\ Read(Dec, dec, <<e, d>>) = "DIRECT"
  BY DEF Cached
<1>2. PICK q \in 0 .. (DecSize - 1) :
        /\ dec[q] # Free /\ dec[q].key = <<e, d>> /\ dec[q].age < DecTtl
        /\ Read(Dec, dec, <<e, d>>) = dec[q].value
  <2>1. dec \in Table(Dec) /\ <<e, d>> \in Endpoints \X Dests
    BY DEF DecisionInv, TypeOK
  <2> QED BY <1>1, <2>1, CachesAssumption, FreshEntry, Shapes
<1>3. quiet[e] \in Nat /\ dec[q].age \in Nat
  BY <1>2, Entries, Times DEF DecisionInv, TypeOK
<1>4. dec[q].age # DecTtl /\ ~(dec[q].age + IdentityTtl > quiet[e])
  BY <1>2, <1>3, Times
<1>5. dec[q].value = Meant(e, d)
  BY <1>2, <1>4 DEF DecisionInv, DecisionsKnown
<1> QED
  BY <1>1, <1>2, <1>5 DEF Cached

\* A decision that is not taken from the decision cache is right as soon as the
\* identity caches have had time to forget.
LEMMA DecidedRightly ==
  ASSUME DecisionInv, NEW e \in Endpoints, NEW d \in Dests,
         quiet[e] >= IdentityTtl, Cached(e, d) = "UNKNOWN"
  PROVE  Outcome(e, d) = Meant(e, d)
BY IdentifiedRightly DEF Outcome, Meant

\* Whatever processes, ports, process ids, rules and failed lookups came before: an
\* endpoint that has been left alone for IdentityTtl + DecTtl - 1 ticks is served by
\* the rules of the program that owns it.
THEOREM SettledEndpointsAreServedRightly == Spec => []SettledDecisionsAreRight
<1>1. DecisionInv => SettledDecisionsAreRight
  <2> SUFFICES ASSUME DecisionInv, NEW e \in Endpoints, NEW d \in Dests, quiet[e] >= Settled
               PROVE  Outcome(e, d) = Meant(e, d)
    BY DEF SettledDecisionsAreRight
  <2>1. quiet[e] >= IdentityTtl
    BY Times DEF DecisionInv, TypeOK
  <2>2. CASE Cached(e, d) = "UNKNOWN"
    BY <2>1, <2>2, DecidedRightly
  <2>3. CASE Cached(e, d) # "UNKNOWN"
    BY <2>3, SettledDirect DEF Outcome
  <2> QED BY <2>2, <2>3
<1> QED
  BY <1>1, DecisionInvariant, PTL

\* No packet is redirected or dropped on account of facts older than the connection and
\* process caches keep them, whatever the decision cache holds.
THEOREM RedirectionStaysFresh == Spec => []RedirectionIsFresh
<1>1. DecisionInv => RedirectionIsFresh
  <2> SUFFICES ASSUME DecisionInv, NEW e \in Endpoints, NEW d \in Dests,
                      Outcome(e, d) # "DIRECT", quiet[e] >= IdentityTtl
               PROVE  Outcome(e, d) = Meant(e, d)
    BY DEF RedirectionIsFresh
  <2>1. Cached(e, d) = "UNKNOWN"
    BY DEF Outcome, Cached
  <2> QED BY <2>1, DecidedRightly
<1> QED
  BY <1>1, DecisionInvariant, PTL
===============================================================================
