------------------------------- MODULE TtlCache --------------------------------
(***************************************************************************)
(* The slot tables of core/PacketProcessor.c.  ProcessCache,               *)
(* ConnectionCache and DecisionCache are the same table three times: an    *)
(* array of slots, a home slot for each key, a window of neighbouring      *)
(* slots that Get and Set search from there, and entries that are fresh    *)
(* for TTL milliseconds.  An expired entry keeps its slot until its own    *)
(* key is looked up.                                                       *)
(*                                                                         *)
(* A slot is either Free (valid = false) or an entry whose timestamp is    *)
(* given as its age in ticks, no more than ttl: older ones are all alike.  *)
(* The 49.7 days after which GetTickCount wraps are not modelled.          *)
(***************************************************************************)
EXTENDS Integers, FiniteSetsExt

CONSTANT Free   \* a slot with valid = false

(* A cache c is described by a record:                                      *)
(*   keys, values  what is looked up and what is found                      *)
(*   size          PROCESS_CACHE_SIZE 256, CONNECTION_CACHE_SIZE 512,       *)
(*                 DECISION_CACHE_SIZE 1024                                 *)
(*   window        how many slots are searched: all 256, 8, 8               *)
(*   ttl           5, 30, 60 seconds, in ticks                              *)
(*   home          the hash of each key                                     *)

Slot(c) == [key: c.keys, value: c.values, age: 0 .. c.ttl]

\* What the constants must be; the module that takes a cache assumes it.
ProperCache(c) ==
  /\ c.size \in Nat \ {0} /\ c.window \in 1 .. c.size /\ c.ttl \in Nat \ {0}
  /\ c.home \in [c.keys -> 0 .. (c.size - 1)]
  /\ \A slot \in Slot(c) : slot # Free

Table(c) == [0 .. (c.size - 1) -> Slot(c) \cup {Free}]
EmptyTable(c) == [p \in 0 .. (c.size - 1) |-> Free]

Place(c, k, i) == (c.home[k] + i) % c.size

\* Where in its window the key's entry is, whatever its age; and what is free.
Hits(c, t, k) ==
  {i \in 0 .. (c.window - 1) : t[Place(c, k, i)] # Free /\ t[Place(c, k, i)].key = k}
Vacancies(c, t, k) == {i \in 0 .. (c.window - 1) : t[Place(c, k, i)] = Free}

HitPlace(c, t, k) == Place(c, k, Min(Hits(c, t, k)))

\* ..._Get finds a value ...
Fresh(c, t, k) == Hits(c, t, k) # {} /\ t[HitPlace(c, t, k)].age < c.ttl
Read(c, t, k) == t[HitPlace(c, t, k)].value

\* ... and frees the slot of the key's own expired entry.
AfterGet(c, t, k) ==
  IF Hits(c, t, k) # {} /\ ~Fresh(c, t, k) THEN [t EXCEPT ![HitPlace(c, t, k)] = Free] ELSE t

\* Mutant: ..._Set takes the first free slot before it has searched the window.
AfterSetUnsearched(c, t, k, v) ==
  LET entry == [key |-> k, value |-> v, age |-> 0]
      usable == Vacancies(c, t, k) \cup Hits(c, t, k)
  IN IF usable # {} THEN [t EXCEPT ![Place(c, k, Min(usable))] = entry] ELSE t

\* ..._Set: update the key's entry, else take the first free slot of the window,
\* else (other keys fill it, expired or not) store nothing.
AfterSet(c, t, k, v) ==
  LET entry == [key |-> k, value |-> v, age |-> 0]
  IN IF Hits(c, t, k) # {} THEN [t EXCEPT ![HitPlace(c, t, k)] = entry]
     ELSE IF Vacancies(c, t, k) # {}
     THEN [t EXCEPT ![Place(c, k, Min(Vacancies(c, t, k)))] = entry]
     ELSE t

\* A tick passes.
Aged(c, t) ==
  [p \in DOMAIN t |->
     IF t[p] = Free \/ t[p].age = c.ttl THEN t[p] ELSE [t[p] EXCEPT !.age = @ + 1]]

\* No key has two entries, of which an update would reach only the first; and
\* every entry lies where a search for its key comes by.
WellPlaced(c, t) ==
  /\ \A p, q \in DOMAIN t : p # q /\ t[p] # Free /\ t[q] # Free => t[p].key # t[q].key
  /\ \A p \in DOMAIN t : t[p] # Free => \E i \in 0 .. (c.window - 1) : p = Place(c, t[p].key, i)
===============================================================================
