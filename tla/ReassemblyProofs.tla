-------------------------- MODULE ReassemblyProofs --------------------------
(***************************************************************************)
(* Theorems about the reassembler, for any packets and stray datagrams, in *)
(* any order and number, and any limits.                                   *)
(***************************************************************************)
EXTENDS Reassembly, FiniteSetTheorems, WellFoundedInduction, TLAPS

-----------------------------------------------------------------------------
(* Sums over finite sets.  Each fact is shown by looking at a smallest set *)
(* that contradicts it.                                                    *)

(* Every set of natural numbers that is not empty has a least one. *)
LEMMA LeastNatural ==
    ASSUME NEW T, T \subseteq Nat, T # {}
    PROVE  \E n \in T : \A m \in T : n <= m
  <1> DEFINE R == OpToRel(<, Nat)
  <1>1. IsWellFoundedOn(R, Nat)
    BY NatLessThanWellFounded
  <1>2. \A x, y \in Nat : x < y => <<x, y>> \in R
    BY DEF OpToRel
  <1> HIDE DEF R
  <1>3. \E x \in T : \A y \in T : ~ (<<y, x>> \in R)
    BY <1>1, WFMin
  <1>4. PICK x \in T : \A y \in T : ~ (<<y, x>> \in R)
    BY <1>3
  <1>5. \A y \in T : ~ (y < x)
    BY <1>2, <1>4
  <1>6. \A y \in T : x <= y
    BY <1>5
  <1> QED  BY <1>6

\* The element that folds take first.
Chosen(s) == CHOOSE x \in s : TRUE

\* g gives every subset of S the sum of the values of f at its elements.
IsTotals(g, f, S) ==
    g = [s \in SUBSET S |-> IF s = {} THEN 0 ELSE f[Chosen(s)] + g[s \ {Chosen(s)}]]


(* What the sum of the values at the elements of a set is defined to be. *)
LEMMA SumIsTotal ==
    ASSUME NEW f, NEW S
    PROVE  SumFunctionOnSet(f, S) = (CHOOSE g : IsTotals(g, f, S))[S]
    BY Zenon DEF SumFunctionOnSet, FoldFunctionOnSet, MapThenFoldSet, IsTotals, Chosen

(* A finite set without its chosen element is smaller. *)
LEMMA ChosenRemoved ==
    ASSUME NEW S, IsFiniteSet(S), S # {}
    PROVE  /\ Chosen(S) \in S
           /\ IsFiniteSet(S \ {Chosen(S)}) /\ S \ {Chosen(S)} # S
           /\ Cardinality(S) \in Nat /\ Cardinality(S \ {Chosen(S)}) \in Nat
           /\ Cardinality(S \ {Chosen(S)}) < Cardinality(S)
  <1>1. Chosen(S) \in S
    BY DEF Chosen
  <1>2. /\ IsFiniteSet(S \ {Chosen(S)})
        /\ Cardinality(S \ {Chosen(S)}) = Cardinality(S) - 1
    BY <1>1, FS_RemoveElement
  <1>3. Cardinality(S) \in Nat /\ Cardinality(S \ {Chosen(S)}) \in Nat
    BY <1>2, FS_CardinalityType
  <1> QED  BY <1>1, <1>2, <1>3

(* Totals over two sets agree on the subsets of both. *)
LEMMA TotalsAgree ==
    ASSUME NEW f, NEW S, IsFiniteSet(S), NEW T, NEW g, NEW h,
           IsTotals(g, f, S), IsTotals(h, f, T)
    PROVE  \A s \in SUBSET S : s \in SUBSET T => g[s] = h[s]
  <1> DEFINE Bad(s) == s \in SUBSET S /\ s \in SUBSET T /\ g[s] # h[s]
             bad == {n \in Nat : \E s : Bad(s) /\ Cardinality(s) = n}
  <1>0. \A s \in SUBSET S : IsFiniteSet(s) /\ Cardinality(s) \in Nat
    BY FS_Subset, FS_CardinalityType
  <1>1. SUFFICES ASSUME bad # {} PROVE FALSE
    BY <1>0
  <1>2. PICK n \in bad : \A m \in bad : n <= m
    BY <1>1, LeastNatural
  <1>3. PICK s : Bad(s) /\ Cardinality(s) = n
    BY <1>2
  <1> DEFINE x == Chosen(s)
             r == s \ {x}
  <1>4. /\ g[s] = IF s = {} THEN 0 ELSE f[x] + g[r]
        /\ h[s] = IF s = {} THEN 0 ELSE f[x] + h[r]
    BY <1>3, Zenon DEF IsTotals
  <1>5. s # {}
    BY <1>3, <1>4
  <1>6. Cardinality(s) \in Nat /\ Cardinality(r) \in Nat /\ Cardinality(r) < Cardinality(s)
    BY <1>0, <1>3, <1>5, ChosenRemoved
  <1>7. g[r] # h[r] /\ r \in SUBSET S /\ r \in SUBSET T
    BY <1>3, <1>4, <1>5
  <1>8. Cardinality(r) \in bad
    BY <1>6, <1>7
  <1> HIDE DEF bad, r
  <1> QED  BY <1>2, <1>3, <1>6, <1>8

(* Every finite set has totals. *)
LEMMA TotalsExist ==
    ASSUME NEW f, NEW S, IsFiniteSet(S)
    PROVE  \E g : IsTotals(g, f, S)
  <1> DEFINE Bad(s) == s \in SUBSET S /\ ~ \E g : IsTotals(g, f, s)
             bad == {n \in Nat : \E s : Bad(s) /\ Cardinality(s) = n}
  <1>0. \A s \in SUBSET S : IsFiniteSet(s) /\ Cardinality(s) \in Nat
    BY FS_Subset, FS_CardinalityType
  <1>1. SUFFICES ASSUME bad # {} PROVE FALSE
    BY <1>0
  <1>2. PICK n \in bad : \A m \in bad : n <= m
    BY <1>1, LeastNatural
  <1>3. PICK s : Bad(s) /\ Cardinality(s) = n
    BY <1>2
  <1> DEFINE TotalsOf(t) == CHOOSE g : IsTotals(g, f, t)
             value(t) == TotalsOf(t)[t]
             x == Chosen(s)
             g == [t \in SUBSET s |-> IF t = {} THEN 0
                                      ELSE f[Chosen(t)] + value(t \ {Chosen(t)})]
  <1>4. IsFiniteSet(s) /\ \A t \in SUBSET s : IsFiniteSet(t) /\ Cardinality(t) \in Nat
    BY <1>0, <1>3
  <1>5. ASSUME NEW t \in SUBSET s, t # s
        PROVE  IsTotals(TotalsOf(t), f, t)
    <2>1. Cardinality(t) < Cardinality(s)
      BY <1>4, <1>5, FS_Subset, FS_CardinalityType
    <2>2. t \in SUBSET S /\ Cardinality(t) \in Nat /\ Cardinality(s) \in Nat
      BY <1>3, <1>4
    <2>3. Cardinality(t) \notin bad
      <3> HIDE DEF bad
      <3> QED  BY <1>2, <1>3, <2>1, <2>2
    <2>4. \E w : IsTotals(w, f, t)
      BY <2>2, <2>3
    <2> QED  BY <2>4
  <1>6. ASSUME NEW t \in SUBSET s, t # {}
        PROVE  g[t \ {Chosen(t)}] = value(t \ {Chosen(t)})
    <2> DEFINE r == t \ {Chosen(t)}
    <2>1. /\ IsFiniteSet(r) /\ r \in SUBSET s /\ r # s /\ Chosen(t) \in t
      BY <1>4, <1>6, ChosenRemoved
    <2>2. IsTotals(TotalsOf(r), f, r)
      BY <1>5, <2>1
    <2>3. r \in SUBSET r /\ TotalsOf(r)[r] =
             IF r = {} THEN 0 ELSE f[Chosen(r)] + TotalsOf(r)[r \ {Chosen(r)}]
      <3> HIDE DEF r, TotalsOf
      <3> QED  BY <2>2, Zenon DEF IsTotals
    <2>4. ASSUME r # {}
          PROVE  TotalsOf(r)[r \ {Chosen(r)}] = value(r \ {Chosen(r)})
      <3> DEFINE q == r \ {Chosen(r)}
      <3>1. IsFiniteSet(q) /\ q \in SUBSET s /\ q # s /\ q \in SUBSET r /\ q \in SUBSET q
        BY <2>1, <2>4, ChosenRemoved
      <3>2. IsTotals(TotalsOf(q), f, q)
        BY <1>5, <3>1
      <3> HIDE DEF q, r, TotalsOf
      <3>3. TotalsOf(r)[q] = TotalsOf(q)[q]
        BY <2>1, <2>2, <3>1, <3>2, TotalsAgree
      <3> QED  BY <3>3 DEF q
    <2>5. g[r] = IF r = {} THEN 0 ELSE f[Chosen(r)] + value(r \ {Chosen(r)})
      BY <2>1
    <2> QED  BY <2>3, <2>4, <2>5
  <1>7. IsTotals(g, f, s)
    <2>1. g = [t \in SUBSET s |-> IF t = {} THEN 0
                                  ELSE f[Chosen(t)] + g[t \ {Chosen(t)}]]
      <3>1. \A t \in SUBSET s :
               g[t] = IF t = {} THEN 0 ELSE f[Chosen(t)] + value(t \ {Chosen(t)})
        OBVIOUS
      <3>2. g = [t \in SUBSET s |-> g[t]]
        OBVIOUS
      <3> HIDE DEF g, value
      <3>3. \A t \in SUBSET s :
               g[t] = IF t = {} THEN 0 ELSE f[Chosen(t)] + g[t \ {Chosen(t)}]
        BY <1>6, <3>1
      <3> QED  BY <3>2, <3>3
    <2> HIDE DEF g
    <2> QED  BY <2>1 DEF IsTotals
  <1> QED  BY <1>3, <1>7

(* The sum over a finite set, by its chosen element. *)
LEMMA SumByChosen ==
    ASSUME NEW f, NEW S, IsFiniteSet(S)
    PROVE  SumFunctionOnSet(f, S) =
             IF S = {} THEN 0
             ELSE f[Chosen(S)] + SumFunctionOnSet(f, S \ {Chosen(S)})
  <1> DEFINE TotalsOf(t) == CHOOSE g : IsTotals(g, f, t)
             r == S \ {Chosen(S)}
  <1>1. IsTotals(TotalsOf(S), f, S)
    BY TotalsExist
  <1>2. TotalsOf(S)[S] = IF S = {} THEN 0 ELSE f[Chosen(S)] + TotalsOf(S)[r]
    <2> HIDE DEF TotalsOf
    <2> QED  BY <1>1, Zenon DEF IsTotals
  <1>3. ASSUME S # {} PROVE TotalsOf(S)[r] = TotalsOf(r)[r]
    <2>1. IsFiniteSet(r) /\ r \in SUBSET S /\ r \in SUBSET r
      BY <1>3, ChosenRemoved
    <2>2. IsTotals(TotalsOf(r), f, r)
      BY <2>1, TotalsExist
    <2> DEFINE v == TotalsOf(S)
               w == TotalsOf(r)
    <2>3. IsTotals(v, f, S) /\ IsTotals(w, f, r)
      BY <1>1, <2>2
    <2> HIDE DEF TotalsOf, r, v, w
    <2>4. v[r] = w[r]
      BY <2>1, <2>3, TotalsAgree
    <2> QED  BY <2>4 DEF v, w
  <1>4. SumFunctionOnSet(f, S) = TotalsOf(S)[S] /\ SumFunctionOnSet(f, r) = TotalsOf(r)[r]
    BY SumIsTotal
  <1> HIDE DEF TotalsOf, r
  <1>5. SumFunctionOnSet(f, S) =
             IF S = {} THEN 0 ELSE f[Chosen(S)] + SumFunctionOnSet(f, r)
    BY <1>2, <1>3, <1>4
  <1> QED  BY <1>5 DEF r

(* It is the sum by any element. *)
LEMMA SumByElement ==
    ASSUME NEW f, NEW S, IsFiniteSet(S), \A x \in S : f[x] \in Int
    PROVE  /\ SumFunctionOnSet(f, S) \in Int
           /\ \A x \in S : SumFunctionOnSet(f, S) = f[x] + SumFunctionOnSet(f, S \ {x})
  <1> DEFINE V(s) == SumFunctionOnSet(f, s)
             Good(s) == V(s) \in Int /\ \A x \in s : V(s) = f[x] + V(s \ {x})
             bad == {n \in Nat : \E s \in SUBSET S : ~ Good(s) /\ Cardinality(s) = n}
  <1>0. \A s \in SUBSET S : IsFiniteSet(s) /\ Cardinality(s) \in Nat
    BY FS_Subset, FS_CardinalityType
  <1>1. SUFFICES ASSUME bad # {} PROVE FALSE
    BY <1>0
  <1>2. PICK n \in bad : \A m \in bad : n <= m
    BY <1>1, LeastNatural
  <1>3. PICK s \in SUBSET S : ~ Good(s) /\ Cardinality(s) = n
    BY <1>2
  <1>4. \A t \in SUBSET s : t # s => Good(t)
    <2>1. SUFFICES ASSUME NEW t \in SUBSET s, t # s PROVE Good(t)
      OBVIOUS
    <2>2. Cardinality(t) < Cardinality(s)
      BY <1>0, <1>3, <2>1, FS_Subset, FS_CardinalityType
    <2>3. t \in SUBSET S /\ Cardinality(t) \in Nat /\ Cardinality(s) \in Nat
      BY <1>0, <1>3
    <2>4. Cardinality(t) \notin bad
      <3> HIDE DEF bad
      <3> QED  BY <1>2, <1>3, <2>2, <2>3
    <2> HIDE DEF Good
    <2> QED  BY <2>3, <2>4
  <1> HIDE DEF bad
  <1> DEFINE c == Chosen(s)
  <1>5. /\ s = {} => V(s) = 0
        /\ s # {} => c \in s /\ V(s) = f[c] + V(s \ {c})
    BY <1>0, <1>3, SumByChosen, ChosenRemoved
  <1> HIDE DEF V, c
  <1>6. s # {}
    BY <1>3, <1>5
  <1>7. f[c] \in Int /\ V(s \ {c}) \in Int
    <2>1. s \ {c} \in SUBSET s /\ s \ {c} # s
      BY <1>5, <1>6
    <2> QED  BY <1>3, <1>4, <1>5, <1>6, <2>1
  <1>8. V(s) \in Int
    BY <1>5, <1>6, <1>7
  <1>9. ASSUME NEW x \in s PROVE V(s) = f[x] + V(s \ {x})
    <2>1. CASE x = c
      BY <1>5, <1>6, <2>1
    <2>2. CASE x # c
      <3>1. V(s \ {c}) = f[x] + V((s \ {c}) \ {x})
        <4>1. s \ {c} \in SUBSET s /\ s \ {c} # s /\ x \in s \ {c}
          BY <1>5, <1>6, <2>2
        <4> QED  BY <1>4, <4>1
      <3>2. V(s \ {x}) = f[c] + V((s \ {x}) \ {c})
        <4>1. s \ {x} \in SUBSET s /\ s \ {x} # s /\ c \in s \ {x}
          BY <1>5, <1>6, <2>2
        <4> QED  BY <1>4, <4>1
      <3>3. (s \ {x}) \ {c} = (s \ {c}) \ {x}
        OBVIOUS
      <3>4. V((s \ {c}) \ {x}) \in Int
        <4>1. (s \ {c}) \ {x} \in SUBSET s /\ (s \ {c}) \ {x} # s
          BY <1>5, <1>6
        <4> QED  BY <1>4, <4>1
      <3>5. f[x] \in Int /\ f[c] \in Int
        BY <1>3, <1>7
      <3> DEFINE rest == V((s \ {c}) \ {x})
                 a == V(s \ {c})
                 b == V(s \ {x})
      <3>6. a = f[x] + rest /\ b = f[c] + rest /\ V(s) = f[c] + a /\ rest \in Int
        BY <1>5, <1>6, <3>1, <3>2, <3>3, <3>4
      <3> HIDE DEF a, b, rest
      <3>7. V(s) = f[x] + b
        BY <3>5, <3>6
      <3> QED  BY <3>7 DEF b
    <2> QED  BY <2>1, <2>2
  <1> QED  BY <1>3, <1>8, <1>9

(* It depends on the values at its elements only. *)
LEMMA SumOfEqualValues ==
    ASSUME NEW f, NEW h, NEW S, IsFiniteSet(S), \A x \in S : f[x] = h[x]
    PROVE  SumFunctionOnSet(f, S) = SumFunctionOnSet(h, S)
  <1>1. PICK g : IsTotals(g, f, S)
    BY TotalsExist
  <1>2. PICK w : IsTotals(w, h, S)
    BY TotalsExist
  <1>3. IsTotals(w, f, S)
    <2>1. \A s \in SUBSET S : s # {} => Chosen(s) \in s
      BY FS_Subset, ChosenRemoved
    <2>2. \A s \in SUBSET S : s # {} => f[Chosen(s)] = h[Chosen(s)]
      BY <2>1
    <2> QED  BY <1>2, <2>2 DEF IsTotals
  <1>4. IsTotals(CHOOSE u : IsTotals(u, f, S), f, S)
    BY <1>1
  <1>5. IsTotals(CHOOSE u : IsTotals(u, h, S), h, S)
    BY <1>2
  <1> DEFINE u == CHOOSE t : IsTotals(t, f, S)
             v == CHOOSE t : IsTotals(t, h, S)
  <1>6. IsTotals(u, f, S) /\ IsTotals(v, h, S) /\ S \in SUBSET S
    BY <1>4, <1>5
  <1>7. SumFunctionOnSet(f, S) = u[S] /\ SumFunctionOnSet(h, S) = v[S]
    BY SumIsTotal
  <1> HIDE DEF u, v
  <1>8. u[S] = w[S]
    BY <1>3, <1>6, TotalsAgree
  <1>9. v[S] = w[S]
    BY <1>2, <1>6, TotalsAgree
  <1> QED  BY <1>7, <1>8, <1>9

-----------------------------------------------------------------------------
USE MtuAssumption, LimitsAssumption, PacketsAssumption

-----------------------------------------------------------------------------
(* What push does with the table. *)

Key(d) == <<d.endpoint, d.id>>

\* A slot of the table after the datagram d: q is the slot as it was, because d is
\* a repetition, or the slot with d added.
Grows(table, d, q) ==
    LET old == Slot(table, Key(d)) IN
    /\ HasSlot(table, Key(d))
    /\ \/ Key(d) \in DOMAIN table /\ q = table[Key(d)]
       \/ /\ d.kind = "fragment" /\ ValidNumbering(d)
          /\ old.total \in {0, d.total} /\ d.number \notin DOMAIN old.fragments
          /\ old.bytes + Size(d.piece) <= MaxPacketLength
          /\ q = WithFragment(old, d)
       \/ /\ d.kind = "head" /\ d.fragmented /\ old.first = None
          /\ old.bytes + Size(d.piece) <= MaxPacketLength
          /\ q = WithFirst(old, d)

\* The outcomes of push.
Drops(d) ==
    /\ delivered' = delivered
    /\ partial' = Live(partial) \/ partial' = Without(Live(partial), Key(d))

PassesOn(d) ==
    /\ d.kind = "head" /\ ~ d.fragmented
    /\ partial' = Live(partial)
    /\ Deliver(d.endpoint, d.id, 0, <<d.piece>>)

Stores(d) == \E q : Grows(Live(partial), d, q) /\ Complete(Live(partial), Key(d), q)

(* A slot just made has nothing, so it is not one that a datagram repeats. *)
LEMMA NewSlot ==
    NewPartial.first = None /\ NewPartial.total = 0 /\ NewPartial.bytes = 0
    /\ NewPartial.created = now /\ DOMAIN NewPartial.fragments = {}
    BY DEF NewPartial

(* Every push has one of the three outcomes. *)
LEMMA PushOutcome ==
    ASSUME NEW d, Push(d)
    PROVE  Drops(d) \/ PassesOn(d) \/ Stores(d)
  <1> DEFINE table == Live(partial)
             key == Key(d)
             old == Slot(table, key)
  <1>0. (old.first # None \/ d.number \in DOMAIN old.fragments) =>
            key \in DOMAIN table /\ old = table[key]
    BY NewSlot DEF Slot
  <1>1. CASE d.kind = "fragment" /\ PushFragment(table, key, d)
    <2>1. CASE \E q : Grows(table, d, q) /\ Complete(table, key, q)
      BY <2>1 DEF Stores
    <2>2. CASE Refuse(table) \/ Refuse(Without(table, key))
      BY <2>2 DEF Refuse, Drops
    <2>3. CASE /\ ValidNumbering(d) /\ HasSlot(table, key)
               /\ d.number \in DOMAIN old.fragments /\ Complete(table, key, old)
      <3>1. Grows(table, d, old)
        BY <1>0, <2>3 DEF Grows
      <3> QED  BY <2>1, <2>3, <3>1
    <2>4. CASE /\ ValidNumbering(d) /\ HasSlot(table, key) /\ old.total \in {0, d.total}
               /\ d.number \notin DOMAIN old.fragments
               /\ old.bytes + Size(d.piece) <= MaxPacketLength
               /\ Complete(table, key, WithFragment(old, d))
      <3>1. Grows(table, d, WithFragment(old, d))
        BY <1>1, <2>4 DEF Grows
      <3> QED  BY <2>1, <2>4, <3>1
    <2> QED  BY <1>1, <2>2, <2>3, <2>4 DEF PushFragment
  <1>2. CASE d.kind = "head" /\ PushHead(table, key, d)
    <2>1. CASE \E q : Grows(table, d, q) /\ Complete(table, key, q)
      BY <2>1 DEF Stores
    <2>2. CASE Refuse(table) \/ Refuse(Without(table, key))
      BY <2>2 DEF Refuse, Drops
    <2>3. CASE ~ d.fragmented /\ partial' = table /\ Deliver(d.endpoint, d.id, 0, <<d.piece>>)
      BY <1>2, <2>3 DEF PassesOn
    <2>4. CASE /\ d.fragmented /\ HasSlot(table, key)
               /\ old.first # None /\ Complete(table, key, old)
      <3>1. Grows(table, d, old)
        BY <1>0, <2>4 DEF Grows
      <3> QED  BY <2>1, <2>4, <3>1
    <2>5. CASE /\ d.fragmented /\ HasSlot(table, key) /\ old.first = None
               /\ old.bytes + Size(d.piece) <= MaxPacketLength
               /\ Complete(table, key, WithFirst(old, d))
      <3>1. Grows(table, d, WithFirst(old, d))
        BY <1>2, <2>5 DEF Grows
      <3> QED  BY <2>1, <2>5, <3>1
    <2> QED  BY <1>2, <2>2, <2>3, <2>4, <2>5 DEF PushHead
  <1>3. CASE d.kind = "malformed" /\ Refuse(table)
    BY <1>3 DEF Refuse, Drops
  <1> QED  BY <1>1, <1>2, <1>3 DEF Push, Key

(* Expiry keeps some of the slots as they are. *)
LEMMA LiveSlots ==
    /\ DOMAIN Live(partial) \subseteq DOMAIN partial
    /\ \A k \in DOMAIN Live(partial) :
          Live(partial)[k] = partial[k] /\ now - partial[k].created < ReassemblyTTL
    BY DEF Live, Restrict

(* After a push, each slot is one that was live before or the one of the   *)
(* datagram, which misses something.                                       *)
LEMMA SlotsAfter ==
    ASSUME NEW d, Push(d), NEW k \in DOMAIN partial'
    PROVE  \/ k \in DOMAIN Live(partial) /\ partial'[k] = partial[k]
           \/ /\ k = Key(d) /\ ~ IsComplete(partial'[k])
              /\ Grows(Live(partial), d, partial'[k])
  <1> DEFINE table == Live(partial)
  <1>1. CASE partial' = table \/ partial' = Without(table, Key(d))
    BY <1>1, LiveSlots DEF Without, Restrict
  <1>2. CASE Stores(d)
    <2>1. PICK q : Grows(table, d, q) /\ Complete(table, Key(d), q)
      BY <1>2 DEF Stores
    <2>2. CASE IsComplete(q)
      BY <1>1, <2>1, <2>2 DEF Complete
    <2>3. CASE ~ IsComplete(q)
      <3>1. partial' = [x \in DOMAIN table \cup {Key(d)} |-> IF x = Key(d) THEN q ELSE table[x]]
        BY <2>1, <2>3 DEF Complete
      <3>2. CASE k = Key(d)
        BY <2>1, <2>3, <3>1, <3>2
      <3>3. CASE k # Key(d)
        BY <3>1, <3>3, LiveSlots
      <3> QED  BY <3>2, <3>3
    <2> QED  BY <2>2, <2>3
  <1> QED  BY <1>1, <1>2, PushOutcome DEF Drops, PassesOn

(* What a slot keeps and gets from a datagram. *)
LEMMA GrownSlot ==
    ASSUME NEW table, NEW d, NEW q, Grows(table, d, q)
    PROVE  LET old == Slot(table, Key(d)) IN
           /\ q.created = old.created
           /\ q.bytes <= MaxPacketLength \/ (Key(d) \in DOMAIN table /\ q = table[Key(d)])
           /\ q.first = old.first \/ (d.kind = "head" /\ d.fragmented /\ q.first = d.piece)
           /\ \/ q.total = old.total /\ q.fragments = old.fragments
              \/ /\ d.kind = "fragment" /\ ValidNumbering(d) /\ q.total = d.total
                 /\ old.total \in {0, d.total}
                 /\ DOMAIN q.fragments = DOMAIN old.fragments \cup {d.number}
                 /\ \A j \in DOMAIN q.fragments :
                       q.fragments[j] = IF j = d.number THEN d.piece ELSE old.fragments[j]
  <1> DEFINE old == Slot(table, Key(d))
  <1>1. CASE Key(d) \in DOMAIN table /\ q = table[Key(d)]
    BY <1>1 DEF Slot
  <1> HIDE DEF old
  <1>2. CASE /\ d.kind = "fragment" /\ ValidNumbering(d) /\ old.total \in {0, d.total}
             /\ old.bytes + Size(d.piece) <= MaxPacketLength /\ q = WithFragment(old, d)
    BY <1>2 DEF WithFragment, old
  <1>3. CASE /\ d.kind = "head" /\ d.fragmented
             /\ old.bytes + Size(d.piece) <= MaxPacketLength /\ q = WithFirst(old, d)
    BY <1>3 DEF WithFirst, old
  <1> QED  BY <1>1, <1>2, <1>3 DEF Grows, old

-----------------------------------------------------------------------------
(* The slots. *)

\* The part of PartialsWellFormed that is about the numbering alone.
Numbered(q) ==
    /\ q.total \in {0} \cup 2..MaxPacketFragments
    /\ DOMAIN q.fragments \subseteq 1..q.total - 1

(* Fragments are numbered with numbers. *)
LEMMA FragmentNumber ==
    ASSUME NEW d \in InFlight, d.kind = "fragment"
    PROVE  d.number \in Nat
  <1>1. CASE d \in Strays
    BY <1>1
  <1>2. ASSUME NEW p \in sent, d \in FragmentArmored(p)
        PROVE  d.number \in Nat
    <2>1. ~ (d = FirstDatagram(p, FALSE, Piece(p, 0, p.length))
             \/ d = FirstDatagram(p, TRUE, Piece(p, 0, MTU)))
      BY DEF FirstDatagram
    <2>2. PICK j \in 1..TotalFragments(p) - 1 : d = FragmentOf(p, TotalFragments(p), j)
      BY <1>2, <2>1 DEF FragmentArmored
    <2> QED  BY <2>2 DEF FragmentOf
  <1> QED  BY <1>1, <1>2 DEF InFlight

(* A fragment is added only under the total of the slot, and below it. *)
LEMMA GrownNumbered ==
    ASSUME PartialsWellFormed, NEW d \in InFlight, NEW q, Grows(Live(partial), d, q)
    PROVE  Numbered(q)
  <1> DEFINE table == Live(partial)
             old == Slot(table, Key(d))
  <1>1. Numbered(old)
    <2>1. CASE Key(d) \in DOMAIN table
      BY <2>1, LiveSlots DEF Slot, PartialsWellFormed, Numbered
    <2>2. CASE Key(d) \notin DOMAIN table
      BY <2>2, NewSlot DEF Slot, Numbered
    <2> QED  BY <2>1, <2>2
  <1> HIDE DEF old
  <1>2. CASE q.total = old.total /\ q.fragments = old.fragments
    BY <1>1, <1>2 DEF Numbered
  <1>3. CASE /\ d.kind = "fragment" /\ ValidNumbering(d) /\ q.total = d.total
             /\ old.total \in {0, d.total}
             /\ DOMAIN q.fragments = DOMAIN old.fragments \cup {d.number}
    <2>1. /\ d.total \in 2..MaxPacketFragments /\ d.number \in 1..d.total - 1
      BY <1>3, FragmentNumber DEF ValidNumbering
    <2>2. DOMAIN old.fragments \subseteq 1..d.total - 1
      BY <1>1, <1>3, <2>1 DEF Numbered
    <2> QED  BY <1>3, <2>1, <2>2 DEF Numbered
  <1> QED  BY <1>2, <1>3, GrownSlot DEF old

(* However the datagrams of a key contradict each other, an incomplete     *)
(* packet has fragments 1 .. total - 1 of one total and misses some, so    *)
(* that counting them in complete is enough.                               *)
THEOREM SlotsWellFormed == Spec => []PartialsWellFormed
  <1>1. Init => PartialsWellFormed
    BY DEF Init, PartialsWellFormed
  <1>2. PartialsWellFormed /\ [Next]_vars => PartialsWellFormed'
    <2>0. ASSUME PartialsWellFormed, partial' = partial PROVE PartialsWellFormed'
      BY <2>0 DEF PartialsWellFormed, IsComplete
    <2>1. SUFFICES ASSUME PartialsWellFormed, NEW d \in InFlight, Push(d),
                          NEW k \in DOMAIN partial'
                   PROVE  Numbered(partial'[k]) /\ ~ IsComplete(partial'[k])
      <3>1. SUFFICES ASSUME PartialsWellFormed, NEW d \in InFlight, Push(d)
                     PROVE  PartialsWellFormed'
        BY <2>0 DEF Next, Send, Tick, vars
      <3> QED  BY <2>1, <3>1 DEF PartialsWellFormed, Numbered, IsComplete
    <2>2. CASE k \in DOMAIN Live(partial) /\ partial'[k] = partial[k]
      BY <2>1, <2>2, LiveSlots DEF PartialsWellFormed, Numbered
    <2>3. CASE Grows(Live(partial), d, partial'[k]) /\ ~ IsComplete(partial'[k])
      BY <2>1, <2>3, GrownNumbered
    <2> QED  BY <2>1, <2>2, <2>3, SlotsAfter DEF PartialsWellFormed
  <1> QED  BY <1>1, <1>2, PTL DEF Spec

\* The slots are finitely many.
MemoryInvariant == IsFiniteSet(DOMAIN partial) /\ MemoryBounded

(* However many packets are begun and never completed, the reassembler     *)
(* keeps at most maxReassemblySlots of them, each within the budget.       *)
THEOREM MemoryStaysBounded == Spec => []MemoryBounded
  <1>1. Init => MemoryInvariant
    <2>1. SUFFICES ASSUME Init PROVE MemoryInvariant
      OBVIOUS
    <2>2. DOMAIN partial = {}
      BY <2>1 DEF Init
    <2> QED  BY <2>2, FS_EmptySet DEF MemoryInvariant, MemoryBounded
  <1>2. MemoryInvariant /\ [Next]_vars => MemoryInvariant'
    <2>1. SUFFICES ASSUME MemoryInvariant, NEW d \in InFlight, Push(d)
                   PROVE  MemoryInvariant'
      BY DEF Next, Send, Tick, vars, MemoryInvariant, MemoryBounded
    <2> DEFINE table == Live(partial)
    <2>2. /\ IsFiniteSet(DOMAIN table) /\ Cardinality(DOMAIN table) \in Nat
          /\ Cardinality(DOMAIN table) <= MaxReassemblySlots
      <3>1. IsFiniteSet(DOMAIN partial) /\ Cardinality(DOMAIN partial) <= MaxReassemblySlots
        BY <2>1 DEF MemoryInvariant, MemoryBounded
      <3>2. /\ IsFiniteSet(DOMAIN table) /\ Cardinality(DOMAIN table) <= Cardinality(DOMAIN partial)
        BY <3>1, LiveSlots, FS_Subset
      <3> QED  BY <3>1, <3>2, FS_CardinalityType
    <2>3. IsFiniteSet(DOMAIN partial') /\ Cardinality(DOMAIN partial') <= MaxReassemblySlots
      <3>1. ASSUME DOMAIN partial' \subseteq DOMAIN table
            PROVE  IsFiniteSet(DOMAIN partial') /\ Cardinality(DOMAIN partial') <= MaxReassemblySlots
        <4>1. /\ IsFiniteSet(DOMAIN partial')
              /\ Cardinality(DOMAIN partial') <= Cardinality(DOMAIN table)
          BY <2>2, <3>1, FS_Subset
        <4>2. Cardinality(DOMAIN partial') \in Nat
          BY <4>1, FS_CardinalityType
        <4> QED  BY <2>2, <4>1, <4>2
      <3>2. DOMAIN Without(table, Key(d)) \subseteq DOMAIN table
        BY DEF Without, Restrict
      <3>3. CASE Stores(d)
        <4>1. PICK q : Grows(table, d, q) /\ Complete(table, Key(d), q)
          BY <3>3 DEF Stores
        <4>2. CASE IsComplete(q)
          BY <3>1, <3>2, <4>1, <4>2 DEF Complete
        <4>3. CASE ~ IsComplete(q)
          <5>1. DOMAIN partial' = DOMAIN table \cup {Key(d)}
            BY <4>1, <4>3 DEF Complete
          <5>2. \/ Key(d) \in DOMAIN table
                \/ Cardinality(DOMAIN table) < MaxReassemblySlots
            BY <4>1 DEF Grows, HasSlot
          <5>3. /\ IsFiniteSet(DOMAIN partial')
                /\ \/ Cardinality(DOMAIN partial') = Cardinality(DOMAIN table)
                   \/ /\ Cardinality(DOMAIN partial') = Cardinality(DOMAIN table) + 1
                      /\ Key(d) \notin DOMAIN table
            BY <2>2, <5>1, FS_AddElement
          <5> HIDE DEF table
          <5> QED  BY <2>2, <5>2, <5>3
        <4> QED  BY <4>2, <4>3
      <3> QED  BY <2>1, <3>1, <3>2, <3>3, PushOutcome DEF Drops, PassesOn
    <2>4. ASSUME NEW k \in DOMAIN partial'
          PROVE  partial'[k].bytes <= MaxPacketLength
      <3>1. \A x \in DOMAIN table : table[x].bytes <= MaxPacketLength /\ table[x] = partial[x]
        BY <2>1, LiveSlots DEF MemoryInvariant, MemoryBounded
      <3> HIDE DEF table
      <3>2. CASE k \in DOMAIN table /\ partial'[k] = partial[k]
        BY <3>1, <3>2
      <3>3. CASE Grows(table, d, partial'[k])
        BY <3>1, <3>3, GrownSlot
      <3> QED  BY <2>1, <2>4, <3>2, <3>3, SlotsAfter DEF table
    <2> QED  BY <2>3, <2>4 DEF MemoryInvariant, MemoryBounded
  <1>3. MemoryInvariant => MemoryBounded
    BY DEF MemoryInvariant
  <1> QED  BY <1>1, <1>2, <1>3, PTL DEF Spec

\* The times are numbers.
ExpiryInvariant ==
    /\ now \in Nat /\ \A k \in DOMAIN partial : partial[k].created \in Nat
    /\ ExpiresInTime

(* Fragments that are put together arrived within reassemblyTTL, and no    *)
(* older slot is left after a push, although only push looks at the clock. *)
THEOREM SlotsExpire == Spec => []ExpiresInTime
  <1>1. Init => ExpiryInvariant
    BY DEF Init, ExpiryInvariant, ExpiresInTime
  <1>2. ExpiryInvariant /\ [Next]_vars => ExpiryInvariant'
    <2>0. SUFFICES ASSUME ExpiryInvariant, NEW d \in InFlight, Push(d)
                   PROVE  ExpiryInvariant'
      BY DEF Next, Send, Tick, vars, ExpiryInvariant, ExpiresInTime
    <2> DEFINE table == Live(partial)
    <2>1. now \in Nat /\ now' = now /\ lastPush' = now
      BY <2>0 DEF ExpiryInvariant, Push
    <2>2. ASSUME NEW q, Grows(table, d, q)
          PROVE  q.created \in Nat /\ now - q.created < ReassemblyTTL
      <3>1. q.created = Slot(table, Key(d)).created
        BY <2>2, GrownSlot
      <3>2. CASE Key(d) \in DOMAIN table
        BY <2>0, <3>1, <3>2, LiveSlots DEF Slot, ExpiryInvariant
      <3>3. CASE Key(d) \notin DOMAIN table
        BY <2>1, <3>1, <3>3, NewSlot DEF Slot
      <3> QED  BY <3>2, <3>3
    <2>3. ASSUME NEW k \in DOMAIN partial'
          PROVE  partial'[k].created \in Nat /\ lastPush' - partial'[k].created < ReassemblyTTL
      <3>1. CASE k \in DOMAIN table /\ partial'[k] = partial[k]
        BY <2>0, <2>1, <3>1, LiveSlots DEF ExpiryInvariant
      <3>2. CASE Grows(table, d, partial'[k])
        BY <2>1, <2>2, <3>2
      <3> QED  BY <2>0, <2>3, <3>1, <3>2, SlotsAfter
    <2>4. ASSUME NEW a \in delivered'
          PROVE  a.age < ReassemblyTTL
      <3>1. CASE a \in delivered
        BY <2>0, <3>1 DEF ExpiryInvariant, ExpiresInTime
      <3>2. CASE PassesOn(d)
        <4>1. a \in delivered \/ a.age = 0
          BY <2>4, <3>2 DEF PassesOn, Deliver
        <4> QED  BY <3>1, <4>1
      <3>3. CASE Stores(d)
        <4>1. PICK q : Grows(table, d, q) /\ Complete(table, Key(d), q)
          BY <3>3 DEF Stores
        <4>2. a \in delivered \/ a.age = now - q.created
          BY <2>4, <4>1 DEF Complete, Deliver
        <4> QED  BY <2>2, <3>1, <4>1, <4>2
      <3> QED  BY <2>0, <2>4, <3>1, <3>2, <3>3, PushOutcome DEF Drops
    <2> QED  BY <2>1, <2>3, <2>4 DEF ExpiryInvariant, ExpiresInTime
  <1>3. ExpiryInvariant => ExpiresInTime
    BY DEF ExpiryInvariant
  <1> QED  BY <1>1, <1>2, <1>3, PTL DEF Spec

-----------------------------------------------------------------------------
(* Fragmentation. *)

(* Rounding up. *)
LEMMA RoundsUp ==
    ASSUME NEW m \in Nat \ {0}, NEW f \in Nat \ {0}, NEW n, n = (m + f - 1) \div f
    PROVE  n \in Nat \ {0} /\ n * f - f < m /\ m <= n * f
  <1>1. n \in Int /\ f * n <= m + f - 1 /\ m + f - 1 < f * n + f
    OBVIOUS
  <1>2. n * f = f * n /\ f * n \in Int
    BY <1>1
  <1>3. m <= n * f /\ n * f - f < m
    BY <1>1, <1>2
  <1>4. n > 0
    BY <1>1, <1>2, <1>3
  <1> QED  BY <1>1, <1>3, <1>4

(* Multiples grow. *)
LEMMA MultiplesGrow ==
    ASSUME NEW f \in Nat, NEW n \in Nat, NEW j \in Nat, j + 1 <= n
    PROVE  j * f + f <= n * f
  <1>1. n * f = (j + 1) * f + (n - (j + 1)) * f
    OBVIOUS
  <1>2. (n - (j + 1)) * f >= 0
    OBVIOUS
  <1> QED  BY <1>1, <1>2

Start(j) == MTU + (j - 1) * FragmentPayload

(* The fragments of a packet: each but the last is full, and the last ends *)
(* with the packet.                                                        *)
LEMMA FragmentRanges ==
    ASSUME NEW p, p.length \in Nat, p.length > MTU
    PROVE  LET T == TotalFragments(p) IN
           /\ T \in Nat /\ T >= 2
           /\ Start(1) = MTU
           /\ \A j \in 1..T - 1 :
                 LET piece == FragmentOf(p, T, j).piece IN
                 /\ piece.of = p /\ piece.from = Start(j)
                 /\ j < T - 1 => piece.to = Start(j + 1)
                 /\ j = T - 1 => piece.to = p.length
  <1> DEFINE F == FragmentPayload
             T == TotalFragments(p)
             m == p.length - MTU
             n == (m + F - 1) \div F
  <1>1. F \in Nat \ {0} /\ m \in Nat \ {0}
    BY DEF FragmentPayload
  <1>2. T = 1 + n
    BY DEF TotalFragments
  <1> HIDE DEF F, m
  <1>3. n \in Nat \ {0} /\ n * F - F < m /\ m <= n * F
    BY <1>1, RoundsUp
  <1>4. T \in Nat /\ T >= 2 /\ T - 1 = n
    BY <1>2, <1>3
  <1> HIDE DEF n, T
  <1>5. Start(1) = MTU
    BY <1>1 DEF Start, F
  <1>6. ASSUME NEW j \in 1..T - 1
        PROVE  LET piece == FragmentOf(p, T, j).piece IN
               /\ piece.of = p /\ piece.from = Start(j)
               /\ j < T - 1 => piece.to = Start(j + 1)
               /\ j = T - 1 => piece.to = p.length
    <2> DEFINE piece == FragmentOf(p, T, j).piece
    <2>1. /\ piece.of = p /\ piece.from = Start(j)
          /\ piece.to = Smaller(Start(j) + F, p.length)
      BY DEF FragmentOf, Piece, Start, F
    <2>2. j \in Nat /\ j * F \in Int /\ n * F \in Int /\ Start(j) = MTU + j * F - F
          /\ Start(j + 1) = MTU + j * F
      BY <1>1, <1>4, <1>6 DEF Start, F
    <2>3. p.length = MTU + m
      BY DEF m
    <2> HIDE DEF piece
    <2>4. ASSUME j < T - 1 PROVE piece.to = Start(j + 1)
      <3>1. j * F + F <= n * F
        BY <1>1, <1>3, <1>4, <2>2, <2>4, MultiplesGrow
      <3> QED  BY <1>1, <1>3, <2>1, <2>2, <2>3, <3>1 DEF Smaller
    <2>5. ASSUME j = T - 1 PROVE piece.to = p.length
      BY <1>1, <1>3, <1>4, <2>1, <2>2, <2>3, <2>5 DEF Smaller
    <2> QED  BY <2>1, <2>4, <2>5 DEF piece
  <1> QED  BY <1>4, <1>5, <1>6 DEF T

-----------------------------------------------------------------------------
(* The bytes. *)

\* What the slot q retains is counted in numbers and as it is retained.
Accounted(q) ==
    /\ q.first # None => Size(q.first) \in Int
    /\ \A j \in DOMAIN q.fragments : Size(q.fragments[j]) \in Int
    /\ q.bytes = RetainedBytes(q)

AccountInvariant == \A key \in DOMAIN partial : Accounted(partial[key])

(* Datagrams that are stored have a size and are not nil. *)
LEMMA DatagramSize ==
    ASSUME NEW d \in InFlight, sent \subseteq Packets,
           d.kind = "fragment" \/ (d.kind = "head" /\ d.fragmented)
    PROVE  /\ Size(d.piece) \in Int
           /\ d.kind = "head" => d.piece # None
  <1>1. CASE d \in Strays
    BY <1>1, PiecesAssumption
  <1>2. ASSUME NEW p \in Packets, d \in FragmentArmored(p)
        PROVE  Size(d.piece) \in Int /\ (d.kind = "head" => d.piece # None)
    <2>1. p.length \in Nat
      OBVIOUS
    <2>2. d # FirstDatagram(p, FALSE, Piece(p, 0, p.length))
      BY DEF FirstDatagram
    <2>3. CASE d = FirstDatagram(p, TRUE, Piece(p, 0, MTU))
      <3>1. d.piece = Piece(p, 0, MTU)
        BY <2>3 DEF FirstDatagram
      <3>2. d.piece # None
        BY <3>1, PiecesAssumption
      <3>3. Size(d.piece) = MTU - 0
        BY <3>1 DEF Piece, Size
      <3> QED  BY <3>2, <3>3
    <2>4. CASE \E j \in 1..TotalFragments(p) - 1 : d = FragmentOf(p, TotalFragments(p), j)
      <3>1. PICK j \in 1..TotalFragments(p) - 1 : d = FragmentOf(p, TotalFragments(p), j)
        BY <2>4
      <3> DEFINE offset == MTU + (j - 1) * FragmentPayload
                 end == Smaller(offset + FragmentPayload, p.length)
      <3>2. FragmentPayload \in Int
        BY DEF FragmentPayload
      <3>3. offset \in Int
        BY <3>2
      <3>4. end \in Int
        BY <2>1, <3>2, <3>3 DEF Smaller
      <3>5. d.kind = "fragment" /\ d.piece = Piece(p, offset, end)
        BY <3>1 DEF FragmentOf
      <3>6. Size(d.piece) = end - offset
        BY <3>5 DEF Piece, Size
      <3> QED  BY <3>3, <3>4, <3>5, <3>6
    <2> QED  BY <1>2, <2>2, <2>3, <2>4 DEF FragmentArmored
  <1> QED  BY <1>1, <1>2 DEF InFlight

(* A slot counts what it gets, once. *)
LEMMA GrownAccounted ==
    ASSUME PartialsWellFormed, AccountInvariant, sent \subseteq Packets,
           NEW d \in InFlight, NEW q, Grows(Live(partial), d, q)
    PROVE  Accounted(q)
  <1> DEFINE table == Live(partial)
             old == Slot(table, Key(d))
             Sizes(x) == [j \in DOMAIN x.fragments |-> Size(x.fragments[j])]
             D == DOMAIN old.fragments
             FirstSize(x) == IF x.first = None THEN 0 ELSE Size(x.first)
  <1>1. CASE Key(d) \in DOMAIN table /\ q = table[Key(d)]
    BY <1>1, LiveSlots DEF AccountInvariant
  <1>2. /\ Accounted(old) /\ IsFiniteSet(D)
    <2>1. CASE Key(d) \in DOMAIN table
      <3>1. old = partial[Key(d)] /\ Key(d) \in DOMAIN partial
        BY <2>1, LiveSlots DEF Slot
      <3>2. D \subseteq 1..old.total - 1 /\ old.total \in Int
        BY <3>1 DEF PartialsWellFormed
      <3>3. IsFiniteSet(1..old.total - 1)
        BY <3>2, FS_Interval
      <3> QED  BY <3>1, <3>2, <3>3, FS_Subset DEF AccountInvariant
    <2>2. CASE Key(d) \notin DOMAIN table
      <3>1. old = NewPartial
        BY <2>2 DEF Slot
      <3>2. old.first = None /\ old.bytes = 0 /\ D = {} /\ IsFiniteSet({})
        BY <3>1, NewSlot, FS_EmptySet
      <3>3. SumFunctionOnSet(Sizes(old), {}) = 0
        BY <3>2, SumByChosen
      <3>4. SumFunction(Sizes(old)) = 0
        BY <3>2, <3>3 DEF SumFunction
      <3>5. RetainedBytes(old) = 0
        BY <3>2, <3>4 DEF RetainedBytes
      <3> QED  BY <3>2, <3>5 DEF Accounted
    <2> QED  BY <2>1, <2>2
  <1>3. /\ SumFunction(Sizes(old)) = SumFunctionOnSet(Sizes(old), D)
        /\ SumFunctionOnSet(Sizes(old), D) \in Int
        /\ FirstSize(old) \in Int
        /\ old.bytes = FirstSize(old) + SumFunctionOnSet(Sizes(old), D)
    <2>1. \A j \in D : Sizes(old)[j] \in Int
      BY <1>2 DEF Accounted
    <2>2. SumFunctionOnSet(Sizes(old), D) \in Int
      BY <1>2, <2>1, SumByElement
    <2>3. SumFunction(Sizes(old)) = SumFunctionOnSet(Sizes(old), D)
      BY DEF SumFunction
    <2>4. old.bytes = FirstSize(old) + SumFunction(Sizes(old))
      BY <1>2 DEF Accounted, RetainedBytes
    <2> QED  BY <1>2, <2>2, <2>3, <2>4 DEF Accounted
  <1>4. CASE /\ d.kind = "fragment" /\ ValidNumbering(d)
             /\ d.number \notin D /\ q = WithFragment(old, d)
    <2> DEFINE n == d.number
               w == Size(d.piece)
               rest == SumFunctionOnSet(Sizes(old), D)
    <2>1. /\ q.first = old.first /\ q.bytes = old.bytes + w
          /\ DOMAIN q.fragments = D \cup {n}
          /\ q.fragments[n] = d.piece
          /\ \A j \in D : q.fragments[j] = old.fragments[j]
      BY <1>4 DEF WithFragment
    <2>2. w \in Int
      BY <1>4, DatagramSize
    <2>3. \A j \in D : Sizes(q)[j] = Sizes(old)[j]
      BY <2>1
    <2>4. Sizes(q)[n] = w
      BY <2>1
    <2>5. \A j \in D \cup {n} : Sizes(q)[j] \in Int /\ Size(q.fragments[j]) \in Int
      BY <1>2, <2>1, <2>2 DEF Accounted
    <2>6. IsFiniteSet(D \cup {n}) /\ (D \cup {n}) \ {n} = D
      BY <1>2, <1>4, FS_AddElement
    <2>7. SumFunctionOnSet(Sizes(q), D \cup {n}) = w + SumFunctionOnSet(Sizes(q), D)
      <3> DEFINE f == Sizes(q)
                 E == D \cup {n}
      <3>1. IsFiniteSet(E) /\ n \in E /\ \A j \in E : f[j] \in Int
        BY <2>5, <2>6
      <3> HIDE DEF f, E
      <3>2. SumFunctionOnSet(f, E) = f[n] + SumFunctionOnSet(f, E \ {n})
        BY <3>1, SumByElement
      <3> QED  BY <2>4, <2>6, <3>2 DEF f, E
    <2>8. SumFunctionOnSet(Sizes(q), D) = rest
      <3> DEFINE f == Sizes(q)
                 g == Sizes(old)
      <3>1. \A j \in D : f[j] = g[j]
        BY <2>3
      <3> HIDE DEF f, g, D
      <3>2. SumFunctionOnSet(f, D) = SumFunctionOnSet(g, D)
        BY <1>2, <3>1, SumOfEqualValues
      <3> QED  BY <3>2 DEF f, g
    <2>9. SumFunction(Sizes(q)) = SumFunctionOnSet(Sizes(q), D \cup {n})
      BY <2>1 DEF SumFunction
    <2>10. RetainedBytes(q) = FirstSize(q) + SumFunction(Sizes(q))
      BY DEF RetainedBytes
    <2>11. FirstSize(q) = FirstSize(old)
      BY <2>1
    <2>12. q.first # None => Size(q.first) \in Int
      BY <1>2, <2>1 DEF Accounted
    <2>13. /\ RetainedBytes(q) = FirstSize(old) + (w + rest)
           /\ old.bytes = FirstSize(old) + rest /\ FirstSize(old) \in Int /\ rest \in Int
      BY <1>3, <2>7, <2>8, <2>9, <2>10, <2>11
    <2>14. \A j \in DOMAIN q.fragments : Size(q.fragments[j]) \in Int
      BY <2>1, <2>5
    <2> HIDE DEF rest, w, FirstSize, old, n
    <2>15. q.bytes = RetainedBytes(q)
      BY <2>1, <2>2, <2>13
    <2> QED  BY <2>12, <2>14, <2>15 DEF Accounted
  <1>5. CASE /\ d.kind = "head" /\ d.fragmented /\ old.first = None
             /\ q = WithFirst(old, d)
    <2> DEFINE w == Size(d.piece)
               rest == SumFunctionOnSet(Sizes(old), D)
    <2>1. /\ q.first = d.piece /\ q.bytes = old.bytes + w /\ q.fragments = old.fragments
      BY <1>5 DEF WithFirst
    <2>2. w \in Int /\ d.piece # None
      BY <1>5, DatagramSize
    <2>3. RetainedBytes(q) = w + SumFunction(Sizes(old))
      BY <2>1, <2>2 DEF RetainedBytes
    <2>4. FirstSize(old) = 0
      BY <1>5
    <2>5. RetainedBytes(q) = w + rest /\ old.bytes = 0 + rest /\ rest \in Int
      BY <1>3, <2>3, <2>4
    <2>6. /\ q.first # None => Size(q.first) \in Int
          /\ \A j \in DOMAIN q.fragments : Size(q.fragments[j]) \in Int
      BY <1>2, <2>1, <2>2 DEF Accounted
    <2> HIDE DEF rest, w, old
    <2>7. q.bytes = RetainedBytes(q)
      BY <2>1, <2>2, <2>5
    <2> QED  BY <2>6, <2>7 DEF Accounted
  <1> QED  BY <1>1, <1>4, <1>5 DEF Grows

(* What a slot retains is counted once, however often its datagrams are    *)
(* repeated, and nothing else is: the budget that push compares with the   *)
(* limit is the memory in use.                                             *)
THEOREM BytesAreAccounted == Spec => []BytesAccounted
  <1> DEFINE Inv == sent \subseteq Packets /\ AccountInvariant
  <1>1. Init => Inv
    BY DEF Init, AccountInvariant
  <1>2. PartialsWellFormed /\ Inv /\ [Next]_vars => Inv'
    <2>0. SUFFICES ASSUME PartialsWellFormed, Inv, NEW d \in InFlight, Push(d)
                   PROVE  Inv'
      BY DEF Next, Send, Tick, vars, AccountInvariant, Accounted, RetainedBytes
    <2>1. sent' = sent
      BY <2>0 DEF Push
    <2>2. ASSUME NEW k \in DOMAIN partial'
          PROVE  Accounted(partial'[k])
      <3>1. CASE k \in DOMAIN Live(partial) /\ partial'[k] = partial[k]
        BY <2>0, <3>1, LiveSlots DEF AccountInvariant
      <3>2. CASE Grows(Live(partial), d, partial'[k])
        BY <2>0, <3>2, GrownAccounted
      <3> QED  BY <2>0, <2>2, <3>1, <3>2, SlotsAfter
    <2> QED  BY <2>0, <2>1, <2>2 DEF AccountInvariant, Accounted, RetainedBytes
  <1>3. Inv => BytesAccounted
    BY DEF AccountInvariant, Accounted, BytesAccounted
  <1> QED  BY <1>1, <1>2, <1>3, SlotsWellFormed, PTL DEF Spec

-----------------------------------------------------------------------------
(* Whole packets. *)

\* No two packets have the same endpoint and packet ID, and nobody else sends
\* datagrams with theirs.
KeysUnique ==
    /\ \A p, r \in Packets : p.endpoint = r.endpoint /\ p.id = r.id => p = r
    /\ \A d \in Strays, p \in Packets : ~ (d.endpoint = p.endpoint /\ d.id = p.id)

\* q holds pieces of p only, each in its place.
HoldsOf(p, q) ==
    /\ p.length > MTU
    /\ q.first \in {None, Piece(p, 0, MTU)}
    /\ q.total \in {0, TotalFragments(p)}
    /\ \A j \in DOMAIN q.fragments : q.fragments[j] = FragmentOf(p, TotalFragments(p), j).piece

WholeInvariant ==
    /\ sent \subseteq Packets
    /\ \A p \in Packets : Key(p) \in DOMAIN partial => HoldsOf(p, partial[Key(p)])
    /\ \A a \in delivered, p \in Packets :
          a.endpoint = p.endpoint /\ a.id = p.id => Tiles(a.pieces, p)

(* A datagram with the key of a packet is one of its fragments. *)
LEMMA DatagramOf ==
    ASSUME KeysUnique, sent \subseteq Packets, NEW d \in InFlight, NEW p \in Packets,
           Key(d) = Key(p)
    PROVE  \/ /\ p.length <= MTU
              /\ d.kind = "head" /\ ~ d.fragmented /\ d.piece = Piece(p, 0, p.length)
           \/ /\ p.length > MTU
              /\ \/ d.kind = "head" /\ d.fragmented /\ d.piece = Piece(p, 0, MTU)
                 \/ /\ d.kind = "fragment" /\ d.total = TotalFragments(p)
                    /\ d.piece = FragmentOf(p, TotalFragments(p), d.number).piece
  <1>1. d.endpoint = p.endpoint /\ d.id = p.id
    BY DEF Key
  <1>2. PICK r \in sent : d \in FragmentArmored(r)
    BY <1>1 DEF KeysUnique, InFlight
  <1>3. d.endpoint = r.endpoint /\ d.id = r.id
    BY <1>2 DEF FragmentArmored, FirstDatagram, FragmentOf
  <1>4. r = p
    BY <1>1, <1>3 DEF KeysUnique
  <1>5. p.length \in Nat
    OBVIOUS
  <1>6. CASE p.length <= MTU
    BY <1>2, <1>4, <1>6 DEF FragmentArmored, FirstDatagram
  <1>7. CASE ~ (p.length <= MTU)
    <2>1. p.length > MTU
      BY <1>5, <1>7
    <2>2. CASE d = FirstDatagram(p, TRUE, Piece(p, 0, MTU))
      BY <2>1, <2>2 DEF FirstDatagram
    <2>3. CASE \E j \in 1..TotalFragments(p) - 1 : d = FragmentOf(p, TotalFragments(p), j)
      <3>1. PICK j \in 1..TotalFragments(p) - 1 : d = FragmentOf(p, TotalFragments(p), j)
        BY <2>3
      <3>2. d.kind = "fragment" /\ d.total = TotalFragments(p) /\ d.number = j
        BY <3>1 DEF FragmentOf
      <3> QED  BY <2>1, <3>1, <3>2
    <2> QED  BY <1>2, <1>4, <1>7, <2>2, <2>3 DEF FragmentArmored
  <1> QED  BY <1>6, <1>7

(* A slot gets only what belongs to its packet. *)
LEMMA GrownHolds ==
    ASSUME KeysUnique, WholeInvariant, NEW d \in InFlight, NEW q, Grows(Live(partial), d, q),
           NEW p \in Packets, Key(d) = Key(p)
    PROVE  HoldsOf(p, q)
  <1> DEFINE table == Live(partial)
             old == Slot(table, Key(d))
             T == TotalFragments(p)
  <1>1. CASE Key(d) \in DOMAIN table /\ q = table[Key(d)]
    BY <1>1, LiveSlots DEF WholeInvariant
  <1>2. \/ d.kind = "head" /\ d.fragmented
        \/ d.kind = "fragment"
        \/ Key(d) \in DOMAIN table /\ q = table[Key(d)]
    BY DEF Grows
  <1>3. SUFFICES ASSUME d.kind = "fragment" \/ (d.kind = "head" /\ d.fragmented)
                 PROVE  HoldsOf(p, q)
    BY <1>1, <1>2
  <1>4. /\ p.length > MTU
        /\ d.kind = "head" => d.piece = Piece(p, 0, MTU)
        /\ d.kind = "fragment" => d.total = T /\ d.piece = FragmentOf(p, T, d.number).piece
    <2>1. sent \subseteq Packets
      BY DEF WholeInvariant
    <2> QED  BY <1>3, <2>1, DatagramOf
  <1>5. /\ old.first \in {None, Piece(p, 0, MTU)}
        /\ old.total \in {0, T}
        /\ \A j \in DOMAIN old.fragments : old.fragments[j] = FragmentOf(p, T, j).piece
    <2>1. CASE Key(d) \in DOMAIN table
      BY <2>1, LiveSlots DEF Slot, WholeInvariant, HoldsOf
    <2>2. CASE Key(d) \notin DOMAIN table
      BY <2>2, NewSlot DEF Slot
    <2> QED  BY <2>1, <2>2
  <1> HIDE DEF old
  <1>6. q.first \in {None, Piece(p, 0, MTU)}
    BY <1>4, <1>5, GrownSlot DEF old
  <1>7. q.total \in {0, T} /\ \A j \in DOMAIN q.fragments : q.fragments[j] = FragmentOf(p, T, j).piece
    <2>1. CASE q.total = old.total /\ q.fragments = old.fragments
      BY <1>5, <2>1
    <2>2. CASE /\ d.kind = "fragment" /\ q.total = d.total
               /\ DOMAIN q.fragments = DOMAIN old.fragments \cup {d.number}
               /\ \A j \in DOMAIN q.fragments :
                     q.fragments[j] = IF j = d.number THEN d.piece ELSE old.fragments[j]
      <3> HIDE DEF T
      <3> QED  BY <1>4, <1>5, <2>2
    <2> QED  BY <2>1, <2>2, GrownSlot DEF old
  <1> QED  BY <1>4, <1>6, <1>7 DEF HoldsOf

(* The pieces of a complete slot make up its packet. *)
LEMMA CompleteTiles ==
    ASSUME NEW p \in Packets, NEW q, HoldsOf(p, q), Numbered(q), IsComplete(q)
    PROVE  Tiles(Assembled(q), p)
  <1> DEFINE T == TotalFragments(p)
             rest == [j \in 1..T - 1 |-> q.fragments[j]]
             pieces == <<q.first>> \o rest
  <1>1. q.total = T /\ q.first = Piece(p, 0, MTU)
    BY DEF HoldsOf, IsComplete
  <1>2. /\ T \in Nat /\ T >= 2 /\ Start(1) = MTU
        /\ \A j \in 1..T - 1 :
              LET piece == FragmentOf(p, T, j).piece IN
              /\ piece.of = p /\ piece.from = Start(j)
              /\ j < T - 1 => piece.to = Start(j + 1)
              /\ j = T - 1 => piece.to = p.length
    BY FragmentRanges DEF HoldsOf
  <1>3. \A j \in DOMAIN q.fragments : q.fragments[j] = FragmentOf(p, T, j).piece
    BY DEF HoldsOf
  <1>4. Assembled(q) = pieces
    BY <1>1 DEF Assembled
  <1> HIDE DEF T
  <1>5. DOMAIN q.fragments = 1..T - 1
    <2>1. DOMAIN q.fragments \subseteq 1..T - 1 /\ Cardinality(DOMAIN q.fragments) = T - 1
      BY <1>1 DEF Numbered, IsComplete
    <2>2. IsFiniteSet(1..T - 1) /\ Cardinality(1..T - 1) = T - 1
      <3> DEFINE b == T - 1
      <3>1. 1 \in Int /\ b \in Int /\ ~ (1 > b)
        BY <1>2
      <3> HIDE DEF b
      <3>2. IsFiniteSet(1..b) /\ Cardinality(1..b) = b - 1 + 1
        BY <3>1, FS_Interval
      <3>3. b - 1 + 1 = b
        BY <3>1
      <3> QED  BY <3>2, <3>3 DEF b
    <2> QED  BY <2>1, <2>2, FS_Subset
  <1>6. /\ Len(pieces) = T
        /\ pieces[1] = q.first
        /\ \A j \in 1..T - 1 : pieces[j + 1] = FragmentOf(p, T, j).piece
    BY <1>2, <1>3, <1>5
  <1> HIDE DEF pieces
  <1>7. q.first.of = p /\ q.first.from = 0 /\ q.first.to = MTU
    BY <1>1 DEF Piece
  <1>8. ASSUME NEW j \in 1..T
        PROVE  /\ pieces[j].of = p
               /\ pieces[j].from = IF j = 1 THEN 0 ELSE Start(j - 1)
               /\ pieces[j].to = IF j = T THEN p.length ELSE Start(j)
    <2>1. CASE j = 1
      BY <1>2, <1>6, <1>7, <2>1
    <2>2. CASE j # 1
      <3> DEFINE i == j - 1
      <3>1. i \in 1..T - 1 /\ j = i + 1
        BY <1>2, <2>2
      <3> HIDE DEF i
      <3>2. pieces[j] = FragmentOf(p, T, i).piece
        BY <1>6, <3>1
      <3>3. /\ pieces[j].of = p /\ pieces[j].from = Start(i)
            /\ i < T - 1 => pieces[j].to = Start(i + 1)
            /\ i = T - 1 => pieces[j].to = p.length
        BY <1>2, <3>1, <3>2
      <3>4. j - 1 = i /\ (i < T - 1 \/ i = T - 1) /\ (i = T - 1 <=> j = T)
        BY <1>2, <3>1
      <3> QED  BY <2>2, <3>1, <3>3, <3>4
    <2> QED  BY <2>1, <2>2
  <1>9. ASSUME NEW j \in 1..T - 1
        PROVE  pieces[j].to = pieces[j + 1].from
    <2>1. j \in 1..T /\ j + 1 \in 1..T /\ j # T /\ j + 1 # 1 /\ (j + 1) - 1 = j
      BY <1>2
    <2> QED  BY <1>8, <2>1
  <1>10. 1 \in 1..T /\ T \in 1..T
    BY <1>2
  <1> QED  BY <1>4, <1>6, <1>8, <1>9, <1>10 DEF Tiles

(* Whatever is lost, repeated, reordered, expired or refused on the way,   *)
(* what push returns for a packet is the packet, whole and in order.       *)
THEOREM WholePackets ==
    ASSUME KeysUnique
    PROVE  Spec => []DeliversWholePackets
  <1>1. Init => WholeInvariant
    BY DEF Init, WholeInvariant
  <1>2. PartialsWellFormed /\ WholeInvariant /\ [Next]_vars => WholeInvariant'
    <2>0. SUFFICES ASSUME PartialsWellFormed, WholeInvariant, NEW d \in InFlight, Push(d)
                   PROVE  WholeInvariant'
      <3>1. ASSUME WholeInvariant, UNCHANGED <<partial, delivered>>,
                   sent' = sent \/ \E p \in Packets : sent' = sent \cup {p}
            PROVE  WholeInvariant'
        BY <3>1 DEF WholeInvariant, HoldsOf, Tiles
      <3> QED  BY <3>1 DEF Next, Send, Tick, vars
    <2> DEFINE table == Live(partial)
    <2>1. sent' = sent /\ sent \subseteq Packets
      BY <2>0 DEF Push, WholeInvariant
    <2>2. ASSUME NEW p \in Packets, Key(p) \in DOMAIN partial'
          PROVE  HoldsOf(p, partial'[Key(p)])
      <3>1. CASE Key(p) \in DOMAIN table /\ partial'[Key(p)] = partial[Key(p)]
        BY <2>0, <3>1, LiveSlots DEF WholeInvariant
      <3>2. CASE Key(p) = Key(d) /\ Grows(table, d, partial'[Key(p)])
        BY <2>0, <3>2, GrownHolds
      <3> QED  BY <2>0, <2>2, <3>1, <3>2, SlotsAfter
    <2>3. ASSUME NEW a \in delivered', NEW p \in Packets, a.endpoint = p.endpoint, a.id = p.id
          PROVE  Tiles(a.pieces, p)
      <3>1. CASE a \in delivered
        BY <2>0, <2>3, <3>1 DEF WholeInvariant
      <3>2. CASE a \notin delivered /\ PassesOn(d)
        <4>1. /\ d.kind = "head" /\ ~ d.fragmented
              /\ a.endpoint = d.endpoint /\ a.id = d.id /\ a.pieces = <<d.piece>>
          BY <2>3, <3>2 DEF PassesOn, Deliver
        <4>2. Key(d) = Key(p)
          BY <2>3, <4>1 DEF Key
        <4>3. d.piece = Piece(p, 0, p.length)
          BY <2>0, <2>1, <4>1, <4>2, DatagramOf
        <4>4. d.piece.of = p /\ d.piece.from = 0 /\ d.piece.to = p.length
          BY <4>3 DEF Piece
        <4> QED  BY <4>1, <4>4 DEF Tiles
      <3>3. CASE a \notin delivered /\ Stores(d)
        <4>1. PICK q : Grows(table, d, q) /\ Complete(table, Key(d), q)
          BY <3>3 DEF Stores
        <4>2. /\ IsComplete(q) /\ a.pieces = Assembled(q)
              /\ a.endpoint = Key(d)[1] /\ a.id = Key(d)[2]
          BY <2>3, <3>3, <4>1 DEF Complete, Deliver
        <4>3. Key(d) = Key(p)
          BY <2>3, <4>2 DEF Key
        <4>4. HoldsOf(p, q) /\ Numbered(q)
          BY <2>0, <4>1, <4>3, GrownHolds, GrownNumbered
        <4> QED  BY <4>2, <4>4, CompleteTiles
      <3> QED  BY <2>0, <2>3, <3>1, <3>2, <3>3, PushOutcome DEF Drops
    <2> QED  BY <2>1, <2>2, <2>3 DEF WholeInvariant, Tiles
  <1>3. WholeInvariant => DeliversWholePackets
    BY DEF WholeInvariant, DeliversWholePackets
  <1> QED  BY <1>1, <1>2, <1>3, SlotsWellFormed, PTL DEF Spec
=============================================================================
