-------------------------- MODULE AgentStore_proofs --------------------------
(***************************************************************************)
(* Proofs about the agent's store and its outbox, for any workflows,       *)
(* sessions, event sizes, ring bounds and drain limits.                    *)
(***************************************************************************)
EXTENDS AgentStore, SequenceTheorems, FiniteSetTheorems, WellFoundedInduction, TLAPS

-----------------------------------------------------------------------------
(* Extremes of sets of naturals.                                            *)

\* A set of naturals has a least element.
LEMMA Least ==
    ASSUME NEW S, S \subseteq Nat, S # {}
    PROVE  \E m \in S : \A k \in S : m <= k
  <1>1. PICK m \in S : \A k \in S : ~(<<k, m>> \in OpToRel(<, Nat))
    BY NatLessThanWellFounded, WFMin, Zenon
  <1>2. ASSUME NEW k \in S PROVE m <= k
    <2>1. <<k, m>> \in Nat \X Nat
      OBVIOUS
    <2>2. ~(k < m)
      BY <1>1, <2>1 DEF OpToRel
    <2>. QED
      BY <2>2
  <1>. QED
    BY <1>2

\* A bounded set of naturals has a greatest element.
LEMMA Greatest ==
    ASSUME NEW S, S \subseteq Nat, S # {}, NEW b \in Nat, \A k \in S : k <= b
    PROVE  \E m \in S : \A k \in S : k <= m
  <1>. DEFINE T == {u \in Nat : \A k \in S : k <= u}
  <1>1. PICK u \in T : \A v \in T : u <= v
    BY Least
  <1>2. CASE u \in S
    BY <1>2
  <1>3. CASE u \notin S
    <2>1. \A k \in S : k < u
      BY <1>3
    <2>2. u > 0
      <3>1. PICK k \in S : TRUE
        OBVIOUS
      <3>. QED
        BY <2>1, <3>1
    <2>3. u - 1 \in T
      BY <2>1, <2>2
    <2>. QED
      BY <1>1, <2>3
  <1>. QED
    BY <1>2, <1>3

\* Max is the greatest element where there is one.
LEMMA MaxIs ==
    ASSUME NEW S, S \subseteq Nat, NEW m \in S, \A k \in S : k <= m
    PROVE  Max(S) = m
  <1>1. \A k \in S : m >= k
    OBVIOUS
  <1>2. Max(S) \in S /\ \A k \in S : Max(S) >= k
    BY <1>1, Zenon DEF Max
  <1>3. PICK x \in S : x = Max(S) /\ \A k \in S : x >= k
    BY <1>2
  <1>4. x = m
    BY <1>3
  <1>. QED
    BY <1>3, <1>4

-----------------------------------------------------------------------------
(* Sums of sizes.  Bytes is a fold: a function on the subsets of the rows,   *)
(* fixed by its own recursion.  What it computes is derived from that by      *)
(* taking, each time, a smallest set for which the claim would fail.          *)

\* The row the fold takes next.
Pick(s) == CHOOSE x \in s : TRUE

\* One unfolding of the fold over the subsets of S.
Body(g, r, S) ==
    [s \in SUBSET S |-> IF s = {} THEN 0 ELSE r[Pick(s)] + g[s \ {Pick(s)}]]

Fold(r, S) == CHOOSE g : g = Body(g, r, S)

\* A set without one of its elements is smaller.
LEMMA Smaller ==
    ASSUME NEW S, IsFiniteSet(S), NEW x \in S
    PROVE  /\ IsFiniteSet(S \ {x}) /\ Cardinality(S \ {x}) \in Nat
           /\ Cardinality(S) \in Nat /\ Cardinality(S \ {x}) < Cardinality(S)
  <1>1. IsFiniteSet(S \ {x}) /\ Cardinality(S \ {x}) = Cardinality(S) - 1
    BY FS_RemoveElement
  <1>2. Cardinality(S) \in Nat /\ Cardinality(S \ {x}) \in Nat
    BY <1>1, FS_CardinalityType
  <1>. QED
    BY <1>1, <1>2

\* The next row is a row.
LEMMA PickIn ==
    ASSUME NEW S, S # {}
    PROVE  Pick(S) \in S
  BY DEF Pick

\* A family of finite sets with a member has one of least size.
LEMMA LeastSet ==
    ASSUME NEW F, F # {}, \A S \in F : IsFiniteSet(S)
    PROVE  \E S \in F : \A T \in F : Cardinality(S) <= Cardinality(T)
  <1>. DEFINE N == {Cardinality(S) : S \in F}
  <1>1. N \subseteq Nat /\ N # {}
    BY FS_CardinalityType
  <1>2. PICK m \in N : \A k \in N : m <= k
    BY <1>1, Least
  <1>. QED
    BY <1>2

\* Two unfoldings agree wherever both are defined.
LEMMA FoldAgree ==
    ASSUME NEW r, NEW S, NEW T, NEW g, NEW h, IsFiniteSet(S),
           g = Body(g, r, S), h = Body(h, r, T), NEW v, v \subseteq S, v \subseteq T
    PROVE  g[v] = h[v]
  <1>. DEFINE F == {s \in SUBSET S : s \subseteq T /\ g[s] # h[s]}
  <1>1. SUFFICES F = {}
    OBVIOUS
  <1>2. SUFFICES ASSUME F # {} PROVE FALSE
    OBVIOUS
  <1>3. \A s \in F : IsFiniteSet(s)
    BY FS_Subset
  <1>4. PICK s \in F : \A t \in F : Cardinality(s) <= Cardinality(t)
    <2>. HIDE DEF F
    <2>. QED
      BY <1>2, <1>3, LeastSet
  <1>5. /\ g[s] = IF s = {} THEN 0 ELSE r[Pick(s)] + g[s \ {Pick(s)}]
        /\ h[s] = IF s = {} THEN 0 ELSE r[Pick(s)] + h[s \ {Pick(s)}]
    <2>1. /\ s \in SUBSET S /\ s \in SUBSET T
      OBVIOUS
    <2>2. Body(g, r, S)[s] = IF s = {} THEN 0 ELSE r[Pick(s)] + g[s \ {Pick(s)}]
      BY <2>1 DEF Body
    <2>3. Body(h, r, T)[s] = IF s = {} THEN 0 ELSE r[Pick(s)] + h[s \ {Pick(s)}]
      BY <2>1 DEF Body
    <2>. QED
      BY <2>2, <2>3, Zenon
  <1>6. CASE s = {}
    BY <1>5, <1>6
  <1>7. CASE s # {}
    <2>1. PICK p \in s : p = Pick(s)
      BY <1>7, PickIn
    <2>2. /\ Cardinality(s \ {p}) \in Nat /\ Cardinality(s) \in Nat
          /\ Cardinality(s \ {p}) < Cardinality(s)
      BY <1>3, Smaller
    <2>3. s \ {p} \notin F
      BY <1>4, <2>2
    <2>4. g[s \ {p}] = h[s \ {p}]
      BY <2>3
    <2>. QED
      BY <1>5, <1>7, <2>1, <2>4
  <1>. QED
    BY <1>6, <1>7

\* The fold exists: it satisfies its own recursion.
LEMMA FoldExists ==
    ASSUME NEW r, NEW S, IsFiniteSet(S)
    PROVE  Fold(r, S) = Body(Fold(r, S), r, S)
  <1>. DEFINE F == {s \in SUBSET S : ~ \E g : g = Body(g, r, s)}
  <1>1. SUFFICES F = {}
    BY Zenon DEF Fold
  <1>2. SUFFICES ASSUME F # {} PROVE FALSE
    OBVIOUS
  <1>3. \A s \in F : IsFiniteSet(s)
    BY FS_Subset
  <1>4. PICK s \in F : \A t \in F : Cardinality(s) <= Cardinality(t)
    <2>. HIDE DEF F
    <2>. QED
      BY <1>2, <1>3, LeastSet
  <1>5. IsFiniteSet(s) /\ s \subseteq S
    BY <1>3
  <1>6. ASSUME NEW t, t \subseteq s, t # s
        PROVE  IsFiniteSet(t) /\ Fold(r, t) = Body(Fold(r, t), r, t)
    <2>1. PICK x \in s : x \notin t
      BY <1>6
    <2>2. IsFiniteSet(t) /\ IsFiniteSet(s \ {x})
      BY <1>5, <1>6, <2>1, Smaller, FS_Subset
    <2>3. Cardinality(t) <= Cardinality(s \ {x})
      BY <1>6, <2>1, <2>2, FS_Subset
    <2>4. /\ Cardinality(s \ {x}) \in Nat /\ Cardinality(s) \in Nat
          /\ Cardinality(s \ {x}) < Cardinality(s)
      BY <1>5, <2>1, Smaller
    <2>5. Cardinality(t) \in Nat
      BY <2>2, FS_CardinalityType
    <2>6. t \notin F
      BY <1>4, <2>3, <2>4, <2>5
    <2>7. \E g : g = Body(g, r, t)
      BY <1>5, <1>6, <2>6
    <2>. QED
      BY <2>2, <2>7, Zenon DEF Fold
  <1>. DEFINE G(t) == Fold(r, t)[t]
              g == [t \in SUBSET s |-> IF t = {} THEN 0
                                       ELSE r[Pick(t)] + G(t \ {Pick(t)})]
  <1>7. ASSUME NEW t, t \subseteq s, t # s
        PROVE  g[t] = G(t)
    <2>1. IsFiniteSet(t) /\ Fold(r, t) = Body(Fold(r, t), r, t)
      BY <1>6, <1>7
    <2>2. G(t) = IF t = {} THEN 0 ELSE r[Pick(t)] + Fold(r, t)[t \ {Pick(t)}]
      <3>1. Body(Fold(r, t), r, t)[t]
              = IF t = {} THEN 0 ELSE r[Pick(t)] + Fold(r, t)[t \ {Pick(t)}]
        BY DEF Body
      <3>. QED
        BY <2>1, <3>1, Zenon
    <2>3. g[t] = IF t = {} THEN 0 ELSE r[Pick(t)] + G(t \ {Pick(t)})
      BY <1>7
    <2>4. CASE t = {}
      BY <2>2, <2>3, <2>4
    <2>5. CASE t # {}
      <3>1. PICK q : q = t \ {Pick(t)}
        OBVIOUS
      <3>2. q \subseteq t /\ q \subseteq s /\ q # s
        BY <1>7, <3>1
      <3>3. Fold(r, q) = Body(Fold(r, q), r, q)
        BY <1>6, <3>2
      <3>4. Fold(r, t)[q] = Fold(r, q)[q]
        BY <2>1, <3>2, <3>3, FoldAgree
      <3>. HIDE DEF g
      <3>. QED
        BY <2>2, <2>3, <2>5, <3>1, <3>4
    <2>. QED
      BY <2>4, <2>5
  <1>8. \A t \in SUBSET s : t # {} => g[t \ {Pick(t)}] = G(t \ {Pick(t)})
    <2>. TAKE t \in SUBSET s
    <2>. HAVE t # {}
    <2>1. Pick(t) \in t
      BY PickIn
    <2>2. t \ {Pick(t)} \subseteq s /\ t \ {Pick(t)} # s
      BY <2>1
    <2>. HIDE DEF g, G
    <2>. QED
      BY <1>7, <2>2
  <1>9. g = Body(g, r, s)
    <2>1. Body(g, r, s) = [t \in SUBSET s |-> IF t = {} THEN 0
                                       ELSE r[Pick(t)] + g[t \ {Pick(t)}]]
      BY DEF Body
    <2>2. \A t \in SUBSET s : g[t] = Body(g, r, s)[t]
      <3>. TAKE t \in SUBSET s
      <3>1. g[t] = IF t = {} THEN 0 ELSE r[Pick(t)] + G(t \ {Pick(t)})
        OBVIOUS
      <3>. HIDE DEF g, G
      <3>2. Body(g, r, s)[t] = IF t = {} THEN 0 ELSE r[Pick(t)] + g[t \ {Pick(t)}]
        BY <2>1
      <3>. QED
        BY <1>8, <3>1, <3>2
    <2>3. g = [t \in SUBSET s |-> g[t]]
      OBVIOUS
    <2>4. Body(g, r, s) = [t \in SUBSET s |-> Body(g, r, s)[t]]
      BY <2>1
    <2>. HIDE DEF g
    <2>. QED
      BY <2>2, <2>3, <2>4
  <1>. HIDE DEF g
  <1>. QED
    BY <1>9

\* What the model's sum is: nothing for no rows, else one row and the rest.
LEMMA BytesRec ==
    ASSUME NEW r, NEW S, IsFiniteSet(S)
    PROVE  Bytes(r, S) = IF S = {} THEN 0 ELSE r[Pick(S)] + Bytes(r, S \ {Pick(S)})
  <1>1. \A T : Bytes(r, T) = Fold(r, T)[T]
    BY Zenon DEF Bytes, FoldFunctionOnSet, MapThenFoldSet, Fold, Body, Pick
  <1>2. Fold(r, S) = Body(Fold(r, S), r, S)
    BY FoldExists
  <1>3. Fold(r, S)[S] = IF S = {} THEN 0 ELSE r[Pick(S)] + Fold(r, S)[S \ {Pick(S)}]
    <2>1. Body(Fold(r, S), r, S)[S]
            = IF S = {} THEN 0 ELSE r[Pick(S)] + Fold(r, S)[S \ {Pick(S)}]
      BY DEF Body
    <2>. QED
      BY <1>2, <2>1, Zenon
  <1>4. PICK T : T = S \ {Pick(S)}
    OBVIOUS
  <1>5. T \subseteq S /\ IsFiniteSet(T)
    BY <1>4, FS_Subset
  <1>6. Fold(r, T) = Body(Fold(r, T), r, T)
    BY <1>5, FoldExists
  <1>7. Fold(r, S)[T] = Fold(r, T)[T]
    BY <1>2, <1>5, <1>6, FoldAgree
  <1>. QED
    BY <1>1, <1>3, <1>4, <1>7

\* Sums of natural sizes are natural, and depend on the summed rows alone.
LEMMA BytesType ==
    ASSUME NEW r, NEW q, NEW S, IsFiniteSet(S), \A x \in S : r[x] \in Nat /\ q[x] = r[x]
    PROVE  Bytes(r, S) \in Nat /\ Bytes(q, S) = Bytes(r, S)
  <1>. DEFINE F == {s \in SUBSET S : ~(Bytes(r, s) \in Nat /\ Bytes(q, s) = Bytes(r, s))}
  <1>1. SUFFICES F = {}
    OBVIOUS
  <1>2. SUFFICES ASSUME F # {} PROVE FALSE
    OBVIOUS
  <1>3. \A s \in F : IsFiniteSet(s)
    BY FS_Subset
  <1>4. PICK s \in F : \A t \in F : Cardinality(s) <= Cardinality(t)
    <2>. HIDE DEF F
    <2>. QED
      BY <1>2, <1>3, LeastSet
  <1>5. /\ Bytes(r, s) = IF s = {} THEN 0 ELSE r[Pick(s)] + Bytes(r, s \ {Pick(s)})
        /\ Bytes(q, s) = IF s = {} THEN 0 ELSE q[Pick(s)] + Bytes(q, s \ {Pick(s)})
    BY <1>3, BytesRec
  <1>6. CASE s = {}
    BY <1>5, <1>6
  <1>7. CASE s # {}
    <2>1. PICK p \in s : p = Pick(s)
      BY <1>7, PickIn
    <2>2. /\ Cardinality(s \ {p}) \in Nat /\ Cardinality(s) \in Nat
          /\ Cardinality(s \ {p}) < Cardinality(s)
      BY <1>3, Smaller
    <2>3. s \ {p} \notin F
      BY <1>4, <2>2
    <2>4. Bytes(r, s \ {p}) \in Nat /\ Bytes(q, s \ {p}) = Bytes(r, s \ {p})
      BY <2>3
    <2>5. r[p] \in Nat /\ q[p] = r[p]
      OBVIOUS
    <2>. QED
      BY <1>5, <1>7, <2>1, <2>4, <2>5
  <1>. QED
    BY <1>6, <1>7

\* Any row may be counted first.
LEMMA BytesAdd ==
    ASSUME NEW r, NEW S, IsFiniteSet(S), \A x \in S : r[x] \in Nat, NEW a \in S
    PROVE  Bytes(r, S) = r[a] + Bytes(r, S \ {a})
  <1>. DEFINE F == {s \in SUBSET S : \E x \in s : Bytes(r, s) # r[x] + Bytes(r, s \ {x})}
  <1>1. SUFFICES F = {}
    OBVIOUS
  <1>2. SUFFICES ASSUME F # {} PROVE FALSE
    OBVIOUS
  <1>3. \A s \in SUBSET S : IsFiniteSet(s)
    BY FS_Subset
  <1>4. PICK s \in F : \A t \in F : Cardinality(s) <= Cardinality(t)
    <2>1. \A t \in F : IsFiniteSet(t)
      BY <1>3
    <2>. HIDE DEF F
    <2>. QED
      BY <1>2, <2>1, LeastSet
  <1>5. PICK x \in s : Bytes(r, s) # r[x] + Bytes(r, s \ {x})
    OBVIOUS
  <1>6. PICK p \in s : p = Pick(s)
    BY PickIn
  <1>7. Bytes(r, s) = r[p] + Bytes(r, s \ {p})
    BY <1>3, <1>6, BytesRec
  <1>8. x # p
    BY <1>5, <1>7
  <1>9. ASSUME NEW y \in s, NEW z \in s, z # y
        PROVE  Bytes(r, s \ {y}) = r[z] + Bytes(r, s \ {x, p}) \/ {y, z} # {x, p}
    <2>1. SUFFICES ASSUME {y, z} = {x, p}
                   PROVE  Bytes(r, s \ {y}) = r[z] + Bytes(r, s \ {x, p})
      OBVIOUS
    <2>2. PICK t : t = s \ {y}
      OBVIOUS
    <2>3. /\ Cardinality(t) \in Nat /\ Cardinality(s) \in Nat
          /\ Cardinality(t) < Cardinality(s)
      BY <1>3, <2>2, Smaller
    <2>4. t \notin F /\ t \subseteq S /\ z \in t
      BY <1>4, <1>9, <2>2, <2>3
    <2>5. Bytes(r, t) = r[z] + Bytes(r, t \ {z})
      BY <2>4
    <2>6. t \ {z} = s \ {x, p}
      BY <2>1, <2>2
    <2>. QED
      BY <2>2, <2>5, <2>6
  <1>10. /\ Bytes(r, s \ {p}) = r[x] + Bytes(r, s \ {x, p})
         /\ Bytes(r, s \ {x}) = r[p] + Bytes(r, s \ {x, p})
    <2>1. {x, p} = {p, x}
      OBVIOUS
    <2>. QED
      BY <1>8, <1>9, <2>1
  <1>11. r[x] \in Nat /\ r[p] \in Nat /\ Bytes(r, s \ {x, p}) \in Nat
    <2>1. s \ {x, p} \subseteq S
      OBVIOUS
    <2>2. PICK t : t = s \ {x, p} /\ IsFiniteSet(t) /\ \A y \in t : r[y] \in Nat
      BY <1>3, <2>1
    <2>. QED
      BY <2>2, BytesType
  <1>. QED
    BY <1>5, <1>7, <1>10, <1>11

\* More rows weigh no less.
LEMMA BytesMonotone ==
    ASSUME NEW r, NEW T, IsFiniteSet(T), \A x \in T : r[x] \in Nat, NEW S, S \subseteq T
    PROVE  Bytes(r, S) <= Bytes(r, T)
  <1>1. IsFiniteSet(S) /\ \A s \in SUBSET T : IsFiniteSet(s) /\ Bytes(r, s) \in Nat
    <2>1. ASSUME NEW s \in SUBSET T PROVE IsFiniteSet(s) /\ Bytes(r, s) \in Nat
      <3>1. IsFiniteSet(s) /\ \A x \in s : r[x] \in Nat
        BY FS_Subset
      <3>. QED
        BY <3>1, BytesType
    <2>. QED
      BY <2>1
  <1>. DEFINE F == {s \in SUBSET T : S \subseteq s /\ ~(Bytes(r, S) <= Bytes(r, s))}
  <1>2. SUFFICES F = {}
    OBVIOUS
  <1>3. SUFFICES ASSUME F # {} PROVE FALSE
    OBVIOUS
  <1>4. PICK s \in F : \A t \in F : Cardinality(s) <= Cardinality(t)
    <2>1. \A t \in F : IsFiniteSet(t)
      BY <1>1
    <2>. HIDE DEF F
    <2>. QED
      BY <1>3, <2>1, LeastSet
  <1>5. S # s
    <2>1. Bytes(r, S) <= Bytes(r, S)
      BY <1>1
    <2>. QED
      BY <2>1
  <1>6. PICK x \in s : x \notin S
    BY <1>5
  <1>7. PICK t : t = s \ {x}
    OBVIOUS
  <1>8. /\ Cardinality(t) \in Nat /\ Cardinality(s) \in Nat
        /\ Cardinality(t) < Cardinality(s)
    BY <1>1, <1>7, Smaller
  <1>9. t \notin F /\ t \subseteq T /\ S \subseteq t
    BY <1>4, <1>6, <1>7, <1>8
  <1>10. Bytes(r, S) <= Bytes(r, t)
    BY <1>9
  <1>11. Bytes(r, s) = r[x] + Bytes(r, t)
    BY <1>1, <1>7, BytesAdd
  <1>12. r[x] \in Nat /\ Bytes(r, t) \in Nat /\ Bytes(r, s) \in Nat /\ Bytes(r, S) \in Nat
    BY <1>1, <1>9
  <1>. QED
    BY <1>10, <1>11, <1>12

-----------------------------------------------------------------------------
(* The order of the outbox.                                                 *)

\* The columns an entry is ordered by are naturals.
LEMMA EntryFields ==
    ASSUME NEW e \in Entry
    PROVE  /\ e.at \in Nat /\ e.w \in Nat /\ e.seq \in Nat
           /\ e.w \in Workflows /\ e.at <= MaxClock
           /\ e = [at |-> e.at, w |-> e.w, seq |-> e.seq]
  <1>1. /\ e.at \in 0..MaxClock /\ e.w \in Workflows /\ e.seq \in Nat
        /\ e = [at |-> e.at, w |-> e.w, seq |-> e.seq]
    BY DEF Entry
  <1>2. \A x \in Workflows : x \in Nat
    BY StoreAssumption
  <1>3. \A x \in 0..MaxClock : x \in Nat /\ x <= MaxClock
    BY StoreAssumption
  <1>. QED
    BY <1>1, <1>2, <1>3

\* A non-empty set of entries has a first one in the order of the drain.
LEMMA FirstIs ==
    ASSUME NEW S, S \subseteq Entry, S # {}
    PROVE  First(S) \in S /\ \A x \in S \ {First(S)} : Before(First(S), x)
  <1>1. \A e \in S : e.at \in Nat /\ e.w \in Nat /\ e.seq \in Nat
    BY EntryFields
  <1>. DEFINE Ats == {e.at : e \in S}
  <1>2. PICK a \in Ats : \A k \in Ats : a <= k
    BY <1>1, Least
  <1>. DEFINE S1 == {e \in S : e.at = a}
              Ws == {e.w : e \in S1}
  <1>3. PICK w \in Ws : \A k \in Ws : w <= k
    <2>1. Ws \subseteq Nat /\ Ws # {}
      BY <1>1
    <2>. QED
      BY <2>1, Least
  <1>. DEFINE S2 == {e \in S1 : e.w = w}
              Qs == {e.seq : e \in S2}
  <1>4. PICK q \in Qs : \A k \in Qs : q <= k
    <2>1. Qs \subseteq Nat /\ Qs # {}
      BY <1>1
    <2>. QED
      BY <2>1, Least
  <1>5. PICK e \in S : e.at = a /\ e.w = w /\ e.seq = q
    OBVIOUS
  <1>6. ASSUME NEW x \in S \ {e} PROVE Before(e, x)
    <2>1. x.at \in Nat /\ x.w \in Nat /\ x.seq \in Nat /\ a <= x.at
      BY <1>1, <1>2
    <2>2. x.at = a => w <= x.w
      BY <1>3
    <2>3. x.at = a /\ x.w = w => q <= x.seq
      BY <1>4
    <2>4. ~(x.at = a /\ x.w = w /\ x.seq = q)
      BY <1>5 DEF Entry
    <2>5. a \in Nat /\ w \in Nat /\ q \in Nat
      BY <1>1, <1>5
    <2>. QED
      BY <1>5, <2>1, <2>2, <2>3, <2>4, <2>5 DEF Before
  <1>. QED
    BY <1>6 DEF First

-----------------------------------------------------------------------------
(* The ring: what append_event and trim_ring leave.                         *)

\* The ring of a workflow holds its newest events, without a gap and with
\* their sizes; the marker and the dropped count say what is missing.
RingFits(w) ==
    /\ ring[w] = [k \in (cut[w] + 1)..Len(log[w]) |-> log[w][k].bytes]
    /\ dropped[w] = cut[w]
    /\ cut[w] <= Len(log[w]) /\ (log[w] # <<>> => cut[w] < Len(log[w]))

\* Lengths and members of the history.
LEMMA LogType ==
    ASSUME TypeOK, NEW w \in Workflows
    PROVE  /\ log[w] \in Seq(Event) /\ Len(log[w]) \in Nat
           /\ log[w] = <<>> <=> Len(log[w]) = 0
           /\ \A k \in 1..Len(log[w]) : log[w][k].bytes \in Sizes
           /\ cut[w] \in Nat
  <1>1. log[w] \in Seq(Event) /\ cut[w] \in Nat
    BY DEF TypeOK
  <1>2. Len(log[w]) \in Nat /\ (log[w] = <<>> <=> Len(log[w]) = 0)
    BY <1>1, EmptySeq, LenProperties
  <1>3. \A k \in 1..Len(log[w]) : log[w][k] \in Event
    BY <1>1, ElementOfSeq
  <1>. QED
    BY <1>1, <1>2, <1>3 DEF Event

\* The next sequence number is one past the last event ever appended, even
\* though it is computed from the trimmed ring.
LEMMA NewestIs ==
    ASSUME TypeOK, NEW w \in Workflows, RingFits(w)
    PROVE  /\ DOMAIN ring[w] = (cut[w] + 1)..Len(log[w])
           /\ Newest(ring[w]) = Len(log[w])
  <1>1. DOMAIN ring[w] = (cut[w] + 1)..Len(log[w])
    BY DEF RingFits
  <1>2. Len(log[w]) \in Nat /\ cut[w] \in Nat
    BY LogType
  <1>3. CASE log[w] = <<>>
    <2>1. Len(log[w]) = 0 /\ cut[w] = 0
      BY <1>2, <1>3, LogType DEF RingFits
    <2>2. DOMAIN ring[w] = {}
      BY <1>1, <2>1
    <2>. QED
      BY <1>1, <2>1, <2>2 DEF Newest
  <1>4. CASE log[w] # <<>>
    <2>1. cut[w] < Len(log[w])
      BY <1>4 DEF RingFits
    <2>. DEFINE D == (cut[w] + 1)..Len(log[w])
    <2>2. /\ D \subseteq Nat /\ Len(log[w]) \in D
          /\ \A k \in D : k <= Len(log[w])
      BY <1>2, <2>1
    <2>3. D # {}
      BY <2>2
    <2>4. Max(D) = Len(log[w])
      <3>. HIDE DEF D
      <3>. QED
        BY <2>2, MaxIs
    <2>. QED
      BY <1>1, <2>3, <2>4 DEF Newest
  <1>. QED
    BY <1>3, <1>4

\* T, trimmed from the rows a+1..n, is the run up to m: the new marker.
TrimRun(a, n, T, m) ==
    /\ a <= m /\ m < n
    /\ ((a + 1)..n) \ T = (m + 1)..n
    /\ (IF T = {} THEN a ELSE Max({a} \cup T)) = m
    /\ a + Cardinality(T) = m

\* Trimming a run of rows, never the newest: what is trimmed is a run of the
\* oldest rows, and the marker moves to its end.
LEMMA TrimmedRun ==
    ASSUME NEW a \in Nat, NEW n \in Nat, a < n,
           NEW W, W \subseteq (a + 1)..n, \A k \in W : k < n,
           NEW T, \A k : k \in T <=> k \in (a + 1)..n /\ \E c \in W : k <= c
    PROVE  \E m \in Nat : TrimRun(a, n, T, m)
  <1>1. CASE W = {}
    <2>1. T = {}
      BY <1>1
    <2>2. Cardinality(T) = 0
      BY <2>1, FS_EmptySet
    <2>3. TrimRun(a, n, T, a)
      BY <2>1, <2>2 DEF TrimRun
    <2>. QED
      BY <2>3
  <1>2. CASE W # {}
    <2>1. W \subseteq Nat /\ \A k \in W : k <= n
      OBVIOUS
    <2>2. PICK m \in W : \A k \in W : k <= m
      BY <1>2, <2>1, Greatest
    <2>3. m \in Nat /\ a + 1 <= m /\ m < n
      BY <2>2
    <2>4. T = (a + 1)..m
      <3>1. ASSUME NEW k \in T PROVE k \in (a + 1)..m
        <4>1. PICK c \in W : k <= c
          OBVIOUS
        <4>2. c <= m /\ c \in Nat /\ k \in (a + 1)..n
          BY <2>1, <2>2
        <4>. QED
          BY <2>3, <4>1, <4>2
      <3>2. ASSUME NEW k \in (a + 1)..m PROVE k \in T
        BY <2>2, <2>3
      <3>. QED
        BY <3>1, <3>2
    <2>5. TrimRun(a, n, (a + 1)..m, m)
      <3>1. ((a + 1)..n) \ ((a + 1)..m) = (m + 1)..n
        BY <2>3
      <3>2. Cardinality((a + 1)..m) = m - (a + 1) + 1
        <4>1. a + 1 \in Int /\ m \in Int /\ ~(a + 1 > m)
          BY <2>3
        <4>. QED
          BY <4>1, FS_Interval
      <3>3. Max({a} \cup (a + 1)..m) = m
        <4>. DEFINE D == {a} \cup (a + 1)..m
        <4>1. D \subseteq Nat /\ m \in D /\ \A k \in D : k <= m
          BY <2>3
        <4>. HIDE DEF D
        <4>2. Max(D) = m
          BY <4>1, MaxIs
        <4>. QED
          BY <4>2 DEF D
      <3>4. (a + 1)..m # {} /\ a + (m - (a + 1) + 1) = m
        BY <2>3
      <3>5. a + Cardinality((a + 1)..m) = m
        BY <3>2, <3>4
      <3>6. a <= m
        BY <2>3
      <3>. QED
        BY <2>3, <3>1, <3>3, <3>4, <3>5, <3>6, Zenon DEF TrimRun
    <2>. QED
      BY <2>3, <2>4, <2>5
  <1>. QED
    BY <1>1, <1>2

\* What one append leaves of the ring, the marker and the count.
LEMMA AppendFits ==
    ASSUME TypeOK, NEW w \in Workflows, RingFits(w),
           NEW type \in States \cup {"command"}, NEW bytes \in Sizes,
           AppendEvent(w, type, bytes)
    PROVE  /\ Len(log[w]) < MaxLog
           /\ log' = [log EXCEPT ![w] = Append(@, [type |-> type, bytes |-> bytes, at |-> clock])]
           /\ Len(log'[w]) = Len(log[w]) + 1
           /\ \A k \in 1..Len(log[w]) : log'[w][k] = log[w][k]
           /\ log'[w][Len(log[w]) + 1].at = clock /\ cut[w] <= cut'[w]
           /\ outbox' = outbox \cup {[at |-> clock, w |-> w, seq |-> Len(log[w]) + 1]}
           /\ \A x \in Workflows : x # w =>
                ring'[x] = ring[x] /\ cut'[x] = cut[x] /\ dropped'[x] = dropped[x]
           /\ RingFits(w)'
           /\ ring' \in [Workflows -> Rings]
           /\ cut' \in [Workflows -> Nat] /\ dropped' \in [Workflows -> Nat]
           /\ log' \in [Workflows -> Seq(Event)]
  <1>. DEFINE n == Len(log[w]) + 1
              a == cut[w]
              inserted == [k \in DOMAIN ring[w] \cup {n} |->
                              IF k = n THEN bytes ELSE ring[w][k]]
              T == {k \in DOMAIN inserted : \E c \in Walked(inserted) : k <= c}
              ev == [type |-> type, bytes |-> bytes, at |-> clock]
  <1>1. /\ Newest(ring[w]) = Len(log[w]) /\ DOMAIN ring[w] = (a + 1)..Len(log[w])
        /\ Len(log[w]) \in Nat /\ a \in Nat /\ a <= Len(log[w]) /\ dropped[w] = a
        /\ log[w] \in Seq(Event)
    BY NewestIs, LogType DEF RingFits
  <1>2. /\ Len(log[w]) < MaxLog
        /\ ring' = [ring EXCEPT ![w] = Restrict(inserted, DOMAIN inserted \ T)]
        /\ cut' = [cut EXCEPT ![w] = IF T = {} THEN a ELSE Max({a} \cup T)]
        /\ dropped' = [dropped EXCEPT ![w] = a + Cardinality(T)]
        /\ outbox' = outbox \cup {[at |-> clock, w |-> w, seq |-> n]}
        /\ log' = [log EXCEPT ![w] = Append(@, ev)]
    BY <1>1 DEF AppendEvent, Enqueued
  <1>3. ev \in Event
    BY DEF Event, TypeOK
  <1>4. PICK l : /\ l = Append(log[w], ev) /\ l \in Seq(Event) /\ Len(l) = n
                 /\ \A k \in 1..Len(log[w]) : l[k] = log[w][k]
                 /\ l[n] = ev
    <2>1. PICK l : l = Append(log[w], ev)
      OBVIOUS
    <2>. HIDE DEF ev
    <2>2. /\ l \in Seq(Event) /\ Len(l) = Len(log[w]) + 1
          /\ \A k \in 1..Len(log[w]) : l[k] = log[w][k]
          /\ l[Len(log[w]) + 1] = ev
      BY <1>1, <1>3, <2>1, AppendProperties
    <2>. QED
      BY <2>1, <2>2
  <1>5. DOMAIN inserted = (a + 1)..n
    BY <1>1
  <1>6. \A k \in (a + 1)..n : inserted[k] = l[k].bytes
    <2>. TAKE k \in (a + 1)..n
    <2>1. CASE k = n
      BY <1>4, <1>5, <2>1
    <2>2. CASE k # n
      <3>1. k \in (a + 1)..Len(log[w]) /\ k \in 1..Len(log[w])
        BY <1>1, <2>2
      <3>. QED
        BY <1>4, <1>5, <2>2, <3>1 DEF RingFits
    <2>. QED
      BY <2>1, <2>2
  <1>7. Walked(inserted) \subseteq (a + 1)..n /\ \A k \in Walked(inserted) : k < n
    <2>1. /\ (a + 1)..n \subseteq Nat /\ n \in (a + 1)..n
          /\ \A k \in (a + 1)..n : k <= n
      BY <1>1
    <2>2. Newest(inserted) = n
      <3>. HIDE DEF inserted, n, a
      <3>1. Max((a + 1)..n) = n /\ (a + 1)..n # {}
        BY <2>1, MaxIs
      <3>. QED
        BY <1>5, <3>1 DEF Newest
    <2>. QED
      BY <1>5, <2>2 DEF Walked
  <1>8. \A k : k \in T <=> k \in (a + 1)..n /\ \E c \in Walked(inserted) : k <= c
    BY <1>5
  <1>9. PICK m \in Nat : TrimRun(a, n, T, m)
    <2>1. n \in Nat /\ a \in Nat /\ a < n
      BY <1>1
    <2>. HIDE DEF T, n, a, inserted
    <2>. QED
      BY <1>7, <1>8, <2>1, TrimmedRun
  <1>. HIDE DEF T, inserted, ev
  <1>10. /\ a <= m /\ m < n /\ n \in Nat /\ n = Len(log[w]) + 1
         /\ (m + 1)..n \subseteq (a + 1)..n /\ (m + 1)..n \subseteq 1..n
    BY <1>1, <1>9 DEF TrimRun
  <1>11. /\ ring' = [ring EXCEPT ![w] = [k \in (m + 1)..n |-> l[k].bytes]]
         /\ cut' = [cut EXCEPT ![w] = m] /\ dropped' = [dropped EXCEPT ![w] = m]
    <2>1. \A k \in (m + 1)..n : inserted[k] = l[k].bytes
      BY <1>6, <1>10
    <2>2. Restrict(inserted, DOMAIN inserted \ T) = [k \in (m + 1)..n |-> l[k].bytes]
      <3>1. DOMAIN inserted \ T = (m + 1)..n
        BY <1>5, <1>9 DEF TrimRun
      <3>. HIDE DEF n, a
      <3>. QED
        BY <2>1, <3>1 DEF Restrict
    <2>3. (IF T = {} THEN a ELSE Max({a} \cup T)) = m /\ a + Cardinality(T) = m
      BY <1>9 DEF TrimRun
    <2>. QED
      BY <1>2, <2>2, <2>3
  <1>. HIDE DEF n, a
  <1>12. PICK r : r = [k \in (m + 1)..n |-> l[k].bytes]
    OBVIOUS
  <1>13. /\ log' \in [Workflows -> Seq(Event)] /\ log'[w] = l
         /\ cut' \in [Workflows -> Nat] /\ dropped' \in [Workflows -> Nat]
         /\ cut'[w] = m /\ dropped'[w] = m /\ ring'[w] = r
         /\ \A x \in Workflows : x # w =>
                ring'[x] = ring[x] /\ cut'[x] = cut[x] /\ dropped'[x] = dropped[x]
    <2>1. log \in [Workflows -> Seq(Event)] /\ cut \in [Workflows -> Nat]
          /\ dropped \in [Workflows -> Nat] /\ ring \in [Workflows -> Rings]
      BY DEF TypeOK
    <2>2. /\ log' = [log EXCEPT ![w] = l] /\ l \in Seq(Event)
          /\ ring' = [ring EXCEPT ![w] = r]
          /\ cut' = [cut EXCEPT ![w] = m] /\ dropped' = [dropped EXCEPT ![w] = m]
      BY <1>2, <1>4, <1>11, <1>12
    <2>. QED
      BY <2>1, <2>2
  <1>14. RingFits(w)'
    <2>1. Len(l) = n /\ m <= n
      BY <1>4, <1>10
    <2>. QED
      BY <1>10, <1>12, <1>13, <2>1 DEF RingFits
  <1>15. ring' \in [Workflows -> Rings]
    <2>1. (m + 1)..n \in SUBSET (1..MaxLog)
      <3>1. n <= MaxLog /\ MaxLog \in Nat
        BY <1>1, <1>2, <1>10, StoreAssumption
      <3>. QED
        BY <1>10, <3>1
    <2>2. \A k \in (m + 1)..n : l[k].bytes \in Sizes
      <3>1. \A k \in 1..n : l[k] \in Event
        BY <1>4, ElementOfSeq
      <3>2. \A e \in Event : e.bytes \in Sizes
        BY DEF Event
      <3>. QED
        BY <1>10, <3>1, <3>2
    <2>3. r \in [(m + 1)..n -> Sizes]
      BY <1>12, <2>2
    <2>4. r \in Rings
      BY <2>1, <2>3 DEF Rings
    <2>. QED
      BY <1>11, <1>12, <2>4 DEF TypeOK
  <1>. QED
    BY <1>2, <1>4, <1>10, <1>13, <1>14, <1>15 DEF ev, n, a

-----------------------------------------------------------------------------
(* Types.                                                                   *)

TypeInv == TypeOK /\ \A w \in Workflows : RingFits(w)

\* An operation under way names a workflow and a state it announces.
LEMMA RunningType ==
    ASSUME TypeOK, pc.op # "idle"
    PROVE  /\ pc \in [op: {"bind", "announce", "record"}, w: Workflows, st: States]
           /\ pc.w \in Workflows /\ pc.st \in States
  <1>1. pc # Idle
    BY DEF Idle
  <1>. QED
    BY <1>1 DEF TypeOK

\* One more event of a workflow keeps the rings and the outbox typed.
LEMMA AppendTypes ==
    ASSUME TypeInv, NEW w \in Workflows, NEW type \in States \cup {"command"},
           NEW bytes \in Sizes, AppendEvent(w, type, bytes)
    PROVE  /\ \A x \in Workflows : RingFits(x)'
           /\ ring' \in [Workflows -> Rings]
           /\ cut' \in [Workflows -> Nat] /\ dropped' \in [Workflows -> Nat]
           /\ log' \in [Workflows -> Seq(Event)]
           /\ outbox' \subseteq Entry
  <1>1. TypeOK /\ \A x \in Workflows : RingFits(x)
    BY DEF TypeInv
  <1>2. \A x \in Workflows : x # w => log'[x] = log[x]
    <2>1. log' = [log EXCEPT ![w] = Append(@, [type |-> type, bytes |-> bytes, at |-> clock])]
      BY <1>1, AppendFits
    <2>. QED
      BY <1>1, <2>1 DEF TypeOK
  <1>3. ASSUME NEW x \in Workflows PROVE RingFits(x)'
    <2>1. CASE x = w
      BY <1>1, <2>1, AppendFits
    <2>2. CASE x # w
      <3>1. ring'[x] = ring[x] /\ cut'[x] = cut[x] /\ dropped'[x] = dropped[x]
        BY <1>1, <2>2, AppendFits
      <3>2. RingFits(x)
        BY <1>1
      <3>. QED
        BY <1>2, <2>2, <3>1, <3>2 DEF RingFits
    <2>. QED
      BY <2>1, <2>2
  <1>4. outbox' = outbox \cup {[at |-> clock, w |-> w, seq |-> Len(log[w]) + 1]}
    BY <1>1, AppendFits
  <1>5. [at |-> clock, w |-> w, seq |-> Len(log[w]) + 1] \in Entry
    <2>1. clock \in 0..MaxClock /\ Len(log[w]) + 1 \in Nat
      BY <1>1, LogType DEF TypeOK
    <2>. QED
      BY <2>1 DEF Entry
  <1>6. outbox' \subseteq Entry
    BY <1>1, <1>4, <1>5 DEF TypeOK
  <1>. QED
    BY <1>1, <1>3, <1>6, AppendFits

\* Every step keeps the types and the shape of the rings.
LEMMA TypeStep == TypeInv /\ [Next]_vars => TypeInv'
  <1>. SUFFICES ASSUME TypeInv, [Next]_vars PROVE TypeInv'
    OBVIOUS
  <1>. USE DEF events, publishing
  <1>0. TypeOK
    BY DEF TypeInv
  <1>1. ASSUME UNCHANGED <<ring, cut, dropped, log>>, TypeOK'
        PROVE  TypeInv'
    BY <1>1 DEF TypeInv, RingFits
  <1>2. ASSUME NEW w \in Workflows, NEW s \in Sessions \cup {None}, CreateWorkflow(w, s)
        PROVE  TypeInv'
    <2>1. "running" \in States
      BY DEF States, Live
    <2>2. pc' \in [op: {"bind", "announce", "record"}, w: Workflows, st: States]
      BY <1>2, <2>1 DEF CreateWorkflow, Running, AfterInsert
    <2>3. row' \in [Workflows -> States \cup {"none"}]
          /\ session' \in [Workflows -> Sessions \cup {None}]
      BY <1>0, <1>2, <2>1 DEF CreateWorkflow, InsertWorkflow, TypeOK
    <2>. QED
      BY <1>0, <1>1, <1>2, <2>2, <2>3 DEF CreateWorkflow, TypeOK
  <1>3. ASSUME NEW w \in Workflows, NEW st \in MayMove, Transition(w, st)
        PROVE  TypeInv'
    <2>1. pc' \in [op: {"bind", "announce", "record"}, w: Workflows, st: States]
      BY <1>3 DEF Transition, Running, Storable
    <2>2. row' \in [Workflows -> States \cup {"none"}]
      BY <1>0, <1>3 DEF Transition, Storable, TypeOK
    <2>. QED
      BY <1>0, <1>1, <1>3, <2>1, <2>2 DEF Transition, TypeOK
  <1>4. ASSUME NEW w \in Workflows, NEW s \in Sessions, Bind(w, s)
        PROVE  TypeInv'
    BY <1>0, <1>1, <1>4 DEF Bind, TypeOK
  <1>5. ASSUME NEW w \in Workflows, CommandEvent(w)
        PROVE  TypeInv'
    <2>1. PICK b \in Sizes : AppendEvent(w, "command", b)
      BY <1>5 DEF CommandEvent
    <2>. QED
      BY <1>0, <1>5, <2>1, AppendTypes DEF CommandEvent, TypeInv, TypeOK
  <1>6. ASSUME NEW w \in Workflows, ReconcileUnbound(w)
        PROVE  TypeInv'
    <2>1. "failed" \in States
      BY DEF States, Terminal
    <2>2. pc' \in [op: {"bind", "announce", "record"}, w: Workflows, st: States]
      BY <1>6, <2>1 DEF ReconcileUnbound, Running
    <2>3. row' \in [Workflows -> States \cup {"none"}]
      BY <1>0, <1>6, <2>1 DEF ReconcileUnbound, TypeOK
    <2>. QED
      BY <1>0, <1>1, <1>6, <2>2, <2>3 DEF ReconcileUnbound, TypeOK
  <1>7. CASE UpsertBinding
    <2>1. pc.w \in Workflows /\ pc.st \in States
      BY <1>0, <1>7, RunningType DEF UpsertBinding
    <2>2. pc' \in [op: {"bind", "announce", "record"}, w: Workflows, st: States]
      BY <1>7, <2>1 DEF UpsertBinding, Running
    <2>3. binding' \in [Workflows -> Sessions \cup {None}]
      BY <1>0, <1>7, <2>1 DEF UpsertBinding, TypeOK
    <2>. QED
      BY <1>0, <1>1, <1>7, <2>2, <2>3 DEF UpsertBinding, TypeOK
  <1>8. CASE Record
    <2>1. pc.w \in Workflows /\ pc.st \in States
      BY <1>0, <1>8, RunningType DEF Record
    <2>2. PICK b \in Sizes : AppendEvent(pc.w, pc.st, b)
      BY <1>8 DEF Record
    <2>3. created' \subseteq Workflows
      BY <1>0, <1>8, <2>1 DEF Record, TypeOK
    <2>. QED
      BY <1>0, <1>8, <2>1, <2>2, <2>3, AppendTypes DEF Record, TypeInv, TypeOK
  <1>9. CASE OutboxDrain
    <2>1. batch' \in [todo: SUBSET Entry, sent: SUBSET Entry]
      BY <1>0, <1>9 DEF OutboxDrain, TypeOK
    <2>. QED
      BY <1>0, <1>1, <1>9, <2>1 DEF OutboxDrain, TypeOK
  <1>10. CASE Send
    <2>1. PICK e : e = First(batch.todo)
      OBVIOUS
    <2>2. e \in Entry /\ batch.todo \subseteq Entry /\ batch.sent \subseteq Entry
      BY <1>0, <1>10, <2>1, FirstIs DEF Send, TypeOK
    <2>3. e.w \in Workflows /\ e.seq \in Nat
      BY <2>2, EntryFields
    <2>4. batch' = [todo |-> batch.todo \ {e}, sent |-> batch.sent \cup {e}]
      BY <1>10, <2>1 DEF Send
    <2>5. batch' \in [todo: SUBSET Entry, sent: SUBSET Entry]
      BY <2>2, <2>4
    <2>6. seen' = seen \/ seen' = [seen EXCEPT ![e.w] = Append(@, e.seq)]
      BY <1>10, <2>1 DEF Send
    <2>7. seen' \in [Workflows -> Seq(Nat)]
      <3>1. seen \in [Workflows -> Seq(Nat)]
        BY <1>0 DEF TypeOK
      <3>2. Append(seen[e.w], e.seq) \in Seq(Nat)
        BY <2>3, <3>1, AppendProperties
      <3>. QED
        BY <2>3, <2>6, <3>1, <3>2
    <2>. QED
      BY <1>0, <1>1, <1>10, <2>5, <2>7 DEF Send, TypeOK
  <1>11. CASE MarkPublished
    <2>1. PICK e : e = First(batch.sent)
      OBVIOUS
    <2>2. batch' = [batch EXCEPT !.sent = @ \ {e}] /\ outbox' = outbox \ Published(e)
      BY <1>11, <2>1 DEF MarkPublished
    <2>3. batch' \in [todo: SUBSET Entry, sent: SUBSET Entry] /\ outbox' \subseteq Entry
      BY <1>0, <2>2 DEF TypeOK
    <2>. QED
      BY <1>0, <1>1, <1>11, <2>3 DEF MarkPublished, TypeOK
  <1>12. CASE Tick
    <2>1. clock' \in 0..MaxClock
      BY <1>0, <1>12, StoreAssumption DEF Tick, TypeOK
    <2>. QED
      BY <1>0, <1>1, <1>12, <2>1 DEF Tick, TypeOK
  <1>13. CASE Fail
    BY <1>0, <1>1, <1>13 DEF Fail, TypeOK
  <1>14. CASE Crash
    <2>1. crashes' \in 0..MaxCrashes
      BY <1>0, <1>14, StoreAssumption DEF Crash, TypeOK
    <2>2. batch' \in [todo: SUBSET Entry, sent: SUBSET Entry]
      BY <1>14 DEF Crash
    <2>. QED
      BY <1>0, <1>1, <1>14, <2>1, <2>2 DEF Crash, TypeOK
  <1>15. CASE UNCHANGED vars
    BY <1>0, <1>1, <1>15 DEF vars, TypeOK
  <1>. QED
    BY <1>2, <1>3, <1>4, <1>5, <1>6, <1>7, <1>8, <1>9, <1>10, <1>11, <1>12, <1>13, <1>14,
       <1>15
    DEF Next

\* The empty store is well typed.
LEMMA TypeInit == Init => TypeInv
  <1>. SUFFICES ASSUME Init PROVE TypeInv
    OBVIOUS
  <1>1. <<>> \in Rings
    <2>1. <<>> \in [{} -> Sizes]
      OBVIOUS
    <2>. QED
      BY <2>1 DEF Rings
  <1>2. ring \in [Workflows -> Rings]
    BY <1>1 DEF Init
  <1>3. clock \in 0..MaxClock /\ crashes \in 0..MaxCrashes
    BY StoreAssumption DEF Init
  <1>4. log \in [Workflows -> Seq(Event)] /\ seen \in [Workflows -> Seq(Nat)]
    BY EmptySeq DEF Init
  <1>5. TypeOK
    BY <1>2, <1>3, <1>4 DEF Init, TypeOK
  <1>6. ASSUME NEW w \in Workflows PROVE RingFits(w)
    <2>1. log[w] = <<>> /\ cut[w] = 0 /\ dropped[w] = 0 /\ ring[w] = <<>> /\ Len(log[w]) = 0
      BY EmptySeq DEF Init
    <2>2. <<>> = [k \in (0 + 1)..0 |-> log[w][k].bytes]
      OBVIOUS
    <2>. QED
      BY <2>1, <2>2 DEF RingFits
  <1>. QED
    BY <1>5, <1>6 DEF TypeInv

-----------------------------------------------------------------------------
(* Recovery gives up only what was never bound.                             *)

\* A workflow reported created is bound, one being created is not given up,
\* and one that is to be reported has its binding first.
BindInv ==
    /\ \A w \in created : binding[w] # None
    /\ \A w \in cleanFailed : row[w] # "none"
    /\ pc.op \in {"bind", "announce"} => pc.w \notin cleanFailed /\ row[pc.w] # "none"
    /\ pc.op = "bind" => session[pc.w] # None
    /\ pc.op = "announce" /\ session[pc.w] # None => binding[pc.w] # None
    /\ CleanFailOnlyUnbound

\* No step of an operation, of recovery or of a crash breaks it.
LEMMA BindStep == TypeOK /\ BindInv /\ [Next]_vars => BindInv'
  <1>. SUFFICES ASSUME TypeOK, BindInv, [Next]_vars PROVE BindInv'
    OBVIOUS
  <1>. USE DEF events, publishing
  <1>1. Idle.op = "idle"
    BY DEF Idle
  <1>2. ASSUME UNCHANGED <<row, session, binding, created, cleanFailed>>,
               pc' = pc \/ pc' = Idle
        PROVE  BindInv'
    BY <1>1, <1>2 DEF BindInv, CleanFailOnlyUnbound
  <1>3. ASSUME NEW w \in Workflows, NEW s \in Sessions \cup {None}, CreateWorkflow(w, s)
        PROVE  BindInv'
    <2>1. /\ row[w] = "none" /\ \A x \in Workflows : row'[x] = IF x = w THEN "running" ELSE row[x]
          /\ session'[w] = s /\ UNCHANGED <<binding, created, cleanFailed>>
          /\ pc'.w = w /\ pc'.op = IF s = None THEN "announce" ELSE "bind"
      BY <1>3 DEF CreateWorkflow, InsertWorkflow, Running, AfterInsert, TypeOK
    <2>2. w \notin cleanFailed
      BY <2>1 DEF BindInv
    <2>. QED
      BY <2>1, <2>2 DEF BindInv, CleanFailOnlyUnbound, TypeOK
  <1>4. ASSUME NEW w \in Workflows, NEW st \in MayMove, Transition(w, st)
        PROVE  BindInv'
    <2>1. /\ \A x \in Workflows : row'[x] = IF x = w THEN st ELSE row[x]
          /\ st # "none" /\ pc'.op = "record"
          /\ UNCHANGED <<session, binding, created, cleanFailed>>
      BY <1>4 DEF Transition, Running, Storable, States, Live, Terminal, TypeOK
    <2>. QED
      BY <2>1 DEF BindInv, CleanFailOnlyUnbound, TypeOK
  <1>5. ASSUME NEW w \in Workflows, NEW s \in Sessions, Bind(w, s)
        PROVE  BindInv'
    <2>1. /\ \A x \in Workflows : binding'[x] = IF x = w THEN s ELSE binding[x]
          /\ s # None /\ pc = Idle /\ pc' = pc
          /\ UNCHANGED <<row, session, created, cleanFailed>>
      BY <1>5, StoreAssumption DEF Bind, TypeOK
    <2>. QED
      BY <1>1, <2>1 DEF BindInv, CleanFailOnlyUnbound, TypeOK
  <1>6. ASSUME NEW w \in Workflows, CommandEvent(w)
        PROVE  BindInv'
    BY <1>2, <1>6 DEF CommandEvent
  <1>7. ASSUME NEW w \in Workflows, ReconcileUnbound(w)
        PROVE  BindInv'
    <2>1. /\ \A x \in Workflows : row'[x] = IF x = w THEN "failed" ELSE row[x]
          /\ binding[w] = None /\ cleanFailed' = cleanFailed \cup {w} /\ pc'.op = "record"
          /\ UNCHANGED <<session, binding, created>>
      BY <1>7 DEF ReconcileUnbound, Running, TypeOK
    <2>2. w \notin created
      BY <2>1 DEF BindInv
    <2>. QED
      BY <2>1, <2>2 DEF BindInv, CleanFailOnlyUnbound, TypeOK
  <1>8. CASE UpsertBinding
    <2>1. pc.w \in Workflows /\ session[pc.w] # None
      BY <1>8, RunningType DEF UpsertBinding, BindInv
    <2>2. /\ pc.op = "bind"
          /\ \A x \in Workflows : binding'[x] = IF x = pc.w THEN session[pc.w] ELSE binding[x]
          /\ pc'.op = "announce" /\ pc'.w = pc.w
          /\ UNCHANGED <<row, session, created, cleanFailed>>
      BY <1>8, <2>1 DEF UpsertBinding, Running, TypeOK
    <2>. QED
      BY <2>1, <2>2 DEF BindInv, CleanFailOnlyUnbound, TypeOK
  <1>9. CASE Record
    <2>1. pc' = Idle /\ UNCHANGED <<row, session, binding, cleanFailed>>
      BY <1>9 DEF Record
    <2>2. CASE pc.op = "announce" /\ session[pc.w] # None
      <3>1. created' = created \cup {pc.w} /\ binding[pc.w] # None /\ pc.w \notin cleanFailed
        BY <1>9, <2>2 DEF Record, BindInv
      <3>. QED
        BY <1>1, <2>1, <3>1 DEF BindInv, CleanFailOnlyUnbound
    <2>3. CASE ~(pc.op = "announce" /\ session[pc.w] # None)
      BY <1>2, <1>9, <2>1, <2>3 DEF Record
    <2>. QED
      BY <2>2, <2>3
  <1>10. CASE OutboxDrain \/ Send \/ MarkPublished \/ Tick \/ Fail \/ Crash
    <2>1. UNCHANGED <<row, session, binding, created, cleanFailed>> /\ (pc' = pc \/ pc' = Idle)
      BY <1>10 DEF OutboxDrain, Send, MarkPublished, Tick, Fail, Crash
    <2>. QED
      BY <1>2, <2>1
  <1>11. CASE UNCHANGED vars
    BY <1>2, <1>11 DEF vars
  <1>. QED
    BY <1>3, <1>4, <1>5, <1>6, <1>7, <1>8, <1>9, <1>10, <1>11 DEF Next

-----------------------------------------------------------------------------
(* No event is lost between the ring and the consumer.                      *)

\* Every waiting entry names an event and carries its stamp, the batch is a
\* part of the outbox, and what is to be marked was taken by the consumer or
\* trimmed before.
OutboxInv ==
    /\ IsFiniteSet(outbox)
    /\ \A e \in outbox : e.seq \in 1..Len(log[e.w]) /\ e.at = log[e.w][e.seq].at
    /\ batch.todo \subseteq outbox
    /\ \A e \in batch.sent : e.seq \in Range(seen[e.w]) \/ e.seq <= cut[e.w]
    /\ NothingLost

\* Appending to what a consumer has seen.
LEMMA RangeAppend ==
    ASSUME NEW s \in Seq(Nat), NEW q \in Nat
    PROVE  Range(Append(s, q)) = Range(s) \cup {q}
  <1>1. /\ DOMAIN s = 1..Len(s) /\ Len(s) \in Nat
        /\ DOMAIN Append(s, q) = 1..(Len(s) + 1)
        /\ \A i \in 1..Len(s) : Append(s, q)[i] = s[i]
        /\ Append(s, q)[Len(s) + 1] = q
    BY AppendProperties, LenProperties
  <1>2. PICK t, m : t = Append(s, q) /\ m = Len(s)
    OBVIOUS
  <1>3. /\ m \in Nat /\ \A i \in 1..m : i \in 1..(m + 1)
        /\ \A i \in 1..(m + 1) : i \in 1..m \/ i = m + 1
        /\ m + 1 \in 1..(m + 1)
    BY <1>1, <1>2
  <1>4. \A x \in Range(t) : x \in Range(s) \cup {q}
    BY <1>1, <1>2, <1>3 DEF Range
  <1>5. \A x \in Range(s) \cup {q} : x \in Range(t)
    BY <1>1, <1>2, <1>3 DEF Range
  <1>. QED
    BY <1>2, <1>4, <1>5

\* What one append leaves alone: events, their stamps and the older markers.
LEMMA AppendKeeps ==
    ASSUME TypeInv, NEW w \in Workflows, NEW type \in States \cup {"command"},
           NEW bytes \in Sizes, AppendEvent(w, type, bytes)
    PROVE  \A x \in Workflows :
              /\ Len(log[x]) \in Nat /\ Len(log'[x]) \in Nat /\ Len(log[x]) <= Len(log'[x])
              /\ cut[x] \in Nat /\ cut'[x] \in Nat /\ cut[x] <= cut'[x]
              /\ \A k \in 1..Len(log[x]) : log'[x][k] = log[x][k]
  <1>1. TypeOK /\ RingFits(w)
    BY DEF TypeInv
  <1>2. /\ log' = [log EXCEPT ![w] = Append(@, [type |-> type, bytes |-> bytes, at |-> clock])]
        /\ Len(log'[w]) = Len(log[w]) + 1 /\ cut' \in [Workflows -> Nat]
        /\ \A x \in Workflows : x # w => cut'[x] = cut[x]
        /\ cut[w] <= cut'[w]
        /\ \A k \in 1..Len(log[w]) : log'[w][k] = log[w][k]
    BY <1>1, AppendFits
  <1>3. \A x \in Workflows : x # w => log'[x] = log[x]
    BY <1>1, <1>2 DEF TypeOK
  <1>4. \A x \in Workflows : Len(log[x]) \in Nat /\ cut[x] \in Nat /\ cut'[x] \in Nat
    BY <1>1, <1>2, LogType
  <1>. QED
    BY <1>2, <1>3, <1>4

\* An appended event waits in the outbox, and so do the older ones unseen.
LEMMA AppendNothingLost ==
    ASSUME TypeInv, OutboxInv, NEW w \in Workflows, NEW type \in States \cup {"command"},
           NEW bytes \in Sizes, AppendEvent(w, type, bytes), UNCHANGED <<batch, seen>>
    PROVE  OutboxInv'
  <1>. DEFINE n == Len(log[w]) + 1
              f == [at |-> clock, w |-> w, seq |-> n]
  <1>1. TypeOK /\ RingFits(w) /\ Len(log[w]) \in Nat
    BY LogType DEF TypeInv
  <1>2. outbox' = outbox \cup {f} /\ Len(log'[w]) = n /\ log'[w][n].at = clock
    BY <1>1, AppendFits
  <1>3. \A x \in Workflows : x # w => log'[x] = log[x]
    <2>1. log' = [log EXCEPT ![w] = Append(@, [type |-> type, bytes |-> bytes, at |-> clock])]
      BY <1>1, AppendFits
    <2>. QED
      BY <1>1, <2>1 DEF TypeOK
  <1>4. \A x \in Workflows :
              /\ Len(log[x]) \in Nat /\ Len(log'[x]) \in Nat /\ Len(log[x]) <= Len(log'[x])
              /\ cut[x] \in Nat /\ cut'[x] \in Nat /\ cut[x] <= cut'[x]
              /\ \A k \in 1..Len(log[x]) : log'[x][k] = log[x][k]
    BY AppendKeeps
  <1>5. IsFiniteSet(outbox')
    <2>. HIDE DEF f
    <2>. QED
      BY <1>2, FS_AddElement DEF OutboxInv
  <1>6. ASSUME NEW e \in outbox'
        PROVE  e.seq \in 1..Len(log'[e.w]) /\ e.at = log'[e.w][e.seq].at
    <2>1. CASE e = f
      <3>1. e.seq = n /\ e.w = w /\ e.at = clock
        BY <2>1
      <3>. QED
        BY <1>1, <1>2, <3>1
    <2>2. CASE e \in outbox
      <3>1. e.w \in Workflows /\ e.seq \in 1..Len(log[e.w]) /\ e.at = log[e.w][e.seq].at
        BY <1>1, <2>2, EntryFields DEF OutboxInv, TypeOK
      <3>2. e.seq \in 1..Len(log'[e.w])
        BY <1>4, <3>1
      <3>. QED
        BY <1>4, <3>1, <3>2
    <2>. QED
      BY <1>2, <2>1, <2>2
  <1>7. NothingLost'
    <2>. SUFFICES ASSUME NEW x \in Workflows, NEW k \in 1..Len(log'[x])
                  PROVE  \/ k \in Range(seen[x]) \/ k <= cut'[x]
                         \/ \E e \in outbox' : e.w = x /\ e.seq = k
      BY DEF NothingLost
    <2>1. CASE x = w /\ k = n
      <3>1. f \in outbox' /\ f.w = w /\ f.seq = n
        BY <1>2
      <3>. HIDE DEF f, n
      <3>. QED
        BY <2>1, <3>1
    <2>2. CASE ~(x = w /\ k = n)
      <3>1. k \in 1..Len(log[x])
        BY <1>1, <1>2, <1>3, <2>2
      <3>2. \/ k \in Range(seen[x]) \/ k <= cut[x]
            \/ \E e \in outbox : e.w = x /\ e.seq = k
        BY <3>1 DEF OutboxInv, NothingLost
      <3>3. k <= cut[x] => k <= cut'[x]
        BY <1>4, <3>1
      <3>. QED
        BY <1>2, <3>2, <3>3
    <2>. QED
      BY <2>1, <2>2
  <1>8. ASSUME NEW e \in batch.sent
        PROVE  e.seq \in Range(seen[e.w]) \/ e.seq <= cut'[e.w]
    <2>1. e.w \in Workflows /\ e.seq \in Nat
      BY <1>1, EntryFields DEF TypeOK
    <2>2. e.seq \in Range(seen[e.w]) \/ e.seq <= cut[e.w]
      BY DEF OutboxInv
    <2>. QED
      BY <1>4, <2>1, <2>2
  <1>9. batch'.todo \subseteq outbox'
    BY <1>2 DEF OutboxInv
  <1>. HIDE DEF f, n
  <1>. QED
    BY <1>5, <1>6, <1>7, <1>8, <1>9 DEF OutboxInv

\* What one send does: the first entry of the batch is taken, or passed over
\* because the consumer has it or the ring no longer does.
Taken(e) ==
    /\ e \in Entry /\ e \in batch.todo /\ e.w \in Workflows /\ e.seq \in Nat
    /\ \A x \in batch.todo \ {e} : Before(e, x)
    /\ batch'.todo = batch.todo \ {e} /\ batch'.sent = batch.sent \cup {e}
    /\ UNCHANGED <<outbox, log, cut, clock>>
    /\ \/ seen' = seen /\ (e.seq \in Range(seen[e.w]) \/ e.seq <= cut[e.w])
       \/ /\ seen' = [seen EXCEPT ![e.w] = Append(@, e.seq)]
          /\ e.seq \notin Range(seen[e.w]) /\ cut[e.w] < e.seq
    /\ \A x \in Workflows : Range(seen[x]) \subseteq Range(seen'[x])
    /\ e.seq \in Range(seen'[e.w]) \/ e.seq <= cut[e.w]

LEMMA SendTakes ==
    ASSUME TypeInv, OutboxInv, Send
    PROVE  \E e : Taken(e)
  <1>. USE DEF events
  <1>0. TypeOK
    BY DEF TypeInv
  <1>1. PICK e : e = First(batch.todo)
    OBVIOUS
  <1>2. e \in Entry /\ e \in batch.todo /\ \A x \in batch.todo \ {e} : Before(e, x)
    BY <1>0, <1>1, FirstIs DEF Send, TypeOK
  <1>3. e.w \in Workflows /\ e.seq \in Nat
    BY <1>2, EntryFields
  <1>4. /\ batch'.todo = batch.todo \ {e} /\ batch'.sent = batch.sent \cup {e}
        /\ UNCHANGED <<outbox, log, cut, clock>>
    BY <1>1 DEF Send
  <1>5. /\ cut[e.w] \in Nat /\ Len(log[e.w]) \in Nat /\ e.seq \in 1..Len(log[e.w])
        /\ DOMAIN ring[e.w] = (cut[e.w] + 1)..Len(log[e.w])
    BY <1>0, <1>2, <1>3, LogType DEF TypeInv, OutboxInv, RingFits
  <1>6. e.seq \in DOMAIN ring[e.w] <=> cut[e.w] < e.seq
    BY <1>3, <1>5
  <1>7. \/ seen' = seen /\ (e.seq \in Range(seen[e.w]) \/ e.seq <= cut[e.w])
        \/ /\ seen' = [seen EXCEPT ![e.w] = Append(@, e.seq)]
           /\ e.seq \notin Range(seen[e.w]) /\ cut[e.w] < e.seq
    <2>1. \/ seen' = seen /\ (e.seq \in Range(seen[e.w]) \/ e.seq \notin DOMAIN ring[e.w])
          \/ /\ seen' = [seen EXCEPT ![e.w] = Append(@, e.seq)]
             /\ e.seq \notin Range(seen[e.w]) /\ e.seq \in DOMAIN ring[e.w]
      BY <1>1 DEF Send
    <2>2. e.seq \notin DOMAIN ring[e.w] => e.seq <= cut[e.w]
      BY <1>3, <1>5, <1>6
    <2>. QED
      BY <1>6, <2>1, <2>2
  <1>8. /\ e.seq \in Range(seen'[e.w]) \/ e.seq <= cut[e.w]
        /\ \A x \in Workflows : Range(seen[x]) \subseteq Range(seen'[x])
    <2>1. seen \in [Workflows -> Seq(Nat)] /\ seen[e.w] \in Seq(Nat)
      BY <1>0, <1>3 DEF TypeOK
    <2>2. Range(Append(seen[e.w], e.seq)) = Range(seen[e.w]) \cup {e.seq}
      BY <1>3, <2>1, RangeAppend
    <2>3. CASE seen' = seen /\ (e.seq \in Range(seen[e.w]) \/ e.seq <= cut[e.w])
      BY <2>3
    <2>4. CASE seen' = [seen EXCEPT ![e.w] = Append(@, e.seq)]
      <3>1. /\ seen'[e.w] = Append(seen[e.w], e.seq)
            /\ \A x \in Workflows : x # e.w => seen'[x] = seen[x]
        BY <1>3, <2>1, <2>4
      <3>. QED
        BY <2>2, <3>1
    <2>. QED
      BY <1>7, <2>3, <2>4
  <1>. QED
    BY <1>2, <1>3, <1>4, <1>7, <1>8 DEF Taken

\* Whatever is drained, sent, half marked or lost with the process, no event
\* of the ring falls between the outbox and the consumer.
LEMMA OutboxStep == TypeInv /\ OutboxInv /\ [Next]_vars => OutboxInv'
  <1>. SUFFICES ASSUME TypeInv, OutboxInv, [Next]_vars PROVE OutboxInv'
    OBVIOUS
  <1>. USE DEF events, publishing
  <1>0. TypeOK
    BY DEF TypeInv
  <1>1. ASSUME UNCHANGED <<outbox, log, cut, seen>>, batch'.todo \subseteq outbox,
               batch'.sent \subseteq batch.sent
        PROVE  OutboxInv'
    BY <1>1 DEF OutboxInv, NothingLost
  <1>2. CASE UNCHANGED <<outbox, log, cut, seen, batch>>
    BY <1>1, <1>2 DEF OutboxInv
  <1>3. ASSUME NEW w \in Workflows, CommandEvent(w)
        PROVE  OutboxInv'
    <2>1. "command" \in States \cup {"command"}
      OBVIOUS
    <2>. QED
      BY <1>3, <2>1, AppendNothingLost DEF CommandEvent
  <1>4. CASE Record
    <2>1. pc.w \in Workflows /\ pc.st \in States
      BY <1>0, <1>4, RunningType DEF Record
    <2>. QED
      BY <1>4, <2>1, AppendNothingLost DEF Record
  <1>5. CASE OutboxDrain
    BY <1>1, <1>5 DEF OutboxDrain
  <1>6. CASE Crash
    BY <1>1, <1>6 DEF Crash
  <1>7. CASE Send
    <2>1. PICK e : Taken(e)
      BY <1>7, SendTakes
    <2>2. \A x \in batch.sent : x.w \in Workflows
      BY <1>0, EntryFields DEF TypeOK
    <2>3. NothingLost'
      BY <2>1 DEF OutboxInv, NothingLost, Taken
    <2>4. ASSUME NEW x \in batch'.sent
          PROVE  x.seq \in Range(seen'[x.w]) \/ x.seq <= cut'[x.w]
      <3>1. CASE x = e
        BY <2>1, <3>1 DEF Taken
      <3>2. CASE x \in batch.sent
        BY <2>1, <2>2, <3>2 DEF OutboxInv, Taken
      <3>. QED
        BY <2>1, <3>1, <3>2 DEF Taken
    <2>. QED
      BY <2>1, <2>3, <2>4 DEF OutboxInv, Taken
  <1>8. CASE MarkPublished
    <2>1. PICK e : e = First(batch.sent)
      OBVIOUS
    <2>2. e \in batch.sent
      BY <1>0, <1>8, <2>1, FirstIs DEF MarkPublished, TypeOK
    <2>3. /\ outbox' = outbox \ Published(e) /\ batch.todo = {}
          /\ batch' = [batch EXCEPT !.sent = @ \ {e}] /\ UNCHANGED <<log, cut, seen>>
      BY <1>8, <2>1 DEF MarkPublished
    <2>4. batch'.todo = {} /\ batch'.sent \subseteq batch.sent
      BY <1>0, <2>3 DEF TypeOK
    <2>5. IsFiniteSet(outbox') /\ outbox' \subseteq outbox
      BY <2>3, FS_Subset DEF OutboxInv
    <2>6. NothingLost'
      <3>. SUFFICES ASSUME NEW x \in Workflows, NEW k \in 1..Len(log[x]),
                           k \notin Range(seen[x]), ~(k <= cut[x])
                    PROVE  \E g \in outbox' : g.w = x /\ g.seq = k
        BY <2>3 DEF NothingLost
      <3>1. PICK g \in outbox : g.w = x /\ g.seq = k
        BY DEF OutboxInv, NothingLost
      <3>2. ~(g.w = e.w /\ g.seq = e.seq)
        BY <2>2, <3>1 DEF OutboxInv
      <3>. QED
        BY <2>3, <3>1, <3>2 DEF Published
    <2>. QED
      BY <2>3, <2>4, <2>5, <2>6 DEF OutboxInv
  <1>9. ASSUME NEW w \in Workflows,
               \/ \E s \in Sessions \cup {None} : CreateWorkflow(w, s)
               \/ \E st \in MayMove : Transition(w, st)
               \/ \E s \in Sessions : Bind(w, s)
               \/ ReconcileUnbound(w)
        PROVE  OutboxInv'
    BY <1>2, <1>9 DEF CreateWorkflow, Transition, Bind, ReconcileUnbound
  <1>10. CASE UpsertBinding \/ Tick \/ Fail \/ UNCHANGED vars
    BY <1>2, <1>10 DEF UpsertBinding, Tick, Fail, vars
  <1>. QED
    BY <1>3, <1>4, <1>5, <1>6, <1>7, <1>8, <1>9, <1>10 DEF Next

-----------------------------------------------------------------------------
(* The order of what the consumer is given.                                 *)

\* Why the older event a did not come after the one at place i: it is stamped
\* later, came before, or was trimmed without ever being given.
Preceded(w, i, a) ==
    \/ log[w][seen[w][i]].at < log[w][a].at
    \/ \E k \in 1..(i - 1) : seen[w][k] = a
    \/ a <= cut[w] /\ a \notin Range(seen[w])

\* The same for an entry of the batch and an older event of its workflow,
\* which may also be ahead of it in the batch.
Handled(e, a) ==
    \/ e.at < log[e.w][a].at
    \/ a \in Range(seen[e.w])
    \/ a <= cut[e.w]
    \/ \E x \in batch.todo : x.w = e.w /\ x.seq = a

\* The consumer is given each event once, and none before an older one that
\* is not stamped later.
OrderInv ==
    /\ \A w \in Workflows : \A i \in 1..Len(seen[w]) : seen[w][i] \in 1..Len(log[w])
    /\ \A w \in Workflows : \A i, j \in 1..Len(seen[w]) : i # j => seen[w][i] # seen[w][j]
    /\ \A w \in Workflows : \A i \in 1..Len(seen[w]) : \A a \in 1..(seen[w][i] - 1) :
          Preceded(w, i, a)
    /\ \A e \in batch.todo : \A a \in 1..(e.seq - 1) : Handled(e, a)

\* Two entries of one workflow, the older one not stamped later: the drain
\* order agrees, and whatever comes before the older comes before the newer.
LEMMA BeforeAgrees ==
    ASSUME NEW e \in Entry, NEW f \in Entry, f.w = e.w, f.seq < e.seq, f.at <= e.at
    PROVE  /\ Before(f, e) /\ ~Before(e, f)
           /\ \A x \in Entry : Before(x, f) => Before(x, e)
  <1>1. /\ e.at \in Nat /\ e.w \in Nat /\ e.seq \in Nat
        /\ f.at \in Nat /\ f.w \in Nat /\ f.seq \in Nat
    BY EntryFields
  <1>2. Before(f, e) /\ ~Before(e, f)
    BY <1>1 DEF Before
  <1>3. ASSUME NEW x \in Entry, Before(x, f) PROVE Before(x, e)
    <2>1. x.at \in Nat /\ x.w \in Nat /\ x.seq \in Nat
      BY EntryFields
    <2>. QED
      BY <1>1, <1>3, <2>1 DEF Before
  <1>. QED
    BY <1>2, <1>3

\* A drained batch is closed under older entries not stamped later.
LEMMA DrainClosed ==
    ASSUME NEW S, S \subseteq Entry, IsFiniteSet(S),
           NEW e \in S, NEW f \in S, f.w = e.w, f.seq < e.seq, f.at <= e.at,
           Cardinality({x \in S : Before(x, e)}) < DrainLimit
    PROVE  Cardinality({x \in S : Before(x, f)}) < DrainLimit
  <1>1. PICK E : E = {x \in S : Before(x, e)}
    OBVIOUS
  <1>2. PICK F : F = {x \in S : Before(x, f)}
    OBVIOUS
  <1>3. F \subseteq E /\ E \subseteq S
    BY <1>1, <1>2, BeforeAgrees
  <1>4. /\ IsFiniteSet(E) /\ IsFiniteSet(F)
        /\ Cardinality(F) <= Cardinality(E)
    BY <1>3, FS_Subset
  <1>5. Cardinality(E) \in Nat /\ Cardinality(F) \in Nat /\ DrainLimit \in Nat
    BY <1>4, FS_CardinalityType, StoreAssumption
  <1>6. Cardinality(E) < DrainLimit
    BY <1>1
  <1>7. Cardinality(F) < DrainLimit
    BY <1>4, <1>5, <1>6
  <1>. QED
    BY <1>2, <1>7

\* The batch of a drain holds what an entry of it must not overtake.
LEMMA DrainHandles ==
    ASSUME TypeInv, OutboxInv, OutboxDrain, NEW e \in batch'.todo, NEW a \in 1..(e.seq - 1)
    PROVE  Handled(e, a)'
  <1>. USE DEF events
  <1>0. TypeOK
    BY DEF TypeInv
  <1>1. /\ batch'.todo = {x \in outbox :
                            Cardinality({y \in outbox : Before(y, x)}) < DrainLimit}
        /\ UNCHANGED <<outbox, log, seen, cut>>
    BY DEF OutboxDrain
  <1>2. /\ e \in outbox /\ Cardinality({x \in outbox : Before(x, e)}) < DrainLimit
        /\ outbox \subseteq Entry /\ IsFiniteSet(outbox) /\ e \in Entry
    BY <1>0, <1>1 DEF TypeOK, OutboxInv
  <1>3. /\ e.w \in Workflows /\ e.seq \in Nat /\ e.at \in Nat
        /\ e.seq \in 1..Len(log[e.w]) /\ Len(log[e.w]) \in Nat
    BY <1>0, <1>2, EntryFields, LogType DEF OutboxInv
  <1>4. a \in 1..Len(log[e.w]) /\ a < e.seq
    BY <1>3
  <1>5. CASE a \in Range(seen[e.w]) \/ a <= cut[e.w]
    BY <1>1, <1>5 DEF Handled
  <1>6. ASSUME NEW f \in outbox, f.w = e.w, f.seq = a
        PROVE  Handled(e, a)'
    <2>1. f \in Entry /\ f.at = log[e.w][a].at /\ f.at \in Nat /\ f.seq < e.seq
      BY <1>2, <1>4, <1>6, EntryFields DEF OutboxInv
    <2>2. CASE e.at < f.at
      BY <1>1, <2>1, <2>2 DEF Handled
    <2>3. CASE f.at <= e.at
      <3>1. Cardinality({x \in outbox : Before(x, f)}) < DrainLimit
        BY <1>2, <1>6, <2>1, <2>3, DrainClosed
      <3>2. f \in batch'.todo
        BY <1>1, <3>1
      <3>. QED
        BY <1>6, <3>2 DEF Handled
    <2>. QED
      BY <1>3, <2>1, <2>2, <2>3
  <1>. QED
    BY <1>3, <1>4, <1>5, <1>6 DEF OutboxInv, NothingLost

\* A newly appended event is younger than all that is given or drained.
LEMMA AppendOrder ==
    ASSUME TypeInv, OutboxInv, OrderInv, NEW w \in Workflows,
           NEW type \in States \cup {"command"}, NEW bytes \in Sizes,
           AppendEvent(w, type, bytes), UNCHANGED <<batch, seen>>
    PROVE  OrderInv'
  <1>1. TypeOK
    BY DEF TypeInv
  <1>2. \A x \in Workflows :
              /\ Len(log[x]) \in Nat /\ Len(log'[x]) \in Nat /\ Len(log[x]) <= Len(log'[x])
              /\ cut[x] \in Nat /\ cut'[x] \in Nat /\ cut[x] <= cut'[x]
              /\ \A k \in 1..Len(log[x]) : log'[x][k] = log[x][k]
    BY AppendKeeps
  <1>3. ASSUME NEW x \in Workflows, NEW i \in 1..Len(seen[x])
        PROVE  /\ seen[x][i] \in 1..Len(log'[x])
               /\ \A a \in 1..(seen[x][i] - 1) : Preceded(x, i, a)'
    <2>1. seen[x][i] \in 1..Len(log[x])
      BY DEF OrderInv
    <2>2. seen[x][i] \in 1..Len(log'[x])
      BY <1>2, <2>1
    <2>3. ASSUME NEW a \in 1..(seen[x][i] - 1) PROVE Preceded(x, i, a)'
      <3>1. a \in 1..Len(log[x]) /\ a \in Nat
        BY <1>2, <2>1
      <3>2. Preceded(x, i, a)
        BY DEF OrderInv
      <3>3. a <= cut[x] => a <= cut'[x]
        BY <1>2, <3>1
      <3>4. log'[x][a] = log[x][a] /\ log'[x][seen[x][i]] = log[x][seen[x][i]]
        BY <1>2, <2>1, <3>1
      <3>. QED
        BY <3>2, <3>3, <3>4 DEF Preceded
    <2>. QED
      BY <2>2, <2>3
  <1>4. ASSUME NEW e \in batch.todo, NEW a \in 1..(e.seq - 1) PROVE Handled(e, a)'
    <2>1. /\ e.w \in Workflows /\ e.seq \in Nat /\ e.seq \in 1..Len(log[e.w])
      BY <1>1, EntryFields DEF TypeOK, OutboxInv
    <2>2. a \in 1..Len(log[e.w]) /\ a \in Nat
      BY <1>2, <2>1
    <2>3. a <= cut[e.w] => a <= cut'[e.w]
      BY <1>2, <2>1, <2>2
    <2>4. log'[e.w][a] = log[e.w][a]
      BY <1>2, <2>1, <2>2
    <2>5. Handled(e, a)
      BY DEF OrderInv
    <2>. QED
      BY <2>3, <2>4, <2>5 DEF Handled
  <1>. QED
    BY <1>3, <1>4 DEF OrderInv

\* Steps that only change the batch.
LEMMA OrderKept ==
    ASSUME OrderInv, UNCHANGED <<log, cut, seen>>,
           \A e \in batch'.todo : \A a \in 1..(e.seq - 1) : Handled(e, a)'
    PROVE  OrderInv'
  <1>1. \A w \in Workflows : \A i \in 1..Len(seen[w]) : \A a \in 1..(seen[w][i] - 1) :
           Preceded(w, i, a)'
    BY DEF OrderInv, Preceded
  <1>. QED
    BY <1>1 DEF OrderInv, Handled, Preceded

\* Sending the first entry of the batch overtakes nothing but events stamped
\* later.
LEMMA SendOrder ==
    ASSUME TypeInv, OutboxInv, OrderInv, Send
    PROVE  OrderInv'
  <1>0. TypeOK
    BY DEF TypeInv
  <1>1. PICK e : Taken(e)
    BY SendTakes
  <1>2. /\ e.w \in Workflows /\ e.seq \in Nat /\ e.at \in Nat /\ e \in outbox
        /\ e.seq \in 1..Len(log[e.w]) /\ e.at = log[e.w][e.seq].at
        /\ Len(log[e.w]) \in Nat /\ e \in Entry
    BY <1>0, <1>1, EntryFields, LogType DEF Taken, OutboxInv
  \* Nothing older is left out.
  <1>3. ASSUME NEW a \in 1..(e.seq - 1)
        PROVE  e.at < log[e.w][a].at \/ a \in Range(seen[e.w]) \/ a <= cut[e.w]
    <2>1. Handled(e, a)
      BY <1>1 DEF Taken, OrderInv
    <2>2. ASSUME NEW f \in batch.todo, f.w = e.w, f.seq = a
          PROVE  e.at < log[e.w][a].at
      <3>1. f \in Entry /\ f.at \in Nat /\ f.at = log[e.w][a].at /\ f.seq < e.seq
        <4>1. f \in outbox /\ batch.todo \subseteq Entry
          BY <1>0, <2>2 DEF TypeOK, OutboxInv
        <4>2. f \in Entry /\ f.at \in Nat
          BY <2>2, <4>1, EntryFields
        <4>3. f.at = log[e.w][a].at
          BY <2>2, <4>1 DEF OutboxInv
        <4>. QED
          BY <1>2, <2>2, <4>2, <4>3
      <3>2. f # e
        BY <1>2, <3>1
      <3>3. Before(e, f)
        BY <1>1, <3>2 DEF Taken
      <3>4. ~(f.at <= e.at)
        BY <1>2, <2>2, <3>1, <3>3, BeforeAgrees
      <3>. QED
        BY <1>2, <3>1, <3>4
    <2>. QED
      BY <2>1, <2>2 DEF Handled
  \* The rest of the batch.
  <1>4. ASSUME NEW x \in batch'.todo, NEW a \in 1..(x.seq - 1) PROVE Handled(x, a)'
    <2>1. x \in batch.todo /\ Handled(x, a) /\ x.w \in Workflows /\ x.seq \in Nat
      BY <1>0, <1>1, EntryFields DEF Taken, OrderInv, TypeOK
    <2>2. CASE \E y \in batch.todo : y.w = x.w /\ y.seq = a
      <3>1. PICK y \in batch.todo : y.w = x.w /\ y.seq = a
        BY <2>2
      <3>2. CASE y = e
        BY <1>1, <3>1, <3>2 DEF Taken, Handled
      <3>3. CASE y # e
        BY <1>1, <3>1, <3>3 DEF Taken, Handled
      <3>. QED
        BY <3>2, <3>3
    <2>3. CASE x.at < log[x.w][a].at \/ a \in Range(seen[x.w]) \/ a <= cut[x.w]
      BY <1>1, <2>1, <2>3 DEF Taken, Handled
    <2>. QED
      BY <2>1, <2>2, <2>3 DEF Handled
  <1>5. CASE seen' = seen
    BY <1>1, <1>4, <1>5, OrderKept DEF Taken
  <1>6. CASE seen' # seen
    <2>1. /\ seen' = [seen EXCEPT ![e.w] = Append(@, e.seq)]
          /\ e.seq \notin Range(seen[e.w]) /\ cut[e.w] < e.seq
          /\ UNCHANGED <<log, cut>>
      BY <1>1, <1>6 DEF Taken
    <2>2. PICK s, k : s = seen[e.w] /\ k = Len(s)
      OBVIOUS
    <2>3. /\ seen \in [Workflows -> Seq(Nat)] /\ s \in Seq(Nat) /\ k \in Nat
          /\ DOMAIN s = 1..k
      BY <1>0, <1>2, <2>2, LenProperties DEF TypeOK
    <2>4. PICK t : /\ t = seen'[e.w] /\ Len(t) = k + 1 /\ t[k + 1] = e.seq
                   /\ \A i \in 1..k : t[i] = s[i]
                   /\ Range(t) = Range(s) \cup {e.seq}
      <3>1. seen'[e.w] = Append(s, e.seq)
        BY <1>2, <2>1, <2>2, <2>3
      <3>2. /\ Len(Append(s, e.seq)) = k + 1 /\ Append(s, e.seq)[k + 1] = e.seq
            /\ \A i \in 1..k : Append(s, e.seq)[i] = s[i]
        BY <1>2, <2>2, <2>3, AppendProperties
      <3>3. Range(Append(s, e.seq)) = Range(s) \cup {e.seq}
        BY <1>2, <2>3, RangeAppend
      <3>. QED
        BY <3>1, <3>2, <3>3
    <2>5. \A x \in Workflows : x # e.w => seen'[x] = seen[x]
      BY <2>1, <2>3
    <2>6. /\ \A i \in 1..k : s[i] \in 1..Len(log[e.w]) /\ s[i] \in Range(s)
          /\ \A i, j \in 1..k : i # j => s[i] # s[j]
          /\ \A i \in 1..k : \A a \in 1..(s[i] - 1) :
                \/ log[e.w][s[i]].at < log[e.w][a].at
                \/ \E l \in 1..(i - 1) : s[l] = a
                \/ a <= cut[e.w] /\ a \notin Range(s)
      <3>1. \A i \in 1..k : s[i] \in Range(s)
        BY <2>3 DEF Range
      <3>2. \A i \in 1..k : \A a \in 1..(s[i] - 1) :
                \/ log[e.w][s[i]].at < log[e.w][a].at
                \/ \E l \in 1..(i - 1) : s[l] = a
                \/ a <= cut[e.w] /\ a \notin Range(s)
        <4>1. \A i \in 1..k : \A a \in 1..(s[i] - 1) : Preceded(e.w, i, a)
          BY <1>2, <2>2 DEF OrderInv
        <4>. QED
          BY <2>2, <4>1 DEF Preceded
      <3>3. /\ \A i \in 1..k : s[i] \in 1..Len(log[e.w])
            /\ \A i, j \in 1..k : i # j => s[i] # s[j]
        BY <1>2, <2>2 DEF OrderInv
      <3>. QED
        BY <3>1, <3>2, <3>3
    <2>7. \A i \in 1..(k + 1) : i \in 1..k \/ i = k + 1
      BY <2>3
    <2>8. ASSUME NEW i \in 1..(k + 1), NEW a \in 1..(t[i] - 1)
          PROVE  \/ log[e.w][t[i]].at < log[e.w][a].at
                 \/ \E l \in 1..(i - 1) : t[l] = a
                 \/ a <= cut[e.w] /\ a \notin Range(t)
      <3>1. CASE i \in 1..k
        <4>1. t[i] = s[i] /\ \A l \in 1..(i - 1) : l \in 1..k /\ t[l] = s[l]
          <5>1. k \in Nat /\ \A l \in 1..k : t[l] = s[l]
            BY <2>3, <2>4
          <5>2. \A l \in 1..(i - 1) : l \in 1..k
            BY <3>1, <5>1
          <5>. QED
            BY <3>1, <5>1, <5>2, Zenon
        <4>2. a <= cut[e.w] => a # e.seq
          BY <1>0, <1>2, <2>1, LogType
        <4>3. a \in 1..(s[i] - 1)
          BY <4>1
        <4>4. \/ log[e.w][s[i]].at < log[e.w][a].at
              \/ \E l \in 1..(i - 1) : s[l] = a
              \/ a <= cut[e.w] /\ a \notin Range(s)
          BY <2>6, <3>1, <4>3
        <4>. QED
          BY <2>4, <4>1, <4>2, <4>4
      <3>2. CASE i = k + 1
        <4>1. t[i] = e.seq /\ a \in 1..(e.seq - 1) /\ a # e.seq
          BY <1>2, <2>4, <3>2
        <4>2. CASE a \in Range(s)
          <5>1. PICK l \in 1..k : s[l] = a
            BY <2>3, <4>2 DEF Range
          <5>2. l \in 1..(i - 1) /\ t[l] = a
            BY <2>3, <2>4, <3>2, <5>1
          <5>. QED
            BY <5>2
        <4>3. CASE a \notin Range(s)
          BY <1>2, <1>3, <2>2, <2>4, <4>1, <4>3
        <4>. QED
          BY <4>2, <4>3
      <3>. QED
        BY <2>7, <3>1, <3>2
    <2>9. ASSUME NEW x \in Workflows, NEW i \in 1..Len(seen'[x])
          PROVE  /\ seen'[x][i] \in 1..Len(log'[x])
                 /\ \A j \in 1..Len(seen'[x]) : i # j => seen'[x][i] # seen'[x][j]
                 /\ \A a \in 1..(seen'[x][i] - 1) : Preceded(x, i, a)'
      <3>1. CASE x # e.w
        BY <2>1, <2>5, <2>9, <3>1 DEF OrderInv, Preceded
      <3>2. CASE x = e.w
        <4>1. i \in 1..(k + 1) /\ t = seen'[x]
          BY <2>4, <2>9, <3>2
        <4>2. seen'[x][i] \in 1..Len(log'[x])
          BY <1>2, <2>1, <2>4, <2>6, <2>7, <3>2, <4>1
        <4>3. \A j \in 1..(k + 1) : i # j => t[i] # t[j]
          <5>1. \A j \in 1..k : t[j] \in Range(s) /\ t[j] = s[j]
            BY <2>4, <2>6
          <5>2. e.seq \notin Range(s)
            BY <2>1, <2>2
          <5>. QED
            BY <2>4, <2>6, <2>7, <4>1, <5>1, <5>2
        <4>4. \A a \in 1..(t[i] - 1) : Preceded(x, i, a)'
          BY <2>1, <2>8, <3>2, <4>1 DEF Preceded
        <4>. QED
          BY <2>4, <3>2, <4>1, <4>2, <4>3, <4>4
      <3>. QED
        BY <3>1, <3>2
    <2>. QED
      BY <1>4, <2>9 DEF OrderInv
  <1>. QED
    BY <1>5, <1>6

\* No step disturbs the order.
LEMMA OrderStep == TypeInv /\ OutboxInv /\ OrderInv /\ [Next]_vars => OrderInv'
  <1>. SUFFICES ASSUME TypeInv, OutboxInv, OrderInv, [Next]_vars PROVE OrderInv'
    OBVIOUS
  <1>. USE DEF events, publishing
  <1>0. TypeOK
    BY DEF TypeInv
  <1>1. CASE UNCHANGED <<log, cut, seen, batch>>
    BY <1>1 DEF OrderInv, Preceded, Handled
  <1>2. ASSUME NEW w \in Workflows, CommandEvent(w)
        PROVE  OrderInv'
    <2>1. "command" \in States \cup {"command"}
      OBVIOUS
    <2>. QED
      BY <1>2, <2>1, AppendOrder DEF CommandEvent
  <1>3. CASE Record
    <2>1. pc.w \in Workflows /\ pc.st \in States
      BY <1>0, <1>3, RunningType DEF Record
    <2>. QED
      BY <1>3, <2>1, AppendOrder DEF Record
  <1>4. CASE OutboxDrain
    <2>1. UNCHANGED <<log, cut, seen>>
      BY <1>4 DEF OutboxDrain
    <2>2. \A e \in batch'.todo : \A a \in 1..(e.seq - 1) : Handled(e, a)'
      BY <1>4, DrainHandles
    <2>. QED
      BY <2>1, <2>2, OrderKept
  <1>5. CASE Send
    BY <1>5, SendOrder
  <1>6. CASE MarkPublished
    <2>1. batch.todo = {} /\ UNCHANGED <<log, cut, seen>>
          /\ \E E : batch' = [batch EXCEPT !.sent = E]
      BY <1>6 DEF MarkPublished
    <2>2. batch'.todo = {}
      BY <1>0, <2>1 DEF TypeOK
    <2>. QED
      BY <2>1, <2>2, OrderKept
  <1>7. CASE Crash
    <2>1. batch'.todo = {} /\ UNCHANGED <<log, cut, seen>>
      BY <1>7 DEF Crash
    <2>. QED
      BY <2>1, OrderKept
  <1>9. ASSUME NEW w \in Workflows,
               \/ \E s \in Sessions \cup {None} : CreateWorkflow(w, s)
               \/ \E st \in MayMove : Transition(w, st)
               \/ \E s \in Sessions : Bind(w, s)
               \/ ReconcileUnbound(w)
        PROVE  OrderInv'
    BY <1>1, <1>9 DEF CreateWorkflow, Transition, Bind, ReconcileUnbound
  <1>10. CASE UpsertBinding \/ Tick \/ Fail \/ UNCHANGED vars
    BY <1>1, <1>10 DEF UpsertBinding, Tick, Fail, vars
  <1>. QED
    BY <1>2, <1>3, <1>4, <1>5, <1>6, <1>7, <1>9, <1>10 DEF Next

\* The freshly opened store satisfies every invariant.
LEMMA OutboxInit == Init => OutboxInv /\ OrderInv /\ BindInv
  <1>. SUFFICES ASSUME Init PROVE OutboxInv /\ OrderInv /\ BindInv
    OBVIOUS
  <1>1. /\ outbox = {} /\ batch.todo = {} /\ batch.sent = {} /\ pc = Idle
        /\ created = {} /\ cleanFailed = {}
        /\ \A w \in Workflows : row[w] = "none" /\ log[w] = <<>> /\ seen[w] = <<>>
    BY DEF Init
  <1>2. Len(<<>>) = 0
    OBVIOUS
  <1>3. \A w \in Workflows : 1..Len(log[w]) = {} /\ 1..Len(seen[w]) = {}
    BY <1>1, <1>2
  <1>4. OutboxInv
    BY <1>1, <1>3, FS_EmptySet DEF OutboxInv, NothingLost
  <1>5. OrderInv
    BY <1>1, <1>3 DEF OrderInv
  <1>6. BindInv
    BY <1>1 DEF BindInv, CleanFailOnlyUnbound, Idle
  <1>. QED
    BY <1>4, <1>5, <1>6

-----------------------------------------------------------------------------
(* What a snapshot shows.                                                   *)

\* The ring never holds more events than its bound.
RingBounded == \A w \in Workflows : Len(log[w]) - cut[w] <= MaxRingEvents

\* What the trim of one append walks over: the rows of the run before the new
\* marker, whose last one still exceeded a bound, and none after it.
LEMMA AppendTrims ==
    ASSUME TypeOK, NEW w \in Workflows, RingFits(w),
           NEW type \in States \cup {"command"}, NEW bytes \in Sizes,
           AppendEvent(w, type, bytes)
    PROVE  \E r :
             /\ DOMAIN r = (cut[w] + 1)..Len(log'[w])
             /\ \A k \in (cut[w] + 1)..Len(log'[w]) : r[k] = log'[w][k].bytes
             /\ Newest(r) = Len(log'[w])
             /\ cut[w] <= cut'[w] /\ cut'[w] < Len(log'[w])
             /\ cut'[w] # cut[w] => cut'[w] \in Walked(r)
             /\ cut'[w] + 1 \notin Walked(r)
  <1>. DEFINE n == Len(log[w]) + 1
              a == cut[w]
              ev == [type |-> type, bytes |-> bytes, at |-> clock]
              inserted == [k \in DOMAIN ring[w] \cup {n} |->
                              IF k = n THEN bytes ELSE ring[w][k]]
              T == {k \in DOMAIN inserted : \E c \in Walked(inserted) : k <= c}
  <1>1. /\ Newest(ring[w]) = Len(log[w]) /\ DOMAIN ring[w] = (a + 1)..Len(log[w])
        /\ Len(log[w]) \in Nat /\ a \in Nat /\ a <= Len(log[w]) /\ log[w] \in Seq(Event)
    BY NewestIs, LogType DEF RingFits
  <1>2. /\ ring' = [ring EXCEPT ![w] = Restrict(inserted, DOMAIN inserted \ T)]
        /\ log' = [log EXCEPT ![w] = Append(@, ev)]
    BY <1>1 DEF AppendEvent
  <1>3. DOMAIN inserted = (a + 1)..n
    BY <1>1
  <1>4. DOMAIN ring'[w] = DOMAIN inserted \ T
    BY <1>2 DEF TypeOK, Restrict
  <1>5. PICK m \in Nat : m = cut'[w]
    BY AppendFits
  <1>6. Len(log'[w]) = n /\ DOMAIN ring'[w] = (m + 1)..n /\ m < n /\ n \in Nat
    <2>1. Len(log'[w]) = n /\ RingFits(w)' /\ log' \in [Workflows -> Seq(Event)]
      BY AppendFits
    <2>2. log'[w] # <<>>
      BY <1>1, <2>1, EmptySeq
    <2>. QED
      BY <1>1, <1>5, <2>1, <2>2 DEF RingFits
  <1>7. \A k \in (a + 1)..n : inserted[k] = log'[w][k].bytes
    <2>1. PICK l : l = log'[w] /\ l = Append(log[w], ev)
      BY <1>2 DEF TypeOK
    <2>2. ev \in Event /\ ev.bytes = bytes
      BY DEF Event, TypeInv, TypeOK
    <2>3. /\ \A k \in 1..Len(log[w]) : l[k] = log[w][k]
          /\ l[n] = ev
      <3>. HIDE DEF ev
      <3>. QED
        BY <1>1, <2>1, <2>2, AppendProperties
    <2>. TAKE k \in (a + 1)..n
    <2>4. CASE k = n
      BY <1>3, <2>1, <2>2, <2>3, <2>4
    <2>5. CASE k # n
      <3>1. k \in (a + 1)..Len(log[w]) /\ k \in 1..Len(log[w])
        BY <1>1, <2>5
      <3>. QED
        BY <1>3, <2>1, <2>3, <2>5, <3>1 DEF RingFits
    <2>. QED
      BY <2>4, <2>5
  <1>8. Newest(inserted) = n
    <2>1. /\ (a + 1)..n \subseteq Nat /\ n \in (a + 1)..n
          /\ \A k \in (a + 1)..n : k <= n
      BY <1>1
    <2>. HIDE DEF inserted, n, a
    <2>2. Max((a + 1)..n) = n /\ (a + 1)..n # {}
      BY <2>1, MaxIs
    <2>. QED
      BY <1>3, <2>2 DEF Newest
  <1>9. Walked(inserted) \subseteq (a + 1)..n
    <2>. HIDE DEF inserted
    <2>. QED
      BY <1>3 DEF Walked
  <1>10. \A k \in Walked(inserted) : k \in T
    <2>1. \A k \in (a + 1)..n : k <= k
      BY <1>1
    <2>. QED
      BY <1>3, <1>9, <2>1, Zenon
  <1>11. \A k \in (a + 1)..n : k \in T <=> k <= m
    <2>1. (a + 1)..n \ T = (m + 1)..n
      BY <1>3, <1>4, <1>6
    <2>. TAKE k \in (a + 1)..n
    <2>2. k \notin T <=> k \in (m + 1)..n
      <3>. HIDE DEF T
      <3>. QED
        BY <2>1
    <2>3. k \in (m + 1)..n <=> ~(k <= m)
      BY <1>1, <1>6
    <2>. QED
      BY <2>2, <2>3
  <1>12. m + 1 \notin Walked(inserted)
    <2>1. ~(m + 1 <= m)
      BY <1>5
    <2>. HIDE DEF T, inserted
    <2>. QED
      BY <1>9, <1>10, <1>11, <2>1
  <1>13. a <= m
    <2>1. m + 1 \in (m + 1)..n
      BY <1>6
    <2>2. m + 1 \in (a + 1)..n
      BY <1>3, <1>4, <1>6, <2>1
    <2>. QED
      BY <1>1, <1>5, <2>2
  <1>14. ASSUME m # a PROVE m \in Walked(inserted)
    <2>1. m \in (a + 1)..n /\ m <= m
      <3>1. a \in Nat /\ n \in Nat /\ m \in Nat /\ a < m /\ m < n
        BY <1>1, <1>5, <1>6, <1>13, <1>14
      <3>. HIDE DEF n, a
      <3>. QED
        BY <3>1
    <2>2. m \in T
      BY <1>11, <2>1
    <2>3. PICK c \in Walked(inserted) : m <= c
      BY <2>2
    <2>4. c \in (a + 1)..n /\ c <= m
      BY <1>9, <1>10, <1>11
    <2>. QED
      BY <1>1, <2>3, <2>4
  <1>. HIDE DEF n, a, inserted
  <1>15. /\ DOMAIN inserted = (cut[w] + 1)..Len(log'[w])
         /\ \A k \in (cut[w] + 1)..Len(log'[w]) : inserted[k] = log'[w][k].bytes
         /\ Newest(inserted) = Len(log'[w])
         /\ cut[w] <= cut'[w] /\ cut'[w] < Len(log'[w])
         /\ cut'[w] # cut[w] => cut'[w] \in Walked(inserted)
         /\ cut'[w] + 1 \notin Walked(inserted)
    BY <1>3, <1>5, <1>6, <1>7, <1>8, <1>12, <1>13, <1>14 DEF a
  <1>. QED
    BY <1>15

\* The trim walks until the bound on events is met.
LEMMA AppendBound ==
    ASSUME TypeOK, NEW w \in Workflows, RingFits(w),
           NEW type \in States \cup {"command"}, NEW bytes \in Sizes,
           AppendEvent(w, type, bytes)
    PROVE  Len(log'[w]) - cut'[w] <= MaxRingEvents
  <1>1. PICK n, m, a : n = Len(log'[w]) /\ m = cut'[w] /\ a = cut[w]
    OBVIOUS
  <1>2. n \in Nat /\ m \in Nat /\ a \in Nat
    <2>1. Len(log'[w]) = Len(log[w]) + 1 /\ cut' \in [Workflows -> Nat]
      BY AppendFits
    <2>2. Len(log[w]) \in Nat /\ cut[w] \in Nat
      BY LogType
    <2>. QED
      BY <1>1, <2>1, <2>2
  <1>3. PICK r : /\ DOMAIN r = (a + 1)..n /\ Newest(r) = n
                 /\ a <= m /\ m < n /\ m + 1 \notin Walked(r)
    BY <1>1, AppendTrims
  <1>4. SUFFICES ASSUME n - m > MaxRingEvents PROVE FALSE
    BY <1>1, <1>2, StoreAssumption
  <1>5. m + 1 < n /\ m + 1 \in (a + 1)..n
    BY <1>2, <1>3, <1>4, StoreAssumption
  <1>6. {j \in (a + 1)..n : j >= m + 1} = (m + 1)..n
    BY <1>2, <1>3
  <1>7. Cardinality((m + 1)..n) = n - m
    <2>1. m + 1 \in Int /\ n \in Int /\ ~(m + 1 > n) /\ n - (m + 1) + 1 = n - m
      BY <1>2, <1>5
    <2>. QED
      BY <2>1, FS_Interval
  <1>8. NeedEvents(r, m + 1)
    BY <1>3, <1>4, <1>6, <1>7 DEF NeedEvents
  <1>. QED
    BY <1>3, <1>5, <1>8 DEF Walked

\* Every step keeps the rings within the bound.
LEMMA BoundStep == TypeInv /\ RingBounded /\ [Next]_vars => RingBounded'
  <1>. SUFFICES ASSUME TypeInv, RingBounded, [Next]_vars PROVE RingBounded'
    OBVIOUS
  <1>. USE DEF events, publishing
  <1>0. TypeOK /\ \A w \in Workflows : RingFits(w)
    BY DEF TypeInv
  <1>1. CASE UNCHANGED <<cut, log>>
    BY <1>1 DEF RingBounded
  <1>2. ASSUME NEW w \in Workflows, NEW type \in States \cup {"command"},
               NEW bytes \in Sizes, AppendEvent(w, type, bytes)
        PROVE  RingBounded'
    <2>1. Len(log'[w]) - cut'[w] <= MaxRingEvents
      BY <1>0, <1>2, AppendBound
    <2>2. log' = [log EXCEPT ![w] = Append(@, [type |-> type, bytes |-> bytes, at |-> clock])]
      BY <1>0, <1>2, AppendFits
    <2>3. \A x \in Workflows : x # w => log'[x] = log[x] /\ cut'[x] = cut[x]
      BY <1>0, <1>2, <2>2, AppendFits DEF TypeOK
    <2>. QED
      BY <2>1, <2>3 DEF RingBounded
  <1>3. ASSUME NEW w \in Workflows, CommandEvent(w)
        PROVE  RingBounded'
    <2>1. "command" \in States \cup {"command"}
      OBVIOUS
    <2>. QED
      BY <1>2, <1>3, <2>1 DEF CommandEvent
  <1>4. CASE Record
    <2>1. pc.w \in Workflows /\ pc.st \in States
      BY <1>0, <1>4, RunningType DEF Record
    <2>. QED
      BY <1>2, <1>4, <2>1 DEF Record
  <1>5. ASSUME NEW w \in Workflows,
               \/ \E s \in Sessions \cup {None} : CreateWorkflow(w, s)
               \/ \E st \in MayMove : Transition(w, st)
               \/ \E s \in Sessions : Bind(w, s)
               \/ ReconcileUnbound(w)
        PROVE  RingBounded'
    BY <1>1, <1>5 DEF CreateWorkflow, Transition, Bind, ReconcileUnbound
  <1>6. CASE OutboxDrain \/ Send \/ MarkPublished \/ Crash
    BY <1>1, <1>6 DEF OutboxDrain, Send, MarkPublished, Crash
  <1>7. CASE UpsertBinding \/ Tick \/ Fail \/ UNCHANGED vars
    BY <1>1, <1>7 DEF UpsertBinding, Tick, Fail, vars
  <1>. QED
    BY <1>3, <1>4, <1>5, <1>6, <1>7 DEF Next

\* The greater of two integers.
LEMMA MaxOfTwo ==
    ASSUME NEW a \in Int, NEW b \in Int
    PROVE  Max({a, b}) = IF a >= b THEN a ELSE b
  <1>1. PICK S : S = {a, b}
    OBVIOUS
  <1>2. \E m \in S : \A k \in S : m >= k
    BY <1>1
  <1>3. Max(S) \in S /\ \A k \in S : Max(S) >= k
    BY <1>2, Zenon DEF Max
  <1>4. PICK x \in S : x = Max(S) /\ \A k \in S : x >= k
    BY <1>3
  <1>5. x = IF a >= b THEN a ELSE b
    BY <1>1, <1>4
  <1>. QED
    BY <1>1, <1>4, <1>5

\* What a snapshot shows, in terms of the marker: the last event ever appended
\* and the newest events, as many as are shown and still kept.
SnapshotFits(w) ==
    /\ Snapshot(w).last = Len(log[w])
    /\ log[w] # <<>> =>
          DOMAIN Snapshot(w).activity =
              Max({cut[w] + 1, Len(log[w]) + 1 - ActivityCap})..Len(log[w])

\* One read of RING_READ_LIMIT rows takes in the whole ring.
LEMMA SnapshotReadsAll ==
    ASSUME TypeOK, NEW w \in Workflows, RingFits(w), RingBounded
    PROVE  SnapshotFits(w)
  <1>. DEFINE n == Len(log[w])
              c == cut[w]
              D == (c + 1)..n
              read == SnapshotEvents(w)
  <1>1. /\ n \in Nat /\ c \in Nat /\ DOMAIN ring[w] = D /\ n - c <= MaxRingEvents
        /\ Newest(ring[w]) = n
    BY NewestIs, LogType DEF RingBounded
  <1>2. {k \in D : k > 0} = D
    BY <1>1
  <1>3. ASSUME NEW k \in D PROVE Cardinality({j \in D : j < k}) < RingReadLimit
    <2>1. {j \in D : j < k} = (c + 1)..(k - 1)
      BY <1>1
    <2>2. Cardinality((c + 1)..(k - 1)) = k - 1 - c
      <3>1. /\ c + 1 \in Int /\ k - 1 \in Int
            /\ k - 1 - c = IF c + 1 > k - 1 THEN 0 ELSE (k - 1) - (c + 1) + 1
        BY <1>1
      <3>. QED
        BY <3>1, FS_Interval
    <2>3. k - 1 - c < RingReadLimit
      BY <1>1, StoreAssumption
    <2>. QED
      BY <2>1, <2>2, <2>3
  <1>4. DOMAIN read = D
    <2>1. {k \in {i \in DOMAIN ring[w] : i > 0} :
              Cardinality({j \in {i \in DOMAIN ring[w] : i > 0} : j < k}) < RingReadLimit} = D
      <3>. HIDE DEF D
      <3>. QED
        BY <1>1, <1>2, <1>3
    <2>. QED
      BY <2>1 DEF SnapshotEvents, EventsAfter, Restrict
  <1>5. Newest(read) = n
    <2>. HIDE DEF D, read
    <2>. QED
      BY <1>1, <1>4 DEF Newest
  <1>6. Snapshot(w).last = n
    BY <1>5 DEF Snapshot
  <1>7. ASSUME log[w] # <<>>
        PROVE  DOMAIN Snapshot(w).activity = Max({c + 1, n + 1 - ActivityCap})..n
    <2>1. c < n
      BY <1>7 DEF RingFits
    <2>2. ASSUME NEW k \in D PROVE Cardinality({j \in D : j > k}) = n - k
      <3>1. {j \in D : j > k} = (k + 1)..n
        BY <1>1
      <3>2. /\ k + 1 \in Int /\ n \in Int
            /\ n - k = IF k + 1 > n THEN 0 ELSE n - (k + 1) + 1
        BY <1>1
      <3>3. Cardinality((k + 1)..n) = n - k
        BY <3>2, FS_Interval
      <3>. QED
        BY <3>1, <3>3
    <2>3. DOMAIN Snapshot(w).activity =
              {k \in DOMAIN read : Cardinality({j \in DOMAIN read : j > k}) < ActivityCap}
      BY DEF Snapshot, Restrict
    <2>4. DOMAIN Snapshot(w).activity = {k \in D : n - k < ActivityCap}
      <3>. HIDE DEF D, n, read
      <3>. QED
        BY <1>4, <2>2, <2>3
    <2>5. PICK x \in Int : x = Max({c + 1, n + 1 - ActivityCap})
                           /\ x = IF c + 1 >= n + 1 - ActivityCap
                                  THEN c + 1 ELSE n + 1 - ActivityCap
      <3>1. c + 1 \in Int /\ n + 1 - ActivityCap \in Int
        BY <1>1, StoreAssumption
      <3>. QED
        BY <3>1, MaxOfTwo
    <2>6. {k \in D : n - k < ActivityCap} = x..n
      <3>1. /\ n \in Nat /\ c \in Nat /\ ActivityCap \in Nat
            /\ x = IF c + 1 >= n + 1 - ActivityCap THEN c + 1 ELSE n + 1 - ActivityCap
        BY <1>1, <2>5, StoreAssumption
      <3>. HIDE DEF n, c
      <3>2. ASSUME NEW k \in Int
            PROVE  k \in (c + 1)..n /\ n - k < ActivityCap <=> k \in x..n
        BY <3>1
      <3>3. \A k \in D : k \in Int
        BY <3>1
      <3>. QED
        BY <3>2, <3>3
    <2>. QED
      BY <2>4, <2>5, <2>6
  <1>. QED
    BY <1>6, <1>7 DEF SnapshotFits

-----------------------------------------------------------------------------
(* The ring is the longest run of newest events within both bounds.         *)

\* The reference of RingIsLongestSuffix, of any history of events.
SizesOf(l) == [i \in 1..Len(l) |-> l[i].bytes]

FitsIn(l, k) ==
    /\ Len(l) - k + 1 <= MaxRingEvents
    /\ Bytes(SizesOf(l), k..Len(l)) <= MaxRingBytes

KeptIn(l) == Min({Len(l)} \cup {k \in 1..Len(l) : FitsIn(l, k)})

\* The sizes of a history, one by one.
LEMMA SizesAre ==
    ASSUME NEW l
    PROVE  \A i \in 1..Len(l) : SizesOf(l)[i] = l[i].bytes
  BY DEF SizesOf

\* It is the reference, before and after a step.
LEMMA KeptFromIs ==
    ASSUME NEW w \in Workflows
    PROVE  KeptFrom(w) = KeptIn(log[w]) /\ KeptFrom(w)' = KeptIn(log'[w])
  <1>1. \A k : Fits(w, k) <=> FitsIn(log[w], k)
    BY Zenon DEF Fits, FitsIn, SizesOf, Bytes
  <1>2. \A k : Fits(w, k)' <=> FitsIn(log'[w], k)
    BY Zenon DEF Fits, FitsIn, SizesOf, Bytes, FoldFunctionOnSet, MapThenFoldSet
  <1>3. KeptFrom(w) = KeptIn(log[w])
    BY <1>1 DEF KeptFrom, KeptIn
  <1>4. KeptFrom(w)' = KeptIn(log'[w])
    BY <1>2 DEF KeptFrom, KeptIn
  <1>. QED
    BY <1>3, <1>4

\* The least place that fits, or the newest event where none does.
LEMMA KeptInIs ==
    ASSUME NEW l, Len(l) \in Nat \ {0}, NEW m \in 1..Len(l)
    PROVE  /\ (m = Len(l) \/ FitsIn(l, m)) /\ (\A k \in 1..Len(l) : FitsIn(l, k) => m <= k)
                => KeptIn(l) = m
           /\ KeptIn(l) = m => \A k \in 1..Len(l) : FitsIn(l, k) => m <= k
  <1>. DEFINE n == Len(l)
              S == {n} \cup {k \in 1..n : FitsIn(l, k)}
  <1>1. n \in Nat \ {0} /\ S \subseteq 1..n /\ S \subseteq Nat /\ S # {}
    OBVIOUS
  <1>2. \E x \in S : \A y \in S : x <= y
    <2>. HIDE DEF S
    <2>. QED
      BY <1>1, Least
  <1>3. Min(S) \in S /\ \A y \in S : Min(S) <= y
    <2>. HIDE DEF S
    <2>. QED
      BY <1>2, Zenon DEF Min
  <1>4. PICK x \in S : x = Min(S) /\ \A y \in S : x <= y
    BY <1>3
  <1>5. KeptIn(l) = x
    BY <1>4 DEF KeptIn
  <1>6. ASSUME m = n \/ FitsIn(l, m), \A k \in 1..n : FitsIn(l, k) => m <= k
        PROVE  x = m
    <2>1. m \in S /\ m \in Nat /\ x \in Nat
      BY <1>1, <1>6
    <2>2. x <= m
      BY <1>4, <2>1
    <2>3. m <= x
      BY <1>1, <1>6, <2>1
    <2>. QED
      BY <2>1, <2>2, <2>3
  <1>7. \A k \in 1..n : FitsIn(l, k) => x <= k
    BY <1>4
  <1>. QED
    BY <1>5, <1>6, <1>7

\* It is a place of the history.
LEMMA KeptInType ==
    ASSUME NEW l, Len(l) \in Nat \ {0}
    PROVE  KeptIn(l) \in 1..Len(l)
  <1>. DEFINE n == Len(l)
              S == {n} \cup {k \in 1..n : FitsIn(l, k)}
  <1>1. S \subseteq 1..n /\ S \subseteq Nat /\ S # {}
    OBVIOUS
  <1>2. Min(S) \in S
    <2>. HIDE DEF S
    <2>1. \E x \in S : \A y \in S : x <= y
      BY <1>1, Least
    <2>. QED
      BY <2>1, Zenon DEF Min
  <1>. QED
    BY <1>1, <1>2 DEF KeptIn

\* Of a longer history less fits: a place that did not fit never fits again.
LEMMA FitsShrinks ==
    ASSUME NEW o, NEW l, Len(o) \in Nat, Len(l) = Len(o) + 1,
           \A k \in 1..Len(o) : l[k] = o[k],
           \A k \in 1..Len(l) : l[k].bytes \in Nat,
           NEW k \in 1..Len(o), FitsIn(l, k)
    PROVE  FitsIn(o, k)
  <1>1. PICK n : n = Len(o) /\ n \in Nat /\ Len(l) = n + 1 /\ k \in 1..n
    OBVIOUS
  <1>2. n - k + 1 <= MaxRingEvents
    BY <1>1, StoreAssumption DEF FitsIn
  <1>3. PICK f : f = SizesOf(l) /\ \A i \in 1..(n + 1) : f[i] = l[i].bytes /\ f[i] \in Nat
    BY <1>1, SizesAre
  <1>4. PICK g : g = SizesOf(o) /\ \A i \in 1..n : g[i] = o[i].bytes
    BY <1>1, SizesAre
  <1>5. PICK S, T : S = k..n /\ T = k..(n + 1)
    OBVIOUS
  <1>6. /\ S \subseteq T /\ IsFiniteSet(S) /\ IsFiniteSet(T)
        /\ \A i \in T : f[i] \in Nat
        /\ \A i \in S : f[i] \in Nat /\ g[i] = f[i]
    <2>1. IsFiniteSet(S) /\ IsFiniteSet(T)
      BY <1>1, <1>5, FS_Interval
    <2>2. S \subseteq T /\ S \subseteq 1..n /\ T \subseteq 1..(n + 1) /\ 1..n \subseteq 1..(n + 1)
      BY <1>1, <1>5
    <2>. QED
      BY <1>1, <1>3, <1>4, <2>1, <2>2
  <1>7. Bytes(f, S) <= Bytes(f, T)
    BY <1>6, BytesMonotone
  <1>8. Bytes(f, S) \in Nat /\ Bytes(g, S) = Bytes(f, S)
    BY <1>6, BytesType
  <1>9. Bytes(f, T) \in Nat
    BY <1>6, BytesType
  <1>10. Bytes(f, T) <= MaxRingBytes
    BY <1>1, <1>3, <1>5 DEF FitsIn
  <1>11. Bytes(g, S) <= MaxRingBytes
    BY <1>7, <1>8, <1>9, <1>10, StoreAssumption
  <1>. QED
    BY <1>1, <1>2, <1>4, <1>5, <1>11 DEF FitsIn

\* What the trim asks of a row is whether the rows from it on fit.
LEMMA NeedIs ==
    ASSUME NEW l, Len(l) \in Nat, \A k \in 1..Len(l) : l[k].bytes \in Nat,
           NEW a \in Nat, NEW r, DOMAIN r = (a + 1)..Len(l),
           \A k \in (a + 1)..Len(l) : r[k] = l[k].bytes,
           NEW k \in (a + 1)..Len(l)
    PROVE  NeedEvents(r, k) \/ NeedBytes(r, k) <=> ~FitsIn(l, k)
  <1>1. PICK n : n = Len(l) /\ n \in Nat /\ k \in (a + 1)..n
    OBVIOUS
  <1>2. PICK S : S = {j \in DOMAIN r : j >= k}
    OBVIOUS
  <1>3. S = k..n
    BY <1>1, <1>2
  <1>4. IsFiniteSet(S) /\ Cardinality(S) = n - k + 1
    <2>1. k \in Int /\ n \in Int /\ ~(k > n)
      BY <1>1
    <2>. QED
      BY <1>3, <2>1, FS_Interval
  <1>5. PICK f : f = SizesOf(l) /\ \A i \in 1..n : f[i] = l[i].bytes
    BY <1>1, SizesAre
  <1>6. \A i \in S : f[i] \in Nat /\ r[i] = f[i]
    <2>1. \A i \in k..n : i \in 1..n /\ i \in (a + 1)..n
      BY <1>1
    <2>. QED
      BY <1>1, <1>3, <1>5, <2>1
  <1>7. Bytes(f, S) \in Nat /\ Bytes(r, S) = Bytes(f, S)
    BY <1>4, <1>6, BytesType
  <1>8. NeedEvents(r, k) <=> n - k + 1 > MaxRingEvents
    BY <1>2, <1>4 DEF NeedEvents
  <1>9. NeedBytes(r, k) <=> Bytes(f, S) > MaxRingBytes
    BY <1>2, <1>7 DEF NeedBytes
  <1>10. FitsIn(l, k) <=> n - k + 1 <= MaxRingEvents /\ Bytes(f, S) <= MaxRingBytes
    BY <1>1, <1>3, <1>5 DEF FitsIn
  <1>11. n - k + 1 \in Int /\ MaxRingEvents \in Int /\ MaxRingBytes \in Int
    BY <1>1, StoreAssumption
  <1>. QED
    BY <1>7, <1>8, <1>9, <1>10, <1>11

\* A place after one that fits fits.
LEMMA FitsUpward ==
    ASSUME NEW l, Len(l) \in Nat, \A k \in 1..Len(l) : l[k].bytes \in Nat,
           NEW j \in 1..Len(l), NEW k \in 1..Len(l), j <= k, FitsIn(l, j)
    PROVE  FitsIn(l, k)
  <1>1. PICK n : n = Len(l) /\ n \in Nat /\ j \in 1..n /\ k \in 1..n
    OBVIOUS
  <1>2. PICK f : f = SizesOf(l) /\ \A i \in 1..n : f[i] \in Nat
    BY <1>1, SizesAre
  <1>3. PICK S, T : S = k..n /\ T = j..n
    OBVIOUS
  <1>4. S \subseteq T /\ IsFiniteSet(S) /\ IsFiniteSet(T) /\ T \subseteq 1..n
    <2>1. IsFiniteSet(S) /\ IsFiniteSet(T)
      BY <1>1, <1>3, FS_Interval
    <2>. QED
      BY <1>1, <1>3, <2>1
  <1>5. \A i \in T : f[i] \in Nat
    BY <1>2, <1>4
  <1>6. \A i \in S : f[i] \in Nat
    BY <1>4, <1>5
  <1>7. Bytes(f, S) <= Bytes(f, T) /\ Bytes(f, S) \in Nat /\ Bytes(f, T) \in Nat
    BY <1>4, <1>5, <1>6, BytesMonotone, BytesType
  <1>8. n - j + 1 <= MaxRingEvents /\ Bytes(f, T) <= MaxRingBytes
    BY <1>1, <1>2, <1>3 DEF FitsIn
  <1>9. n - k + 1 <= MaxRingEvents /\ Bytes(f, S) <= MaxRingBytes
    BY <1>1, <1>7, <1>8, StoreAssumption
  <1>. QED
    BY <1>1, <1>2, <1>3, <1>9 DEF FitsIn

\* The marker stands just before the longest run of newest events that fits.
MarkerFits(w) == log[w] # <<>> => KeptFrom(w) = cut[w] + 1

\* One more event, one more trim: nothing that fits is trimmed, nothing kept
\* but the newest event exceeds a bound.
LEMMA AppendLongest ==
    ASSUME TypeOK, NEW w \in Workflows, RingFits(w), MarkerFits(w),
           NEW type \in States \cup {"command"}, NEW bytes \in Sizes,
           AppendEvent(w, type, bytes)
    PROVE  MarkerFits(w)'
  <1>1. PICK o, l, m, a : o = log[w] /\ l = log'[w] /\ m = cut'[w] /\ a = cut[w]
    OBVIOUS
  <1>2. /\ o \in Seq(Event) /\ l \in Seq(Event) /\ a \in Nat /\ m \in Nat
        /\ log' = [log EXCEPT ![w] = Append(@, [type |-> type, bytes |-> bytes, at |-> clock])]
    BY <1>1, AppendFits, LogType
  <1>3. PICK ev : ev \in Event /\ l = Append(o, ev)
    <2>1. [type |-> type, bytes |-> bytes, at |-> clock] \in Event
      BY DEF Event, TypeInv, TypeOK
    <2>. QED
      BY <1>1, <1>2, <2>1 DEF TypeOK
  <1>4. /\ Len(o) \in Nat /\ Len(l) = Len(o) + 1
        /\ \A k \in 1..Len(o) : l[k] = o[k]
    BY <1>2, <1>3, AppendProperties, LenProperties
  <1>5. \A k \in 1..Len(l) : l[k].bytes \in Nat
    <2>1. \A k \in 1..Len(l) : l[k] \in Event
      BY <1>2, ElementOfSeq
    <2>2. \A e \in Event : e.bytes \in Nat
      BY StoreAssumption DEF Event
    <2>. QED
      BY <2>1, <2>2
  <1>6. PICK n \in Nat : n = Len(l) /\ n = Len(o) + 1
    BY <1>4
  <1>7. PICK r : /\ DOMAIN r = (a + 1)..n
                 /\ \A k \in (a + 1)..n : r[k] = l[k].bytes
                 /\ Newest(r) = n /\ a <= m /\ m < n
                 /\ m # a => m \in Walked(r)
                 /\ m + 1 \notin Walked(r)
    BY <1>1, <1>6, AppendTrims
  <1>8. \A k \in (a + 1)..n : NeedEvents(r, k) \/ NeedBytes(r, k) <=> ~FitsIn(l, k)
    BY <1>2, <1>5, <1>6, <1>7, NeedIs
  <1>9. m + 1 = n \/ FitsIn(l, m + 1)
    <2>1. CASE m + 1 # n
      <3>1. m + 1 \in (a + 1)..n /\ m + 1 < n
        BY <1>2, <1>7, <2>1
      <3>2. ~(NeedEvents(r, m + 1) \/ NeedBytes(r, m + 1))
        BY <1>7, <3>1 DEF Walked
      <3>. QED
        BY <1>8, <3>1, <3>2
    <2>. QED
      BY <2>1
  <1>10. ASSUME NEW k \in 1..n, k <= m PROVE ~FitsIn(l, k)
    <2>1. CASE m # a
      <3>1. m \in (a + 1)..n /\ (NeedEvents(r, m) \/ NeedBytes(r, m))
        BY <1>7, <2>1 DEF Walked
      <3>2. ~FitsIn(l, m)
        BY <1>8, <3>1
      <3>3. m \in 1..Len(l) /\ k \in 1..Len(l) /\ Len(l) \in Nat
        BY <1>2, <1>6, <3>1
      <3>. QED
        BY <1>5, <1>10, <3>2, <3>3, FitsUpward
    <2>2. CASE m = a
      <3>1. k \in 1..Len(o) /\ k <= a /\ Len(o) \in Nat \ {0}
        BY <1>2, <1>4, <1>6, <1>7, <1>10, <2>2
      <3>2. o # <<>> /\ a + 1 \in 1..Len(o)
        <4>1. o # <<>>
          BY <1>2, <3>1, EmptySeq
        <4>2. a < Len(o)
          BY <1>1, <4>1 DEF RingFits
        <4>. QED
          BY <1>2, <3>1, <4>1, <4>2
      <3>3. KeptIn(o) = a + 1
        BY <1>1, <3>2, KeptFromIs DEF MarkerFits
      <3>4. ~FitsIn(o, k)
        <4>1. FitsIn(o, k) => a + 1 <= k
          BY <3>1, <3>2, <3>3, KeptInIs
        <4>. QED
          BY <1>2, <3>1, <4>1
      <3>. QED
        BY <1>4, <1>5, <3>1, <3>4, FitsShrinks
    <2>. QED
      BY <2>1, <2>2
  <1>11. /\ Len(l) \in Nat \ {0} /\ m + 1 \in 1..Len(l)
         /\ m + 1 = Len(l) \/ FitsIn(l, m + 1)
         /\ \A k \in 1..Len(l) : FitsIn(l, k) => m + 1 <= k
    <2>1. Len(l) \in Nat \ {0} /\ m + 1 \in 1..Len(l)
      BY <1>2, <1>6, <1>7
    <2>2. ASSUME NEW k \in 1..Len(l), FitsIn(l, k) PROVE m + 1 <= k
      <3>1. k \in 1..n /\ ~(k <= m)
        BY <1>6, <1>10, <2>2
      <3>. QED
        BY <1>2, <1>6, <3>1
    <2>. QED
      BY <1>6, <1>9, <2>1, <2>2
  <1>12. KeptIn(l) = m + 1
    BY <1>11, KeptInIs
  <1>. QED
    BY <1>1, <1>12, KeptFromIs DEF MarkerFits

\* Every step keeps the markers in place.
LEMMA LongestStep ==
    TypeInv /\ (\A w \in Workflows : MarkerFits(w)) /\ [Next]_vars
        => (\A w \in Workflows : MarkerFits(w))'
  <1>. SUFFICES ASSUME TypeInv, \A w \in Workflows : MarkerFits(w), [Next]_vars,
                       NEW x \in Workflows
                PROVE  MarkerFits(x)'
    OBVIOUS
  <1>. USE DEF events, publishing
  <1>0. TypeOK /\ \A w \in Workflows : RingFits(w)
    BY DEF TypeInv
  <1>1. ASSUME log'[x] = log[x], cut'[x] = cut[x] PROVE MarkerFits(x)'
    BY <1>1, KeptFromIs DEF MarkerFits
  <1>2. ASSUME NEW w \in Workflows, NEW type \in States \cup {"command"},
               NEW bytes \in Sizes, AppendEvent(w, type, bytes)
        PROVE  MarkerFits(x)'
    <2>1. CASE x = w
      BY <1>0, <1>2, <2>1, AppendLongest
    <2>2. CASE x # w
      <3>1. log' = [log EXCEPT ![w] = Append(@, [type |-> type, bytes |-> bytes, at |-> clock])]
            /\ cut'[x] = cut[x]
        BY <1>0, <1>2, <2>2, AppendFits
      <3>2. log'[x] = log[x]
        BY <1>0, <2>2, <3>1 DEF TypeOK
      <3>. QED
        BY <1>1, <3>1, <3>2
    <2>. QED
      BY <2>1, <2>2
  <1>3. ASSUME NEW w \in Workflows, CommandEvent(w)
        PROVE  MarkerFits(x)'
    <2>1. "command" \in States \cup {"command"}
      OBVIOUS
    <2>. QED
      BY <1>2, <1>3, <2>1 DEF CommandEvent
  <1>4. CASE Record
    <2>1. pc.w \in Workflows /\ pc.st \in States
      BY <1>0, <1>4, RunningType DEF Record
    <2>. QED
      BY <1>2, <1>4, <2>1 DEF Record
  <1>5. ASSUME NEW w \in Workflows,
               \/ \E s \in Sessions \cup {None} : CreateWorkflow(w, s)
               \/ \E st \in MayMove : Transition(w, st)
               \/ \E s \in Sessions : Bind(w, s)
               \/ ReconcileUnbound(w)
        PROVE  MarkerFits(x)'
    BY <1>1, <1>5 DEF CreateWorkflow, Transition, Bind, ReconcileUnbound
  <1>6. CASE OutboxDrain \/ Send \/ MarkPublished \/ Crash
    BY <1>1, <1>6 DEF OutboxDrain, Send, MarkPublished, Crash
  <1>7. CASE UpsertBinding \/ Tick \/ Fail \/ UNCHANGED vars
    BY <1>1, <1>7 DEF UpsertBinding, Tick, Fail, vars
  <1>. QED
    BY <1>3, <1>4, <1>5, <1>6, <1>7 DEF Next

-----------------------------------------------------------------------------
(* Theorems.                                                                *)

\* Type correctness, and with it the shape of the ring (append_event,
\* trim_ring): the ring is a gapless run of the newest events with their
\* sizes, the newest always kept, the truncation marker names the last missing
\* event and the dropped count is exact, so a trimmed sequence number is never
\* given out again.
THEOREM TypeCorrect == Spec => [](TypeOK /\ \A w \in Workflows : RingFits(w))
  <1>1. TypeInv <=> TypeOK /\ \A w \in Workflows : RingFits(w)
    BY DEF TypeInv
  <1>. QED
    BY <1>1, TypeInit, TypeStep, PTL DEF Spec

\* However appends and trims alternate, the ring is the longest run of newest
\* events within both bounds, whatever the sizes and the bounds, and the marker
\* and the dropped count say what is missing (append_event, trim_ring).
THEOREM RingLongest == Spec => []RingIsLongestSuffix
  <1>1. Init => \A w \in Workflows : MarkerFits(w)
    BY DEF Init, MarkerFits
  <1>2. TypeInv /\ (\A w \in Workflows : MarkerFits(w)) => RingIsLongestSuffix
    <2>. SUFFICES ASSUME TypeInv, NEW w \in Workflows, MarkerFits(w), log[w] # <<>>
                  PROVE  /\ ring[w] = [k \in KeptFrom(w)..Len(log[w]) |-> log[w][k].bytes]
                         /\ cut[w] = KeptFrom(w) - 1
                         /\ dropped[w] = cut[w]
      BY DEF RingIsLongestSuffix
    <2>1. TypeOK /\ RingFits(w) /\ KeptFrom(w) = cut[w] + 1
      BY DEF TypeInv, MarkerFits
    <2>2. cut[w] \in Nat
      BY <2>1, LogType
    <2>. QED
      BY <2>1, <2>2 DEF RingFits
  <1>. QED
    BY <1>1, <1>2, TypeInit, TypeStep, LongestStep, PTL DEF Spec

\* "last_seq_no is the true high-water mark even when the tail is cut"
\* (catalog.rs): the ring stays within its bound on events, so one read takes in
\* all of it; a snapshot names the last event ever appended and shows the
\* newest events without a gap.
THEOREM SnapshotHighWater == Spec => []SnapshotIsHighWater
  <1>1. Init => RingBounded
    <2>. SUFFICES ASSUME Init, NEW w \in Workflows
                  PROVE  Len(log[w]) - cut[w] <= MaxRingEvents
      BY DEF RingBounded
    <2>1. log[w] = <<>> /\ cut[w] = 0 /\ Len(<<>>) = 0
      BY DEF Init
    <2>2. MaxRingEvents \in Nat
      BY StoreAssumption
    <2>. QED
      BY <2>1, <2>2
  <1>2. TypeInv /\ RingBounded /\ RingIsLongestSuffix => SnapshotIsHighWater
    <2>. SUFFICES ASSUME TypeInv, RingBounded, RingIsLongestSuffix, NEW w \in Workflows
                  PROVE  /\ Snapshot(w).last = Len(log[w])
                         /\ log[w] # <<>> =>
                              DOMAIN Snapshot(w).activity =
                                Max({KeptFrom(w), Len(log[w]) + 1 - ActivityCap})..Len(log[w])
      BY Zenon DEF SnapshotIsHighWater
    <2>1. SnapshotFits(w) /\ TypeOK
      BY SnapshotReadsAll DEF TypeInv
    <2>2. log[w] # <<>> => KeptFrom(w) = cut[w] + 1
      <3>. SUFFICES ASSUME log[w] # <<>> PROVE KeptFrom(w) = cut[w] + 1
        OBVIOUS
      <3>1. cut[w] = KeptFrom(w) - 1 /\ KeptFrom(w) \in Int
        <4>1. Len(log[w]) \in Nat \ {0}
          BY <2>1, LogType
        <4>2. KeptIn(log[w]) \in 1..Len(log[w])
          BY <4>1, KeptInType
        <4>3. cut[w] = KeptFrom(w) - 1
          BY Zenon DEF RingIsLongestSuffix
        <4>4. KeptFrom(w) = KeptIn(log[w])
          BY KeptFromIs
        <4>. QED
          BY <4>1, <4>2, <4>3, <4>4
      <3>. QED
        BY <3>1
    <2>. QED
      BY <2>1, <2>2 DEF SnapshotFits
  <1>. QED
    BY <1>1, <1>2, RingLongest, TypeInit, TypeStep, BoundStep, PTL DEF Spec

\* A workflow whose creation with a session was reported done is never given
\* up by restart recovery, whatever fails or dies half way (create_workflow,
\* reconcile).
THEOREM RecoveryKeepsBound == Spec => []CleanFailOnlyUnbound
  <1>1. TypeInv => TypeOK
    BY DEF TypeInv
  <1>2. BindInv => CleanFailOnlyUnbound
    BY DEF BindInv
  <1>. QED
    BY <1>1, <1>2, TypeInit, TypeStep, OutboxInit, BindStep, PTL DEF Spec

\* An event still in the ring that the consumer was not given waits in the
\* outbox, wherever the publisher died (append_event, outbox_mark_published).
THEOREM NothingIsLost == Spec => []NothingLost
  <1>1. OutboxInv => NothingLost
    BY DEF OutboxInv
  <1>. QED
    BY <1>1, TypeInit, TypeStep, OutboxInit, OutboxStep, PTL DEF Spec

\* Whatever the wall clock does, a consumer that drops repeats is given the
\* events of a workflow in sequence, but for pairs between whose appends the
\* clock stepped back (outbox_drain).
THEOREM SeenOrdered == Spec => []SeenInOrder
  <1>1. TypeInv /\ OrderInv => SeenInOrder
    <2>. SUFFICES ASSUME TypeInv, OrderInv, NEW w \in Workflows,
                         NEW i \in 1..Len(seen[w]), NEW j \in 1..Len(seen[w]), i < j,
                         ~(seen[w][i] < seen[w][j])
                  PROVE  /\ seen[w][i] > seen[w][j]
                         /\ log[w][seen[w][i]].at < log[w][seen[w][j]].at
      BY DEF SeenInOrder
    <2>1. seen[w] \in Seq(Nat) /\ DOMAIN seen[w] = 1..Len(seen[w]) /\ Len(seen[w]) \in Nat
      BY LenProperties DEF TypeInv, TypeOK
    <2>2. seen[w][i] \in Nat /\ seen[w][j] \in Nat /\ seen[w][i] # seen[w][j]
      BY <2>1, ElementOfSeq DEF OrderInv
    <2>3. seen[w][j] >= 1
      <3>1. seen[w][j] \in 1..Len(log[w])
        BY DEF OrderInv
      <3>. QED
        BY <2>2, <3>1
    <2>4. seen[w][j] \in 1..(seen[w][i] - 1)
      BY <2>2, <2>3
    <2>5. Preceded(w, i, seen[w][j])
      BY <2>4 DEF OrderInv
    <2>6. \A k \in 1..(i - 1) : k \in 1..Len(seen[w]) /\ k # j
      BY <2>1
    <2>7. seen[w][j] \in Range(seen[w])
      BY <2>1 DEF Range
    <2>8. \A k \in 1..(i - 1) : seen[w][k] # seen[w][j]
      BY <2>6 DEF OrderInv
    <2>. QED
      BY <2>2, <2>5, <2>7, <2>8 DEF Preceded
  <1>. QED
    BY <1>1, TypeInit, TypeStep, OutboxInit, OutboxStep, OrderStep, PTL DEF Spec

=============================================================================
