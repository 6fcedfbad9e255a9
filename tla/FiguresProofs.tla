---------------------------- MODULE FiguresProofs ----------------------------
(***************************************************************************)
(* Proofs about what pages, lists, reports and exports show, for every     *)
(* value of the constants: the views of each product agree with one        *)
(* another, the readings of Unsure are a range, and what YEE publishes     *)
(* scores audits as it promises.  The invariants say where the rows of     *)
(* the tables can be and what can be stored as an answer; that two         *)
(* queries then count the same is a matter of sets, and sums over the      *)
(* rows of a list are sums over a partition (TotalOfParts), or in order    *)
(* as their summands are (SumsInOrder, TotalsInOrder).                     *)
(***************************************************************************)
EXTENDS FiguresMC, FiniteSetTheorems, NaturalsInduction, WellFoundedInduction, TLAPS

-----------------------------------------------------------------------------
(* Numbers and sums *)

\* A set of numbers that is not empty has a least one.
LEMMA LeastNumber ==
  ASSUME NEW T, T \subseteq Nat, T # {}
  PROVE  \E n \in T : \A m \in T : n <= m
<1> DEFINE R == OpToRel(<, Nat)
<1>1. IsWellFoundedOn(R, Nat)
  BY NatLessThanWellFounded
<1>2. ASSUME NEW m \in Nat, NEW n \in Nat, m < n
      PROVE  <<m, n>> \in R
  BY <1>2 DEF OpToRel
<1> HIDE DEF R
<1>3. PICK n \in T : \A m \in T : ~ (<<m, n>> \in R)
  BY <1>1, WFMin
<1>4. ASSUME NEW m \in T
      PROVE  n <= m
  <2>1. m \in Nat /\ n \in Nat /\ ~(m < n)
    BY <1>2, <1>3
  <2>2. QED
    BY <2>1
<1>5. QED
  BY <1>4

\* A set that holds 0 and with each number the next one holds all of them.
LEMMA AllNumbers ==
  ASSUME NEW S, 0 \in S, \A n \in Nat : n \in S => n + 1 \in S
  PROVE  \A n \in Nat : n \in S
<1> DEFINE T == {n \in Nat : n \notin S}
<1>1. SUFFICES ASSUME T # {} PROVE FALSE
  OBVIOUS
<1>2. T \subseteq Nat
  OBVIOUS
<1> HIDE DEF T
<1>3. PICK n \in T : \A m \in T : n <= m
  BY <1>1, <1>2, LeastNumber
<1>4. n \in Nat /\ n # 0 /\ n \notin S
  BY DEF T
<1>5. n - 1 \in Nat /\ n - 1 \notin T
  BY <1>3, <1>4, <1>2
<1>6. n - 1 \in S
  BY <1>5 DEF T
<1>7. QED
  BY <1>4, <1>5, <1>6

\* The element that a fold takes first.
Taken(s) == CHOOSE x \in s : TRUE

\* g is the running total of f over the sets in U.
Adds(g, f, U) == g = [s \in U |-> IF s = {} THEN 0 ELSE g[s \ {Taken(s)}] + f[Taken(s)]]

\* A function over a finite set has a running total over its subsets.
LEMMA RunningTotal ==
  ASSUME NEW f, IsFiniteSet(DOMAIN f)
  PROVE  \E g : Adds(g, f, SUBSET DOMAIN f)
<1> DEFINE D == DOMAIN f
           U(n) == {s \in SUBSET D : Cardinality(s) <= n}
           S == {n \in Nat : \E g : Adds(g, f, U(n))}
<1>0. \A s \in SUBSET D : IsFiniteSet(s) /\ Cardinality(s) \in Nat
  BY FS_Subset, FS_CardinalityType
<1>1. 0 \in S
  <2> DEFINE g == [s \in U(0) |-> 0]
  <2>1. \A s \in U(0) : s = {}
    BY <1>0, FS_EmptySet
  <2>2. Adds(g, f, U(0))
    BY <2>1 DEF Adds
  <2>3. QED
    BY <2>2
<1>2. ASSUME NEW n \in Nat, n \in S
      PROVE  n + 1 \in S
  <2>1. PICK g : Adds(g, f, U(n))
    BY <1>2
  <2> DEFINE h == [s \in U(n + 1) |-> IF s = {} THEN 0 ELSE g[s \ {Taken(s)}] + f[Taken(s)]]
  <2>2. \A s \in U(n + 1) : s # {} => s \ {Taken(s)} \in U(n)
    <3>1. SUFFICES ASSUME NEW s \in U(n + 1), s # {}
                   PROVE  s \ {Taken(s)} \in U(n)
      OBVIOUS
    <3>2. Taken(s) \in s
      BY <3>1 DEF Taken
    <3>3. Cardinality(s \ {Taken(s)}) = Cardinality(s) - 1
      BY <3>2, <1>0, FS_RemoveElement
    <3>4. QED
      BY <3>3, <1>0
  <2>3. \A s \in U(n) : h[s] = g[s]
    <3>1. U(n) \subseteq U(n + 1)
      BY <1>0
    <3>2. QED
      BY <2>1, <3>1, Zenon DEF Adds
  <2>4. h = [s \in U(n + 1) |-> IF s = {} THEN 0 ELSE h[s \ {Taken(s)}] + f[Taken(s)]]
    <3> HIDE DEF U
    <3>1. \A s \in U(n + 1) : s # {} => h[s \ {Taken(s)}] = g[s \ {Taken(s)}]
      BY <2>2, <2>3
    <3>2. QED
      BY <3>1
  <2>5. Adds(h, f, U(n + 1))
    BY <2>4 DEF Adds
  <2>6. \E k : Adds(k, f, U(n + 1))
    BY <2>5
  <2> HIDE DEF U, h
  <2>7. QED
    BY <2>6
<1>3. \A n \in Nat : n \in S
  <2> HIDE DEF S
  <2>1. QED
    BY <1>1, <1>2, AllNumbers
<1>4. Cardinality(D) \in Nat /\ U(Cardinality(D)) = SUBSET D
  BY <1>0, FS_Subset
<1>5. QED
  BY <1>3, <1>4

\* A total is the last value of the running total.
LEMMA TotalRuns ==
  ASSUME NEW f, IsFiniteSet(DOMAIN f)
  PROVE  \E g : Adds(g, f, SUBSET DOMAIN f) /\ Total(f) = g[DOMAIN f]
<1> DEFINE g == CHOOSE g : Adds(g, f, SUBSET DOMAIN f)
<1>1. Adds(g, f, SUBSET DOMAIN f)
  BY RunningTotal
<1>2. Total(f) = g[DOMAIN f]
  BY DEF Total, FoldSet, MapThenFoldSet, Adds, Taken
<1>3. QED
  BY <1>1, <1>2

\* The members of the parts P[x], x in s.
Whole(P, s) == UNION {P[x] : x \in s}

\* The sizes of disjoint parts add up to the size of the whole.
LEMMA TotalOfParts ==
  ASSUME NEW D, IsFiniteSet(D), NEW P, \A x \in D : IsFiniteSet(P[x]),
         \A x, y \in D : x # y => P[x] \cap P[y] = {}
  PROVE  /\ IsFiniteSet(Whole(P, D))
         /\ Total([x \in D |-> Cardinality(P[x])]) = Cardinality(Whole(P, D))
<1> DEFINE f == [x \in D |-> Cardinality(P[x])]
           Good(g, s) == IsFiniteSet(Whole(P, s)) /\ g[s] = Cardinality(Whole(P, s))
<1>0. \A s \in SUBSET D : IsFiniteSet(s) /\ Cardinality(s) \in Nat
  BY FS_Subset, FS_CardinalityType
<1>1. PICK g : Adds(g, f, SUBSET DOMAIN f) /\ Total(f) = g[DOMAIN f]
  <2> HIDE DEF f
  <2>1. IsFiniteSet(DOMAIN f)
    BY DEF f
  <2>2. \E g : Adds(g, f, SUBSET DOMAIN f) /\ Total(f) = g[DOMAIN f]
    BY <2>1, TotalRuns
  <2>3. QED
    BY <2>2
<1>2. ASSUME NEW s \in SUBSET D
      PROVE  g[s] = IF s = {} THEN 0 ELSE g[s \ {Taken(s)}] + f[Taken(s)]
  BY <1>1 DEF Adds
<1>3. Good(g, {})
  <2>1. Whole(P, {}) = {}
    BY DEF Whole
  <2>2. QED
    BY <2>1, <1>2, FS_EmptySet
<1>4. ASSUME NEW s \in SUBSET D, s # {}, Good(g, s \ {Taken(s)})
      PROVE  Good(g, s)
  <2> DEFINE x == Taken(s)
             V == Whole(P, s \ {x})
  <2>1. x \in s /\ x \in D
    BY <1>4 DEF Taken
  <2>2. Whole(P, s) = V \cup P[x] /\ V \cap P[x] = {}
    BY <2>1 DEF Whole
  <2>3. IsFiniteSet(P[x]) /\ IsFiniteSet(V) /\ g[s \ {x}] = Cardinality(V)
    BY <2>1, <1>4
  <2>4. g[s] = g[s \ {x}] + Cardinality(P[x])
    BY <1>2, <1>4, <2>1
  <2> HIDE DEF x, V
  <2>5. /\ IsFiniteSet(V \cup P[x])
        /\ Cardinality(V \cup P[x]) = Cardinality(V) + Cardinality(P[x]) - Cardinality(V \cap P[x])
    BY <2>3, FS_Union
  <2>6. Cardinality(V \cap P[x]) = 0 /\ Cardinality(V) \in Nat /\ Cardinality(P[x]) \in Nat
    BY <2>2, <2>3, FS_EmptySet, FS_CardinalityType
  <2>7. QED
    BY <2>2, <2>3, <2>4, <2>5, <2>6
<1> DEFINE S == {n \in Nat : \A s \in SUBSET D : Cardinality(s) = n => Good(g, s)}
<1> HIDE DEF Good
<1>5. 0 \in S
  BY <1>0, <1>3, FS_EmptySet
<1>6. ASSUME NEW n \in Nat, n \in S
      PROVE  n + 1 \in S
  <2>1. SUFFICES ASSUME NEW s \in SUBSET D, Cardinality(s) = n + 1
                 PROVE  Good(g, s)
    OBVIOUS
  <2>2. s # {}
    BY <2>1, FS_EmptySet
  <2>3. Taken(s) \in s
    BY <2>2 DEF Taken
  <2>4. s \ {Taken(s)} \in SUBSET D /\ Cardinality(s \ {Taken(s)}) = n
    BY <2>1, <2>3, <1>0, FS_RemoveElement
  <2>5. Good(g, s \ {Taken(s)})
    BY <1>6, <2>4
  <2>6. QED
    BY <2>2, <2>5, <1>4
<1>7. Good(g, D)
  <2> HIDE DEF S
  <2>1. \A n \in Nat : n \in S
    BY <1>5, <1>6, AllNumbers
  <2>2. Cardinality(D) \in Nat /\ D \in SUBSET D
    BY <1>0
  <2>3. QED
    BY <2>1, <2>2 DEF S
<1>8. QED
  BY <1>1, <1>7 DEF Good

\* The same, for a list f of the sizes of parts of W.
LEMMA TotalSplits ==
  ASSUME NEW D, IsFiniteSet(D), NEW W, IsFiniteSet(W), NEW P, \A x \in D : P[x] \subseteq W,
         \A x, y \in D : x # y => P[x] \cap P[y] = {},
         \A w \in W : \E x \in D : w \in P[x],
         NEW f, f = [x \in D |-> Cardinality(P[x])]
  PROVE  Total(f) = Cardinality(W)
<1>1. \A x \in D : IsFiniteSet(P[x])
  BY FS_Subset
<1>2. Whole(P, D) = W
  BY DEF Whole
<1>3. QED
  BY <1>1, <1>2, TotalOfParts

-----------------------------------------------------------------------------
(* YEE: where rows can be *)

\* Work is in the project of its place, and submissions are of submitted audits.
WorkStaysInItsProject ==
  /\ \A t \in tasks : t[3] = lot[t[2]]
  /\ \A k \in Visits : shells[k] # NoShell => shells[k].project = lot[k[2]]
  /\ \A k \in sheets : shells[k].status = "submitted"

YeeViewsInv == YeeViewsTypeOK /\ WorkStaysInItsProject

LEMMA YeeViewsInitHolds ==
  ASSUME YeeViewsInit
  PROVE  YeeViewsInv
<1> USE YeeViewsAssumption
<1>1. CASE lot = [q \in Spots |-> Unplaced] /\ shells = [k \in Visits |-> NoShell]
  BY <1>1 DEF YeeViewsInit, YeeViewsInv, YeeViewsTypeOK, WorkStaysInItsProject, NoShell
<1>2. ASSUME NEW k \in Visits, NEW j \in Fields,
             lot = [q \in Spots |-> IF q = k[2] THEN j ELSE Unplaced],
             shells = [m \in Visits |-> IF m = k THEN [project |-> j, status |-> "submitted"]
                                                   ELSE NoShell]
      PROVE  YeeViewsInv
  <2>1. k[2] \in Spots
    BY DEF Visits
  <2>2. QED
    BY <1>2, <2>1 DEF YeeViewsInit, YeeViewsInv, YeeViewsTypeOK, WorkStaysInItsProject, NoShell
<1>3. QED
  BY <1>1, <1>2 DEF YeeViewsInit

LEMMA YeeViewsStep ==
  ASSUME YeeViewsInv, YeeViewsNext
  PROVE  YeeViewsInv'
<1> USE YeeViewsAssumption DEF YeeViewsInv, YeeViewsTypeOK, WorkStaysInItsProject
<1>0. /\ \A k \in Visits : k[1] \in Walkers /\ k[2] \in Spots /\ k = <<k[1], k[2]>>
      /\ \A t \in tasks : /\ t[1] \in Walkers /\ t[2] \in Spots /\ t[3] \in Fields
                          /\ <<t[1], t[2]>> \in Visits
  BY DEF Visits
<1>1. ASSUME NEW q \in Spots, NEW j \in Fields, AddPlace(q, j)
      PROVE  YeeViewsInv'
  <2>1. \A t \in tasks : t[2] # q
    BY <1>0, <1>1 DEF AddPlace
  <2>2. \A k \in Visits : shells[k] # NoShell => shells[k].project \in Fields
    BY DEF NoShell
  <2>3. \A k \in Visits : shells[k] # NoShell => k[2] # q
    BY <2>2, <1>1 DEF AddPlace
  <2>4. QED
    BY <1>0, <1>1, <2>1, <2>3 DEF AddPlace
<1>2. ASSUME NEW q \in Spots, NEW j \in Fields, Relocate(q, j)
      PROVE  YeeViewsInv'
  <2>1. \A t \in tasks : t[2] # q
    BY <1>0, <1>2 DEF Relocate, Unreferenced
  <2>2. \A k \in Visits : shells[k] # NoShell => k[2] # q
    BY <1>0, <1>2 DEF Relocate, Unreferenced
  <2>3. QED
    BY <1>0, <1>2, <2>1, <2>2 DEF Relocate
<1>3. ASSUME NEW u \in Walkers, NEW a \in Firms, ApproveInto(u, a) \/ CreateOwnProfile(u, a)
      PROVE  YeeViewsInv'
  BY <1>3 DEF ApproveInto, CreateOwnProfile
<1>4. ASSUME NEW u \in Walkers, NEW q \in Spots, CreateTask(u, q)
      PROVE  YeeViewsInv'
  BY <1>4 DEF CreateTask
<1>5. ASSUME NEW t \in tasks, DeleteTask(t)
      PROVE  YeeViewsInv'
  BY <1>5 DEF DeleteTask
<1>6. ASSUME NEW t \in tasks, SaveDraft(t)
      PROVE  YeeViewsInv'
  <2> DEFINE row == [project |-> t[3], status |-> "draft"]
  <2>1. row \in [project : Fields, status : {"draft", "submitted"}] /\ row.project = lot[t[2]]
    BY <1>0
  <2>2. shells' = [shells EXCEPT ![<<t[1], t[2]>>] = row]
    BY <1>6 DEF SaveDraft, Written
  <2>3. <<t[1], t[2]>> \notin sheets
    BY <1>6 DEF SaveDraft
  <2> HIDE DEF row
  <2>4. UNCHANGED <<lot, crew, tasks, sheets>>
    BY <1>6 DEF SaveDraft
  <2>5. \A k \in Visits : shells'[k] = IF k = <<t[1], t[2]>> THEN row ELSE shells[k]
    BY <2>2
  <2>6. YeeViewsTypeOK'
    BY <1>0, <2>1, <2>2, <2>4
  <2>7. \A k \in Visits : shells'[k] # NoShell => shells'[k].project = lot[k[2]]
    BY <1>0, <2>1, <2>5
  <2>8. \A k \in sheets : shells'[k].status = "submitted"
    BY <2>3, <2>5
  <2>9. QED
    BY <2>4, <2>6, <2>7, <2>8
<1>7. ASSUME NEW t \in tasks, HandIn(t)
      PROVE  YeeViewsInv'
  <2> DEFINE row == [project |-> t[3], status |-> "submitted"]
  <2>1. row \in [project : Fields, status : {"draft", "submitted"}] /\ row.project = lot[t[2]] /\ row.status = "submitted"
    BY <1>0
  <2>2. shells' = [shells EXCEPT ![<<t[1], t[2]>>] = row]
    BY <1>7 DEF HandIn, Written
  <2> HIDE DEF row
  <2>3. QED
    BY <1>0, <1>7, <2>1, <2>2 DEF HandIn
<1>8. ASSUME NEW k \in Visits, EditAudit(k)
      PROVE  YeeViewsInv'
  <2>1. PICK row \in [project : Fields, status : {"draft", "submitted"}] : shells[k] = row
    BY <1>8 DEF EditAudit
  <2>2. /\ [row EXCEPT !.status = "submitted"] \in [project : Fields, status : {"draft", "submitted"}]
        /\ [row EXCEPT !.status = "submitted"].project = row.project
        /\ [row EXCEPT !.status = "submitted"].status = "submitted"
    OBVIOUS
  <2>3. shells' = [shells EXCEPT ![k] = [row EXCEPT !.status = "submitted"]]
    BY <2>1, <1>8 DEF EditAudit
  <2>4. QED
    BY <1>0, <1>8, <2>1, <2>2, <2>3 DEF EditAudit
<1>9. ASSUME NEW s \in Readers, OpenAudits(s)
      PROVE  YeeViewsInv'
  BY <1>9 DEF OpenAudits, Delivered, AuditList
<1>10. ASSUME NEW j \in Fields, OpenProject(j)
       PROVE  YeeViewsInv'
  BY <1>10 DEF OpenProject, Delivered, OfField
<1>11. QED
  BY <1>1, <1>2, <1>3, <1>4, <1>5, <1>6, <1>7, <1>8, <1>9, <1>10 DEF YeeViewsNext

\* Every behaviour satisfies the invariant.
LEMMA YeeViewsInvariant == YeeViewsSpec => []YeeViewsInv
<1>1. YeeViewsInv /\ UNCHANGED yeeViewVars => YeeViewsInv'
  BY DEF YeeViewsInv, YeeViewsTypeOK, WorkStaysInItsProject, yeeViewVars, Visits
<1>2. QED
  BY <1>1, YeeViewsInitHolds, YeeViewsStep, PTL DEF YeeViewsSpec

-----------------------------------------------------------------------------
(* YEE: the views *)

\* What the invariant says of the sets that queries start from.
LEMMA YeeRows ==
  ASSUME YeeViewsInv
  PROVE  /\ IsFiniteSet(Visits) /\ IsFiniteSet(Shelled) /\ IsFiniteSet(Delivered)
         /\ Shelled \subseteq Visits /\ Delivered \subseteq Shelled /\ sheets \subseteq Delivered
         /\ \A k \in Visits : k[1] \in Walkers /\ k[2] \in Spots /\ k = <<k[1], k[2]>>
         /\ \A k \in Shelled : shells[k].project \in Fields /\ shells[k].project = lot[k[2]]
         /\ \A t \in tasks : /\ t[1] \in Walkers /\ t[2] \in Spots /\ t[3] \in Fields
                             /\ t = <<t[1], t[2], t[3]>> /\ t[3] = lot[t[2]]
         /\ \A q \in Spots : lot[q] \in Fields \cup {Unplaced}
         /\ Unplaced \notin Fields
<1> USE YeeViewsAssumption DEF YeeViewsInv, YeeViewsTypeOK, WorkStaysInItsProject
<1>1. IsFiniteSet(Visits)
  BY FS_Product DEF Visits
<1>2. Shelled \subseteq Visits /\ Delivered \subseteq Shelled
  BY DEF Shelled, Delivered, NoShell
<1>3. sheets \subseteq Delivered
  BY DEF Delivered
<1>4. IsFiniteSet(Shelled) /\ IsFiniteSet(Delivered)
  BY <1>1, <1>2, FS_Subset
<1>5. \A k \in Visits : k[1] \in Walkers /\ k[2] \in Spots /\ k = <<k[1], k[2]>>
  BY DEF Visits
<1>6. \A k \in Shelled : shells[k].project \in Fields /\ shells[k].project = lot[k[2]]
  BY <1>2 DEF Shelled
<1>7. QED
  BY <1>1, <1>2, <1>3, <1>4, <1>5, <1>6

\* What readers cover.
LEMMA YeeScopes ==
  ASSUME NEW s \in Readers
  PROVE  /\ ScopedFields(s) \subseteq Fields /\ ScopedSpots(s) \subseteq Spots
         /\ ScopedWalkers(s) \subseteq Walkers
         /\ IsFiniteSet(ScopedFields(s)) /\ IsFiniteSet(ScopedSpots(s))
         /\ s = Everything => ScopedFields(s) = Fields /\ ScopedWalkers(s) = Walkers
         /\ s # Everything => /\ s.of \in Firms
                              /\ ScopedFields(s) = {j \in Fields : FirmOf[j] = s.of}
                              /\ ScopedWalkers(s) = {u \in Walkers : crew[u] = s.of}
<1> USE YeeViewsAssumption
<1>1. ScopedFields(s) \subseteq Fields /\ ScopedSpots(s) \subseteq Spots /\ ScopedWalkers(s) \subseteq Walkers
  BY DEF ScopedFields, ScopedSpots, ScopedWalkers
<1>2. IsFiniteSet(ScopedFields(s)) /\ IsFiniteSet(ScopedSpots(s))
  BY <1>1, FS_Subset
<1>3. CASE s = Everything
  BY <1>1, <1>2, <1>3 DEF ScopedFields, ScopedWalkers, Covers
<1>4. CASE s # Everything
  BY <1>1, <1>2, <1>4 DEF ScopedFields, ScopedWalkers, Covers, Readers
<1>5. QED
  BY <1>3, <1>4

\* The overview counts the places and the audits of the projects that its reader covers.
LEMMA YeeOverview ==
  ASSUME YeeViewsInv, NEW s \in Readers
  PROVE  /\ DashboardOverview(s).places = Cardinality(ScopedSpots(s))
         /\ DashboardOverview(s).audits = Cardinality(Within(Delivered, s))
<1>1. CASE s = Everything
  <2>1. ScopedFields(s) = Fields
    BY <1>1, YeeScopes
  <2>2. \A q \in Spots : lot[q] # Unplaced <=> lot[q] \in Fields
    BY YeeRows
  <2>3. {q \in Spots : lot[q] # Unplaced} = ScopedSpots(s)
    BY <2>1, <2>2 DEF ScopedSpots
  <2>4. Delivered = Within(Delivered, s)
    BY <2>1, YeeRows DEF Within
  <2>5. QED
    BY <1>1, <2>3, <2>4 DEF DashboardOverview
<1>2. CASE s # Everything
  BY <1>2 DEF DashboardOverview
<1>3. QED
  BY <1>1, <1>2

\* Its totals are those of the projects and those of the places that are listed.
LEMMA YeeTotals ==
  ASSUME YeeViewsInv, NEW s \in Readers
  PROVE  /\ Cardinality(ScopedSpots(s))
              = Total([j \in ScopedFields(s) |-> Cardinality({q \in Spots : lot[q] = j})])
         /\ Cardinality(Within(Delivered, s))
              = Total([j \in ScopedFields(s) |-> Cardinality(OfField(Delivered, j))])
         /\ Cardinality(Within(Delivered, s))
              = Total([q \in ScopedSpots(s) |-> Cardinality(OfSpot(Delivered, q))])
<1>0. IsFiniteSet(Within(Delivered, s))
  BY YeeRows, FS_Subset DEF Within
<1>1. Cardinality(ScopedSpots(s))
        = Total([j \in ScopedFields(s) |-> Cardinality({q \in Spots : lot[q] = j})])
  <2> DEFINE P == [j \in ScopedFields(s) |-> {q \in Spots : lot[q] = j}]
             f == [j \in ScopedFields(s) |-> Cardinality({q \in Spots : lot[q] = j})]
  <2>1. f = [j \in ScopedFields(s) |-> Cardinality(P[j])]
    OBVIOUS
  <2>2. /\ \A j \in ScopedFields(s) : P[j] \subseteq ScopedSpots(s)
        /\ \A i, j \in ScopedFields(s) : i # j => P[i] \cap P[j] = {}
        /\ \A q \in ScopedSpots(s) : \E j \in ScopedFields(s) : q \in P[j]
    BY DEF ScopedSpots
  <2> HIDE DEF P, f
  <2>3. Total(f) = Cardinality(ScopedSpots(s))
    BY <2>1, <2>2, YeeScopes, TotalSplits
  <2>4. QED
    BY <2>3 DEF f
<1>2. Cardinality(Within(Delivered, s))
        = Total([j \in ScopedFields(s) |-> Cardinality(OfField(Delivered, j))])
  <2> DEFINE P == [j \in ScopedFields(s) |-> OfField(Delivered, j)]
             f == [j \in ScopedFields(s) |-> Cardinality(OfField(Delivered, j))]
  <2>1. f = [j \in ScopedFields(s) |-> Cardinality(P[j])]
    OBVIOUS
  <2>2. /\ \A j \in ScopedFields(s) : P[j] \subseteq Within(Delivered, s)
        /\ \A i, j \in ScopedFields(s) : i # j => P[i] \cap P[j] = {}
        /\ \A k \in Within(Delivered, s) : \E j \in ScopedFields(s) : k \in P[j]
    BY DEF Within, OfField
  <2> HIDE DEF P, f
  <2>3. Total(f) = Cardinality(Within(Delivered, s))
    BY <1>0, <2>1, <2>2, YeeScopes, TotalSplits
  <2>4. QED
    BY <2>3 DEF f
<1>3. Cardinality(Within(Delivered, s))
        = Total([q \in ScopedSpots(s) |-> Cardinality(OfSpot(Delivered, q))])
  <2> DEFINE P == [q \in ScopedSpots(s) |-> OfSpot(Delivered, q)]
             f == [q \in ScopedSpots(s) |-> Cardinality(OfSpot(Delivered, q))]
  <2>1. f = [q \in ScopedSpots(s) |-> Cardinality(P[q])]
    OBVIOUS
  <2>2. /\ \A q \in ScopedSpots(s) : P[q] \subseteq Within(Delivered, s)
        /\ \A q, r \in ScopedSpots(s) : q # r => P[q] \cap P[r] = {}
        /\ \A k \in Within(Delivered, s) : \E q \in ScopedSpots(s) : k \in P[q]
    BY YeeRows DEF Within, OfSpot, ScopedSpots
  <2> HIDE DEF P, f
  <2>3. Total(f) = Cardinality(Within(Delivered, s))
    BY <1>0, <2>1, <2>2, YeeScopes, TotalSplits
  <2>4. QED
    BY <2>3 DEF f
<1>4. QED
  BY <1>1, <1>2, <1>3

\* Lists, details and updated rows of a project agree.
LEMMA YeeProjectRows ==
  ASSUME YeeViewsInv, NEW s \in Readers, NEW j \in ScopedFields(s)
  PROVE  /\ ProjectList(s)[j] = UpdatedProject(j)
         /\ ProjectList(s)[j].places = Cardinality({q \in Spots : lot[q] = j})
         /\ DOMAIN ProjectDetail(s, j).places = {q \in Spots : lot[q] = j}
         /\ ProjectList(s)[j].audits = Cardinality(OfField(Shelled, j))
         /\ ProjectList(s)[j].audits = Total(ProjectDetail(s, j).places)
         /\ ProjectDetail(s, j).latest = OfField(Shelled, j)
         /\ ProjectDetail(s, j).submitted = Cardinality(OfField(Delivered, j))
<1> DEFINE here == {q \in Spots : lot[q] = j}
           P == [q \in here |-> OfField(OfSpot(Shelled, q), j)]
           f == [q \in here |-> Cardinality(OfField(OfSpot(Shelled, q), j))]
<1>1. OfField(Shelled, j) = {k \in OfField(Shelled, j) : k[2] \in here}
  BY YeeRows DEF OfField
<1>2. ProjectList(s)[j] = [places |-> Cardinality(here), audits |-> Cardinality(OfField(Shelled, j))]
  BY <1>1 DEF ProjectList
<1>3. ProjectDetail(s, j).places = f
  BY DEF ProjectDetail
<1>4. ProjectDetail(s, j).latest = OfField(Shelled, j)
  BY DEF ProjectDetail
<1>5. ProjectDetail(s, j).submitted = Cardinality(OfField(Delivered, j))
  BY DEF ProjectDetail
<1>6. Total(f) = Cardinality(OfField(Shelled, j))
  <2>1. f = [q \in here |-> Cardinality(P[q])]
    OBVIOUS
  <2>2. /\ \A q \in here : P[q] \subseteq OfField(Shelled, j)
        /\ \A q, r \in here : q # r => P[q] \cap P[r] = {}
        /\ \A k \in OfField(Shelled, j) : \E q \in here : k \in P[q]
    BY <1>1 DEF OfField, OfSpot
  <2>3. IsFiniteSet(here) /\ IsFiniteSet(OfField(Shelled, j))
    <3>1. here \subseteq Spots /\ OfField(Shelled, j) \subseteq Shelled
      BY DEF OfField
    <3> HIDE DEF here
    <3>2. QED
      BY <3>1, YeeRows, YeeViewsAssumption, FS_Subset
  <2> HIDE DEF P, f, here
  <2>4. QED
    BY <2>1, <2>2, <2>3, TotalSplits
<1>7. QED
  BY <1>2, <1>3, <1>4, <1>5, <1>6 DEF UpdatedProject

\* So do those of a place.
LEMMA YeePlaceRows ==
  ASSUME YeeViewsInv, NEW s \in Readers, NEW q \in ScopedSpots(s)
  PROVE  /\ PlaceList(s)[q] = UpdatedPlace(s, q)
         /\ PlaceList(s)[q].audits = Cardinality(OfSpot(Shelled, q))
         /\ PlaceDetail(s, q).total = Cardinality(OfSpot(Shelled, q))
         /\ PlaceDetail(s, q).submitted = Cardinality(OfSpot(Delivered, q))
         /\ ProjectDetail(s, lot[q]).places[q] = Cardinality(OfSpot(Shelled, q))
<1>1. OfField(OfSpot(Shelled, q), lot[q]) = OfSpot(Shelled, q)
  BY YeeRows DEF OfField, OfSpot
<1>2. {t[1] : t \in {t \in tasks : t[2] = q /\ t[3] = lot[q]}} \cap ScopedWalkers(s)
        = {u \in ScopedWalkers(s) : <<u, q, lot[q]>> \in tasks}
  <2>1. \A t \in tasks : t = <<t[1], t[2], t[3]>>
    BY YeeRows
  <2>2. \A u \in ScopedWalkers(s) :
           <<u, q, lot[q]>> \in tasks <=> \E t \in tasks : t[2] = q /\ t[3] = lot[q] /\ t[1] = u
    BY <2>1
  <2>3. QED
    BY <2>2
<1>3. PlaceList(s)[q] = [audits   |-> Cardinality(OfSpot(Shelled, q)),
                         auditors |-> {u \in ScopedWalkers(s) : <<u, q, lot[q]>> \in tasks}]
  BY <1>1, <1>2 DEF PlaceList
<1>4. /\ PlaceDetail(s, q).total = Cardinality(OfSpot(Shelled, q))
      /\ PlaceDetail(s, q).submitted = Cardinality(OfSpot(Delivered, q))
  BY DEF PlaceDetail
<1>5. ProjectDetail(s, lot[q]).places[q] = Cardinality(OfSpot(Shelled, q))
  BY <1>1, YeeScopes DEF ProjectDetail, ScopedSpots
<1>6. QED
  BY <1>3, <1>4, <1>5 DEF UpdatedPlace

\* The summary of an organization counts what its manager's overview counts.
LEMMA YeeSummary ==
  ASSUME YeeViewsInv, NEW s \in Readers, s # Everything
  PROVE  /\ OrganizationSummary(s.of).projects = Cardinality(ScopedFields(s))
         /\ OrganizationSummary(s.of).places = Cardinality(ScopedSpots(s))
         /\ OrganizationSummary(s.of).audits = Cardinality(Within(Delivered, s))
<1>1. ScopedFields(s) = {j \in Fields : FirmOf[j] = s.of}
  BY YeeScopes
<1>2. {q \in Spots : lot[q] # Unplaced /\ FirmOf[lot[q]] = s.of} = ScopedSpots(s)
  <2>1. \A q \in Spots : lot[q] # Unplaced <=> lot[q] \in Fields
    BY YeeRows
  <2>2. QED
    BY <1>1, <2>1 DEF ScopedSpots
<1>3. {k \in Delivered : FirmOf[shells[k].project] = s.of} = Within(Delivered, s)
  BY <1>1, YeeRows DEF Within
<1>4. QED
  BY <1>1, <1>2, <1>3 DEF OrganizationSummary

\* All that YEE's pages count is the same number wherever it is shown.
LEMMA YeeNumbersAddUp ==
  ASSUME YeeViewsInv, NEW s \in Readers
  PROVE  NumbersAddUp(s)
<1> DEFINE all == DashboardOverview(s)
           projects == ProjectList(s)
           places == PlaceList(s)
<1>1. DOMAIN projects = ScopedFields(s) /\ DOMAIN places = ScopedSpots(s)
  BY DEF ProjectList, PlaceList
<1>2. all.projects = Cardinality(ScopedFields(s))
  BY DEF DashboardOverview
<1>3. all.places = Total([j \in DOMAIN projects |-> projects[j].places])
  <2>1. [j \in ScopedFields(s) |-> Cardinality({q \in Spots : lot[q] = j})]
          = [j \in DOMAIN projects |-> projects[j].places]
    BY <1>1, YeeProjectRows
  <2> HIDE DEF projects, places
  <2>2. QED
    BY <2>1, YeeOverview, YeeTotals
<1>4. all.places = Cardinality(DOMAIN places)
  BY <1>1, YeeOverview
<1>5. all.audits = Total([j \in DOMAIN projects |-> ProjectDetail(s, j).submitted])
  <2>1. [j \in ScopedFields(s) |-> Cardinality(OfField(Delivered, j))]
          = [j \in DOMAIN projects |-> ProjectDetail(s, j).submitted]
    BY <1>1, YeeProjectRows
  <2> HIDE DEF projects, places
  <2>2. QED
    BY <2>1, YeeOverview, YeeTotals
<1>6. all.audits = Total([q \in DOMAIN places |-> PlaceDetail(s, q).submitted])
  <2>1. [q \in ScopedSpots(s) |-> Cardinality(OfSpot(Delivered, q))]
          = [q \in DOMAIN places |-> PlaceDetail(s, q).submitted]
    BY <1>1, YeePlaceRows
  <2> HIDE DEF projects, places
  <2>2. QED
    BY <2>1, YeeOverview, YeeTotals
<1>7. ASSUME NEW j \in DOMAIN projects
      PROVE  LET detail == ProjectDetail(s, j) IN
             /\ projects[j] = UpdatedProject(j)
             /\ projects[j].places = Cardinality(DOMAIN detail.places)
             /\ projects[j].audits = Total(detail.places)
             /\ projects[j].audits = Cardinality(detail.latest)
             /\ \A q \in DOMAIN detail.places :
                  /\ places[q] = UpdatedPlace(s, q)
                  /\ detail.places[q] = places[q].audits
                  /\ places[q].audits = PlaceDetail(s, q).total
  <2>1. j \in ScopedFields(s)
    BY <1>1
  <2>2. ASSUME NEW q \in DOMAIN ProjectDetail(s, j).places
        PROVE  q \in ScopedSpots(s) /\ lot[q] = j
    <3>1. q \in Spots /\ lot[q] = j
      BY <2>1, <2>2, YeeProjectRows
    <3>2. QED
      BY <2>1, <3>1 DEF ScopedSpots
  <2> HIDE DEF projects
  <2>3. QED
    BY <2>1, <2>2, YeeProjectRows, YeePlaceRows DEF projects
<1>8. s # Everything =>
        LET sum == OrganizationSummary(s.of) IN
        /\ sum.projects = all.projects /\ sum.places = all.places /\ sum.audits = all.audits
  BY <1>2, YeeSummary, YeeOverview
<1> HIDE DEF all, projects, places
<1>9. QED
  BY <1>3, <1>4, <1>5, <1>6, <1>7, <1>8 DEF NumbersAddUp, all, projects, places

\* The reports hold the submissions whose audits the reader covers, each once.
LEMMA YeeReportsAreComplete ==
  ASSUME YeeViewsInv, NEW s \in Readers
  PROVE  ReportsAreComplete(s)
<1> DEFINE rows == Reported(s)
           groups == Comparisons(s)
<1>1. rows = {k \in sheets : shells[k].project \in ScopedFields(s)}
  BY YeeRows DEF Reported
<1>2. UNION {groups[q] : q \in DOMAIN groups} = rows
  <2>1. DOMAIN groups = {k[2] : k \in rows} /\ \A q \in DOMAIN groups : groups[q] = OfSpot(rows, q)
    BY DEF Comparisons
  <2> HIDE DEF rows, groups
  <2>2. QED
    BY <2>1 DEF OfSpot
<1>3. rows \subseteq Within(Delivered, s) /\ Within(Delivered, s) \ rows \subseteq Delivered \ sheets
  BY <1>1, YeeRows DEF Within
<1>4. (UNION {MyAudits(u) : u \in Walkers}) \cap Within(Visits, s) = rows
  <2>1. UNION {MyAudits(u) : u \in Walkers} = sheets
    BY YeeRows DEF MyAudits, OfWalker
  <2>2. sheets \subseteq Visits
    BY YeeRows
  <2> HIDE DEF rows
  <2>3. QED
    BY <1>1, <2>1, <2>2 DEF Within
<1>5. ASSUME s # Everything
      PROVE  /\ rows = {k \in Visits : MayOpenSubmission(s.of, k)}
             /\ rows = {k \in sheets : MayEdit(s.of, k)}
  <2>1. ScopedFields(s) = {j \in Fields : FirmOf[j] = s.of}
    BY <1>5, YeeScopes
  <2>2. \A k \in sheets : /\ k \in Visits /\ k \in Shelled /\ shells[k].project = lot[k[2]]
                          /\ shells[k].project \in Fields /\ lot[k[2]] # Unplaced
    BY YeeRows
  <2> HIDE DEF rows
  <2>3. QED
    BY <1>1, <2>1, <2>2 DEF MayOpenSubmission, MayEdit
<1> HIDE DEF rows, groups
<1>6. QED
  BY <1>2, <1>3, <1>4, <1>5 DEF ReportsAreComplete, rows, groups

\* An auditor's places, on his own page and where his manager looks.
LEMMA YeeAuditorRows ==
  ASSUME YeeViewsInv, NEW s \in Readers, NEW u \in ScopedWalkers(s)
  PROVE  /\ AuditorList(s)[u].places
              = {q \in ScopedSpots(s) : <<u, q, lot[q]>> \in tasks}
         /\ DOMAIN MyPlaces(u) = {q \in Spots : <<u, q, lot[q]>> \in tasks}
         /\ AuditorList(s)[u].completed = {k \in Within(Delivered, s) : k[1] = u}
<1>1. AuditorList(s)[u].places
        = {t[2] : t \in {t \in tasks : t[1] = u /\ t[3] \in ScopedFields(s)}}
  BY DEF AuditorList
<1>2. AuditorList(s)[u].completed = {k \in Within(Delivered, s) : k[1] = u}
  BY DEF AuditorList, Within, OfWalker
<1>3. DOMAIN MyPlaces(u) = {q \in Spots : <<u, q, lot[q]>> \in tasks}
  BY DEF MyPlaces
<1>4. ASSUME NEW t \in tasks, t[1] = u, t[3] \in ScopedFields(s)
      PROVE  t[2] \in ScopedSpots(s) /\ <<u, t[2], lot[t[2]]>> \in tasks
  BY <1>4, YeeRows DEF ScopedSpots
<1>5. ASSUME NEW q \in ScopedSpots(s), <<u, q, lot[q]>> \in tasks
      PROVE  \E t \in tasks : t[1] = u /\ t[3] \in ScopedFields(s) /\ t[2] = q
  BY <1>5 DEF ScopedSpots
<1>6. QED
  BY <1>1, <1>2, <1>3, <1>4, <1>5

\* Auditors and their managers see the same places and audits.
LEMMA YeeAuditorsAgree ==
  ASSUME YeeViewsInv, NEW s \in Readers
  PROVE  AuditorsAgree(s)
<1>0. /\ DOMAIN AuditorList(s) = ScopedWalkers(s) /\ DOMAIN PlaceList(s) = ScopedSpots(s)
      /\ ScopedSpots(s) \subseteq Spots /\ ScopedWalkers(s) \subseteq Walkers
  BY YeeScopes DEF AuditorList, PlaceList
<1>1. \A u \in ScopedWalkers(s) :
         /\ AuditorList(s)[u].places = {q \in ScopedSpots(s) : <<u, q, lot[q]>> \in tasks}
         /\ AuditorList(s)[u].completed = {k \in Within(Delivered, s) : k[1] = u}
  BY YeeAuditorRows
<1>2. ASSUME NEW u \in ScopedWalkers(s)
      PROVE  /\ AuditorList(s)[u].places = DOMAIN MyPlaces(u) \cap ScopedSpots(s)
             /\ AuditorList(s)[u].places = {q \in ScopedSpots(s) : u \in PlaceList(s)[q].auditors}
  <2>1. DOMAIN MyPlaces(u) = {q \in Spots : <<u, q, lot[q]>> \in tasks}
    BY YeeAuditorRows
  <2>2. \A q \in ScopedSpots(s) :
           PlaceList(s)[q].auditors = {w \in ScopedWalkers(s) : <<w, q, lot[q]>> \in tasks}
    <3>1. SUFFICES ASSUME NEW q \in ScopedSpots(s)
                   PROVE  PlaceList(s)[q].auditors
                            = {w \in ScopedWalkers(s) : <<w, q, lot[q]>> \in tasks}
      OBVIOUS
    <3>2. PlaceList(s)[q] = UpdatedPlace(s, q)
      BY YeePlaceRows
    <3>3. UpdatedPlace(s, q).auditors = {w \in ScopedWalkers(s) : <<w, q, lot[q]>> \in tasks}
      BY DEF UpdatedPlace
    <3>4. QED
      BY <3>2, <3>3
  <2>3. QED
    BY <1>0, <1>1, <2>1, <2>2
<1>3. ASSUME NEW u \in ScopedWalkers(s), NEW q \in AuditorList(s)[u].places
      PROVE  /\ lot[q] \in ProjectsOfAuditor(u)
             /\ PlaceDetail(s, q).auditors[u] <= MyPlaces(u)[q]
  <2>1. q \in ScopedSpots(s) /\ q \in Spots /\ u \in Walkers /\ <<u, q, lot[q]>> \in tasks
    BY <1>0, <1>1
  <2>2. lot[q] \in ProjectsOfAuditor(u)
    <3>1. <<u, q, lot[q]>>[1] = u /\ <<u, q, lot[q]>>[3] = lot[q]
      OBVIOUS
    <3>2. QED
      BY <2>1, <3>1 DEF ProjectsOfAuditor
  <2>3. PlaceDetail(s, q).auditors[u] = Cardinality(OfSpot(OfWalker(Delivered, u), q))
    BY <2>1 DEF PlaceDetail
  <2>4. MyPlaces(u)[q] = Cardinality(OfField({<<u, q>>}, lot[q]))
    BY <2>1 DEF MyPlaces
  <2>5. OfSpot(OfWalker(Delivered, u), q) \subseteq OfField({<<u, q>>}, lot[q])
    <3>1. \A k \in Delivered : k = <<k[1], k[2]>> /\ shells[k].project = lot[k[2]]
      BY YeeRows
    <3>2. QED
      BY <3>1 DEF OfSpot, OfWalker, OfField
  <2>6. IsFiniteSet(OfField({<<u, q>>}, lot[q]))
    <3>1. OfField({<<u, q>>}, lot[q]) \subseteq {<<u, q>>}
      BY DEF OfField
    <3>2. IsFiniteSet({<<u, q>>})
      BY FS_Singleton
    <3>3. QED
      BY <3>1, <3>2, FS_Subset
  <2>7. QED
    BY <2>2, <2>3, <2>4, <2>5, <2>6, FS_Subset
<1>4. ASSUME NEW u \in ScopedWalkers(s), NEW j \in ScopedFields(s),
             u \in DOMAIN ProjectDetail(s, j).auditors
      PROVE  LET shown == ProjectDetail(s, j).auditors IN
             /\ shown[u].completed \subseteq AuditorList(s)[u].completed
             /\ shown[u].places = Cardinality({q \in AuditorList(s)[u].places : lot[q] = j})
  <2> DEFINE here == {q \in Spots : lot[q] = j}
             tasked(w) == {t[2] : t \in {t \in tasks : t[1] = w /\ t[3] = j}} \cap here
  <2>1. ProjectDetail(s, j).auditors
          = [w \in {w \in ScopedWalkers(s) : tasked(w) # {}} |->
               [places |-> Cardinality(tasked(w)), completed |-> OfField(OfWalker(Delivered, w), j)]]
    BY DEF ProjectDetail
  <2>2. ProjectDetail(s, j).auditors[u]
          = [places |-> Cardinality(tasked(u)), completed |-> OfField(OfWalker(Delivered, u), j)]
    BY <1>4, <2>1
  <2>3. OfField(OfWalker(Delivered, u), j) \subseteq AuditorList(s)[u].completed
    BY <1>1 DEF OfField, OfWalker, Within
  <2>4. tasked(u) = {q \in AuditorList(s)[u].places : lot[q] = j}
    <3>1. \A t \in tasks : t = <<t[1], t[2], t[3]>> /\ t[3] = lot[t[2]] /\ t[2] \in Spots
      BY YeeRows
    <3>2. ASSUME NEW q, q \in tasked(u)
          PROVE  q \in Spots /\ lot[q] = j /\ <<u, q, lot[q]>> \in tasks
      BY <3>1, <3>2
    <3>3. ASSUME NEW q \in Spots, lot[q] = j, <<u, q, lot[q]>> \in tasks
          PROVE  q \in tasked(u)
      <4> DEFINE t == <<u, q, lot[q]>>
      <4>1. t \in tasks /\ t[1] = u /\ t[3] = j /\ t[2] = q
        BY <3>3
      <4> HIDE DEF t
      <4>2. q \in {x[2] : x \in {x \in tasks : x[1] = u /\ x[3] = j}}
        BY <4>1
      <4>3. QED
        BY <3>3, <4>2
    <3> HIDE DEF tasked
    <3>4. {q \in AuditorList(s)[u].places : lot[q] = j}
            = {q \in Spots : lot[q] = j /\ <<u, q, lot[q]>> \in tasks}
      BY <1>0, <1>1 DEF ScopedSpots
    <3>5. QED
      BY <3>2, <3>3, <3>4
  <2> HIDE DEF tasked
  <2>5. QED
    BY <2>2, <2>3, <2>4
<1>5. Within(Delivered, s) \ UNION {AuditorList(s)[u].completed : u \in ScopedWalkers(s)}
        = {k \in Within(Delivered, s) : k[1] \notin ScopedWalkers(s)}
  BY <1>1
<1>6. AuditList(s) = {k \in Within(Shelled, s) : k[1] \in ScopedWalkers(s)}
  BY DEF AuditList
<1>7. QED
  BY <1>0, <1>2, <1>3, <1>4, <1>5, <1>6 DEF AuditorsAgree

\* In every state YEE's pages, lists and reports agree, for any number of projects,
\* places, auditors and accounts (dashboard_router.py and services/dashboard.py of YEE).
THEOREM YeeViewsTellOneStory == YeeViewsSpec => []YeeViewsAgree
<1>1. YeeViewsInv => YeeViewsAgree
  BY YeeNumbersAddUp, YeeReportsAreComplete, YeeAuditorsAgree DEF YeeViewsAgree
<1>2. QED
  BY <1>1, YeeViewsInvariant, PTL

-----------------------------------------------------------------------------
(* Playspace: where rows can be *)

\* Work and assignments are at places of their projects, saves are of drafts
\* or of what was submitted since, and a draft has no scores.
WorkIsSited ==
  /\ \A k \in Sessions : work[k] # NoWork => <<k[2], k[3]>> \in sited
  /\ \A k \in Sessions : work[k] # NoWork => work[k].mode \in DOMAIN Asked \cup {"unset"}
  /\ \A k \in Sessions : work[k].status = "IN_PROGRESS" => work[k].scored = {}
  /\ \A k \in saving : work[k] # NoWork
  /\ \A k \in engaged : <<k[2], k[3]>> \in sited

ViewsInv == ViewsTypeOK /\ WorkIsSited

LEMMA ViewsInitHolds ==
  ASSUME ViewsInit
  PROVE  ViewsInv
BY ViewsAssumption DEF ViewsInit, ViewsInv, ViewsTypeOK, WorkIsSited, NoWork

\* A row that is there is one of WorkRows.
LEMMA RowsOfWork ==
  ASSUME ViewsInv, NEW k \in Sessions, work[k] # NoWork
  PROVE  /\ work[k] \in WorkRows
         /\ work[k].status \in {"IN_PROGRESS", "SUBMITTED"}
         /\ work[k].mode \in Axes \cup {"both", "unset"}
         /\ work[k].scored \subseteq Axes
BY DEF ViewsInv, ViewsTypeOK, WorkRows

\* Rows that go, with the assignments and the saves that lose them.
LEMMA RowsGo ==
  ASSUME ViewsInv, NEW gone \in SUBSET Sessions,
         work' = [k \in Sessions |-> IF k \in gone THEN NoWork ELSE work[k]],
         saving' = saving \cap {k \in Sessions : work'[k] # NoWork},
         engaged' \subseteq engaged, sited' \subseteq sited,
         \A k \in Sessions \ gone : work[k] # NoWork => <<k[2], k[3]>> \in sited',
         \A k \in engaged' : <<k[2], k[3]>> \in sited',
         roster' \in [Surveyors -> Orgs \cup {Detached}]
  PROVE  ViewsInv'
<1>1. ViewsTypeOK'
  BY DEF ViewsInv, ViewsTypeOK
<1>2. \A k \in Sessions : work'[k] # NoWork => k \notin gone /\ work'[k] = work[k]
  OBVIOUS
<1>3. \A k \in Sessions : work'[k] = NoWork => work'[k].status = "none"
  BY DEF NoWork
<1>4. WorkIsSited'
  BY <1>2, <1>3 DEF ViewsInv, WorkIsSited
<1>5. QED
  BY <1>1, <1>4 DEF ViewsInv

\* A row that is written: opened, saved or submitted.
LEMMA RowWritten ==
  ASSUME ViewsInv, NEW k \in Sessions, NEW row \in WorkRows,
         work' = [work EXCEPT ![k] = row],
         row.mode \in DOMAIN Asked \cup {"unset"},
         row.status = "IN_PROGRESS" => row.scored = {},
         <<k[2], k[3]>> \in sited,
         saving' \subseteq saving,
         UNCHANGED <<sited, roster, engaged>>
  PROVE  ViewsInv'
<1>1. row # NoWork
  BY DEF WorkRows, NoWork
<1>2. ViewsTypeOK'
  BY DEF ViewsInv, ViewsTypeOK
<1>3. \A m \in Sessions : work'[m] = IF m = k THEN row ELSE work[m]
  BY DEF ViewsInv, ViewsTypeOK
<1>4. WorkIsSited'
  BY <1>1, <1>3 DEF ViewsInv, ViewsTypeOK, WorkIsSited
<1>5. QED
  BY <1>2, <1>4 DEF ViewsInv

LEMMA ViewsStep ==
  ASSUME ViewsInv, ViewsNext
  PROVE  ViewsInv'
<1> USE ViewsAssumption
<1>0. \A k \in Sessions : k[1] \in Surveyors /\ k[2] \in Programs /\ k[3] \in Venues
  OBVIOUS
<1>1. ASSUME NEW j \in Programs, NEW q \in Venues, Site(j, q)
      PROVE  ViewsInv'
  BY <1>1 DEF ViewsInv, ViewsTypeOK, WorkIsSited, Site
<1>2. ASSUME NEW j \in Programs, NEW q \in Venues, Unsite(j, q)
      PROVE  ViewsInv'
  <2> DEFINE gone == {k \in Sessions : <<k[2], k[3]>> = <<j, q>>}
  <2>1. work' = [k \in Sessions |-> IF k \in gone THEN NoWork ELSE work[k]]
    BY <1>2 DEF Unsite
  <2>2. \A k \in Sessions \ gone : work[k] # NoWork => <<k[2], k[3]>> \in sited'
    BY <1>2 DEF Unsite, ViewsInv, WorkIsSited
  <2>3. /\ saving' = saving \cap {k \in Sessions : work'[k] # NoWork}
        /\ engaged' \subseteq engaged /\ sited' \subseteq sited
        /\ \A k \in engaged' : <<k[2], k[3]>> \in sited'
        /\ roster' \in [Surveyors -> Orgs \cup {Detached}]
    BY <1>2 DEF Unsite, ViewsInv, ViewsTypeOK, WorkIsSited
  <2>4. gone \in SUBSET Sessions
    OBVIOUS
  <2> HIDE DEF gone
  <2>5. QED
    BY <2>1, <2>2, <2>3, <2>4, RowsGo
<1>3. ASSUME NEW u \in Surveyors, Detach(u)
      PROVE  ViewsInv'
  BY <1>3 DEF ViewsInv, ViewsTypeOK, WorkIsSited, Detach
<1>4. ASSUME NEW u \in Surveyors, Erase(u)
      PROVE  ViewsInv'
  <2> DEFINE gone == {k \in Sessions : k[1] = u /\ work[k].status # "SUBMITTED"}
  <2>1. work' = [k \in Sessions |-> IF k \in gone THEN NoWork ELSE work[k]]
    BY <1>4 DEF Erase
  <2>2. \A k \in Sessions \ gone : work[k] # NoWork => <<k[2], k[3]>> \in sited'
    BY <1>4 DEF Erase, ViewsInv, WorkIsSited
  <2>3. /\ saving' = saving \cap {k \in Sessions : work'[k] # NoWork}
        /\ engaged' \subseteq engaged /\ sited' \subseteq sited
        /\ \A k \in engaged' : <<k[2], k[3]>> \in sited'
        /\ roster' \in [Surveyors -> Orgs \cup {Detached}]
    BY <1>4 DEF Erase, ViewsInv, ViewsTypeOK, WorkIsSited
  <2>4. gone \in SUBSET Sessions
    OBVIOUS
  <2> HIDE DEF gone
  <2>5. QED
    BY <2>1, <2>2, <2>3, <2>4, RowsGo
<1>5. ASSUME NEW k \in Sessions, Engage(k) \/ Disengage(k)
      PROVE  ViewsInv'
  BY <1>5 DEF ViewsInv, ViewsTypeOK, WorkIsSited, Engage, Disengage
<1>6. ASSUME NEW k \in Sessions, SaveStart(k)
      PROVE  ViewsInv'
  BY <1>6 DEF ViewsInv, ViewsTypeOK, WorkIsSited, SaveStart, NoWork
<1>7. ASSUME NEW k \in Sessions, SubmitWork(k)
      PROVE  ViewsInv'
  <2>1. work[k] # NoWork /\ work[k].status = "IN_PROGRESS" /\ work[k].mode # "unset"
    BY <1>7 DEF SubmitWork, NoWork
  <2>2. work[k].mode \in DOMAIN Asked /\ <<k[2], k[3]>> \in sited
    BY <2>1 DEF ViewsInv, WorkIsSited
  <2>3. PICK old \in WorkRows : work[k] = old
    BY <2>1, RowsOfWork
  <2> DEFINE row == [old EXCEPT !.status = "SUBMITTED", !.scored = Asked[old.mode]]
  <2>4. row \in WorkRows /\ row.mode = old.mode /\ row.status = "SUBMITTED"
    <3>1. Asked[old.mode] \subseteq Axes
      BY <2>2, <2>3 DEF Axes
    <3>2. QED
      BY <3>1 DEF WorkRows
  <2>5. work' = [work EXCEPT ![k] = row]
    BY <1>7, <2>3 DEF SubmitWork, ViewsInv, ViewsTypeOK
  <2>6. UNCHANGED <<sited, roster, engaged, saving>>
    BY <1>7 DEF SubmitWork
  <2> HIDE DEF row
  <2>7. QED
    BY <2>2, <2>3, <2>4, <2>5, <2>6, RowWritten
<1>8. ASSUME NEW k \in Sessions, NEW m \in DOMAIN Asked \cup {"unset"}, Open(k, m)
      PROVE  ViewsInv'
  <2>1. <<k[2], k[3]>> \in sited
    BY <1>8 DEF Open, ViewsInv, WorkIsSited
  <2> DEFINE row == [status |-> "IN_PROGRESS", mode |-> m, scored |-> {}]
  <2>2. row \in WorkRows /\ row.mode = m /\ row.scored = {}
    BY DEF WorkRows, Axes
  <2>3. work' = [work EXCEPT ![k] = row] /\ UNCHANGED <<sited, roster, engaged, saving>>
    BY <1>8 DEF Open
  <2> HIDE DEF row
  <2>4. QED
    BY <2>1, <2>2, <2>3, RowWritten
<1>9. ASSUME NEW k \in Sessions, NEW m \in DOMAIN Asked \cup {"unset"}, Save(k, m)
      PROVE  ViewsInv'
  <2>1. work[k] # NoWork /\ saving' \subseteq saving /\ <<k[2], k[3]>> \in sited
    BY <1>9 DEF Save, ViewsInv, WorkIsSited
  <2>2. PICK old \in WorkRows : work[k] = old
    BY <2>1, RowsOfWork
  <2> DEFINE row == [old EXCEPT !.mode = m]
  <2>3. row \in WorkRows /\ row.mode = m /\ row.status = old.status /\ row.scored = old.scored
    BY DEF WorkRows, Axes
  <2>4. work' = [work EXCEPT ![k] = row]
    BY <1>9, <2>2 DEF Save
  <2>5. row.status = "IN_PROGRESS" => row.scored = {}
    BY <2>2, <2>3 DEF ViewsInv, WorkIsSited
  <2>6. UNCHANGED <<sited, roster, engaged>>
    BY <1>9 DEF Save
  <2> HIDE DEF row
  <2>7. QED
    BY <2>1, <2>3, <2>4, <2>5, <2>6, RowWritten
<1>10. QED
  BY <1>1, <1>2, <1>3, <1>4, <1>5, <1>6, <1>7, <1>8, <1>9 DEF ViewsNext

\* Every behaviour satisfies the invariant.
LEMMA ViewsInvariant == ViewsSpec => []ViewsInv
<1>1. ViewsInv /\ UNCHANGED viewVars => ViewsInv'
  BY DEF ViewsInv, ViewsTypeOK, WorkIsSited, viewVars
<1>2. QED
  BY <1>1, ViewsInitHolds, ViewsStep, PTL DEF ViewsSpec

-----------------------------------------------------------------------------
(* Playspace: what the views share *)

\* What the invariant says of the sets that queries start from.
LEMMA WorkFacts ==
  ASSUME ViewsInv
  PROVE  /\ IsFiniteSet(Sessions) /\ IsFiniteSet(Work) /\ IsFiniteSet(sited) /\ IsFiniteSet(engaged)
         /\ Work \subseteq Sessions /\ engaged \subseteq Sessions
         /\ \A k \in Sessions : /\ k[1] \in Surveyors /\ k[2] \in Programs /\ k[3] \in Venues
                                /\ k = <<k[1], k[2], k[3]>>
         /\ \A k \in Work : /\ <<k[2], k[3]>> \in sited
                            /\ work[k].status \in {"IN_PROGRESS", "SUBMITTED"}
                            /\ work[k].scored \subseteq Axes
                            /\ work[k].status = "IN_PROGRESS" => work[k].scored = {}
         /\ \A x \in sited : x[1] \in Programs /\ x[2] \in Venues /\ x = <<x[1], x[2]>>
<1> USE ViewsAssumption
<1>1. Work \subseteq Sessions /\ engaged \subseteq Sessions /\ sited \subseteq Programs \X Venues
  BY DEF Work, ViewsInv, ViewsTypeOK
<1>2. IsFiniteSet(Programs \X Venues)
  BY FS_Product
<1>3. IsFiniteSet(Surveyors \X (Programs \X Venues))
  BY <1>2, FS_Product
<1>4. IsFiniteSet(Sessions)
  <2> DEFINE f == [k \in Sessions |-> <<k[1], <<k[2], k[3]>>>>]
  <2>1. f \in Injection(Sessions, Surveyors \X (Programs \X Venues))
    <3>1. f \in [Sessions -> Surveyors \X (Programs \X Venues)]
      OBVIOUS
    <3>2. \A k, m \in Sessions : f[k] = f[m] => k = m
      OBVIOUS
    <3> HIDE DEF f
    <3>3. QED
      BY <3>1, <3>2 DEF Injection, IsInjective
  <2>2. QED
    BY <2>1, <1>3, FS_Injection
<1>5. IsFiniteSet(Work) /\ IsFiniteSet(sited) /\ IsFiniteSet(engaged)
  BY <1>1, <1>2, <1>4, FS_Subset
<1>6. \A k \in Sessions : /\ k[1] \in Surveyors /\ k[2] \in Programs /\ k[3] \in Venues
                          /\ k = <<k[1], k[2], k[3]>>
  OBVIOUS
<1>7. \A k \in Work : /\ <<k[2], k[3]>> \in sited
                      /\ work[k].status \in {"IN_PROGRESS", "SUBMITTED"}
                      /\ work[k].scored \subseteq Axes
                      /\ work[k].status = "IN_PROGRESS" => work[k].scored = {}
  BY <1>1, RowsOfWork DEF Work, ViewsInv, WorkIsSited
<1>8. \A x \in sited : x[1] \in Programs /\ x[2] \in Venues /\ x = <<x[1], x[2]>>
  BY <1>1
<1>9. QED
  BY <1>1, <1>4, <1>5, <1>6, <1>7, <1>8

\* Submissions are submitted or under way, and only the former are in a mean.
LEMMA StatusSplits ==
  ASSUME ViewsInv, NEW S \in SUBSET Work
  PROVE  /\ IsFiniteSet(S) /\ IsFiniteSet(Submitted(S)) /\ IsFiniteSet(Underway(S))
         /\ Submitted(S) \subseteq S /\ Underway(S) \subseteq S
         /\ Submitted(S) = {k \in S : work[k].status = "SUBMITTED"}
         /\ Underway(S) = {k \in S : work[k].status = "IN_PROGRESS"}
         /\ Cardinality(S) = Cardinality(Submitted(S)) + Cardinality(Underway(S))
         /\ Cardinality(Submitted(S)) \in Nat /\ Cardinality(Underway(S)) \in Nat
         /\ OfStatus({"IN_PROGRESS"}, S) = Underway(S)
         /\ Means(S) = Means(Submitted(S))
<1>0. \A k \in S : /\ work[k].status \in {"IN_PROGRESS", "SUBMITTED"}
                   /\ work[k].status = "IN_PROGRESS" => work[k].scored = {}
  BY WorkFacts
<1>1. /\ Submitted(S) = {k \in S : work[k].status = "SUBMITTED"}
      /\ Underway(S) = {k \in S : work[k].status = "IN_PROGRESS"}
      /\ OfStatus({"IN_PROGRESS"}, S) = Underway(S)
  BY <1>0 DEF Submitted, Underway, OfStatus
<1>2. Submitted(S) \cup Underway(S) = S /\ Submitted(S) \cap Underway(S) = {}
  BY <1>0, <1>1
<1>3. IsFiniteSet(S) /\ IsFiniteSet(Submitted(S)) /\ IsFiniteSet(Underway(S))
  BY <1>2, WorkFacts, FS_Subset
<1>4. Cardinality(S) = Cardinality(Submitted(S)) + Cardinality(Underway(S))
          - Cardinality(Submitted(S) \cap Underway(S))
  BY <1>2, <1>3, FS_Union
<1>5. Cardinality(Submitted(S) \cap Underway(S)) = 0
  BY <1>2, FS_EmptySet
<1>6. Cardinality(Submitted(S)) \in Nat /\ Cardinality(Underway(S)) \in Nat
  BY <1>3, FS_CardinalityType
<1>7. \A axis \in Axes : Mean(axis, S) = Mean(axis, Submitted(S))
  BY <1>0, <1>1 DEF Mean
<1>8. Means(S) = Means(Submitted(S))
  BY <1>7 DEF Means
<1>9. QED
  BY <1>1, <1>2, <1>3, <1>4, <1>5, <1>6, <1>8

\* Python's rollup of a place is the database's.
LEMMA RollupIsGrouped ==
  ASSUME ViewsInv, NEW S \in SUBSET Work
  PROVE  Rollup(S) = Grouped(S)
<1>1. ASSUME NEW axis \in Axes
      PROVE  ActivityStatus(On(axis, S))
               = GroupedStatus(Cardinality(On(axis, Submitted(S))), Cardinality(On(axis, Underway(S))))
  <2>1. IsFiniteSet(On(axis, Submitted(S))) /\ IsFiniteSet(On(axis, Underway(S)))
    BY StatusSplits, FS_Subset DEF On
  <2>2. /\ Cardinality(On(axis, Submitted(S))) > 0 <=> On(axis, Submitted(S)) # {}
        /\ Cardinality(On(axis, Underway(S))) > 0 <=> On(axis, Underway(S)) # {}
    <3>1. /\ Cardinality(On(axis, Submitted(S))) \in Nat
          /\ Cardinality(On(axis, Underway(S))) \in Nat
      BY <2>1, FS_CardinalityType
    <3>2. /\ Cardinality(On(axis, Submitted(S))) = 0 <=> On(axis, Submitted(S)) = {}
          /\ Cardinality(On(axis, Underway(S))) = 0 <=> On(axis, Underway(S)) = {}
      BY <2>1, FS_EmptySet
    <3>3. QED
      BY <3>1, <3>2
  <2>3. (\E k \in On(axis, S) : work[k].status = "SUBMITTED") <=> On(axis, Submitted(S)) # {}
    BY StatusSplits DEF On
  <2>4. (\E k \in On(axis, S) : work[k].status \in {"IN_PROGRESS", "PAUSED"})
           <=> On(axis, Underway(S)) # {}
    BY DEF On, Underway, OfStatus
  <2>5. QED
    BY <2>2, <2>3, <2>4 DEF ActivityStatus, GroupedStatus
<1>2. Means(Submitted(S)) = [axis \in Axes |-> Mean(axis, Submitted(S))]
  BY DEF Means
<1>3. [axis \in Axes |-> ActivityStatus(On(axis, S))]
        = [axis \in Axes |-> GroupedStatus(Cardinality(On(axis, Submitted(S))),
                                           Cardinality(On(axis, Underway(S))))]
  BY <1>1
<1>4. QED
  BY <1>2, <1>3 DEF Rollup, Grouped

\* The row of a linked place, whoever lists it.
SiteRow(x) == PlaceRow(x[1], x[2], Grouped(WorkAt(x[1], x[2])))

\* The projects, links and submissions of an account.
LEMMA OwnedRows ==
  ASSUME ViewsInv, NEW b \in Orgs
  PROVE  /\ Owned(b, b) = {j \in Programs : HomeOf[j] = b}
         /\ OfAccounts({b}) = {j \in Programs : HomeOf[j] = b}
         /\ OwnedWork(b, b) = {k \in Work : HomeOf[k[2]] = b}
         /\ OwnedSites(b, b) = {x \in sited : HomeOf[x[1]] = b}
<1>1. Owned(b, b) = {j \in Programs : HomeOf[j] = b}
  BY DEF Owned, InScope
<1>2. OfAccounts({b}) = {j \in Programs : HomeOf[j] = b}
  BY ViewsAssumption DEF OfAccounts, Passes
<1>3. OwnedWork(b, b) = {k \in Work : HomeOf[k[2]] = b}
  <2>1. \A k \in Work : k[2] \in Programs
    BY WorkFacts
  <2>2. QED
    BY <1>1, <2>1 DEF OwnedWork
<1>4. OwnedSites(b, b) = {x \in sited : HomeOf[x[1]] = b}
  <2>1. \A x \in sited : x[1] \in Programs
    BY WorkFacts
  <2>2. QED
    BY <1>1, <2>1 DEF OwnedSites
<1>5. QED
  BY <1>1, <1>2, <1>3, <1>4

\* Nobody owns anything in the account of somebody else.
LEMMA NothingOfOthers ==
  ASSUME NEW a \in Orgs, NEW b \in Orgs, a # b
  PROVE  Owned(a, b) = {} /\ OwnedWork(a, b) = {} /\ OwnedSites(a, b) = {}
BY DEF Owned, InScope, OwnedWork, OwnedSites

\* The lists of places hold the row of each link, by the account or all of them.
LEMMA PlaceLists ==
  ASSUME ViewsInv
  PROVE  /\ \A b \in Orgs : PlaceRows(b, b, {}, {}) = {SiteRow(x) : x \in OwnedSites(b, b)}
         /\ \A b \in Orgs : AccountPlaces(b, b, {}, {}, AnyStatus) = {SiteRow(x) : x \in OwnedSites(b, b)}
         /\ AdminPlaces({}, {}, AnyStatus) = {SiteRow(x) : x \in sited}
         /\ \A j \in Programs : AdminPlaces({}, {j}, AnyStatus) = {SiteRow(x) : x \in {x \in sited : x[1] = j}}
<1>1. \A x \in sited : /\ PlaceRow(x[1], x[2], Rollup(WorkAt(x[1], x[2]))) = SiteRow(x)
                       /\ SiteRow(x).program = x[1]
  <2>1. \A j, q : WorkAt(j, q) \subseteq Work
    BY DEF WorkAt
  <2>2. \A j, q : Rollup(WorkAt(j, q)) = Grouped(WorkAt(j, q))
    BY <2>1, RollupIsGrouped
  <2>3. QED
    BY <2>2 DEF SiteRow, PlaceRow
<1>2. \A row : \A axis \in Axes : HasStatus(row, axis, AnyStatus[axis])
  BY DEF HasStatus, Passes, AnyStatus
<1>3. ASSUME NEW b \in Orgs
      PROVE  PlaceRows(b, b, {}, {}) = {SiteRow(x) : x \in OwnedSites(b, b)}
  BY <1>1 DEF PlaceRows, Passes, OwnedSites
<1>4. ASSUME NEW b \in Orgs
      PROVE  AccountPlaces(b, b, {}, {}, AnyStatus) = {SiteRow(x) : x \in OwnedSites(b, b)}
  <2>1. AccountPlaces(b, b, {}, {}, AnyStatus) = PlaceRows(b, b, {}, {})
    BY <1>2 DEF AccountPlaces
  <2>2. QED
    BY <2>1, <1>3
<1>5. /\ OfAccounts({}) = Programs
      /\ \A x \in sited : x[1] \in Programs
  BY WorkFacts DEF OfAccounts, Passes
<1>6. ASSUME NEW js
      PROVE  AdminPlaces({}, js, AnyStatus)
               = {row \in {SiteRow(x) : x \in sited} : row.program \in Programs /\ Passes(row.program, js)}
  BY <1>2, <1>5 DEF AdminPlaces, SiteRow
<1>7. AdminPlaces({}, {}, AnyStatus) = {SiteRow(x) : x \in sited}
  <2>1. \A row \in {SiteRow(x) : x \in sited} : row.program \in Programs /\ Passes(row.program, {})
    BY <1>1, <1>5 DEF Passes
  <2>2. QED
    BY <1>6, <2>1
<1>8. ASSUME NEW j \in Programs
      PROVE  AdminPlaces({}, {j}, AnyStatus) = {SiteRow(x) : x \in {x \in sited : x[1] = j}}
  <2> DEFINE X == {x \in sited : x[1] = j}
  <2>1. \A x \in sited : SiteRow(x).program \in Programs
                         /\ (Passes(SiteRow(x).program, {j}) <=> x \in X)
    BY <1>1, <1>5 DEF Passes
  <2>2. X \subseteq sited
    OBVIOUS
  <2> HIDE DEF X
  <2>3. AdminPlaces({}, {j}, AnyStatus) = {SiteRow(x) : x \in X}
    BY <1>6, <2>1, <2>2
  <2>4. QED
    BY <2>3 DEF X
<1>9. QED
  BY <1>3, <1>4, <1>7, <1>8

-----------------------------------------------------------------------------
(* Playspace: the views agree *)

\* What accounts are shown is what administrators are.
LEMMA AllPartsMakeTheWhole ==
  ASSUME ViewsInv
  PROVE  PartsMakeTheWhole
<1> USE ViewsAssumption
<1>0. /\ OfAccounts({}) = Programs
      /\ \A j \in Programs : HomeOf[j] \in Orgs
      /\ \A k \in Work : k[2] \in Programs
      /\ \A x \in sited : x[1] \in Programs
  BY WorkFacts DEF OfAccounts, Passes
<1>1. UNION {AccountProjects(b, b) : b \in Orgs} = AdminProjects({})
  <2>1. \A b \in Orgs : AccountProjects(b, b)
                          = {ProjectRow(j, Means(WorkIn(j))) : j \in {j \in Programs : HomeOf[j] = b}}
    BY OwnedRows DEF AccountProjects
  <2>2. QED
    BY <1>0, <2>1 DEF AdminProjects
<1>2. UNION {ExportProjects(b, b, {}) : b \in Orgs} = AdminExportProjects({}, {})
  <2>1. \A b \in Orgs : ExportProjects(b, b, {})
           = {ProjectRow(j, Means(Submitted(WorkIn(j)))) : j \in {j \in Programs : HomeOf[j] = b}}
    BY OwnedRows DEF ExportProjects, Passes
  <2>2. AdminExportProjects({}, {}) = {ProjectRow(j, Means(Submitted(WorkIn(j)))) : j \in Programs}
    BY <1>0 DEF AdminExportProjects, Passes
  <2>3. QED
    BY <1>0, <2>1, <2>2
<1>3. UNION {AccountPlaces(b, b, {}, {}, AnyStatus) : b \in Orgs} = AdminPlaces({}, {}, AnyStatus)
  <2>1. \A b \in Orgs : AccountPlaces(b, b, {}, {}, AnyStatus)
                          = {SiteRow(x) : x \in {x \in sited : HomeOf[x[1]] = b}}
    BY PlaceLists, OwnedRows
  <2>2. AdminPlaces({}, {}, AnyStatus) = {SiteRow(x) : x \in sited}
    BY PlaceLists
  <2>3. QED
    BY <1>0, <2>1, <2>2
<1>4. UNION {AccountAudits(b, b, {}, {}, {}, {}) : b \in Orgs} = AdminAudits({}, {}, {}, {}, {})
  <2>1. \A b \in Orgs : AccountAudits(b, b, {}, {}, {}, {}) = {k \in Work : HomeOf[k[2]] = b}
    BY OwnedRows DEF AccountAudits, Passes
  <2>2. AdminAudits({}, {}, {}, {}, {}) = Work
    BY <1>0 DEF AdminAudits, Passes
  <2>3. QED
    BY <1>0, <2>1, <2>2
<1>5. UNION {ExportReports(b, b, {}) : b \in Orgs} = AdminExportReports({}, {})
  <2>1. \A b \in Orgs : ExportReports(b, b, {}) = Submitted({k \in Work : HomeOf[k[2]] = b})
    BY OwnedRows DEF ExportReports, ExportAudits, Passes
  <2>2. AdminExportReports({}, {}) = Submitted(Work)
    BY <1>0 DEF AdminExportReports, AdminExportAudits, Passes
  <2>3. QED
    BY <1>0, <2>1, <2>2 DEF Submitted, OfStatus
<1>6. ASSUME NEW b \in Orgs
      PROVE  /\ AccountProjects(b, b) = AdminProjects({b})
             /\ AccountAuditors(b, b) = AdminAuditors({b}, {}, {})
  <2>1. AccountProjects(b, b) = AdminProjects({b})
    BY OwnedRows DEF AccountProjects, AdminProjects
  <2>2. AccountAuditors(b, b) = AdminAuditors({b}, {}, {})
    BY DEF AccountAuditors, AdminAuditors, InScope, Passes
  <2>3. QED
    BY <2>1, <2>2
<1>7. ASSUME NEW b \in Orgs
      PROVE  LET detail == AccountDetail(b, b) IN
             [account |-> b, projects |-> detail.projects, places |-> detail.places,
              auditors |-> detail.auditors] = AdminAccount(b)
  <2>1. {u \in Surveyors : InScope(b, b) /\ roster[u] = b} = {u \in Surveyors : roster[u] = b}
    BY DEF InScope
  <2>2. QED
    BY <2>1, OwnedRows DEF AccountDetail, AdminAccount
<1>8. ASSUME NEW b \in Orgs, NEW a \in Orgs \ {b}
      PROVE  /\ AccountPlaces(a, b, {}, {}, AnyStatus) = {} /\ AccountAudits(a, b, {}, {}, {}, {}) = {}
             /\ \A row \in ExportProjects(a, a, Programs) : HomeOf[row.program] = a
  <2>1. AccountPlaces(a, b, {}, {}, AnyStatus) = {}
    BY NothingOfOthers DEF AccountPlaces, PlaceRows
  <2>2. AccountAudits(a, b, {}, {}, {}, {}) = {}
    BY NothingOfOthers DEF AccountAudits
  <2>3. \A j, m : ProjectRow(j, m).program = j
    BY DEF ProjectRow
  <2>4. ASSUME NEW row \in ExportProjects(a, a, Programs)
        PROVE  HomeOf[row.program] = a
    <3>1. PICK j \in Owned(a, a) : row = ProjectRow(j, Means(Submitted(WorkIn(j))))
      BY DEF ExportProjects
    <3>2. HomeOf[j] = a
      BY DEF Owned
    <3>3. QED
      BY <3>1, <3>2, <2>3
  <2>5. QED
    BY <2>1, <2>2, <2>4
<1>9. QED
  BY <1>1, <1>2, <1>3, <1>4, <1>5, <1>6, <1>7, <1>8 DEF PartsMakeTheWhole

\* Each place has one row, however it is computed.
LEMMA PlacesHaveOneRow ==
  ASSUME ViewsInv
  PROVE  OneRowPerPlace
<1>1. \A j, q : WorkAt(j, q) \subseteq Work
  BY DEF WorkAt
<1>2. \A j, q : Rollup(WorkAt(j, q)) = Grouped(WorkAt(j, q))
  BY <1>1, RollupIsGrouped
<1>3. ASSUME NEW b \in Orgs, NEW busy
      PROVE  AccountPlaces(b, b, {}, {}, busy) = ExportPlaces(b, b, {}, {}, busy)
  <2>1. PlaceRows(b, b, {}, {}) = {SiteRow(x) : x \in OwnedSites(b, b)}
    BY PlaceLists
  <2>2. ExportPlaces(b, b, {}, {}, busy)
          = {row \in {SiteRow(x) : x \in OwnedSites(b, b)} :
                \A axis \in Axes : HasStatus(row, axis, busy[axis])}
    BY DEF ExportPlaces, SiteRow, Passes
  <2>3. QED
    BY <2>1, <2>2 DEF AccountPlaces
<1>4. ASSUME NEW x \in sited
      PROVE  /\ \E row \in ProjectPlaces(x[1]) :
                   row.venue = x[2] /\ row \in AdminPlaces({}, {x[1]}, AnyStatus)
             /\ PlaceHistory(x[1], x[2]).rollup = Grouped(WorkAt(x[1], x[2]))
  <2>1. x[1] \in Programs /\ x[2] \in VenuesOf(x[1])
    BY WorkFacts DEF VenuesOf
  <2>2. SiteRow(x) \in ProjectPlaces(x[1]) /\ SiteRow(x).venue = x[2]
    BY <1>2, <2>1 DEF ProjectPlaces, SiteRow, PlaceRow
  <2>3. SiteRow(x) \in AdminPlaces({}, {x[1]}, AnyStatus)
    BY <2>1, PlaceLists
  <2>4. PlaceHistory(x[1], x[2]).rollup = Grouped(WorkAt(x[1], x[2]))
    BY <1>2 DEF PlaceHistory
  <2>5. QED
    BY <2>2, <2>3, <2>4
<1>5. QED
  BY <1>3, <1>4 DEF OneRowPerPlace

\* The submissions of a project are those of its places.
LEMMA WorkOfAProject ==
  ASSUME ViewsInv, NEW j \in Programs
  PROVE  /\ IsFiniteSet(VenuesOf(j)) /\ WorkIn(j) \subseteq Work
         /\ \A q \in VenuesOf(j) : WorkAt(j, q) \subseteq WorkIn(j)
         /\ \A q, r \in VenuesOf(j) : q # r => WorkAt(j, q) \cap WorkAt(j, r) = {}
         /\ \A k \in WorkIn(j) : \E q \in VenuesOf(j) : k \in WorkAt(j, q)
         /\ UNION {WorkAt(j, q) : q \in VenuesOf(j)} = WorkIn(j)
<1> USE ViewsAssumption
<1>1. IsFiniteSet(VenuesOf(j))
  <2>1. VenuesOf(j) \subseteq Venues
    BY DEF VenuesOf
  <2>2. QED
    BY <2>1, FS_Subset
<1>2. WorkIn(j) \subseteq Work /\ \A q : WorkAt(j, q) \subseteq WorkIn(j)
  BY DEF WorkIn, WorkAt
<1>3. \A q, r : q # r => WorkAt(j, q) \cap WorkAt(j, r) = {}
  BY DEF WorkAt
<1>4. ASSUME NEW k \in WorkIn(j)
      PROVE  k[3] \in VenuesOf(j) /\ k \in WorkAt(j, k[3])
  <2>1. k \in Work /\ k[2] = j
    BY DEF WorkIn
  <2>2. <<k[2], k[3]>> \in sited /\ k[3] \in Venues
    BY <2>1, WorkFacts
  <2>3. QED
    BY <2>1, <2>2 DEF WorkAt, VenuesOf
<1>5. UNION {WorkAt(j, q) : q \in VenuesOf(j)} = WorkIn(j)
  BY <1>2, <1>4
<1>6. QED
  BY <1>1, <1>2, <1>3, <1>4, <1>5

\* The rows of some links are finitely many.
LEMMA FiniteRows ==
  ASSUME ViewsInv, NEW X \in SUBSET sited
  PROVE  IsFiniteSet({SiteRow(x) : x \in X})
<1> DEFINE f == [x \in X |-> SiteRow(x)]
           rows == {SiteRow(x) : x \in X}
<1>1. IsFiniteSet(X)
  BY WorkFacts, FS_Subset
<1>2. f \in Surjection(X, rows)
  BY DEF Surjection
<1> HIDE DEF f, rows
<1>3. IsFiniteSet(rows)
  BY <1>1, <1>2, FS_Surjection
<1>4. QED
  BY <1>3 DEF rows

\* What the rows of some links count is the submitted work at these links.
LEMMA RowsCountTheirWork ==
  ASSUME ViewsInv, NEW X \in SUBSET sited
  PROVE  Total([row \in {SiteRow(x) : x \in X} |-> row.completed])
           = Cardinality(Submitted({k \in Work : <<k[2], k[3]>> \in X}))
<1> DEFINE rows == {SiteRow(x) : x \in X}
           W == {k \in Work : <<k[2], k[3]>> \in X}
           P == [row \in rows |-> Submitted(WorkAt(row.program, row.venue))]
           f == [row \in rows |-> row.completed]
<1>1. \A x \in X : /\ SiteRow(x).program = x[1] /\ SiteRow(x).venue = x[2]
                   /\ SiteRow(x).completed = Cardinality(Submitted(WorkAt(x[1], x[2])))
                   /\ x = <<x[1], x[2]>>
  <2>1. \A x \in X : x = <<x[1], x[2]>>
    BY WorkFacts
  <2>2. \A x \in X : /\ SiteRow(x).program = x[1] /\ SiteRow(x).venue = x[2]
                     /\ SiteRow(x).completed = Cardinality(Submitted(WorkAt(x[1], x[2])))
    BY DEF SiteRow, PlaceRow
  <2>3. QED
    BY <2>1, <2>2
<1>2. IsFiniteSet(rows)
  BY FiniteRows
<1>3. W \in SUBSET Work
  OBVIOUS
<1>4. IsFiniteSet(Submitted(W))
  BY <1>3, StatusSplits
<1>5. \A j, q : Submitted(WorkAt(j, q)) = {k \in Submitted(Work) : k[2] = j /\ k[3] = q}
  BY DEF Submitted, OfStatus, WorkAt
<1>6. Submitted(W) = {k \in Submitted(Work) : <<k[2], k[3]>> \in X}
  BY DEF Submitted, OfStatus
<1>7. ASSUME NEW row \in rows
      PROVE  P[row] \subseteq Submitted(W) /\ f[row] = Cardinality(P[row])
  <2>1. PICK x \in X : row = SiteRow(x)
    OBVIOUS
  <2>2. P[row] = Submitted(WorkAt(x[1], x[2]))
    BY <2>1, <1>1
  <2>3. QED
    BY <2>1, <2>2, <1>1, <1>5, <1>6
<1>8. ASSUME NEW row \in rows, NEW other \in rows, row # other
      PROVE  P[row] \cap P[other] = {}
  <2>1. PICK x \in X, y \in X : row = SiteRow(x) /\ other = SiteRow(y)
    OBVIOUS
  <2>2. x # y /\ x = <<x[1], x[2]>> /\ y = <<y[1], y[2]>>
    BY <1>8, <2>1, <1>1
  <2>3. /\ P[row] = {k \in Submitted(Work) : k[2] = x[1] /\ k[3] = x[2]}
        /\ P[other] = {k \in Submitted(Work) : k[2] = y[1] /\ k[3] = y[2]}
    BY <2>1, <1>1, <1>5
  <2>4. QED
    BY <2>2, <2>3
<1>9. ASSUME NEW k \in Submitted(W)
      PROVE  \E row \in rows : k \in P[row]
  <2>1. <<k[2], k[3]>> \in X /\ k \in Submitted(Work)
    BY <1>6
  <2>2. SiteRow(<<k[2], k[3]>>) \in rows /\ k \in P[SiteRow(<<k[2], k[3]>>)]
    BY <2>1, <1>1, <1>5
  <2>3. QED
    BY <2>2
<1>10. f = [row \in rows |-> Cardinality(P[row])]
  BY <1>7
<1> HIDE DEF rows, W, P, f
<1>11. Total(f) = Cardinality(Submitted(W))
  BY <1>2, <1>4, <1>7, <1>8, <1>9, <1>10, TotalSplits
<1>12. QED
  BY <1>11 DEF f, rows, W

\* The figures of a project are those of its places.
LEMMA ProjectAddsUp ==
  ASSUME ViewsInv, NEW j \in Programs
  PROVE  LET row == CHOOSE row \in AdminProjects({}) : row.program = j
             stats == ProjectStats(j) IN
         /\ row.completed = stats.completed
         /\ row.completed = Total([r \in ProjectPlaces(j) |-> r.completed])
         /\ row.completed = Cardinality(AdminExportAudits({}, {j}, {}))
         /\ row.places = stats.places /\ row.auditors = stats.auditors
         /\ row \in AdminExportProjects({}, {j})
         /\ \A axis \in Axes : row.means[axis] = UNION {stats.means[q][axis] : q \in VenuesOf(j)}
         /\ stats.completed + stats.underway =
                Total([q \in VenuesOf(j) |-> PlaceHistory(j, q).total])
<1> DEFINE R == ProjectRow(j, Means(WorkIn(j)))
           stats == ProjectStats(j)
<1>1. (CHOOSE row \in AdminProjects({}) : row.program = j) = R
  <2>1. \A i, m : ProjectRow(i, m).program = i
    BY DEF ProjectRow
  <2>2. AdminProjects({}) = {ProjectRow(i, Means(WorkIn(i))) : i \in Programs}
    BY DEF AdminProjects, OfAccounts, Passes
  <2>3. R \in AdminProjects({}) /\ R.program = j
    BY <2>1, <2>2
  <2>4. \A row \in AdminProjects({}) : row.program = j => row = R
    BY <2>1, <2>2
  <2>5. QED
    BY <2>3, <2>4
<1>2. /\ WorkIn(j) \in SUBSET Work
      /\ UNION {WorkAt(j, q) : q \in VenuesOf(j)} = WorkIn(j)
  BY WorkOfAProject
<1>3. /\ R.completed = Cardinality(Submitted(WorkIn(j))) /\ R.means = Means(WorkIn(j))
      /\ R.places = Cardinality(VenuesOf(j)) /\ R.auditors = Cardinality(EngagedIn(j))
  BY DEF ProjectRow
<1>4. /\ stats.completed = Cardinality(Submitted(WorkIn(j)))
      /\ stats.underway = Cardinality(OfStatus({"IN_PROGRESS"}, WorkIn(j)))
      /\ stats.places = Cardinality(VenuesOf(j)) /\ stats.auditors = Cardinality(EngagedIn(j))
      /\ \A q \in VenuesOf(j) : stats.means[q] = Means(Submitted(WorkAt(j, q)))
  BY <1>2 DEF ProjectStats
<1>5. Total([r \in ProjectPlaces(j) |-> r.completed]) = Cardinality(Submitted(WorkIn(j)))
  <2> DEFINE X == {x \in sited : x[1] = j}
  <2>1. ProjectPlaces(j) = {SiteRow(x) : x \in X}
    <3>1. \A q : WorkAt(j, q) \subseteq Work
      BY DEF WorkAt
    <3>2. \A q : PlaceRow(j, q, Rollup(WorkAt(j, q))) = SiteRow(<<j, q>>)
      BY <3>1, RollupIsGrouped DEF SiteRow
    <3>3. \A q \in VenuesOf(j) : <<j, q>> \in X
      BY DEF VenuesOf
    <3>4. \A x \in X : x[2] \in VenuesOf(j) /\ x = <<j, x[2]>>
      BY WorkFacts DEF VenuesOf
    <3>5. ProjectPlaces(j) = {SiteRow(<<j, q>>) : q \in VenuesOf(j)}
      BY <3>2 DEF ProjectPlaces
    <3> HIDE DEF X
    <3>6. QED
      BY <3>3, <3>4, <3>5
  <2>2. X \in SUBSET sited
    OBVIOUS
  <2>3. {k \in Work : <<k[2], k[3]>> \in X} = WorkIn(j)
    BY WorkFacts DEF WorkIn
  <2> HIDE DEF X
  <2>4. QED
    BY <2>1, <2>2, <2>3, RowsCountTheirWork
<1>6. AdminExportAudits({}, {j}, {}) = Submitted(WorkIn(j))
  BY WorkFacts DEF AdminExportAudits, OfAccounts, Passes, WorkIn
<1>7. R \in AdminExportProjects({}, {j})
  <2>1. Means(WorkIn(j)) = Means(Submitted(WorkIn(j)))
    BY <1>2, StatusSplits
  <2>2. AdminExportProjects({}, {j}) = {ProjectRow(i, Means(Submitted(WorkIn(i)))) : i \in {j}}
    BY DEF AdminExportProjects, OfAccounts, Passes
  <2>3. QED
    BY <2>1, <2>2
<1>8. ASSUME NEW axis \in Axes
      PROVE  R.means[axis] = UNION {stats.means[q][axis] : q \in VenuesOf(j)}
  <2>1. Means(WorkIn(j)) = Means(Submitted(WorkIn(j)))
    BY <1>2, StatusSplits
  <2>2. R.means[axis] = Mean(axis, Submitted(WorkIn(j)))
    BY <1>3, <2>1 DEF Means
  <2>3. \A q \in VenuesOf(j) : stats.means[q][axis] = Mean(axis, Submitted(WorkAt(j, q)))
    BY <1>4 DEF Means
  <2>4. Mean(axis, Submitted(WorkIn(j)))
          = UNION {Mean(axis, Submitted(WorkAt(j, q))) : q \in VenuesOf(j)}
    BY WorkOfAProject DEF Mean, Submitted, OfStatus
  <2> HIDE DEF R, stats
  <2>5. QED
    BY <2>2, <2>3, <2>4
<1>9. stats.completed + stats.underway = Total([q \in VenuesOf(j) |-> PlaceHistory(j, q).total])
  <2>1. stats.completed + stats.underway = Cardinality(WorkIn(j))
    BY <1>2, <1>4, StatusSplits
  <2> DEFINE P == [q \in VenuesOf(j) |-> WorkAt(j, q)]
             f == [q \in VenuesOf(j) |-> PlaceHistory(j, q).total]
  <2>2. f = [q \in VenuesOf(j) |-> Cardinality(P[q])]
    BY DEF PlaceHistory
  <2>3. IsFiniteSet(WorkIn(j)) /\ IsFiniteSet(VenuesOf(j))
    BY <1>2, StatusSplits, WorkOfAProject
  <2>4. /\ \A q \in VenuesOf(j) : P[q] \subseteq WorkIn(j)
        /\ \A q, r \in VenuesOf(j) : q # r => P[q] \cap P[r] = {}
        /\ \A k \in WorkIn(j) : \E q \in VenuesOf(j) : k \in P[q]
    BY WorkOfAProject
  <2> HIDE DEF P, f
  <2>5. Total(f) = Cardinality(WorkIn(j))
    BY <2>2, <2>3, <2>4, TotalSplits
  <2>6. QED
    BY <2>1, <2>5 DEF f
<1> HIDE DEF R, stats
<1>10. QED
  BY <1>1, <1>3, <1>4, <1>5, <1>6, <1>7, <1>8, <1>9 DEF stats

\* Two disjoint parts are not larger than the whole.
LEMMA TwoParts ==
  ASSUME NEW S, IsFiniteSet(S), NEW A, A \subseteq S, NEW B, B \subseteq S, A \cap B = {},
         NEW C, C \subseteq A \cup B
  PROVE  /\ Cardinality(A) + Cardinality(B) <= Cardinality(S)
         /\ Cardinality(C) <= Cardinality(A) + Cardinality(B)
<1>1. IsFiniteSet(A) /\ IsFiniteSet(B) /\ IsFiniteSet(A \cup B)
  <2>1. A \cup B \subseteq S
    OBVIOUS
  <2>2. QED
    BY <2>1, FS_Subset
<1>2. Cardinality(A \cup B) = Cardinality(A) + Cardinality(B) - Cardinality(A \cap B)
  BY <1>1, FS_Union
<1>3. Cardinality(A \cap B) = 0 /\ Cardinality(A) \in Nat /\ Cardinality(B) \in Nat
  BY <1>1, FS_EmptySet, FS_CardinalityType
<1>4. Cardinality(A \cup B) <= Cardinality(S)
  <2>1. A \cup B \subseteq S
    OBVIOUS
  <2>2. QED
    BY <2>1, FS_Subset
<1>5. Cardinality(C) <= Cardinality(A \cup B)
  BY <1>1, FS_Subset
<1>6. QED
  BY <1>2, <1>3, <1>4, <1>5

\* The figures of an account are those of its places.
LEMMA AccountAddsUp ==
  ASSUME ViewsInv, NEW b \in Orgs
  PROVE  LET summary == AuditsSummary(b, b) IN
         /\ summary.submitted = AccountDetail(b, b).completed
         /\ summary.submitted = Total([r \in AccountPlaces(b, b, {}, {}, AnyStatus) |-> r.completed])
         /\ summary.total = summary.submitted + summary.underway
         /\ summary.means = Means(ExportReports(b, b, {}))
<1> DEFINE W == OwnedWork(b, b)
<1>1. W \in SUBSET Work
  BY DEF OwnedWork
<1>2. Total([r \in AccountPlaces(b, b, {}, {}, AnyStatus) |-> r.completed]) = Cardinality(Submitted(W))
  <2> DEFINE X == OwnedSites(b, b)
  <2>1. X \in SUBSET sited
    BY DEF OwnedSites
  <2>2. {k \in Work : <<k[2], k[3]>> \in X} = W
    <3>1. \A k \in Work : <<k[2], k[3]>> \in sited
      BY WorkFacts
    <3>2. QED
      BY <3>1 DEF OwnedSites, OwnedWork
  <2>3. AccountPlaces(b, b, {}, {}, AnyStatus) = {SiteRow(x) : x \in X}
    BY PlaceLists
  <2> HIDE DEF X, W
  <2>4. QED
    BY <2>1, <2>2, <2>3, RowsCountTheirWork
<1>3. ExportReports(b, b, {}) = Submitted(W)
  BY DEF ExportReports, ExportAudits, Passes, OwnedWork
<1>4. /\ Cardinality(W) = Cardinality(Submitted(W)) + Cardinality(Underway(W))
      /\ Means(W) = Means(Submitted(W))
  <2> HIDE DEF W
  <2>1. QED
    BY <1>1, StatusSplits
<1>5. QED
  BY <1>2, <1>3, <1>4 DEF AuditsSummary, AccountDetail

\* The summary of an account's places counts no place twice.
LEMMA PlacesAddUp ==
  ASSUME ViewsInv, NEW b \in Orgs
  PROVE  LET places == PlacesSummary(b, b, {}, {}) IN
         /\ places.submitted + places.underway <= places.total
         /\ \A axis \in Axes : places.completed[axis] <= places.submitted + places.underway
<1> DEFINE rows == PlaceRows(b, b, {}, {})
           With(status) == {row \in rows : RowStatus(WorkAt(row.program, row.venue)) = status}
           Done(axis) == {row \in rows : row.rollup.status[axis] = "submitted"}
<1>1. IsFiniteSet(rows)
  <2>1. OwnedSites(b, b) \in SUBSET sited
    BY DEF OwnedSites
  <2>2. QED
    BY <2>1, PlaceLists, FiniteRows
<1>2. With("submitted") \cap With("in_progress") = {}
  OBVIOUS
<1>3. ASSUME NEW axis \in Axes
      PROVE  Done(axis) \subseteq With("submitted") \cup With("in_progress")
  <2>1. SUFFICES ASSUME NEW row \in rows, row.rollup.status[axis] = "submitted"
                 PROVE  RowStatus(WorkAt(row.program, row.venue)) \in {"submitted", "in_progress"}
    OBVIOUS
  <2>2. PICK x \in OwnedSites(b, b) : row = PlaceRow(x[1], x[2], Rollup(WorkAt(x[1], x[2])))
    BY DEF PlaceRows
  <2>3. row.program = x[1] /\ row.venue = x[2] /\ row.rollup = Rollup(WorkAt(x[1], x[2]))
    BY <2>2 DEF PlaceRow
  <2>4. ActivityStatus(On(axis, WorkAt(x[1], x[2]))) = "submitted"
    BY <2>1, <2>3 DEF Rollup
  <2>5. \E k \in On(axis, WorkAt(x[1], x[2])) : work[k].status = "SUBMITTED"
    BY <2>4 DEF ActivityStatus
  <2>6. \E k \in WorkAt(x[1], x[2]) : work[k].status = "SUBMITTED"
    BY <2>5 DEF On
  <2>7. QED
    BY <2>3, <2>6 DEF RowStatus
<1>4. /\ PlacesSummary(b, b, {}, {}).total = Cardinality(rows)
      /\ PlacesSummary(b, b, {}, {}).submitted = Cardinality(With("submitted"))
      /\ PlacesSummary(b, b, {}, {}).underway = Cardinality(With("in_progress"))
      /\ \A axis \in Axes : PlacesSummary(b, b, {}, {}).completed[axis] = Cardinality(Done(axis))
  BY DEF PlacesSummary
<1>5. \A status : With(status) \subseteq rows
  OBVIOUS
<1> HIDE DEF rows, With, Done
<1>6. \A axis \in Axes :
         /\ Cardinality(With("submitted")) + Cardinality(With("in_progress")) <= Cardinality(rows)
         /\ Cardinality(Done(axis)) <= Cardinality(With("submitted")) + Cardinality(With("in_progress"))
  BY <1>1, <1>2, <1>3, <1>5, TwoParts
<1>7. "audit" \in Axes
  BY DEF Axes
<1>8. QED
  BY <1>4, <1>6, <1>7

\* The administrators' overview is the sum over accounts, and over auditors.
LEMMA OverviewAddsUp ==
  ASSUME ViewsInv
  PROVE  /\ Overview.submitted = Total([b \in Orgs |-> AccountDetail(b, b).completed])
         /\ Overview.total = Total([u \in Surveyors |-> Cardinality(AuditorAudits(u, {}))])
<1>0. Overview.submitted = Cardinality(Submitted(Work)) /\ Overview.total = Cardinality(Work)
  BY DEF Overview
<1>1. /\ \A k \in Work : k[1] \in Surveyors /\ k[2] \in Programs /\ HomeOf[k[2]] \in Orgs
      /\ IsFiniteSet(Work) /\ IsFiniteSet(Submitted(Work))
      /\ IsFiniteSet(Orgs) /\ IsFiniteSet(Surveyors)
  BY WorkFacts, StatusSplits, ViewsAssumption
<1>2. Total([b \in Orgs |-> AccountDetail(b, b).completed]) = Cardinality(Submitted(Work))
  <2> DEFINE P == [b \in Orgs |-> Submitted(OwnedWork(b, b))]
             f == [b \in Orgs |-> AccountDetail(b, b).completed]
  <2>1. f = [b \in Orgs |-> Cardinality(P[b])]
    BY DEF AccountDetail
  <2>2. \A b \in Orgs : P[b] = {k \in Submitted(Work) : HomeOf[k[2]] = b}
    BY OwnedRows DEF Submitted, OfStatus
  <2>3. \A k \in Submitted(Work) : HomeOf[k[2]] \in Orgs
    BY <1>1 DEF Submitted, OfStatus
  <2>4. /\ \A b \in Orgs : P[b] \subseteq Submitted(Work)
        /\ \A a, b \in Orgs : a # b => P[a] \cap P[b] = {}
        /\ \A k \in Submitted(Work) : \E b \in Orgs : k \in P[b]
    BY <2>2, <2>3
  <2> HIDE DEF P, f
  <2>5. Total(f) = Cardinality(Submitted(Work))
    BY <1>1, <2>1, <2>4, TotalSplits
  <2>6. QED
    BY <2>5 DEF f
<1>3. Total([u \in Surveyors |-> Cardinality(AuditorAudits(u, {}))]) = Cardinality(Work)
  <2> DEFINE P == [u \in Surveyors |-> AuditorAudits(u, {})]
             f == [u \in Surveyors |-> Cardinality(AuditorAudits(u, {}))]
  <2>1. f = [u \in Surveyors |-> Cardinality(P[u])]
    OBVIOUS
  <2>2. \A u \in Surveyors : P[u] = {k \in Work : k[1] = u}
    BY DEF AuditorAudits, Passes
  <2>3. /\ \A u \in Surveyors : P[u] \subseteq Work
        /\ \A u, v \in Surveyors : u # v => P[u] \cap P[v] = {}
        /\ \A k \in Work : \E u \in Surveyors : k \in P[u]
    BY <2>2, <1>1
  <2> HIDE DEF P, f
  <2>4. Total(f) = Cardinality(Work)
    BY <1>1, <2>1, <2>3, TotalSplits
  <2>5. QED
    BY <2>4 DEF f
<1>4. QED
  BY <1>0, <1>2, <1>3

\* Every total is the total of its parts.
LEMMA AllTotalsAddUp ==
  ASSUME ViewsInv
  PROVE  TotalsAddUp
BY ProjectAddsUp, AccountAddsUp, PlacesAddUp, OverviewAddsUp DEF TotalsAddUp

\* The places that a manager's export holds, whatever projects and places are chosen.
LEMMA ExportedPlaces ==
  ASSUME ViewsInv, NEW b \in Orgs, NEW js, NEW qs
  PROVE  ExportPlaces(b, b, js, qs, AnyStatus)
           = {SiteRow(x) : x \in {y \in OwnedSites(b, b) : Passes(y[1], js) /\ Passes(y[2], qs)}}
<1>1. \A row : \A axis \in Axes : HasStatus(row, axis, AnyStatus[axis])
  BY DEF HasStatus, Passes, AnyStatus
<1>2. \A x : SiteRow(x).program = x[1] /\ SiteRow(x).venue = x[2]
  BY DEF SiteRow, PlaceRow
<1>3. ExportPlaces(b, b, js, qs, AnyStatus)
        = {row \in {SiteRow(x) : x \in OwnedSites(b, b)} :
              Passes(row.program, js) /\ Passes(row.venue, qs)}
  BY <1>1 DEF ExportPlaces, SiteRow
<1>4. QED
  BY <1>3, <1>2

\* The places that an administrator's export holds.
LEMMA AdminExportedPlaces ==
  ASSUME ViewsInv, NEW js, NEW qs
  PROVE  AdminExportPlaces({}, js, qs, AnyStatus)
           = {SiteRow(x) : x \in {y \in sited : Passes(y[1], js) /\ Passes(y[2], qs)}}
<1>1. \A row : \A axis \in Axes : HasStatus(row, axis, AnyStatus[axis])
  BY DEF HasStatus, Passes, AnyStatus
<1>2. \A x : SiteRow(x).program = x[1] /\ SiteRow(x).venue = x[2]
  BY DEF SiteRow, PlaceRow
<1>3. \A x \in sited : x[1] \in OfAccounts({})
  BY WorkFacts DEF OfAccounts, Passes
<1>4. AdminPlaces({}, js, AnyStatus)
        = {row \in {SiteRow(x) : x \in sited} :
              row.program \in OfAccounts({}) /\ Passes(row.program, js)}
  BY <1>1 DEF AdminPlaces, SiteRow
<1>5. AdminExportPlaces({}, js, qs, AnyStatus)
        = {row \in {SiteRow(x) : x \in sited} : /\ row.program \in OfAccounts({})
                                                /\ Passes(row.program, js) /\ Passes(row.venue, qs)}
  BY <1>4 DEF AdminExportPlaces
<1>6. QED
  BY <1>5, <1>2, <1>3

\* Audits are of places that are listed, and places of projects that are.
Closed(bundle) ==
  /\ \A k \in bundle.audits : \E row \in bundle.places : row.program = k[2] /\ row.venue = k[3]
  /\ \A row \in bundle.places : bundle.projects # {} => \E p \in bundle.projects : p.program = row.program

\* A bundle of submissions W with the places X is closed, if the places of
\* the submissions are in X and the projects of the places in J.
LEMMA BundleIsClosed ==
  ASSUME NEW X, NEW W, \A k \in W : <<k[2], k[3]>> \in X,
         NEW bundle, bundle.places = {SiteRow(x) : x \in X}, bundle.audits = W,
         bundle.projects # {} =>
            \E J : \E m : /\ \A x \in X : x[1] \in J
                          /\ bundle.projects = {ProjectRow(j, m[j]) : j \in J}
  PROVE  Closed(bundle)
<1>1. \A x : SiteRow(x).program = x[1] /\ SiteRow(x).venue = x[2]
  BY DEF SiteRow, PlaceRow
<1>2. ASSUME NEW k \in bundle.audits
      PROVE  \E row \in bundle.places : row.program = k[2] /\ row.venue = k[3]
  <2>1. SiteRow(<<k[2], k[3]>>) \in bundle.places
    OBVIOUS
  <2>2. SiteRow(<<k[2], k[3]>>).program = k[2] /\ SiteRow(<<k[2], k[3]>>).venue = k[3]
    BY <1>1
  <2>3. QED
    BY <2>1, <2>2
<1>3. ASSUME NEW row \in bundle.places, bundle.projects # {}
      PROVE  \E p \in bundle.projects : p.program = row.program
  <2>1. PICK J, m : /\ \A x \in X : x[1] \in J
                    /\ bundle.projects = {ProjectRow(j, m[j]) : j \in J}
    BY <1>3
  <2>2. PICK x \in X : row = SiteRow(x)
    OBVIOUS
  <2>3. ProjectRow(x[1], m[x[1]]) \in bundle.projects
    BY <2>1
  <2>4. ProjectRow(x[1], m[x[1]]).program = row.program
    BY <1>1, <2>2 DEF ProjectRow
  <2>5. QED
    BY <2>3, <2>4
<1>4. QED
  BY <1>2, <1>3 DEF Closed

\* A project's bundle, of a manager or an administrator.
LEMMA ProjectsBundlesAreClosed ==
  ASSUME ViewsInv, NEW js
  PROVE  /\ \A b \in Orgs : Closed(ProjectsBundle(b, b, js))
         /\ Closed(AdminProjectsBundle({}, js))
<1>0. /\ \A k \in Work : <<k[2], k[3]>> \in sited
      /\ \A x \in sited : x[1] \in Programs
      /\ OfAccounts({}) = Programs
  BY WorkFacts DEF OfAccounts, Passes
<1>1. Closed(NoBundle)
  BY DEF Closed, NoBundle
<1>2. ASSUME NEW b \in Orgs
      PROVE  Closed(ProjectsBundle(b, b, js))
  <2> DEFINE ids == IF js # {} THEN js ELSE {row.program : row \in ExportProjects(b, b, {})}
             full == [projects |-> ExportProjects(b, b, ids),
                      places   |-> ExportPlaces(b, b, ids, {}, AnyStatus),
                      auditors |-> ExportAuditors(b, b, ids, {}),
                      audits   |-> ExportAudits(b, b, ids, {}, {})]
             X == {y \in OwnedSites(b, b) : Passes(y[1], ids) /\ Passes(y[2], {})}
             W == ExportAudits(b, b, ids, {}, {})
             J == {j \in Owned(b, b) : Passes(j, ids)}
             m == [j \in J |-> Means(Submitted(WorkIn(j)))]
  <2>1. ProjectsBundle(b, b, js) = IF ids = {} THEN NoBundle ELSE full
    BY DEF ProjectsBundle
  <2> HIDE DEF ids
  <2>2. full.places = {SiteRow(x) : x \in X}
    <3>1. ExportPlaces(b, b, ids, {}, AnyStatus) = {SiteRow(x) : x \in X}
      BY ExportedPlaces
    <3> HIDE DEF X
    <3>2. QED
      BY <3>1
  <2>3. \A k \in W : <<k[2], k[3]>> \in X
    BY <1>0 DEF ExportAudits, Submitted, OfStatus, OwnedWork, OwnedSites, Passes
  <2>4. \A x \in X : x[1] \in J
    BY DEF OwnedSites
  <2>5. full.projects = {ProjectRow(j, m[j]) : j \in J}
    BY DEF ExportProjects
  <2>6. full.audits = W
    OBVIOUS
  <2> HIDE DEF full, X, W, J, m
  <2>7. \E I : \E n : /\ \A x \in X : x[1] \in I
                      /\ full.projects = {ProjectRow(j, n[j]) : j \in I}
    BY <2>4, <2>5
  <2>8. Closed(full)
    BY <2>2, <2>3, <2>6, <2>7, BundleIsClosed
  <2>9. QED
    BY <1>1, <2>1, <2>8
<1>3. Closed(AdminProjectsBundle({}, js))
  <2> DEFINE ids == IF js # {} THEN js ELSE {row.program : row \in AdminExportProjects({}, {})}
             full == [projects |-> AdminExportProjects({}, ids),
                      places   |-> AdminExportPlaces({}, ids, {}, AnyStatus),
                      auditors |-> AdminExportAuditors(ids, {}),
                      audits   |-> AdminExportAudits({}, ids, {})]
             X == {y \in sited : Passes(y[1], ids) /\ Passes(y[2], {})}
             W == AdminExportAudits({}, ids, {})
             J == {j \in Programs : Passes(j, ids)}
             m == [j \in J |-> Means(Submitted(WorkIn(j)))]
  <2>1. AdminProjectsBundle({}, js) = IF ids = {} THEN NoBundle ELSE full
    BY DEF AdminProjectsBundle
  <2> HIDE DEF ids
  <2>2. full.places = {SiteRow(x) : x \in X}
    <3>1. AdminExportPlaces({}, ids, {}, AnyStatus) = {SiteRow(x) : x \in X}
      BY AdminExportedPlaces
    <3> HIDE DEF X
    <3>2. QED
      BY <3>1
  <2>3. \A k \in W : <<k[2], k[3]>> \in X
    BY <1>0 DEF AdminExportAudits, Submitted, OfStatus, Passes
  <2>4. \A x \in X : x[1] \in J
    BY <1>0
  <2>5. full.projects = {ProjectRow(j, m[j]) : j \in J}
    BY <1>0 DEF AdminExportProjects
  <2>6. full.audits = W
    OBVIOUS
  <2> HIDE DEF full, X, W, J, m
  <2>7. \E I : \E n : /\ \A x \in X : x[1] \in I
                      /\ full.projects = {ProjectRow(j, n[j]) : j \in I}
    BY <2>4, <2>5
  <2>8. Closed(full)
    BY <2>2, <2>3, <2>6, <2>7, BundleIsClosed
  <2>9. QED
    BY <1>1, <2>1, <2>8
<1>4. QED
  BY <1>2, <1>3

\* The bundle of the places of a project, which holds these places' rows of
\* other projects too; the administrators' bundle holds the manager's audits.
LEMMA PlacesBundlesAreClosed ==
  ASSUME ViewsInv, NEW j \in Programs
  PROVE  LET own == PlacesBundle(HomeOf[j], HomeOf[j], {j}, {}, AnyStatus)
             admins == AdminPlacesBundle({}, {j}, {}, AnyStatus) IN
         Closed(own) /\ Closed(admins) /\ own.audits \subseteq admins.audits
<1> DEFINE b == HomeOf[j]
           ids == VenuesOf(j)
           own == [projects |-> {}, places |-> ExportPlaces(b, b, {}, ids, AnyStatus),
                   auditors |-> ExportAuditors(b, b, {}, ids),
                   audits   |-> ExportAudits(b, b, {}, {}, ids)]
           admins == [projects |-> {}, places |-> AdminExportPlaces({}, {}, ids, AnyStatus),
                      auditors |-> AdminExportAuditors({}, ids),
                      audits   |-> AdminExportAudits({}, {}, ids)]
<1>0. /\ \A k \in Work : <<k[2], k[3]>> \in sited /\ k[2] \in Programs
      /\ \A x \in sited : x[1] \in Programs /\ x[2] \in Venues /\ x = <<x[1], x[2]>>
      /\ OfAccounts({}) = Programs
      /\ b \in Orgs
  BY WorkFacts, ViewsAssumption DEF OfAccounts, Passes
<1>1. \A x : SiteRow(x).venue = x[2]
  BY DEF SiteRow, PlaceRow
<1>2. \A q : q \in ids <=> <<j, q>> \in sited
  BY <1>0 DEF VenuesOf
<1>3. {row.venue : row \in ExportPlaces(b, b, {j}, {}, AnyStatus)} = ids
  <2> DEFINE X == {y \in OwnedSites(b, b) : Passes(y[1], {j}) /\ Passes(y[2], {})}
  <2>1. ExportPlaces(b, b, {j}, {}, AnyStatus) = {SiteRow(x) : x \in X}
    <3> HIDE DEF b
    <3>1. QED
      BY <1>0, ExportedPlaces
  <2>2. \A x \in X : x[2] \in ids
    BY <1>0, <1>2 DEF OwnedSites, Passes
  <2>3. \A q \in ids : <<j, q>> \in X
    BY <1>2 DEF OwnedSites, Owned, InScope, Passes
  <2> HIDE DEF X, ids, b
  <2>4. ASSUME NEW q \in ids
        PROVE  q \in {row.venue : row \in ExportPlaces(b, b, {j}, {}, AnyStatus)}
    <3>1. SiteRow(<<j, q>>) \in ExportPlaces(b, b, {j}, {}, AnyStatus) /\ SiteRow(<<j, q>>).venue = q
      BY <2>1, <2>3, <1>1
    <3>2. QED
      BY <3>1
  <2>5. ASSUME NEW row \in ExportPlaces(b, b, {j}, {}, AnyStatus)
        PROVE  row.venue \in ids
    BY <2>1, <2>2, <1>1
  <2>6. QED
    BY <2>4, <2>5
<1>4. {row.venue : row \in AdminExportPlaces({}, {j}, {}, AnyStatus)} = ids
  <2> DEFINE X == {y \in sited : Passes(y[1], {j}) /\ Passes(y[2], {})}
  <2>1. AdminExportPlaces({}, {j}, {}, AnyStatus) = {SiteRow(x) : x \in X}
    BY AdminExportedPlaces
  <2>2. \A x \in X : x[2] \in ids
    BY <1>0, <1>2 DEF Passes
  <2>3. \A q \in ids : <<j, q>> \in X
    BY <1>2 DEF Passes
  <2> HIDE DEF X, ids, b
  <2>4. ASSUME NEW q \in ids
        PROVE  q \in {row.venue : row \in AdminExportPlaces({}, {j}, {}, AnyStatus)}
    <3>1. SiteRow(<<j, q>>) \in AdminExportPlaces({}, {j}, {}, AnyStatus) /\ SiteRow(<<j, q>>).venue = q
      BY <2>1, <2>3, <1>1
    <3>2. QED
      BY <3>1
  <2>5. ASSUME NEW row \in AdminExportPlaces({}, {j}, {}, AnyStatus)
        PROVE  row.venue \in ids
    BY <2>1, <2>2, <1>1
  <2>6. QED
    BY <2>4, <2>5
<1>5. /\ PlacesBundle(b, b, {j}, {}, AnyStatus) = IF ids = {} THEN NoBundle ELSE own
      /\ AdminPlacesBundle({}, {j}, {}, AnyStatus) = IF ids = {} THEN NoBundle ELSE admins
  <2> HIDE DEF ids, b
  <2>1. PlacesBundle(b, b, {j}, {}, AnyStatus) = IF ids = {} THEN NoBundle ELSE own
    BY <1>3 DEF PlacesBundle
  <2>2. AdminPlacesBundle({}, {j}, {}, AnyStatus) = IF ids = {} THEN NoBundle ELSE admins
    BY <1>4 DEF AdminPlacesBundle
  <2>3. QED
    BY <2>1, <2>2
<1>6. Closed(NoBundle) /\ NoBundle.audits = {}
  BY DEF Closed, NoBundle
<1>7. Closed(own)
  <2> DEFINE X == {y \in OwnedSites(b, b) : Passes(y[1], {}) /\ Passes(y[2], ids)}
             W == ExportAudits(b, b, {}, {}, ids)
  <2>1. own.places = {SiteRow(x) : x \in X}
    <3> HIDE DEF ids, b
    <3>1. ExportPlaces(b, b, {}, ids, AnyStatus) = {SiteRow(x) : x \in X}
      BY <1>0, ExportedPlaces
    <3> HIDE DEF X
    <3>2. QED
      BY <3>1
  <2>2. \A k \in W : <<k[2], k[3]>> \in X
    BY <1>0 DEF ExportAudits, Submitted, OfStatus, OwnedWork, OwnedSites, Passes
  <2>3. own.audits = W /\ own.projects = {}
    OBVIOUS
  <2> HIDE DEF own, X, W
  <2>4. QED
    BY <2>1, <2>2, <2>3, BundleIsClosed
<1>8. Closed(admins)
  <2> DEFINE X == {y \in sited : Passes(y[1], {}) /\ Passes(y[2], ids)}
             W == AdminExportAudits({}, {}, ids)
  <2>1. admins.places = {SiteRow(x) : x \in X}
    <3> HIDE DEF ids
    <3>1. AdminExportPlaces({}, {}, ids, AnyStatus) = {SiteRow(x) : x \in X}
      BY AdminExportedPlaces
    <3> HIDE DEF X
    <3>2. QED
      BY <3>1
  <2>2. \A k \in W : <<k[2], k[3]>> \in X
    BY <1>0 DEF AdminExportAudits, Submitted, OfStatus, Passes
  <2>3. admins.audits = W /\ admins.projects = {}
    OBVIOUS
  <2> HIDE DEF admins, X, W
  <2>4. QED
    BY <2>1, <2>2, <2>3, BundleIsClosed
<1>9. own.audits \subseteq admins.audits
  BY <1>0 DEF ExportAudits, AdminExportAudits, Submitted, OfStatus, OwnedWork, Passes
<1> HIDE DEF own, admins
<1>10. QED
  BY <1>5, <1>6, <1>7, <1>8, <1>9

\* Every bundle of exports is closed.
LEMMA AllBundlesAreClosed ==
  ASSUME ViewsInv
  PROVE  BundlesAreClosed
<1>1. \A j \in Programs : HomeOf[j] \in Orgs
  BY ViewsAssumption
<1>2. QED
  BY <1>1, ProjectsBundlesAreClosed, PlacesBundlesAreClosed DEF BundlesAreClosed, Closed

\* An auditor's progress is what his managers see.
LEMMA AuditorsSeeTheSame ==
  ASSUME ViewsInv
  PROVE  AuditorsAreInThePicture
<1>1. ASSUME NEW u \in Surveyors
      PROVE  /\ AuditorSummary(u).underway + AuditorSummary(u).submitted
                  = Cardinality(AuditorAudits(u, {}))
             /\ AuditorRow(u).completed = AuditorSummary(u).submitted
  <2> DEFINE own == {k \in Work : k[1] = u}
  <2>1. own \in SUBSET Work
    OBVIOUS
  <2>2. AuditorAudits(u, {}) = own
    BY DEF AuditorAudits, Passes
  <2>3. {k \in Submitted(Work) : k[1] = u} = Submitted(own)
    BY DEF Submitted, OfStatus
  <2>4. AuditorSummary(u).underway = Cardinality(Underway(own))
        /\ AuditorSummary(u).submitted = Cardinality(Submitted(own))
    BY DEF AuditorSummary
  <2>5. AuditorRow(u).completed = Cardinality(Submitted(own))
    BY <2>3 DEF AuditorRow
  <2> HIDE DEF own
  <2>6. QED
    BY <2>1, <2>2, <2>4, <2>5, StatusSplits
<1>2. ASSUME NEW u \in Surveyors
      PROVE  AuditorSummary(u).assigned = Cardinality(AuditorPlaces(u, {}))
  <2> DEFINE S == {k \in engaged : k[1] = u}
             T == {AuditorPlace(k) : k \in S}
             f == [k \in S |-> AuditorPlace(k)]
  <2>1. AuditorSummary(u).assigned = Cardinality(S)
    BY DEF AuditorSummary
  <2>2. AuditorPlaces(u, {}) = T
    BY DEF AuditorPlaces, Passes
  <2>3. IsFiniteSet(S)
    BY WorkFacts, FS_Subset
  <2>4. \A k \in S : k = <<u, k[2], k[3]>>
    BY WorkFacts
  <2>5. \A k : AuditorPlace(k).program = k[2] /\ AuditorPlace(k).venue = k[3]
    BY DEF AuditorPlace
  <2>6. f \in Bijection(S, T)
    <3>1. f \in Surjection(S, T)
      BY DEF Surjection
    <3>2. \A k, m \in S : f[k] = f[m] => k = m
      BY <2>4, <2>5
    <3> HIDE DEF f, S, T
    <3>3. QED
      BY <3>1, <3>2 DEF Bijection, Injection, IsInjective, Surjection
  <2> HIDE DEF f, S, T
  <2>7. Cardinality(T) = Cardinality(S)
    BY <2>3, <2>6, FS_Bijection DEF ExistsBijection
  <2>8. QED
    BY <2>1, <2>2, <2>7
<1>3. ASSUME NEW u \in Surveyors, NEW row \in AuditorPlaces(u, {"in_progress", "submitted"}),
             NEW axis \in Axes
      PROVE  LET history == PlaceHistory(row.program, row.venue) IN
             /\ row.status[axis] # "not_started" => history.rollup.status[axis] # "not_started"
             /\ row.status[axis] = "submitted" => history.rollup.status[axis] = "submitted"
  <2>1. PICK k \in engaged : row = AuditorPlace(k)
    BY DEF AuditorPlaces
  <2>2. row.program = k[2] /\ row.venue = k[3] /\ row.status[axis] = OwnStatus(k, axis)
    BY <2>1 DEF AuditorPlace
  <2>3. PlaceHistory(k[2], k[3]).rollup.status[axis] = ActivityStatus(On(axis, WorkAt(k[2], k[3])))
    BY DEF PlaceHistory, Rollup
  <2>4. SUFFICES ASSUME OwnStatus(k, axis) # "not_started"
                 PROVE  /\ ActivityStatus(On(axis, WorkAt(k[2], k[3]))) # "not_started"
                        /\ OwnStatus(k, axis) = "submitted" =>
                              ActivityStatus(On(axis, WorkAt(k[2], k[3]))) = "submitted"
    BY <2>2, <2>3
  <2>5. k \in Work /\ Includes(work[k].mode, axis)
    <3>1. k \in Sessions
      BY WorkFacts
    <3>2. work[k] # NoWork
      BY <2>4, Zenon DEF OwnStatus
    <3>3. Includes(work[k].mode, axis)
      BY <2>4, Zenon DEF OwnStatus
    <3>4. QED
      BY <3>1, <3>2, <3>3 DEF Work
  <2>6. k \in On(axis, WorkAt(k[2], k[3])) /\ work[k].status \in {"IN_PROGRESS", "SUBMITTED"}
    BY <2>5, WorkFacts DEF On, WorkAt
  <2>7. OwnStatus(k, axis) = "submitted" => work[k].status = "SUBMITTED"
    BY <2>5 DEF OwnStatus, Work
  <2> DEFINE A == On(axis, WorkAt(k[2], k[3]))
  <2>8. work[k].status = "SUBMITTED" => ActivityStatus(A) = "submitted"
    <3>1. k \in A
      BY <2>6
    <3> HIDE DEF A
    <3>2. QED
      BY <3>1 DEF ActivityStatus
  <2>9. work[k].status = "IN_PROGRESS" => ActivityStatus(A) # "not_started"
    <3>1. k \in A
      BY <2>6
    <3> HIDE DEF A
    <3>2. QED
      BY <3>1 DEF ActivityStatus
  <2>10. QED
    BY <2>6, <2>7, <2>8, <2>9
<1>4. QED
  BY <1>1, <1>2, <1>3 DEF AuditorsAreInThePicture

\* In every state Playspace's dashboards, lists, histories and exports agree, for any
\* number of accounts, projects, places and auditors (products/playspace/services/
\* dashboard.py and admin.py, _place_rollup.py).
THEOREM PlayspaceViewsTellOneStory == ViewsSpec => []ViewsAgree
<1>1. ViewsInv => ViewsAgree
  BY AllPartsMakeTheWhole, PlacesHaveOneRow, AllTotalsAddUp, AllBundlesAreClosed,
     AuditorsSeeTheSame DEF ViewsAgree
<1>2. QED
  BY <1>1, ViewsInvariant, PTL

-----------------------------------------------------------------------------
(* Playspace: answers and scores *)

\* At most the three kinds of company are named together.
FewKeys(given) == "sociability" \in DOMAIN given => Cardinality(given["sociability"].keys) \in 0..3

\* Answers are kept for every question, of scales, one key or several.
ScoreInv ==
  /\ ScoreTypeOK /\ answers = [q \in QuestionKeys |-> answers[q]]
  /\ \A q \in QuestionKeys : FewKeys(answers[q])

\* The version that reads an audit is one of the versions.
LEMMA ResolvedIsAnEdition ==
  ASSUME ScoreInv
  PROVE  Resolved \in Editions
BY EditionAssumption DEF ScoreInv, ScoreTypeOK, Resolved, EditionAssumption

LEMMA ScoreInitHolds ==
  ASSUME ScoreInit
  PROVE  ScoreInv
<1>1. \A q \in QuestionKeys : DOMAIN answers[q] = {}
  BY DEF ScoreInit
<1>2. ScoreTypeOK
  BY <1>1 DEF ScoreInit, ScoreTypeOK, NotScored
<1>3. QED
  BY <1>1, <1>2 DEF ScoreInit, ScoreInv, FewKeys

\* What is offered is one key or several, of company at most three.
LEMMA OfferedAnswers ==
  ASSUME NEW v \in Editions, NEW q \in DOMAIN Edition[v], NEW s \in Scales \cup {"checklist"},
         s # "checklist" => s \in DOMAIN Edition[v][q].scales,
         NEW value \in Offered(Edition[v][q], s)
  PROVE  value.list \in BOOLEAN /\ (s = "sociability" => Cardinality(value.keys) \in 0..3)
<1> DEFINE question == Edition[v][q]
<1>1. CASE s = "checklist"
  <2>1. value = Several({"ticked"})
    BY <1>1 DEF Offered
  <2>2. value.list = TRUE
    BY <2>1 DEF Several
  <2>3. QED
    BY <1>1, <2>2
<1>2. CASE s # "checklist" /\ question.scales[s].multiple
  <2>1. PICK keys \in SUBSET Keys(question, s) : value = Several(keys)
    BY <1>2 DEF Offered
  <2>2. value.list = TRUE /\ value.keys = keys
    BY <2>1 DEF Several
  <2>3. IsFiniteSet(SociabilityKeys) /\ Cardinality(SociabilityKeys) <= 3
    <3>1. IsFiniteSet({"play_alone"}) /\ Cardinality({"play_alone"}) = 1
      BY FS_Singleton
    <3>2. /\ IsFiniteSet({"play_alone"} \cup {"small_group"})
          /\ Cardinality({"play_alone"} \cup {"small_group"}) <= 2
      BY <3>1, FS_AddElement
    <3>3. /\ IsFiniteSet(({"play_alone"} \cup {"small_group"}) \cup {"large_group"})
          /\ Cardinality(({"play_alone"} \cup {"small_group"}) \cup {"large_group"}) <= 3
      <4>1. Cardinality({"play_alone"} \cup {"small_group"}) \in Nat
        BY <3>2, FS_CardinalityType
      <4>2. QED
        BY <3>2, <4>1, FS_AddElement
    <3>4. SociabilityKeys = ({"play_alone"} \cup {"small_group"}) \cup {"large_group"}
      BY DEF SociabilityKeys
    <3>5. QED
      BY <3>3, <3>4
  <2>4. CASE s = "sociability"
    <3>1. keys \subseteq SociabilityKeys
      BY <1>2, <2>1, <2>4, EditionAssumption DEF EditionAssumption
    <3>2. Cardinality(keys) \in Nat /\ Cardinality(keys) <= Cardinality(SociabilityKeys)
      BY <3>1, <2>3, FS_Subset, FS_CardinalityType
    <3>3. Cardinality(keys) \in 0..3
      BY <2>3, <3>2, FS_CardinalityType
    <3>4. QED
      BY <2>2, <3>3
  <2>5. CASE s # "sociability"
    BY <2>2, <2>5
  <2>6. QED
    BY <2>4, <2>5
<1>3. CASE s # "checklist" /\ ~question.scales[s].multiple
  <2>1. PICK key : value = One(key)
    BY <1>3 DEF Offered
  <2>2. value.list = FALSE /\ value.keys = {key}
    BY <2>1 DEF One
  <2>3. Cardinality({key}) = 1
    BY FS_Singleton
  <2>4. Cardinality(value.keys) = 1
    BY <2>2, <2>3
  <2>5. 1 \in 0..3
    OBVIOUS
  <2>6. Cardinality(value.keys) \in 0..3
    BY <2>4, <2>5, Zenon
  <2>7. value.list \in BOOLEAN
    BY <2>2, Zenon
  <2>8. QED
    BY <2>6, <2>7, Zenon
<1>4. QED
  BY <1>1, <1>2, <1>3

\* One question's answers change.
LEMMA AnswersChange ==
  ASSUME ScoreInv, NEW q \in QuestionKeys, NEW given, answers' = [answers EXCEPT ![q] = given],
         \A s \in DOMAIN given : s \in Scales \cup {"checklist"} /\ given[s].list \in BOOLEAN,
         FewKeys(given), UNCHANGED <<stored, active, stamp, mode, spaceSetUp, scored>>
  PROVE  ScoreInv'
<1>1. answers' = [m \in QuestionKeys |-> IF m = q THEN given ELSE answers[m]]
  BY DEF ScoreInv
<1>2. QED
  BY <1>1 DEF ScoreInv, ScoreTypeOK

LEMMA ScoreStep ==
  ASSUME ScoreInv, ScoreNext
  PROVE  ScoreInv'
<1>0. OnDisk \in Editions /\ NoEdition \notin Editions
  BY EditionAssumption DEF EditionAssumption
<1>1. ASSUME NEW m \in Modes, BeginAudit(m)
      PROVE  ScoreInv'
  BY <1>0, <1>1 DEF BeginAudit, ScoreInv, ScoreTypeOK
<1>2. ASSUME NEW m \in Modes, NEW complete \in BOOLEAN, SetUpSpace(m, complete)
      PROVE  ScoreInv'
  BY <1>2 DEF SetUpSpace, ScoreInv, ScoreTypeOK
<1>3. ASSUME NEW v \in stored \cup {OnDisk}, NEW q \in DOMAIN Edition[v],
             NEW s \in (IF Edition[v][q].type = "checklist" THEN {"checklist"}
                        ELSE DOMAIN Edition[v][q].scales),
             (\E value \in Offered(Edition[v][q], s) : AnswerScale(q, s, value)) \/ Withdraw(q, s)
      PROVE  ScoreInv'
  <2>1. v \in Editions /\ q \in QuestionKeys
    BY <1>0 DEF ScoreInv, ScoreTypeOK, QuestionKeys, Editions
  <2>2. s \in Scales \cup {"checklist"}
    BY <2>1, EditionAssumption DEF EditionAssumption
  <2>3. \A t \in DOMAIN answers[q] : t \in Scales \cup {"checklist"} /\ answers[q][t].list \in BOOLEAN
    BY <2>1 DEF ScoreInv, ScoreTypeOK
  <2>4. ASSUME NEW value \in Offered(Edition[v][q], s), AnswerScale(q, s, value)
        PROVE  ScoreInv'
    <3> DEFINE given == [t \in DOMAIN answers[q] \cup {s} |-> IF t = s THEN value ELSE answers[q][t]]
    <3>1. value.list \in BOOLEAN /\ (s = "sociability" => Cardinality(value.keys) \in 0..3)
      BY <2>1, <2>2, <2>4, OfferedAnswers
    <3>2. answers' = [answers EXCEPT ![q] = given]
      BY <2>1, <2>4 DEF AnswerScale, ScoreInv
    <3>3. \A t \in DOMAIN given : t \in Scales \cup {"checklist"} /\ given[t].list \in BOOLEAN
      BY <2>2, <2>3, <3>1
    <3>4. UNCHANGED <<stored, active, stamp, mode, spaceSetUp, scored>>
      BY <2>4 DEF AnswerScale
    <3>5. FewKeys(given)
      BY <2>1, <3>1 DEF FewKeys, ScoreInv
    <3> HIDE DEF given
    <3>6. QED
      BY <2>1, <3>2, <3>3, <3>4, <3>5, AnswersChange
  <2>5. ASSUME Withdraw(q, s)
        PROVE  ScoreInv'
    <3> DEFINE given == [t \in DOMAIN answers[q] \ {s} |-> answers[q][t]]
    <3>1. answers' = [answers EXCEPT ![q] = given]
      BY <2>1, <2>5 DEF Withdraw, ScoreInv
    <3>2. \A t \in DOMAIN given : t \in Scales \cup {"checklist"} /\ given[t].list \in BOOLEAN
      BY <2>3
    <3>3. UNCHANGED <<stored, active, stamp, mode, spaceSetUp, scored>>
      BY <2>5 DEF Withdraw
    <3>4. FewKeys(given)
      BY <2>1 DEF FewKeys, ScoreInv
    <3> HIDE DEF given
    <3>5. QED
      BY <2>1, <3>1, <3>2, <3>3, <3>4, AnswersChange
  <2>6. QED
    BY <1>3, <2>4, <2>5
<1>4. ASSUME SubmitAudit
      PROVE  ScoreInv'
  <2>1. stamp \in Editions
    BY <1>4 DEF SubmitAudit, Draft, ScoreInv, ScoreTypeOK
  <2>2. Resolved \in Editions
    BY <2>1, ResolvedIsAnEdition
  <2>3. scored'.version = Resolved /\ stamp' = Resolved
    BY <1>4 DEF SubmitAudit, Score
  <2>4. UNCHANGED <<stored, active, mode, spaceSetUp, answers>>
    BY <1>4 DEF SubmitAudit
  <2>5. QED
    BY <2>2, <2>3, <2>4 DEF ScoreInv, ScoreTypeOK
<1>5. ASSUME NEW v \in Editions, PublishEdition(v) \/ DeleteEdition(v)
      PROVE  ScoreInv'
  BY <1>5 DEF PublishEdition, DeleteEdition, ScoreInv, ScoreTypeOK
<1>6. ASSUME WithdrawEdition
      PROVE  ScoreInv'
  BY <1>6 DEF WithdrawEdition, ScoreInv, ScoreTypeOK
<1>7. QED
  BY <1>1, <1>2, <1>3, <1>4, <1>5, <1>6 DEF ScoreNext

\* What is stored of an audit has its type in every state.
LEMMA ScoreInvariant == ScoreSpec => []ScoreInv
<1>1. ScoreInv /\ [ScoreNext]_scoreVars => ScoreInv'
  <2>1. ScoreInv /\ UNCHANGED scoreVars => ScoreInv'
    BY DEF ScoreInv, ScoreTypeOK, FewKeys, scoreVars
  <2>2. QED
    BY <2>1, ScoreStep
<1>2. QED
  BY <1>1, ScoreInitHolds, PTL DEF ScoreSpec

-----------------------------------------------------------------------------
(* Playspace: the readings of Unsure *)

\* A finite set of numbers that is not empty has a greatest one.
LEMMA GreatestNumber ==
  ASSUME NEW T, T \subseteq Int, T # {}, IsFiniteSet(T)
  PROVE  Max(T) \in T /\ \A m \in T : m <= Max(T)
<1> DEFINE HasMax(s) == \E x \in s : \A y \in s : y <= x
           S == {n \in Nat : \A s \in SUBSET T : s # {} /\ Cardinality(s) = n => HasMax(s)}
<1>0. \A s \in SUBSET T : IsFiniteSet(s) /\ Cardinality(s) \in Nat
  BY FS_Subset, FS_CardinalityType
<1>1. 0 \in S
  BY <1>0, FS_EmptySet
<1>2. ASSUME NEW n \in Nat, n \in S
      PROVE  n + 1 \in S
  <2>1. SUFFICES ASSUME NEW s \in SUBSET T, s # {}, Cardinality(s) = n + 1
                 PROVE  HasMax(s)
    OBVIOUS
  <2>2. PICK e \in s : TRUE
    BY <2>1
  <2>3. s \ {e} \in SUBSET T /\ Cardinality(s \ {e}) = n
    <3>1. IsFiniteSet(s)
      BY <2>1, <1>0
    <3>2. Cardinality(s \ {e}) = Cardinality(s) - 1
      BY <2>2, <3>1, FS_RemoveElement
    <3>3. QED
      BY <2>1, <3>2
  <2>4. CASE s \ {e} = {}
    BY <2>2, <2>4
  <2>5. CASE s \ {e} # {}
    <3>1. PICK x \in s \ {e} : \A y \in s \ {e} : y <= x
      BY <1>2, <2>3, <2>5
    <3>2. CASE e <= x
      BY <3>1, <3>2
    <3>3. CASE ~(e <= x)
      BY <3>1, <3>3, <2>2
    <3>4. QED
      BY <3>2, <3>3
  <2>6. QED
    BY <2>4, <2>5
<1>3. \A n \in Nat : n \in S
  <2> HIDE DEF S
  <2>1. QED
    BY <1>1, <1>2, AllNumbers
<1>4. HasMax(T)
  BY <1>0, <1>3
<1>5. \E x \in T : \A y \in T : x >= y
  BY <1>4
<1>6. Max(T) \in T /\ \A y \in T : Max(T) >= y
  BY <1>5, Zenon DEF Max
<1>7. QED
  BY <1>6

\* The best of finitely many values.
LEMMA BestOf ==
  ASSUME NEW V, V \subseteq Int, IsFiniteSet(V), NEW least \in Nat
  PROVE  Best(V, least) \in Nat /\ Best(V, least) >= least /\ \A x \in V : x <= Best(V, least)
<1>1. V \cup {least} \subseteq Int /\ V \cup {least} # {} /\ IsFiniteSet(V \cup {least})
  BY FS_AddElement
<1> DEFINE T == V \cup {least}
<1>2. Best(V, least) = Max(T)
  BY DEF Best
<1>3. T \subseteq Int /\ T # {} /\ IsFiniteSet(T) /\ V \subseteq T /\ least \in T
  BY <1>1
<1> HIDE DEF T
<1>4. Max(T) \in T /\ \A m \in T : m <= Max(T)
  BY <1>3, GreatestNumber
<1>5. Best(V, least) \in Int /\ \A m \in T : m <= Best(V, least)
  BY <1>2, <1>3, <1>4
<1>6. least <= Best(V, least) /\ \A x \in V : x <= Best(V, least)
  BY <1>3, <1>5, Zenon
<1>7. QED
  BY <1>5, <1>6

\* What a number and its multipliers are bounded by bounds their product.
LEMMA ProductBound ==
  ASSUME NEW a \in Nat, NEW b \in Nat, NEW x \in Nat, NEW y \in Nat, a <= x, b <= y
  PROVE  a * b \in Nat /\ a * b <= x * y
<1>1. a * b <= x * b
  <2>1. (x - a) \in Nat
    OBVIOUS
  <2>2. (x - a) * b \in Nat
    BY <2>1
  <2>3. x * b = a * b + (x - a) * b
    BY <2>1
  <2>4. QED
    BY <2>2, <2>3
<1>2. x * b <= x * y
  <2>1. (y - b) \in Nat
    OBVIOUS
  <2>2. x * (y - b) \in Nat
    BY <2>1
  <2>3. x * y = x * b + x * (y - b)
    BY <2>1
  <2>4. QED
    BY <2>2, <2>3
<1>3. QED
  BY <1>1, <1>2

LEMMA ProductsBound ==
  ASSUME NEW a \in Nat, NEW b \in Nat, NEW c \in Nat, NEW x \in Nat, NEW y \in Nat, NEW z \in Nat,
         a <= x, b <= y, c <= z
  PROVE  a * b * c \in Nat /\ a * b * c <= x * y * z
<1>1. a * b \in Nat /\ x * y \in Nat /\ a * b <= x * y
  BY ProductBound
<1>2. QED
  BY <1>1, ProductBound

\* What EditionAssumption says of a question that measures.
SoundScale(scale) ==
  /\ IsFiniteSet(scale.options)
  /\ \A o \in scale.options :
       /\ o.add \in Nat /\ o.boost \in Nat \ {0} /\ o.kind \in {"plain", "unsure", "na"}
       /\ o.kind # "plain" => o.add = 0 /\ ~o.more
SoundQuestion(question) == \A s \in DOMAIN question.scales : SoundScale(question.scales[s])

LEMMA QuestionsAreSound ==
  ASSUME NEW v \in Editions, NEW q \in DOMAIN Edition[v], Measures(Edition[v][q])
  PROVE  SoundQuestion(Edition[v][q])
BY EditionAssumption DEF EditionAssumption, Measures, SoundQuestion, SoundScale

\* The best that a scale can give.
Mosts == [total : Nat, boost : Nat \ {0}]
LEMMA MostIsMost ==
  ASSUME NEW question, SoundQuestion(question), NEW s
  PROVE  /\ MostOf(question, s) \in Mosts
         /\ s \in DOMAIN question.scales =>
              \A o \in Candidates(question, s) :
                 /\ Column(o) \in Nat /\ o.boost \in Nat
                 /\ Column(o) <= MostOf(question, s).total /\ o.boost <= MostOf(question, s).boost
<1>1. CASE s \notin DOMAIN question.scales
  BY <1>1 DEF MostOf, Mosts
<1>2. CASE s \in DOMAIN question.scales
  <2> DEFINE C == Candidates(question, s)
             T == {Column(o) : o \in C}
             B == {o.boost : o \in C}
  <2>1. IsFiniteSet(C) /\ \A o \in C : o.add \in Nat /\ o.boost \in Nat \ {0}
    <3>1. C \subseteq question.scales[s].options
      BY DEF Candidates
    <3>2. QED
      BY <1>2, <3>1, FS_Subset DEF SoundQuestion, SoundScale
  <2>2. \A o \in C : Column(o) \in Nat
    <3>1. SUFFICES ASSUME NEW o \in C PROVE Column(o) \in Nat
      OBVIOUS
    <3>2. o.add \in Nat
      BY <2>1
    <3>3. CASE o.add = 0
      <4>1. Max({o.add - 1} \cup {0}) = 0
        <5>1. \A x \in {o.add - 1} \cup {0} : 0 >= x
          BY <3>3
        <5>2. \A x \in {o.add - 1} \cup {0} : x >= 0 => x = 0
          BY <3>3
        <5>3. QED
          BY <5>1, <5>2, Zenon DEF Max
      <4>2. QED
        BY <4>1 DEF Column, Best
    <3>4. CASE o.add # 0
      <4>1. {o.add - 1} \subseteq Nat
        BY <3>2, <3>4
      <4>2. IsFiniteSet({o.add - 1})
        BY FS_Singleton
      <4>3. QED
        BY <4>1, <4>2, BestOf DEF Column
    <3>5. QED
      BY <3>3, <3>4
  <2>3. T \subseteq Nat /\ B \subseteq Nat
    BY <2>1, <2>2
  <2>4. IsFiniteSet(T) /\ IsFiniteSet(B)
    <3>1. [o \in C |-> Column(o)] \in Surjection(C, T)
      BY DEF Surjection
    <3>2. [o \in C |-> o.boost] \in Surjection(C, B)
      BY DEF Surjection
    <3> HIDE DEF C, T, B
    <3>3. QED
      BY <2>1, <3>1, <3>2, FS_Surjection
  <2>5. MostOf(question, s) = [total |-> Best(T, 0), boost |-> Best(B, 1)]
    BY <1>2 DEF MostOf
  <2>6. /\ Best(T, 0) \in Nat /\ \A x \in T : x <= Best(T, 0)
        /\ Best(B, 1) \in Nat /\ Best(B, 1) >= 1 /\ \A x \in B : x <= Best(B, 1)
    <3> HIDE DEF T, B
    <3>1. T \subseteq Int /\ B \subseteq Int
      BY <2>3
    <3>2. QED
      BY <2>4, <3>1, BestOf
  <2>7. MostOf(question, s) \in Mosts
    <3> HIDE DEF T, B
    <3>1. QED
      BY <2>5, <2>6 DEF Mosts
  <2>8. \A o \in C : Column(o) \in T /\ o.boost \in B
    OBVIOUS
  <2>9. \A o \in C : Column(o) <= MostOf(question, s).total /\ o.boost <= MostOf(question, s).boost
    <3> HIDE DEF T, B, C
    <3>1. QED
      BY <2>5, <2>6, <2>8
  <2>10. QED
    BY <2>1, <2>2, <2>7, <2>9
<1>3. QED
  BY <1>1, <1>2

\* What a follow-up gives when Unsure is excluded, zero and the maximum.
IsReading(r) == /\ r.total \in Nat /\ r.boost \in Nat \ {0} /\ r.most \in Mosts
                /\ r.total <= r.most.total /\ r.boost <= r.most.boost
ReadingsInOrder(e, z, m) ==
  /\ IsReading(e) /\ IsReading(z) /\ IsReading(m)
  /\ e.total = z.total /\ z.total <= m.total /\ e.boost = z.boost /\ z.boost <= m.boost
  /\ e.most.total <= z.most.total /\ e.most.boost <= z.most.boost /\ m.most = z.most

LEMMA FollowUpsInOrder ==
  ASSUME NEW question, SoundQuestion(question), NEW given, NEW s
  PROVE  ReadingsInOrder(FollowUp(question, given, s, "excluded"),
                         FollowUp(question, given, s, "zero"), FollowUp(question, given, s, "max"))
<1> DEFINE most == MostOf(question, s)
           none == [total |-> 0, boost |-> 1]
           C == Chosen(question, given, s)
           o == CHOOSE o \in C : TRUE
           F(policy) == FollowUp(question, given, s, policy)
<1>1. most \in Mosts /\ most.total \in Nat /\ most.boost \in Nat /\ most.boost >= 1
  BY MostIsMost DEF Mosts
<1>2. none \in Mosts
  BY DEF Mosts
<1>3. CASE C = {}
  <2>1. \A policy : F(policy) = [total |-> 0, boost |-> 1, most |-> most]
    BY <1>3 DEF FollowUp
  <2> HIDE DEF most, none, F
  <2>2. QED
    BY <1>1, <2>1 DEF ReadingsInOrder, IsReading, F
<1>4. CASE C # {}
  <2>1. o \in C
    BY <1>4
  <2>2. s \in DOMAIN question.scales /\ o \in question.scales[s].options
    BY <2>1 DEF Chosen
  <2>3. o.add \in Nat /\ o.boost \in Nat \ {0} /\ o.kind \in {"plain", "unsure", "na"}
    <3> HIDE DEF o, C
    <3>1. QED
      BY <2>2 DEF SoundQuestion, SoundScale
  <2>4. CASE o.kind = "na"
    <3>1. \A policy : F(policy) = [total |-> 0, boost |-> 1, most |-> none]
      BY <1>4, <2>4 DEF FollowUp, Excluding
    <3> HIDE DEF most, none, F, o, C
    <3>2. QED
      BY <1>2, <3>1 DEF ReadingsInOrder, IsReading, F, none
  <2>5. CASE o.kind = "unsure"
    <3>1. F("excluded") = [total |-> 0, boost |-> 1, most |-> none]
      BY <1>4, <2>5 DEF FollowUp, Excluding
    <3>2. F("zero") = [total |-> 0, boost |-> 1, most |-> most]
      BY <1>4, <2>5 DEF FollowUp, Excluding
    <3>3. F("max") = [total |-> most.total, boost |-> most.boost, most |-> most]
      BY <1>4, <2>5 DEF FollowUp, Excluding
    <3> HIDE DEF most, F, o, C
    <3>4. QED
      BY <1>1, <1>2, <3>1, <3>2, <3>3 DEF ReadingsInOrder, IsReading, F, Mosts
  <2>6. CASE o.kind = "plain"
    <3> DEFINE boost == IF o.add <= 0 THEN 1 ELSE o.boost
    <3>1. \A policy : F(policy) = [total |-> Column(o), boost |-> boost, most |-> most]
      BY <1>4, <2>6 DEF FollowUp, Excluding
    <3>2. o \in Candidates(question, s)
      BY <2>2, <2>6 DEF Candidates
    <3>3. Column(o) \in Nat /\ Column(o) <= most.total /\ o.boost <= most.boost
      <4> HIDE DEF o
      <4>1. QED
        BY <2>2, <3>2, MostIsMost
    <3>4. boost \in Nat \ {0} /\ boost <= most.boost
      <4> HIDE DEF o, most
      <4>1. QED
        BY <1>1, <2>3, <3>3
    <3> HIDE DEF most, F, o, C, boost
    <3>5. QED
      BY <1>1, <3>1, <3>3, <3>4 DEF ReadingsInOrder, IsReading, F
  <2>7. QED
    BY <2>3, <2>4, <2>5, <2>6
<1>5. QED
  BY <1>3, <1>4

\* A tally, and the three readings of one question or bucket.
Tallies == [total : [Columns -> Nat], max : [Columns -> Nat]]
Ranked(e, z, m) == \A c \in Columns :
  /\ 0 <= e.total[c] /\ e.total[c] = z.total[c] /\ z.total[c] <= m.total[c]
  /\ e.total[c] <= e.max[c] /\ e.max[c] <= z.max[c]
  /\ m.total[c] <= m.max[c] /\ m.max[c] = z.max[c]
TalliesInOrder(e, z, m) == e \in Tallies /\ z \in Tallies /\ m \in Tallies /\ Ranked(e, z, m)

LEMMA NoughtsInOrder == TalliesInOrder(Nought, Nought, Nought)
BY DEF TalliesInOrder, Tallies, Ranked, Nought

\* Shares of sociability, in order.
SharesInOrder(e, z, m) ==
  /\ e.total \in Nat /\ e.max \in Nat /\ z.total \in Nat /\ z.max \in Nat
  /\ m.total \in Nat /\ m.max \in Nat
  /\ e.total = z.total /\ z.total <= m.total /\ e.total <= e.max /\ e.max <= z.max
  /\ m.total <= m.max /\ m.max = z.max

MostProvided(question) == Best({o.add : o \in Candidates(question, "provision")}, 0)

\* t is the tally of provision p, variety v, challenge h and sociability x.
Columned(question, t, p, v, h, x) ==
  /\ t \in Tallies
  /\ t.total["provision"] = p /\ t.max["provision"] = MostProvided(question)
  /\ t.total["variety"] = v.total /\ t.max["variety"] = v.most.total
  /\ t.total["challenge"] = h.total /\ t.max["challenge"] = h.most.total
  /\ t.total["sociability"] = x.total /\ t.max["sociability"] = x.max
  /\ \A c \in {"play_value", "usability"} :
       IF c \in question.constructs
       THEN /\ t.total[c] = p * v.boost * h.boost
            /\ t.max[c] = MostProvided(question) * v.most.boost * h.most.boost
       ELSE t.total[c] = 0 /\ t.max[c] = 0

LEMMA TallyColumns ==
  ASSUME NEW question, MostProvided(question) \in Nat, NEW p \in Nat,
         NEW v, IsReading(v), NEW h, IsReading(h), NEW x, x.total \in Nat, x.max \in Nat
  PROVE  Columned(question, Tally(question, p, v, h, x), p, v, h, x)
<1> DEFINE most == MostProvided(question)
           construct(name) ==
             IF name \notin question.constructs THEN [total |-> 0, max |-> 0]
             ELSE [total |-> p * v.boost * h.boost, max |-> most * v.most.boost * h.most.boost]
           column(c) ==
             CASE c = "provision" -> [total |-> p, max |-> most]
               [] c = "variety" -> [total |-> v.total, max |-> v.most.total]
               [] c = "challenge" -> [total |-> h.total, max |-> h.most.total]
               [] c = "sociability" -> x
               [] OTHER -> construct(c)
           t == Tally(question, p, v, h, x)
<1>1. t = [total |-> [c \in Columns |-> column(c).total], max |-> [c \in Columns |-> column(c).max]]
  BY DEF Tally, MostProvided
<1>2. /\ v.total \in Nat /\ v.most.total \in Nat /\ h.total \in Nat /\ h.most.total \in Nat
      /\ p * v.boost * h.boost \in Nat /\ most * v.most.boost * h.most.boost \in Nat
  BY DEF IsReading, Mosts
<1>3. /\ column("provision") = [total |-> p, max |-> most]
      /\ column("variety") = [total |-> v.total, max |-> v.most.total]
      /\ column("challenge") = [total |-> h.total, max |-> h.most.total]
      /\ column("sociability") = x
  OBVIOUS
<1>4. \A c \in {"play_value", "usability"} : column(c) = construct(c)
  OBVIOUS
<1>5. \A c \in {"play_value", "usability"} : construct(c).total \in Nat /\ construct(c).max \in Nat
  BY <1>2
<1>6. \A c \in Columns : c \in {"provision", "variety", "challenge", "sociability"} \cup {"play_value", "usability"}
  BY DEF Columns, Scales
<1>7. /\ \A c \in Columns : t.total[c] = column(c).total /\ t.max[c] = column(c).max
      /\ {"provision", "variety", "challenge", "sociability", "play_value", "usability"} \subseteq Columns
  BY <1>1 DEF Columns, Scales
<1>8. \A c \in Columns : column(c).total \in Nat /\ column(c).max \in Nat
  <2>1. SUFFICES ASSUME NEW c \in Columns
                 PROVE  column(c).total \in Nat /\ column(c).max \in Nat
    OBVIOUS
  <2>2. CASE c \in {"play_value", "usability"}
    <3> HIDE DEF column, construct
    <3>1. QED
      BY <2>2, <1>4, <1>5
  <2>3. CASE c \in {"provision", "variety", "challenge", "sociability"}
    <3> HIDE DEF column
    <3>1. QED
      BY <2>3, <1>2, <1>3
  <2>4. QED
    BY <2>2, <2>3, <1>6
<1>9. t \in Tallies
  <2> HIDE DEF column
  <2>1. [c \in Columns |-> column(c).total] \in [Columns -> Nat]
    BY <1>8
  <2>2. [c \in Columns |-> column(c).max] \in [Columns -> Nat]
    BY <1>8
  <2>3. QED
    BY <1>1, <2>1, <2>2 DEF Tallies
<1>10. \A c \in {"play_value", "usability"} :
          IF c \in question.constructs
          THEN construct(c).total = p * v.boost * h.boost /\ construct(c).max = most * v.most.boost * h.most.boost
          ELSE construct(c).total = 0 /\ construct(c).max = 0
  OBVIOUS
<1>11. \A c \in {"play_value", "usability"} : t.total[c] = construct(c).total /\ t.max[c] = construct(c).max
  <2> HIDE DEF t, column, construct
  <2>1. QED
    BY <1>4, <1>7
<1>12. /\ t.total["provision"] = p /\ t.max["provision"] = most
       /\ t.total["variety"] = v.total /\ t.max["variety"] = v.most.total
       /\ t.total["challenge"] = h.total /\ t.max["challenge"] = h.most.total
       /\ t.total["sociability"] = x.total /\ t.max["sociability"] = x.max
  <2> HIDE DEF t, column
  <2>1. QED
    BY <1>3, <1>7
<1> HIDE DEF construct, column
<1>13. QED
  BY <1>9, <1>10, <1>11, <1>12 DEF Columned

\* Readings in order give tallies in order.
LEMMA TalliesOfReadings ==
  ASSUME NEW question, MostProvided(question) \in Nat,
         NEW pe \in Nat, NEW pz \in Nat, NEW pm \in Nat, pe = pz, pz <= pm, pm <= MostProvided(question),
         NEW ve, NEW vz, NEW vm, ReadingsInOrder(ve, vz, vm),
         NEW he, NEW hz, NEW hm, ReadingsInOrder(he, hz, hm),
         NEW xe, NEW xz, NEW xm, SharesInOrder(xe, xz, xm)
  PROVE  TalliesInOrder(Tally(question, pe, ve, he, xe), Tally(question, pz, vz, hz, xz),
                        Tally(question, pm, vm, hm, xm))
<1> DEFINE e == Tally(question, pe, ve, he, xe)
           z == Tally(question, pz, vz, hz, xz)
           m == Tally(question, pm, vm, hm, xm)
           most == MostProvided(question)
           Ordered(c) == /\ 0 <= e.total[c] /\ e.total[c] = z.total[c] /\ z.total[c] <= m.total[c]
                         /\ e.total[c] <= e.max[c] /\ e.max[c] <= z.max[c]
                         /\ m.total[c] <= m.max[c] /\ m.max[c] = z.max[c]
<1>1. /\ IsReading(ve) /\ IsReading(vz) /\ IsReading(vm) /\ IsReading(he) /\ IsReading(hz) /\ IsReading(hm)
      /\ xe.total \in Nat /\ xe.max \in Nat /\ xz.total \in Nat /\ xz.max \in Nat
      /\ xm.total \in Nat /\ xm.max \in Nat
  BY DEF ReadingsInOrder, SharesInOrder
<1>2. Columned(question, e, pe, ve, he, xe)
  BY <1>1, TallyColumns
<1>3. Columned(question, z, pz, vz, hz, xz)
  BY <1>1, TallyColumns
<1>4. Columned(question, m, pm, vm, hm, xm)
  BY <1>1, TallyColumns
<1>5. most \in Nat
  OBVIOUS
<1> HIDE DEF e, z, m, most
<1>6. Ordered("provision")
  BY <1>2, <1>3, <1>4, <1>5 DEF most, Columned
<1>7. Ordered("variety")
  BY <1>1, <1>2, <1>3, <1>4 DEF ReadingsInOrder, IsReading, Mosts, Columned
<1>8. Ordered("challenge")
  BY <1>1, <1>2, <1>3, <1>4 DEF ReadingsInOrder, IsReading, Mosts, Columned
<1>9. Ordered("sociability")
  BY <1>1, <1>2, <1>3, <1>4 DEF SharesInOrder, Columned
<1>10. ASSUME NEW c \in {"play_value", "usability"}
       PROVE  Ordered(c)
  <2>1. CASE c \notin question.constructs
    BY <2>1, <1>2, <1>3, <1>4 DEF Columned
  <2>2. CASE c \in question.constructs
    <3>1. /\ ve.boost \in Nat /\ vm.boost \in Nat /\ he.boost \in Nat /\ hm.boost \in Nat
          /\ ve.most.boost \in Nat /\ vm.most.boost \in Nat /\ he.most.boost \in Nat /\ hm.most.boost \in Nat
          /\ ve.boost <= vm.boost /\ he.boost <= hm.boost
          /\ ve.boost <= ve.most.boost /\ he.boost <= he.most.boost
          /\ vm.boost <= vm.most.boost /\ hm.boost <= hm.most.boost
          /\ ve.most.boost <= vm.most.boost /\ he.most.boost <= hm.most.boost
          /\ vz.boost = ve.boost /\ hz.boost = he.boost
          /\ vz.most.boost = vm.most.boost /\ hz.most.boost = hm.most.boost
      BY <1>1 DEF ReadingsInOrder, IsReading, Mosts
    <3>2. pe <= most /\ pm <= most /\ most <= most
      BY <1>5 DEF most
    <3>3. pe * ve.boost * he.boost \in Nat /\ pe * ve.boost * he.boost <= pm * vm.boost * hm.boost
      BY <3>1, ProductsBound
    <3>4. pe * ve.boost * he.boost <= most * ve.most.boost * he.most.boost
      BY <3>1, <3>2, <1>5, ProductsBound
    <3>5. most * ve.most.boost * he.most.boost <= most * vm.most.boost * hm.most.boost
      BY <3>1, <3>2, <1>5, ProductsBound
    <3>6. pm * vm.boost * hm.boost <= most * vm.most.boost * hm.most.boost
      BY <3>1, <3>2, <1>5, ProductsBound
    <3>7. /\ e.total[c] = pe * ve.boost * he.boost /\ e.max[c] = most * ve.most.boost * he.most.boost
          /\ z.total[c] = pe * ve.boost * he.boost /\ z.max[c] = most * vm.most.boost * hm.most.boost
          /\ m.total[c] = pm * vm.boost * hm.boost /\ m.max[c] = most * vm.most.boost * hm.most.boost
      BY <2>2, <3>1, <1>2, <1>3, <1>4 DEF most, Columned
    <3>8. 0 <= e.total[c]
      BY <3>3, <3>7
    <3>9. QED
      BY <3>3, <3>4, <3>5, <3>6, <3>7, <3>8
  <2>3. QED
    BY <2>1, <2>2
<1>11. \A c \in Columns : Ordered(c)
  <2>1. \A c \in Columns : c \in {"provision", "variety", "challenge", "sociability"} \cup {"play_value", "usability"}
    BY DEF Columns, Scales
  <2> HIDE DEF Ordered
  <2>2. QED
    BY <1>6, <1>7, <1>8, <1>9, <1>10, <2>1
<1>12. e \in Tallies /\ z \in Tallies /\ m \in Tallies
  BY <1>2, <1>3, <1>4 DEF Columned
<1>13. TalliesInOrder(e, z, m)
  BY <1>11, <1>12 DEF TalliesInOrder, Ranked
<1>14. QED
  BY <1>13 DEF e, z, m

\* _score_question: the three readings of one question are in order.
LEMMA QuestionInOrder ==
  ASSUME NEW question, SoundQuestion(question), NEW given, FewKeys(given)
  PROVE  TalliesInOrder(QuestionScore(question, given, "excluded"),
                        QuestionScore(question, given, "zero"), QuestionScore(question, given, "max"))
<1> DEFINE Q(policy) == QuestionScore(question, given, policy)
           C == Chosen(question, given, "provision")
           p == CHOOSE p \in C : TRUE
           best == MostProvided(question)
           full(s) == LET m == MostOf(question, s) IN [total |-> m.total, boost |-> m.boost, most |-> m]
           none(s) == [total |-> 0, boost |-> 1, most |-> MostOf(question, s)]
           F(s, policy) == FollowUp(question, given, s, policy)
           X(policy) == Sociable(question, given, policy)
           ms == MostSociable(question)
<1>1. CASE question.type # "scaled" \/ C = {}
  <2>1. \A policy : Q(policy) = Nought
    BY <1>1 DEF QuestionScore
  <2> HIDE DEF Q
  <2>2. TalliesInOrder(Q("excluded"), Q("zero"), Q("max"))
    BY <2>1, NoughtsInOrder
  <2>3. QED
    BY <2>2 DEF Q
<1>2. CASE question.type = "scaled" /\ C # {}
  <2>1. p \in C
    BY <1>2
  <2>2. "provision" \in DOMAIN question.scales /\ p \in question.scales["provision"].options
    BY <2>1 DEF Chosen
  <2>3. /\ p.add \in Nat /\ p.kind \in {"plain", "unsure", "na"}
        /\ p.kind # "plain" => p.add = 0 /\ ~p.more
    <3> HIDE DEF p, C
    <3>1. QED
      BY <2>2 DEF SoundQuestion, SoundScale
  <2>4. best \in Nat /\ (p.kind = "plain" => p.add <= best)
    <3> DEFINE D == Candidates(question, "provision")
               A == {o.add : o \in D}
    <3>1. D \subseteq question.scales["provision"].options
      BY DEF Candidates
    <3>2. IsFiniteSet(D) /\ \A o \in D : o.add \in Nat
      BY <2>2, <3>1, FS_Subset DEF SoundQuestion, SoundScale
    <3>3. A \subseteq Nat
      BY <3>2
    <3>4. IsFiniteSet(A)
      <4>1. [o \in D |-> o.add] \in Surjection(D, A)
        BY DEF Surjection
      <4> HIDE DEF D, A
      <4>2. QED
        BY <3>2, <4>1, FS_Surjection
    <3>5. best = Best(A, 0)
      BY DEF MostProvided
    <3>6. p.kind = "plain" => p.add \in A
      <4> HIDE DEF p, C
      <4>1. p.kind = "plain" => p \in D
        BY <2>2 DEF Candidates
      <4>2. QED
        BY <4>1
    <3> HIDE DEF A, best, p, C
    <3>7. A \subseteq Int
      BY <3>3
    <3>8. QED
      BY <3>3, <3>4, <3>5, <3>6, <3>7, BestOf
  <2>5. \A s : MostOf(question, s) \in Mosts
    BY MostIsMost
  <2>6. ms \in Nat
    BY <2>5 DEF MostSociable, Mosts
  <2>7. \A s : ReadingsInOrder(none(s), none(s), none(s)) /\ ReadingsInOrder(none(s), none(s), full(s))
    BY <2>5 DEF ReadingsInOrder, IsReading, Mosts
  <2>8. CASE p.kind = "na"
    <3>1. \A policy : Q(policy) = Nought
      BY <1>2, <2>8 DEF QuestionScore, Excluding
    <3> HIDE DEF Q
    <3>2. TalliesInOrder(Q("excluded"), Q("zero"), Q("max"))
      BY <3>1, NoughtsInOrder
    <3>3. QED
      BY <3>2 DEF Q
  <2>9. CASE p.kind = "unsure"
    <3> DEFINE x == [total |-> 0, max |-> ms]
               y == [total |-> ms, max |-> ms]
               z == Tally(question, 0, none("variety"), none("challenge"), x)
               m == Tally(question, best, full("variety"), full("challenge"), y)
    <3>1. Q("excluded") = Nought
      BY <1>2, <2>9 DEF QuestionScore, Excluding
    <3>2. Q("max") = m
      BY <1>2, <2>9 DEF QuestionScore, Excluding, MostProvided
    <3>3. Q("zero") = z
      <4>1. p.add = 0 /\ ~p.more
        BY <2>3, <2>9
      <4>2. QED
        BY <1>2, <2>9, <4>1 DEF QuestionScore, Excluding
    <3>4. SharesInOrder(x, x, y)
      BY <2>6 DEF SharesInOrder
    <3>5. TalliesInOrder(z, z, m)
      <4> HIDE DEF best, none, full, x, y, z, m
      <4>1. best = MostProvided(question) /\ 0 <= best /\ best <= best
        BY <2>4 DEF best
      <4>2. QED
        BY <2>4, <2>7, <3>4, <4>1, TalliesOfReadings DEF z, m
    <3>6. \A c \in Columns : z.total[c] = 0
      <4>1. \A c \in Columns : c \in {"provision", "variety", "challenge", "sociability"} \cup {"play_value", "usability"}
        BY DEF Columns, Scales
      <4>2. IsReading(none("variety")) /\ IsReading(none("challenge"))
        <5> HIDE DEF none
        <5>1. QED
          BY <2>7 DEF ReadingsInOrder
      <4>3. /\ none("variety").total = 0 /\ none("variety").boost = 1
            /\ none("challenge").total = 0 /\ none("challenge").boost = 1
            /\ x.total = 0 /\ x.total \in Nat /\ x.max \in Nat
        BY <2>6
      <4> HIDE DEF none, x, z, best
      <4>4. /\ z.total["provision"] = 0 /\ z.total["variety"] = 0 /\ z.total["challenge"] = 0
            /\ z.total["sociability"] = 0
            /\ \A c \in {"play_value", "usability"} : z.total[c] = 0 * 1 * 1 \/ z.total[c] = 0
        <5>1. MostProvided(question) \in Nat /\ 0 \in Nat
          BY <2>4 DEF best
        <5>2. QED
          BY <4>2, <4>3, <5>1, TallyColumns DEF z, Columned
      <4>5. QED
        BY <4>1, <4>4
    <3> HIDE DEF z, m, Q
    <3>7. TalliesInOrder(Nought, z, m)
      BY <3>5, <3>6 DEF TalliesInOrder, Ranked, Nought, Tallies
    <3>8. TalliesInOrder(Q("excluded"), Q("zero"), Q("max"))
      BY <3>1, <3>2, <3>3, <3>7
    <3>9. QED
      BY <3>8 DEF Q
  <2>10. CASE p.kind = "plain" /\ p.more
    <3>1. \A policy : Q(policy) = Tally(question, p.add, F("variety", policy), F("challenge", policy), X(policy))
      BY <1>2, <2>10 DEF QuestionScore, Excluding
    <3>2. \A s : ReadingsInOrder(F(s, "excluded"), F(s, "zero"), F(s, "max"))
      BY FollowUpsInOrder
    <3>3. SharesInOrder(X("excluded"), X("zero"), X("max"))
      <4>1. CASE Multiple(question)
        <5> DEFINE n == IF "sociability" \in DOMAIN given THEN Cardinality(given["sociability"].keys) ELSE 0
        <5>1. n \in Nat /\ n <= 3
          BY DEF FewKeys
        <5>2. \A policy : X(policy) = [total |-> n, max |-> 3]
          BY <4>1 DEF Sociable
        <5> HIDE DEF n, X
        <5>3. QED
          BY <5>1, <5>2 DEF SharesInOrder
      <4>2. CASE ~Multiple(question)
        <5>1. \A policy : X(policy) = [total |-> F("sociability", policy).total,
                                       max |-> F("sociability", policy).most.total]
          BY <4>2 DEF Sociable
        <5> HIDE DEF X, F
        <5>2. QED
          BY <3>2, <5>1 DEF SharesInOrder, ReadingsInOrder, IsReading, Mosts
      <4>3. QED
        BY <4>1, <4>2
    <3> HIDE DEF F, X, p, Q, C
    <3>4. p.add \in Nat /\ p.add <= p.add /\ p.add <= MostProvided(question) /\ MostProvided(question) \in Nat
      BY <2>3, <2>4, <2>10
    <3>5. TalliesInOrder(Q("excluded"), Q("zero"), Q("max"))
      BY <3>1, <3>2, <3>3, <3>4, TalliesOfReadings
    <3>6. QED
      BY <3>5 DEF Q
  <2>11. CASE p.kind = "plain" /\ ~p.more
    <3> DEFINE x == [total |-> 0, max |-> IF Multiple(question) /\ p.kind # "unsure" THEN 0 ELSE ms]
    <3>1. \A policy : Q(policy) = Tally(question, p.add, none("variety"), none("challenge"), x)
      BY <1>2, <2>11 DEF QuestionScore, Excluding
    <3>2. SharesInOrder(x, x, x)
      BY <2>6 DEF SharesInOrder
    <3> HIDE DEF none, x, p, Q, C
    <3>3. p.add \in Nat /\ p.add <= p.add /\ p.add <= MostProvided(question) /\ MostProvided(question) \in Nat
      BY <2>3, <2>4, <2>11
    <3>4. TalliesInOrder(Q("excluded"), Q("zero"), Q("max"))
      BY <2>7, <3>1, <3>2, <3>3, TalliesOfReadings
    <3>5. QED
      BY <3>4 DEF Q
  <2>12. QED
    BY <2>3, <2>8, <2>9, <2>10, <2>11
<1>3. QED
  BY <1>1, <1>2

\* g is the running sum of the tallies f over the sets in U.
Tallied(g, f, U) == g = [s \in U |-> IF s = {} THEN Nought ELSE Plus(f[Taken(s)], g[s \ {Taken(s)}])]

\* Tallies of a finite set have a running sum over its subsets.
LEMMA RunningSum ==
  ASSUME NEW f, NEW D, IsFiniteSet(D)
  PROVE  \E g : Tallied(g, f, SUBSET D)
<1> DEFINE U(n) == {s \in SUBSET D : Cardinality(s) <= n}
           S == {n \in Nat : \E g : Tallied(g, f, U(n))}
<1>0. \A s \in SUBSET D : IsFiniteSet(s) /\ Cardinality(s) \in Nat
  BY FS_Subset, FS_CardinalityType
<1>1. 0 \in S
  <2> DEFINE g == [s \in U(0) |-> Nought]
  <2>1. \A s \in U(0) : s = {}
    BY <1>0, FS_EmptySet
  <2>2. Tallied(g, f, U(0))
    BY <2>1 DEF Tallied
  <2>3. QED
    BY <2>2
<1>2. ASSUME NEW n \in Nat, n \in S
      PROVE  n + 1 \in S
  <2>1. PICK g : Tallied(g, f, U(n))
    BY <1>2
  <2> DEFINE h == [s \in U(n + 1) |-> IF s = {} THEN Nought ELSE Plus(f[Taken(s)], g[s \ {Taken(s)}])]
  <2>2. \A s \in U(n + 1) : s # {} => s \ {Taken(s)} \in U(n)
    <3>1. SUFFICES ASSUME NEW s \in U(n + 1), s # {}
                   PROVE  s \ {Taken(s)} \in U(n)
      OBVIOUS
    <3>2. Taken(s) \in s
      BY <3>1 DEF Taken
    <3>3. Cardinality(s \ {Taken(s)}) = Cardinality(s) - 1
      BY <3>2, <1>0, FS_RemoveElement
    <3>4. QED
      BY <3>3, <1>0
  <2>3. \A s \in U(n) : h[s] = g[s]
    <3>1. U(n) \subseteq U(n + 1)
      BY <1>0
    <3>2. QED
      BY <2>1, <3>1, Zenon DEF Tallied
  <2>4. h = [s \in U(n + 1) |-> IF s = {} THEN Nought ELSE Plus(f[Taken(s)], h[s \ {Taken(s)}])]
    <3> HIDE DEF U
    <3>1. \A s \in U(n + 1) : s # {} => h[s \ {Taken(s)}] = g[s \ {Taken(s)}]
      BY <2>2, <2>3
    <3>2. QED
      BY <3>1
  <2>5. Tallied(h, f, U(n + 1))
    BY <2>4 DEF Tallied
  <2>6. \E k : Tallied(k, f, U(n + 1))
    BY <2>5
  <2> HIDE DEF U, h
  <2>7. QED
    BY <2>6
<1>3. \A n \in Nat : n \in S
  <2> HIDE DEF S
  <2>1. QED
    BY <1>1, <1>2, AllNumbers
<1>4. Cardinality(D) \in Nat /\ U(Cardinality(D)) = SUBSET D
  BY <1>0, FS_Subset
<1>5. QED
  BY <1>3, <1>4

\* A sum of tallies is the last value of the running sum.
LEMMA SumRuns ==
  ASSUME NEW f, NEW D, IsFiniteSet(D)
  PROVE  \E g : Tallied(g, f, SUBSET D) /\ Sum(f, D) = g[D]
<1> DEFINE g == CHOOSE g : Tallied(g, f, SUBSET D)
<1>1. Tallied(g, f, SUBSET D)
  BY RunningSum
<1>2. Sum(f, D) = g[D]
  BY DEF Sum, MapThenFoldSet, Tallied, Taken
<1>3. QED
  BY <1>1, <1>2

\* Sums of tallies in order are in order.
LEMMA PlusInOrder ==
  ASSUME NEW e, NEW z, NEW m, TalliesInOrder(e, z, m), NEW f, NEW y, NEW n, TalliesInOrder(f, y, n)
  PROVE  TalliesInOrder(Plus(e, f), Plus(z, y), Plus(m, n))
<1>1. \A a \in Tallies, b \in Tallies :
         /\ Plus(a, b) \in Tallies
         /\ \A c \in Columns : /\ Plus(a, b).total[c] = a.total[c] + b.total[c]
                                /\ Plus(a, b).max[c] = a.max[c] + b.max[c]
  BY DEF Plus, Tallies
<1>2. \A a \in Tallies : \A c \in Columns : a.total[c] \in Nat /\ a.max[c] \in Nat
  BY DEF Tallies
<1>3. /\ e \in Tallies /\ z \in Tallies /\ m \in Tallies /\ f \in Tallies /\ y \in Tallies /\ n \in Tallies
      /\ Ranked(e, z, m) /\ Ranked(f, y, n)
  BY DEF TalliesInOrder
<1>4. Ranked(Plus(e, f), Plus(z, y), Plus(m, n))
  <2>1. SUFFICES ASSUME NEW c \in Columns
                 PROVE  /\ 0 <= Plus(e, f).total[c] /\ Plus(e, f).total[c] = Plus(z, y).total[c]
                        /\ Plus(z, y).total[c] <= Plus(m, n).total[c]
                        /\ Plus(e, f).total[c] <= Plus(e, f).max[c] /\ Plus(e, f).max[c] <= Plus(z, y).max[c]
                        /\ Plus(m, n).total[c] <= Plus(m, n).max[c] /\ Plus(m, n).max[c] = Plus(z, y).max[c]
    BY DEF Ranked
  <2>2. QED
    BY <1>1, <1>2, <1>3 DEF Ranked
<1>5. QED
  BY <1>1, <1>3, <1>4 DEF TalliesInOrder

LEMMA SumsInOrder ==
  ASSUME NEW D, IsFiniteSet(D), NEW e, NEW z, NEW m, \A x \in D : TalliesInOrder(e[x], z[x], m[x])
  PROVE  TalliesInOrder(Sum(e, D), Sum(z, D), Sum(m, D))
<1>1. PICK ge : Tallied(ge, e, SUBSET D) /\ Sum(e, D) = ge[D]
  BY SumRuns
<1>2. PICK gz : Tallied(gz, z, SUBSET D) /\ Sum(z, D) = gz[D]
  BY SumRuns
<1>3. PICK gm : Tallied(gm, m, SUBSET D) /\ Sum(m, D) = gm[D]
  BY SumRuns
<1>4. \A s \in SUBSET D : IsFiniteSet(s) /\ Cardinality(s) \in Nat
  BY FS_Subset, FS_CardinalityType
<1> DEFINE Good(s) == TalliesInOrder(ge[s], gz[s], gm[s])
           S == {n \in Nat : \A s \in SUBSET D : Cardinality(s) = n => Good(s)}
<1>5. ge[{}] = Nought /\ gz[{}] = Nought /\ gm[{}] = Nought
  BY <1>1, <1>2, <1>3, Zenon DEF Tallied
<1>6. ASSUME NEW s \in SUBSET D, s # {}
      PROVE  /\ ge[s] = Plus(e[Taken(s)], ge[s \ {Taken(s)}])
             /\ gz[s] = Plus(z[Taken(s)], gz[s \ {Taken(s)}])
             /\ gm[s] = Plus(m[Taken(s)], gm[s \ {Taken(s)}])
  BY <1>1, <1>2, <1>3, <1>6 DEF Tallied
<1>7. 0 \in S
  <2>1. Good({})
    BY <1>5, NoughtsInOrder
  <2> HIDE DEF Good
  <2>2. QED
    BY <1>4, <2>1, FS_EmptySet
<1>8. ASSUME NEW n \in Nat, n \in S
      PROVE  n + 1 \in S
  <2>1. SUFFICES ASSUME NEW s \in SUBSET D, Cardinality(s) = n + 1
                 PROVE  Good(s)
    OBVIOUS
  <2>2. s # {}
    BY <2>1, FS_EmptySet
  <2>3. Taken(s) \in s
    BY <2>2 DEF Taken
  <2>4. s \ {Taken(s)} \in SUBSET D /\ Cardinality(s \ {Taken(s)}) = n
    BY <2>1, <2>3, <1>4, FS_RemoveElement
  <2>5. Good(s \ {Taken(s)})
    <3> HIDE DEF Good
    <3>1. QED
      BY <1>8, <2>4
  <2>6. TalliesInOrder(e[Taken(s)], z[Taken(s)], m[Taken(s)])
    BY <2>3
  <2>7. QED
    BY <1>6, <2>2, <2>5, <2>6, PlusInOrder
<1>9. \A n \in Nat : n \in S
  <2> HIDE DEF S
  <2>1. QED
    BY <1>7, <1>8, AllNumbers
<1>10. Good(D)
  <2> HIDE DEF Good
  <2>1. QED
    BY <1>4, <1>9
<1>11. QED
  BY <1>1, <1>2, <1>3, <1>10

\* What the buckets of an audit are made of: the tally of each question that is seen.
TallyOf(v, given, policy) ==
  [q \in Visible(v, mode, given) |-> QuestionScore(Edition[v][q], given[q], policy)]
DomainsOf(v, seen) == UNION {Edition[v][q].domains : q \in seen}
DomainSums(v, seen, tally) ==
  [d \in DomainsOf(v, seen) |-> Sum(tally, {q \in seen : d \in Edition[v][q].domains})]
BucketsFrom(v, seen, tally) ==
  LET asked == Edition[v]
      domain == DomainSums(v, seen, tally)
  IN [overall |-> Sum(domain, DomainsOf(v, seen)),
      audit |-> Sum(tally, {q \in seen : asked[q].mode \in {"audit", "both"}}),
      survey |-> Sum(tally, {q \in seen : asked[q].mode \in {"survey", "both"}}),
      section |-> [s \in {asked[q].section : q \in seen} |-> Sum(tally, {q \in seen : asked[q].section = s})],
      domain |-> domain]

LEMMA BucketsOfTallies ==
  ASSUME NEW v, NEW given, NEW policy
  PROVE  Buckets(v, given, policy) = BucketsFrom(v, Visible(v, mode, given), TallyOf(v, given, policy))
<1> DEFINE asked == Edition[v]
           seen == Visible(v, mode, given)
           tally == TallyOf(v, given, policy)
           domain == DomainSums(v, seen, tally)
<1>1. Buckets(v, given, policy) =
        [overall |-> Sum(domain, DOMAIN domain),
         audit |-> Sum(tally, {q \in seen : asked[q].mode \in {"audit", "both"}}),
         survey |-> Sum(tally, {q \in seen : asked[q].mode \in {"survey", "both"}}),
         section |-> [s \in {asked[q].section : q \in seen} |-> Sum(tally, {q \in seen : asked[q].section = s})],
         domain |-> domain]
  BY Zenon DEF Buckets, TallyOf, DomainSums, DomainsOf
<1>2. DOMAIN domain = DomainsOf(v, seen)
  BY DEF DomainSums
<1>3. QED
  BY <1>1, <1>2, Zenon DEF BucketsFrom

\* The three readings of every bucket are in order, when what is seen measures.
LEMMA BucketsInOrder ==
  ASSUME ScoreInv, NEW v \in Editions, \A q \in Visible(v, mode, answers) : Measures(Edition[v][q])
  PROVE  LET e == Buckets(v, answers, "excluded")
             z == Buckets(v, answers, "zero")
             m == Buckets(v, answers, "max")
         IN /\ TalliesInOrder(e.overall, z.overall, m.overall)
            /\ TalliesInOrder(e.audit, z.audit, m.audit)
            /\ TalliesInOrder(e.survey, z.survey, m.survey)
            /\ \A s \in DOMAIN e.section : TalliesInOrder(e.section[s], z.section[s], m.section[s])
            /\ \A d \in DOMAIN e.domain : TalliesInOrder(e.domain[d], z.domain[d], m.domain[d])
<1> DEFINE asked == Edition[v]
           seen == Visible(v, mode, answers)
           t(policy) == TallyOf(v, answers, policy)
           e == t("excluded")
           z == t("zero")
           m == t("max")
           B(policy) == Buckets(v, answers, policy)
           withSection(s) == {q \in seen : asked[q].section = s}
           withDomain(d) == {q \in seen : d \in asked[q].domains}
           inAudit == {q \in seen : asked[q].mode \in {"audit", "both"}}
           inSurvey == {q \in seen : asked[q].mode \in {"survey", "both"}}
<1>1. seen \subseteq DOMAIN asked /\ DOMAIN asked \subseteq QuestionKeys
  BY DEF Visible, QuestionKeys
<1>2. IsFiniteSet(seen) /\ \A q \in seen : IsFiniteSet(asked[q].domains)
  BY <1>1, EditionAssumption, FS_Subset DEF EditionAssumption
<1>3. IsFiniteSet(DomainsOf(v, seen))
  <2> DEFINE D == {asked[q].domains : q \in seen}
  <2>1. [q \in seen |-> asked[q].domains] \in Surjection(seen, D)
    BY DEF Surjection
  <2>2. \A x \in D : IsFiniteSet(x)
    BY <1>2
  <2>3. DomainsOf(v, seen) = UNION D
    BY DEF DomainsOf
  <2> HIDE DEF D, seen
  <2>4. IsFiniteSet(D)
    BY <1>2, <2>1, FS_Surjection
  <2>5. QED
    BY <2>2, <2>3, <2>4, FS_UNION
<1>4. \A q \in seen : TalliesInOrder(e[q], z[q], m[q])
  <2>1. SUFFICES ASSUME NEW q \in seen
                 PROVE  TalliesInOrder(e[q], z[q], m[q])
    OBVIOUS
  <2>2. SoundQuestion(asked[q]) /\ FewKeys(answers[q])
    BY <1>1, QuestionsAreSound DEF ScoreInv
  <2>3. \A policy : t(policy)[q] = QuestionScore(asked[q], answers[q], policy)
    BY DEF TallyOf
  <2> HIDE DEF t, asked
  <2>4. TalliesInOrder(t("excluded")[q], t("zero")[q], t("max")[q])
    BY <2>2, <2>3, QuestionInOrder
  <2>5. QED
    BY <2>4
<1>5. \A C \in SUBSET seen : TalliesInOrder(Sum(e, C), Sum(z, C), Sum(m, C))
  <2>1. SUFFICES ASSUME NEW C \in SUBSET seen
                 PROVE  TalliesInOrder(Sum(e, C), Sum(z, C), Sum(m, C))
    OBVIOUS
  <2>2. IsFiniteSet(C)
    BY <1>2, FS_Subset
  <2> HIDE DEF e, z, m, seen
  <2>3. QED
    BY <1>4, <2>2, SumsInOrder
<1>6. \A policy : /\ B(policy).overall = Sum(DomainSums(v, seen, t(policy)), DomainsOf(v, seen))
                   /\ B(policy).audit = Sum(t(policy), inAudit)
                   /\ B(policy).survey = Sum(t(policy), inSurvey)
                   /\ B(policy).section = [s \in {asked[q].section : q \in seen} |-> Sum(t(policy), withSection(s))]
                   /\ B(policy).domain = DomainSums(v, seen, t(policy))
  <2>1. SUFFICES ASSUME NEW policy
                 PROVE  /\ B(policy).overall = Sum(DomainSums(v, seen, t(policy)), DomainsOf(v, seen))
                        /\ B(policy).audit = Sum(t(policy), inAudit)
                        /\ B(policy).survey = Sum(t(policy), inSurvey)
                        /\ B(policy).section = [s \in {asked[q].section : q \in seen} |-> Sum(t(policy), withSection(s))]
                        /\ B(policy).domain = DomainSums(v, seen, t(policy))
    OBVIOUS
  <2>2. B(policy) = BucketsFrom(v, seen, t(policy))
    BY BucketsOfTallies
  <2> HIDE DEF B, t
  <2>3. QED
    BY <2>2 DEF BucketsFrom
<1>7. \A policy : \A d \in DomainsOf(v, seen) : DomainSums(v, seen, t(policy))[d] = Sum(t(policy), withDomain(d))
  BY DEF DomainSums
<1>8. inAudit \in SUBSET seen /\ inSurvey \in SUBSET seen
  OBVIOUS
<1>9. \A x : withSection(x) \in SUBSET seen /\ withDomain(x) \in SUBSET seen
  OBVIOUS
<1>10. \A d \in DomainsOf(v, seen) :
          TalliesInOrder(DomainSums(v, seen, e)[d], DomainSums(v, seen, z)[d], DomainSums(v, seen, m)[d])
  <2> HIDE DEF withDomain, seen, t
  <2>1. QED
    BY <1>5, <1>7, <1>9
<1>11. TalliesInOrder(Sum(DomainSums(v, seen, e), DomainsOf(v, seen)), Sum(DomainSums(v, seen, z), DomainsOf(v, seen)),
                      Sum(DomainSums(v, seen, m), DomainsOf(v, seen)))
  <2> HIDE DEF e, z, m
  <2>1. QED
    BY <1>3, <1>10, SumsInOrder
<1>12. /\ TalliesInOrder(Sum(e, inAudit), Sum(z, inAudit), Sum(m, inAudit))
       /\ TalliesInOrder(Sum(e, inSurvey), Sum(z, inSurvey), Sum(m, inSurvey))
       /\ \A s : TalliesInOrder(Sum(e, withSection(s)), Sum(z, withSection(s)), Sum(m, withSection(s)))
  <2> HIDE DEF e, z, m, inAudit, inSurvey, withSection, seen
  <2>1. QED
    BY <1>5, <1>8, <1>9
<1>13. \A policy : \A s \in DOMAIN B("excluded").section : B(policy).section[s] = Sum(t(policy), withSection(s))
  <2> DEFINE S == {asked[q].section : q \in seen}
  <2> HIDE DEF B, t, withSection, S
  <2>1. \A policy : B(policy).section = [s \in S |-> Sum(t(policy), withSection(s))]
    BY <1>6 DEF S
  <2>2. DOMAIN B("excluded").section = S
    BY <2>1
  <2>3. \A policy : \A s \in S : B(policy).section[s] = Sum(t(policy), withSection(s))
    BY <2>1
  <2>4. QED
    BY <2>2, <2>3
<1>14. \A policy : DOMAIN B(policy).domain = DomainsOf(v, seen)
  <2> HIDE DEF B, t
  <2>1. QED
    BY <1>6 DEF DomainSums
<1>15. /\ \A s \in DOMAIN B("excluded").section :
             TalliesInOrder(B("excluded").section[s], B("zero").section[s], B("max").section[s])
       /\ \A d \in DOMAIN B("excluded").domain :
             TalliesInOrder(B("excluded").domain[d], B("zero").domain[d], B("max").domain[d])
  <2> HIDE DEF B, t, withSection, seen
  <2>1. QED
    BY <1>6, <1>10, <1>12, <1>13, <1>14
<1>16. /\ TalliesInOrder(B("excluded").overall, B("zero").overall, B("max").overall)
       /\ TalliesInOrder(B("excluded").audit, B("zero").audit, B("max").audit)
       /\ TalliesInOrder(B("excluded").survey, B("zero").survey, B("max").survey)
  <2> HIDE DEF B, t, inAudit, inSurvey
  <2>1. QED
    BY <1>6, <1>11, <1>12
<1>17. QED
  BY <1>15, <1>16

\* An answer to a question counts as Unsure at scale s.
CountsUnsure(question, given, s) ==
  /\ question.type = "scaled"
  /\ \E p \in Chosen(question, given, "provision") :
       /\ s # "provision" => p.more
       /\ \E o \in Chosen(question, given, s) : o.kind = "unsure"

LEMMA SureFollowUp ==
  ASSUME NEW question, NEW given, NEW s, \A o \in Chosen(question, given, s) : o.kind # "unsure",
         NEW p, NEW q
  PROVE  FollowUp(question, given, s, p) = FollowUp(question, given, s, q)
<1> DEFINE C == Chosen(question, given, s)
           o == CHOOSE o \in C : TRUE
<1>1. CASE C = {}
  BY <1>1 DEF FollowUp
<1>2. CASE C # {}
  <2>1. o \in C
    BY <1>2
  <2>2. o.kind # "unsure"
    <3> HIDE DEF o, C
    <3>1. QED
      BY <2>1 DEF C
  <2>3. QED
    BY <1>2, <2>2 DEF FollowUp, Excluding
<1>3. QED
  BY <1>1, <1>2

\* A question without an answer that counts as Unsure has one score.
LEMMA SureQuestion ==
  ASSUME NEW question, NEW given, \A s \in Scales : ~CountsUnsure(question, given, s), NEW x, NEW y
  PROVE  QuestionScore(question, given, x) = QuestionScore(question, given, y)
<1> DEFINE C == Chosen(question, given, "provision")
           p == CHOOSE p \in C : TRUE
           F(s, policy) == FollowUp(question, given, s, policy)
<1>1. CASE question.type # "scaled" \/ C = {}
  BY <1>1 DEF QuestionScore
<1>2. CASE question.type = "scaled" /\ C # {}
  <2>1. p \in C
    BY <1>2
  <2>2. p.kind # "unsure"
    <3> HIDE DEF p
    <3>1. QED
      BY <1>2, <2>1 DEF CountsUnsure, Scales
  <2>3. CASE p.kind = "na"
    BY <1>2, <2>3 DEF QuestionScore, Excluding
  <2>4. CASE p.kind # "na" /\ ~p.more
    BY <1>2, <2>2, <2>4 DEF QuestionScore, Excluding
  <2>5. CASE p.kind # "na" /\ p.more
    <3>1. \A s \in Scales \ {"provision"} : \A o \in Chosen(question, given, s) : o.kind # "unsure"
      <4> HIDE DEF p
      <4>1. QED
        BY <1>2, <2>1, <2>5 DEF CountsUnsure
    <3>2. /\ F("variety", x) = F("variety", y) /\ F("challenge", x) = F("challenge", y)
          /\ F("sociability", x) = F("sociability", y)
      <4>1. "variety" \in Scales \ {"provision"} /\ "challenge" \in Scales \ {"provision"}
            /\ "sociability" \in Scales \ {"provision"}
        BY DEF Scales
      <4>2. QED
        BY <3>1, <4>1, SureFollowUp
    <3>3. Sociable(question, given, x) = Sociable(question, given, y)
      BY <3>2 DEF Sociable
    <3>4. \A policy : QuestionScore(question, given, policy) =
             Tally(question, p.add, F("variety", policy), F("challenge", policy), Sociable(question, given, policy))
      BY <1>2, <2>2, <2>5 DEF QuestionScore, Excluding
    <3> HIDE DEF F, p
    <3>5. QED
      BY <3>2, <3>3, <3>4
  <2>6. QED
    BY <2>3, <2>4, <2>5
<1>3. QED
  BY <1>1, <1>2

LEMMA SureAudit ==
  ASSUME NEW v, UnsureAnswers(v, answers) = {}, NEW x, NEW y
  PROVE  Buckets(v, answers, x) = Buckets(v, answers, y)
<1>1. \A q \in Visible(v, mode, answers) : \A s \in Scales : ~CountsUnsure(Edition[v][q], answers[q], s)
  <2>1. SUFFICES ASSUME NEW q \in Visible(v, mode, answers), NEW s \in Scales,
                        CountsUnsure(Edition[v][q], answers[q], s)
                 PROVE  FALSE
    OBVIOUS
  <2>2. <<q, s>> \in UnsureAnswers(v, answers)
    BY <2>1 DEF UnsureAnswers, CountsUnsure
  <2>3. QED
    BY <2>2
<1>2. \A q \in Visible(v, mode, answers) :
         QuestionScore(Edition[v][q], answers[q], x) = QuestionScore(Edition[v][q], answers[q], y)
  BY <1>1, SureQuestion
<1>3. TallyOf(v, answers, x) = TallyOf(v, answers, y)
  BY <1>2 DEF TallyOf
<1>4. QED
  BY <1>3, BucketsOfTallies

\* Every bucket shows a range, in every state in which what is seen measures.
LEMMA RangesHold ==
  ASSUME ScoreInv
  PROVE  UnsureRange
<1> DEFINE v == Resolved
           e == Buckets(v, answers, "excluded")
           z == Buckets(v, answers, "zero")
           m == Buckets(v, answers, "max")
<1>1. v \in Editions
  BY ResolvedIsAnEdition
<1> DEFINE measured == \A q \in Visible(v, mode, answers) : Measures(Edition[v][q])
<1>2. measured =>
        /\ TalliesInOrder(e.overall, z.overall, m.overall)
        /\ TalliesInOrder(e.audit, z.audit, m.audit)
        /\ TalliesInOrder(e.survey, z.survey, m.survey)
        /\ \A s \in DOMAIN e.section : TalliesInOrder(e.section[s], z.section[s], m.section[s])
        /\ \A d \in DOMAIN e.domain : TalliesInOrder(e.domain[d], z.domain[d], m.domain[d])
  <2> HIDE DEF v
  <2>1. QED
    BY <1>1, BucketsInOrder
<1>3. UnsureAnswers(v, answers) = {} => e = z /\ z = m
  <2> HIDE DEF v
  <2>1. QED
    BY SureAudit
<1> HIDE DEF e, z, m, v, measured
<1>4. measured =>
        /\ Ranked(e.overall, z.overall, m.overall)
        /\ Ranked(e.audit, z.audit, m.audit)
        /\ Ranked(e.survey, z.survey, m.survey)
        /\ \A s \in DOMAIN e.section : Ranked(e.section[s], z.section[s], m.section[s])
        /\ \A d \in DOMAIN e.domain : Ranked(e.domain[d], z.domain[d], m.domain[d])
  BY <1>2 DEF TalliesInOrder
<1>5. QED
  BY <1>3, <1>4, Zenon DEF UnsureRange, e, z, m, v, measured, Ranked

-----------------------------------------------------------------------------
(* Playspace: answers that are no longer seen *)

\* Two answers to a question that read the same.
ReadAlike(question, a, b) ==
  /\ \A s \in {"provision", "checklist"} : /\ s \in DOMAIN a <=> s \in DOMAIN b
                                           /\ s \in DOMAIN a => a[s] = b[s]
  /\ (\E p \in Chosen(question, a, "provision") : p.more) =>
        \A s : /\ s \in DOMAIN a <=> s \in DOMAIN b
               /\ s \in DOMAIN a => a[s] = b[s]

LEMMA ChosenAlike ==
  ASSUME NEW question, NEW a, NEW b, ReadAlike(question, a, b), NEW s,
         s = "provision" \/ \E p \in Chosen(question, a, "provision") : p.more
  PROVE  Chosen(question, a, s) = Chosen(question, b, s)
<1>1. /\ s \in DOMAIN a <=> s \in DOMAIN b
      /\ s \in DOMAIN a => a[s] = b[s]
  BY DEF ReadAlike
<1>2. QED
  BY <1>1 DEF Chosen

\* What is scrubbed from the answers to a question that is seen does not change their reading.
LEMMA ScrubbedReadsAlike ==
  ASSUME NEW v \in Editions, NEW q \in Visible(v, mode, answers)
  PROVE  ReadAlike(Edition[v][q], answers[q], Scrubbed(v, answers)[q])
<1> DEFINE kept == {s \in DOMAIN answers[q] : s \in {"provision", "checklist"}
                        \/ \E p \in Chosen(Edition[v][q], answers[q], "provision") : p.more}
<1>1. q \in QuestionKeys
  BY DEF Visible, QuestionKeys
<1>2. Scrubbed(v, answers)[q] = [s \in kept |-> answers[q][s]]
  BY <1>1 DEF Scrubbed, Seen
<1>3. /\ DOMAIN Scrubbed(v, answers)[q] = kept
      /\ \A s \in kept : Scrubbed(v, answers)[q][s] = answers[q][s]
  BY <1>2
<1> HIDE DEF Scrubbed
<1>4. QED
  BY <1>3 DEF ReadAlike

\* What is scrubbed satisfied no condition that an answer that is seen satisfies, and
\* what is kept satisfies those that it satisfied.
LEMMA ScrubbedConditions ==
  ASSUME ScoreInv, NEW v \in Editions, NEW c
  PROVE  /\ Holds(c, Scrubbed(v, answers)) => Holds(c, answers)
         /\ Holds(c, answers) /\ Seen(v, answers, c.question, c.scale) => Holds(c, Scrubbed(v, answers))
<1> DEFINE S == Scrubbed(v, answers)
           q == c.question
           kept == {s \in DOMAIN answers[q] : Seen(v, answers, q, s)}
<1>1. DOMAIN S = QuestionKeys /\ DOMAIN answers = QuestionKeys
  BY DEF Scrubbed, ScoreInv
<1>2. q \in QuestionKeys => S[q] = [s \in kept |-> answers[q][s]]
  BY DEF Scrubbed
<1>3. q \in QuestionKeys => DOMAIN S[q] = kept /\ \A s \in kept : S[q][s] = answers[q][s]
  BY <1>2
<1> HIDE DEF S
<1>4. QED
  BY <1>1, <1>3 DEF Holds, S

\* Where no question is shown by an answer that is not seen, the same questions are
\* shown without those answers.
LEMMA ScrubbedShowsAlike ==
  ASSUME ScoreInv, NEW v \in Editions, ~ShownByStale(v, answers)
  PROVE  Visible(v, mode, Scrubbed(v, answers)) = Visible(v, mode, answers)
<1> DEFINE S == Scrubbed(v, answers)
<1>1. \A q \in Visible(v, mode, S) : q \in Visible(v, mode, answers)
  BY ScrubbedConditions DEF Visible, Shows
<1>2. ASSUME NEW q \in Visible(v, mode, answers)
      PROVE  q \in Visible(v, mode, S)
  <2>1. Shows(Edition[v][q], S)
    <3>1. CASE Edition[v][q].showIf = {}
      BY <3>1 DEF Shows
    <3>2. CASE Edition[v][q].showIf # {}
      <4>1. PICK c \in Edition[v][q].showIf : Holds(c, answers) /\ Seen(v, answers, c.question, c.scale)
        BY <1>2, <3>2 DEF ShownByStale
      <4>2. Holds(c, S)
        BY <4>1, ScrubbedConditions
      <4>3. QED
        BY <4>1, <4>2 DEF Shows
    <3>3. QED
      BY <3>1, <3>2
  <2> HIDE DEF S
  <2>2. QED
    BY <1>2, <2>1 DEF Visible
<1> HIDE DEF S
<1>3. QED
  BY <1>1, <1>2 DEF S

LEMMA FollowUpAlike ==
  ASSUME NEW question, NEW a, NEW b, ReadAlike(question, a, b),
         \E p \in Chosen(question, a, "provision") : p.more, NEW s, NEW policy
  PROVE  FollowUp(question, a, s, policy) = FollowUp(question, b, s, policy)
<1>1. Chosen(question, a, s) = Chosen(question, b, s)
  BY ChosenAlike
<1>2. QED
  BY <1>1, Zenon DEF FollowUp

\* Answers that read alike are complete, readable, unsure and scored alike.
LEMMA CompleteAlike ==
  ASSUME NEW question, NEW a, NEW b, ReadAlike(question, a, b)
  PROVE  Complete(question, a) <=> Complete(question, b)
<1>1. Chosen(question, a, "provision") = Chosen(question, b, "provision")
  BY ChosenAlike
<1>2. ASSUME NEW p \in Chosen(question, a, "provision"), p.more, NEW s
      PROVE  FollowUpComplete(question, a, s) <=> FollowUpComplete(question, b, s)
  <2>1. Chosen(question, a, s) = Chosen(question, b, s)
    BY <1>2, ChosenAlike
  <2>2. /\ s \in DOMAIN a <=> s \in DOMAIN b
        /\ s \in DOMAIN a => a[s] = b[s]
    BY <1>2 DEF ReadAlike
  <2>3. QED
    BY <2>1, <2>2 DEF FollowUpComplete
<1>3. "checklist" \in DOMAIN a <=> "checklist" \in DOMAIN b
  BY DEF ReadAlike
<1>4. QED
  BY <1>1, <1>2, <1>3 DEF Complete

LEMMA UnreadableAlike ==
  ASSUME NEW question, NEW a, NEW b, ReadAlike(question, a, b),
         \E p \in Chosen(question, a, "provision") : p.more
  PROVE  Unreadable(question, a) <=> Unreadable(question, b)
BY DEF ReadAlike, Unreadable

LEMMA BreaksAlike ==
  ASSUME NEW question, NEW a, NEW b, ReadAlike(question, a, b)
  PROVE  Breaks(question, a) <=> Breaks(question, b)
<1>1. Chosen(question, a, "provision") = Chosen(question, b, "provision")
  BY ChosenAlike
<1>2. (\E p \in Chosen(question, a, "provision") : p.more) => (Unreadable(question, a) <=> Unreadable(question, b))
  BY UnreadableAlike
<1>3. QED
  BY <1>1, <1>2 DEF Breaks

LEMMA ScoredAlike ==
  ASSUME NEW question, NEW a, NEW b, ReadAlike(question, a, b), NEW policy
  PROVE  QuestionScore(question, a, policy) = QuestionScore(question, b, policy)
<1> DEFINE C == Chosen(question, a, "provision")
           p == CHOOSE p \in C : TRUE
<1>1. C = Chosen(question, b, "provision")
  BY ChosenAlike
<1>2. CASE question.type # "scaled" \/ C = {}
  BY <1>1, <1>2 DEF QuestionScore
<1>3. CASE question.type = "scaled" /\ C # {} /\ ~p.more
  BY <1>1, <1>3 DEF QuestionScore
<1>4. CASE question.type = "scaled" /\ C # {} /\ p.more
  <2>1. \E r \in C : r.more
    BY <1>4
  <2>2. \A s : FollowUp(question, a, s, policy) = FollowUp(question, b, s, policy)
    BY <2>1, FollowUpAlike
  <2>3. Sociable(question, a, policy) = Sociable(question, b, policy)
    <3>1. /\ "sociability" \in DOMAIN a <=> "sociability" \in DOMAIN b
          /\ "sociability" \in DOMAIN a => a["sociability"] = b["sociability"]
      BY <2>1 DEF ReadAlike
    <3>2. QED
      BY <2>2, <3>1 DEF Sociable
  <2> DEFINE G(given) == Tally(question, p.add, FollowUp(question, given, "variety", policy),
                            FollowUp(question, given, "challenge", policy), Sociable(question, given, policy))
             best == MostProvided(question)
             full(s) == LET m == MostOf(question, s) IN [total |-> m.total, boost |-> m.boost, most |-> m]
             R(given) == IF Excluding(p, policy) THEN Nought
                         ELSE IF p.kind = "unsure" /\ policy = "max"
                         THEN Tally(question, best, full("variety"), full("challenge"),
                                    [total |-> MostSociable(question), max |-> MostSociable(question)])
                         ELSE G(given)
  <2>4. QuestionScore(question, a, policy) = R(a)
    BY <1>4, Zenon DEF QuestionScore, MostProvided
  <2>5. QuestionScore(question, b, policy) = R(b)
    BY <1>1, <1>4, Zenon DEF QuestionScore, MostProvided
  <2>6. G(a) = G(b)
    BY <2>2, <2>3
  <2> HIDE DEF p, G, best, full
  <2>7. R(a) = R(b)
    BY <2>6
  <2>8. QED
    BY <2>4, <2>5, <2>7
<1>5. QED
  BY <1>2, <1>3, <1>4

LEMMA UnsureAlike ==
  ASSUME NEW question, NEW a, NEW b, ReadAlike(question, a, b), NEW s
  PROVE  (\E p \in Chosen(question, a, "provision") :
             (s # "provision" => p.more) /\ \E o \in Chosen(question, a, s) : o.kind = "unsure")
         <=>
         (\E p \in Chosen(question, b, "provision") :
             (s # "provision" => p.more) /\ \E o \in Chosen(question, b, s) : o.kind = "unsure")
<1>1. Chosen(question, a, "provision") = Chosen(question, b, "provision")
  BY ChosenAlike
<1>2. ASSUME NEW p \in Chosen(question, a, "provision"), s # "provision" => p.more
      PROVE  Chosen(question, a, s) = Chosen(question, b, s)
  BY <1>2, ChosenAlike
<1>3. QED
  BY <1>1, <1>2

LEMMA ScrubbedCountsAlike ==
  ASSUME ScoreInv, ~ShownByStale(Resolved, answers)
  PROVE  StaleAnswersDontCount
<1> DEFINE v == Resolved
           S == Scrubbed(v, answers)
           A == answers
           V == Visible(v, mode, A)
<1>1. v \in Editions /\ ~ShownByStale(v, A)
  BY ResolvedIsAnEdition
<1> HIDE DEF v
<1>2. Visible(v, mode, S) = V
  BY <1>1, ScrubbedShowsAlike
<1>3. \A q \in V : ReadAlike(Edition[v][q], A[q], S[q])
  BY <1>1, ScrubbedReadsAlike
<1> HIDE DEF S, A, V
<1>4. ReadyToSubmit(v, A) = ReadyToSubmit(v, S)
  <2>1. \A q \in V : Complete(Edition[v][q], A[q]) <=> Complete(Edition[v][q], S[q])
    BY <1>3, CompleteAlike
  <2>2. ReadyToSubmit(v, A) <=> ReadyToSubmit(v, S)
    BY <1>2, <2>1 DEF ReadyToSubmit, V
  <2>3. ReadyToSubmit(v, A) \in BOOLEAN /\ ReadyToSubmit(v, S) \in BOOLEAN
    BY DEF ReadyToSubmit
  <2>4. QED
    BY <2>2, <2>3
<1>5. Fails(v, A) = Fails(v, S)
  <2>1. \A q \in V : Breaks(Edition[v][q], A[q]) <=> Breaks(Edition[v][q], S[q])
    BY <1>3, BreaksAlike
  <2>3. Fails(v, A) <=> Fails(v, S)
    BY <1>2, <2>1 DEF Fails, V
  <2>4. Fails(v, A) \in BOOLEAN /\ Fails(v, S) \in BOOLEAN
    BY DEF Fails
  <2>5. QED
    BY <2>3, <2>4
<1>6. UnsureAnswers(v, A) = UnsureAnswers(v, S)
  <2> DEFINE IsUnsure(given, at) ==
               /\ Edition[v][at[1]].type = "scaled"
               /\ \E p \in Chosen(Edition[v][at[1]], given[at[1]], "provision") :
                    (at[2] # "provision" => p.more)
                    /\ \E o \in Chosen(Edition[v][at[1]], given[at[1]], at[2]) : o.kind = "unsure"
  <2>1. \A at \in V \X Scales : at[1] \in V
    OBVIOUS
  <2>2. \A at \in V \X Scales : IsUnsure(A, at) <=> IsUnsure(S, at)
    BY <1>3, <2>1, UnsureAlike
  <2>3. /\ UnsureAnswers(v, A) = {at \in V \X Scales : IsUnsure(A, at)}
        /\ UnsureAnswers(v, S) = {at \in V \X Scales : IsUnsure(S, at)}
    BY <1>2 DEF UnsureAnswers, V
  <2> HIDE DEF IsUnsure
  <2>4. QED
    BY <2>2, <2>3
<1>7. Buckets(v, A, "zero") = Buckets(v, S, "zero")
  <2>1. \A q \in V : QuestionScore(Edition[v][q], A[q], "zero") = QuestionScore(Edition[v][q], S[q], "zero")
    BY <1>3, ScoredAlike
  <2>2. TallyOf(v, A, "zero") = TallyOf(v, S, "zero")
    BY <1>2, <2>1 DEF TallyOf, V
  <2>3. /\ Buckets(v, A, "zero") = BucketsFrom(v, V, TallyOf(v, A, "zero"))
        /\ Buckets(v, S, "zero") = BucketsFrom(v, V, TallyOf(v, S, "zero"))
    BY <1>2, BucketsOfTallies DEF V
  <2>4. QED
    BY <2>2, <2>3
<1>8. QED
  BY <1>4, <1>5, <1>6, <1>7, Zenon DEF StaleAnswersDontCount, v, S, A

-----------------------------------------------------------------------------
(* Playspace: complete audits *)

\* A scale gives at most one option to an answer.
LEMMA OneChosen ==
  ASSUME NEW v \in Editions, NEW q \in DOMAIN Edition[v], NEW given, NEW s,
         NEW x \in Chosen(Edition[v][q], given, s), NEW y \in Chosen(Edition[v][q], given, s)
  PROVE  x = y
<1>1. /\ s \in DOMAIN Edition[v][q].scales
      /\ x \in Edition[v][q].scales[s].options /\ y \in Edition[v][q].scales[s].options
      /\ given[s].keys = {x.key} /\ given[s].keys = {y.key}
  BY DEF Chosen
<1>2. x.key = y.key
  BY <1>1
<1>3. QED
  BY <1>1, <1>2, EditionAssumption DEF EditionAssumption

\* The column of provision has what its scale can add as its maximum, which is positive.
LEMMA ProvisionColumn ==
  ASSUME NEW question, NEW p, NEW v, NEW h, NEW x
  PROVE  Tally(question, p, v, h, x).max["provision"] = MostProvided(question)
<1>1. "provision" \in Columns
  BY DEF Columns, Scales
<1>2. QED
  BY <1>1 DEF Tally, MostProvided

LEMMA ScaledCanProvide ==
  ASSUME NEW v \in Editions, NEW q \in DOMAIN Edition[v], "provision" \in DOMAIN Edition[v][q].scales,
         NEW o \in Candidates(Edition[v][q], "provision"), o.add > 0
  PROVE  MostProvided(Edition[v][q]) > 0
<1> DEFINE question == Edition[v][q]
           D == Candidates(question, "provision")
           A == {x.add : x \in D}
<1>1. /\ IsFiniteSet(question.scales["provision"].options)
      /\ \A x \in question.scales["provision"].options : x.add \in Int
  BY EditionAssumption DEF EditionAssumption
<1>2. D \subseteq question.scales["provision"].options
  BY DEF Candidates
<1>3. IsFiniteSet(D) /\ \A x \in D : x.add \in Int
  BY <1>1, <1>2, FS_Subset
<1>4. A \subseteq Int /\ o.add \in A
  BY <1>3
<1>5. IsFiniteSet(A)
  <2>1. [x \in D |-> x.add] \in Surjection(D, A)
    BY DEF Surjection
  <2> HIDE DEF D, A
  <2>2. QED
    BY <1>3, <2>1, FS_Surjection
<1>6. MostProvided(question) = Best(A, 0)
  BY DEF MostProvided
<1> HIDE DEF A, D, question
<1>7. Best(A, 0) \in Nat /\ o.add <= Best(A, 0) /\ o.add \in Int
  BY <1>4, <1>5, BestOf
<1>8. QED
  BY <1>6, <1>7 DEF question

\* A question that is answered and not as not applicable has a denominator, when its
\* scale of provision adds something.
LEMMA ScaledHasMaximum ==
  ASSUME NEW v \in Editions, NEW q \in DOMAIN Edition[v], Edition[v][q].type = "scaled", NEW given,
         \E x \in Candidates(Edition[v][q], "provision") : x.add > 0,
         NEW p \in Chosen(Edition[v][q], given, "provision"), p.kind # "na"
  PROVE  QuestionScore(Edition[v][q], given, "zero").max["provision"] > 0
<1> DEFINE question == Edition[v][q]
           C == Chosen(question, given, "provision")
           o == CHOOSE o \in C : TRUE
           score == QuestionScore(question, given, "zero")
<1>1. o \in C
  BY Zenon
<1>2. o = p
  <2> HIDE DEF o
  <2>1. QED
    BY <1>1, OneChosen
<1>3. ~Excluding(o, "zero")
  BY <1>2 DEF Excluding
<1>4. \E x, y, h, z : score = Tally(question, x, y, h, z)
  <2>1. C # {}
    OBVIOUS
  <2>2. CASE o.more
    <3>1. score = Tally(question, o.add, FollowUp(question, given, "variety", "zero"),
                        FollowUp(question, given, "challenge", "zero"), Sociable(question, given, "zero"))
      BY <1>3, <2>1, <2>2 DEF QuestionScore
    <3>2. QED
      BY <3>1
  <2>3. CASE ~o.more
    <3> DEFINE none(s) == [total |-> 0, boost |-> 1, most |-> MostOf(question, s)]
    <3>1. score = Tally(question, o.add, none("variety"), none("challenge"),
                        [total |-> 0, max |-> IF Multiple(question) /\ o.kind # "unsure" THEN 0
                                              ELSE MostSociable(question)])
      BY <1>3, <2>1, <2>3 DEF QuestionScore
    <3>2. QED
      BY <3>1
  <2>4. QED
    BY <2>2, <2>3
<1>5. score.max["provision"] = MostProvided(question)
  <2> HIDE DEF score
  <2>1. QED
    BY <1>4, ProvisionColumn
<1>6. "provision" \in DOMAIN question.scales
  BY DEF Chosen
<1>7. QED
  BY <1>5, <1>6, ScaledCanProvide

\* The scoring of a question that is complete does not raise.
LEMMA CompleteDoesNotBreak ==
  ASSUME NEW v \in Editions, NEW q \in DOMAIN Edition[v], NEW given, Complete(Edition[v][q], given)
  PROVE  ~Breaks(Edition[v][q], given)
<1> DEFINE question == Edition[v][q]
<1>1. SUFFICES ASSUME question.type = "scaled"
               PROVE  /\ "provision" \in DOMAIN question.scales
                      /\ \A p \in Chosen(question, given, "provision") : p.more => ~Unreadable(question, given)
  BY DEF Breaks
<1>2. PICK o \in Chosen(question, given, "provision") :
         o.more => \A s \in (DOMAIN question.scales) \ {"provision"} : FollowUpComplete(question, given, s)
  BY <1>1 DEF Complete
<1>3. "provision" \in DOMAIN question.scales
  BY <1>2 DEF Chosen
<1>4. ASSUME NEW p \in Chosen(question, given, "provision"), p.more, Multiple(question)
      PROVE  ~Unreadable(question, given)
  <2>1. o = p
    BY OneChosen
  <2>2. "sociability" \in (DOMAIN question.scales) \ {"provision"} /\ question.scales["sociability"].multiple
    BY <1>4 DEF Multiple
  <2>3. FollowUpComplete(question, given, "sociability")
    BY <1>2, <1>4, <2>1, <2>2
  <2>4. Keys(question, "sociability") = SociabilityKeys
    BY <2>2, EditionAssumption DEF EditionAssumption
  <2>5. /\ "sociability" \in DOMAIN given /\ given["sociability"].list
        /\ given["sociability"].keys # {} /\ given["sociability"].keys \subseteq SociabilityKeys
    BY <2>2, <2>3, <2>4 DEF FollowUpComplete
  <2>6. QED
    BY <2>4, <2>5 DEF Unreadable
<1>5. QED
  BY <1>3, <1>4 DEF Unreadable

\* What is complete can be read and has a denominator.
LEMMA ReadyScores ==
  ASSUME ScoreInv
  PROVE  ReadyAuditsScore
<1> DEFINE v == Resolved
           asked == Edition[v]
           V == Visible(v, mode, answers)
           measured(q) == \E p \in Chosen(asked[q], answers[q], "provision") :
                            p.kind = "na" \/ QuestionScore(asked[q], answers[q], "zero").max["provision"] > 0
<1>1. SUFFICES ASSUME ReadyToSubmit(v, answers), NEW q \in V, asked[q].required
               PROVE  /\ ~Breaks(asked[q], answers[q])
                      /\ asked[q].type = "scaled" /\ (\E o \in Candidates(asked[q], "provision") : o.add > 0) =>
                           measured(q)
  BY DEF ReadyAuditsScore
<1>2. v \in Editions
  BY ResolvedIsAnEdition
<1> HIDE DEF v
<1>3. q \in DOMAIN asked
  BY DEF Visible
<1>4. Complete(asked[q], answers[q])
  BY <1>1 DEF ReadyToSubmit
<1>5. ~Breaks(asked[q], answers[q])
  BY <1>2, <1>3, <1>4, CompleteDoesNotBreak
<1>6. ASSUME asked[q].type = "scaled", \E o \in Candidates(asked[q], "provision") : o.add > 0
      PROVE  measured(q)
  <2>1. PICK p \in Chosen(asked[q], answers[q], "provision") : TRUE
    BY <1>4, <1>6 DEF Complete
  <2>2. p.kind = "na" \/ QuestionScore(asked[q], answers[q], "zero").max["provision"] > 0
    BY <1>2, <1>3, <1>6, ScaledHasMaximum
  <2>3. QED
    BY <2>1, <2>2
<1> HIDE DEF measured
<1>7. QED
  BY <1>5, <1>6

-----------------------------------------------------------------------------
(* YEE: versions and the audit *)

\* Versions are a sequence of records, and the audit is one record.
PublicationKinds == {"copy_only", "structural"}
Stored(score) == score = <<>> \/ \E e : score = <<e>>
IsAnAudit(x) ==
  \E n \in Nat, taken \in BOOLEAN : \E given, weights, score :
     /\ x = [stamp |-> n, taken |-> taken, answers |-> given, weights |-> weights, score |-> score]
     /\ Stored(score)

YeeScoreInv ==
  /\ YeeScoreTypeOK
  /\ \E F : versions \in Seq([form : F, parent : Nat, kind : PublicationKinds])
  /\ IsAnAudit(audit)

LEMMA YeeScoreInitHolds ==
  ASSUME YeeScoreInit
  PROVE  YeeScoreInv
<1> DEFINE e == [form |-> Shipped, parent |-> NoParent, kind |-> "copy_only"]
<1>1. versions = <<e>> /\ e.parent = NoParent
  BY DEF YeeScoreInit
<1>2. /\ versions \in Seq([form : {Shipped}, parent : Nat, kind : PublicationKinds])
      /\ Len(versions) = 1 /\ DOMAIN versions = {1} /\ versions[1] = e
  <2>1. e \in [form : {Shipped}, parent : Nat, kind : PublicationKinds]
    BY DEF NoParent, PublicationKinds
  <2> HIDE DEF e
  <2>2. QED
    BY <1>1, <2>1
<1> HIDE DEF e
<1>3. IsAnAudit(audit) /\ audit.stamp = Unstamped /\ audit.score = <<>>
  <2>1. CASE audit = Untaken
    BY <2>1 DEF Untaken, IsAnAudit, Stored, Unstamped
  <2>2. ASSUME NEW weights \in Weightings, audit = Begun(Unstamped, Shipped, weights)
        PROVE  IsAnAudit(audit) /\ audit.stamp = Unstamped /\ audit.score = <<>>
    BY <2>2 DEF Begun, IsAnAudit, Stored, Unstamped
  <2>3. QED
    BY <2>1, <2>2 DEF YeeScoreInit
<1>4. current = 1
  BY DEF YeeScoreInit
<1>5. Len(audit.score) = 0 /\ MaxVersions >= 1
  BY <1>3, YeeFormAssumption DEF YeeFormAssumption
<1>6. YeeScoreTypeOK
  BY <1>1, <1>2, <1>3, <1>4, <1>5, YeeFormAssumption DEF YeeScoreTypeOK, YeeFormAssumption
<1>7. QED
  BY <1>2, <1>3, <1>6 DEF YeeScoreInv

\* A sequence of some elements is one of more of them.
LEMMA SequenceOfMore ==
  ASSUME NEW A, NEW B, A \subseteq B, NEW s \in Seq(A)
  PROVE  s \in Seq(B)
<1>1. \A i \in 1..Len(s) : s[i] \in B
  OBVIOUS
<1>2. QED
  BY <1>1

\* A version is added.
LEMMA VersionAdded ==
  ASSUME YeeScoreInv, NEW f, NEW p \in {NoParent} \cup DOMAIN versions,
         NEW kind \in PublicationKinds,
         Len(versions) < MaxVersions,
         versions' = Append(versions, [form |-> f, parent |-> p, kind |-> kind]),
         current' = Len(versions'), UNCHANGED <<enforced, audit>>
  PROVE  YeeScoreInv'
<1> DEFINE e == [form |-> f, parent |-> p, kind |-> kind]
           T(F) == [form : F, parent : Nat, kind : PublicationKinds]
<1>1. PICK F : versions \in Seq(T(F))
  BY DEF YeeScoreInv
<1>2. versions \in Seq(T(F \cup {f})) /\ e \in T(F \cup {f})
  <2>1. T(F) \subseteq T(F \cup {f})
    OBVIOUS
  <2>2. p \in Nat
    BY DEF YeeScoreInv, NoParent
  <2>3. e \in T(F \cup {f})
    BY <2>2
  <2> HIDE DEF T, e
  <2>4. QED
    BY <1>1, <2>1, <2>3, SequenceOfMore
<1> HIDE DEF e, T
<1>3. /\ versions' \in Seq(T(F \cup {f})) /\ Len(versions') = Len(versions) + 1
      /\ DOMAIN versions' = DOMAIN versions \cup {Len(versions')}
      /\ \A v \in DOMAIN versions : versions'[v] = versions[v]
      /\ versions'[Len(versions')] = e
  BY <1>2 DEF e
<1>4. e.parent = p
  BY DEF e
<1>5. MaxVersions \in Nat
  BY YeeFormAssumption DEF YeeFormAssumption
<1>6. YeeScoreTypeOK'
  BY <1>3, <1>4, <1>5 DEF YeeScoreInv, YeeScoreTypeOK
<1>7. QED
  BY <1>3, <1>6 DEF YeeScoreInv, T

\* The audit changes, as an audit of the same stamp.
LEMMA AuditChanged ==
  ASSUME YeeScoreInv, NEW n \in {Unstamped} \cup DOMAIN versions, NEW taken \in BOOLEAN, NEW given,
         NEW weights, NEW score, Stored(score),
         audit' = [stamp |-> n, taken |-> taken, answers |-> given, weights |-> weights, score |-> score],
         UNCHANGED <<versions, current, enforced>>
  PROVE  YeeScoreInv'
<1>1. n \in Nat
  BY DEF YeeScoreInv, Unstamped
<1>2. Len(score) <= 1
  <2>1. CASE score = <<>>
    BY <2>1
  <2>2. ASSUME NEW e, score = <<e>>
        PROVE  Len(score) <= 1
    BY <2>2
  <2>3. QED
    BY <2>1, <2>2 DEF Stored
<1>3. IsAnAudit(audit')
  BY <1>1 DEF IsAnAudit
<1>4. audit'.stamp = n /\ Len(audit'.score) <= 1
  BY <1>2
<1>5. YeeScoreTypeOK'
  BY <1>4 DEF YeeScoreInv, YeeScoreTypeOK
<1>6. QED
  BY <1>3, <1>5 DEF YeeScoreInv

LEMMA YeeScoreStep ==
  ASSUME YeeScoreInv, YeeScoreNext
  PROVE  YeeScoreInv'
<1>1. ASSUME NEW f, NEW kind \in PublicationKinds, NEW p \in DOMAIN versions \cup {NoParent}, Publish(f, kind, p)
      PROVE  YeeScoreInv'
  BY <1>1, VersionAdded DEF Publish
<1>2. ASSUME CreateActive \/ PublishDraft
      PROVE  YeeScoreInv'
  BY <1>1, <1>2 DEF CreateActive, PublishDraft, PublicationKinds
<1>3. ASSUME ActivateAgain
      PROVE  YeeScoreInv'
  <2>1. PICK v \in DOMAIN versions, kind \in {"copy_only", "structural"} :
           /\ versions' = [versions EXCEPT ![v].form = Admitted(@, kind, versions[v].parent),
                                           ![v].kind = kind]
           /\ current' = v /\ UNCHANGED <<enforced, audit>>
    BY <1>3 DEF ActivateAgain
  <2> DEFINE T(F) == [form : F, parent : Nat, kind : PublicationKinds]
  <2>2. PICK F : versions \in Seq(T(F))
    BY DEF YeeScoreInv
  <2> DEFINE f == Admitted(versions[v].form, kind, versions[v].parent)
             e == [versions[v] EXCEPT !.form = f, !.kind = kind]
  <2>3. /\ e \in T(F \cup {f}) /\ e.parent = versions[v].parent
        /\ versions \in Seq(T(F \cup {f}))
    <3>1. versions[v] \in T(F)
      <4> HIDE DEF T
      <4>1. v \in 1..Len(versions)
        BY <2>2
      <4>2. QED
        BY <2>2, <4>1
    <3>2. e \in T(F \cup {f}) /\ e.parent = versions[v].parent
      BY <3>1 DEF PublicationKinds
    <3>3. T(F) \subseteq T(F \cup {f})
      OBVIOUS
    <3> HIDE DEF T, e, f
    <3>4. QED
      BY <2>2, <3>2, <3>3, SequenceOfMore
  <2>4. versions' = [versions EXCEPT ![v] = e]
    BY <2>1
  <2> HIDE DEF T, e, f
  <2>5. /\ versions' \in Seq(T(F \cup {f})) /\ Len(versions') = Len(versions)
        /\ DOMAIN versions' = DOMAIN versions
        /\ \A m \in DOMAIN versions : versions'[m].parent = versions[m].parent
    BY <2>3, <2>4
  <2>6. YeeScoreTypeOK'
    BY <2>1, <2>5 DEF YeeScoreInv, YeeScoreTypeOK
  <2>7. QED
    BY <2>1, <2>5, <2>6 DEF YeeScoreInv, T
<1>4. PICK n \in Nat, taken \in BOOLEAN : \E given, weights, score :
         /\ audit = [stamp |-> n, taken |-> taken, answers |-> given, weights |-> weights, score |-> score]
         /\ Stored(score)
  BY DEF YeeScoreInv, IsAnAudit
<1>4a. PICK given, weights, score :
         /\ audit = [stamp |-> n, taken |-> taken, answers |-> given, weights |-> weights, score |-> score]
         /\ Stored(score)
  BY <1>4
<1>5. n \in {Unstamped} \cup DOMAIN versions
  BY <1>4a DEF YeeScoreInv, YeeScoreTypeOK
<1>6. ASSUME StartAudit
      PROVE  YeeScoreInv'
  <2>1. PICK w \in Weightings, m \in DOMAIN versions :
           audit' = Begun(m, FormOf(m), w) /\ UNCHANGED <<versions, current, enforced>>
    BY <1>6 DEF StartAudit
  <2>2. QED
    BY <2>1, AuditChanged DEF Begun, Stored
<1>7. ASSUME Reply
      PROVE  YeeScoreInv'
  <2>1. /\ \E cell, o : audit' = [audit EXCEPT !.answers[cell] = o]
        /\ UNCHANGED <<versions, current, enforced>>
    BY <1>7 DEF Reply
  <2>2. PICK given2 : audit' = [stamp |-> n, taken |-> taken, answers |-> given2,
                                weights |-> weights, score |-> score]
    BY <2>1, <1>4a
  <2>3. QED
    BY <1>4a, <1>5, <2>1, <2>2, AuditChanged
<1>8. ASSUME SubmitAnswers
      PROVE  YeeScoreInv'
  <2>1. audit' = [audit EXCEPT !.score = <<Scored>>] /\ UNCHANGED <<versions, current, enforced>>
    BY <1>8 DEF SubmitAnswers
  <2>2. audit' = [stamp |-> n, taken |-> taken, answers |-> given, weights |-> weights,
                  score |-> <<Scored>>]
    BY <2>1, <1>4a
  <2>3. PICK scored1 : scored1 = <<Scored>>
    OBVIOUS
  <2>4. Stored(scored1)
    BY <2>3 DEF Stored
  <2>5. audit' = [stamp |-> n, taken |-> taken, answers |-> given, weights |-> weights,
                  score |-> scored1]
    BY <2>2, <2>3
  <2>6. UNCHANGED <<versions, current, enforced>>
    BY <2>1
  <2>7. QED
    BY <1>5, <2>4, <2>5, <2>6, AuditChanged
<1>9. QED
  BY <1>2, <1>3, <1>6, <1>7, <1>8 DEF YeeScoreNext

-----------------------------------------------------------------------------
(* YEE: what is published scores *)

\* A form that can be asked for everything is asked in the order of ITEM_SPECS.
LEMMA ReadInOrder ==
  ASSUME NEW f, Labelled(f)
  PROVE  /\ Cardinality(Read(f)) = Len(Specs) /\ DOMAIN Specs = 1..Len(Specs) /\ Len(Specs) \in Nat
         /\ \A n \in DOMAIN Specs : NthRead(f, n) = n
<1>1. DOMAIN Specs = 1..Len(Specs) /\ Len(Specs) \in Nat
  BY SpecsAssumption DEF SpecsAssumption
<1>2. Read(f) = 1..Len(Specs)
  BY <1>1 DEF Labelled, Read
<1>3. \A n \in Nat : Cardinality(1..n) = n
  <2>1. SUFFICES ASSUME NEW n \in Nat PROVE Cardinality(1..n) = n
    OBVIOUS
  <2>2. Cardinality(1..n) = IF 1 > n THEN 0 ELSE n - 1 + 1
    BY FS_Interval
  <2>3. QED
    BY <2>2
<1>4. ASSUME NEW i \in 1..Len(Specs)
      PROVE  Cardinality({j \in Read(f) : j < i}) = i - 1
  <2>1. {j \in Read(f) : j < i} = 1..(i - 1) /\ i - 1 \in Nat
    BY <1>1, <1>2
  <2>2. QED
    BY <2>1, <1>3
<1>5. ASSUME NEW n \in DOMAIN Specs
      PROVE  NthRead(f, n) = n
  <2>1. NthRead(f, n) = CHOOSE i \in Read(f) : i - 1 = n - 1
    <3>1. \A i \in Read(f) : Cardinality({j \in Read(f) : j < i}) = n - 1 <=> i - 1 = n - 1
      BY <1>2, <1>4
    <3>2. QED
      BY <3>1, Zenon DEF NthRead
  <2>2. \A i \in Read(f) : i - 1 = n - 1 <=> i = n
    BY <1>1, <1>2
  <2>3. n \in Read(f)
    BY <1>1, <1>2
  <2>4. QED
    BY <2>1, <2>2, <2>3
<1>6. QED
  BY <1>1, <1>2, <1>3, <1>5

LEMMA DerivedInFull ==
  ASSUME NEW f, Labelled(f)
  PROVE  Derived(f) = [i \in DOMAIN Specs |-> DerivedQuestion(f, Specs[i])]
BY ReadInOrder DEF Derived

\* The question that is derived from a scored item is scored as that item.
LEMMA DerivedReads ==
  ASSUME NEW f, Labelled(f), NEW i \in DOMAIN Specs
  PROVE  /\ SpecOf(DerivedQuestion(f, Specs[i])) = Specs[i]
         /\ Scorable(DerivedQuestion(f, Specs[i]))
<1> DEFINE s == Specs[i]
           q == DerivedQuestion(f, s)
<1>1. /\ s = [id |-> s.id, domain |-> s.domain, item |-> s.item, choice |-> s.choice, cond |-> s.cond,
              primary |-> s.primary, condition |-> s.condition]
      /\ s.item # NoItem /\ IsMarking(s.primary)
      /\ IF Paired(s) THEN IsMarking(s.condition) /\ \E o \in DOMAIN s.primary : s.primary[o] > 0
         ELSE s.condition = <<>>
  BY SpecsAssumption DEF SpecsAssumption
<1>2. /\ DOMAIN s.primary \subseteq DOMAIN f.items[s.item].labels
      /\ Paired(s) => s.cond \in DOMAIN f.items /\ DOMAIN s.condition \subseteq DOMAIN f.items[s.cond].labels
  BY DEF Labelled
<1>3. s.domain \in Domains
  BY DEF Domains
<1> HIDE DEF s
<1>4. ASSUME NEW m, NEW labels, IsMarking(m), DOMAIN m \subseteq DOMAIN labels
      PROVE  ScoresOf(Offer(m, labels)) = m /\ DOMAIN Offer(m, labels) = DOMAIN m
  <2>1. DOMAIN m \cap DOMAIN labels = DOMAIN m
    BY <1>4
  <2>2. QED
    BY <1>4, <2>1 DEF IsMarking, Offer, ScoresOf
<1>5. /\ q.id = s.id /\ q.domain = s.domain /\ q.item = s.item /\ q.choice = s.choice /\ q.cond = s.cond
      /\ q.options = Offer(s.primary, f.items[s.item].labels)
      /\ q.method = IF Paired(s) THEN "product" ELSE "option"
  BY DEF DerivedQuestion
<1>6. ScoresOf(q.options) = s.primary /\ DOMAIN q.options = DOMAIN s.primary
  BY <1>1, <1>2, <1>4, <1>5
<1>7. CASE Paired(s)
  <2>1. s.cond \in DOMAIN f.items
    BY <1>2, <1>7
  <2> DEFINE options == Offer(s.condition, f.items[s.cond].labels)
  <2>2. ScoresOf(options) = s.condition /\ DOMAIN options = DOMAIN s.condition
    BY <1>1, <1>2, <1>4, <1>7
  <2>3. DOMAIN options # {}
    BY <1>1, <1>7, <2>2 DEF IsMarking
  <2>4. q.follow = [triggers |-> {o \in DOMAIN s.primary : s.primary[o] > 0},
                    required |-> TRUE, options |-> options]
    BY <1>7, <2>1, <2>3 DEF DerivedQuestion
  <2>5. q.follow # NoFollow
    <3>1. DOMAIN NoFollow = {"none"} /\ DOMAIN q.follow = {"triggers", "required", "options"}
      BY <2>4 DEF NoFollow
    <3>2. QED
      BY <3>1
  <2>6. /\ q.follow.triggers # {} /\ q.follow.triggers \subseteq DOMAIN q.options
        /\ q.follow.options = options
    BY <1>1, <1>6, <1>7, <2>4
  <2>7. Scorable(q)
    BY <1>1, <1>3, <1>5, <1>6, <1>7, <2>3, <2>5, <2>6 DEF Scorable, IsMarking, Paired
  <2> HIDE DEF q, options
  <2>8. SpecOf(q) = [id |-> s.id, domain |-> s.domain, item |-> s.item, choice |-> s.choice,
                     cond |-> s.cond, primary |-> s.primary, condition |-> s.condition]
    BY <1>5, <1>6, <2>2, <2>5, <2>6 DEF SpecOf
  <2>9. QED
    BY <1>1, <2>7, <2>8 DEF s, q
<1>8. CASE ~Paired(s)
  <2>1. q.follow = NoFollow
    BY <1>8 DEF DerivedQuestion
  <2>2. Scorable(q)
    BY <1>1, <1>3, <1>5, <1>6, <1>8, <2>1 DEF Scorable, IsMarking, Paired
  <2> HIDE DEF q
  <2>3. SpecOf(q) = [id |-> s.id, domain |-> s.domain, item |-> s.item, choice |-> s.choice,
                     cond |-> s.cond, primary |-> s.primary, condition |-> s.condition]
    BY <1>1, <1>5, <1>6, <1>8, <2>1 DEF SpecOf
  <2>4. QED
    BY <1>1, <2>2, <2>3 DEF s, q
<1>9. QED
  BY <1>7, <1>8

\* A form that asks for whatever it scores.
Sound(f) == IsForm(f) /\ Entire(f)

\* Its contract is what its questions give, whether it is authored or not.
LEMMA ContractOfQuestions ==
  ASSUME NEW f, Sound(f)
  PROVE  /\ Contract(f) = [i \in DOMAIN Questions(f) |-> SpecOf(Questions(f)[i])]
         /\ \A i \in DOMAIN Questions(f) : Scorable(Questions(f)[i])
         /\ DistinctIds(Questions(f))
<1>1. CASE f.authored
  BY <1>1 DEF Sound, Entire, Resolves, Contract, Questions
<1>2. CASE ~f.authored
  <2>1. /\ Questions(f) = [i \in DOMAIN Specs |-> DerivedQuestion(f, Specs[i])]
        /\ Contract(f) = Specs
    BY <1>2, DerivedInFull DEF Sound, Entire, Questions, Contract
  <2>2. Specs = [i \in DOMAIN Specs |-> Specs[i]]
    BY SpecsAssumption DEF SpecsAssumption
  <2>3. \A i \in DOMAIN Specs : SpecOf(Questions(f)[i]) = Specs[i] /\ Scorable(Questions(f)[i])
    BY <1>2, <2>1, DerivedReads DEF Sound, Entire
  <2>4. Contract(f) = [i \in DOMAIN Questions(f) |-> SpecOf(Questions(f)[i])]
    BY <2>1, <2>2, <2>3, Zenon
  <2>5. \A i \in DOMAIN Questions(f) : Questions(f)[i].id = Specs[i].id
    <3>1. \A i \in DOMAIN Specs : SpecOf(Questions(f)[i]).id = Specs[i].id
      BY <2>3
    <3>2. QED
      BY <2>1, <3>1 DEF SpecOf
  <2>6. DistinctIds(Questions(f))
    BY <2>1, <2>5, SpecsAssumption DEF DistinctIds, SpecsAssumption
  <2>7. QED
    BY <2>1, <2>3, <2>4, <2>6
<1>3. QED
  BY <1>1, <1>2

\* Questions that keep the structure of others score, and are missing, as those.
LEMMA StructureIsKept ==
  ASSUME NEW qs, NEW ps, KeepsStructure(qs, ps)
  PROVE  /\ DOMAIN qs = DOMAIN ps
         /\ \A i \in DOMAIN qs :
              /\ qs[i].id = ps[i].id
              /\ SpecOf(qs[i]) = SpecOf(ps[i])
              /\ Scorable(ps[i]) => Scorable(qs[i])
              /\ \A given : Unanswered(qs[i], given) <=> Unanswered(ps[i], given)
<1>1. DOMAIN qs = DOMAIN ps
  BY DEF KeepsStructure
<1>2. SUFFICES ASSUME NEW i \in DOMAIN qs
               PROVE  /\ qs[i].id = ps[i].id
                      /\ SpecOf(qs[i]) = SpecOf(ps[i])
                      /\ Scorable(ps[i]) => Scorable(qs[i])
                      /\ \A given : Unanswered(qs[i], given) <=> Unanswered(ps[i], given)
  BY <1>1
<1> DEFINE q == qs[i]
           p == ps[i]
<1>3. q.id = p.id /\ q.item = p.item /\ q.choice = p.choice /\ q.cond = p.cond
  BY DEF KeepsStructure, Binding
<1>4. KeepsQuestion(q, p)
  BY <1>1, <1>3 DEF KeepsStructure
<1> HIDE DEF q, p
<1>5. /\ q.method = p.method /\ q.domain = p.domain
      /\ (q.follow = NoFollow) <=> (p.follow = NoFollow)
      /\ ScoresOf(q.options) = ScoresOf(p.options)
      /\ q.follow # NoFollow => /\ ScoresOf(q.follow.options) = ScoresOf(p.follow.options)
                                /\ q.follow.triggers = p.follow.triggers
                                /\ q.follow.required = p.follow.required
  BY <1>4 DEF KeepsQuestion
<1>6. DOMAIN q.options = DOMAIN p.options
  BY <1>5 DEF ScoresOf
<1>7. q.follow # NoFollow => DOMAIN q.follow.options = DOMAIN p.follow.options
  BY <1>5 DEF ScoresOf
<1>8. SpecOf(q) = SpecOf(p)
  BY <1>3, <1>5 DEF SpecOf
<1>9. Scorable(p) => Scorable(q)
  BY <1>3, <1>5, <1>6, <1>7 DEF Scorable
<1>10. \A given : Unanswered(q, given) <=> Unanswered(p, given)
  BY <1>3, <1>5 DEF Unanswered, Follows
<1>11. QED
  BY <1>3, <1>8, <1>9, <1>10 DEF q, p

\* What a gate admits keeps the questions it was submitted with, which those of its
\* parent bind or which can be scored.
LEMMA AdmittedIsBound ==
  ASSUME NEW f, IsForm(f), NEW kind \in PublicationKinds, NEW p, Admissible(f, kind, p)
  PROVE  LET g == Admitted(f, kind, p) IN
         /\ IsForm(g) /\ g.authored = f.authored /\ g.questions = f.questions
         /\ ~f.authored => g = f
         /\ IF kind = "copy_only" /\ f.authored
            THEN p # NoParent /\ KeepsStructure(f.questions, Questions(versions[p].form))
            ELSE Resolves(g)
<1> DEFINE g == Admitted(f, kind, p)
<1>1. CASE ~f.authored
  BY <1>1 DEF Admitted, Resolves
<1>2. CASE f.authored /\ kind = "structural"
  BY <1>2 DEF Admissible, Admitted, StandsAlone
<1>3. CASE f.authored /\ kind = "copy_only"
  <2>1. p # NoParent /\ KeepsStructure(f.questions, Questions(versions[p].form))
    BY <1>3 DEF Admissible, MayCopy
  <2>2. \E items : g = [authored |-> f.authored, questions |-> f.questions, items |-> items]
    BY <1>3 DEF Admitted, CopyOf, IsForm
  <2>3. g.authored = f.authored /\ g.questions = f.questions /\ IsForm(g)
    <3>1. PICK items : g = [authored |-> f.authored, questions |-> f.questions, items |-> items]
      BY <2>2
    <3> HIDE DEF g
    <3>2. QED
      BY <3>1 DEF IsForm
  <2>4. QED
    BY <1>3, <2>1, <2>3
<1>4. QED
  BY <1>1, <1>2, <1>3 DEF PublicationKinds

\* A copy keeps the structure of its parent, whatever has been activated since, and
\* what is no copy can be scored.
Copied(v) == versions[v].parent # NoParent /\ versions[v].kind = "copy_only" /\ versions[v].form.authored
KeepsParent(v) ==
  IF Copied(v) THEN KeepsStructure(versions[v].form.questions, Questions(versions[versions[v].parent].form))
  ELSE Resolves(versions[v].form)
Publications == \A v \in DOMAIN versions : IsForm(versions[v].form) /\ KeepsParent(v)

\* No version that an audit may bear is ever asked or scored in another way.
FormsStay ==
  \A v \in {Unstamped} \cup DOMAIN versions :
     /\ Questions(FormOf(v))' = Questions(FormOf(v)) /\ Contract(FormOf(v))' = Contract(FormOf(v))
     /\ Entire(FormOf(v))' <=> Entire(FormOf(v))

LEMMA ShippedIsEntire == IsForm(Shipped) /\ Resolves(Shipped)
BY YeeFormAssumption DEF YeeFormAssumption, Resolves

\* A version is added, or written again with the questions that it has.
LEMMA VersionWritten ==
  ASSUME YeeScoreInv, Publications,
         NEW g, NEW kind, NEW p \in {NoParent} \cup DOMAIN versions, NEW w \in Nat \ {0},
         DOMAIN versions' = DOMAIN versions \cup {w},
         versions'[w].form = g, versions'[w].parent = p, versions'[w].kind = kind,
         \A v \in DOMAIN versions : v # w => versions'[v] = versions[v],
         IsForm(g),
         IF p # NoParent /\ kind = "copy_only" /\ g.authored
         THEN KeepsStructure(g.questions, Questions(versions[p].form)) ELSE Resolves(g),
         w \in DOMAIN versions => /\ Questions(g) = Questions(versions[w].form)
                                  /\ Contract(g) = Contract(versions[w].form)
                                  /\ Entire(g) <=> Entire(versions[w].form)
  PROVE  Publications' /\ FormsStay
<1>1. \A v \in DOMAIN versions : /\ Questions(versions'[v].form) = Questions(versions[v].form)
                                 /\ Contract(versions'[v].form) = Contract(versions[v].form)
                                 /\ Entire(versions'[v].form) <=> Entire(versions[v].form)
  OBVIOUS
<1>2. FormsStay
  BY <1>1 DEF FormsStay, FormOf
<1>3. ASSUME NEW v \in DOMAIN versions'
      PROVE  IsForm(versions'[v].form) /\ KeepsParent(v)'
  <2>1. CASE v = w
    BY <1>1, <2>1 DEF KeepsParent, Copied
  <2>2. CASE v # w
    <3>1. v \in DOMAIN versions /\ versions'[v] = versions[v]
      BY <2>2
    <3>2. versions[v].parent \in {NoParent} \cup DOMAIN versions
      BY <3>1 DEF YeeScoreInv, YeeScoreTypeOK
    <3>3. QED
      BY <1>1, <3>1, <3>2 DEF Publications, KeepsParent, Copied
  <2>3. QED
    BY <2>1, <2>2
<1>4. QED
  BY <1>2, <1>3 DEF Publications

LEMMA PublishKeeps ==
  ASSUME YeeScoreInv, Publications, NEW f, IsForm(f),
         NEW kind \in PublicationKinds, NEW p \in {NoParent} \cup DOMAIN versions, Publish(f, kind, p)
  PROVE  Publications' /\ FormsStay
<1> DEFINE g == Admitted(f, kind, p)
           e == [form |-> g, parent |-> p, kind |-> kind]
           w == Len(versions) + 1
<1>1. PICK F : versions \in Seq([form : F, parent : Nat, kind : PublicationKinds])
  BY DEF YeeScoreInv
<1>2. versions' = Append(versions, e)
  BY DEF Publish
<1>3. e.form = g /\ e.parent = p /\ e.kind = kind
  OBVIOUS
<1>4. /\ IsForm(g) /\ g.authored = f.authored /\ g.questions = f.questions
      /\ IF kind = "copy_only" /\ f.authored
         THEN p # NoParent /\ KeepsStructure(f.questions, Questions(versions[p].form)) ELSE Resolves(g)
  <2>1. Admissible(f, kind, p)
    BY DEF Publish
  <2>2. QED
    BY <2>1, AdmittedIsBound
<1> HIDE DEF e, g
<1>5. /\ w \in Nat \ {0} /\ w \notin DOMAIN versions
      /\ DOMAIN versions' = DOMAIN versions \cup {w} /\ versions'[w] = e
      /\ \A v \in DOMAIN versions : v # w => versions'[v] = versions[v]
  BY <1>1, <1>2
<1> HIDE DEF w
<1>6. IF p # NoParent /\ kind = "copy_only" /\ g.authored
      THEN KeepsStructure(g.questions, Questions(versions[p].form)) ELSE Resolves(g)
  BY <1>4
<1>7. versions'[w].form = g /\ versions'[w].parent = p /\ versions'[w].kind = kind
  BY <1>3, <1>5
<1>8. w \in DOMAIN versions => /\ Questions(g) = Questions(versions[w].form)
                               /\ Contract(g) = Contract(versions[w].form)
                               /\ Entire(g) <=> Entire(versions[w].form)
  BY <1>5
<1>9. QED
  BY <1>4, <1>5, <1>6, <1>7, <1>8, VersionWritten

LEMMA ActivateKeeps ==
  ASSUME YeeScoreInv, Publications, ActivateAgain
  PROVE  Publications' /\ FormsStay
<1>1. PICK v \in DOMAIN versions, kind \in {"copy_only", "structural"} :
         /\ Admissible(versions[v].form, kind, versions[v].parent)
         /\ versions' = [versions EXCEPT ![v].form = Admitted(@, kind, versions[v].parent), ![v].kind = kind]
  BY DEF ActivateAgain
<1> DEFINE f == versions[v].form
           p == versions[v].parent
           g == Admitted(f, kind, p)
           e == [versions[v] EXCEPT !.form = g, !.kind = kind]
<1>2. PICK F : versions \in Seq([form : F, parent : Nat, kind : PublicationKinds])
  BY DEF YeeScoreInv
<1>3. versions[v] \in [form : F, parent : Nat, kind : PublicationKinds] /\ v \in Nat \ {0}
  <2> DEFINE T == [form : F, parent : Nat, kind : PublicationKinds]
  <2> HIDE DEF T
  <2>1. versions \in Seq(T)
    BY <1>2 DEF T
  <2>2. versions[v] \in T /\ v \in Nat \ {0}
    BY <2>1
  <2>3. QED
    BY <2>2 DEF T
<1>4. e.form = g /\ e.parent = p /\ e.kind = kind
  BY <1>3
<1>5. versions' = [versions EXCEPT ![v] = e]
  BY <1>1
<1>6. p \in {NoParent} \cup DOMAIN versions
  BY DEF YeeScoreInv, YeeScoreTypeOK
<1>7. IsForm(f)
  BY DEF Publications
<1>8. Admissible(f, kind, p) /\ kind \in PublicationKinds
  BY <1>1 DEF PublicationKinds
<1> HIDE DEF e, g, f, p
<1>9. /\ IsForm(g) /\ g.authored = f.authored /\ g.questions = f.questions /\ (~f.authored => g = f)
      /\ IF kind = "copy_only" /\ f.authored
         THEN p # NoParent /\ KeepsStructure(f.questions, Questions(versions[p].form)) ELSE Resolves(g)
  BY <1>7, <1>8, AdmittedIsBound DEF g
<1>10. Questions(g) = Questions(f) /\ Contract(g) = Contract(f) /\ (Entire(g) <=> Entire(f))
  BY <1>9 DEF Questions, Contract, Entire, Resolves
<1>11. /\ DOMAIN versions' = DOMAIN versions \cup {v} /\ versions'[v] = e
       /\ \A u \in DOMAIN versions : u # v => versions'[u] = versions[u]
  BY <1>2, <1>5
<1>12. IF p # NoParent /\ kind = "copy_only" /\ g.authored
       THEN KeepsStructure(g.questions, Questions(versions[p].form)) ELSE Resolves(g)
  BY <1>9
<1>13. versions'[v].form = g /\ versions'[v].parent = p /\ versions'[v].kind = kind
  BY <1>4, <1>11
<1>14. v \in DOMAIN versions => /\ Questions(g) = Questions(versions[v].form)
                                /\ Contract(g) = Contract(versions[v].form)
                                /\ Entire(g) <=> Entire(versions[v].form)
  BY <1>10 DEF f
<1>15. QED
  BY <1>3, <1>6, <1>9, <1>11, <1>12, <1>13, <1>14, VersionWritten

\* The cells of a question hold options of it, or nothing yet.
Fits(q, given) ==
  /\ Given(given, q.item, q.choice) \in {NoAnswer} \cup DOMAIN q.options
  /\ q.follow # NoFollow => Given(given, q.cond, q.choice) \in {NoAnswer} \cup DOMAIN q.follow.options

\* What has been answered fits the form, where it asks for what it scores, and a stored score is the one it gives.
AuditFits ==
  LET f == FormOf(audit.stamp) IN
  /\ audit.taken => audit.weights \in Weightings
  /\ audit.taken /\ Entire(f) /\ OwnCells(f) => \A i \in DOMAIN Questions(f) : Fits(Questions(f)[i], audit.answers)
  /\ audit.score # <<>> => /\ audit.taken /\ audit.score[1] = Scored
                           /\ enforced => Missing(f, audit.answers) = {}

PublicationInv == YeeScoreInv /\ Publications /\ AuditFits

LEMMA BegunFits ==
  ASSUME NEW n, NEW f, NEW weights, NEW q
  PROVE  Fits(q, Begun(n, f, weights).answers)
<1>1. \A c \in DOMAIN Begun(n, f, weights).answers : Begun(n, f, weights).answers[c] = NoAnswer
  BY DEF Begun
<1>2. \A a, b : Given(Begun(n, f, weights).answers, a, b) = NoAnswer
  BY <1>1 DEF Given
<1>3. QED
  BY <1>2 DEF Fits

LEMMA PublicationInit ==
  ASSUME YeeScoreInit
  PROVE  PublicationInv
<1>1. YeeScoreInv
  BY YeeScoreInitHolds
<1>2. Publications
  <2> DEFINE e == [form |-> Shipped, parent |-> NoParent, kind |-> "copy_only"]
  <2>1. versions = <<e>> /\ e.form = Shipped /\ e.parent = NoParent
    BY DEF YeeScoreInit
  <2> HIDE DEF e
  <2>2. DOMAIN versions = {1} /\ versions[1] = e
    BY <2>1
  <2>3. QED
    BY <2>1, <2>2, ShippedIsEntire DEF Publications, KeepsParent, Copied
<1>3. audit.score = <<>> /\ (~audit.taken \/ \E weights \in Weightings : audit = Begun(Unstamped, Shipped, weights))
  BY DEF YeeScoreInit, Untaken, Begun
<1>4. AuditFits
  <2>1. ASSUME NEW weights \in Weightings, audit = Begun(Unstamped, Shipped, weights)
        PROVE  audit.weights \in Weightings /\ \A q : Fits(q, audit.answers)
    <3>1. audit.weights = weights
      BY <2>1 DEF Begun
    <3>2. QED
      BY <2>1, <3>1, BegunFits
  <2>2. QED
    BY <1>3, <2>1 DEF AuditFits
<1>5. QED
  BY <1>1, <1>2, <1>4 DEF PublicationInv

\* The versions change: an audit is asked and scored as before.
LEMMA AuditStays ==
  ASSUME PublicationInv, FormsStay, UNCHANGED <<enforced, audit>>
  PROVE  AuditFits'
<1> DEFINE f == FormOf(audit.stamp)
<1>1. audit.stamp \in {Unstamped} \cup DOMAIN versions
  BY DEF PublicationInv, YeeScoreInv, YeeScoreTypeOK
<1>2. Questions(f)' = Questions(f) /\ Contract(f)' = Contract(f)
  BY <1>1 DEF FormsStay
<1>3. Scored' = Scored
  BY <1>2 DEF Scored
<1>4. (OwnCells(f)' <=> OwnCells(f)) /\ (Entire(f)' <=> Entire(f))
  BY <1>1, <1>2 DEF OwnCells, FormsStay
<1>5. Missing(f, audit.answers)' = Missing(f, audit.answers)
  BY <1>2 DEF Missing
<1>6. QED
  BY <1>2, <1>3, <1>4, <1>5 DEF AuditFits, PublicationInv

\* A question fits a cell that is written with one of its options.
LEMMA CellWritten ==
  ASSUME NEW q, NEW given, Fits(q, given), NEW c, NEW o,
         <<q.item, q.choice>> = c => o \in DOMAIN q.options,
         q.follow # NoFollow /\ <<q.cond, q.choice>> = c => o \in DOMAIN q.follow.options
  PROVE  Fits(q, [given EXCEPT ![c] = o])
<1> DEFINE next == [given EXCEPT ![c] = o]
<1>1. ASSUME NEW a, NEW b
      PROVE  /\ <<a, b>> # c => Given(next, a, b) = Given(given, a, b)
             /\ <<a, b>> = c => Given(next, a, b) \in {NoAnswer, o}
  BY DEF Given
<1> HIDE DEF next
<1>2. Given(next, q.item, q.choice) \in {NoAnswer} \cup DOMAIN q.options
  <2>1. CASE <<q.item, q.choice>> = c
    BY <1>1, <2>1
  <2>2. CASE <<q.item, q.choice>> # c
    BY <1>1, <2>2 DEF Fits
  <2>3. QED
    BY <2>1, <2>2
<1>3. ASSUME q.follow # NoFollow
      PROVE  Given(next, q.cond, q.choice) \in {NoAnswer} \cup DOMAIN q.follow.options
  <2>1. CASE <<q.cond, q.choice>> = c
    BY <1>1, <1>3, <2>1
  <2>2. CASE <<q.cond, q.choice>> # c
    BY <1>1, <1>3, <2>2 DEF Fits
  <2>3. QED
    BY <2>1, <2>2
<1>4. QED
  BY <1>2, <1>3 DEF Fits, next

\* A reply that the form offers fits it.
LEMMA ReplyFits ==
  ASSUME PublicationInv, Reply
  PROVE  AuditFits'
<1> DEFINE f == FormOf(audit.stamp)
           qs == Questions(f)
<1>1. PICK i \in DOMAIN qs :
         /\ audit.taken /\ audit.score = <<>>
         /\ \/ \E o \in DOMAIN qs[i].options : audit' = [audit EXCEPT !.answers[<<qs[i].item, qs[i].choice>>] = o]
            \/ /\ Follows(qs[i], audit.answers)
               /\ \E o \in DOMAIN qs[i].follow.options :
                     audit' = [audit EXCEPT !.answers[<<qs[i].cond, qs[i].choice>>] = o]
         /\ UNCHANGED <<versions, current, enforced>>
  BY DEF Reply
<1>2. PICK n \in Nat, taken \in BOOLEAN : \E given, weights, score :
         audit = [stamp |-> n, taken |-> taken, answers |-> given, weights |-> weights, score |-> score]
  BY DEF PublicationInv, YeeScoreInv, IsAnAudit
<1>3. PICK given, weights, score :
         audit = [stamp |-> n, taken |-> taken, answers |-> given, weights |-> weights, score |-> score]
  BY <1>2
<1>4. ASSUME NEW c, NEW o, audit' = [audit EXCEPT !.answers[c] = o]
      PROVE  /\ audit'.stamp = audit.stamp /\ audit'.score = audit.score /\ audit'.taken = audit.taken
             /\ audit'.weights = audit.weights /\ audit'.answers = [audit.answers EXCEPT ![c] = o]
  BY <1>3, <1>4
<1>5. audit'.stamp = audit.stamp /\ audit'.score = <<>> /\ audit'.taken /\ audit'.weights \in Weightings
  BY <1>1, <1>4 DEF PublicationInv, AuditFits
<1>6. FormOf(audit.stamp)' = f
  BY <1>1, <1>5 DEF FormOf
<1>7. Entire(f) => \A j \in DOMAIN qs : qs[j].follow # NoFollow => qs[j].cond # NoItem
  <2>1. IsForm(f)
    BY ShippedIsEntire DEF PublicationInv, YeeScoreInv, YeeScoreTypeOK, Publications, FormOf
  <2>2. Entire(f) => \A j \in DOMAIN qs : Scorable(qs[j])
    BY <2>1, ContractOfQuestions DEF Sound
  <2> HIDE DEF qs
  <2>3. QED
    BY <2>2 DEF Scorable
<1>8. ASSUME OwnCells(f), Entire(f), NEW j \in DOMAIN qs
      PROVE  Fits(qs[j], audit'.answers)
  <2>1. Fits(qs[j], audit.answers)
    BY <1>1, <1>8 DEF PublicationInv, AuditFits
  <2>2. \A k, m \in DOMAIN qs : qs[k].choice = qs[m].choice =>
          /\ qs[k].item = qs[m].item => k = m
          /\ qs[k].cond # NoItem => qs[k].cond # qs[m].item /\ (qs[k].cond = qs[m].cond => k = m)
    BY <1>8 DEF OwnCells
  <2> HIDE DEF qs, f
  <2>3. ASSUME NEW o \in DOMAIN qs[i].options,
               audit' = [audit EXCEPT !.answers[<<qs[i].item, qs[i].choice>>] = o]
        PROVE  Fits(qs[j], audit'.answers)
    <3>1. audit'.answers = [audit.answers EXCEPT ![<<qs[i].item, qs[i].choice>>] = o]
      BY <1>4, <2>3
    <3>2. <<qs[j].item, qs[j].choice>> = <<qs[i].item, qs[i].choice>> => o \in DOMAIN qs[j].options
      BY <2>2, <2>3
    <3>3. qs[j].follow # NoFollow => <<qs[j].cond, qs[j].choice>> # <<qs[i].item, qs[i].choice>>
      BY <1>7, <1>8, <2>2
    <3>4. QED
      BY <2>1, <3>1, <3>2, <3>3, CellWritten
  <2>4. ASSUME Follows(qs[i], audit.answers), NEW o \in DOMAIN qs[i].follow.options,
               audit' = [audit EXCEPT !.answers[<<qs[i].cond, qs[i].choice>>] = o]
        PROVE  Fits(qs[j], audit'.answers)
    <3>1. audit'.answers = [audit.answers EXCEPT ![<<qs[i].cond, qs[i].choice>>] = o]
      BY <1>4, <2>4
    <3>2. qs[i].cond # NoItem
      BY <2>4 DEF Follows
    <3>3. <<qs[j].item, qs[j].choice>> # <<qs[i].cond, qs[i].choice>>
      BY <2>2, <3>2
    <3>4. qs[j].follow # NoFollow /\ <<qs[j].cond, qs[j].choice>> = <<qs[i].cond, qs[i].choice>>
            => o \in DOMAIN qs[j].follow.options
      BY <2>2, <2>4, <3>2
    <3>5. <<qs[j].item, qs[j].choice>> = <<qs[i].cond, qs[i].choice>> => o \in DOMAIN qs[j].options
      BY <3>3
    <3>6. Fits(qs[j], [audit.answers EXCEPT ![<<qs[i].cond, qs[i].choice>>] = o])
      BY <2>1, <3>4, <3>5, CellWritten
    <3>7. QED
      BY <3>1, <3>6
  <2>5. QED
    BY <1>1, <2>3, <2>4
<1>9. QED
  BY <1>5, <1>6, <1>8 DEF AuditFits

LEMMA AuditStep ==
  ASSUME PublicationInv, StartAudit \/ SubmitAnswers
  PROVE  AuditFits'
<1>1. ASSUME StartAudit
      PROVE  AuditFits'
  <2>1. PICK weights \in Weightings, m \in DOMAIN versions :
           audit' = Begun(m, FormOf(m), weights) /\ UNCHANGED <<versions, current, enforced>>
    BY <1>1 DEF StartAudit
  <2>2. audit'.score = <<>> /\ audit'.weights \in Weightings /\ \A q : Fits(q, audit'.answers)
    <3>1. audit'.score = <<>> /\ audit'.weights = weights
      BY <2>1 DEF Begun
    <3>2. QED
      BY <2>1, <3>1, BegunFits
  <2>3. QED
    BY <2>2 DEF AuditFits
<1>2. ASSUME SubmitAnswers
      PROVE  AuditFits'
  <2>1. /\ audit.taken /\ (enforced => Missing(FormOf(audit.stamp), audit.answers) = {})
        /\ audit' = [audit EXCEPT !.score = <<Scored>>]
        /\ UNCHANGED <<versions, current, enforced>>
    BY <1>2 DEF SubmitAnswers
  <2>2. PICK n \in Nat, taken \in BOOLEAN : \E given, weights, score :
           audit = [stamp |-> n, taken |-> taken, answers |-> given, weights |-> weights, score |-> score]
    BY DEF PublicationInv, YeeScoreInv, IsAnAudit
  <2>3. PICK given, weights, score :
           audit = [stamp |-> n, taken |-> taken, answers |-> given, weights |-> weights, score |-> score]
    BY <2>2
  <2>4. /\ audit'.stamp = audit.stamp /\ audit'.taken = audit.taken /\ audit'.answers = audit.answers
        /\ audit'.weights = audit.weights /\ audit'.score = <<Scored>>
    BY <2>1, <2>3
  <2>5. FormOf(audit.stamp)' = FormOf(audit.stamp)
    BY <2>1, <2>4 DEF FormOf
  <2>6. Scored' = Scored
    BY <2>4, <2>5 DEF Scored
  <2>7. audit'.score[1] = Scored
    BY <2>4
  <2>8. QED
    BY <2>1, <2>4, <2>5, <2>6, <2>7 DEF AuditFits, PublicationInv
<1>3. QED
  BY <1>1, <1>2

LEMMA PublicationStep ==
  ASSUME PublicationInv, [YeeScoreNext]_yeeScoreVars
  PROVE  PublicationInv'
<1>1. YeeScoreInv'
  <2>1. CASE UNCHANGED yeeScoreVars
    BY <2>1 DEF PublicationInv, YeeScoreInv, YeeScoreTypeOK, IsAnAudit, yeeScoreVars
  <2>2. QED
    BY <2>1, YeeScoreStep DEF PublicationInv
<1>2. ASSUME NEW f, f \in Forms \cup {Shipped}
      PROVE  IsForm(f) /\ IsForm(Stripped(f))
  <2>1. IsForm(f)
    BY <1>2, YeeFormAssumption DEF YeeFormAssumption
  <2>2. CASE f.authored /\ f.questions = Derived(f)
    <3>1. Stripped(f) = [authored |-> FALSE, questions |-> <<>>, items |-> f.items]
      BY <2>1, <2>2 DEF Stripped, IsForm
    <3>2. IsForm(Stripped(f))
      BY <3>1 DEF IsForm
    <3>3. QED
      BY <2>1, <3>2
  <2>3. CASE ~(f.authored /\ f.questions = Derived(f))
    BY <2>1, <2>3 DEF Stripped
  <2>4. QED
    BY <2>2, <2>3
<1>3. ASSUME NEW f, IsForm(f), NEW kind \in PublicationKinds,
             NEW p \in {NoParent} \cup DOMAIN versions, Publish(f, kind, p)
      PROVE  PublicationInv'
  <2>1. Publications' /\ FormsStay
    BY <1>3, PublishKeeps DEF PublicationInv
  <2>2. QED
    BY <1>1, <1>3, <2>1, AuditStays DEF PublicationInv, Publish
<1>4. ASSUME CreateActive
      PROVE  PublicationInv'
  BY <1>2, <1>3, <1>4 DEF CreateActive, PublicationKinds
<1>5. ASSUME PublishDraft
      PROVE  PublicationInv'
  BY <1>2, <1>3, <1>5 DEF PublishDraft, PublicationKinds
<1>6. ASSUME ActivateAgain
      PROVE  PublicationInv'
  <2>1. Publications' /\ FormsStay
    BY <1>6, ActivateKeeps DEF PublicationInv
  <2>2. UNCHANGED <<enforced, audit>>
    BY <1>6 DEF ActivateAgain
  <2>3. QED
    BY <1>1, <2>1, <2>2, AuditStays DEF PublicationInv
<1>7. ASSUME StartAudit \/ SubmitAnswers \/ Reply
      PROVE  PublicationInv'
  <2>1. versions' = versions
    BY <1>7 DEF StartAudit, SubmitAnswers, Reply
  <2>2. Publications'
    BY <2>1 DEF PublicationInv, Publications, KeepsParent, Copied
  <2>3. AuditFits'
    BY <1>7, AuditStep, ReplyFits
  <2>4. QED
    BY <1>1, <2>2, <2>3 DEF PublicationInv
<1>8. CASE UNCHANGED yeeScoreVars
  <2>1. Publications' /\ FormsStay /\ UNCHANGED <<enforced, audit>>
    BY <1>8 DEF PublicationInv, Publications, KeepsParent, Copied, FormsStay, FormOf, yeeScoreVars
  <2>2. QED
    BY <1>1, <2>1, AuditStays DEF PublicationInv
<1>9. QED
  BY <1>4, <1>5, <1>6, <1>7, <1>8 DEF YeeScoreNext

\* What keeps the structure of a form that asks for whatever it scores is scored as it.
LEMMA CopyScores ==
  ASSUME NEW f, f.authored, NEW p, Sound(p), KeepsStructure(f.questions, Questions(p))
  PROVE  Resolves(f) /\ Contract(f) = Contract(p)
<1> DEFINE qs == f.questions
           ps == Questions(p)
<1>1. /\ Contract(p) = [i \in DOMAIN ps |-> SpecOf(ps[i])]
      /\ DistinctIds(ps) /\ \A i \in DOMAIN ps : Scorable(ps[i])
  BY ContractOfQuestions
<1>2. Contract(f) = [i \in DOMAIN qs |-> SpecOf(qs[i])]
  BY DEF Contract
<1> HIDE DEF qs, ps
<1>3. /\ DOMAIN qs = DOMAIN ps
      /\ \A i \in DOMAIN qs : /\ qs[i].id = ps[i].id /\ SpecOf(qs[i]) = SpecOf(ps[i])
                              /\ Scorable(ps[i]) => Scorable(qs[i])
  BY StructureIsKept DEF qs, ps
<1>4. DistinctIds(qs) /\ \A i \in DOMAIN qs : Scorable(qs[i])
  BY <1>1, <1>3 DEF DistinctIds
<1>5. Contract(f) = Contract(p)
  BY <1>1, <1>2, <1>3, Zenon
<1>6. QED
  BY <1>4, <1>5 DEF Resolves, qs

\* What has been published scores audits, and copies read them as their parents.
LEMMA PublishedScore ==
  ASSUME PublicationInv
  PROVE  PublishedVersionsScore
<1>1. ASSUME NEW v \in DOMAIN versions
      PROVE  LET f == versions[v].form
                 p == versions[versions[v].parent].form
                 copied == versions[v].parent # NoParent /\ versions[v].kind = "copy_only" /\ f.authored
             IN /\ copied => Missing(f, audit.answers) = Missing(p, audit.answers)
                /\ (copied => Entire(p)) => Resolves(f)
                /\ copied /\ Entire(p) => Contract(f) = Contract(p)
  <2> DEFINE f == versions[v].form
             p == versions[versions[v].parent].form
  <2>1. KeepsParent(v)
    BY DEF PublicationInv, Publications
  <2>2. ASSUME Copied(v)
        PROVE  /\ Missing(f, audit.answers) = Missing(p, audit.answers)
               /\ Entire(p) => Resolves(f) /\ Contract(f) = Contract(p)
    <3>1. versions[v].parent \in DOMAIN versions
      BY <2>2 DEF PublicationInv, YeeScoreInv, YeeScoreTypeOK, Copied
    <3>2. IsForm(p)
      BY <3>1 DEF PublicationInv, Publications
    <3> DEFINE qs == Questions(f)
               ps == Questions(p)
    <3>3. f.authored /\ qs = f.questions /\ KeepsStructure(qs, ps)
      BY <2>1, <2>2 DEF KeepsParent, Copied, Questions
    <3>4. Entire(p) => Resolves(f) /\ Contract(f) = Contract(p)
      BY <3>2, <3>3, CopyScores DEF Sound
    <3>5. /\ Missing(f, audit.answers) = {qs[i].id : i \in {j \in DOMAIN qs : Unanswered(qs[j], audit.answers)}}
          /\ Missing(p, audit.answers) = {ps[i].id : i \in {j \in DOMAIN ps : Unanswered(ps[j], audit.answers)}}
      BY DEF Missing
    <3> HIDE DEF f, p, qs, ps
    <3>6. /\ DOMAIN qs = DOMAIN ps
          /\ \A i \in DOMAIN qs : /\ qs[i].id = ps[i].id
                                  /\ Unanswered(qs[i], audit.answers) <=> Unanswered(ps[i], audit.answers)
      BY <3>3, StructureIsKept
    <3>7. Missing(f, audit.answers) = Missing(p, audit.answers)
      BY <3>5, <3>6
    <3>8. QED
      BY <3>4, <3>7
  <2>3. ~Copied(v) => Resolves(f)
    BY <2>1 DEF KeepsParent
  <2>4. QED
    BY <2>2, <2>3 DEF Copied
<1>2. audit.score # <<>> => ScoreShown = Scored
  BY DEF PublicationInv, AuditFits, ScoreShown
<1>3. audit.score = <<>> => ScoreShown = Scored
  BY DEF ScoreShown
<1>4. QED
  BY <1>1, <1>2, <1>3 DEF PublishedVersionsScore

-----------------------------------------------------------------------------
(* YEE: rounded sums *)

\* Rounded hundredths, as a quotient.
LEMMA Quotient ==
  ASSUME NEW n \in Int, NEW m \in Nat \ {0}
  PROVE  /\ Hundredths(n, m) \in Int
         /\ (2 * m) * Hundredths(n, m) <= 200 * n + m
         /\ 200 * n + m < (2 * m) * Hundredths(n, m) + 2 * m
<1> DEFINE k == 2 * m
           x == 200 * n + m
<1>1. k \in Int /\ x \in Int /\ k > 0
  OBVIOUS
<1>2. Hundredths(n, m) = x \div k
  BY DEF Hundredths
<1> HIDE DEF k, x
<1>3. x \div k \in Int /\ x = k * (x \div k) + (x % k) /\ x % k \in 0..(k - 1)
  BY <1>1
<1> DEFINE h == x \div k
           r == x % k
<1>4. h \in Int /\ x = k * h + r /\ r \in Int /\ 0 <= r /\ r < k
  BY <1>1, <1>3
<1> HIDE DEF h, r
<1>5. k * h \in Int
  BY <1>1, <1>4
<1> DEFINE y == k * h
<1> HIDE DEF y
<1>6. y <= x /\ x < y + k
  BY <1>1, <1>4, <1>5 DEF y
<1>7. QED
  BY <1>2, <1>4, <1>6 DEF k, x, h, y

\* A product with a positive number has the sign of the other number.
LEMMA SignOfProduct ==
  ASSUME NEW k \in Nat \ {0}, NEW e \in Int
  PROVE  /\ k * e \in Int
         /\ k * e > -k => e >= 0
         /\ k * e < k => e <= 0
         /\ k * e > -(2 * k) => e >= -1
         /\ k * e < 2 * k => e <= 1
<1>1. ASSUME NEW j \in Nat
      PROVE  k * j \in Nat
  OBVIOUS
<1>2. k * e \in Int
  OBVIOUS
<1>3. CASE e <= -2
  <2>1. k * (-(e + 2)) \in Nat
    BY <1>1, <1>3
  <2>2. k * (-(e + 2)) = -(k * e) - 2 * k
    OBVIOUS
  <2>3. k * e <= -(2 * k)
    BY <1>2, <2>1, <2>2
  <2>4. QED
    BY <1>2, <1>3, <2>3
<1>4. CASE e = -1
  BY <1>4
<1>5. CASE e = 0
  BY <1>5
<1>6. CASE e = 1
  BY <1>6
<1>7. CASE e >= 2
  <2>1. k * (e - 2) \in Nat
    BY <1>1, <1>7
  <2>2. k * (e - 2) = k * e - 2 * k
    OBVIOUS
  <2>3. k * e >= 2 * k
    BY <1>2, <2>1, <2>2
  <2>4. QED
    BY <1>2, <1>7, <2>3
<1>8. QED
  BY <1>3, <1>4, <1>5, <1>6, <1>7

\* Rounding keeps order, and the difference of rounded numbers is the rounded
\* difference but for one hundredth.
LEMMA RoundingKeepsOrder ==
  ASSUME NEW a \in Int, NEW b \in Int, b <= a, NEW m \in Nat \ {0}
  PROVE  /\ Hundredths(b, m) <= Hundredths(a, m)
         /\ Hundredths(a, m) - Hundredths(b, m) - Hundredths(a - b, m) \in {-1, 0, 1}
<1> DEFINE k == 2 * m
           x == Hundredths(a, m)
           y == Hundredths(b, m)
           z == Hundredths(a - b, m)
<1>1. /\ x \in Int /\ k * x <= 200 * a + m /\ 200 * a + m < k * x + k
      /\ y \in Int /\ k * y <= 200 * b + m /\ 200 * b + m < k * y + k
      /\ z \in Int /\ k * z <= 200 * (a - b) + m /\ 200 * (a - b) + m < k * z + k
  BY Quotient
<1>2. k \in Nat \ {0} /\ k = 2 * m
  OBVIOUS
<1> HIDE DEF k, x, y, z
<1>3. k * (x - y) = k * x - k * y /\ k * (x - y - z) = k * x - k * y - k * z
  BY <1>1, <1>2
<1>4. k * x \in Int /\ k * y \in Int /\ k * z \in Int
  BY <1>1, <1>2
<1> DEFINE kx == k * x
           ky == k * y
           kz == k * z
<1> HIDE DEF kx, ky, kz
<1>5. kx - ky > -k
  BY <1>1, <1>2, <1>4 DEF kx, ky
<1>6. kx - ky - kz > -(2 * k) /\ kx - ky - kz < 2 * k
  BY <1>1, <1>2, <1>4 DEF kx, ky, kz
<1>7. x - y >= 0
  BY <1>1, <1>2, <1>3, <1>5, SignOfProduct DEF kx, ky
<1>8. x - y - z >= -1 /\ x - y - z <= 1
  BY <1>1, <1>2, <1>3, <1>6, SignOfProduct DEF kx, ky, kz
<1>9. QED
  BY <1>1, <1>7, <1>8 DEF x, y, z

-----------------------------------------------------------------------------
(* YEE: what is complete counts *)

\* What the options of the questions of a version are.
LEMMA OffersOfQuestions ==
  ASSUME NEW f, Sound(f)
  PROVE  /\ Len(Questions(f)) \in Nat /\ DOMAIN Questions(f) = 1..Len(Questions(f))
         /\ \A i \in DOMAIN Questions(f) :
              /\ IsOffer(Questions(f)[i].options)
              /\ Questions(f)[i].follow # NoFollow => IsOffer(Questions(f)[i].follow.options)
<1>1. CASE f.authored
  <2>1. Questions(f) = f.questions
    BY <1>1 DEF Questions
  <2>2. f.questions \in Seq({f.questions[i] : i \in DOMAIN f.questions})
    BY DEF Sound, IsForm
  <2>3. Len(f.questions) \in Nat /\ DOMAIN f.questions = 1..Len(f.questions)
    BY <2>2
  <2>4. QED
    BY <2>1, <2>3 DEF Sound, IsForm
<1>2. CASE ~f.authored
  <2> DEFINE qs == Questions(f)
             S == {DerivedQuestion(f, Specs[i]) : i \in DOMAIN Specs}
             n == Len(Specs)
  <2>1. qs = [i \in DOMAIN Specs |-> DerivedQuestion(f, Specs[i])]
    BY <1>2, DerivedInFull DEF Sound, Entire, Questions
  <2>2. n \in Nat /\ DOMAIN Specs = 1..n
    BY <1>2, ReadInOrder DEF Sound, Entire
  <2>3. qs \in [1..n -> S]
    BY <2>1, <2>2
  <2> HIDE DEF S
  <2>4. Len(qs) = n
    <3> HIDE DEF qs, n
    <3>1. qs \in Seq(S)
      BY <2>2, <2>3
    <3>2. QED
      BY <2>2, <2>3, <3>1
  <2>5. ASSUME NEW i \in DOMAIN Specs
        PROVE  IsOffer(qs[i].options) /\ (qs[i].follow # NoFollow => IsOffer(qs[i].follow.options))
    <3> DEFINE q == DerivedQuestion(f, Specs[i])
               s == Specs[i]
    <3>1. SpecOf(q) = s /\ Scorable(q)
      BY <1>2, DerivedReads DEF Sound, Entire
    <3>2. /\ IsMarking(s.primary)
          /\ IF Paired(s) THEN IsMarking(s.condition) ELSE s.condition = <<>>
      BY SpecsAssumption DEF SpecsAssumption
    <3>3. qs[i] = q
      BY <2>1
    <3> HIDE DEF q, s, qs
    <3>4. /\ s.primary = ScoresOf(q.options) /\ s.cond = q.cond
          /\ q.follow # NoFollow => s.condition = ScoresOf(q.follow.options)
      BY <3>1 DEF SpecOf
    <3>5. \A options : IsMarking(ScoresOf(options)) => IsOffer(options)
      <4>1. SUFFICES ASSUME NEW options, IsMarking(ScoresOf(options)) PROVE IsOffer(options)
        OBVIOUS
      <4>2. DOMAIN ScoresOf(options) = DOMAIN options /\ \A o \in DOMAIN options : ScoresOf(options)[o] = options[o].score
        BY DEF ScoresOf
      <4>3. QED
        BY <4>1, <4>2 DEF IsMarking, IsOffer
    <3>6. q.follow # NoFollow => Paired(s)
      BY <3>1, <3>4 DEF Scorable, Paired
    <3>7. QED
      BY <3>2, <3>3, <3>4, <3>5, <3>6
  <2>6. QED
    BY <2>1, <2>2, <2>4, <2>5
<1>3. QED
  BY <1>1, <1>2

\* A pair of finite sets of numbers has finitely many products.
LEMMA ItemsHaveMaxima ==
  ASSUME NEW q, Scorable(q), IsOffer(q.options), q.follow # NoFollow => IsOffer(q.follow.options)
  PROVE  /\ ItemMaximum(SpecOf(q)) \in Int
         /\ q.method = "option" => \A o \in DOMAIN q.options : q.options[o].score <= ItemMaximum(SpecOf(q))
         /\ q.method = "product" =>
              /\ 0 <= ItemMaximum(SpecOf(q))
              /\ \A o \in DOMAIN q.options, c \in DOMAIN q.follow.options :
                   q.options[o].score * q.follow.options[c].score <= ItemMaximum(SpecOf(q))
<1> DEFINE s == SpecOf(q)
           D == DOMAIN q.options
<1>1. /\ s.cond = q.cond /\ s.primary = ScoresOf(q.options)
      /\ q.follow # NoFollow => s.condition = ScoresOf(q.follow.options)
  BY DEF SpecOf
<1>2. \A options : /\ DOMAIN ScoresOf(options) = DOMAIN options
                   /\ \A o \in DOMAIN options : ScoresOf(options)[o] = options[o].score
  BY DEF ScoresOf
<1> HIDE DEF s
<1>3. /\ IsFiniteSet(D) /\ D # {} /\ \A o \in D : s.primary[o] = q.options[o].score /\ s.primary[o] \in Int
      /\ DOMAIN s.primary = D
  BY <1>1, <1>2 DEF Scorable, IsOffer
<1> HIDE DEF D
<1>4. CASE q.method = "option"
  <2> DEFINE T == {s.primary[o] : o \in D}
             g == [o \in D |-> s.primary[o]]
  <2>1. T \subseteq Int /\ T # {}
    BY <1>3
  <2>2. IsFiniteSet(T)
    <3>1. g \in Surjection(D, T)
      BY DEF Surjection
    <3>2. QED
      BY <1>3, <3>1, FS_Surjection
  <2>3. ItemMaximum(s) = Max(T)
    BY <1>1, <1>3, <1>4 DEF ItemMaximum, Paired, Scorable
  <2>4. \A o \in D : q.options[o].score \in T
    BY <1>3
  <2> HIDE DEF T
  <2>5. Max(T) \in T /\ \A m \in T : m <= Max(T)
    BY <2>1, <2>2, GreatestNumber
  <2>6. QED
    BY <1>4, <2>1, <2>3, <2>4, <2>5 DEF s, D
<1>5. CASE q.method = "product"
  <2>1. q.follow # NoFollow /\ Paired(s)
    BY <1>1, <1>5 DEF Scorable, Paired
  <2> DEFINE C == DOMAIN q.follow.options
  <2>2. /\ IsFiniteSet(C) /\ \A c \in C : s.condition[c] = q.follow.options[c].score /\ s.condition[c] \in Int
        /\ DOMAIN s.condition = C
    BY <1>1, <1>2, <2>1 DEF IsOffer
  <2> HIDE DEF C
  <2> DEFINE P == {s.primary[o] * s.condition[c] : o \in D, c \in C}
             g == [x \in D \X C |-> s.primary[x[1]] * s.condition[x[2]]]
             T == {0} \cup P
  <2>3. P \subseteq Int
    BY <1>3, <2>2
  <2>4. IsFiniteSet(P)
    <3>1. IsFiniteSet(D \X C)
      BY <1>3, <2>2, FS_Product
    <3>2. g \in Surjection(D \X C, P)
      <4>1. g \in [D \X C -> P]
        OBVIOUS
      <4>2. ASSUME NEW y \in P
            PROVE  \E x \in D \X C : g[x] = y
        <5>1. \E o \in D, c \in C : y = s.primary[o] * s.condition[c]
          OBVIOUS
        <5>2. PICK o \in D, c \in C : y = s.primary[o] * s.condition[c]
          BY <5>1
        <5>3. <<o, c>> \in D \X C /\ g[<<o, c>>] = y
          BY <5>2
        <5>4. QED
          BY <5>3
      <4> HIDE DEF g, P
      <4>3. QED
        BY <4>1, <4>2 DEF Surjection
    <3>3. QED
      BY <3>1, <3>2, FS_Surjection
  <2>5. ItemMaximum(s) = Max(T)
    BY <1>3, <2>1, <2>2 DEF ItemMaximum
  <2>6. \A o \in D, c \in C : q.options[o].score * q.follow.options[c].score \in P
    BY <1>3, <2>2
  <2> HIDE DEF P
  <2>7. T \subseteq Int /\ 0 \in T /\ T # {} /\ IsFiniteSet(T)
    <3>1. IsFiniteSet({0})
      BY FS_Singleton
    <3>2. IsFiniteSet({0} \cup P)
      BY <2>4, <3>1, FS_Union
    <3>3. QED
      BY <2>3, <3>2
  <2>8. \A o \in D, c \in C : q.options[o].score * q.follow.options[c].score \in T
    BY <2>6
  <2> HIDE DEF T
  <2>9. Max(T) \in T /\ \A m \in T : m <= Max(T)
    BY <2>7, GreatestNumber
  <2>10. QED
    BY <1>5, <2>5, <2>7, <2>8, <2>9 DEF s, C, D
<1>6. QED
  BY <1>4, <1>5 DEF Scorable

\* An answered question counts, for no more than its maximum, and for what it shows.
LEMMA AnsweredCounts ==
  ASSUME NEW q, Scorable(q), IsOffer(q.options), q.follow # NoFollow => IsOffer(q.follow.options),
         NEW given, Fits(q, given), ~Unanswered(q, given)
  PROVE  /\ Counts(SpecOf(q), given)
         /\ Follows(q, given) /\ q.follow.required => Given(given, q.cond, q.choice) \in DOMAIN q.follow.options
         /\ ItemScore(SpecOf(q), given) \in Int /\ ItemScore(SpecOf(q), given) <= ItemMaximum(SpecOf(q))
         /\ \A o \in DOMAIN q.options :
              (q.method = "product" /\ o \notin q.follow.triggers => q.options[o].score = 0)
              => (Given(given, q.item, q.choice) = o => ItemScore(SpecOf(q), given) = Worth(q, given))
<1> DEFINE s == SpecOf(q)
           a == Given(given, q.item, q.choice)
           b == Given(given, q.cond, q.choice)
<1>1. /\ s.item = q.item /\ s.choice = q.choice /\ s.cond = q.cond /\ s.primary = ScoresOf(q.options)
      /\ q.follow # NoFollow => s.condition = ScoresOf(q.follow.options)
  BY DEF SpecOf
<1>2. \A options : /\ DOMAIN ScoresOf(options) = DOMAIN options
                   /\ \A o \in DOMAIN options : ScoresOf(options)[o] = options[o].score
  BY DEF ScoresOf
<1>3. a \in DOMAIN q.options
  BY DEF Fits, Unanswered
<1>4. Follows(q, given) => q.follow # NoFollow /\ q.cond # NoItem /\ a \in q.follow.triggers
  BY DEF Follows
<1>5. Follows(q, given) /\ q.follow.required => b \in DOMAIN q.follow.options
  BY <1>4 DEF Fits, Unanswered
<1>6. /\ ItemMaximum(s) \in Int
      /\ q.method = "option" => \A o \in DOMAIN q.options : q.options[o].score <= ItemMaximum(s)
      /\ q.method = "product" =>
           /\ 0 <= ItemMaximum(s)
           /\ \A o \in DOMAIN q.options, c \in DOMAIN q.follow.options :
                q.options[o].score * q.follow.options[c].score <= ItemMaximum(s)
  BY ItemsHaveMaxima
<1>7. q.options[a].score \in Int
  BY <1>3 DEF IsOffer
<1>8. Counts(s, given)
  BY <1>1, <1>2, <1>3 DEF Counts
<1>9. CASE q.method = "option"
  <2>1. ItemScore(s, given) = q.options[a].score
    <3>1. ~Paired(s)
      BY <1>1, <1>9 DEF Paired, Scorable
    <3>2. a \in DOMAIN s.primary /\ s.primary[a] = q.options[a].score
      BY <1>1, <1>2, <1>3
    <3> HIDE DEF s
    <3>3. QED
      BY <1>1, <3>1, <3>2 DEF ItemScore
  <2>2. Worth(q, given) = q.options[a].score
    BY <1>9 DEF Worth
  <2> HIDE DEF s, a, b
  <2>3. QED
    BY <1>3, <1>5, <1>6, <1>7, <1>8, <1>9, <2>1, <2>2 DEF s, a, b
<1>10. CASE q.method = "product"
  <2>1. q.follow # NoFollow /\ q.cond # NoItem /\ Paired(s)
    BY <1>1, <1>10 DEF Paired, Scorable
  <2>2. b \in {NoAnswer} \cup DOMAIN q.follow.options /\ NoAnswer \notin DOMAIN q.follow.options
    BY <2>1 DEF Fits, IsOffer
  <2>3. ItemScore(s, given) = IF b \in DOMAIN q.follow.options
                              THEN q.options[a].score * q.follow.options[b].score ELSE 0
    <3>1. a \in DOMAIN s.primary /\ s.primary[a] = q.options[a].score
      BY <1>1, <1>2, <1>3
    <3>2. /\ DOMAIN s.condition = DOMAIN q.follow.options
          /\ b \in DOMAIN q.follow.options => s.condition[b] = q.follow.options[b].score
      BY <1>1, <1>2, <2>1
    <3> HIDE DEF s
    <3>3. QED
      BY <1>1, <2>1, <3>1, <3>2 DEF ItemScore
  <2>4. b \in DOMAIN q.follow.options => q.follow.options[b].score \in Int
    BY <2>1 DEF IsOffer
  <2>5. ItemScore(s, given) \in Int /\ ItemScore(s, given) <= ItemMaximum(s)
    <3> HIDE DEF s, a, b
    <3>1. QED
      BY <1>3, <1>6, <1>7, <1>10, <2>3, <2>4
  <2>6. ASSUME a \notin q.follow.triggers => q.options[a].score = 0
        PROVE  ItemScore(s, given) = Worth(q, given)
    <3>1. Worth(q, given) = IF ~Follows(q, given) \/ b = NoAnswer THEN 0
                            ELSE q.options[a].score * q.follow.options[b].score
      BY <1>10 DEF Worth
    <3>2. Follows(q, given) <=> a \in q.follow.triggers
      BY <2>1 DEF Follows
    <3> HIDE DEF s, a, b
    <3>3. CASE a \in q.follow.triggers
      BY <2>2, <2>3, <3>1, <3>2, <3>3
    <3>4. CASE a \notin q.follow.triggers
      BY <2>3, <2>4, <2>6, <3>1, <3>2, <3>4
    <3>5. QED
      BY <3>3, <3>4
  <2> HIDE DEF s, a, b
  <2>7. QED
    BY <1>5, <1>8, <1>10, <2>5, <2>6 DEF s, a, b
<1>11. QED
  BY <1>9, <1>10 DEF Scorable

\* Totals are in order if their summands are.
LEMMA TotalsInOrder ==
  ASSUME NEW D, IsFiniteSet(D), NEW f, NEW h, DOMAIN f = D, DOMAIN h = D,
         \A x \in D : f[x] \in Int /\ h[x] \in Int /\ f[x] <= h[x]
  PROVE  /\ Total(f) \in Int /\ Total(h) \in Int /\ Total(f) <= Total(h)
         /\ (\A x \in D : 0 <= f[x]) => 0 <= Total(f)
<1> DEFINE Good(v, w, s) == /\ v[s] \in Int /\ w[s] \in Int /\ v[s] <= w[s]
                            /\ (\A x \in D : 0 <= f[x]) => 0 <= v[s]
<1>0. \A s \in SUBSET D : IsFiniteSet(s) /\ Cardinality(s) \in Nat
  BY FS_Subset, FS_CardinalityType
<1>1. \E v : Adds(v, f, SUBSET D) /\ Total(f) = v[D]
  BY TotalRuns
<1>2. \E w : Adds(w, h, SUBSET D) /\ Total(h) = w[D]
  BY TotalRuns
<1>3. PICK v : Adds(v, f, SUBSET D) /\ Total(f) = v[D]
  BY <1>1
<1>4. PICK w : Adds(w, h, SUBSET D) /\ Total(h) = w[D]
  BY <1>2
<1>5. ASSUME NEW s \in SUBSET D
      PROVE  /\ v[s] = IF s = {} THEN 0 ELSE v[s \ {Taken(s)}] + f[Taken(s)]
             /\ w[s] = IF s = {} THEN 0 ELSE w[s \ {Taken(s)}] + h[Taken(s)]
  BY <1>3, <1>4 DEF Adds
<1>6. Good(v, w, {})
  BY <1>5
<1>7. ASSUME NEW s \in SUBSET D, s # {}, Good(v, w, s \ {Taken(s)})
      PROVE  Good(v, w, s)
  <2>1. Taken(s) \in s
    BY <1>7 DEF Taken
  <2> DEFINE x == Taken(s)
  <2> HIDE DEF x
  <2>2. x \in D /\ f[x] \in Int /\ h[x] \in Int /\ f[x] <= h[x]
    BY <2>1 DEF x
  <2>3. v[s] = v[s \ {x}] + f[x] /\ w[s] = w[s \ {x}] + h[x]
    BY <1>5, <1>7 DEF x
  <2>4. Good(v, w, s \ {x})
    BY <1>7 DEF x
  <2>5. QED
    BY <2>2, <2>3, <2>4
<1> DEFINE S == {n \in Nat : \A s \in SUBSET D : Cardinality(s) = n => Good(v, w, s)}
<1> HIDE DEF Good
<1>8. 0 \in S
  BY <1>0, <1>6, FS_EmptySet
<1>9. ASSUME NEW n \in Nat, n \in S
      PROVE  n + 1 \in S
  <2>1. SUFFICES ASSUME NEW s \in SUBSET D, Cardinality(s) = n + 1
                 PROVE  Good(v, w, s)
    OBVIOUS
  <2>2. s # {}
    BY <2>1, FS_EmptySet
  <2>3. Taken(s) \in s
    BY <2>2 DEF Taken
  <2>4. s \ {Taken(s)} \in SUBSET D /\ Cardinality(s \ {Taken(s)}) = n
    BY <2>1, <2>3, <1>0, FS_RemoveElement
  <2>5. Good(v, w, s \ {Taken(s)})
    BY <1>9, <2>4
  <2>6. QED
    BY <2>2, <2>5, <1>7
<1>10. Good(v, w, D)
  <2> HIDE DEF S
  <2>1. \A n \in Nat : n \in S
    BY <1>8, <1>9, AllNumbers
  <2>2. Cardinality(D) \in Nat /\ D \in SUBSET D
    BY <1>0
  <2>3. QED
    BY <2>1, <2>2 DEF S
<1>11. QED
  BY <1>3, <1>4, <1>10 DEF Good

\* Weighting keeps the order of two sums, and nearly their difference.
LEMMA WeightedInOrder ==
  ASSUME NEW contract, NEW weights, weights \in [Domains -> 0..3], NEW d \in Domains,
         IsFiniteSet(InDomain(contract, d)), NEW raw \in Int, NEW most \in Int, raw <= most
  PROVE  /\ Weighted(contract, weights, raw, d) <= Weighted(contract, weights, most, d)
         /\ Weighted(contract, weights, most, d) - Weighted(contract, weights, raw, d)
              - Weighted(contract, weights, most - raw, d) \in {-1, 0, 1}
<1> DEFINE all == Total(weights)
           items == Cardinality(InDomain(contract, d))
           w == weights[d]
<1>1. IsFiniteSet(Domains)
  <2> DEFINE g == [i \in DOMAIN Specs |-> Specs[i].domain]
  <2>1. g \in Surjection(DOMAIN Specs, Domains)
    BY DEF Surjection, Domains
  <2>2. IsFiniteSet(DOMAIN Specs)
    <3>1. DOMAIN Specs = 1..Len(Specs) /\ Len(Specs) \in Int /\ 1 \in Int
      BY SpecsAssumption DEF SpecsAssumption
    <3>2. QED
      BY <3>1, FS_Interval
  <2>3. QED
    BY <2>1, <2>2, FS_Surjection
<1>2. all \in Nat
  <2>1. DOMAIN weights = Domains /\ \A e \in Domains : weights[e] \in Int /\ weights[e] <= weights[e] /\ 0 <= weights[e]
    OBVIOUS
  <2>2. Total(weights) \in Int /\ 0 <= Total(weights)
    BY <1>1, <2>1, TotalsInOrder
  <2>3. QED
    BY <2>2
<1>3. items \in Nat /\ w \in Nat
  BY FS_CardinalityType
<1>4. \A sum : Weighted(contract, weights, sum, d) =
                IF all = 0 \/ items = 0 THEN 0 ELSE Hundredths(sum * w, items * all)
  BY DEF Weighted
<1> HIDE DEF all, items, w
<1>5. CASE all = 0 \/ items = 0
  BY <1>4, <1>5
<1>6. CASE all # 0 /\ items # 0
  <2> DEFINE m == items * all
             a == most * w
             b == raw * w
  <2>1. m \in Nat \ {0}
    <3>1. items - 1 \in Nat
      BY <1>3, <1>6
    <3>2. (items - 1) * all \in Nat
      BY <1>2, <3>1
    <3>3. items * all = (items - 1) * all + all
      BY <1>2, <1>3
    <3>4. QED
      BY <1>2, <1>6, <3>2, <3>3
  <2>2. a \in Int /\ b \in Int /\ (most - raw) * w = a - b
    BY <1>3
  <2>3. b <= a
    <3>1. (most - raw) \in Nat
      OBVIOUS
    <3>2. (most - raw) * w \in Nat
      BY <1>3, <3>1
    <3> HIDE DEF a, b
    <3>3. QED
      BY <2>2, <3>2
  <2>4. /\ Weighted(contract, weights, raw, d) = Hundredths(b, m)
        /\ Weighted(contract, weights, most, d) = Hundredths(a, m)
        /\ Weighted(contract, weights, most - raw, d) = Hundredths(a - b, m)
    BY <1>4, <1>6, <2>2
  <2> HIDE DEF a, b, m
  <2>5. QED
    BY <2>1, <2>2, <2>3, <2>4, RoundingKeepsOrder
<1>7. QED
  BY <1>5, <1>6

\* A complete submission has every question counted.
LEMMA CompleteCounts ==
  ASSUME PublicationInv
  PROVE  CompleteAuditsCount
<1> DEFINE f == FormOf(audit.stamp)
           qs == Questions(f)
           score == audit.score[1]
           given == audit.answers
<1>1. SUFFICES ASSUME enforced, audit.score # <<>>, Entire(f), OwnCells(f)
               PROVE  /\ score.matched = Len(qs)
                      /\ \A i \in DOMAIN qs :
                           /\ Follows(qs[i], given) /\ qs[i].follow.required =>
                                Given(given, qs[i].cond, qs[i].choice) \in DOMAIN qs[i].follow.options
                           /\ \A o \in DOMAIN qs[i].options :
                                (qs[i].method = "product" /\ o \notin qs[i].follow.triggers => qs[i].options[o].score = 0)
                                => (Given(given, qs[i].item, qs[i].choice) = o
                                      => ItemScore(SpecOf(qs[i]), given) = Worth(qs[i], given))
                      /\ \A d \in Domains :
                           /\ score.raw[d] <= score.maximum[d]
                           /\ score.weighted[d] <= score.weightedMaximum[d]
                           /\ score.weightedMaximum[d] - score.weighted[d] - score.gap[d] \in {-1, 0, 1}
  BY DEF CompleteAuditsCount
<1>2. Sound(f)
  BY <1>1, ShippedIsEntire DEF Sound, PublicationInv, YeeScoreInv, YeeScoreTypeOK, Publications, FormOf
<1>3. /\ audit.taken /\ score = Snapshot(Contract(f), given, audit.weights)
      /\ Missing(f, given) = {} /\ audit.weights \in [Domains -> 0..3]
      /\ \A i \in DOMAIN qs : Fits(qs[i], given)
  BY <1>1, YeeFormAssumption DEF PublicationInv, AuditFits, Scored, YeeFormAssumption
<1> DEFINE contract == Contract(f)
           weights == audit.weights
<1>4. /\ contract = [i \in DOMAIN qs |-> SpecOf(qs[i])]
      /\ \A i \in DOMAIN qs : Scorable(qs[i])
  BY <1>2, ContractOfQuestions
<1>5. /\ Len(qs) \in Nat /\ DOMAIN qs = 1..Len(qs)
      /\ \A i \in DOMAIN qs : IsOffer(qs[i].options) /\ (qs[i].follow # NoFollow => IsOffer(qs[i].follow.options))
  BY <1>2, OffersOfQuestions
<1>6. \A i \in DOMAIN qs : ~Unanswered(qs[i], given)
  BY <1>3 DEF Missing
<1> DEFINE Raw(d) == RawScore(contract, given, d)
           Most(d) == RawMaximum(contract, d)
<1>7. /\ score.matched = Cardinality({i \in DOMAIN contract : Counts(contract[i], given)})
      /\ \A d \in Domains :
           /\ score.raw[d] = Raw(d) /\ score.maximum[d] = Most(d)
           /\ score.weighted[d] = Weighted(contract, weights, Raw(d), d)
           /\ score.weightedMaximum[d] = Weighted(contract, weights, Most(d), d)
           /\ score.gap[d] = Weighted(contract, weights, Most(d) - Raw(d), d)
  BY <1>3 DEF Snapshot
<1> HIDE DEF qs, score, given, contract, weights, f
<1>8. ASSUME NEW i \in DOMAIN qs
      PROVE  /\ Counts(SpecOf(qs[i]), given)
             /\ Follows(qs[i], given) /\ qs[i].follow.required =>
                  Given(given, qs[i].cond, qs[i].choice) \in DOMAIN qs[i].follow.options
             /\ ItemScore(SpecOf(qs[i]), given) \in Int
             /\ ItemScore(SpecOf(qs[i]), given) <= ItemMaximum(SpecOf(qs[i]))
             /\ \A o \in DOMAIN qs[i].options :
                  (qs[i].method = "product" /\ o \notin qs[i].follow.triggers => qs[i].options[o].score = 0)
                  => (Given(given, qs[i].item, qs[i].choice) = o
                        => ItemScore(SpecOf(qs[i]), given) = Worth(qs[i], given))
  BY <1>3, <1>4, <1>5, <1>6, <1>8, AnsweredCounts
<1>9. \A i \in DOMAIN qs : ItemMaximum(SpecOf(qs[i])) \in Int
  BY <1>4, <1>5, ItemsHaveMaxima
<1>10. score.matched = Len(qs)
  <2>1. {i \in DOMAIN contract : Counts(contract[i], given)} = 1..Len(qs)
    BY <1>4, <1>5, <1>8
  <2>2. Cardinality(1..Len(qs)) = IF 1 > Len(qs) THEN 0 ELSE Len(qs) - 1 + 1
    BY <1>5, FS_Interval
  <2>3. Cardinality(1..Len(qs)) = Len(qs)
    BY <1>5, <2>2
  <2>4. score.matched = Cardinality({i \in DOMAIN contract : Counts(contract[i], given)})
    BY <1>7
  <2>5. QED
    BY <2>1, <2>3, <2>4
<1>11. ASSUME NEW d \in Domains
       PROVE  /\ score.raw[d] <= score.maximum[d]
              /\ score.weighted[d] <= score.weightedMaximum[d]
              /\ score.weightedMaximum[d] - score.weighted[d] - score.gap[d] \in {-1, 0, 1}
  <2> DEFINE D == InDomain(contract, d)
             x == [i \in D |-> ItemScore(contract[i], given)]
             y == [i \in D |-> ItemMaximum(contract[i])]
  <2>1. D \subseteq DOMAIN qs /\ IsFiniteSet(D)
    <3>1. D \subseteq DOMAIN qs
      BY <1>4 DEF InDomain
    <3>2. IsFiniteSet(DOMAIN qs)
      BY <1>5, FS_Interval
    <3>3. QED
      BY <3>1, <3>2, FS_Subset
  <2>2. \A i \in D : x[i] \in Int /\ y[i] \in Int /\ x[i] <= y[i]
    BY <1>4, <1>8, <1>9, <2>1
  <2>3. DOMAIN x = D /\ DOMAIN y = D
    OBVIOUS
  <2>4. Raw(d) = Total(x) /\ Most(d) = Total(y)
    BY DEF RawScore, RawMaximum
  <2> HIDE DEF x, y
  <2>5. Total(x) \in Int /\ Total(y) \in Int /\ Total(x) <= Total(y)
    BY <2>1, <2>2, <2>3, TotalsInOrder
  <2> DEFINE r == Raw(d)
             t == Most(d)
  <2> HIDE DEF Raw, Most, D
  <2>6. r \in Int /\ t \in Int /\ r <= t /\ IsFiniteSet(InDomain(contract, d))
    BY <2>1, <2>4, <2>5 DEF D
  <2>7. weights \in [Domains -> 0..3]
    BY <1>3 DEF weights
  <2>8. /\ Weighted(contract, weights, r, d) <= Weighted(contract, weights, t, d)
        /\ Weighted(contract, weights, t, d) - Weighted(contract, weights, r, d)
              - Weighted(contract, weights, t - r, d) \in {-1, 0, 1}
    BY <2>6, <2>7, WeightedInOrder
  <2>9. QED
    BY <1>7, <2>6, <2>8
<1>12. QED
  BY <1>8, <1>10, <1>11

-----------------------------------------------------------------------------
(* All of them *)

\* Whichever component moves, each one behaves as its own specification says.
LEMMA FiguresRun ==
  FiguresSpec => ScoreSpec /\ YeeScoreSpec /\ ViewsSpec /\ YeeViewsSpec
<1>1. FiguresInit => ScoreInit /\ YeeScoreInit /\ ViewsInit /\ YeeViewsInit
  BY DEF FiguresInit
<1>2. [FiguresNext]_figureVars => [ScoreNext]_scoreVars
  BY DEF FiguresNext, figureVars
<1>3. [FiguresNext]_figureVars => [YeeScoreNext]_yeeScoreVars
  BY DEF FiguresNext, figureVars
<1>4. [FiguresNext]_figureVars => [ViewsNext]_viewVars
  BY DEF FiguresNext, figureVars
<1>5. [FiguresNext]_figureVars => [YeeViewsNext]_yeeViewVars
  BY DEF FiguresNext, figureVars
<1>6. QED
  BY <1>1, <1>2, <1>3, <1>4, <1>5, PTL
     DEF FiguresSpec, ScoreSpec, YeeScoreSpec, ViewsSpec, YeeViewsSpec

\* The views of both products agree in every state, which is what the run `figures'
\* checks of small instances.
THEOREM ViewsTellOneStory == FiguresSpec => []EveryViewAgrees
<1>1. ViewsAgree /\ YeeViewsAgree => EveryViewAgrees
  BY DEF EveryViewAgrees
<1>2. QED
  BY <1>1, FiguresRun, PlayspaceViewsTellOneStory, YeeViewsTellOneStory, PTL

\* In every state the three readings of Unsure agree when no Unsure answer is counted, for
\* any content that validation lets through.  When scoring does not fail and the questions
\* that are seen measure, which validation does not ask for (options add nothing below zero,
\* multipliers do not reduce, Unsure and not applicable add and open nothing), they bracket
\* one another and their maxima in every bucket and column (scoring.py,
\* score_audit_for_audit).
THEOREM UnsureIsARange == FiguresSpec => []UnsureRange
BY FiguresRun, ScoreInvariant, RangesHold, PTL

\* Answers that an auditor no longer sees, to hidden questions and hidden follow-ups, change
\* neither progress nor scores nor the count of Unsure answers nor whether the audit can be
\* scored, for any content that validation lets through and whatever has been published, in
\* every state in which no question is visible only by such an answer (scoring.py,
\* _get_visible_questions, _is_question_complete, _score_question, _count_unsure_answers).
THEOREM StaleAnswersAreInert == FiguresSpec => []StaleAnswersDontCount
<1>1. ScoreInv => StaleAnswersDontCount
  <2>1. ASSUME ScoreInv, ~ShownByStale(Resolved, answers)
        PROVE  StaleAnswersDontCount
    BY <2>1, ScrubbedCountsAlike
  <2>2. ASSUME ShownByStale(Resolved, answers)
        PROVE  StaleAnswersDontCount
    BY <2>2 DEF StaleAnswersDontCount
  <2>3. QED
    BY <2>1, <2>2
<1>2. QED
  BY <1>1, FiguresRun, ScoreInvariant, PTL

\* In an audit that is ready to be submitted no required question makes its scoring fail,
\* although its answers may have been stored under a version that asked otherwise, and each
\* that is scaled has a denominator unless it does not apply or its scale of provision adds
\* nothing, for any content that validation lets through (scoring.py,
\* _is_question_complete, _score_question, _read_multiple_sociability_scale_result).
THEOREM WhatIsReadyScores == FiguresSpec => []ReadyAuditsScore
<1>1. ScoreInv => ReadyAuditsScore
  BY ReadyScores
<1>2. QED
  BY <1>1, FiguresRun, ScoreInvariant, PTL

\* What publishing a YEE instrument promises, for any catalogue of drafts, labelled or not,
\* and any number of publications.  A copy asks for the same answers as its parent, although
\* either may be activated again, and is scored as its parent when that asks for whatever it
\* scores; what is no copy can score audits; a submitted audit shows the score that its stamp
\* gives for good.  Where completeness is enforced, the form asks for whatever it scores and
\* questions have cells of their own, every question of a submission is counted for what it
\* shows, and no sum, raw or weighted, exceeds its maximum or misses it by other than its gap
\* (instrument_activation.py, scoring_engine.py, submission_validation.py).
THEOREM WhatIsPublishedCounts == FiguresSpec => []PublicationKeepsItsPromise
<1>1. PublicationInv => PublicationKeepsItsPromise
  BY PublishedScore, CompleteCounts DEF PublicationKeepsItsPromise
<1>2. YeeScoreSpec => []PublicationInv
  BY PublicationInit, PublicationStep, PTL DEF YeeScoreSpec
<1>3. QED
  BY <1>1, <1>2, FiguresRun, PTL

\* In every state of the run `figures' each variable has a value of its type: an audit is
\* stamped with a version that exists, its stored score names one, and what a publication
\* is forked from is a publication (audit_state.py, scoring.py, instrument_activation.py).
THEOREM FiguresTypes == FiguresSpec => []FiguresTypeOK
<1>1. ScoreSpec => []ScoreInv
  BY ScoreInvariant
<1>2. YeeScoreSpec => []PublicationInv
  BY PublicationInit, PublicationStep, PTL DEF YeeScoreSpec
<1>3. ScoreInv /\ PublicationInv /\ ViewsInv /\ YeeViewsInv => FiguresTypeOK
  BY DEF ScoreInv, PublicationInv, YeeScoreInv, ViewsInv, YeeViewsInv, FiguresTypeOK
<1>4. QED
  BY <1>1, <1>2, <1>3, FiguresRun, ViewsInvariant, YeeViewsInvariant, PTL
=============================================================================
