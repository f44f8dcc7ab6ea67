---------------------------- MODULE MemoryProofs ----------------------------
(***************************************************************************)
(* Theorems about the memory of src/kernel/memory.c: first Paging, for     *)
(* every number of processes and pages, then Heap, for every number of     *)
(* pages and every division of a page into blocks.                         *)
(*                                                                         *)
(* memory_map counts the users of each page only because no table is ever  *)
(* mapped by a program, no page holds two tables, and a process maps a     *)
(* page once: the conjuncts that PagingInv adds to the properties the runs *)
(* check.                                                                  *)
(***************************************************************************)
EXTENDS Paging, Heap, FiniteSetTheorems, WellFoundedInduction, TLAPS

\* A set of pages that is not empty has a first page.
LEMMA FirstFrame ==
    ASSUME NEW S \in SUBSET Frame, S # {}
    PROVE  \E f \in S : \A g \in S : f <= g
<1> DEFINE Below(f) == {g \in S : g <= f}
           R == StrictSubsetOrdering(S)
           T == {Below(f) : f \in S}
<1>1. S \subseteq Nat /\ IsFiniteSet(S)
  BY PagingAssumption, FS_Subset
<1>2. T \subseteq FiniteSubsetsOf(S) /\ T # {}
  <2>1. \A f \in S : Below(f) \in SUBSET S
    OBVIOUS
  <2>2. FiniteSubsetsOf(S) = SUBSET S
    BY <1>1, FS_FiniteSubsetsOfFinite
  <2> HIDE DEF Below
  <2> QED BY <2>1, <2>2
<1>3. PICK x \in T : \A y \in T : <<y, x>> \notin R
  <2>1. IsWellFoundedOn(R, FiniteSubsetsOf(S))
    BY FS_StrictSubsetOrderingWellFounded
  <2> HIDE DEF R, T
  <2> QED BY <1>2, <2>1, WFMin
<1>4. PICK f \in S : x = Below(f)
  BY <1>3
<1>5. ASSUME NEW g \in S, ~(f <= g) PROVE FALSE
  <2>1. g < f /\ f \in Nat /\ g \in Nat
    BY <1>1, <1>5
  <2>2. Below(g) \subseteq Below(f)
    <3>1. \A h \in S : h <= g => h <= f
      BY <1>1, <2>1
    <3> QED BY <3>1
  <2>3. f \in Below(f) /\ f \notin Below(g)
    BY <2>1
  <2>4. <<Below(g), Below(f)>> \in R
    <3>1. Below(g) \in SUBSET S /\ Below(f) \in SUBSET S
      OBVIOUS
    <3> HIDE DEF Below
    <3> QED BY <2>2, <2>3, <3>1 DEF StrictSubsetOrdering
  <2>5. Below(g) \in T
    OBVIOUS
  <2> QED BY <1>3, <1>4, <2>4, <2>5
<1> QED BY <1>5

LEMMA UnusedFinite == IsFiniteSet(Unused) /\ Unused \subseteq Nat /\ Left \in Nat
<1>1. Unused \in SUBSET Frame
  BY DEF Unused
<1> QED BY <1>1, PagingAssumption, FS_Subset, FS_CardinalityType DEF Left

Upto(f) == {g \in Unused : g <= f}

LEMMA FreshPage ==
    ASSUME NEW k \in {1, 2}, Left >= k
    PROVE  Fresh(k) \in Unused /\ Cardinality(Upto(Fresh(k))) = k
<1>1. Unused # {}
  BY FS_EmptySet DEF Left
<1>2. PICK f \in Unused : \A g \in Unused : f <= g
  <2>1. Unused \in SUBSET Frame
    BY DEF Unused
  <2> QED BY <1>1, <2>1, FirstFrame
<1>3. Upto(f) = {f} /\ Cardinality(Upto(f)) = 1
  <2>1. \A g \in Unused : g <= f <=> g = f
    BY <1>2, UnusedFinite
  <2>2. Upto(f) = {f}
    BY <2>1 DEF Upto
  <2> QED BY <2>2, FS_Singleton
<1>4. \E h \in Unused : Cardinality(Upto(h)) = k
  <2>1. CASE k = 1
    BY <1>2, <1>3, <2>1
  <2>2. CASE k = 2
    <3> DEFINE rest == Unused \ {f}
    <3>1. Cardinality(rest) = Left - 1 /\ IsFiniteSet(rest)
      BY <1>2, UnusedFinite, FS_RemoveElement DEF Left
    <3>2. rest # {}
      BY <2>2, <3>1, UnusedFinite, FS_EmptySet
    <3>3. PICK h \in rest : \A g \in rest : h <= g
      <4>1. rest \in SUBSET Frame
        BY DEF Unused
      <4> QED BY <3>2, <4>1, FirstFrame
    <3>4. Upto(h) = {f, h} /\ f # h
      <4>1. \A g \in Unused : g <= h <=> g = f \/ g = h
        BY <1>2, <3>3, UnusedFinite
      <4> QED BY <1>2, <3>3, <4>1 DEF Upto
    <3>5. Cardinality({f, h}) = 2
      <4>1. IsFiniteSet({f}) /\ Cardinality({f}) = 1
        BY FS_Singleton
      <4>2. Cardinality({f} \cup {h}) = 1 + 1
        BY <3>4, <4>1, FS_AddElement
      <4>3. {f} \cup {h} = {f, h}
        OBVIOUS
      <4> QED BY <4>2, <4>3
    <3> QED BY <2>2, <3>3, <3>4, <3>5
  <2> QED BY <2>1, <2>2
<1>5. Fresh(k) = CHOOSE h \in Unused : Cardinality(Upto(h)) = k
  BY DEF Fresh, Upto
<1> QED BY <1>4, <1>5

\* get_one_page returns pages that nobody uses, a different one each time.
LEMMA FreshPages ==
    /\ Left >= 1 => Fresh(1) \in Unused
    /\ Left >= 2 => Fresh(1) \in Unused /\ Fresh(2) \in Unused /\ Fresh(1) # Fresh(2)
<1>1. Left >= 2 => Left >= 1
  BY UnusedFinite
<1>2. Left >= 1 => Fresh(1) \in Unused /\ Cardinality(Upto(Fresh(1))) = 1
  BY FreshPage
<1>3. Left >= 2 => Fresh(2) \in Unused /\ Cardinality(Upto(Fresh(2))) = 2
  BY FreshPage
<1> QED BY <1>1, <1>2, <1>3

\* A process that does not exist has no tables.
DeadHaveNoTables == \A p \in Process \ live : \A s \in Slot : pde[p][s] = NoFrame

\* A page holds one table of one process ...
TablesApart ==
    \A p, q \in Process : \A s, r \in Slot :
       pde[p][s] = pde[q][r] /\ pde[p][s] # NoFrame => p = q /\ s = r

\* ... and then no program finds it in its memory.
TablesAreNotPages ==
    \A p, q \in Process : \A v \in Page, s \in Slot :
       Present(p, v) => Mapping(p, v).frame # pde[q][s]

\* A process maps a page at one address.
MapsOnce ==
    \A p \in Process : \A v, w \in Page :
       Present(p, v) /\ Present(p, w) /\ Mapping(p, v).frame = Mapping(p, w).frame
          => v = w

PagingInv ==
    /\ PagingTypeOK
    /\ DeadHaveNoTables /\ TablesApart /\ TablesAreNotPages /\ MapsOnce
    /\ CountsMappings /\ WritableIsPrivate

LEMMA MappingType ==
    ASSUME PagingTypeOK, NEW p \in Process, NEW v \in Page
    PROVE  /\ Mapping(p, v) \in Entry
           /\ Present(p, v) => /\ Mapping(p, v) \in [frame : Frame, write : BOOLEAN]
                               /\ Mapping(p, v).frame \in Frame
                               /\ pde[p][v[1]] \in Frame
BY DEF PagingTypeOK, Mapping, Present, Entry, Page

LEMMA PagesFinite == IsFiniteSet(Slot) /\ IsFiniteSet(Page)
<1>1. IsFiniteSet(Slot)
  <2>1. IsFiniteSet({"heap"} \cup {"stack"})
    BY FS_Singleton, FS_AddElement
  <2>2. Slot = {"heap"} \cup {"stack"}
    BY DEF Slot
  <2> QED BY <2>1, <2>2
<1>2. IsFiniteSet(Index)
  <2>1. 0 \in Int /\ TableSize - 1 \in Int
    BY PagingAssumption
  <2> QED BY <2>1, FS_Interval DEF Index
<1> QED BY <1>1, <1>2, FS_Product DEF Page

LEMMA UsersFinite ==
    ASSUME PagingTypeOK, NEW f
    PROVE  /\ IsFiniteSet(Mappers(f)) /\ Cardinality(Mappers(f)) \in Nat
           /\ IsFiniteSet(TablesIn(f)) /\ Cardinality(TablesIn(f)) \in Nat
<1>1. IsFiniteSet(live)
  BY PagingAssumption, FS_Subset DEF PagingTypeOK
<1>2. IsFiniteSet(live \X Page) /\ IsFiniteSet(live \X Slot)
  BY <1>1, PagesFinite, FS_Product
<1>3. Mappers(f) \in SUBSET (live \X Page) /\ TablesIn(f) \in SUBSET (live \X Slot)
  BY DEF Mappers, TablesIn
<1> QED BY <1>2, <1>3, FS_Subset, FS_CardinalityType

\* Nobody uses a page that get_one_page returns.
LEMMA UnusedIsUnused ==
    ASSUME PagingInv, NEW f \in Unused
    PROVE  /\ f \in Frame /\ memory_map[f] = 0
           /\ Mappers(f) = {} /\ TablesIn(f) = {}
           /\ \A p \in Process, v \in Page : Present(p, v) => Mapping(p, v).frame # f
           /\ \A p \in Process, s \in Slot : pde[p][s] # f
<1>1. f \in Frame /\ memory_map[f] = 0
  BY DEF Unused
<1>2. Mappers(f) = {} /\ TablesIn(f) = {}
  <2>1. Cardinality(Mappers(f)) + Cardinality(TablesIn(f)) = 0
    BY <1>1 DEF PagingInv, CountsMappings
  <2>2. Cardinality(Mappers(f)) = 0 /\ Cardinality(TablesIn(f)) = 0
    BY <2>1, UsersFinite DEF PagingInv
  <2> QED BY <2>2, UsersFinite, FS_EmptySet DEF PagingInv
<1>3. ASSUME NEW p \in Process, NEW s \in Slot, pde[p][s] = f PROVE FALSE
  <2>1. p \in live
    BY <1>1, <1>3, PagingAssumption DEF PagingInv, DeadHaveNoTables
  <2>2. <<p, s>> \in TablesIn(f)
    BY <1>3, <2>1 DEF TablesIn
  <2> QED BY <1>2, <2>2
<1>4. \A p \in Process, v \in Page : Present(p, v) => p \in live
  BY DEF Present, Mapping, PagingInv, DeadHaveNoTables, Page
<1>5. ASSUME NEW p \in Process, NEW v \in Page, Present(p, v), Mapping(p, v).frame = f
      PROVE  FALSE
  <2>1. <<p, v>> \in Mappers(f)
    BY <1>4, <1>5 DEF Mappers
  <2> QED BY <1>2, <2>1
<1> QED BY <1>1, <1>2, <1>3, <1>5

\* A page that holds a table has one user.
LEMMA TableIsUsed ==
    ASSUME PagingInv, NEW p \in live, NEW s \in Slot, pde[p][s] # NoFrame
    PROVE  /\ pde[p][s] \in Frame /\ memory_map[pde[p][s]] = 1
           /\ Mappers(pde[p][s]) = {} /\ TablesIn(pde[p][s]) = {<<p, s>>}
<1> DEFINE t == pde[p][s]
<1>1. p \in Process /\ t \in Frame /\ live \subseteq Process
  BY DEF PagingInv, PagingTypeOK
<1>2. Mappers(t) = {}
  BY <1>1 DEF Mappers, PagingInv, TablesAreNotPages
<1>3. TablesIn(t) = {<<p, s>>}
  BY <1>1 DEF TablesIn, PagingInv, TablesApart
<1>4. Cardinality(Mappers(t)) = 0 /\ Cardinality(TablesIn(t)) = 1
  BY <1>2, <1>3, FS_EmptySet, FS_Singleton
<1>5. memory_map[t] = Cardinality(Mappers(t)) + Cardinality(TablesIn(t))
  BY <1>1 DEF PagingInv, CountsMappings
<1>6. memory_map[t] = 1
  BY <1>4, <1>5
<1> QED BY <1>1, <1>2, <1>3, <1>6

LEMMA InitPagingInv == PagingInit => PagingInv
<1> SUFFICES ASSUME PagingInit PROVE PagingInv
  OBVIOUS
<1> USE PagingAssumption DEF PagingInit
<1>1. PagingTypeOK
  <2>1. table \in [Frame -> [Index -> Entry]]
    BY DEF NoEntries, Entry
  <2>2. brk \in [Process -> 0..TableSize] /\ data \in [Frame -> UserValue]
    OBVIOUS
  <2>3. pde \in [Process -> [Slot -> Frame \cup {NoFrame}]]
    OBVIOUS
  <2> QED BY <2>1, <2>2, <2>3 DEF PagingTypeOK
<1>2. \A p \in Process, v \in Page : ~Present(p, v)
  BY DEF Present, Mapping, Page
<1>3. \A p \in Process, s \in Slot : pde[p][s] = NoFrame
  OBVIOUS
<1>4. \A f \in Frame : Mappers(f) = {} /\ TablesIn(f) = {}
  BY <1>2, <1>3 DEF Mappers, TablesIn
<1>5. CountsMappings
  <2>1. ASSUME NEW f \in Frame
        PROVE  memory_map[f] = Cardinality(Mappers(f)) + Cardinality(TablesIn(f))
    <3>1. Cardinality(Mappers(f)) = 0 /\ Cardinality(TablesIn(f)) = 0
      BY <1>4, FS_EmptySet
    <3> QED BY <3>1
  <2> QED BY <1>2, <2>1 DEF CountsMappings
<1>6. WritableIsPrivate
  BY <1>2 DEF WritableIsPrivate
<1>7. DeadHaveNoTables /\ TablesApart /\ TablesAreNotPages /\ MapsOnce
  BY <1>2, <1>3 DEF DeadHaveNoTables, TablesApart, TablesAreNotPages, MapsOnce
<1> QED BY <1>1, <1>5, <1>6, <1>7 DEF PagingInv

-----------------------------------------------------------------------------
(***************************************************************************)
(* Process p gets page f for itself at v, in table t: the table that it    *)
(* has or a new one.                                                       *)
(***************************************************************************)
NewPage(p, v, f, t) ==
    /\ f \in Unused /\ t \in Frame /\ t # f
    /\ IF pde[p][v[1]] = NoFrame THEN t \in Unused ELSE t = pde[p][v[1]]
    /\ UNCHANGED live
    /\ pde' = [pde EXCEPT ![p][v[1]] = t]
    /\ Marked(p, v)
    /\ \A q \in Process, w \in Page :
          Mapping(q, w)' = IF q = p /\ w = v THEN [frame |-> f, write |-> TRUE]
                           ELSE Mapping(q, w)
    /\ \A g \in Frame :
          memory_map'[g] = IF g \in {t, f} THEN 1
                           ELSE IF Present(p, v) /\ g = Mapping(p, v).frame
                           THEN memory_map[g] - 1
                           ELSE memory_map[g]

LEMMA NewPageInv ==
    ASSUME PagingInv, PagingTypeOK', NEW p \in live, NEW v \in Page,
           NEW f, NEW t, NewPage(p, v, f, t)
    PROVE  PagingInv'
<1> DEFINE s == v[1]
<1>1. /\ p \in Process /\ s \in Slot /\ live \subseteq Process
      /\ f \in Frame /\ f # NoFrame /\ t \in Frame /\ t # NoFrame /\ t # f
  BY PagingAssumption DEF PagingInv, PagingTypeOK, Page, NewPage, Unused
<1>2. \A q \in Process, w \in Page :
         /\ Present(q, w)' <=> Present(q, w) \/ (q = p /\ w = v)
         /\ Mapping(q, w)' = IF q = p /\ w = v THEN [frame |-> f, write |-> TRUE]
                             ELSE Mapping(q, w)
  <2>1. [frame |-> f, write |-> TRUE] \in [frame : Frame, write : BOOLEAN]
    BY <1>1
  <2>2. [frame |-> f, write |-> TRUE] # NoFrame
    BY <2>1, PagingAssumption
  <2> QED BY <2>2 DEF NewPage, Present
<1>3. /\ \A q \in Process, w \in Page : Present(q, w) => Mapping(q, w).frame # f
      /\ \A q \in Process, r \in Slot : pde[q][r] # f
      /\ Mappers(f) = {} /\ TablesIn(f) = {}
  BY UnusedIsUnused DEF NewPage
<1>4. \A q \in Process, r \in Slot :
         pde'[q][r] = IF q = p /\ r = s THEN t ELSE pde[q][r]
  BY <1>1 DEF NewPage, PagingInv, PagingTypeOK
<1>5. /\ \A q \in Process, w \in Page : Present(q, w) => Mapping(q, w).frame # t
      /\ \A q \in Process, r \in Slot : pde[q][r] = t => q = p /\ r = s
  <2>1. CASE pde[p][s] = NoFrame
    BY <2>1, UnusedIsUnused DEF NewPage
  <2>2. CASE pde[p][s] # NoFrame
    <3>1. t = pde[p][s]
      BY <2>2 DEF NewPage
    <3> QED BY <1>1, <2>2, <3>1 DEF PagingInv, TablesAreNotPages, TablesApart
  <2> QED BY <2>1, <2>2
<1>6. DeadHaveNoTables'
  BY <1>1, <1>4 DEF PagingInv, DeadHaveNoTables, NewPage
<1>7. TablesApart'
  BY <1>1, <1>4, <1>5 DEF PagingInv, TablesApart
<1>8. TablesAreNotPages'
  BY <1>1, <1>2, <1>3, <1>4, <1>5 DEF PagingInv, TablesAreNotPages
<1>9. MapsOnce'
  BY <1>2, <1>3 DEF PagingInv, MapsOnce
<1>10. WritableIsPrivate'
  BY <1>1, <1>2, <1>3 DEF PagingInv, WritableIsPrivate, NewPage
<1>11. \A q \in live' : vmap'[q] = {w \in Page : Present(q, w)'}
  <2>1. \A q \in live : vmap[q] = {w \in Page : Present(q, w)}
    BY DEF PagingInv, CountsMappings
  <2>2. \A q \in Process : vmap'[q] = IF q = p THEN vmap[p] \cup {v} ELSE vmap[q]
    BY <1>1 DEF NewPage, Marked, PagingInv, PagingTypeOK
  <2> SUFFICES ASSUME NEW q \in live PROVE vmap'[q] = {w \in Page : Present(q, w)'}
    BY DEF NewPage
  <2>3. CASE q = p
    BY <1>1, <1>2, <2>1, <2>2, <2>3
  <2>4. CASE q # p
    BY <1>1, <1>2, <2>1, <2>2, <2>4
  <2> QED BY <2>3, <2>4
<1>12. \A g \in Frame :
          Mappers(g)' = IF g = f THEN {<<p, v>>} ELSE Mappers(g) \ {<<p, v>>}
  <2> SUFFICES ASSUME NEW g \in Frame
               PROVE  Mappers(g)' = IF g = f THEN {<<p, v>>} ELSE Mappers(g) \ {<<p, v>>}
    OBVIOUS
  <2>1. ASSUME NEW q \in live, NEW w \in Page
        PROVE  <<q, w>> \in Mappers(g)'
                  <=> <<q, w>> \in IF g = f THEN {<<p, v>>} ELSE Mappers(g) \ {<<p, v>>}
    <3>1. q \in Process /\ live' = live
      BY <1>1 DEF NewPage
    <3>2. CASE q = p /\ w = v
      BY <1>1, <1>2, <3>1, <3>2 DEF Mappers
    <3>3. CASE ~(q = p /\ w = v)
      BY <1>1, <1>2, <1>3, <3>1, <3>3 DEF Mappers
    <3> QED BY <3>2, <3>3
  <2>2. Mappers(g)' \subseteq live \X Page /\ Mappers(g) \subseteq live \X Page
    BY DEF Mappers, NewPage
  <2> QED BY <2>1, <2>2
<1>13. \A g \in Frame : TablesIn(g)' = IF g = t THEN {<<p, s>>} ELSE TablesIn(g)
  <2> SUFFICES ASSUME NEW g \in Frame
               PROVE  TablesIn(g)' = IF g = t THEN {<<p, s>>} ELSE TablesIn(g)
    OBVIOUS
  <2>1. ASSUME NEW q \in live, NEW r \in Slot
        PROVE  <<q, r>> \in TablesIn(g)'
                  <=> <<q, r>> \in IF g = t THEN {<<p, s>>} ELSE TablesIn(g)
    <3>1. q \in Process /\ live' = live
      BY <1>1 DEF NewPage
    <3>2. pde[p][s] \in {NoFrame, t} /\ NoFrame # g
      BY PagingAssumption DEF NewPage
    <3> QED BY <1>1, <1>4, <1>5, <3>1, <3>2 DEF TablesIn
  <2>2. TablesIn(g)' \subseteq live \X Slot /\ TablesIn(g) \subseteq live \X Slot
    BY DEF TablesIn, NewPage
  <2> QED BY <1>1, <2>1, <2>2
<1>14. ASSUME NEW g \in Frame
       PROVE  memory_map'[g] = Cardinality(Mappers(g)') + Cardinality(TablesIn(g)')
  <2>1. memory_map[g] = Cardinality(Mappers(g)) + Cardinality(TablesIn(g))
    BY DEF PagingInv, CountsMappings
  <2>2. CASE g = f
    <3>1. Mappers(g)' = {<<p, v>>} /\ TablesIn(g)' = {} /\ memory_map'[g] = 1
      BY <1>1, <1>3, <1>12, <1>13, <2>2 DEF NewPage
    <3>2. Cardinality(Mappers(g)') = 1 /\ Cardinality(TablesIn(g)') = 0
      BY <3>1, FS_Singleton, FS_EmptySet
    <3> QED BY <3>1, <3>2
  <2>3. CASE g = t
    <3>1. Mappers(g)' = {} /\ TablesIn(g)' = {<<p, s>>} /\ memory_map'[g] = 1
      BY <1>1, <1>5, <1>12, <1>13, <2>3 DEF NewPage, Mappers
    <3>2. Cardinality(Mappers(g)') = 0 /\ Cardinality(TablesIn(g)') = 1
      BY <3>1, FS_Singleton, FS_EmptySet
    <3> QED BY <3>1, <3>2
  <2>4. CASE g \notin {t, f}
    <3>1. /\ Mappers(g)' = Mappers(g) \ {<<p, v>>} /\ TablesIn(g)' = TablesIn(g)
          /\ memory_map'[g] = IF Present(p, v) /\ g = Mapping(p, v).frame
                              THEN memory_map[g] - 1 ELSE memory_map[g]
      BY <1>12, <1>13, <2>4 DEF NewPage
    <3>2. <<p, v>> \in Mappers(g) <=> Present(p, v) /\ g = Mapping(p, v).frame
      BY DEF Mappers
    <3>3. Cardinality(Mappers(g) \ {<<p, v>>})
             = IF <<p, v>> \in Mappers(g) THEN Cardinality(Mappers(g)) - 1
               ELSE Cardinality(Mappers(g))
      <4> DEFINE x == <<p, v>>
      <4> HIDE DEF x
      <4>1. Cardinality(Mappers(g) \ {x})
               = IF x \in Mappers(g) THEN Cardinality(Mappers(g)) - 1
                 ELSE Cardinality(Mappers(g))
        BY UsersFinite, FS_RemoveElement DEF PagingInv
      <4> QED BY <4>1 DEF x
    <3>4. Cardinality(Mappers(g)) \in Nat /\ Cardinality(TablesIn(g)) \in Nat
      BY UsersFinite DEF PagingInv
    <3> QED BY <2>1, <3>1, <3>2, <3>3, <3>4
  <2> QED BY <2>2, <2>3, <2>4
<1>15. CountsMappings'
  BY <1>11, <1>14 DEF CountsMappings
<1> QED BY <1>6, <1>7, <1>8, <1>9, <1>10, <1>15 DEF PagingInv

\* The entry for v in the table t of p, which is new or has these entries.
SetsEntry(p, v, t, entries, e) ==
    /\ IF pde[p][v[1]] = NoFrame THEN t \in Unused /\ entries = NoEntries
       ELSE t = pde[p][v[1]] /\ entries = table[t]
    /\ pde' = [pde EXCEPT ![p][v[1]] = t]
    /\ table' = [table EXCEPT ![t] = [entries EXCEPT ![v[2]] = e]]

LEMMA EntryIsMapping ==
    ASSUME PagingInv, NEW p \in live, NEW v \in Page, NEW t \in Frame, NEW e,
           NEW entries \in [Index -> Entry], SetsEntry(p, v, t, entries, e)
    PROVE  \A q \in Process, w \in Page :
              Mapping(q, w)' = IF q = p /\ w = v THEN e ELSE Mapping(q, w)
<1> DEFINE s == v[1]
<1>1. /\ p \in Process /\ s \in Slot /\ t # NoFrame /\ v[2] \in Index
      /\ pde \in [Process -> [Slot -> Frame \cup {NoFrame}]]
      /\ table \in [Frame -> [Index -> Entry]]
  BY PagingAssumption DEF PagingInv, PagingTypeOK, Page
<1>2. \A q \in Process, r \in Slot :
         pde'[q][r] = IF q = p /\ r = s THEN t ELSE pde[q][r]
  BY <1>1 DEF SetsEntry
<1>3. \A q \in Process, r \in Slot : pde[q][r] = t => q = p /\ r = s
  <2>1. CASE pde[p][s] = NoFrame
    BY <2>1, UnusedIsUnused DEF SetsEntry
  <2>2. CASE pde[p][s] # NoFrame
    BY <1>1, <2>2 DEF PagingInv, TablesApart, SetsEntry
  <2> QED BY <2>1, <2>2
<1>4. /\ \A i \in Index : table'[t][i] = IF i = v[2] THEN e ELSE entries[i]
      /\ \A g \in Frame : g # t => table'[g] = table[g]
  BY <1>1 DEF SetsEntry
<1> SUFFICES ASSUME NEW q \in Process, NEW w \in Page
             PROVE  Mapping(q, w)' = IF q = p /\ w = v THEN e ELSE Mapping(q, w)
  OBVIOUS
<1>5. w = <<w[1], w[2]>> /\ v = <<v[1], v[2]>> /\ w[1] \in Slot /\ w[2] \in Index
  BY DEF Page
<1>6. CASE q = p /\ w[1] = s
  <2>1. Mapping(q, w)' = IF w[2] = v[2] THEN e ELSE entries[w[2]]
    BY <1>1, <1>2, <1>4, <1>5, <1>6 DEF Mapping
  <2>2. entries[w[2]] = Mapping(q, w)
    BY <1>1, <1>5, <1>6 DEF Mapping, NoEntries, SetsEntry
  <2>3. w = v <=> w[2] = v[2]
    BY <1>5, <1>6
  <2> QED BY <1>6, <2>1, <2>2, <2>3
<1>7. CASE ~(q = p /\ w[1] = s)
  <2>1. pde'[q][w[1]] = pde[q][w[1]] /\ pde[q][w[1]] # t
    BY <1>2, <1>3, <1>5, <1>7
  <2>2. pde[q][w[1]] \in Frame \cup {NoFrame}
    BY <1>1, <1>5
  <2>3. Mapping(q, w)' = Mapping(q, w)
    BY <1>4, <2>1, <2>2 DEF Mapping
  <2> QED BY <1>5, <1>7, <2>3
<1> QED BY <1>6, <1>7

LEMMA NewEntry ==
    ASSUME NEW f \in Frame
    PROVE  [frame |-> f, write |-> TRUE] \in Entry
BY DEF Entry

LEMMA LinkStep ==
    ASSUME PagingInv, NEW p \in live, NEW v \in Page, page_fault_absent(p, v), ~stopped'
    PROVE  /\ PagingInv'
           /\ \E f, t : NewPage(p, v, f, t)
           /\ ~Present(p, v) /\ UNCHANGED data
<1> DEFINE s == v[1]
           isNew == pde[p][s] = NoFrame
           t == IF isNew THEN Fresh(1) ELSE pde[p][s]
           f == IF isNew THEN Fresh(2) ELSE Fresh(1)
           entries == IF isNew THEN NoEntries ELSE table[t]
<1>1. ~Present(p, v) /\ link_page(p, v) /\ Left >= IF isNew THEN 2 ELSE 1
  BY DEF page_fault_absent, Stop
<1>2. /\ p \in Process /\ s \in Slot /\ v[2] \in Index
      /\ pde \in [Process -> [Slot -> Frame \cup {NoFrame}]]
      /\ table \in [Frame -> [Index -> Entry]]
      /\ live \subseteq Process /\ current \in live
  BY DEF PagingInv, PagingTypeOK, Page
<1>3. /\ f \in Unused /\ t \in Frame /\ t # f
      /\ IF isNew THEN t \in Unused ELSE t = pde[p][s]
  <2>1. CASE isNew
    BY <1>1, <2>1, FreshPages, UnusedIsUnused
  <2>2. CASE ~isNew
    <3>1. Fresh(1) \in Unused
      BY <1>1, <2>2, FreshPages
    <3> QED BY <1>2, <2>2, <3>1, UnusedIsUnused
  <2> QED BY <2>1, <2>2
<1>4. entries \in [Index -> Entry] /\ f \in Frame
  BY <1>2, <1>3 DEF NoEntries, Entry, Unused
<1>5. /\ pde' = [pde EXCEPT ![p][s] = t]
      /\ table' = [table EXCEPT ![t] =
                      [entries EXCEPT ![v[2]] = [frame |-> f, write |-> TRUE]]]
      /\ memory_map' = [g \in Frame |-> IF g \in {t, f} THEN 1 ELSE memory_map[g]]
      /\ Marked(p, v)
      /\ UNCHANGED <<live, current, data, brk, stopped>>
  BY <1>1 DEF link_page
<1> HIDE DEF t, f, entries
<1>6. \A q \in Process, w \in Page :
         Mapping(q, w)' = IF q = p /\ w = v THEN [frame |-> f, write |-> TRUE]
                          ELSE Mapping(q, w)
  <2> DEFINE e == [frame |-> f, write |-> TRUE]
  <2>1. SetsEntry(p, v, t, entries, e)
    BY <1>3, <1>5 DEF entries, SetsEntry
  <2> HIDE DEF e
  <2>2. \A q \in Process, w \in Page :
           Mapping(q, w)' = IF q = p /\ w = v THEN e ELSE Mapping(q, w)
    BY <1>3, <1>4, <2>1, EntryIsMapping
  <2> QED BY <2>2 DEF e
<1>7. NewPage(p, v, f, t)
  BY <1>1, <1>3, <1>5, <1>6 DEF NewPage
<1>8. PagingTypeOK'
  <2>1. table' \in [Frame -> [Index -> Entry]]
    <3>1. [entries EXCEPT ![v[2]] = [frame |-> f, write |-> TRUE]] \in [Index -> Entry]
      BY <1>2, <1>4, NewEntry
    <3> QED BY <1>2, <1>3, <1>5, <3>1
  <2>2. pde' \in [Process -> [Slot -> Frame \cup {NoFrame}]]
    BY <1>2, <1>3, <1>5
  <2>3. memory_map' \in [Frame -> Nat]
    BY <1>5 DEF PagingInv, PagingTypeOK
  <2>4. vmap' \in [Process -> SUBSET Page]
    BY <1>2, <1>5 DEF Marked, PagingInv, PagingTypeOK
  <2> QED BY <1>2, <1>5, <2>1, <2>2, <2>3, <2>4 DEF PagingInv, PagingTypeOK
<1> QED BY <1>1, <1>5, <1>7, <1>8, NewPageInv

\* A step that changes neither tables nor counts.
LEMMA QuietPaging ==
    ASSUME PagingInv, UNCHANGED <<live, memory_map, pde, table, vmap>>, PagingTypeOK'
    PROVE  PagingInv' /\ (\A p, v : Mapping(p, v)' = Mapping(p, v))
<1>1. \A p, v : Mapping(p, v)' = Mapping(p, v) /\ (Present(p, v)' <=> Present(p, v))
  BY DEF Mapping, Present
<1>2. \A f : Mappers(f)' = Mappers(f) /\ TablesIn(f)' = TablesIn(f)
  BY <1>1 DEF Mappers, TablesIn
<1>3. CountsMappings'
  BY <1>1, <1>2 DEF PagingInv, CountsMappings
<1>4. WritableIsPrivate' /\ TablesAreNotPages' /\ MapsOnce'
  BY <1>1 DEF PagingInv, WritableIsPrivate, TablesAreNotPages, MapsOnce
<1>5. DeadHaveNoTables' /\ TablesApart'
  BY DEF PagingInv, DeadHaveNoTables, TablesApart
<1> QED BY <1>1, <1>3, <1>4, <1>5 DEF PagingInv

-----------------------------------------------------------------------------
\* A page with one user is mapped once.
LEMMA OnlyUserMaps ==
    ASSUME PagingInv, NEW p \in live, NEW v \in Page, Present(p, v)
    PROVE  LET f == Mapping(p, v).frame
           IN  /\ f \in Frame /\ memory_map[f] \in Nat \ {0}
               /\ TablesIn(f) = {}
               /\ memory_map[f] = 1 => Mappers(f) = {<<p, v>>}
<1> DEFINE f == Mapping(p, v).frame
<1>1. p \in Process /\ live \subseteq Process /\ f \in Frame
  BY MappingType DEF PagingInv, PagingTypeOK
<1>2. TablesIn(f) = {}
  BY <1>1 DEF TablesIn, PagingInv, TablesAreNotPages
<1>3. <<p, v>> \in Mappers(f)
  BY DEF Mappers
<1> HIDE DEF f
<1>4. memory_map[f] = Cardinality(Mappers(f))
  <2>1. memory_map[f] = Cardinality(Mappers(f)) + Cardinality(TablesIn(f))
    BY <1>1 DEF PagingInv, CountsMappings
  <2>2. Cardinality(TablesIn(f)) = 0 /\ Cardinality(Mappers(f)) \in Nat
    BY <1>2, FS_EmptySet, UsersFinite DEF PagingInv
  <2> QED BY <2>1, <2>2
<1>5. memory_map[f] \in Nat \ {0}
  <2>1. Cardinality(Mappers(f)) # 0
    BY <1>3, UsersFinite, FS_EmptySet DEF PagingInv
  <2> QED BY <1>4, <2>1, UsersFinite DEF PagingInv
<1>6. ASSUME memory_map[f] = 1 PROVE Mappers(f) = {<<p, v>>}
  <2>1. \E x : Mappers(f) = {x}
    BY <1>4, <1>6, UsersFinite, FS_Singleton DEF PagingInv
  <2> QED BY <1>3, <2>1
<1> QED BY <1>1, <1>2, <1>5, <1>6 DEF f

\* The write fault of the only user: the page becomes writable.
LEMMA WritableAgain ==
    ASSUME PagingInv, NEW p \in live, NEW v \in Page, Present(p, v),
           OnlyUser(Mapping(p, v).frame), PagingTypeOK',
           UNCHANGED <<live, memory_map, pde, vmap>>,
           \A q \in Process, w \in Page :
              Mapping(q, w)' = IF q = p /\ w = v
                               THEN [frame |-> Mapping(p, v).frame, write |-> TRUE]
                               ELSE Mapping(q, w)
    PROVE  PagingInv'
<1> DEFINE f == Mapping(p, v).frame
<1>1. p \in Process /\ live \subseteq Process /\ f \in Frame /\ Mappers(f) = {<<p, v>>}
  BY OnlyUserMaps DEF PagingInv, PagingTypeOK, OnlyUser
<1>2. [frame |-> f, write |-> TRUE] # NoFrame
  <2>1. [frame |-> f, write |-> TRUE] \in [frame : Frame, write : BOOLEAN]
    BY <1>1
  <2> QED BY <2>1, PagingAssumption
<1>3. \A q \in Process, w \in Page :
         /\ Present(q, w)' <=> Present(q, w)
         /\ Present(q, w) => Mapping(q, w)'.frame = Mapping(q, w).frame
         /\ Mapping(q, w)' = Mapping(q, w) \/ (q = p /\ w = v)
  BY <1>2 DEF Present
<1>4. \A g : Mappers(g)' = Mappers(g) /\ TablesIn(g)' = TablesIn(g)
  <2>1. \A g : Mappers(g)' = Mappers(g)
    BY <1>1, <1>3 DEF Mappers
  <2> QED BY <2>1 DEF TablesIn
<1>5. CountsMappings'
  <2>1. \A q \in live : {w \in Page : Present(q, w)'} = {w \in Page : Present(q, w)}
    BY <1>1, <1>3
  <2> QED BY <1>4, <2>1 DEF PagingInv, CountsMappings
<1>6. WritableIsPrivate'
  <2> SUFFICES ASSUME NEW q \in live, NEW r \in live, NEW u \in Page, NEW w \in Page,
                      Present(q, u)', Mapping(q, u)'.write, Present(r, w)',
                      Mapping(r, w)'.frame = Mapping(q, u)'.frame
               PROVE  q = r /\ u = w
    BY DEF WritableIsPrivate
  <2>1. /\ q \in Process /\ r \in Process /\ Present(q, u) /\ Present(r, w)
        /\ Mapping(r, w).frame = Mapping(q, u).frame
    BY <1>1, <1>3
  <2>2. CASE q = p /\ u = v
    <3>1. <<r, w>> \in Mappers(f)
      BY <2>1, <2>2 DEF Mappers
    <3> QED BY <1>1, <2>2, <3>1
  <2>3. CASE ~(q = p /\ u = v)
    BY <1>3, <2>1, <2>3 DEF PagingInv, WritableIsPrivate
  <2> QED BY <2>2, <2>3
<1>7. TablesAreNotPages' /\ MapsOnce'
  BY <1>3 DEF PagingInv, TablesAreNotPages, MapsOnce
<1>8. DeadHaveNoTables' /\ TablesApart'
  BY DEF PagingInv, DeadHaveNoTables, TablesApart
<1> QED BY <1>5, <1>6, <1>7, <1>8 DEF PagingInv

LEMMA WriteFaultStep ==
    ASSUME PagingInv, NEW p \in live, NEW v \in Page, page_fault_write(p, v), ~stopped'
    PROVE  /\ PagingInv'
           /\ Present(p, v)
           /\ \/ /\ UNCHANGED <<live, data>>
                 /\ \A q \in Process, w \in Page :
                       /\ Present(q, w)' <=> Present(q, w)
                       /\ Present(q, w) => Mapping(q, w)'.frame = Mapping(q, w).frame
              \/ \E f, t : /\ NewPage(p, v, f, t)
                           /\ data' = [data EXCEPT ![f] = data[Mapping(p, v).frame]]
<1> DEFINE f == Mapping(p, v).frame
           t == pde[p][v[1]]
<1>1. /\ Present(p, v)
      /\ p \in Process /\ v[1] \in Slot /\ v[2] \in Index /\ t \in Frame /\ t # NoFrame
      /\ pde \in [Process -> [Slot -> Frame \cup {NoFrame}]]
      /\ table \in [Frame -> [Index -> Entry]]
      /\ f \in Frame /\ live \subseteq Process /\ current \in live
  BY MappingType, PagingAssumption DEF PagingInv, PagingTypeOK, Page, page_fault_write
<1>2. ASSUME NEW g \in Frame, Remap(p, v, g), UNCHANGED pde
      PROVE  /\ table' \in [Frame -> [Index -> Entry]]
             /\ \A q \in Process, w \in Page :
                   Mapping(q, w)' = IF q = p /\ w = v THEN [frame |-> g, write |-> TRUE]
                                    ELSE Mapping(q, w)
  <2> DEFINE entries == table[t]
             e == [frame |-> g, write |-> TRUE]
  <2>1. table' = [table EXCEPT ![t] = [entries EXCEPT ![v[2]] = e]]
    BY <1>1, <1>2 DEF Remap
  <2>2. pde' = [pde EXCEPT ![p][v[1]] = t]
    BY <1>1, <1>2
  <2>3. entries \in [Index -> Entry]
    BY <1>1
  <2>4. [entries EXCEPT ![v[2]] = e] \in [Index -> Entry]
    BY <1>1, <2>3, NewEntry
  <2>5. SetsEntry(p, v, t, entries, e)
    BY <1>1, <2>1, <2>2 DEF SetsEntry
  <2>6. table' \in [Frame -> [Index -> Entry]]
    BY <1>1, <2>1, <2>4
  <2> HIDE DEF entries, e, t
  <2>7. \A q \in Process, w \in Page :
           Mapping(q, w)' = IF q = p /\ w = v THEN e ELSE Mapping(q, w)
    BY <1>1, <2>3, <2>5, EntryIsMapping
  <2> QED BY <2>6, <2>7 DEF e
<1>3. CASE OnlyUser(f)
  <2>1. /\ Remap(p, v, f)
        /\ UNCHANGED <<live, current, memory_map, pde, data, vmap, brk, stopped>>
    BY <1>3 DEF page_fault_write
  <2>2. /\ table' \in [Frame -> [Index -> Entry]]
        /\ \A q \in Process, w \in Page :
              Mapping(q, w)' = IF q = p /\ w = v THEN [frame |-> f, write |-> TRUE]
                               ELSE Mapping(q, w)
    BY <1>1, <1>2, <2>1
  <2>3. PagingTypeOK'
    BY <2>1, <2>2 DEF PagingInv, PagingTypeOK
  <2>4. PagingInv'
    BY <1>1, <1>3, <2>1, <2>2, <2>3, WritableAgain
  <2>5. [frame |-> f, write |-> TRUE] # NoFrame
    <3>1. [frame |-> f, write |-> TRUE] \in [frame : Frame, write : BOOLEAN]
      BY <1>1
    <3> QED BY <3>1, PagingAssumption
  <2>6. \A q \in Process, w \in Page :
           /\ Present(q, w)' <=> Present(q, w)
           /\ Present(q, w) => Mapping(q, w)'.frame = Mapping(q, w).frame
    BY <1>1, <2>2, <2>5 DEF Present
  <2> QED BY <1>1, <2>1, <2>4, <2>6
<1>4. CASE ~OnlyUser(f)
  <2> DEFINE new == Fresh(1)
  <2>1. /\ Left > 0
        /\ data' = [data EXCEPT ![new] = data[f]]
        /\ Remap(p, v, new)
        /\ memory_map' = [memory_map EXCEPT ![f] = @ - 1, ![new] = 1]
        /\ UNCHANGED <<live, current, pde, vmap, brk, stopped>>
    BY <1>4 DEF page_fault_write, Stop, copy_page
  <2>2. new \in Unused
    BY <2>1, UnusedFinite, FreshPages
  <2> HIDE DEF new
  <2>3. new \in Frame /\ new # f /\ new # t
    BY <1>1, <2>2, UnusedIsUnused
  <2>4. t # f
    BY <1>1 DEF PagingInv, TablesAreNotPages
  <2>5. memory_map \in [Frame -> Nat] /\ memory_map[f] \in Nat \ {0} /\ memory_map[t] = 1
    BY <1>1, OnlyUserMaps, TableIsUsed DEF PagingInv, PagingTypeOK
  <2> HIDE DEF f, t
  <2>6. /\ memory_map' \in [Frame -> Nat]
        /\ \A g \in Frame : memory_map'[g] = IF g \in {t, new} THEN 1
                                             ELSE IF g = f THEN memory_map[g] - 1
                                             ELSE memory_map[g]
    <3>1. /\ memory_map'[new] = 1 /\ memory_map'[f] = memory_map[f] - 1
          /\ \A g \in Frame : g \notin {f, new} => memory_map'[g] = memory_map[g]
      BY <1>1, <2>1, <2>3, <2>5
    <3>2. memory_map[f] - 1 \in Nat /\ DOMAIN memory_map' = Frame
      BY <2>1, <2>5
    <3>3. memory_map' \in [Frame -> Nat]
      BY <2>1, <2>5, <3>2
    <3> QED BY <2>3, <2>4, <2>5, <3>1, <3>3
  <2>7. /\ table' \in [Frame -> [Index -> Entry]]
        /\ \A q \in Process, w \in Page :
              Mapping(q, w)' = IF q = p /\ w = v THEN [frame |-> new, write |-> TRUE]
                               ELSE Mapping(q, w)
    BY <1>2, <2>1, <2>3
  <2>8. Marked(p, v)
    <3>1. v \in vmap[p] /\ vmap \in [Process -> SUBSET Page]
      BY <1>1 DEF PagingInv, CountsMappings, PagingTypeOK
    <3>2. vmap[p] \cup {v} = vmap[p]
      BY <3>1
    <3> QED BY <1>1, <2>1, <3>1, <3>2 DEF Marked
  <2>9. pde' = [pde EXCEPT ![p][v[1]] = t]
    BY <1>1, <2>1 DEF t
  <2>10. NewPage(p, v, new, t)
    BY <1>1, <2>1, <2>2, <2>3, <2>6, <2>7, <2>8, <2>9 DEF NewPage, f, t
  <2>11. PagingTypeOK'
    <3>1. data' \in [Frame -> UserValue]
      BY <1>1, <2>1, <2>3 DEF PagingInv, PagingTypeOK
    <3> QED BY <2>1, <2>6, <2>7, <3>1 DEF PagingInv, PagingTypeOK
  <2> QED BY <1>1, <2>1, <2>10, <2>11, NewPageInv DEF f
<1> QED BY <1>3, <1>4

\* The entry that parent and child have instead of e.
Kept(e) == IF e = NoFrame THEN NoFrame ELSE [e EXCEPT !.write = FALSE]

(***************************************************************************)
(* What copy_pde has done: the child's tables are in pages that were not   *)
(* used, and map what those of the parent map.                             *)
(***************************************************************************)
Forked(p, child) ==
    /\ child \in Process \ live
    /\ live' = live \cup {child}
    /\ \A s \in Slot : IF pde[p][s] = NoFrame THEN pde'[child][s] = NoFrame
                       ELSE pde'[child][s] \in Unused
    /\ \A s, r \in Slot :
          pde'[child][s] = pde'[child][r] /\ pde'[child][s] # NoFrame => s = r
    /\ \A q \in Process \ {child} : pde'[q] = pde[q]
    /\ \A q \in Process, w \in Page :
          Mapping(q, w)' = IF q \in {p, child} THEN Kept(Mapping(p, w)) ELSE Mapping(q, w)
    /\ \A f \in Frame :
          memory_map'[f] = IF \E s \in Slot : pde'[child][s] = f THEN 1
                           ELSE memory_map[f] + Shared(p, f)
    /\ vmap' = [vmap EXCEPT ![child] = vmap[p]]

\* The addresses at which p maps f.
At(p, f) == {v \in Page : Present(p, v) /\ Mapping(p, v).frame = f}

LEMMA ForkInv ==
    ASSUME PagingInv, PagingTypeOK', NEW p \in live, NEW child, Forked(p, child)
    PROVE  /\ PagingInv'
           /\ \A q \in Process, w \in Page :
                 Present(q, w)' <=> IF q = child THEN Present(p, w) ELSE Present(q, w)
           /\ \A w \in Page : Present(p, w)
                 => Mapping(child, w)'.frame = Mapping(p, w).frame
           /\ \A q \in live, w \in Page : Present(q, w)
                 => Mapping(q, w)'.frame = Mapping(q, w).frame
<1>1. /\ p \in Process /\ live \subseteq Process /\ child \in Process /\ child \notin live
      /\ child # p /\ live' = live \cup {child}
  BY DEF PagingInv, PagingTypeOK, Forked
<1>2. \A w \in Page : ~Present(child, w)
  BY <1>1 DEF Present, Mapping, PagingInv, DeadHaveNoTables, Page
<1>3. \A w \in Page :
         IF Present(p, w)
         THEN /\ Kept(Mapping(p, w)) # NoFrame
              /\ Kept(Mapping(p, w)).frame = Mapping(p, w).frame
              /\ Kept(Mapping(p, w)).write = FALSE
         ELSE Kept(Mapping(p, w)) = NoFrame
  <2> SUFFICES ASSUME NEW w \in Page, Present(p, w)
               PROVE  /\ Kept(Mapping(p, w)) # NoFrame
                      /\ Kept(Mapping(p, w)).frame = Mapping(p, w).frame
                      /\ Kept(Mapping(p, w)).write = FALSE
    BY DEF Kept, Present
  <2> DEFINE e == Mapping(p, w)
  <2>1. e \in [frame : Frame, write : BOOLEAN] /\ e # NoFrame
    BY <1>1, MappingType DEF PagingInv, Present
  <2> HIDE DEF e
  <2>2. Kept(e) = [e EXCEPT !.write = FALSE]
    BY <2>1 DEF Kept
  <2>3. Kept(e) \in [frame : Frame, write : BOOLEAN]
    BY <2>1, <2>2
  <2>4. Kept(e).frame = e.frame /\ Kept(e).write = FALSE /\ Kept(e) # NoFrame
    BY <2>1, <2>2, <2>3, PagingAssumption
  <2> QED BY <2>4 DEF e
<1>4. \A q \in Process, w \in Page :
         /\ Present(q, w)' <=> IF q = child THEN Present(p, w) ELSE Present(q, w)
         /\ Present(q, w) => Mapping(q, w)'.frame = Mapping(q, w).frame
         /\ Present(p, w) => Mapping(child, w)'.frame = Mapping(p, w).frame
         /\ Present(q, w)' /\ q \in {p, child} => Mapping(q, w)'.write = FALSE
         /\ q \notin {p, child} => Mapping(q, w)' = Mapping(q, w)
  <2> SUFFICES ASSUME NEW q \in Process, NEW w \in Page
               PROVE  /\ Present(q, w)' <=> IF q = child THEN Present(p, w) ELSE Present(q, w)
                      /\ Present(q, w) => Mapping(q, w)'.frame = Mapping(q, w).frame
                      /\ Present(p, w) => Mapping(child, w)'.frame = Mapping(p, w).frame
                      /\ Present(q, w)' /\ q \in {p, child} => Mapping(q, w)'.write = FALSE
                      /\ q \notin {p, child} => Mapping(q, w)' = Mapping(q, w)
    OBVIOUS
  <2>1. /\ Mapping(q, w)' = IF q \in {p, child} THEN Kept(Mapping(p, w)) ELSE Mapping(q, w)
        /\ Mapping(child, w)' = Kept(Mapping(p, w))
    BY <1>1 DEF Forked
  <2> QED BY <1>1, <1>2, <1>3, <2>1 DEF Present
<1>5. \A s \in Slot : pde'[child][s] = NoFrame \/ pde'[child][s] \in Unused
  BY DEF Forked
<1>6. \A q \in Process, s \in Slot : q # child => pde'[q][s] = pde[q][s]
  BY DEF Forked
<1>7. DeadHaveNoTables'
  BY <1>1, <1>6 DEF PagingInv, DeadHaveNoTables
<1>8. TablesApart'
  <2> SUFFICES ASSUME NEW q \in Process, NEW r \in Process, NEW s \in Slot, NEW u \in Slot,
                      pde'[q][s] = pde'[r][u], pde'[q][s] # NoFrame
               PROVE  q = r /\ s = u
    BY DEF TablesApart
  <2>1. CASE q = child /\ r = child
    BY <2>1 DEF Forked
  <2>2. CASE q = child /\ r # child
    BY <1>5, <1>6, <2>2, UnusedIsUnused
  <2>3. CASE q # child /\ r = child
    BY <1>5, <1>6, <2>3, UnusedIsUnused
  <2>4. CASE q # child /\ r # child
    BY <1>6, <2>4 DEF PagingInv, TablesApart
  <2> QED BY <2>1, <2>2, <2>3, <2>4
<1>9. TablesAreNotPages'
  <2> SUFFICES ASSUME NEW q \in Process, NEW r \in Process, NEW w \in Page, NEW s \in Slot,
                      Present(q, w)', Mapping(q, w)'.frame = pde'[r][s]
               PROVE  FALSE
    BY DEF TablesAreNotPages
  <2>1. PICK o \in Process : Present(o, w) /\ Mapping(o, w).frame = pde'[r][s]
    BY <1>1, <1>4
  <2>2. CASE r = child
    <3>1. Mapping(o, w).frame # NoFrame
      BY <2>1, MappingType, PagingAssumption DEF PagingInv
    <3> QED BY <1>5, <2>1, <2>2, <3>1, UnusedIsUnused
  <2>3. CASE r # child
    BY <1>6, <2>1, <2>3 DEF PagingInv, TablesAreNotPages
  <2> QED BY <2>2, <2>3
<1>10. MapsOnce'
  BY <1>1, <1>4 DEF PagingInv, MapsOnce
<1>11. WritableIsPrivate'
  <2> SUFFICES ASSUME NEW q \in live', NEW r \in live', NEW v \in Page, NEW w \in Page,
                      Present(q, v)', Mapping(q, v)'.write, Present(r, w)',
                      Mapping(r, w)'.frame = Mapping(q, v)'.frame
               PROVE  q = r /\ v = w
    BY DEF WritableIsPrivate
  <2>1. q \notin {p, child} /\ q \in live /\ Present(q, v) /\ Mapping(q, v).write
    BY <1>1, <1>4
  <2>2. \A o \in live : Present(o, w) /\ Mapping(o, w).frame = Mapping(q, v).frame
                           => o = q /\ v = w
    BY <2>1 DEF PagingInv, WritableIsPrivate
  <2>3. Mapping(q, v)'.frame = Mapping(q, v).frame
    BY <1>1, <1>4, <2>1
  <2>4. CASE r = child
    <3>1. Present(p, w) /\ Mapping(p, w).frame = Mapping(q, v).frame
      BY <1>1, <1>4, <2>3, <2>4
    <3> QED BY <2>1, <2>2, <3>1
  <2>5. CASE r # child
    <3>1. r \in live /\ Present(r, w) /\ Mapping(r, w).frame = Mapping(q, v).frame
      BY <1>1, <1>4, <2>3, <2>5
    <3> QED BY <2>2, <3>1
  <2> QED BY <2>4, <2>5
<1>12. \A q \in live' : vmap'[q] = {w \in Page : Present(q, w)'}
  <2>1. \A q \in live : vmap[q] = {w \in Page : Present(q, w)}
    BY DEF PagingInv, CountsMappings
  <2>2. \A q \in Process : vmap'[q] = IF q = child THEN vmap[p] ELSE vmap[q]
    BY <1>1 DEF Forked, PagingInv, PagingTypeOK
  <2> SUFFICES ASSUME NEW q \in live' PROVE vmap'[q] = {w \in Page : Present(q, w)'}
    OBVIOUS
  <2>3. CASE q = child
    BY <1>1, <1>4, <2>1, <2>2, <2>3
  <2>4. CASE q # child
    BY <1>1, <1>4, <2>1, <2>2, <2>4
  <2> QED BY <2>3, <2>4
<1>13. \A f \in Frame : Mappers(f)' = Mappers(f) \cup ({child} \X At(p, f))
  <2> SUFFICES ASSUME NEW f \in Frame
               PROVE  Mappers(f)' = Mappers(f) \cup ({child} \X At(p, f))
    OBVIOUS
  <2>1. ASSUME NEW q \in live', NEW w \in Page
        PROVE  <<q, w>> \in Mappers(f)'
                  <=> <<q, w>> \in Mappers(f) \cup ({child} \X At(p, f))
    <3>1. CASE q = child
      BY <1>1, <1>4, <3>1 DEF Mappers, At
    <3>2. CASE q # child
      BY <1>1, <1>4, <3>2 DEF Mappers, At
    <3> QED BY <3>1, <3>2
  <2>2. /\ Mappers(f)' \subseteq live' \X Page /\ Mappers(f) \subseteq live' \X Page
        /\ {child} \X At(p, f) \subseteq live' \X Page
    BY <1>1 DEF Mappers, At
  <2> QED BY <2>1, <2>2
<1>14. ASSUME NEW f \in Frame
       PROVE  memory_map'[f] = Cardinality(Mappers(f)') + Cardinality(TablesIn(f)')
  <2>1. memory_map[f] = Cardinality(Mappers(f)) + Cardinality(TablesIn(f))
    BY DEF PagingInv, CountsMappings
  <2>2. f # NoFrame
    BY PagingAssumption
  <2>3. CASE \E s \in Slot : pde'[child][s] = f
    <3>1. PICK s \in Slot : pde'[child][s] = f
      BY <2>3
    <3>2. f \in Unused
      BY <1>5, <2>2, <3>1
    <3>3. Mappers(f) = {} /\ TablesIn(f) = {} /\ At(p, f) = {}
      BY <1>1, <3>2, UnusedIsUnused DEF At
    <3>4. Mappers(f)' = {}
      BY <1>13, <3>3
    <3>5. TablesIn(f)' = {<<child, s>>}
      <4>1. ASSUME NEW q \in live', NEW r \in Slot
            PROVE  <<q, r>> \in TablesIn(f)' <=> q = child /\ r = s
        <5>1. CASE q = child
          BY <2>2, <3>1, <4>1, <5>1 DEF TablesIn, Forked
        <5>2. CASE q # child
          BY <1>1, <1>6, <3>2, <5>2, UnusedIsUnused DEF TablesIn
        <5> QED BY <5>1, <5>2
      <4>2. TablesIn(f)' \subseteq live' \X Slot /\ child \in live'
        BY <1>1 DEF TablesIn
      <4> QED BY <4>1, <4>2
    <3>6. Cardinality(Mappers(f)') = 0 /\ Cardinality(TablesIn(f)') = 1
      BY <3>4, <3>5, FS_EmptySet, FS_Singleton
    <3> QED BY <2>3, <3>6 DEF Forked
  <2>4. CASE ~\E s \in Slot : pde'[child][s] = f
    <3>1. TablesIn(f)' = TablesIn(f)
      <4>1. ASSUME NEW q \in live', NEW r \in Slot
            PROVE  <<q, r>> \in TablesIn(f)' <=> <<q, r>> \in TablesIn(f)
        BY <1>1, <1>6, <2>4 DEF TablesIn
      <4>2. TablesIn(f)' \subseteq live' \X Slot /\ TablesIn(f) \subseteq live' \X Slot
        BY <1>1 DEF TablesIn
      <4> QED BY <4>1, <4>2
    <3> DEFINE added == {child} \X At(p, f)
    <3>2. IsFiniteSet(At(p, f)) /\ Cardinality(At(p, f)) \in Nat
      <4>1. IsFiniteSet({p} \X At(p, f))
        <5>1. {p} \X At(p, f) \in SUBSET Mappers(f)
          BY DEF Mappers, At
        <5> QED BY <5>1, UsersFinite, FS_Subset DEF PagingInv
      <4>2. IsFiniteSet(At(p, f))
        <5> DEFINE g == [v \in At(p, f) |-> <<p, v>>]
        <5>1. g \in Injection(At(p, f), {p} \X At(p, f))
          BY DEF Injection, IsInjective
        <5> HIDE DEF g
        <5> QED BY <4>1, <5>1, FS_Injection
      <4> QED BY <4>2, FS_CardinalityType
    <3>3. IsFiniteSet(added) /\ Cardinality(added) = Cardinality(At(p, f))
      <4>1. IsFiniteSet({child}) /\ Cardinality({child}) = 1
        BY FS_Singleton
      <4>2. Cardinality(added) = 1 * Cardinality(At(p, f)) /\ IsFiniteSet(added)
        BY <3>2, <4>1, FS_Product
      <4> QED BY <3>2, <4>2
    <3>4. Mappers(f) \cap added = {}
      BY <1>1 DEF Mappers
    <3>5. Mappers(f)' = Mappers(f) \cup added
      BY <1>13
    <3> HIDE DEF added
    <3>6. Cardinality(Mappers(f)') = Cardinality(Mappers(f)) + Cardinality(At(p, f)) - 0
      <4>1. Cardinality(Mappers(f) \cup added)
               = Cardinality(Mappers(f)) + Cardinality(added)
                    - Cardinality(Mappers(f) \cap added)
        BY <3>3, UsersFinite, FS_Union DEF PagingInv
      <4>2. Cardinality(Mappers(f) \cap added) = 0
        BY <3>4, FS_EmptySet
      <4> QED BY <3>3, <3>5, <4>1, <4>2
    <3>7. Shared(p, f) = Cardinality(At(p, f))
      BY DEF Shared, At
    <3>8. memory_map'[f] = memory_map[f] + Cardinality(At(p, f))
      BY <2>4, <3>7 DEF Forked
    <3>9. Cardinality(Mappers(f)) \in Nat /\ Cardinality(TablesIn(f)) \in Nat
      BY UsersFinite DEF PagingInv
    <3> QED BY <2>1, <3>1, <3>2, <3>6, <3>8, <3>9
  <2> QED BY <2>3, <2>4
<1>15. PagingInv'
  BY <1>7, <1>8, <1>9, <1>10, <1>11, <1>12, <1>14 DEF PagingInv, CountsMappings
<1> QED BY <1>1, <1>4, <1>15

LEMMA CopyStep ==
    ASSUME PagingInv, NEW p \in live, NEW child \in Process \ live,
           copy_pde(p, child), ~stopped'
    PROVE  PagingTypeOK' /\ Forked(p, child) /\ UNCHANGED data
<1> DEFINE slots == {s \in Slot : pde[p][s] # NoFrame}
           Copy(s) == Fresh(IF s = "stack" /\ "heap" \in slots THEN 2 ELSE 1)
           Copied(f) == {s \in slots : f \in {pde[p][s], Copy(s)}}
<1>1. /\ Left >= Cardinality(slots)
      /\ pde' = [pde EXCEPT ![child] =
                    [s \in Slot |-> IF s \in slots THEN Copy(s) ELSE NoFrame]]
      /\ table' = [f \in Frame |->
                      IF Copied(f) = {} THEN table[f]
                      ELSE ReadOnly(table[pde[p][CHOOSE s \in Copied(f) : TRUE]])]
      /\ memory_map' = [f \in Frame |->
                           IF \E s \in slots : Copy(s) = f THEN 1
                           ELSE memory_map[f] + Shared(p, f)]
      /\ live' = live \cup {child}
      /\ vmap' = [vmap EXCEPT ![child] = vmap[p]]
      /\ brk' = [brk EXCEPT ![child] = brk[p]]
      /\ UNCHANGED <<current, data, stopped>>
  <2>1. Left \in Nat
    BY UnusedFinite
  <2>2. IsFiniteSet(slots) /\ Cardinality(slots) \in Nat
    <3>1. slots \in SUBSET Slot
      OBVIOUS
    <3> QED BY <3>1, PagesFinite, FS_Subset, FS_CardinalityType
  <2>3. Left < Cardinality(slots) => stopped'
    BY DEF copy_pde, Stop
  <2> QED BY <2>1, <2>2, <2>3 DEF copy_pde
<1>2. /\ p \in Process /\ child \in Process /\ child # p /\ live \subseteq Process
      /\ pde \in [Process -> [Slot -> Frame \cup {NoFrame}]]
      /\ table \in [Frame -> [Index -> Entry]]
      /\ memory_map \in [Frame -> Nat]
      /\ vmap \in [Process -> SUBSET Page] /\ brk \in [Process -> 0..TableSize]
  BY DEF PagingInv, PagingTypeOK
<1>3. /\ \A s \in slots : Copy(s) \in Unused
      /\ \A s, r \in slots : Copy(s) = Copy(r) => s = r
  <2>1. CASE slots = {}
    BY <2>1
  <2>2. CASE slots = {"heap", "stack"}
    <3>1. Cardinality(slots) = 2
      <4>1. IsFiniteSet({"heap"}) /\ Cardinality({"heap"}) = 1
        BY FS_Singleton
      <4>2. Cardinality({"heap"} \cup {"stack"}) = 1 + 1
        BY <4>1, FS_AddElement
      <4>3. slots = {"heap"} \cup {"stack"}
        BY <2>2
      <4> QED BY <4>2, <4>3
    <3>2. Fresh(1) \in Unused /\ Fresh(2) \in Unused /\ Fresh(1) # Fresh(2)
      BY <1>1, <3>1, FreshPages
    <3>3. Copy("heap") = Fresh(1) /\ Copy("stack") = Fresh(2)
      BY <2>2
    <3> HIDE DEF slots, Copy
    <3> QED BY <2>2, <3>2, <3>3
  <2>3. ASSUME NEW o \in Slot, slots = {o}
        PROVE  /\ \A s \in slots : Copy(s) \in Unused
               /\ \A s, r \in slots : Copy(s) = Copy(r) => s = r
    <3>1. Cardinality(slots) = 1
      BY <2>3, FS_Singleton
    <3>2. Fresh(1) \in Unused
      BY <1>1, <3>1, FreshPages
    <3>3. Copy(o) = Fresh(1)
      BY <2>3
    <3> HIDE DEF slots, Copy
    <3> QED BY <2>3, <3>2, <3>3
  <2>4. slots = {} \/ slots = {"heap", "stack"} \/ \E o \in Slot : slots = {o}
    BY DEF Slot
  <2> QED BY <2>1, <2>2, <2>3, <2>4
<1>4. \A s \in slots : pde[p][s] \in Frame /\ Copy(s) \in Frame
  BY <1>2, <1>3 DEF Unused
<1>5. \A s, r \in slots : pde[p][s] # Copy(r) /\ (pde[p][s] = pde[p][r] => s = r)
  BY <1>2, <1>3, UnusedIsUnused DEF PagingInv, TablesApart
<1>6. \A s \in slots : Copied(pde[p][s]) = {s} /\ Copied(Copy(s)) = {s}
  BY <1>3, <1>5
<1>7. \A s \in Slot : s \in slots <=> pde[p][s] # NoFrame
  OBVIOUS
<1> HIDE DEF Copy
<1>8. \A s \in slots : /\ table'[pde[p][s]] = ReadOnly(table[pde[p][s]])
                       /\ table'[Copy(s)] = ReadOnly(table[pde[p][s]])
  <2> SUFFICES ASSUME NEW s \in slots
               PROVE  /\ table'[pde[p][s]] = ReadOnly(table[pde[p][s]])
                      /\ table'[Copy(s)] = ReadOnly(table[pde[p][s]])
    OBVIOUS
  <2>1. (CHOOSE r \in {s} : TRUE) = s
    OBVIOUS
  <2>2. ASSUME NEW f \in {pde[p][s], Copy(s)} PROVE table'[f] = ReadOnly(table[pde[p][s]])
    <3>1. f \in Frame /\ Copied(f) = {s}
      BY <1>4, <1>6
    <3> HIDE DEF Copied
    <3> QED BY <1>1, <2>1, <3>1
  <2> QED BY <2>2
<1>9. \A f \in Frame : (\A s \in slots : f # pde[p][s] /\ f # Copy(s)) => table'[f] = table[f]
  BY <1>1
<1> HIDE DEF Copied
<1>10. /\ \A s \in Slot : pde'[child][s] = IF s \in slots THEN Copy(s) ELSE NoFrame
       /\ \A q \in Process \ {child} : pde'[q] = pde[q]
  BY <1>1, <1>2
<1>11. ASSUME NEW q \in Process, NEW w \in Page
       PROVE  Mapping(q, w)' = IF q \in {p, child} THEN Kept(Mapping(p, w))
                               ELSE Mapping(q, w)
  <2> DEFINE s == w[1]
             i == w[2]
  <2>1. s \in Slot /\ i \in Index
    BY DEF Page
  <2>2. CASE q \in {p, child} /\ s \in slots
    <3>1. pde'[q][s] \in {pde[p][s], Copy(s)} /\ pde'[q][s] # NoFrame
      BY <1>2, <1>4, <1>10, <2>1, <2>2, PagingAssumption
    <3>2. Mapping(q, w)' = ReadOnly(table[pde[p][s]])[i]
      BY <1>8, <2>2, <3>1 DEF Mapping
    <3>3. Mapping(p, w) = table[pde[p][s]][i]
      BY <1>7, <2>1, <2>2 DEF Mapping
    <3> QED BY <2>1, <2>2, <3>2, <3>3 DEF ReadOnly, Kept
  <2>3. CASE q \in {p, child} /\ s \notin slots
    BY <1>2, <1>7, <1>10, <2>1, <2>3 DEF Mapping, Kept
  <2>4. CASE q \notin {p, child}
    <3>1. pde'[q][s] = pde[q][s]
      BY <1>10, <2>1, <2>4
    <3>2. CASE pde[q][s] = NoFrame
      BY <2>4, <3>1, <3>2 DEF Mapping
    <3>3. CASE pde[q][s] # NoFrame
      <4>1. pde[q][s] \in Frame
        BY <1>2, <2>1, <3>3
      <4>2. \A r \in slots : pde[q][s] # pde[p][r] /\ pde[q][s] # Copy(r)
        BY <1>2, <1>3, <1>7, <2>1, <2>4, <3>3, UnusedIsUnused DEF PagingInv, TablesApart
      <4>3. table'[pde[q][s]] = table[pde[q][s]]
        BY <1>9, <4>1, <4>2
      <4> QED BY <2>4, <3>1, <4>3 DEF Mapping
    <3> QED BY <3>2, <3>3
  <2> QED BY <2>2, <2>3, <2>4
<1>12. \A f \in Frame :
          memory_map'[f] = IF \E s \in Slot : pde'[child][s] = f THEN 1
                           ELSE memory_map[f] + Shared(p, f)
  BY <1>1, <1>10, PagingAssumption
<1>13. Forked(p, child)
  <2>1. \A s \in Slot : IF pde[p][s] = NoFrame THEN pde'[child][s] = NoFrame
                        ELSE pde'[child][s] \in Unused
    BY <1>3, <1>7, <1>10
  <2>2. \A s, r \in Slot :
           pde'[child][s] = pde'[child][r] /\ pde'[child][s] # NoFrame => s = r
    BY <1>3, <1>10
  <2> QED BY <1>1, <1>10, <1>11, <1>12, <2>1, <2>2 DEF Forked
<1>14. PagingTypeOK'
  <2>1. pde' \in [Process -> [Slot -> Frame \cup {NoFrame}]]
    <3>1. [s \in Slot |-> IF s \in slots THEN Copy(s) ELSE NoFrame]
             \in [Slot -> Frame \cup {NoFrame}]
      BY <1>4
    <3> QED BY <1>1, <1>2, <3>1
  <2>2. table' \in [Frame -> [Index -> Entry]]
    <3>1. \A entries \in [Index -> Entry] : ReadOnly(entries) \in [Index -> Entry]
      BY DEF ReadOnly, Entry
    <3>2. \A f \in Frame : Copied(f) # {}
             => pde[p][CHOOSE s \in Copied(f) : TRUE] \in Frame
      <4> SUFFICES ASSUME NEW f \in Frame, Copied(f) # {}
                   PROVE  pde[p][CHOOSE s \in Copied(f) : TRUE] \in Frame
        OBVIOUS
      <4>1. (CHOOSE s \in Copied(f) : TRUE) \in Copied(f)
        OBVIOUS
      <4>2. Copied(f) \subseteq slots
        BY DEF Copied
      <4> QED BY <1>4, <4>1, <4>2
    <3> QED BY <1>1, <1>2, <3>1, <3>2
  <2>3. memory_map' \in [Frame -> Nat]
    <3>1. \A f \in Frame : Shared(p, f) \in Nat
      <4> SUFFICES ASSUME NEW f \in Frame PROVE Shared(p, f) \in Nat
        OBVIOUS
      <4>1. IsFiniteSet(Page)
        BY PagesFinite
      <4>2. {v \in Page : Present(p, v) /\ Mapping(p, v).frame = f} \in SUBSET Page
        OBVIOUS
      <4> QED BY <4>1, <4>2, FS_Subset, FS_CardinalityType DEF Shared
    <3> QED BY <1>1, <1>2, <3>1
  <2>4. vmap' \in [Process -> SUBSET Page] /\ brk' \in [Process -> 0..TableSize]
    BY <1>1, <1>2
  <2> QED BY <1>1, <1>2, <2>1, <2>2, <2>3, <2>4 DEF PagingInv, PagingTypeOK
<1> QED BY <1>1, <1>13, <1>14

-----------------------------------------------------------------------------
\* What the program of p sees at v.
Seen(p, v) == IF p \in live /\ Present(p, v) THEN data[Mapping(p, v).frame] ELSE NoFrame

\* The kernel stores into a page that the process may not write itself.
StoresPastProtection(p, v) ==
    /\ \E x \in UserValue : kernel_store(p, v, x)
    /\ ~Mapping(p, v).write

SpacesStep == Spaces!SpacesNext \/ UNCHANGED <<live, contentsOf>>

LEMMA ContentsStay ==
    ASSUME UNCHANGED live, \A p \in Process, v \in Page : Seen(p, v)' = Seen(p, v)
    PROVE  SpacesStep
<1>1. contentsOf' = contentsOf
  BY DEF contentsOf, Seen
<1> QED BY <1>1 DEF SpacesStep

LEMMA ContentsPut ==
    ASSUME NEW p \in live, p \in Process, NEW v \in Page, NEW x \in UserValue,
           UNCHANGED live,
           \A q \in Process, w \in Page :
              Seen(q, w)' = IF q = p /\ w = v THEN x ELSE Seen(q, w)
    PROVE  SpacesStep
<1>1. contentsOf' = [contentsOf EXCEPT ![p][v] = x]
  BY DEF contentsOf, Seen
<1>2. contentsOf[p][v] = NoFrame \/ contentsOf[p][v] # NoFrame
  OBVIOUS
<1> QED BY <1>1, <1>2 DEF SpacesStep, Spaces!SpacesNext, Spaces!Appear, Spaces!Store, Spaces!Put

(***************************************************************************)
(* One step keeps the invariant and, unless the kernel stores past the     *)
(* protection of a page, is a step of the separate address spaces.         *)
(***************************************************************************)
LEMMA PagingStep ==
    ASSUME PagingInv, [PagingNext]_vars
    PROVE  /\ PagingInv'
           /\ SpacesStep \/ \E v \in Page : StoresPastProtection(current, v)
<1> DEFINE p == current
           Goal == /\ PagingInv'
                   /\ SpacesStep \/ \E v \in Page : StoresPastProtection(p, v)
<1>1. /\ p \in live /\ p \in Process /\ live \subseteq Process
      /\ data \in [Frame -> UserValue] /\ stopped \in BOOLEAN
  BY DEF PagingInv, PagingTypeOK
<1>2. ASSUME UNCHANGED <<live, memory_map, pde, table, vmap, data>>, PagingTypeOK'
      PROVE  Goal
  <2>1. PagingInv' /\ \A q, v : Mapping(q, v)' = Mapping(q, v)
    BY <1>2, QuietPaging
  <2>2. \A q \in Process, v \in Page : Seen(q, v)' = Seen(q, v)
    BY <1>2, <2>1 DEF Seen, Present
  <2> QED BY <1>2, <2>1, <2>2, ContentsStay
<1>3. CASE Stop
  BY <1>2, <1>3 DEF Stop, PagingInv, PagingTypeOK
<1>4. ASSUME NEW v \in Page, NEW f, NEW t, NewPage(p, v, f, t), PagingInv',
             NEW x \in UserValue, data' = [data EXCEPT ![f] = x]
      PROVE  Goal
  <2>1. /\ f \in Frame /\ data'[f] = x
        /\ \A g \in Frame : g # f => data'[g] = data[g]
    BY <1>1, <1>4, UnusedIsUnused DEF NewPage
  <2>2. [frame |-> f, write |-> TRUE] # NoFrame
    <3>1. [frame |-> f, write |-> TRUE] \in [frame : Frame, write : BOOLEAN]
      BY <2>1
    <3> QED BY <3>1, PagingAssumption
  <2>3. \A q \in Process, w \in Page :
           Present(q, w) => Mapping(q, w).frame \in Frame /\ Mapping(q, w).frame # f
    BY <1>4, MappingType, UnusedIsUnused DEF NewPage, PagingInv
  <2>4. \A q \in Process, w \in Page :
           Seen(q, w)' = IF q = p /\ w = v THEN x ELSE Seen(q, w)
    <3> SUFFICES ASSUME NEW q \in Process, NEW w \in Page
                 PROVE  Seen(q, w)' = IF q = p /\ w = v THEN x ELSE Seen(q, w)
      OBVIOUS
    <3>1. live' = live /\ Mapping(q, w)' = IF q = p /\ w = v
                                          THEN [frame |-> f, write |-> TRUE]
                                          ELSE Mapping(q, w)
      BY <1>4 DEF NewPage
    <3>2. CASE q = p /\ w = v
      BY <1>1, <2>1, <2>2, <3>1, <3>2 DEF Seen, Present
    <3>3. CASE ~(q = p /\ w = v)
      BY <2>1, <2>3, <3>1, <3>3 DEF Seen, Present
    <3> QED BY <3>2, <3>3
  <2> QED BY <1>1, <1>4, <2>4, ContentsPut DEF NewPage
<1>5. ASSUME NEW v \in Page, page_fault_absent(p, v), ~stopped PROVE Goal
  <2>1. CASE ~stopped'
    <3>1. PagingInv' /\ UNCHANGED data
      BY <1>1, <1>5, <2>1, LinkStep
    <3>2. PICK f, t : NewPage(p, v, f, t)
      BY <1>1, <1>5, <2>1, LinkStep
    <3>3. f \in Frame
      BY <3>2 DEF NewPage, Unused
    <3>4. data' = [data EXCEPT ![f] = data[f]] /\ data[f] \in UserValue
      BY <1>1, <3>1, <3>3
    <3> QED BY <1>4, <3>1, <3>2, <3>4
  <2>2. CASE stopped'
    <3>1. Stop \/ UNCHANGED stopped
      BY <1>5 DEF page_fault_absent, link_page
    <3> QED BY <1>3, <1>5, <2>2, <3>1
  <2> QED BY <2>1, <2>2
<1>6. ASSUME NEW v \in Page, page_fault_write(p, v), ~stopped PROVE Goal
  <2>1. CASE ~stopped'
    <3>1. /\ PagingInv' /\ Present(p, v)
          /\ \/ /\ UNCHANGED <<live, data>>
                /\ \A q \in Process, w \in Page :
                      /\ Present(q, w)' <=> Present(q, w)
                      /\ Present(q, w) => Mapping(q, w)'.frame = Mapping(q, w).frame
             \/ \E f, t : /\ NewPage(p, v, f, t)
                          /\ data' = [data EXCEPT ![f] = data[Mapping(p, v).frame]]
      BY <1>1, <1>6, <2>1, WriteFaultStep
    <3>2. CASE /\ UNCHANGED <<live, data>>
               /\ \A q \in Process, w \in Page :
                     /\ Present(q, w)' <=> Present(q, w)
                     /\ Present(q, w) => Mapping(q, w)'.frame = Mapping(q, w).frame
      <4>1. \A q \in Process, w \in Page : Seen(q, w)' = Seen(q, w)
        BY <3>2 DEF Seen
      <4> QED BY <3>1, <3>2, <4>1, ContentsStay
    <3>3. ASSUME NEW f, NEW t, NewPage(p, v, f, t),
                 data' = [data EXCEPT ![f] = data[Mapping(p, v).frame]]
          PROVE  Goal
      <4>1. data[Mapping(p, v).frame] \in UserValue
        BY <1>1, <3>1, MappingType DEF PagingInv
      <4> QED BY <1>4, <3>1, <3>3, <4>1
    <3> QED BY <3>1, <3>2, <3>3
  <2>2. CASE stopped'
    <3>1. Stop \/ UNCHANGED stopped
      BY <1>6 DEF page_fault_write
    <3> QED BY <1>3, <1>6, <2>2, <3>1
  <2> QED BY <2>1, <2>2
<1>7. ASSUME NEW v \in Page, NEW x \in UserValue, StoreInto(p, v, x), Present(p, v)
      PROVE  PagingInv' /\ (Mapping(p, v).write => SpacesStep)
  <2> DEFINE f == Mapping(p, v).frame
  <2>1. f \in Frame
    BY <1>1, <1>7, MappingType DEF PagingInv
  <2>2. /\ data' \in [Frame -> UserValue] /\ data'[f] = x
        /\ \A g \in Frame : g # f => data'[g] = data[g]
        /\ UNCHANGED <<live, current, memory_map, pde, table, vmap, brk, stopped>>
    BY <1>1, <1>7, <2>1 DEF StoreInto
  <2>3. PagingTypeOK'
    BY <2>2 DEF PagingInv, PagingTypeOK
  <2>4. PagingInv' /\ \A q, w : Mapping(q, w)' = Mapping(q, w)
    BY <2>2, <2>3, QuietPaging
  <2>5. ASSUME Mapping(p, v).write PROVE SpacesStep
    <3>1. \A q \in live, w \in Page :
             Present(q, w) => /\ Mapping(q, w).frame \in Frame
                              /\ Mapping(q, w).frame = f => q = p /\ w = v
      BY <1>1, <1>7, <2>5, MappingType DEF PagingInv, WritableIsPrivate
    <3>2. \A q \in Process, w \in Page :
             Seen(q, w)' = IF q = p /\ w = v THEN x ELSE Seen(q, w)
      BY <1>1, <1>7, <2>2, <2>4, <3>1 DEF Seen, Present
    <3> QED BY <1>1, <2>2, <3>2, ContentsPut
  <2> QED BY <2>4, <2>5
<1>8. ASSUME NEW v \in Page, NEW x \in UserValue,
             store(p, v, x) \/ kernel_store(p, v, x)
      PROVE  Goal
  <2>1. /\ StoreInto(p, v, x) /\ Present(p, v)
        /\ Mapping(p, v).write \/ kernel_store(p, v, x)
    BY <1>8 DEF store, kernel_store
  <2>2. PagingInv' /\ (Mapping(p, v).write => SpacesStep)
    BY <1>7, <2>1
  <2>3. ~Mapping(p, v).write => StoresPastProtection(p, v)
    BY <2>1 DEF StoresPastProtection
  <2> QED BY <2>2, <2>3
<1>9. ASSUME NEW n \in 0..TableSize, sys_brk(p, n) PROVE Goal
  <2>1. CASE Stop
    BY <1>3, <2>1
  <2>2. CASE /\ brk' = [brk EXCEPT ![p] = n]
             /\ UNCHANGED <<live, current, memory_map, pde, table, data, vmap, stopped>>
    <3>1. PagingTypeOK'
      BY <1>1, <2>2 DEF PagingInv, PagingTypeOK
    <3> QED BY <1>2, <2>2, <3>1
  <2> QED BY <1>9, <2>1, <2>2 DEF sys_brk
<1>10. ASSUME NEW child \in Process \ live, copy_pde(p, child), ~stopped PROVE Goal
  <2>1. CASE ~stopped'
    <3>1. PagingTypeOK' /\ Forked(p, child) /\ UNCHANGED data
      BY <1>1, <1>10, <2>1, CopyStep
    <3>2. /\ PagingInv'
          /\ \A q \in Process, w \in Page :
                Present(q, w)' <=> IF q = child THEN Present(p, w) ELSE Present(q, w)
          /\ \A w \in Page : Present(p, w)
                => Mapping(child, w)'.frame = Mapping(p, w).frame
          /\ \A q \in live, w \in Page : Present(q, w)
                => Mapping(q, w)'.frame = Mapping(q, w).frame
      BY <1>1, <3>1, ForkInv
    <3>3. live' = live \cup {child}
      BY <3>1 DEF Forked
    <3>4. \A q \in Process, w \in Page :
             Seen(q, w)' = IF q = child THEN Seen(p, w) ELSE Seen(q, w)
      BY <1>1, <1>10, <3>1, <3>2, <3>3 DEF Seen
    <3>5. contentsOf' = [contentsOf EXCEPT ![child] = contentsOf[p]]
      BY <1>1, <1>10, <3>4 DEF contentsOf, Seen
    <3>6. Spaces!Fork(p, child)
      BY <1>10, <3>3, <3>5 DEF Spaces!Fork
    <3> QED BY <1>1, <3>2, <3>6 DEF SpacesStep, Spaces!SpacesNext
  <2>2. CASE stopped'
    <3>1. Stop \/ UNCHANGED stopped
      BY <1>10 DEF copy_pde
    <3> QED BY <1>3, <1>10, <2>2, <3>1
  <2> QED BY <2>1, <2>2
<1>11. ASSUME task_fork(p), ~stopped PROVE Goal
  BY <1>3, <1>10, <1>11 DEF task_fork
<1>12. ASSUME NEW q \in live, task_activate(q) PROVE Goal
  BY <1>2, <1>12 DEF task_activate, PagingInv, PagingTypeOK
<1>13. CASE UNCHANGED vars
  BY <1>2, <1>13 DEF vars, PagingInv, PagingTypeOK
<1>14. CASE PagingNext
  BY <1>3, <1>5, <1>6, <1>8, <1>9, <1>11, <1>12, <1>14 DEF PagingNext, task_exit
<1> QED BY <1>13, <1>14

-----------------------------------------------------------------------------
\* The inductive invariant.
LEMMA PagingInvariant == PagingSpec => []PagingInv
<1>1. PagingInv /\ [PagingNext]_vars => PagingInv'
  BY PagingStep
<1> QED BY <1>1, InitPagingInv, PTL DEF PagingSpec

\* Page tables, counts and bitmaps stay what the code takes them for, however
\* processes fork and fault.
THEOREM PagingTypes == PagingSpec => []PagingTypeOK
<1>1. PagingInv => PagingTypeOK
  BY DEF PagingInv
<1> QED BY <1>1, PagingInvariant, PTL

\* memory_map counts the users of every page, and the bitmap of a process says
\* which pages it maps: for any number of processes, pages and entries.
THEOREM PagingCounts == PagingSpec => []CountsMappings
<1>1. PagingInv => CountsMappings
  BY DEF PagingInv
<1> QED BY <1>1, PagingInvariant, PTL

\* A page that a process may write is mapped nowhere else: copy_pde has taken
\* the right to write from every page it shares, and the write fault gives it
\* back to the last user only.
THEOREM PagingPrivate == PagingSpec => []WritableIsPrivate
<1>1. PagingInv => WritableIsPrivate
  BY DEF PagingInv
<1> QED BY <1>1, PagingInvariant, PTL

\* As many users of a page as memory_map, a byte for each page, has to count.
CountsFit ==
    /\ \A f \in Frame : memory_map[f] <= Cardinality(Process)
    /\ \A p \in live, v \in Page :
          Present(p, v) => memory_map[Mapping(p, v).frame] >= 1

\* The assertions of copy_pde and page_fault on the byte of a page: a page that
\* is mapped has a user, and none has more users than there are processes, of
\* which the table has 64.
THEOREM PagingCountsFit == PagingSpec => []CountsFit
<1>1. PagingInv => CountsFit
  <2> SUFFICES ASSUME PagingInv PROVE CountsFit
    OBVIOUS
  <2>1. ASSUME NEW p \in live, NEW v \in Page, Present(p, v)
        PROVE  memory_map[Mapping(p, v).frame] >= 1
    BY <2>1, OnlyUserMaps
  <2>2. ASSUME NEW f \in Frame PROVE memory_map[f] <= Cardinality(Process)
    <3>1. /\ live \subseteq Process /\ current \in Process
          /\ IsFiniteSet(Process) /\ Cardinality(Process) \in Nat
      BY PagingAssumption, FS_CardinalityType DEF PagingInv, PagingTypeOK
    <3>2. memory_map[f] = Cardinality(Mappers(f)) + Cardinality(TablesIn(f))
      BY DEF PagingInv, CountsMappings
    <3>3. CASE TablesIn(f) = {}
      <4> DEFINE g == [x \in Mappers(f) |-> x[1]]
      <4>1. g \in Injection(Mappers(f), Process)
        <5>1. \A x \in Mappers(f) : x \in live \X Page /\ x[1] \in Process
          BY <3>1 DEF Mappers
        <5>2. ASSUME NEW x \in Mappers(f), NEW y \in Mappers(f), x[1] = y[1] PROVE x = y
          <6>1. x[2] = y[2]
            BY <5>1, <5>2 DEF Mappers, PagingInv, MapsOnce
          <6> QED BY <5>1, <5>2, <6>1
        <5> QED BY <5>1, <5>2 DEF Injection, IsInjective
      <4> HIDE DEF g
      <4>2. Cardinality(Mappers(f)) <= Cardinality(Process)
        BY <3>1, <4>1, FS_Injection
      <4>3. Cardinality(TablesIn(f)) = 0 /\ Cardinality(Mappers(f)) \in Nat
        BY <3>3, FS_EmptySet, UsersFinite DEF PagingInv
      <4> QED BY <3>1, <3>2, <4>2, <4>3
    <3>4. CASE TablesIn(f) # {}
      <4>1. PICK p \in live, s \in Slot : pde[p][s] = f
        BY <3>4 DEF TablesIn
      <4>2. memory_map[f] = 1
        BY <4>1, PagingAssumption, TableIsUsed
      <4>3. Cardinality(Process) # 0
        BY <3>1, FS_EmptySet
      <4> QED BY <3>1, <4>2, <4>3
    <3> QED BY <3>3, <3>4
  <2> QED BY <2>1, <2>2 DEF CountsFit
<1> QED BY <1>1, PagingInvariant, PTL

\* With or without bit WP: every step is one of separate address spaces, but
\* for a store of the kernel into a page that its process may not write.
THEOREM PagingSeparates ==
    PagingSpec => [][SpacesStep \/ \E v \in Page : StoresPastProtection(current, v)]_vars
<1>1. PagingInv /\ [PagingNext]_vars
         => [SpacesStep \/ \E v \in Page : StoresPastProtection(current, v)]_vars
  BY PagingStep
<1> QED BY <1>1, PagingInvariant, PTL DEF PagingSpec

\* If the bit is set, no such store succeeds, and memory is what AddressSpaces
\* promises.
THEOREM PagingImplementsSpaces ==
    ASSUME WriteProtect
    PROVE  PagingSpec => ImplementsSpaces
<1>1. PagingInit => Spaces!SpacesInit
  <2> SUFFICES ASSUME PagingInit PROVE Spaces!SpacesInit
    OBVIOUS
  <2>1. \A q \in Process, v \in Page : ~Present(q, v)
    BY PagingAssumption DEF PagingInit, Present, Mapping, Page
  <2>2. contentsOf = [q \in Process |-> [v \in Page |-> NoFrame]]
    BY <2>1 DEF contentsOf
  <2> QED BY <2>2, PagingAssumption DEF PagingInit, Spaces!SpacesInit
<1>2. PagingInv /\ [PagingNext]_vars => [Spaces!SpacesNext]_(Spaces!spaceVars)
  <2>1. \A v \in Page : ~StoresPastProtection(current, v)
    BY DEF StoresPastProtection, kernel_store
  <2> QED BY <2>1, PagingStep DEF SpacesStep, Spaces!spaceVars
<1> QED BY <1>1, <1>2, PagingInvariant, PTL DEF PagingSpec, ImplementsSpaces, Spaces!SpacesSpec

-----------------------------------------------------------------------------
(***************************************************************************)
(* The heap of the kernel.                                                 *)
(***************************************************************************)

\* The numbers of the free blocks of the arena at p.
FreeOf(p) == {i \in 0..(TotalBlock[arena[p].desc] - 1) : <<p, i>> \in free_list[arena[p].desc]}

(***************************************************************************)
(* The headers say what their pages are for; an arena of small blocks      *)
(* counts its free ones and has at least one block in use.                 *)
(***************************************************************************)
ArenasCount ==
    /\ \A p \in KernelPage : Small(p) => /\ arena[p].desc \in Desc
                                   /\ arena[p].count < TotalBlock[arena[p].desc]
                                   /\ arena[p].count = Cardinality(FreeOf(p))
    /\ \A p \in KernelPage : Large(p) => arena[p].count > 0

\* A block is in an arena for its size, in use or on the free list.
BlocksAreInArenas ==
    /\ \A d \in Desc : \A b \in free_list[d] :
          Small(b[1]) /\ arena[b[1]].desc = d /\ b[2] < TotalBlock[d]
    /\ \A b \in in_use :
          \/ /\ Small(b[1]) /\ b[2] < TotalBlock[arena[b[1]].desc]
             /\ b \notin free_list[arena[b[1]].desc]
          \/ Large(b[1]) /\ b[2] = 0

HeapInv == NoArena \notin Arena /\ HeapTypeOK /\ ArenasCount /\ BlocksAreInArenas /\ PagesAreOwned

-----------------------------------------------------------------------------
LEMMA InitHeapInv == ASSUME HeapAssumption, HeapInit PROVE HeapInv
<1> USE DEF HeapInit
<1>1. HeapTypeOK
  BY DEF HeapTypeOK
<1>2. Arenas = {} /\ \A p \in KernelPage : ~Small(p) /\ ~Large(p)
  BY DEF Arenas, Small, Large
<1>3. PagesAreOwned
  BY <1>2 DEF PagesAreOwned
<1>4. ArenasCount /\ BlocksAreInArenas
  BY <1>2 DEF ArenasCount, BlocksAreInArenas
<1>5. NoArena \notin Arena
  BY DEF HeapAssumption, Arena
<1> QED BY <1>1, <1>3, <1>4, <1>5 DEF HeapInv

\* A number is one of finitely many, and all free blocks are all blocks.
LEMMA FreeOfFinite ==
    ASSUME HeapAssumption, HeapInv, NEW p \in KernelPage, Small(p)
    PROVE  LET d == arena[p].desc IN
           /\ d \in Desc /\ TotalBlock[d] \in Nat \ {0}
           /\ IsFiniteSet(FreeOf(p))
           /\ Cardinality(FreeOf(p)) \in Nat
           /\ \A S \in SUBSET (0..(TotalBlock[d] - 1)) :
                 IsFiniteSet(S)
                 /\ (Cardinality(S) = TotalBlock[d] => S = 0..(TotalBlock[d] - 1))
<1> DEFINE d == arena[p].desc
           all == 0..(TotalBlock[d] - 1)
<1>1. d \in Desc /\ TotalBlock[d] \in Nat \ {0}
  BY DEF HeapAssumption, HeapInv, ArenasCount
<1>2. IsFiniteSet(all) /\ Cardinality(all) = TotalBlock[d]
  <2>1. 0 \in Int /\ TotalBlock[d] - 1 \in Int /\ ~(0 > TotalBlock[d] - 1)
    BY <1>1
  <2>2. IsFiniteSet(all) /\ Cardinality(all) = (TotalBlock[d] - 1) - 0 + 1
    BY <2>1, FS_Interval
  <2> QED BY <1>1, <2>2
<1>3. \A S \in SUBSET all : IsFiniteSet(S) /\ (Cardinality(S) = TotalBlock[d] => S = all)
  BY <1>2, FS_Subset
<1>4. FreeOf(p) \in SUBSET all
  BY DEF FreeOf
<1>5. Cardinality(FreeOf(p)) \in Nat
  BY <1>3, <1>4, FS_CardinalityType
<1> QED BY <1>1, <1>3, <1>4, <1>5

(***************************************************************************)
(* The pages that scan_page finds belong to nobody.                        *)
(***************************************************************************)
LEMMA ScannedPages ==
    ASSUME HeapInv, NEW p \in KernelPage, NEW n \in Nat \ {0}, scan_page(p, n)
    PROVE  /\ arena[p] = NoArena
           /\ Run(p, n) \subseteq KernelPage \ kernel_map
           /\ \A q \in Arenas : Span(q) \cap Run(p, n) = {}
           /\ \A k \in kpages : Run(k[1], k[2]) \cap Run(p, n) = {}
<1>1. Run(p, n) \subseteq KernelPage \ kernel_map
  BY DEF scan_page
<1>2. p \in Run(p, n)
  BY DEF KernelPage, Run
<1>3. \A q \in Arenas : Span(q) \subseteq kernel_map
  BY DEF HeapInv, PagesAreOwned
<1>4. \A q \in Arenas : q \in Span(q)
  BY DEF Arenas, Span, Run, KernelPage, HeapInv, HeapTypeOK, ArenasCount, Large, Arena
<1>5. p \notin Arenas
  BY <1>1, <1>2, <1>3, <1>4
<1>6. \A k \in kpages : Run(k[1], k[2]) \subseteq kernel_map
  BY DEF HeapInv, PagesAreOwned
<1>7. arena[p] = NoArena
  BY <1>5 DEF Arenas
<1> QED BY <1>1, <1>3, <1>6, <1>7

\* The count of the arena at p changes, and of small ones only.
LEMMA OnlyCountChanges ==
    ASSUME HeapInv, NEW p \in KernelPage, Small(p), NEW c \in Nat,
           arena' = [arena EXCEPT ![p].count = c]
    PROVE  /\ arena' \in [KernelPage -> Arena \cup {NoArena}]
           /\ Arenas' = Arenas
           /\ \A q \in KernelPage : Small(q)' = Small(q) /\ Large(q)' = Large(q)
           /\ \A q \in KernelPage : Small(q) => arena'[q].desc = arena[q].desc
           /\ \A q \in KernelPage : Large(q) => arena'[q] = arena[q]
           /\ \A q \in Arenas : Span(q)' = Span(q)
           /\ arena'[p].count = c
           /\ \A q \in KernelPage \ {p} : arena'[q] = arena[q]
<1> USE DEF Small, Large
<1>1. arena[p] \in Arena
  BY DEF HeapInv, HeapTypeOK
<1>2. [arena[p] EXCEPT !.count = c] = [desc |-> arena[p].desc, count |-> c, large |-> arena[p].large]
  BY <1>1 DEF Arena
<1>3. [desc |-> arena[p].desc, count |-> c, large |-> arena[p].large] \in Arena
  BY <1>1 DEF Arena
<1>4. arena' = [arena EXCEPT ![p] = [desc |-> arena[p].desc, count |-> c, large |-> arena[p].large]]
  BY <1>2
<1>5. [desc |-> arena[p].desc, count |-> c, large |-> arena[p].large] # NoArena
  <2>1. NoArena \notin Arena
    BY DEF HeapInv
  <2> QED BY <2>1, <1>3
<1>6. arena' \in [KernelPage -> Arena \cup {NoArena}]
  BY <1>3, <1>4 DEF HeapInv, HeapTypeOK
<1>7. /\ arena'[p] = [desc |-> arena[p].desc, count |-> c, large |-> arena[p].large]
      /\ \A q \in KernelPage \ {p} : arena'[q] = arena[q]
  BY <1>4 DEF HeapInv, HeapTypeOK
<1>8. Arenas' = Arenas
  BY <1>5, <1>7 DEF Arenas
<1>9. \A q \in Arenas : Span(q)' = Span(q)
  BY <1>7 DEF Span, Arenas
<1>10. /\ arena'[p].large = arena[p].large /\ arena'[p].desc = arena[p].desc
       /\ arena'[p].count = c /\ arena'[p] # NoArena /\ arena[p] # NoArena
  BY <1>5, <1>7
<1>11. ASSUME NEW q \in KernelPage
       PROVE  /\ Small(q)' = Small(q) /\ Large(q)' = Large(q)
              /\ Small(q) => arena'[q].desc = arena[q].desc
              /\ Large(q) => arena'[q] = arena[q]
  <2>1. CASE q = p
    BY <1>10, <2>1
  <2>2. CASE q # p
    <3>1. arena'[q] = arena[q]
      BY <1>7, <2>2
    <3> QED BY <3>1
  <2> QED BY <2>1, <2>2
<1> QED BY <1>6, <1>7, <1>8, <1>9, <1>10, <1>11

LEMMA KmallocFreeStep ==
    ASSUME HeapAssumption, HeapInv, NEW d \in Desc, kmalloc_free(d)
    PROVE  HeapInv' /\ PageReturned
<1> PICK b \in free_list[d] :
      /\ free_list' = [free_list EXCEPT ![d] = @ \ {b}]
      /\ in_use' = in_use \cup {b}
      /\ arena' = [arena EXCEPT ![b[1]].count = @ - 1]
      /\ UNCHANGED <<kernel_map, kpages>>
  BY DEF kmalloc_free
<1> DEFINE p == b[1]
           i == b[2]
<1>1. /\ p \in KernelPage /\ i \in Nat /\ b = <<p, i>>
      /\ Small(p) /\ arena[p].desc = d /\ i \in 0..(TotalBlock[d] - 1)
  <2>1. p \in KernelPage /\ i \in Nat /\ b = <<p, i>>
    BY DEF HeapInv, HeapTypeOK
  <2>2. Small(p) /\ arena[p].desc = d /\ i < TotalBlock[d]
    BY DEF HeapInv, BlocksAreInArenas
  <2>3. TotalBlock[d] \in Nat
    BY DEF HeapAssumption
  <2> QED BY <2>1, <2>2, <2>3
<1>2. i \in FreeOf(p) /\ IsFiniteSet(FreeOf(p)) /\ Cardinality(FreeOf(p)) \in Nat
  BY <1>1, FreeOfFinite DEF FreeOf
<1>3. /\ Cardinality(FreeOf(p) \ {i}) = Cardinality(FreeOf(p)) - 1
      /\ Cardinality(FreeOf(p) \ {i}) \in Nat
  BY <1>2, FS_RemoveElement, FS_CardinalityType
<1>4. arena[p].count = Cardinality(FreeOf(p))
  BY <1>1 DEF HeapInv, ArenasCount
<1> DEFINE c == arena[p].count - 1
<1>5. c \in Nat /\ c = Cardinality(FreeOf(p) \ {i}) /\ c < arena[p].count
  BY <1>2, <1>3, <1>4
<1>6. arena' = [arena EXCEPT ![p].count = c]
  OBVIOUS
<1> HIDE DEF p, i, c
<1>7. /\ arena' \in [KernelPage -> Arena \cup {NoArena}]
      /\ Arenas' = Arenas
      /\ \A q \in KernelPage : Small(q)' = Small(q) /\ Large(q)' = Large(q)
      /\ \A q \in KernelPage : Small(q) => arena'[q].desc = arena[q].desc
      /\ \A q \in KernelPage : Large(q) => arena'[q] = arena[q]
      /\ \A q \in Arenas : Span(q)' = Span(q)
      /\ arena'[p].count = c
      /\ \A q \in KernelPage \ {p} : arena'[q] = arena[q]
  BY <1>1, <1>5, <1>6, OnlyCountChanges
<1>8. HeapTypeOK'
  BY <1>7 DEF HeapInv, HeapTypeOK
<1>9. PagesAreOwned'
  BY <1>7 DEF HeapInv, PagesAreOwned
<1>10. FreeOf(p)' = FreeOf(p) \ {i}
  BY <1>1, <1>7, <1>8 DEF FreeOf, HeapInv, HeapTypeOK
<1>11. \A q \in KernelPage \ {p} : Small(q) => FreeOf(q)' = FreeOf(q)
  BY <1>1, <1>7 DEF FreeOf, HeapInv, HeapTypeOK
<1>12. ArenasCount'
  <2>1. arena'[p].desc = d /\ arena'[p].count < TotalBlock[d]
    BY <1>1, <1>5, <1>7 DEF HeapInv, ArenasCount, HeapAssumption, HeapTypeOK, Arena, Small
  <2>2. arena'[p].count = Cardinality(FreeOf(p)')
    BY <1>5, <1>7, <1>10
  <2>3. ASSUME NEW q \in KernelPage \ {p}, Small(q)
        PROVE  /\ arena'[q].desc \in Desc
               /\ arena'[q].count < TotalBlock[arena'[q].desc]
               /\ arena'[q].count = Cardinality(FreeOf(q)')
    <3>1. FreeOf(q)' = FreeOf(q) /\ arena'[q] = arena[q]
      BY <1>7, <1>11, <2>3
    <3> QED BY <2>3, <3>1 DEF HeapInv, ArenasCount
  <2> QED BY <1>1, <1>7, <2>1, <2>2, <2>3 DEF HeapInv, ArenasCount
<1>13. BlocksAreInArenas'
  BY <1>1, <1>7 DEF HeapInv, HeapTypeOK, BlocksAreInArenas
<1>14. PageReturned
  BY DEF PageReturned
<1> QED BY <1>8, <1>9, <1>12, <1>13, <1>14 DEF HeapInv

(***************************************************************************)
(* A new arena at p, on pages that scan_page has found.                    *)
(***************************************************************************)
LEMMA ArenaAdded ==
    ASSUME HeapInv, NEW p \in KernelPage, NEW n \in Nat \ {0}, scan_page(p, n), NEW a \in Arena,
           n = IF a.large THEN a.count ELSE 1,
           arena' = [arena EXCEPT ![p] = a], kernel_map' = kernel_map \cup Run(p, n),
           UNCHANGED kpages
    PROVE  /\ arena' \in [KernelPage -> Arena \cup {NoArena}] /\ kernel_map' \subseteq KernelPage
           /\ arena[p] = NoArena /\ arena'[p] = a /\ a # NoArena
           /\ \A q \in KernelPage \ {p} : /\ arena'[q] = arena[q]
                                    /\ Small(q)' = Small(q) /\ Large(q)' = Large(q)
           /\ PagesAreOwned'
<1>1. /\ arena[p] = NoArena
      /\ Run(p, n) \subseteq KernelPage \ kernel_map
      /\ \A q \in Arenas : Span(q) \cap Run(p, n) = {}
      /\ \A k \in kpages : Run(k[1], k[2]) \cap Run(p, n) = {}
  BY ScannedPages
<1>2. a # NoArena
  BY DEF HeapInv
<1>3. /\ arena' \in [KernelPage -> Arena \cup {NoArena}] /\ arena'[p] = a
      /\ \A q \in KernelPage \ {p} : arena'[q] = arena[q]
  BY DEF HeapInv, HeapTypeOK
<1>4. Arenas' = Arenas \cup {p} /\ p \notin Arenas
  BY <1>1, <1>2, <1>3 DEF Arenas
<1>5. \A q \in Arenas : Span(q)' = Span(q)
  BY <1>3, <1>4 DEF Span, Arenas
<1>6. Span(p)' = Run(p, n)
  <2>1. CASE a.large
    BY <1>3, <2>1 DEF Span
  <2>2. CASE ~a.large
    <3>1. Run(p, 1) = {p}
      BY DEF Run, KernelPage
    <3> QED BY <1>3, <2>2, <3>1 DEF Span
  <2> QED BY <2>1, <2>2
<1>7. kernel_map' \subseteq KernelPage
  BY <1>1 DEF HeapInv, HeapTypeOK
<1>8. PagesAreOwned'
  <2>1. /\ \A q \in Arenas' : Span(q)' \subseteq kernel_map'
        /\ \A k \in kpages' : Run(k[1], k[2]) \subseteq kernel_map'
    BY <1>4, <1>5, <1>6 DEF HeapInv, PagesAreOwned
  <2>2. \A q, r \in Arenas' : q # r => Span(q)' \cap Span(r)' = {}
    BY <1>1, <1>4, <1>5, <1>6 DEF HeapInv, PagesAreOwned
  <2>3. \A q \in Arenas', k \in kpages' : Span(q)' \cap Run(k[1], k[2]) = {}
    BY <1>1, <1>4, <1>5, <1>6 DEF HeapInv, PagesAreOwned
  <2> QED BY <2>1, <2>2, <2>3 DEF HeapInv, PagesAreOwned
<1> QED BY <1>1, <1>2, <1>3, <1>7, <1>8 DEF Small, Large

LEMMA KmallocPageStep ==
    ASSUME HeapAssumption, HeapInv, NEW d \in Desc, kmalloc_page(d)
    PROVE  HeapInv' /\ PageReturned
<1> DEFINE a == [desc |-> d, count |-> TotalBlock[d] - 1, large |-> FALSE]
<1>1. TotalBlock[d] \in Nat \ {0} /\ a \in Arena /\ ~a.large /\ a.desc = d
      /\ a.count = TotalBlock[d] - 1
  BY DEF HeapAssumption, Arena
<1> PICK p \in KernelPage : \E b \in Blocks(p, d) :
      /\ scan_page(p, 1)
      /\ kernel_map' = kernel_map \cup {p}
      /\ arena' = [arena EXCEPT ![p] = a]
      /\ free_list' = [free_list EXCEPT ![d] = Blocks(p, d) \ {b}]
      /\ in_use' = in_use \cup {b}
  BY DEF kmalloc_page
<1> PICK b \in Blocks(p, d) :
      /\ scan_page(p, 1)
      /\ kernel_map' = kernel_map \cup {p}
      /\ arena' = [arena EXCEPT ![p] = a]
      /\ free_list' = [free_list EXCEPT ![d] = Blocks(p, d) \ {b}]
      /\ in_use' = in_use \cup {b}
  OBVIOUS
<1>2. free_list[d] = {} /\ UNCHANGED kpages
  BY DEF kmalloc_page
<1> HIDE DEF a
<1> DEFINE i == b[2]
<1>3. b = <<p, i>> /\ i \in 0..(TotalBlock[d] - 1)
  BY <1>1 DEF Blocks
<1>4. Run(p, 1) = {p}
  BY DEF Run, KernelPage
<1>5. /\ arena' \in [KernelPage -> Arena \cup {NoArena}] /\ kernel_map' \subseteq KernelPage
      /\ arena[p] = NoArena /\ arena'[p] = a /\ a # NoArena
      /\ \A q \in KernelPage \ {p} : /\ arena'[q] = arena[q]
                               /\ Small(q)' = Small(q) /\ Large(q)' = Large(q)
      /\ PagesAreOwned'
  <2>1. /\ 1 = (IF a.large THEN a.count ELSE 1) /\ 1 \in Nat \ {0}
        /\ kernel_map' = kernel_map \cup Run(p, 1)
    BY <1>1, <1>4
  <2> QED BY <1>1, <1>2, <2>1, ArenaAdded
<1>6. Small(p)' /\ ~Large(p)'
  BY <1>1, <1>5 DEF Small, Large
<1>7. Blocks(p, d) \subseteq KernelPage \X Nat
  BY <1>1 DEF Blocks
<1>8. HeapTypeOK'
  BY <1>2, <1>3, <1>5, <1>7 DEF HeapInv, HeapTypeOK
<1> HIDE DEF i
<1>9. FreeOf(p)' = (0..(TotalBlock[d] - 1)) \ {i}
  BY <1>1, <1>3, <1>5, <1>7 DEF FreeOf, HeapInv, HeapTypeOK, Blocks
<1>10. \A q \in KernelPage \ {p} : Small(q) => FreeOf(q)' = FreeOf(q)
  BY <1>2, <1>5 DEF FreeOf, HeapInv, HeapTypeOK, Blocks
<1>11. Cardinality(FreeOf(p)') = TotalBlock[d] - 1
  <2>1. 0 \in Int /\ TotalBlock[d] - 1 \in Int /\ ~(0 > TotalBlock[d] - 1)
    BY <1>1
  <2>2. /\ IsFiniteSet(0..(TotalBlock[d] - 1))
        /\ Cardinality(0..(TotalBlock[d] - 1)) = (TotalBlock[d] - 1) - 0 + 1
    BY <2>1, FS_Interval
  <2>3. Cardinality((0..(TotalBlock[d] - 1)) \ {i}) = Cardinality(0..(TotalBlock[d] - 1)) - 1
    BY <1>3, <2>2, FS_RemoveElement
  <2> QED BY <1>1, <1>9, <2>2, <2>3
<1>12. ArenasCount'
  <2>1. ASSUME NEW q \in KernelPage \ {p}, Small(q)
        PROVE  /\ arena'[q].desc \in Desc
               /\ arena'[q].count < TotalBlock[arena'[q].desc]
               /\ arena'[q].count = Cardinality(FreeOf(q)')
    <3>1. FreeOf(q)' = FreeOf(q) /\ arena'[q] = arena[q]
      BY <1>5, <1>10, <2>1
    <3> QED BY <2>1, <3>1 DEF HeapInv, ArenasCount
  <2>2. /\ arena'[p].desc \in Desc /\ arena'[p].count < TotalBlock[arena'[p].desc]
        /\ arena'[p].count = Cardinality(FreeOf(p)')
    BY <1>1, <1>5, <1>11
  <2> QED BY <1>5, <1>6, <2>1, <2>2 DEF HeapInv, ArenasCount
<1>13. BlocksAreInArenas'
  <2>1. ASSUME NEW e \in Desc, NEW x \in free_list'[e]
        PROVE  Small(x[1])' /\ arena'[x[1]].desc = e /\ x[2] < TotalBlock[e]
    <3>1. CASE e = d
      BY <1>1, <1>5, <1>6, <2>1, <3>1 DEF Blocks, HeapInv, HeapTypeOK
    <3>2. CASE e # d
      BY <1>5, <2>1, <3>2 DEF HeapInv, HeapTypeOK, BlocksAreInArenas, Small
    <3> QED BY <3>1, <3>2
  <2>2. ASSUME NEW x \in in_use
        PROVE  \/ /\ Small(x[1])' /\ x[2] < TotalBlock[arena'[x[1]].desc]
                  /\ x \notin free_list'[arena'[x[1]].desc]
               \/ Large(x[1])' /\ x[2] = 0
    <3>1. x[1] \in KernelPage \ {p} /\ x \notin Blocks(p, d)
      BY <1>5 DEF HeapInv, HeapTypeOK, BlocksAreInArenas, Small, Large, Blocks
    <3>2. CASE Small(x[1])
      BY <1>5, <3>1, <3>2 DEF HeapInv, HeapTypeOK, BlocksAreInArenas, ArenasCount, Large, Small
    <3>3. CASE ~Small(x[1])
      BY <1>5, <3>1, <3>3 DEF HeapInv, HeapTypeOK, BlocksAreInArenas
    <3> QED BY <3>2, <3>3
  <2>3. /\ Small(b[1])' /\ b[2] < TotalBlock[arena'[b[1]].desc]
        /\ b \notin free_list'[arena'[b[1]].desc]
    BY <1>1, <1>3, <1>5, <1>6 DEF HeapInv, HeapTypeOK, i
  <2> QED BY <2>1, <2>2, <2>3 DEF BlocksAreInArenas
<1>14. PageReturned
  BY DEF PageReturned
<1> QED BY <1>5, <1>8, <1>12, <1>13, <1>14 DEF HeapInv

LEMMA KmallocLargeStep ==
    ASSUME HeapAssumption, HeapInv, NEW n \in 1..Pages, kmalloc_large(n)
    PROVE  HeapInv' /\ PageReturned
<1> DEFINE a == [desc |-> NoDesc, count |-> n, large |-> TRUE]
<1>1. n \in Nat \ {0} /\ a \in Arena /\ a.large /\ a.count = n
  BY DEF HeapAssumption, Arena
<1> PICK p \in KernelPage :
      /\ scan_page(p, n)
      /\ kernel_map' = kernel_map \cup Run(p, n)
      /\ arena' = [arena EXCEPT ![p] = a]
      /\ in_use' = in_use \cup {<<p, 0>>}
      /\ UNCHANGED <<free_list, kpages>>
  BY DEF kmalloc_large
<1>2. n = IF a.large THEN a.count ELSE 1
  BY <1>1
<1> HIDE DEF a
<1>3. /\ arena' \in [KernelPage -> Arena \cup {NoArena}] /\ kernel_map' \subseteq KernelPage
      /\ arena[p] = NoArena /\ arena'[p] = a /\ a # NoArena
      /\ \A q \in KernelPage \ {p} : /\ arena'[q] = arena[q]
                               /\ Small(q)' = Small(q) /\ Large(q)' = Large(q)
      /\ PagesAreOwned'
  BY <1>1, <1>2, ArenaAdded
<1>4. ~Small(p)' /\ Large(p)'
  BY <1>1, <1>3 DEF Small, Large
<1>5. HeapTypeOK'
  BY <1>3 DEF HeapInv, HeapTypeOK
<1>6. \A q \in KernelPage \ {p} : FreeOf(q)' = FreeOf(q)
  BY <1>3 DEF FreeOf
<1>7. ArenasCount'
  BY <1>1, <1>3, <1>4, <1>6 DEF HeapInv, ArenasCount
<1>8. BlocksAreInArenas'
  <2>1. ASSUME NEW e \in Desc, NEW x \in free_list[e]
        PROVE  Small(x[1])' /\ arena'[x[1]].desc = e /\ x[2] < TotalBlock[e]
    BY <1>3 DEF HeapInv, HeapTypeOK, BlocksAreInArenas, Small
  <2>2. ASSUME NEW x \in in_use
        PROVE  \/ /\ Small(x[1])' /\ x[2] < TotalBlock[arena'[x[1]].desc]
                  /\ x \notin free_list[arena'[x[1]].desc]
               \/ Large(x[1])' /\ x[2] = 0
    <3>1. x[1] \in KernelPage \ {p}
      BY <1>3 DEF HeapInv, HeapTypeOK, BlocksAreInArenas, Small, Large
    <3> QED BY <1>3, <3>1 DEF HeapInv, BlocksAreInArenas
  <2> QED BY <1>4, <2>1, <2>2 DEF BlocksAreInArenas
<1>9. PageReturned
  BY DEF PageReturned
<1> QED BY <1>3, <1>5, <1>7, <1>8, <1>9 DEF HeapInv

LEMMA AllocStep ==
    ASSUME HeapAssumption, HeapInv, NEW n \in 1..Pages, alloc_kpage(n)
    PROVE  HeapInv' /\ PageReturned
<1>1. n \in Nat \ {0}
  BY DEF HeapAssumption
<1> PICK p \in KernelPage :
      /\ scan_page(p, n)
      /\ kernel_map' = kernel_map \cup Run(p, n)
      /\ kpages' = kpages \cup {<<p, n>>}
      /\ UNCHANGED <<arena, free_list, in_use>>
  BY DEF alloc_kpage
<1>2. /\ Run(p, n) \subseteq KernelPage \ kernel_map
      /\ \A q \in Arenas : Span(q) \cap Run(p, n) = {}
      /\ \A k \in kpages : Run(k[1], k[2]) \cap Run(p, n) = {}
  BY <1>1, ScannedPages
<1>3. HeapTypeOK'
  BY <1>1, <1>2 DEF HeapInv, HeapTypeOK
<1>4. Arenas' = Arenas /\ \A q \in Arenas : Span(q)' = Span(q)
  BY DEF Arenas, Span
<1>5. ArenasCount' /\ BlocksAreInArenas'
  BY DEF HeapInv, ArenasCount, BlocksAreInArenas, Small, Large, FreeOf
<1>6. PagesAreOwned'
  BY <1>2, <1>4 DEF HeapInv, PagesAreOwned
<1>7. PageReturned
  BY DEF PageReturned
<1> QED BY <1>3, <1>5, <1>6, <1>7 DEF HeapInv

(***************************************************************************)
(* The arena at p goes, with its pages.                                    *)
(***************************************************************************)
LEMMA ArenaRemoved ==
    ASSUME HeapInv, NEW p \in Arenas,
           arena' = [arena EXCEPT ![p] = NoArena], kernel_map' = kernel_map \ Span(p),
           UNCHANGED kpages
    PROVE  /\ arena' \in [KernelPage -> Arena \cup {NoArena}] /\ kernel_map' \subseteq KernelPage
           /\ ~Small(p)' /\ ~Large(p)'
           /\ \A q \in KernelPage \ {p} : /\ arena'[q] = arena[q]
                                    /\ Small(q)' = Small(q) /\ Large(q)' = Large(q)
           /\ \A q \in Arenas \ {p} : q \notin Span(p)
           /\ PagesAreOwned'
<1>1. /\ arena' \in [KernelPage -> Arena \cup {NoArena}] /\ arena'[p] = NoArena
      /\ \A q \in KernelPage \ {p} : arena'[q] = arena[q]
      /\ p \in KernelPage
  BY DEF HeapInv, HeapTypeOK, Arenas
<1>2. Arenas' = Arenas \ {p}
  BY <1>1 DEF Arenas
<1>3. \A q \in Arenas \ {p} : Span(q)' = Span(q)
  BY <1>1 DEF Span, Arenas
<1>4. \A q \in Arenas : q \in Span(q)
  BY DEF Arenas, Span, Run, KernelPage, HeapInv, HeapTypeOK, ArenasCount, Large, Arena
<1>5. \A q \in Arenas \ {p} : Span(q) \cap Span(p) = {}
  BY DEF HeapInv, PagesAreOwned
<1>6. PagesAreOwned'
  BY <1>2, <1>3, <1>5 DEF HeapInv, PagesAreOwned
<1>7. kernel_map' \subseteq KernelPage
  BY DEF HeapInv, HeapTypeOK
<1> QED BY <1>1, <1>4, <1>5, <1>6, <1>7 DEF Small, Large

\* What the count of an arena tells of its blocks, b in use being one of them.
LEMMA CountOfFree ==
    ASSUME HeapAssumption, HeapInv, NEW b \in in_use, Small(b[1])
    PROVE  LET p == b[1]
               d == arena[p].desc
           IN  /\ p \in KernelPage /\ b = <<p, b[2]>> /\ d \in Desc
               /\ TotalBlock[d] \in Nat \ {0}
               /\ b[2] \in 0..(TotalBlock[d] - 1) /\ b \notin free_list[d]
               /\ arena[p].count \in Nat /\ arena[p].count < TotalBlock[d]
               /\ Cardinality(FreeOf(p) \cup {b[2]}) = arena[p].count + 1
               /\ arena[p].count + 1 = TotalBlock[d]
                     => \A j \in 0..(TotalBlock[d] - 1) : j = b[2] \/ <<p, j>> \in free_list[d]
<1> DEFINE p == b[1]
           i == b[2]
           d == arena[p].desc
<1>1. /\ p \in KernelPage /\ b = <<p, i>> /\ i \in Nat
      /\ arena[p].count = Cardinality(FreeOf(p)) /\ arena[p].count < TotalBlock[d]
  BY DEF HeapInv, HeapTypeOK, ArenasCount
<1>2. i < TotalBlock[d] /\ b \notin free_list[d]
  BY DEF HeapInv, BlocksAreInArenas, Small, Large
<1>3. /\ d \in Desc /\ TotalBlock[d] \in Nat \ {0}
      /\ IsFiniteSet(FreeOf(p)) /\ Cardinality(FreeOf(p)) \in Nat
      /\ \A S \in SUBSET (0..(TotalBlock[d] - 1)) :
            IsFiniteSet(S)
            /\ (Cardinality(S) = TotalBlock[d] => S = 0..(TotalBlock[d] - 1))
  BY <1>1, FreeOfFinite
<1>4. i \in 0..(TotalBlock[d] - 1)
  BY <1>1, <1>2, <1>3
<1>5. i \notin FreeOf(p)
  BY <1>1, <1>2 DEF FreeOf
<1>6. Cardinality(FreeOf(p) \cup {i}) = arena[p].count + 1
  BY <1>1, <1>3, <1>5, FS_AddElement
<1>7. ASSUME arena[p].count + 1 = TotalBlock[d], NEW j \in 0..(TotalBlock[d] - 1)
      PROVE  j = i \/ <<p, j>> \in free_list[d]
  <2>1. FreeOf(p) \cup {i} \in SUBSET (0..(TotalBlock[d] - 1))
    BY <1>4 DEF FreeOf
  <2>2. FreeOf(p) \cup {i} = 0..(TotalBlock[d] - 1)
    BY <1>3, <1>6, <1>7, <2>1
  <2> QED BY <2>2 DEF FreeOf
<1> QED BY <1>1, <1>2, <1>3, <1>4, <1>6, <1>7

LEMMA KfreeStep ==
    ASSUME HeapAssumption, HeapInv, NEW b \in in_use, kfree(b)
    PROVE  HeapInv' /\ PageReturned
<1> DEFINE p == b[1]
           i == b[2]
           d == arena[p].desc
           freed == free_list[d] \cup {b}
<1>1. Small(p) /\ in_use' = in_use \ {b} /\ UNCHANGED kpages
  BY DEF kfree
<1>2. /\ p \in KernelPage /\ b = <<p, i>> /\ d \in Desc
      /\ TotalBlock[d] \in Nat \ {0}
      /\ i \in 0..(TotalBlock[d] - 1) /\ b \notin free_list[d]
      /\ arena[p].count \in Nat /\ arena[p].count < TotalBlock[d]
      /\ Cardinality(FreeOf(p) \cup {i}) = arena[p].count + 1
      /\ arena[p].count + 1 = TotalBlock[d]
            => \A j \in 0..(TotalBlock[d] - 1) : j = i \/ <<p, j>> \in free_list[d]
  BY <1>1, CountOfFree
<1>3. CASE arena[p].count + 1 = TotalBlock[d]
  <2>1. /\ free_list' = [free_list EXCEPT ![d] = freed \ Blocks(p, d)]
        /\ kernel_map' = kernel_map \ {p}
        /\ arena' = [arena EXCEPT ![p] = NoArena]
    BY <1>3 DEF kfree
  <2>2. p \in Arenas /\ Span(p) = {p}
    BY <1>1, <1>2 DEF Small, Arenas, Span
  <2>3. /\ arena' \in [KernelPage -> Arena \cup {NoArena}] /\ kernel_map' \subseteq KernelPage
        /\ ~Small(p)' /\ ~Large(p)'
        /\ \A q \in KernelPage \ {p} : /\ arena'[q] = arena[q]
                                 /\ Small(q)' = Small(q) /\ Large(q)' = Large(q)
        /\ PagesAreOwned'
    BY <1>1, <2>1, <2>2, ArenaRemoved
  <2> HIDE DEF p, i, d
  <2>4. HeapTypeOK'
    BY <1>1, <1>2, <2>1, <2>3 DEF HeapInv, HeapTypeOK
  <2>5. \A q \in KernelPage \ {p} : Small(q) => FreeOf(q)' = FreeOf(q)
    BY <1>2, <2>1, <2>3 DEF FreeOf, HeapInv, HeapTypeOK, Blocks
  <2>6. ArenasCount'
    <3>1. ASSUME NEW q \in KernelPage \ {p}, Small(q)
          PROVE  /\ arena'[q].desc \in Desc
                 /\ arena'[q].count < TotalBlock[arena'[q].desc]
                 /\ arena'[q].count = Cardinality(FreeOf(q)')
      <4>1. FreeOf(q)' = FreeOf(q) /\ arena'[q] = arena[q]
        BY <2>3, <2>5, <3>1
      <4> QED BY <3>1, <4>1 DEF HeapInv, ArenasCount
    <3> QED BY <2>3, <3>1 DEF HeapInv, ArenasCount
  <2>7. \A x \in in_use' : x[1] # p
    BY <1>1, <1>2, <1>3 DEF HeapInv, HeapTypeOK, BlocksAreInArenas, Small, Large, d
  <2>8. \A e \in Desc : \A x \in free_list'[e] : x \in free_list[e] /\ x[1] # p
    <3>1. \A e \in Desc : \A x \in free_list[e] :
             x[1] = p => e = d /\ x = <<p, x[2]>> /\ x[2] \in 0..(TotalBlock[d] - 1)
      BY <1>2 DEF HeapInv, HeapTypeOK, BlocksAreInArenas, d
    <3>2. b \in Blocks(p, d)
      BY <1>2 DEF Blocks
    <3>3. \A x \in free_list[d] : x[1] = p => x \in Blocks(p, d)
      BY <1>2, <3>1 DEF Blocks
    <3>4. free_list'[d] = freed \ Blocks(p, d) /\ \A e \in Desc \ {d} : free_list'[e] = free_list[e]
      BY <1>2, <2>1 DEF HeapInv, HeapTypeOK
    <3> QED BY <3>1, <3>2, <3>3, <3>4
  <2>9. BlocksAreInArenas'
    <3>1. ASSUME NEW e \in Desc, NEW x \in free_list'[e]
          PROVE  Small(x[1])' /\ arena'[x[1]].desc = e /\ x[2] < TotalBlock[e]
      BY <2>3, <2>8, <3>1 DEF HeapInv, HeapTypeOK, BlocksAreInArenas
    <3>2. ASSUME NEW x \in in_use'
          PROVE  \/ /\ Small(x[1])' /\ x[2] < TotalBlock[arena'[x[1]].desc]
                    /\ x \notin free_list'[arena'[x[1]].desc]
                 \/ Large(x[1])' /\ x[2] = 0
      <4>1. x \in in_use /\ x[1] \in KernelPage \ {p}
        BY <1>1, <2>7 DEF HeapInv, HeapTypeOK
      <4>2. Small(x[1]) => arena[x[1]].desc \in Desc
        BY <4>1 DEF HeapInv, ArenasCount
      <4> QED BY <2>3, <2>8, <4>1, <4>2 DEF HeapInv, BlocksAreInArenas
    <3> QED BY <3>1, <3>2 DEF BlocksAreInArenas
  <2>10. PageReturned
    BY <2>1, <2>7, <2>8 DEF PageReturned
  <2> QED BY <2>3, <2>4, <2>6, <2>9, <2>10 DEF HeapInv
<1>4. CASE arena[p].count + 1 # TotalBlock[d]
  <2> DEFINE c == arena[p].count + 1
  <2>1. /\ free_list' = [free_list EXCEPT ![d] = freed]
        /\ arena' = [arena EXCEPT ![p].count = c]
        /\ UNCHANGED kernel_map
    BY <1>4 DEF kfree
  <2>2. c \in Nat /\ c < TotalBlock[d]
    BY <1>2, <1>4
  <2> HIDE DEF p, i, d, c
  <2>3. /\ arena' \in [KernelPage -> Arena \cup {NoArena}]
        /\ Arenas' = Arenas
        /\ \A q \in KernelPage : Small(q)' = Small(q) /\ Large(q)' = Large(q)
        /\ \A q \in KernelPage : Small(q) => arena'[q].desc = arena[q].desc
        /\ \A q \in KernelPage : Large(q) => arena'[q] = arena[q]
        /\ \A q \in Arenas : Span(q)' = Span(q)
        /\ arena'[p].count = c
        /\ \A q \in KernelPage \ {p} : arena'[q] = arena[q]
    BY <1>1, <1>2, <2>1, <2>2, OnlyCountChanges
  <2>4. HeapTypeOK'
    BY <1>1, <1>2, <2>1, <2>3 DEF HeapInv, HeapTypeOK
  <2>5. PagesAreOwned'
    BY <1>1, <2>1, <2>3 DEF HeapInv, PagesAreOwned
  <2>6. FreeOf(p)' = FreeOf(p) \cup {i}
    BY <1>1, <1>2, <2>1, <2>3 DEF FreeOf, HeapInv, HeapTypeOK, d
  <2>7. \A q \in KernelPage \ {p} : Small(q) => FreeOf(q)' = FreeOf(q)
    BY <1>2, <2>1, <2>3 DEF FreeOf, HeapInv, HeapTypeOK
  <2>8. ArenasCount'
    <3>1. ASSUME NEW q \in KernelPage \ {p}, Small(q)
          PROVE  /\ arena'[q].desc \in Desc
                 /\ arena'[q].count < TotalBlock[arena'[q].desc]
                 /\ arena'[q].count = Cardinality(FreeOf(q)')
      <4>1. FreeOf(q)' = FreeOf(q) /\ arena'[q] = arena[q]
        BY <2>3, <2>7, <3>1
      <4> QED BY <3>1, <4>1 DEF HeapInv, ArenasCount
    <3>2. arena'[p].desc = d /\ arena'[p].count = Cardinality(FreeOf(p)')
      BY <1>1, <1>2, <2>3, <2>6 DEF d, c
    <3> QED BY <1>1, <1>2, <2>2, <2>3, <3>1, <3>2 DEF HeapInv, ArenasCount
  <2>9. BlocksAreInArenas'
    <3>1. free_list'[d] = freed /\ \A e \in Desc \ {d} : free_list'[e] = free_list[e]
      BY <1>2, <2>1 DEF HeapInv, HeapTypeOK
    <3>2. ASSUME NEW e \in Desc, NEW x \in free_list'[e]
          PROVE  Small(x[1])' /\ arena'[x[1]].desc = e /\ x[2] < TotalBlock[e]
      <4>1. CASE x = b
        <5>1. e = d
          BY <1>2, <3>1, <3>2, <4>1 DEF HeapInv, HeapTypeOK, BlocksAreInArenas, d, p
        <5> QED BY <1>1, <1>2, <2>3, <4>1, <5>1 DEF d, p, i
      <4>2. CASE x # b
        BY <2>3, <3>1, <3>2, <4>2 DEF HeapInv, HeapTypeOK, BlocksAreInArenas
      <4> QED BY <4>1, <4>2
    <3>3. ASSUME NEW x \in in_use'
          PROVE  \/ /\ Small(x[1])' /\ x[2] < TotalBlock[arena'[x[1]].desc]
                    /\ x \notin free_list'[arena'[x[1]].desc]
                 \/ Large(x[1])' /\ x[2] = 0
      <4>1. x \in in_use /\ x # b /\ x[1] \in KernelPage
        BY <1>1 DEF HeapInv, HeapTypeOK
      <4>2. Small(x[1]) => arena[x[1]].desc \in Desc
        BY <4>1 DEF HeapInv, ArenasCount
      <4> QED BY <2>3, <3>1, <4>1, <4>2 DEF HeapInv, BlocksAreInArenas
    <3> QED BY <3>2, <3>3 DEF BlocksAreInArenas
  <2>10. PageReturned
    BY <2>1 DEF PageReturned
  <2> QED BY <2>4, <2>5, <2>8, <2>9, <2>10 DEF HeapInv
<1> QED BY <1>3, <1>4

LEMMA KfreeLargeStep ==
    ASSUME HeapAssumption, HeapInv, NEW b \in in_use, kfree_large(b)
    PROVE  HeapInv' /\ PageReturned
<1> DEFINE p == b[1]
<1>1. /\ Large(p) /\ in_use' = in_use \ {b}
      /\ kernel_map' = kernel_map \ Run(p, arena[p].count)
      /\ arena' = [arena EXCEPT ![p] = NoArena]
      /\ UNCHANGED <<free_list, kpages>>
  BY DEF kfree_large
<1>2. p \in KernelPage /\ b = <<p, 0>>
  BY <1>1 DEF HeapInv, HeapTypeOK, BlocksAreInArenas, Small, Large
<1>3. p \in Arenas /\ Span(p) = Run(p, arena[p].count)
  BY <1>1, <1>2 DEF Large, Arenas, Span
<1> HIDE DEF p
<1>4. /\ arena' \in [KernelPage -> Arena \cup {NoArena}] /\ kernel_map' \subseteq KernelPage
      /\ ~Small(p)' /\ ~Large(p)'
      /\ \A q \in KernelPage \ {p} : /\ arena'[q] = arena[q]
                               /\ Small(q)' = Small(q) /\ Large(q)' = Large(q)
      /\ \A q \in Arenas \ {p} : q \notin Span(p)
      /\ PagesAreOwned'
  BY <1>1, <1>3, ArenaRemoved
<1>5. HeapTypeOK'
  BY <1>1, <1>4 DEF HeapInv, HeapTypeOK
<1>6. \A q \in KernelPage \ {p} : FreeOf(q)' = FreeOf(q)
  BY <1>1, <1>4 DEF FreeOf
<1>7. ArenasCount'
  BY <1>4, <1>6 DEF HeapInv, ArenasCount
<1>8. \A x \in in_use' : x \in in_use /\ x[1] \in Arenas \ {p}
  BY <1>1, <1>2 DEF HeapInv, HeapTypeOK, BlocksAreInArenas, Small, Large, Arenas
<1>9. \A e \in Desc : \A x \in free_list[e] : x[1] \in Arenas \ {p}
  BY <1>1, <1>2 DEF HeapInv, HeapTypeOK, BlocksAreInArenas, Small, Large, Arenas
<1>10. BlocksAreInArenas'
  <2>1. Arenas \subseteq KernelPage
    BY DEF Arenas
  <2> QED BY <1>1, <1>4, <1>8, <1>9, <2>1 DEF HeapInv, BlocksAreInArenas
<1>11. PageReturned
  BY <1>1, <1>3, <1>4, <1>8, <1>9 DEF PageReturned
<1> QED BY <1>4, <1>5, <1>7, <1>10, <1>11 DEF HeapInv

LEMMA FreeStep ==
    ASSUME HeapAssumption, HeapInv, NEW k \in kpages, free_kpage(k)
    PROVE  HeapInv' /\ PageReturned
<1>1. /\ kernel_map' = kernel_map \ Run(k[1], k[2])
      /\ kpages' = kpages \ {k}
      /\ UNCHANGED <<arena, free_list, in_use>>
  BY DEF free_kpage
<1>2. HeapTypeOK'
  BY <1>1 DEF HeapInv, HeapTypeOK
<1>3. Arenas' = Arenas /\ \A q \in Arenas : Span(q)' = Span(q)
  BY <1>1 DEF Arenas, Span
<1>4. ArenasCount' /\ BlocksAreInArenas'
  BY <1>1 DEF HeapInv, ArenasCount, BlocksAreInArenas, Small, Large, FreeOf
<1>5. PagesAreOwned'
  BY <1>1, <1>3 DEF HeapInv, PagesAreOwned
<1>6. \A q \in Arenas : q \notin Run(k[1], k[2])
  <2>1. \A q \in Arenas : q \in Span(q)
    BY DEF Arenas, Span, Run, KernelPage, HeapInv, HeapTypeOK, ArenasCount, Large, Arena
  <2> QED BY <2>1 DEF HeapInv, PagesAreOwned
<1>7. /\ \A x \in in_use : x[1] \in Arenas
      /\ \A e \in Desc : \A x \in free_list[e] : x[1] \in Arenas
  BY DEF HeapInv, HeapTypeOK, BlocksAreInArenas, Small, Large, Arenas
<1>8. PageReturned
  BY <1>1, <1>6, <1>7 DEF PageReturned
<1> QED BY <1>2, <1>4, <1>5, <1>8 DEF HeapInv

LEMMA StepHeapInv ==
    ASSUME HeapAssumption, HeapInv, [HeapNext]_heapVars
    PROVE  HeapInv' /\ [PageReturned]_heapVars
<1>1. CASE UNCHANGED heapVars
  <2>1. UNCHANGED <<kernel_map, arena, free_list, in_use, kpages>>
    BY <1>1 DEF heapVars
  <2>2. /\ Arenas' = Arenas
        /\ \A p \in KernelPage : /\ Span(p)' = Span(p) /\ FreeOf(p)' = FreeOf(p)
                           /\ Small(p)' = Small(p) /\ Large(p)' = Large(p)
    BY <2>1 DEF Arenas, Span, Small, Large, FreeOf
  <2>3. HeapTypeOK' /\ ArenasCount'
    BY <2>1, <2>2 DEF HeapInv, HeapTypeOK, ArenasCount
  <2>4. BlocksAreInArenas'
    BY <2>1, <2>2 DEF HeapInv, HeapTypeOK, BlocksAreInArenas
  <2>5. PagesAreOwned'
    BY <2>1, <2>2 DEF HeapInv, PagesAreOwned, Arenas
  <2> QED BY <1>1, <2>3, <2>4, <2>5 DEF HeapInv
<1>2. CASE HeapNext
  BY <1>2, KmallocFreeStep, KmallocPageStep, KmallocLargeStep, AllocStep, KfreeStep,
     KfreeLargeStep, FreeStep DEF HeapNext
<1> QED BY <1>1, <1>2

-----------------------------------------------------------------------------
(***************************************************************************)
(* None of the assertions of kfree and free_kpage fails, however blocks    *)
(* are allocated and freed.                                                *)
(***************************************************************************)
THEOREM HeapKfreeAsserts ==
    ASSUME HeapAssumption PROVE HeapSpec => []KfreeAsserts
<1>1. ASSUME HeapInv PROVE KfreeAsserts
  <2> SUFFICES ASSUME NEW b \in in_use
               PROVE  LET p == b[1] IN
                      /\ Small(p) =>
                            LET d == arena[p].desc IN
                            /\ b \notin free_list[d]
                            /\ p \in kernel_map
                            /\ arena[p].count + 1 = TotalBlock[d]
                                  => Blocks(p, d) \subseteq free_list[d] \cup {b}
                      /\ Large(p) => Run(p, arena[p].count) \subseteq kernel_map
                      /\ Small(p) \/ Large(p)
    BY DEF KfreeAsserts
  <2>1. (Small(b[1]) \/ Large(b[1])) /\ b[1] \in Arenas
    BY <1>1 DEF HeapInv, HeapTypeOK, BlocksAreInArenas, Small, Large, Arenas
  <2>2. Large(b[1]) => Run(b[1], arena[b[1]].count) \subseteq kernel_map
    BY <1>1, <2>1 DEF HeapInv, PagesAreOwned, Span, Large
  <2>3. Small(b[1]) => b[1] \in kernel_map
    BY <1>1, <2>1 DEF HeapInv, PagesAreOwned, Span, Small
  <2>4. ASSUME Small(b[1]), arena[b[1]].count + 1 = TotalBlock[arena[b[1]].desc]
        PROVE  Blocks(b[1], arena[b[1]].desc) \subseteq free_list[arena[b[1]].desc] \cup {b}
    <3>1. \A j \in 0..(TotalBlock[arena[b[1]].desc] - 1) :
             j = b[2] \/ <<b[1], j>> \in free_list[arena[b[1]].desc]
      BY <1>1, <2>4, CountOfFree
    <3>2. b = <<b[1], b[2]>>
      BY <1>1 DEF HeapInv, HeapTypeOK
    <3>3. \A x \in Blocks(b[1], arena[b[1]].desc) :
             x = <<b[1], x[2]>> /\ x[2] \in 0..(TotalBlock[arena[b[1]].desc] - 1)
      BY DEF Blocks
    <3> QED BY <3>1, <3>2, <3>3
  <2>5. Small(b[1]) => b \notin free_list[arena[b[1]].desc]
    BY <1>1, CountOfFree
  <2> QED BY <2>1, <2>2, <2>3, <2>4, <2>5
<1>2. HeapInit => HeapInv
  BY InitHeapInv
<1>3. HeapInv /\ [HeapNext]_heapVars => HeapInv'
  BY StepHeapInv
<1>4. HeapInv => KfreeAsserts
  BY <1>1
<1> QED BY <1>2, <1>3, <1>4, PTL DEF HeapSpec

\* No page is given out twice.
THEOREM HeapPagesAreOwned ==
    ASSUME HeapAssumption PROVE HeapSpec => []PagesAreOwned
<1>1. HeapInit => HeapInv
  BY InitHeapInv
<1>2. HeapInv /\ [HeapNext]_heapVars => HeapInv'
  BY StepHeapInv
<1>3. HeapInv => PagesAreOwned
  BY DEF HeapInv
<1> QED BY <1>1, <1>2, <1>3, PTL DEF HeapSpec

\* No page is returned under a block, in use or on a free list.
THEOREM HeapReturnsUnused ==
    ASSUME HeapAssumption PROVE HeapSpec => PagesReturnedUnused
<1>1. HeapInit => HeapInv
  BY InitHeapInv
<1>2. HeapInv /\ [HeapNext]_heapVars => HeapInv'
  BY StepHeapInv
<1>3. HeapInv /\ [HeapNext]_heapVars => [PageReturned]_heapVars
  BY StepHeapInv
<1> QED BY <1>1, <1>2, <1>3, PTL DEF HeapSpec, PagesReturnedUnused
=============================================================================
