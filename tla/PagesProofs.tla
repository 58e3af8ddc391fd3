---------------------------- MODULE PagesProofs ----------------------------
(***************************************************************************)
(* Proofs about module Pages, for any number of pages, environments, CPUs  *)
(* and table entries.                                                      *)
(***************************************************************************)
EXTENDS Pages, FiniteSetTheorems, TLAPS

\* No page has more pointers to it than pp_ref can count.
Counted == \A p \in Page : Cardinality(Refs(mem, p)) < RefMod

\* What pmap.c keeps true of memory between and inside system calls.  The pages
\* in held have been allocated and are not mapped yet.
MemInv(m, held) ==
    /\ m \in Mem
    /\ \A p \in Page : m.ref[p] = Cardinality(Refs(m, p))
    /\ \A p \in Page : p \in m.free <=> Refs(m, p) = {} /\ p \notin held
    /\ \A n \in Name \ Pte : m.ptr[n] # NoPage => Refs(m, m.ptr[n]) = {n}
    /\ \A n \in Pte : /\ m.ptr[n] # NoPage => m.ptr[Table(n)] # NoPage
                      /\ m.ptr[Table(n)] # NoPage => Alive(m, n[1])

-----------------------------------------------------------------------------
\* Names and numbers.

\* The names of a PTE's table and of a root are names, and not PTEs.
LEMMA Names ==
    /\ Pte \subseteq Name
    /\ \A n \in Pte : /\ Table(n) \in Name \ Pte /\ n[1] \in Env
                      /\ Table(n)[1] = n[1]
                      /\ \A e \in Env : Table(n) # Root(e)
    /\ \A e \in Env : Root(e) \in Name \ Pte /\ Root(e)[1] = e
    /\ \A n \in Name : n[1] \in Env
  BY PagesAssumption DEF Name, Pte, Table, Root

\* A number below the modulus is its own remainder.
LEMMA ModSmall ==
    ASSUME NEW k \in Nat, k < RefMod
    PROVE  k % RefMod = k
  BY PagesAssumption

\* The pointers are finitely many.
LEMMA NameFinite == IsFiniteSet(Name)
<1>1. IsFiniteSet(0 .. NPD) /\ IsFiniteSet(0 .. NPT)
  BY PagesAssumption, FS_Interval
<1>2. IsFiniteSet((0 .. NPD) \X (0 .. NPT))
  BY <1>1, FS_Product, Zenon
<1> DEFINE T == Env \X ((0 .. NPD) \X (0 .. NPT))
           f == [n \in Name |-> <<n[1], <<n[2], n[3]>>>>]
<1>3. IsFiniteSet(T)
  BY <1>2, PagesAssumption, FS_Product
<1>4. f \in Injection(Name, T)
  <2>1. f \in [Name -> T]
    BY DEF Name
  <2>2. \A a, b \in Name : f[a] = f[b] => a = b
    BY DEF Name
  <2> HIDE DEF f
  <2> QED BY <2>1, <2>2 DEF Injection, IsInjective
<1> HIDE DEF f, T
<1> QED BY <1>3, <1>4, FS_Injection

-----------------------------------------------------------------------------
\* Counting references.

\* The references to a page are finitely many.
LEMMA RefsFinite ==
    ASSUME NEW m, NEW p
    PROVE  /\ IsFiniteSet(Refs(m, p))
           /\ Cardinality(Refs(m, p)) \in Nat
           /\ Cardinality(Refs(m, p)) = 0 <=> Refs(m, p) = {}
<1>1. Refs(m, p) \in SUBSET Name
  BY DEF Refs
<1>2. IsFiniteSet(Refs(m, p))
  BY <1>1, NameFinite, FS_Subset
<1>3. Cardinality(Refs(m, p)) \in Nat
  BY <1>2, FS_CardinalityType
<1>4. Cardinality(Refs(m, p)) = 0 <=> Refs(m, p) = {}
  BY <1>2, FS_EmptySet
<1> QED BY <1>2, <1>3, <1>4

\* One pointer is set: it is a reference to its new page and to no other.
LEMMA SetPointer ==
    ASSUME NEW m \in Mem, NEW m2 \in Mem, NEW n \in Name,
           NEW q \in Page \cup {NoPage}, m2.ptr = [m.ptr EXCEPT ![n] = q]
    PROVE  \A p \in Page :
              /\ Refs(m2, p) = IF p = q THEN Refs(m, p) \cup {n} ELSE Refs(m, p) \ {n}
              /\ Cardinality(Refs(m2, p)) =
                    Cardinality(Refs(m, p)) + (IF p = q /\ m.ptr[n] # p THEN 1 ELSE 0)
                                            - (IF p # q /\ m.ptr[n] = p THEN 1 ELSE 0)
<1> TAKE p \in Page
<1>1. m.ptr \in [Name -> Page \cup {NoPage}]
  BY DEF Mem
<1>2. \A x \in Name : m2.ptr[x] = IF x = n THEN q ELSE m.ptr[x]
  BY <1>1
<1>3. Refs(m2, p) = IF p = q THEN Refs(m, p) \cup {n} ELSE Refs(m, p) \ {n}
  BY <1>2 DEF Refs
<1>4. n \in Refs(m, p) <=> m.ptr[n] = p
  BY DEF Refs
<1>5. IsFiniteSet(Refs(m, p)) /\ Cardinality(Refs(m, p)) \in Nat
  BY RefsFinite
<1>6. CASE p = q
  <2>1. Cardinality(Refs(m, p) \cup {n}) =
          IF n \in Refs(m, p) THEN Cardinality(Refs(m, p)) ELSE Cardinality(Refs(m, p)) + 1
    BY <1>5, FS_AddElement, Zenon
  <2> QED BY <1>3, <1>4, <1>5, <1>6, <2>1
<1>7. CASE p # q
  <2>1. Cardinality(Refs(m, p) \ {n}) =
          IF n \in Refs(m, p) THEN Cardinality(Refs(m, p)) - 1 ELSE Cardinality(Refs(m, p))
    BY <1>5, FS_RemoveElement, Zenon
  <2> QED BY <1>3, <1>4, <1>5, <1>7, <2>1
<1> QED BY <1>6, <1>7

-----------------------------------------------------------------------------
\* The functions of pmap.c keep MemInv.

\* page_alloc: the page is in hand.
LEMMA AllocInv ==
    ASSUME NEW m, MemInv(m, {}), NEW p \in m.free
    PROVE  /\ MemInv(PageAlloc(m, p), {p})
           /\ p \in Page /\ p \notin PageAlloc(m, p).free
           /\ PageAlloc(m, p).ptr = m.ptr /\ PageAlloc(m, p).w = m.w
           /\ Refs(m, p) = {}
<1> DEFINE m2 == PageAlloc(m, p)
<1>1. /\ m2.free = m.free \ {p} /\ m2.ref = m.ref /\ m2.ptr = m.ptr /\ m2.w = m.w
      /\ m2 \in Mem /\ p \in Page
  BY DEF MemInv, Mem, PageAlloc
<1> HIDE DEF m2
<1>2. \A q : Refs(m2, q) = Refs(m, q)
  BY <1>1 DEF Refs
<1>3. Refs(m, p) = {}
  BY <1>1 DEF MemInv
<1>4. MemInv(m2, {p})
  BY <1>1, <1>2, <1>3 DEF MemInv, Alive
<1> QED BY <1>1, <1>3, <1>4 DEF m2

\* A page is taken off the free list as page directory or page table.
LEMMA PrivateInv ==
    ASSUME NEW held, NEW m, MemInv(m, held),
           NEW t \in Name \ Pte, m.ptr[t] = NoPage, NEW q \in m.free,
           \A n \in Pte : Table(n) = t => Alive(m, n[1]),
           NEW m2 \in Mem, m2.free = m.free \ {q}, m2.ref = [m.ref EXCEPT ![q] = 1],
           m2.ptr = [m.ptr EXCEPT ![t] = q]
    PROVE  MemInv(m2, held)
<1>1. /\ m \in Mem /\ q \in Page /\ q # NoPage /\ t \in Name
      /\ Refs(m, q) = {} /\ q \notin held
  BY PagesAssumption DEF MemInv, Mem
<1>0. \A p \in Page :
        /\ Refs(m2, p) = IF p = q THEN Refs(m, p) \cup {t} ELSE Refs(m, p) \ {t}
        /\ Cardinality(Refs(m2, p)) =
              Cardinality(Refs(m, p)) + (IF p = q /\ m.ptr[t] # p THEN 1 ELSE 0)
                                      - (IF p # q /\ m.ptr[t] = p THEN 1 ELSE 0)
  <2>1. q \in Page \cup {NoPage}
    BY <1>1
  <2> QED BY <1>1, <2>1, SetPointer
<1>2. \A p \in Page :
        /\ Refs(m2, p) = IF p = q THEN {t} ELSE Refs(m, p)
        /\ Cardinality(Refs(m2, p)) = IF p = q THEN 1 ELSE Cardinality(Refs(m, p))
  <2> TAKE p \in Page
  <2>1. m.ptr[t] # p
    BY PagesAssumption
  <2>2. t \notin Refs(m, p)
    BY <2>1 DEF Refs
  <2>3. /\ Cardinality(Refs(m, p)) \in Nat
        /\ Cardinality(Refs(m, q)) = 0
    BY <1>1, RefsFinite
  <2>4. CASE p = q
    <3>1. Refs(m2, q) = {} \cup {t} /\ Cardinality(Refs(m2, q)) = 0 + 1 - 0
      BY <1>0, <1>1, <2>1, <2>3, <2>4, Zenon
    <3> QED BY <2>4, <3>1
  <2>5. CASE p # q
    <3>1. Refs(m2, p) = Refs(m, p) \ {t}
      BY <1>0, <2>5
    <3>2. Cardinality(Refs(m2, p)) = Cardinality(Refs(m, p)) + 0 - 0
      BY <1>0, <2>1, <2>5
    <3> QED BY <2>2, <2>3, <2>5, <3>1, <3>2
  <2> QED BY <2>4, <2>5
<1>3. /\ \A p \in Page : m2.ref[p] = IF p = q THEN 1 ELSE m.ref[p]
      /\ \A n \in Name : m2.ptr[n] = IF n = t THEN q ELSE m.ptr[n]
  BY <1>1 DEF Mem
<1>4. \A p \in Page : m2.ref[p] = Cardinality(Refs(m2, p))
  BY <1>2, <1>3 DEF MemInv
<1>5. \A p \in Page : p \in m2.free <=> Refs(m2, p) = {} /\ p \notin held
  BY <1>2 DEF MemInv
<1>6. \A n \in Name \ Pte : m2.ptr[n] # NoPage => Refs(m2, m2.ptr[n]) = {n}
  <2> TAKE n \in Name \ Pte
  <2> HAVE m2.ptr[n] # NoPage
  <2>1. CASE n = t
    BY <1>1, <1>2, <1>3, <2>1
  <2>2. CASE n # t
    <3>1. m2.ptr[n] = m.ptr[n] /\ m.ptr[n] \in Page
      BY <1>1, <1>3, <2>2 DEF Mem
    <3>2. Refs(m, m.ptr[n]) = {n}
      BY <3>1 DEF MemInv
    <3> QED BY <1>1, <1>2, <3>1, <3>2
  <2> QED BY <2>1, <2>2
<1>7. \A n \in Pte : /\ m2.ptr[n] # NoPage => m2.ptr[Table(n)] # NoPage
                     /\ m2.ptr[Table(n)] # NoPage => Alive(m2, n[1])
  BY <1>1, <1>3, Names DEF MemInv, Alive
<1> QED BY <1>4, <1>5, <1>6, <1>7 DEF MemInv

\* pgdir_walk with create set.
LEMMA WalkInv ==
    ASSUME NEW held, NEW m, MemInv(m, held),
           NEW n \in Pte, Alive(m, n[1]), NEW m2 \in PgdirWalk(m, n)
    PROVE  /\ MemInv(m2, held)
           /\ m2.ptr[Table(n)] # NoPage
           /\ \A x \in Pte : m2.ptr[x] = m.ptr[x]
           /\ m2.free \subseteq m.free /\ m2.w = m.w
           /\ \A p \in Page : p \notin m.free => (\A x \in Name : m2.ptr[x] = p => m.ptr[x] = p)
<1>1. CASE m.ptr[Table(n)] # NoPage
  BY <1>1 DEF PgdirWalk
<1>2. CASE m.ptr[Table(n)] = NoPage
  <2>1. PICK q \in m.free :
          m2 = [PageAlloc(m, q) EXCEPT !.ref[q] = 1, !.ptr[Table(n)] = q]
    BY <1>2, Zenon DEF PgdirWalk
  <2>2. Table(n) \in Name \ Pte /\ q \in Page /\ q # NoPage
    BY Names, PagesAssumption DEF MemInv, Mem
  <2>3. /\ m2 \in Mem /\ m2.free = m.free \ {q} /\ m2.ref = [m.ref EXCEPT ![q] = 1]
        /\ m2.ptr = [m.ptr EXCEPT ![Table(n)] = q] /\ m2.w = m.w
    <3>1. /\ m = [free |-> m.free, ref |-> m.ref, ptr |-> m.ptr, w |-> m.w]
          /\ m.free \in SUBSET Page /\ m.ref \in [Page -> 0 .. RefMod - 1]
          /\ m.ptr \in [Name -> Page \cup {NoPage}] /\ m.w \in SUBSET Pte
      BY DEF MemInv, Mem
    <3>2. m2 = [free |-> m.free \ {q}, ref |-> [m.ref EXCEPT ![q] = 1],
                ptr |-> [m.ptr EXCEPT ![Table(n)] = q], w |-> m.w]
      BY <2>1, <3>1, Zenon DEF PageAlloc
    <3>3. [m.ref EXCEPT ![q] = 1] \in [Page -> 0 .. RefMod - 1]
      BY <3>1, PagesAssumption
    <3>4. [m.ptr EXCEPT ![Table(n)] = q] \in [Name -> Page \cup {NoPage}]
      BY <3>1, <2>2
    <3> QED BY <3>1, <3>2, <3>3, <3>4 DEF Mem
  <2>4. \A x \in Pte : Table(x) = Table(n) => Alive(m, x[1])
    <3>1. \A x \in Pte : Table(x) = Table(n) => x[1] = n[1]
      BY Names
    <3> QED BY <3>1
  <2>5. MemInv(m2, held)
    BY <1>2, <2>2, <2>3, <2>4, PrivateInv
  <2>6. \A x \in Name : m2.ptr[x] = IF x = Table(n) THEN q ELSE m.ptr[x]
    BY <2>2, <2>3 DEF MemInv, Mem
  <2> QED BY <2>2, <2>3, <2>5, <2>6, Names, SMTT(30)
<1> QED BY <1>1, <1>2

\* page_remove, page_decref and page_free.
LEMMA RemoveInv ==
    ASSUME NEW held, NEW m, MemInv(m, held), NEW n \in Pte, m.ptr[n] \notin held
    PROVE  /\ MemInv(PageRemove(m, n), held)
           /\ PageRemove(m, n).ptr = [m.ptr EXCEPT ![n] = NoPage]
           /\ PageRemove(m, n).w \in {m.w, m.w \ {n}}
           /\ \A p \in Page : p # m.ptr[n] =>
                 (p \in PageRemove(m, n).free <=> p \in m.free)
<1>1. /\ m \in Mem /\ n \in Name /\ n # Table(n)
      /\ m = [free |-> m.free, ref |-> m.ref, ptr |-> m.ptr, w |-> m.w]
      /\ m.free \in SUBSET Page /\ m.ref \in [Page -> 0 .. RefMod - 1]
      /\ m.ptr \in [Name -> Page \cup {NoPage}] /\ m.w \in SUBSET Pte
  BY Names DEF MemInv, Mem
<1>2. CASE m.ptr[n] = NoPage
  <2>1. PageRemove(m, n) = m
    BY <1>2 DEF PageRemove
  <2> QED BY <1>1, <1>2, <2>1
<1>3. CASE m.ptr[n] # NoPage
  <2> DEFINE q == m.ptr[n]
             k == m.ref[q] - 1
             m2 == PageRemove(m, n)
  <2>1. q \in Page /\ n \in Refs(m, q)
    BY <1>1, <1>3 DEF Refs
  <2>2. m.ref[q] \in Nat \ {0} /\ m.ref[q] < RefMod
    <3>1. m.ref[q] = Cardinality(Refs(m, q)) /\ Cardinality(Refs(m, q)) # 0
      BY <2>1, RefsFinite DEF MemInv
    <3>2. m.ref[q] \in 0 .. RefMod - 1
      BY <1>1, <2>1
    <3> QED BY <3>1, <3>2, PagesAssumption
  <2>3. k \in 0 .. RefMod - 1 /\ (m.ref[q] - 1) % RefMod = k
    BY <2>2, ModSmall, PagesAssumption
  <2>4. m2 = [free |-> IF k = 0 THEN m.free \cup {q} ELSE m.free,
              ref |-> [m.ref EXCEPT ![q] = k],
              ptr |-> [m.ptr EXCEPT ![n] = NoPage], w |-> m.w \ {n}]
    BY <1>1, <1>3, <2>3, Zenon DEF PageRemove, PageDecref
  <2>5. [m.ref EXCEPT ![q] = k] \in [Page -> 0 .. RefMod - 1]
    BY <1>1, <2>3, Zenon
  <2>6. [m.ptr EXCEPT ![n] = NoPage] \in [Name -> Page \cup {NoPage}]
    BY <1>1
  <2>7. /\ m2 \in Mem /\ m2.ptr = [m.ptr EXCEPT ![n] = NoPage] /\ m2.w = m.w \ {n}
        /\ m2.free = IF k = 0 THEN m.free \cup {q} ELSE m.free
        /\ m2.ref = [m.ref EXCEPT ![q] = k]
    BY <1>1, <2>1, <2>4, <2>5, <2>6 DEF Mem
  <2> HIDE DEF m2
  <2>8. \A p \in Page :
          /\ Refs(m2, p) = Refs(m, p) \ {n}
          /\ Cardinality(Refs(m2, p)) = IF p = q THEN k ELSE m.ref[p]
    <3>1. NoPage \in Page \cup {NoPage} /\ \A p \in Page : p # NoPage
      BY PagesAssumption
    <3>2. \A p \in Page :
            /\ Refs(m2, p) = IF p = NoPage THEN Refs(m, p) \cup {n} ELSE Refs(m, p) \ {n}
            /\ Cardinality(Refs(m2, p)) =
                  Cardinality(Refs(m, p)) + (IF p = NoPage /\ m.ptr[n] # p THEN 1 ELSE 0)
                                          - (IF p # NoPage /\ m.ptr[n] = p THEN 1 ELSE 0)
      BY <1>1, <2>7, <3>1, SetPointer
    <3>3. \A p \in Page : m.ref[p] = Cardinality(Refs(m, p)) /\ m.ref[p] \in Nat
      BY RefsFinite DEF MemInv
    <3> QED BY <3>1, <3>2, <3>3
  <2>9. /\ \A p \in Page : m2.ref[p] = IF p = q THEN k ELSE m.ref[p]
        /\ \A x \in Name : m2.ptr[x] = IF x = n THEN NoPage ELSE m.ptr[x]
    BY <1>1, <2>7
  <2>10. \A p \in Page : m2.ref[p] = Cardinality(Refs(m2, p))
    BY <2>8, <2>9
  <2>11. \A p \in Page : p \in m2.free <=> Refs(m2, p) = {} /\ p \notin held
    <3> TAKE p \in Page
    <3>1. CASE p = q
      <4>1. Refs(m2, q) = {} <=> k = 0
        BY <2>1, <2>8, RefsFinite, Zenon
      <4>2. q \notin m.free
        BY <2>1 DEF MemInv
      <4> QED BY <2>7, <3>1, <4>1, <4>2
    <3>2. CASE p # q
      <4>1. n \notin Refs(m, p)
        BY <3>2 DEF Refs
      <4>2. Refs(m2, p) = Refs(m, p)
        BY <2>8, <4>1
      <4> QED BY <2>7, <3>2, <4>2 DEF MemInv
    <3> QED BY <3>1, <3>2
  <2>12. \A x \in Name \ Pte : m2.ptr[x] # NoPage => Refs(m2, m2.ptr[x]) = {x}
    <3> TAKE x \in Name \ Pte
    <3> HAVE m2.ptr[x] # NoPage
    <3>1. m2.ptr[x] = m.ptr[x] /\ m.ptr[x] \in Page /\ x # n
      BY <1>1, <2>9
    <3>2. Refs(m, m.ptr[x]) = {x}
      BY <3>1 DEF MemInv
    <3> QED BY <2>8, <3>1, <3>2
  <2>13. \A x \in Pte : /\ m2.ptr[x] # NoPage => m2.ptr[Table(x)] # NoPage
                        /\ m2.ptr[Table(x)] # NoPage => Alive(m2, x[1])
    BY <2>9, Names DEF MemInv, Alive
  <2>14. MemInv(m2, held)
    BY <2>7, <2>10, <2>11, <2>12, <2>13 DEF MemInv
  <2> QED BY <2>7, <2>14 DEF m2
<1> QED BY <1>2, <1>3

\* page_insert of a page that is mapped somewhere or has just been allocated.
LEMMA InsertInv ==
    ASSUME NEW held, NEW m, MemInv(m, held), NEW p \in Page, p \notin m.free,
           held \subseteq {p}, p \in held => Refs(m, p) = {},
           NEW n \in Pte, m.ptr[Table(n)] # NoPage, NEW wr \in BOOLEAN,
           \A t \in Name \ Pte : m.ptr[t] # p,
           Cardinality(Refs(PageInsert(m, p, n, wr), p)) < RefMod
    PROVE  /\ MemInv(PageInsert(m, p, n, wr), {})
           /\ \A x \in Pte : PageInsert(m, p, n, wr).ptr[x] = IF x = n THEN p ELSE m.ptr[x]
           /\ \A x \in Pte : x \in PageInsert(m, p, n, wr).w <=> IF x = n THEN wr ELSE x \in m.w
<1> DEFINE m2 == PageInsert(m, p, n, wr)
           W(s) == IF wr THEN s \cup {n} ELSE s \ {n}
<1>1. /\ m \in Mem /\ n \in Name /\ p # NoPage
      /\ m = [free |-> m.free, ref |-> m.ref, ptr |-> m.ptr, w |-> m.w]
      /\ m.free \in SUBSET Page /\ m.ref \in [Page -> 0 .. RefMod - 1]
      /\ m.ptr \in [Name -> Page \cup {NoPage}] /\ m.w \in SUBSET Pte
  BY Names, PagesAssumption DEF MemInv, Mem
<1>2. CASE m.ptr[n] = p
  <2>1. held = {}
    <3>1. n \in Refs(m, p)
      BY <1>1, <1>2 DEF Refs
    <3> QED BY <3>1
  <2>2. m2 = [free |-> m.free, ref |-> m.ref, ptr |-> m.ptr, w |-> W(m.w)]
    BY <1>1, <1>2 DEF PageInsert
  <2>3. /\ m2 \in Mem /\ m2.free = m.free /\ m2.ref = m.ref /\ m2.ptr = m.ptr
        /\ m2.w = W(m.w)
    BY <1>1, <2>2 DEF Mem
  <2> HIDE DEF m2
  <2>4. \A q : Refs(m2, q) = Refs(m, q)
    BY <2>3 DEF Refs
  <2>5. MemInv(m2, {})
    BY <2>1, <2>3, <2>4 DEF MemInv, Alive
  <2> QED BY <1>1, <1>2, <2>3, <2>5 DEF m2
<1>3. CASE m.ptr[n] # p
  <2> DEFINE m1 == PageRemove(m, n)
             k == m1.ref[p] + 1
  <2>1. m.ptr[n] \notin held
    BY <1>3
  <2>2. /\ MemInv(m1, held) /\ m1.ptr = [m.ptr EXCEPT ![n] = NoPage]
        /\ m1.w \in {m.w, m.w \ {n}} /\ p \notin m1.free
    BY <1>3, <2>1, RemoveInv
  <2>3. m2 = [m1 EXCEPT !.ref[p] = (@ + 1) % RefMod, !.ptr[n] = p, !.w = W(@)]
    BY <1>3 DEF PageInsert
  <2> HIDE DEF m1, m2
  <2>4. /\ m1 \in Mem
        /\ m1 = [free |-> m1.free, ref |-> m1.ref, ptr |-> m1.ptr, w |-> m1.w]
        /\ m1.free \in SUBSET Page /\ m1.ref \in [Page -> 0 .. RefMod - 1]
        /\ m1.ptr \in [Name -> Page \cup {NoPage}] /\ m1.w \in SUBSET Pte
    BY <2>2, Zenon DEF MemInv, Mem
  <2>5. \A x \in Name : m1.ptr[x] = IF x = n THEN NoPage ELSE m.ptr[x]
    BY <1>1, <2>2
  <2> DEFINE m3 == [free |-> m1.free, ref |-> [m1.ref EXCEPT ![p] = (m1.ref[p] + 1) % RefMod],
                    ptr |-> [m1.ptr EXCEPT ![n] = p], w |-> W(m1.w)]
  <2>6. m2 = m3
    BY <2>3, <2>4, Zenon
  <2>7. [m1.ref EXCEPT ![p] = (m1.ref[p] + 1) % RefMod] \in [Page -> 0 .. RefMod - 1]
    BY <2>4, PagesAssumption
  <2>8. [m1.ptr EXCEPT ![n] = p] \in [Name -> Page \cup {NoPage}]
    BY <2>4, Zenon
  <2>9. /\ m2 \in Mem /\ m2.free = m1.free /\ m2.w = W(m1.w)
        /\ m2.ref = [m1.ref EXCEPT ![p] = (m1.ref[p] + 1) % RefMod]
        /\ m2.ptr = [m1.ptr EXCEPT ![n] = p]
    BY <1>1, <2>4, <2>6, <2>7, <2>8 DEF Mem
  <2> HIDE DEF m3
  <2>10. \A x \in Name : m2.ptr[x] = IF x = n THEN p ELSE m.ptr[x]
    BY <2>4, <2>5, <2>9
  <2>11. \A q \in Page :
          /\ Refs(m2, q) = IF q = p THEN Refs(m1, q) \cup {n} ELSE Refs(m1, q) \ {n}
          /\ Cardinality(Refs(m2, q)) =
                Cardinality(Refs(m1, q)) + (IF q = p /\ m1.ptr[n] # q THEN 1 ELSE 0)
                                         - (IF q # p /\ m1.ptr[n] = q THEN 1 ELSE 0)
    <3>1. /\ m1 \in Mem /\ m2 \in Mem /\ n \in Name /\ p \in Page \cup {NoPage}
          /\ m2.ptr = [m1.ptr EXCEPT ![n] = p]
      BY <1>1, <2>4, <2>9
    <3> QED BY <3>1, SetPointer
  <2>12. \A q \in Page : m1.ptr[n] # q /\ n \notin Refs(m1, q)
    BY <1>1, <2>5, PagesAssumption DEF Refs
  <2>13. \A q \in Page : m1.ref[q] = Cardinality(Refs(m1, q)) /\ m1.ref[q] \in Nat
    BY <2>2, RefsFinite DEF MemInv
  <2>14. \A q \in Page :
          /\ Refs(m2, q) = IF q = p THEN Refs(m1, q) \cup {n} ELSE Refs(m1, q)
          /\ Cardinality(Refs(m2, q)) = IF q = p THEN k ELSE m1.ref[q]
    <3> TAKE q \in Page
    <3>1. Refs(m1, q) \ {n} = Refs(m1, q)
      BY <2>12
    <3>2. CASE q = p
      <4>1. Cardinality(Refs(m2, q)) = Cardinality(Refs(m1, q)) + 1 - 0
        BY <2>11, <2>12, <3>2
      <4>2. Refs(m2, q) = Refs(m1, q) \cup {n}
        BY <2>11, <3>2
      <4> QED BY <2>13, <3>2, <4>1, <4>2
    <3>3. CASE q # p
      <4>1. Cardinality(Refs(m2, q)) = Cardinality(Refs(m1, q)) + 0 - 0
        BY <2>11, <2>12, <3>3
      <4>2. Refs(m2, q) = Refs(m1, q)
        BY <2>11, <3>1, <3>3, Zenon
      <4> QED BY <2>13, <3>3, <4>1, <4>2
    <3> QED BY <3>2, <3>3
  <2>15. (m1.ref[p] + 1) % RefMod = k
    <3>1. Cardinality(Refs(m2, p)) = k /\ Cardinality(Refs(m2, p)) < RefMod
      BY <2>14 DEF m2
    <3> QED BY <2>13, <3>1, ModSmall
  <2>16. \A q \in Page : m2.ref[q] = Cardinality(Refs(m2, q))
    <3>1. \A q \in Page : m2.ref[q] = IF q = p THEN k ELSE m1.ref[q]
      BY <2>4, <2>9, <2>15
    <3> QED BY <2>14, <3>1
  <2>17. \A q \in Page : q \in m2.free <=> Refs(m2, q) = {}
    <3> TAKE q \in Page
    <3>1. CASE q = p
      BY <2>2, <2>9, <2>14, <3>1
    <3>2. CASE q # p
      <4>1. q \notin held /\ Refs(m2, q) = Refs(m1, q)
        BY <2>14, <3>2
      <4> QED BY <2>2, <2>9, <4>1 DEF MemInv
    <3> QED BY <3>1, <3>2
  <2>18. \A x \in Name \ Pte : m2.ptr[x] # NoPage => Refs(m2, m2.ptr[x]) = {x}
    <3> TAKE x \in Name \ Pte
    <3> HAVE m2.ptr[x] # NoPage
    <3>1. m2.ptr[x] = m1.ptr[x] /\ m1.ptr[x] = m.ptr[x] /\ m.ptr[x] \in Page /\ m.ptr[x] # p
      BY <1>1, <2>5, <2>10
    <3>2. Refs(m1, m1.ptr[x]) = {x}
      BY <2>2, <3>1 DEF MemInv
    <3> QED BY <2>14, <3>1, <3>2
  <2>19. \A x \in Pte : /\ m2.ptr[x] # NoPage => m2.ptr[Table(x)] # NoPage
                        /\ m2.ptr[Table(x)] # NoPage => Alive(m2, x[1])
    BY <2>10, Names DEF MemInv, Alive
  <2>20. MemInv(m2, {})
    BY <2>9, <2>16, <2>17, <2>18, <2>19, SMTT(30) DEF MemInv
  <2>21. \A x \in Pte : x \in m2.w <=> IF x = n THEN wr ELSE x \in m.w
    BY <2>2, <2>9
  <2> QED BY <2>10, <2>20, <2>21, Names DEF m2
<1> QED BY <1>2, <1>3

\* env_free drops all references of one environment.
LEMMA EnvFreeInv ==
    ASSUME MemInv(mem, {}), NEW e \in Env
    PROVE  /\ MemInv(EnvFree(e), {})
           /\ \A x \in Name : EnvFree(e).ptr[x] = IF x[1] = e THEN NoPage ELSE mem.ptr[x]
           /\ EnvFree(e).w = {x \in mem.w : x[1] # e}
<1> DEFINE own(p) == {n \in Name : n[1] = e /\ mem.ptr[n] = p}
           ref == [p \in Page |-> (mem.ref[p] - Cardinality(own(p))) % RefMod]
           free == mem.free \cup {p \in Page : own(p) # {} /\ ref[p] = 0}
           ptr == [x \in Name |-> IF x[1] = e THEN NoPage ELSE mem.ptr[x]]
           w == {x \in mem.w : x[1] # e}
           m2 == EnvFree(e)
<1>1. /\ mem \in Mem /\ mem.free \in SUBSET Page /\ mem.ref \in [Page -> 0 .. RefMod - 1]
      /\ mem.ptr \in [Name -> Page \cup {NoPage}] /\ mem.w \in SUBSET Pte
  BY DEF MemInv, Mem
<1>2. m2 = [free |-> free, ref |-> ref, ptr |-> ptr, w |-> w]
  BY DEF EnvFree
<1>3. ref \in [Page -> 0 .. RefMod - 1]
  <2> SUFFICES ASSUME NEW p \in Page
               PROVE  (mem.ref[p] - Cardinality(own(p))) % RefMod \in 0 .. RefMod - 1
    OBVIOUS
  <2>1. own(p) \in SUBSET Name
    OBVIOUS
  <2>2. Cardinality(own(p)) \in Nat
    BY <2>1, NameFinite, FS_Subset, FS_CardinalityType
  <2> QED BY <1>1, <2>2, PagesAssumption
<1>4. ptr \in [Name -> Page \cup {NoPage}]
  BY <1>1, Zenon
<1>5. /\ m2 \in Mem /\ m2.free = free /\ m2.ref = ref /\ m2.ptr = ptr /\ m2.w = w
  BY <1>1, <1>2, <1>3, <1>4 DEF Mem
<1> HIDE DEF m2
<1>6. \A x \in Name : m2.ptr[x] = IF x[1] = e THEN NoPage ELSE mem.ptr[x]
  BY <1>5
<1>7. \A p \in Page :
        /\ Refs(m2, p) = Refs(mem, p) \ own(p)
        /\ own(p) \subseteq Refs(mem, p)
        /\ Cardinality(Refs(m2, p)) = mem.ref[p] - Cardinality(own(p))
        /\ ref[p] = Cardinality(Refs(m2, p))
  <2> TAKE p \in Page
  <2>1. p # NoPage
    BY PagesAssumption
  <2>2. Refs(m2, p) = Refs(mem, p) \ own(p)
    BY <1>6, <2>1 DEF Refs
  <2>3. own(p) \subseteq Refs(mem, p)
    BY DEF Refs
  <2>4. Refs(mem, p) \cap own(p) = own(p)
    BY <2>3
  <2>5. Cardinality(Refs(mem, p) \ own(p)) = Cardinality(Refs(mem, p)) - Cardinality(own(p))
    <3>1. IsFiniteSet(Refs(mem, p))
      BY RefsFinite
    <3> HIDE DEF own
    <3>2. Cardinality(Refs(mem, p) \ own(p)) =
            Cardinality(Refs(mem, p)) - Cardinality(Refs(mem, p) \cap own(p))
      BY <3>1, FS_Difference, Zenon
    <3> QED BY <2>4, <3>2
  <2>6. mem.ref[p] = Cardinality(Refs(mem, p))
    BY DEF MemInv
  <2>7. Cardinality(Refs(m2, p)) = mem.ref[p] - Cardinality(own(p))
    BY <2>2, <2>5, <2>6
  <2>8. Cardinality(Refs(m2, p)) \in Nat /\ Cardinality(Refs(m2, p)) < RefMod
    <3>1. own(p) \in SUBSET Name
      OBVIOUS
    <3>2. Cardinality(own(p)) \in Nat
      BY <3>1, NameFinite, FS_Subset, FS_CardinalityType
    <3>3. mem.ref[p] \in 0 .. RefMod - 1
      BY <1>1
    <3>4. Cardinality(Refs(m2, p)) \in Nat
      BY RefsFinite
    <3> HIDE DEF own
    <3> QED BY <2>7, <3>2, <3>3, <3>4, PagesAssumption
  <2>9. ref[p] = (mem.ref[p] - Cardinality(own(p))) % RefMod
    OBVIOUS
  <2>10. ref[p] = Cardinality(Refs(m2, p))
    BY <2>7, <2>8, <2>9, ModSmall
  <2> QED BY <2>2, <2>3, <2>7, <2>10
<1>8. \A p \in Page : p \in m2.free <=> Refs(m2, p) = {}
  <2> TAKE p \in Page
  <2>1. ref[p] = 0 <=> Refs(m2, p) = {}
    BY <1>7, RefsFinite
  <2>2. p \in m2.free <=> p \in mem.free \/ (own(p) # {} /\ ref[p] = 0)
    BY <1>5
  <2>3. p \in mem.free <=> Refs(mem, p) = {}
    BY DEF MemInv
  <2> HIDE DEF own, ref, free
  <2> QED BY <1>7, <2>1, <2>2, <2>3
<1>9. \A x \in Name \ Pte : m2.ptr[x] # NoPage => Refs(m2, m2.ptr[x]) = {x}
  <2> TAKE x \in Name \ Pte
  <2> HAVE m2.ptr[x] # NoPage
  <2>1. m2.ptr[x] = mem.ptr[x] /\ x[1] # e /\ mem.ptr[x] \in Page
    BY <1>1, <1>6
  <2>2. Refs(mem, mem.ptr[x]) = {x}
    BY <2>1 DEF MemInv
  <2>3. x \notin own(mem.ptr[x])
    BY <2>1
  <2> HIDE DEF own, ref
  <2> QED BY <1>7, <2>1, <2>2, <2>3
<1>10. \A x \in Pte : /\ m2.ptr[x] # NoPage => m2.ptr[Table(x)] # NoPage
                      /\ m2.ptr[Table(x)] # NoPage => Alive(m2, x[1])
  BY <1>6, Names DEF MemInv, Alive
<1>11. \A p \in Page : m2.ref[p] = Cardinality(Refs(m2, p))
  BY <1>5, <1>7
<1>12. MemInv(m2, {})
  BY <1>5, <1>8, <1>9, <1>10, <1>11, Zenon DEF MemInv
<1> QED BY <1>5, <1>6, <1>12 DEF m2

-----------------------------------------------------------------------------
\* The steps.

\* The inductive invariant about memory.
IInv == TypeOK /\ MemInv(mem, {})

\* A step changes the pages of no address space but that of e.
Spares(e) ==
    \A x \in Pte : x[1] # e => mem'.ptr[x] = mem.ptr[x] /\ (x \in mem'.w <=> x \in mem.w)

\* A step gives nobody write access to a page that nobody could write.
NoNewWriter ==
    \A p \in Page : Refs(mem, p) # {} /\ Refs(mem, p) \cap mem.w = {} =>
                    Refs(mem', p) \cap mem'.w = {}

\* What a system call that ends with Return does to the TLBs.
LEMMA ReturnTypes ==
    ASSUME TypeOK, NEW c \in CPU, NEW cached, Return(c, cached)
    PROVE  /\ curenv' \in [CPU -> Env \cup {NoEnv}]
           /\ tlb' \in [CPU -> SUBSET (Pte \X Page \X BOOLEAN)]
           /\ curenv' = curenv /\ tlb' = [tlb EXCEPT ![c] = {}]
  BY DEF TypeOK, Return, Lcr3

\* page_insert at PTE n, after pgdir_walk, of a page that is in use at PTEs only,
\* or has just been allocated, keeps the invariant; only n changes.
LEMMA WalkInsert ==
    ASSUME NEW held, NEW m0, MemInv(m0, held), NEW p \in Page, p \notin m0.free,
           held \subseteq {p}, p \in held => Refs(m0, p) = {},
           \A t \in Name \ Pte : m0.ptr[t] # p,
           NEW n \in Pte, Alive(m0, n[1]), NEW wr \in BOOLEAN,
           NEW m \in PgdirWalk(m0, n),
           Cardinality(Refs(PageInsert(m, p, n, wr), p)) < RefMod
    PROVE  /\ MemInv(PageInsert(m, p, n, wr), {})
           /\ \A x \in Pte : PageInsert(m, p, n, wr).ptr[x] = IF x = n THEN p ELSE m0.ptr[x]
           /\ \A x \in Pte : x \in PageInsert(m, p, n, wr).w <=> IF x = n THEN wr ELSE x \in m0.w
<1>1. /\ MemInv(m, held) /\ m.ptr[Table(n)] # NoPage
      /\ \A x \in Pte : m.ptr[x] = m0.ptr[x]
      /\ m.free \subseteq m0.free /\ m.w = m0.w
      /\ \A x \in Name : m.ptr[x] = p => m0.ptr[x] = p
  BY WalkInv
<1>2. p \in held => Refs(m, p) = {}
  BY <1>1 DEF Refs
<1>3. \A t \in Name \ Pte : m.ptr[t] # p
  BY <1>1
<1>4. p \notin m.free
  BY <1>1
<1>5. /\ MemInv(PageInsert(m, p, n, wr), {})
      /\ \A x \in Pte : PageInsert(m, p, n, wr).ptr[x] = IF x = n THEN p ELSE m.ptr[x]
      /\ \A x \in Pte : x \in PageInsert(m, p, n, wr).w <=> IF x = n THEN wr ELSE x \in m.w
  BY <1>1, <1>2, <1>3, <1>4, InsertInv
<1> QED BY <1>1, <1>5

\* Only the pages at PTEs may be writable.
LEMMA WritableRefs ==
    ASSUME NEW m \in Mem, NEW p
    PROVE  Refs(m, p) \cap m.w = {x \in Pte : m.ptr[x] = p /\ x \in m.w}
  BY Names DEF Mem, Refs

\* A system call that returns -E_NO_MEM leaves memory as it was.
LEMMA NoMemStep ==
    ASSUME IInv, NEW c \in CPU, mem' = mem, env_parent' = env_parent, Return(c, tlb[c])
    PROVE  IInv' /\ (\A e : Spares(e)) /\ NoNewWriter /\ curenv' = curenv
           /\ tlb' = [tlb EXCEPT ![c] = {}]
<1>1. /\ curenv' \in [CPU -> Env \cup {NoEnv}]
      /\ tlb' \in [CPU -> SUBSET (Pte \X Page \X BOOLEAN)]
      /\ curenv' = curenv /\ tlb' = [tlb EXCEPT ![c] = {}]
  BY ReturnTypes, Zenon DEF IInv
<1>2. TypeOK' /\ MemInv(mem', {})
  BY <1>1, Zenon DEF IInv, TypeOK
<1>3. (\A e : Spares(e)) /\ NoNewWriter
  BY DEF Spares, NoNewWriter
<1> QED BY <1>1, <1>2, <1>3, Zenon DEF IInv

\* page_free after page_alloc gives back the memory there was.
LEMMA FreeAfterAlloc ==
    ASSUME NEW m \in Mem, NEW p \in m.free
    PROVE  PageFree(PageAlloc(m, p), p) = m
<1>1. (m.free \ {p}) \cup {p} = m.free
  OBVIOUS
<1> QED BY <1>1 DEF Mem, PageFree, PageAlloc

\* sys_page_alloc maps a new page.
LEMMA AllocInsertStep ==
    ASSUME Counted', IInv, NEW c \in CPU, NEW n \in Pte, NEW wr \in BOOLEAN,
           May(c, n[1]), AllocInsert(c, n, wr), env_parent' = env_parent
    PROVE  IInv' /\ Spares(n[1]) /\ NoNewWriter /\ curenv' = curenv
           /\ tlb' = [tlb EXCEPT ![c] = {}]
<1>0. PICK p \in mem.free : \E m \in PgdirWalk(PageAlloc(mem, p), n) :
        mem' = PageInsert(m, p, n, wr) /\ Return(c, InsertTlb(c, m, p, n))
  BY DEF AllocInsert
<1>1. PICK m \in PgdirWalk(PageAlloc(mem, p), n) :
        mem' = PageInsert(m, p, n, wr) /\ Return(c, InsertTlb(c, m, p, n))
  BY <1>0
<1> DEFINE m0 == PageAlloc(mem, p)
<1>2. /\ MemInv(m0, {p}) /\ p \in Page /\ p \notin m0.free
      /\ m0.ptr = mem.ptr /\ m0.w = mem.w /\ Refs(mem, p) = {}
  BY AllocInv DEF IInv
<1>3. m \in PgdirWalk(m0, n)
  OBVIOUS
<1> HIDE DEF m0
<1>4. Alive(m0, n[1])
  BY <1>2 DEF May, Alive
<1>5. Refs(m0, p) = {} /\ \A t \in Name \ Pte : m0.ptr[t] # p
  BY <1>2 DEF Refs
<1>6. /\ MemInv(mem', {})
      /\ \A x \in Pte : mem'.ptr[x] = IF x = n THEN p ELSE mem.ptr[x]
      /\ \A x \in Pte : x \in mem'.w <=> IF x = n THEN wr ELSE x \in mem.w
  <2>1. Cardinality(Refs(PageInsert(m, p, n, wr), p)) < RefMod
    BY <1>1, <1>2, Zenon DEF Counted
  <2>2. /\ MemInv(PageInsert(m, p, n, wr), {})
        /\ \A x \in Pte : PageInsert(m, p, n, wr).ptr[x] = IF x = n THEN p ELSE m0.ptr[x]
        /\ \A x \in Pte : x \in PageInsert(m, p, n, wr).w <=> IF x = n THEN wr ELSE x \in m0.w
    BY <1>1, <1>2, <1>3, <1>4, <1>5, <2>1, WalkInsert, SMTT(30)
  <2> QED BY <1>1, <1>2, <2>2, Zenon
<1>7. Spares(n[1])
  BY <1>6 DEF Spares
<1>8. NoNewWriter
  <2>1. mem \in Mem /\ mem' \in Mem
    BY <1>6 DEF IInv, MemInv
  <2>2. \A q \in Page : /\ Refs(mem, q) \cap mem.w = {x \in Pte : mem.ptr[x] = q /\ x \in mem.w}
                        /\ Refs(mem', q) \cap mem'.w = {x \in Pte : mem'.ptr[x] = q /\ x \in mem'.w}
    BY <2>1, WritableRefs
  <2> QED BY <1>2, <1>6, <2>2, Zenon DEF NoNewWriter
<1>9. /\ curenv' \in [CPU -> Env \cup {NoEnv}]
      /\ tlb' \in [CPU -> SUBSET (Pte \X Page \X BOOLEAN)]
      /\ curenv' = curenv /\ tlb' = [tlb EXCEPT ![c] = {}]
  BY <1>1, ReturnTypes, Zenon DEF IInv
<1>10. TypeOK'
  BY <1>6, <1>9, Zenon DEF TypeOK, IInv, MemInv
<1> QED BY <1>6, <1>7, <1>8, <1>9, <1>10 DEF IInv

\* sys_page_alloc.
LEMMA AllocStep ==
    ASSUME Counted', IInv, NEW c \in CPU, NEW n \in Pte, NEW wr \in BOOLEAN, SysPageAlloc(c, n, wr)
    PROVE  IInv' /\ Spares(n[1]) /\ NoNewWriter /\ curenv' = curenv
           /\ tlb' = [tlb EXCEPT ![c] = {}]
<1>1. CASE AllocInsert(c, n, wr)
  BY <1>1, AllocInsertStep, Zenon DEF SysPageAlloc
<1>2. CASE AllocNoMem(c, n)
  <2>1. mem' = mem /\ Return(c, tlb[c])
    BY <1>2, FreeAfterAlloc DEF AllocNoMem, IInv, TypeOK
  <2> QED BY <2>1, NoMemStep, Zenon DEF SysPageAlloc
<1> QED BY <1>1, <1>2, Zenon DEF SysPageAlloc

\* page_insert of a page that is mapped already.
LEMMA MapInsertStep ==
    ASSUME Counted', IInv, NEW c \in CPU, NEW s \in Pte, NEW n \in Pte, NEW wr \in BOOLEAN,
           Alive(mem, n[1]), mem.ptr[s] # NoPage, wr => s \in mem.w, env_parent' = env_parent,
           NEW m \in PgdirWalk(mem, n), mem' = PageInsert(m, mem.ptr[s], n, wr),
           Return(c, InsertTlb(c, m, mem.ptr[s], n))
    PROVE  IInv' /\ Spares(n[1]) /\ NoNewWriter /\ curenv' = curenv
           /\ tlb' = [tlb EXCEPT ![c] = {}]
<1> DEFINE p == mem.ptr[s]
<1>1. mem' = PageInsert(m, p, n, wr) /\ Return(c, InsertTlb(c, m, p, n))
  OBVIOUS
<1>2. p \in Page /\ s \in Refs(mem, p) /\ (wr => s \in mem.w) /\ mem \in Mem
  BY Names DEF IInv, MemInv, Mem, Refs
<1>3. p \notin mem.free
  BY <1>2 DEF IInv, MemInv
<1>4. \A t \in Name \ Pte : mem.ptr[t] # p
  <2> SUFFICES ASSUME NEW t \in Name \ Pte, mem.ptr[t] = p PROVE FALSE
    OBVIOUS
  <2>1. Refs(mem, p) = {t}
    BY <1>2, PagesAssumption DEF IInv, MemInv
  <2> QED BY <1>2, <2>1
<1>5. MemInv(mem, {})
  BY DEF IInv
<1> HIDE DEF p
<1>6. /\ MemInv(mem', {})
      /\ \A x \in Pte : mem'.ptr[x] = IF x = n THEN p ELSE mem.ptr[x]
      /\ \A x \in Pte : x \in mem'.w <=> IF x = n THEN wr ELSE x \in mem.w
  <2>1. Cardinality(Refs(PageInsert(m, p, n, wr), p)) < RefMod
    BY <1>1, <1>2, Zenon DEF Counted
  <2>2. /\ MemInv(PageInsert(m, p, n, wr), {})
        /\ \A x \in Pte : PageInsert(m, p, n, wr).ptr[x] = IF x = n THEN p ELSE mem.ptr[x]
        /\ \A x \in Pte : x \in PageInsert(m, p, n, wr).w <=> IF x = n THEN wr ELSE x \in mem.w
    BY <1>1, <1>2, <1>3, <1>4, <1>5, <2>1, WalkInsert, SMTT(30)
  <2> QED BY <1>1, <1>2, <2>2
<1>7. Spares(n[1])
  BY <1>6 DEF Spares
<1>8. NoNewWriter
  <2>1. mem' \in Mem
    BY <1>6 DEF MemInv
  <2>2. \A q \in Page : /\ Refs(mem, q) \cap mem.w = {x \in Pte : mem.ptr[x] = q /\ x \in mem.w}
                        /\ Refs(mem', q) \cap mem'.w = {x \in Pte : mem'.ptr[x] = q /\ x \in mem'.w}
    BY <1>2, <2>1, WritableRefs
  <2>3. wr => Refs(mem, p) \cap mem.w # {}
    BY <1>2, Zenon
  <2> QED BY <1>6, <2>2, <2>3 DEF NoNewWriter
<1>9. /\ curenv' \in [CPU -> Env \cup {NoEnv}]
      /\ tlb' \in [CPU -> SUBSET (Pte \X Page \X BOOLEAN)]
      /\ curenv' = curenv /\ tlb' = [tlb EXCEPT ![c] = {}]
  BY <1>1, ReturnTypes, Zenon DEF IInv
<1>10. TypeOK'
  BY <1>6, <1>9, Zenon DEF TypeOK, IInv, MemInv
<1> QED BY <1>6, <1>7, <1>8, <1>9, <1>10, Zenon DEF IInv

\* sys_page_map, and the page that a message carries.
LEMMA MapStep ==
    ASSUME Counted', IInv, NEW c \in CPU, NEW s \in Pte, NEW n \in Pte, NEW wr \in BOOLEAN,
           Alive(mem, n[1]), MapPage(c, s, n, wr)
    PROVE  IInv' /\ Spares(n[1]) /\ NoNewWriter /\ curenv' = curenv
           /\ tlb' = [tlb EXCEPT ![c] = {}]
<1>1. CASE \E m \in PgdirWalk(mem, n) : /\ mem' = PageInsert(m, mem.ptr[s], n, wr)
                                        /\ Return(c, InsertTlb(c, m, mem.ptr[s], n))
  BY <1>1, MapInsertStep, Zenon DEF MapPage
<1>2. CASE mem' = mem /\ Return(c, tlb[c])
  BY <1>2, NoMemStep, Zenon DEF MapPage
<1> QED BY <1>1, <1>2, Zenon DEF MapPage

\* sys_page_unmap.
LEMMA UnmapStep ==
    ASSUME IInv, NEW c \in CPU, NEW n \in Pte, SysPageUnmap(c, n)
    PROVE  IInv' /\ Spares(n[1]) /\ NoNewWriter /\ curenv' = curenv
           /\ tlb' = [tlb EXCEPT ![c] = {}]
<1>1. mem' = PageRemove(mem, n) /\ Return(c, TlbInvalidate(c, n))
  BY DEF SysPageUnmap
<1>2. MemInv(mem, {}) /\ mem.ptr[n] \notin {}
  BY DEF IInv
<1>3. /\ MemInv(mem', {}) /\ mem'.ptr = [mem.ptr EXCEPT ![n] = NoPage]
      /\ mem'.w \in {mem.w, mem.w \ {n}}
  BY <1>1, <1>2, RemoveInv
<1>4. \A x \in Name : mem'.ptr[x] = IF x = n THEN NoPage ELSE mem.ptr[x]
  BY <1>2, <1>3 DEF MemInv, Mem
<1>5. Spares(n[1])
  BY <1>3, <1>4, Names DEF Spares
<1>6. NoNewWriter
  BY <1>3, <1>4, PagesAssumption DEF NoNewWriter, Refs
<1>7. /\ curenv' \in [CPU -> Env \cup {NoEnv}]
      /\ tlb' \in [CPU -> SUBSET (Pte \X Page \X BOOLEAN)]
      /\ curenv' = curenv /\ tlb' = [tlb EXCEPT ![c] = {}]
  BY <1>1, ReturnTypes, Zenon DEF IInv
<1>8. TypeOK'
  BY <1>3, <1>7 DEF TypeOK, IInv, MemInv, SysPageUnmap
<1> QED BY <1>3, <1>5, <1>6, <1>7, <1>8 DEF IInv

\* sys_exofork: env_setup_vm finds a page.
LEMMA SetupVmStep ==
    ASSUME IInv, NEW c \in CPU, NEW e \in Env, SysExofork(c, e), mem.free # {}
    PROVE  IInv' /\ Spares(NoEnv) /\ NoNewWriter /\ curenv' = curenv
           /\ tlb' = [tlb EXCEPT ![c] = {}]
<1>1. PICK p \in mem.free :
        mem' = [PageAlloc(mem, p) EXCEPT !.ref[p] = (@ + 1) % RefMod, !.ptr[Root(e)] = p]
  BY Zenon DEF SysExofork
<1>2. /\ MemInv(mem, {}) /\ mem \in Mem
      /\ mem = [free |-> mem.free, ref |-> mem.ref, ptr |-> mem.ptr, w |-> mem.w]
      /\ mem.free \in SUBSET Page /\ mem.ref \in [Page -> 0 .. RefMod - 1]
      /\ mem.ptr \in [Name -> Page \cup {NoPage}] /\ mem.w \in SUBSET Pte
  BY DEF IInv, MemInv, Mem
<1>3. p \in Page /\ Refs(mem, p) = {} /\ mem.ref[p] = Cardinality(Refs(mem, p))
  BY <1>2 DEF MemInv
<1>4. mem.ref[p] = 0 /\ (mem.ref[p] + 1) % RefMod = 1
  BY <1>3, RefsFinite, ModSmall, PagesAssumption
<1>5. Root(e) \in Name \ Pte /\ mem.ptr[Root(e)] = NoPage
  BY Names DEF SysExofork, Alive
<1>6. mem' = [free |-> mem.free \ {p}, ref |-> [mem.ref EXCEPT ![p] = 1],
              ptr |-> [mem.ptr EXCEPT ![Root(e)] = p], w |-> mem.w]
  BY <1>1, <1>2, <1>4, Zenon DEF PageAlloc
<1>7. [mem.ref EXCEPT ![p] = 1] \in [Page -> 0 .. RefMod - 1]
  BY <1>2, PagesAssumption
<1>8. [mem.ptr EXCEPT ![Root(e)] = p] \in [Name -> Page \cup {NoPage}]
  BY <1>2, <1>3, Zenon
<1>9. /\ mem' \in Mem /\ mem'.free = mem.free \ {p} /\ mem'.ref = [mem.ref EXCEPT ![p] = 1]
      /\ mem'.ptr = [mem.ptr EXCEPT ![Root(e)] = p] /\ mem'.w = mem.w
  BY <1>2, <1>6, <1>7, <1>8 DEF Mem
<1>10. \A n \in Pte : Table(n) = Root(e) => Alive(mem, n[1])
  BY Names
<1>11. MemInv(mem', {})
  BY <1>2, <1>5, <1>9, <1>10, PrivateInv
<1>12. \A x \in Pte : mem'.ptr[x] = mem.ptr[x]
  BY <1>2, <1>5, <1>9, Names
<1>13. Spares(NoEnv)
  BY <1>9, <1>12 DEF Spares
<1>14. NoNewWriter
  <2>1. \A q \in Page : /\ Refs(mem, q) \cap mem.w = {x \in Pte : mem.ptr[x] = q /\ x \in mem.w}
                        /\ Refs(mem', q) \cap mem'.w = {x \in Pte : mem'.ptr[x] = q /\ x \in mem'.w}
    <3>1. mem \in Mem /\ mem' \in Mem
      BY <1>2, <1>9
    <3> QED BY <3>1, WritableRefs
  <2> QED BY <1>9, <1>12, <2>1 DEF NoNewWriter
<1>15. /\ curenv' \in [CPU -> Env \cup {NoEnv}]
       /\ tlb' \in [CPU -> SUBSET (Pte \X Page \X BOOLEAN)]
       /\ curenv' = curenv /\ tlb' = [tlb EXCEPT ![c] = {}]
  BY ReturnTypes DEF IInv, SysExofork
<1>16. env_parent' \in [Env -> Env \cup {NoEnv}]
  BY DEF SysExofork, IInv, TypeOK
<1>17. TypeOK'
  BY <1>9, <1>15, <1>16 DEF TypeOK
<1> QED BY <1>11, <1>13, <1>14, <1>15, <1>17, SMTT(30) DEF IInv

\* sys_exofork.
LEMMA ExoforkStep ==
    ASSUME IInv, NEW c \in CPU, NEW e \in Env, SysExofork(c, e)
    PROVE  IInv' /\ Spares(NoEnv) /\ NoNewWriter /\ curenv' = curenv
           /\ tlb' = [tlb EXCEPT ![c] = {}]
<1>1. CASE mem.free # {}
  BY <1>1, SetupVmStep, Zenon
<1>2. CASE mem.free = {}
  <2>1. mem' = mem /\ env_parent' = env_parent /\ Return(c, tlb[c])
    BY <1>2, Zenon DEF SysExofork
  <2> QED BY <2>1, NoMemStep, Zenon
<1> QED BY <1>1, <1>2, Zenon

\* env_destroy and env_free.
LEMMA DestroyStep ==
    ASSUME IInv, NEW c \in CPU, NEW e \in Env, EnvDestroy(c, e)
    PROVE  IInv' /\ Spares(e) /\ NoNewWriter
           /\ curenv' \in {curenv, [curenv EXCEPT ![c] = NoEnv]}
           /\ tlb' = [tlb EXCEPT ![c] = {}]
<1>1. mem' = EnvFree(e) /\ MemInv(mem, {}) /\ mem \in Mem
  BY Zenon DEF EnvDestroy, IInv, MemInv
<1>2. /\ MemInv(mem', {})
      /\ \A x \in Name : mem'.ptr[x] = IF x[1] = e THEN NoPage ELSE mem.ptr[x]
      /\ mem'.w = {x \in mem.w : x[1] # e}
  BY <1>1, EnvFreeInv
<1>3. Spares(e)
  BY <1>2, Names DEF Spares
<1>4. NoNewWriter
  BY <1>2, PagesAssumption DEF NoNewWriter, Refs
<1>5. /\ curenv' \in [CPU -> Env \cup {NoEnv}]
      /\ tlb' \in [CPU -> SUBSET (Pte \X Page \X BOOLEAN)]
      /\ curenv' \in {curenv, [curenv EXCEPT ![c] = NoEnv]}
      /\ tlb' = [tlb EXCEPT ![c] = {}]
  <2>1. CASE curenv[c] = e
    BY <2>1 DEF EnvDestroy, IInv, TypeOK, Lcr3
  <2>2. CASE curenv[c] # e
    BY <2>2, ReturnTypes DEF EnvDestroy, IInv
  <2> QED BY <2>1, <2>2
<1>6. env_parent' \in [Env -> Env \cup {NoEnv}]
  BY Zenon DEF EnvDestroy, IInv, TypeOK
<1>7. TypeOK'
  BY <1>2, <1>5, <1>6 DEF TypeOK, MemInv
<1> QED BY <1>2, <1>3, <1>4, <1>5, <1>7, Zenon DEF IInv

-----------------------------------------------------------------------------
\* Memory stays consistent whatever programs do (AnySpec).

LEMMA InitIInv == ASSUME Init PROVE IInv
<1>1. PICK p \in Page :
        mem = [free |-> Page \ {p},
               ref |-> [q \in Page |-> IF q = p THEN 1 ELSE 0],
               ptr |-> [n \in Name |-> IF n = Root(Boot) THEN p ELSE NoPage],
               w |-> {}]
  BY Zenon DEF Init
<1>2. Root(Boot) \in Name \ Pte /\ p # NoPage
  BY Names, PagesAssumption
<1>3. /\ mem \in Mem /\ mem.free = Page \ {p}
      /\ \A q \in Page : mem.ref[q] = IF q = p THEN 1 ELSE 0
      /\ \A n \in Name : mem.ptr[n] = IF n = Root(Boot) THEN p ELSE NoPage
  BY <1>1, PagesAssumption DEF Mem
<1>4. \A q \in Page : Refs(mem, q) = IF q = p THEN {Root(Boot)} ELSE {}
  BY <1>2, <1>3, PagesAssumption DEF Refs
<1>5. Cardinality({Root(Boot)}) = 1 /\ Cardinality({}) = 0
  BY FS_Singleton, FS_EmptySet
<1>6. \A q \in Page : mem.ref[q] = Cardinality(Refs(mem, q))
  BY <1>3, <1>4, <1>5
<1>7. \A q \in Page : q \in mem.free <=> Refs(mem, q) = {} /\ q \notin {}
  BY <1>3, <1>4
<1>8. \A n \in Name \ Pte : mem.ptr[n] # NoPage => Refs(mem, mem.ptr[n]) = {n}
  BY <1>3, <1>4
<1>9. \A n \in Pte : /\ mem.ptr[n] # NoPage => mem.ptr[Table(n)] # NoPage
                     /\ mem.ptr[Table(n)] # NoPage => Alive(mem, n[1])
  BY <1>2, <1>3, Names, PagesAssumption DEF Alive
<1>10. TypeOK
  BY <1>3, Zenon DEF Init, TypeOK
<1> QED BY <1>3, <1>6, <1>7, <1>8, <1>9, <1>10 DEF IInv, MemInv

\* env_run, sched_halt and the MMU leave memory alone.
LEMMA CpuStep ==
    ASSUME IInv, NEW c \in CPU,
           \/ \E e \in Env \cup {NoEnv} : EnvRun(c, e)
           \/ \E n \in Pte : TlbLoad(c, n)
    PROVE  IInv' /\ NoNewWriter
<1>1. mem' = mem /\ env_parent' = env_parent
  BY DEF EnvRun, TlbLoad
<1>2. /\ curenv' \in [CPU -> Env \cup {NoEnv}]
      /\ tlb' \in [CPU -> SUBSET (Pte \X Page \X BOOLEAN)]
  <2>1. CASE \E e \in Env \cup {NoEnv} : EnvRun(c, e)
    BY <2>1, Zenon DEF EnvRun, Lcr3, IInv, TypeOK
  <2>2. ASSUME NEW n \in Pte, TlbLoad(c, n)
        PROVE  /\ curenv' \in [CPU -> Env \cup {NoEnv}]
               /\ tlb' \in [CPU -> SUBSET (Pte \X Page \X BOOLEAN)]
    <3>1. <<n, mem.ptr[n], n \in mem.w>> \in Pte \X Page \X BOOLEAN
      <4>1. mem.ptr[n] \in Page
        BY <2>2, Names DEF TlbLoad, IInv, TypeOK, Mem
      <4>2. (n \in mem.w) \in BOOLEAN
        OBVIOUS
      <4> QED BY <4>1, <4>2, Zenon
    <3>2. tlb[c] \cup {<<n, mem.ptr[n], n \in mem.w>>} \in SUBSET (Pte \X Page \X BOOLEAN)
      BY <3>1 DEF IInv, TypeOK
    <3>3. /\ tlb' = [tlb EXCEPT ![c] = tlb[c] \cup {<<n, mem.ptr[n], n \in mem.w>>}]
          /\ curenv' = curenv
      BY <2>2 DEF TlbLoad, IInv, TypeOK
    <3> QED BY <3>2, <3>3 DEF IInv, TypeOK
  <2> QED BY <2>1, <2>2
<1>3. TypeOK'
  BY <1>1, <1>2 DEF IInv, TypeOK
<1> QED BY <1>1, <1>3, SMTT(30) DEF IInv, MemInv, NoNewWriter, Refs, Alive

\* Every step keeps the invariant and makes no page writable again.
LEMMA AnyNextStep ==
    ASSUME Counted', IInv, [AnyNext]_vars
    PROVE  IInv' /\ NoNewWriter
<1>1. CASE UNCHANGED vars
  BY <1>1, SMTT(30) DEF vars, IInv, TypeOK, MemInv, NoNewWriter, Refs, Alive
<1>2. ASSUME NEW c \in CPU, AnyStep(c) PROVE IInv' /\ NoNewWriter
  <2>1. ASSUME NEW e \in Env, SysExofork(c, e) PROVE IInv' /\ NoNewWriter
    BY <2>1, ExoforkStep
  <2>2. ASSUME NEW e \in Env, EnvDestroy(c, e) PROVE IInv' /\ NoNewWriter
    BY <2>2, DestroyStep
  <2>3. ASSUME NEW n \in Pte, NEW wr \in BOOLEAN, SysPageAlloc(c, n, wr)
        PROVE  IInv' /\ NoNewWriter
    BY <2>3, AllocStep, SMTT(30)
  <2>4. ASSUME NEW s \in Pte, NEW n \in Pte, NEW wr \in BOOLEAN, SysPageMap(c, s, n, wr)
        PROVE  IInv' /\ NoNewWriter
    BY <2>4, MapStep DEF SysPageMap, May
  <2>5. ASSUME NEW s \in Pte, NEW n \in Pte, NEW wr \in BOOLEAN, IpcSendPage(c, s, n, wr)
        PROVE  IInv' /\ NoNewWriter
    BY <2>5, MapStep DEF IpcSendPage
  <2>6. ASSUME NEW n \in Pte, SysPageUnmap(c, n) PROVE IInv' /\ NoNewWriter
    BY <2>6, UnmapStep
  <2> QED BY <1>2, <2>1, <2>2, <2>3, <2>4, <2>5, <2>6, CpuStep DEF AnyStep, LibStep
<1> QED BY <1>1, <1>2, Zenon DEF AnyNext

\* kern/pmap.c and kern/env.c keep memory consistent in every reachable state,
\* as long as pp_ref can count the pointers, whatever system calls programs make.
THEOREM Invariance == AnySpec /\ []Counted => []IInv
<1>1. Init => IInv
  BY InitIInv
<1>2. IInv /\ Counted' /\ [AnyNext]_vars => IInv'
  BY AnyNextStep
<1> QED BY <1>1, <1>2, PTL DEF AnySpec

\* Memory, CPUs and TLBs keep their types.
THEOREM TypeCorrect == AnySpec /\ []Counted => []TypeOK
<1>1. IInv => TypeOK
  BY DEF IInv
<1> QED BY <1>1, Invariance, PTL

\* page_insert, page_remove, pgdir_walk and env_free keep pp_ref equal to the
\* number of pointers to the page.
THEOREM RefCounts == AnySpec /\ []Counted => []RefExact
<1>1. IInv => RefExact
  BY DEF IInv, MemInv, RefExact
<1> QED BY <1>1, Invariance, PTL

\* page_alloc never hands out a page in use, and page_decref and env_free lose none.
THEOREM FreeList == AnySpec /\ []Counted => []FreeExact
<1>1. IInv => FreeExact
  BY DEF IInv, MemInv, FreeExact
<1> QED BY <1>1, Invariance, PTL

\* No page directory or page table is shared or mapped as data by page_insert.
THEOREM PrivateTables == AnySpec /\ []Counted => []TablesPrivate
<1>1. IInv => TablesPrivate
  BY DEF IInv, MemInv, TablesPrivate
<1> QED BY <1>1, Invariance, PTL

\* pgdir_walk and env_free keep every mapping below a table of a live directory.
THEOREM TreeShape == AnySpec /\ []Counted => []TableShape
<1>1. IInv => TableShape
  BY DEF IInv, MemInv, TableShape
<1> QED BY <1>1, Invariance, PTL

\* page_insert, page_remove and page_decref count exactly: pp_ref and the free
\* list agree with the page tables.
THEOREM MemoryAccounted == AnySpec /\ []Counted => []CountsExact
<1>1. RefExact /\ FreeExact => CountsExact
  BY DEF CountsExact
<1> QED BY <1>1, RefCounts, FreeList, PTL

\* The tables of every environment are a tree of its own.
THEOREM TreesSound == AnySpec /\ []Counted => []TablesSound
<1>1. TablesPrivate /\ TableShape => TablesSound
  BY DEF TablesSound
<1> QED BY <1>1, PrivateTables, TreeShape, PTL

\* sys_page_map and sys_ipc_try_send make no read-only page writable.
THEOREM ReadOnlyForever == AnySpec /\ []Counted => ReadOnlyStays
<1>1. IInv /\ Counted' /\ [AnyNext]_vars =>
        [\A p \in Page : Refs(mem, p) # {} /\ Refs(mem, p) \cap mem.w = {}
                        => Refs(mem', p) \cap mem'.w = {}]_vars
  BY AnyNextStep DEF NoNewWriter
<1> QED BY <1>1, Invariance, PTL DEF AnySpec, ReadOnlyStays

-----------------------------------------------------------------------------
\* TLBs, for library programs (Spec).

\* An environment runs on one CPU, and a CPU caches what it runs: the two facts
\* that make a local tlb_invalidate or lcr3 enough.
TlbInv ==
    /\ \A c, d \in CPU : curenv[c] = curenv[d] /\ curenv[c] # NoEnv => c = d
    /\ \A c \in CPU : \A t \in tlb[c] : t[1][1] = curenv[c]
    /\ TlbCoherent

\* A system call on CPU c changes an address space no other CPU runs.
LEMMA TlbKept ==
    ASSUME IInv, TlbInv, NEW c \in CPU, NEW e, Spares(e),
           e = NoEnv \/ Quiet(c, e),
           curenv' \in {curenv, [curenv EXCEPT ![c] = NoEnv]},
           tlb' = [tlb EXCEPT ![c] = {}]
    PROVE  TlbInv'
<1>1. /\ curenv \in [CPU -> Env \cup {NoEnv}]
      /\ tlb \in [CPU -> SUBSET (Pte \X Page \X BOOLEAN)]
  BY DEF IInv, TypeOK
<1>2. tlb'[c] = {} /\ \A d \in CPU \ {c} : tlb'[d] = tlb[d] /\ curenv'[d] = curenv[d]
  BY <1>1
<1>3. curenv'[c] \in {curenv[c], NoEnv}
  BY <1>1
<1>4. \A x, d \in CPU : curenv'[x] = curenv'[d] /\ curenv'[x] # NoEnv => x = d
  BY <1>2, <1>3 DEF TlbInv
<1>5. \A d \in CPU : \A t \in tlb'[d] : t[1][1] = curenv'[d]
  BY <1>2 DEF TlbInv
<1>6. ASSUME NEW d \in CPU, NEW t \in tlb'[d]
      PROVE  mem'.ptr[t[1]] = t[2] /\ (t[3] => t[1] \in mem'.w)
  <2>1. d # c /\ t \in tlb[d]
    BY <1>2, <1>6, SMTT(30)
  <2>2. t[1] \in Pte /\ t[1][1] \in Env /\ t[1][1] = curenv[d]
    BY <1>1, <2>1, Names DEF TlbInv
  <2>3. t[1][1] # e
    BY <2>1, <2>2, PagesAssumption DEF Quiet
  <2>4. mem'.ptr[t[1]] = mem.ptr[t[1]] /\ (t[1] \in mem'.w <=> t[1] \in mem.w)
    BY <2>2, <2>3 DEF Spares
  <2>5. mem.ptr[t[1]] = t[2] /\ (t[3] => t[1] \in mem.w)
    BY <2>1 DEF TlbInv, TlbCoherent
  <2> QED BY <2>4, <2>5
<1> QED BY <1>4, <1>5, <1>6 DEF TlbInv, TlbCoherent

\* env_run and sched_halt reload cr3.
LEMMA RunTlb ==
    ASSUME IInv, TlbInv, NEW c \in CPU, NEW e \in Env \cup {NoEnv}, EnvRun(c, e)
    PROVE  TlbInv'
<1>1. /\ curenv \in [CPU -> Env \cup {NoEnv}]
      /\ tlb \in [CPU -> SUBSET (Pte \X Page \X BOOLEAN)]
  BY DEF IInv, TypeOK
<1>2. /\ tlb'[c] = {} /\ \A d \in CPU \ {c} : tlb'[d] = tlb[d] /\ curenv'[d] = curenv[d]
      /\ curenv'[c] = e /\ mem' = mem
  BY <1>1 DEF EnvRun, Lcr3
<1>3. e # NoEnv => \A d \in CPU : curenv[d] # e
  BY Zenon DEF EnvRun
<1>4. \A x, d \in CPU : curenv'[x] = curenv'[d] /\ curenv'[x] # NoEnv => x = d
  BY <1>2, <1>3, Zenon DEF TlbInv
<1> QED BY <1>2, <1>4 DEF TlbInv, TlbCoherent

\* The MMU caches what the tables say.
LEMMA LoadTlb ==
    ASSUME IInv, TlbInv, NEW c \in CPU, NEW n \in Pte, TlbLoad(c, n)
    PROVE  TlbInv'
<1> DEFINE new == <<n, mem.ptr[n], n \in mem.w>>
<1>1. tlb \in [CPU -> SUBSET (Pte \X Page \X BOOLEAN)]
  BY DEF IInv, TypeOK
<1>2. /\ tlb'[c] = tlb[c] \cup {new} /\ \A d \in CPU \ {c} : tlb'[d] = tlb[d]
      /\ curenv' = curenv /\ mem' = mem /\ curenv[c] = n[1]
  BY <1>1 DEF TlbLoad
<1>3. new[1] = n /\ new[2] = mem.ptr[n] /\ (new[3] => n \in mem.w)
  BY Zenon
<1> HIDE DEF new
<1>4. \A d \in CPU : \A t \in tlb'[d] : (t = new /\ d = c) \/ t \in tlb[d]
  BY <1>2, Zenon
<1>5. \A d \in CPU : \A t \in tlb'[d] : t[1][1] = curenv'[d]
  BY <1>2, <1>3, <1>4, Zenon DEF TlbInv
<1>6. \A d \in CPU : \A t \in tlb'[d] : mem'.ptr[t[1]] = t[2] /\ (t[3] => t[1] \in mem'.w)
  BY <1>2, <1>3, <1>4 DEF TlbInv, TlbCoherent
<1> QED BY <1>2, <1>5, <1>6 DEF TlbInv, TlbCoherent

\* Every step of library programs keeps the TLBs coherent.
LEMMA NextTlb ==
    ASSUME Counted', IInv, TlbInv, [Next]_vars
    PROVE  TlbInv'
<1>1. CASE UNCHANGED vars
  BY <1>1 DEF vars, TlbInv, TlbCoherent
<1>2. ASSUME NEW c \in CPU, LibStep(c) PROVE TlbInv'
  <2>1. ASSUME NEW e \in Env, SysExofork(c, e) PROVE TlbInv'
    BY <2>1, ExoforkStep, TlbKept
  <2>2. ASSUME NEW e \in Env, EnvDestroy(c, e) PROVE TlbInv'
    <3>1. Quiet(c, e)
      BY <2>2 DEF EnvDestroy, Quiet
    <3> QED BY <2>2, <3>1, DestroyStep, TlbKept
  <2>3. ASSUME NEW n \in Pte, NEW wr \in BOOLEAN, Quiet(c, n[1]), SysPageAlloc(c, n, wr)
        PROVE  TlbInv'
    BY <2>3, AllocStep, TlbKept
  <2>4. ASSUME NEW s \in Pte, NEW n \in Pte, NEW wr \in BOOLEAN,
               Quiet(c, n[1]), Alive(mem, n[1]), MapPage(c, s, n, wr)
        PROVE  TlbInv'
    BY <2>4, MapStep, TlbKept, SMTT(30)
  <2>5. ASSUME NEW s \in Pte, NEW n \in Pte, NEW wr \in BOOLEAN,
               Quiet(c, n[1]), SysPageMap(c, s, n, wr)
        PROVE  TlbInv'
    BY <2>4, <2>5 DEF SysPageMap, May
  <2>6. ASSUME NEW s \in Pte, NEW n \in Pte, NEW wr \in BOOLEAN, IpcSendPage(c, s, n, wr)
        PROVE  TlbInv'
    BY <2>4, <2>6 DEF IpcSendPage, Quiet
  <2>7. ASSUME NEW n \in Pte, Quiet(c, n[1]), SysPageUnmap(c, n) PROVE TlbInv'
    BY <2>7, UnmapStep, TlbKept
  <2> QED BY <1>2, <2>1, <2>2, <2>3, <2>5, <2>6, <2>7, RunTlb, LoadTlb DEF LibStep
<1> QED BY <1>1, <1>2, Zenon DEF Next

\* Library programs are programs: what holds for AnySpec holds for Spec.
THEOREM LibraryIsAny == Spec => AnySpec
<1>1. [Next]_vars => [AnyNext]_vars
  BY DEF Next, AnyNext, AnyStep
<1> QED BY <1>1, PTL DEF Spec, AnySpec

\* With programs that change only address spaces no other CPU runs, the local
\* tlb_invalidate and the lcr3 of env_run keep every TLB true to the tables.
THEOREM TlbsCorrect == Spec /\ []Counted => []TlbCoherent
<1>1. Init => TlbInv
  BY PagesAssumption DEF Init, TlbInv, TlbCoherent
<1>2. IInv /\ Counted' /\ TlbInv /\ [Next]_vars => TlbInv'
  BY NextTlb
<1>3. TlbInv => TlbCoherent
  BY DEF TlbInv
<1> QED BY <1>1, <1>2, <1>3, Invariance, LibraryIsAny, PTL DEF Spec
=============================================================================
