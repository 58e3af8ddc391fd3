--------------------------- MODULE CowForkProofs ---------------------------
(***************************************************************************)
(* Proof that fork isolates programs, for any number of programs, pages    *)
(* and virtual pages.                                                      *)
(***************************************************************************)
EXTENDS CowForkInv

(***************************************************************************)
(* Stores, the fault handler, the end of a program.                        *)
(***************************************************************************)
\* A fresh page at PFTEMP is nobody else's.
LEMMA pgfault_allocInv ==
    ASSUME IInv, NEW e \in Env, pgfault_alloc(e)
    PROVE  IInv'
<1>1. CASE FreePages = {} /\ Panic(e) /\ UNCHANGED <<pftemp, fault>>
  <2>1. status[e] = "runs" /\ status' = [status EXCEPT ![e] = "panicked"]
        /\ UNCHANGED <<pte, pftemp, content, fault, forking, view>>
    BY <1>1, Zenon DEF pgfault_alloc, InFault, Panic
  <2>2. TypeOK' /\ FaultSteps' /\ ForkSteps' /\ OneParent' /\ FreeIsEmpty'
    BY <2>1 DEF IInv, TypeOK, FaultSteps, ForkSteps, OneParent, FreeIsEmpty, Held
  <2>3. TempAlone' /\ ShareAlike' /\ WritableOnce'
    BY <2>1 DEF IInv, TempAlone, ShareAlike, WritableOnce, HalfShared
  <2>4. Seen'
    <3> SUFFICES ASSUME NEW d \in Env, NEW w \in VPage, Settled(d, w)' PROVE (Held(d, w) = view[d][w])'
      BY DEF Seen
    <3>1. status[d] = "embryo" => status'[d] = "embryo"
      BY <2>1 DEF IInv, TypeOK
    <3>2. Settled(d, w)
      BY <2>1, <3>1 DEF Settled, HalfShared
    <3> QED  BY <2>1, <3>2 DEF IInv, Seen, Held
  <2> QED  BY <2>2, <2>3, <2>4 DEF IInv
<1>2. CASE (\E p \in FreePages : pftemp' = [pftemp EXCEPT ![e] = p]) /\ FaultGoes(e, "copy") /\ UNCHANGED status
  <2> DEFINE f == [step |-> "copy", va |-> fault[e].va, value |-> fault[e].value]
  <2>1. PICK p \in FreePages : pftemp' = [pftemp EXCEPT ![e] = p]
    BY <1>2, Zenon
  <2>2. /\ p \in Page /\ p # NoPage
        /\ \A d \in Env : pftemp[d] # p
        /\ \A d \in Env, w \in VPage : pte[d][w].page # p
    BY <2>1, ForkAssumption DEF FreePages, Used
  <2>3. /\ status[e] = "runs" /\ fault[e].step = "alloc" /\ fault' = [fault EXCEPT ![e] = f]
        /\ UNCHANGED <<status, pte, content, forking, view>>
    BY <1>2 DEF pgfault_alloc, InFault, FaultGoes
  <2>4. \A d \in Env : /\ fault'[d] = IF d = e THEN f ELSE fault[d]
                       /\ pftemp'[d] = IF d = e THEN p ELSE pftemp[d]
    BY <2>1, <2>3 DEF IInv, TypeOK
  <2>5. f \in [step : {"copy"}, va : VPage, value : Value]
    BY DEF IInv, TypeOK
  <2>6. f.step = "copy" /\ f.va = fault[e].va
    OBVIOUS
  <2> HIDE DEF f
  <2>7. TypeOK'
    BY <2>1, <2>2, <2>3, <2>5, Zenon DEF IInv, TypeOK
  <2>8. FaultSteps'
    BY <2>2, <2>3, <2>4, <2>6 DEF IInv, FaultSteps, Held
  <2>9. TempAlone'
    BY <2>2, <2>3, <2>4 DEF IInv, TempAlone
  <2>10. ForkSteps' /\ OneParent' /\ FreeIsEmpty' /\ ShareAlike' /\ WritableOnce'
    BY <2>3 DEF IInv, ForkSteps, OneParent, FreeIsEmpty, ShareAlike, WritableOnce, HalfShared
  <2>11. Seen'
    BY <2>3 DEF IInv, Seen, Settled, HalfShared, Held
  <2> QED  BY <2>7, <2>8, <2>9, <2>10, <2>11 DEF IInv
<1> QED  BY <1>1, <1>2 DEF pgfault_alloc

\* A store goes to a page that nobody else has, or that everybody who has it
\* shares.
LEMMA StoredSeen ==
    ASSUME IInv, NEW e \in Env, NEW v \in VPage, NEW x \in Value,
           pte[e][v].perm \in {"W", "SHARE"}, Stored(e, v, x), UNCHANGED <<status, pte, forking>>
    PROVE  Seen' /\ content' \in [Page -> Value] /\ view' \in [Env -> [VPage -> Value]]
<1> DEFINE q == pte[e][v].page
<1>1. q \in Page
  BY DEF IInv, TypeOK, Pte, Unmapped
<1>2. content' \in [Page -> Value] /\ \A p \in Page : content'[p] = IF p = q THEN x ELSE content[p]
  BY <1>1 DEF Stored, IInv, TypeOK
<1>3. view' \in [Env -> [VPage -> Value]]
  BY DEF Stored, IInv, TypeOK
<1>4. \A d \in Env, w \in VPage :
        view'[d][w] = IF w = v /\ (d = e \/ (pte[e][v].perm = "SHARE" /\ pte[d][v] = pte[e][v]))
                      THEN x ELSE view[d][w]
  BY DEF Stored, IInv, TypeOK
<1>5. Seen'
  <2> SUFFICES ASSUME NEW d \in Env, NEW w \in VPage, Settled(d, w)' PROVE (Held(d, w) = view[d][w])'
    BY DEF Seen
  <2>1. Settled(d, w)
    BY DEF Settled, HalfShared
  <2>2. pte[d][w].page \in Page
    BY <2>1, ForkAssumption DEF Settled, IInv, TypeOK, Pte
  <2>3. (Held(d, w))' = content'[pte[d][w].page]
    BY DEF Held
  <2>4. CASE pte[d][w].page = q
    <3>1. CASE pte[e][v].perm = "W"
      <4>1. d = e /\ w = v
        BY <2>1, <2>4, <3>1 DEF IInv, WritableOnce, Settled
      <4> QED  BY <4>1, <1>1, <1>2, <1>4, <2>3
    <3>2. CASE pte[e][v].perm = "SHARE"
      <4>1. w = v /\ pte[d][w] = pte[e][v]
        BY <2>4, <3>2 DEF IInv, ShareAlike
      <4> QED  BY <4>1, <3>2, <1>1, <1>2, <1>4, <2>3
    <3> QED  BY <3>1, <3>2
  <2>5. CASE pte[d][w].page # q
    <3>1. view'[d][w] = view[d][w]
      BY <2>5, <1>4
    <3> QED  BY <2>1, <2>2, <2>3, <2>5, <3>1, <1>2 DEF IInv, Seen, Held
  <2> QED  BY <2>4, <2>5
<1> QED  BY <1>2, <1>3, <1>5

\* A store does not change what a fault handler is copying, nor its copy.
LEMMA StoredFault ==
    ASSUME IInv, NEW e \in Env, NEW v \in VPage, NEW x \in Value,
           pte[e][v].perm \in {"W", "SHARE"}, Stored(e, v, x)
    PROVE  \A d \in Env : d # e /\ fault[d].step = "map" => content'[pftemp[d]] = content'[pte[d][fault[d].va].page]
<1> DEFINE q == pte[e][v].page
<1> SUFFICES ASSUME NEW d \in Env, d # e, fault[d].step = "map"
             PROVE  content'[pftemp[d]] = content'[pte[d][fault[d].va].page]
  OBVIOUS
<1>1. q \in Page
  BY DEF IInv, TypeOK, Pte, Unmapped
<1>2. \A p \in Page : content'[p] = IF p = q THEN x ELSE content[p]
  BY <1>1 DEF Stored, IInv, TypeOK
<1>3. /\ fault[d].va \in VPage /\ pte[d][fault[d].va].perm = "COW" /\ pftemp[d] # NoPage /\ status[d] # "embryo"
      /\ content[pftemp[d]] = content[pte[d][fault[d].va].page]
  BY Zenon DEF IInv, TypeOK, FaultSteps, Held
<1>4. pftemp[d] \in Page /\ pte[d][fault[d].va].page \in Page
  BY <1>3 DEF IInv, TypeOK, Pte, Unmapped
<1>5. pftemp[d] # q
  BY <1>3 DEF IInv, TempAlone
<1>6. pte[d][fault[d].va].page # q
  <2>1. CASE pte[e][v].perm = "W"
    <3> SUFFICES ASSUME pte[d][fault[d].va].page = q PROVE FALSE
      OBVIOUS
    <3>1. HalfShared(e, d, v)
      BY <1>3, <2>1 DEF IInv, WritableOnce
    <3>2. forking[e].step = "cow_self" /\ forking[e].child = d
      BY <3>1 DEF HalfShared
    <3> QED  BY <1>3, <3>2 DEF IInv, ForkSteps
  <2>2. CASE pte[e][v].perm = "SHARE"
    <3>1. pte[d][fault[d].va].page = q => pte[d][fault[d].va] = pte[e][v]
      BY <1>3, <2>2 DEF IInv, ShareAlike
    <3> QED  BY <1>3, <2>2, <3>1
  <2> QED  BY <2>1, <2>2
<1> QED  BY <1>2, <1>3, <1>4, <1>5, <1>6

\* A store without a fault.
LEMMA StoreInv ==
    ASSUME IInv, NEW e \in Env, NEW v \in VPage, NEW x \in Value, Store(e, v, x)
    PROVE  IInv'
<1>0. Seen' /\ content' \in [Page -> Value] /\ view' \in [Env -> [VPage -> Value]]
  BY StoredSeen DEF Store
<1>1. TypeOK'
  BY <1>0, ForkAssumption, Zenon DEF IInv, TypeOK, Store, MayStore, NoFault, NoFork, Unmapped, VPage
<1>2. FaultSteps'
  <2>1. /\ UNCHANGED <<status, pte, pftemp, fault>> /\ fault[e].step # "map"
        /\ pte[e][v].perm \in {"W", "SHARE"} /\ Stored(e, v, x)
    BY DEF Store, MayStore, NoFault
  <2>2. \A d \in Env : fault[d].step = "map" => content'[pftemp[d]] = content'[pte[d][fault[d].va].page]
    BY <2>1, StoredFault
  <2> SUFFICES ASSUME NEW d \in Env PROVE FaultSteps!(d)'
    BY DEF FaultSteps
  <2>3. FaultSteps!(d)
    BY Zenon DEF IInv, FaultSteps
  <2> QED  BY <2>1, <2>2, <2>3 DEF Held
<1>3. ForkSteps'
  <2>1. UNCHANGED <<status, pte, forking>>
    BY DEF Store
  <2> QED  BY <2>1 DEF IInv, ForkSteps
<1>4. OneParent'
  <2>1. UNCHANGED forking
    BY DEF Store
  <2> QED  BY <2>1 DEF IInv, OneParent
<1>5. FreeIsEmpty'
  <2>1. UNCHANGED <<status, pte>>
    BY DEF Store
  <2> QED  BY <2>1 DEF IInv, FreeIsEmpty
<1>6. TempAlone'
  <2>1. UNCHANGED <<pte, pftemp, fault>>
    BY DEF Store
  <2> QED  BY <2>1 DEF IInv, TempAlone
<1>7. ShareAlike'
  <2>1. UNCHANGED pte
    BY DEF Store
  <2> QED  BY <2>1 DEF IInv, ShareAlike
<1>8. WritableOnce'
  <2>1. UNCHANGED <<pte, forking>>
    BY DEF Store
  <2> QED  BY <2>1 DEF IInv, WritableOnce, HalfShared
<1>9. Seen'
  BY <1>0
<1> QED  BY <1>1, <1>2, <1>3, <1>4, <1>5, <1>6, <1>7, <1>8, <1>9 DEF IInv

\* A store that faults.
LEMMA StoreFaultsInv ==
    ASSUME IInv, NEW e \in Env, NEW v \in VPage, NEW x \in Value, StoreFaults(e, v, x)
    PROVE  IInv'
<1> DEFINE f == [step |-> "alloc", va |-> v, value |-> x]
<1>0. /\ status[e] = "runs" /\ fault[e].step = "none" /\ pte[e][v].perm = "COW" /\ pftemp[e] = NoPage
      /\ fault' = [fault EXCEPT ![e] = f] /\ UNCHANGED <<status, pte, pftemp, content, forking, view>>
  BY DEF IInv, FaultSteps, StoreFaults, MayStore, NoFault
<1>a. \A d \in Env : fault'[d] = IF d = e THEN f ELSE fault[d]
  BY <1>0 DEF IInv, TypeOK
<1>1. TypeOK'
  <2>1. f \in [step : {"alloc"}, va : VPage, value : Value]
    OBVIOUS
  <2> HIDE DEF f
  <2>2. fault' \in [Env -> [step : {"none", "alloc", "copy", "map", "unmap", "retry"}, va : VPage, value : Value]]
    BY <2>1, <1>0, Zenon DEF IInv, TypeOK
  <2> QED  BY <1>0, <2>2 DEF IInv, TypeOK
<1>2. FaultSteps'
  <2> SUFFICES ASSUME NEW d \in Env PROVE FaultSteps!(d)'
    BY DEF FaultSteps
  <2>1. CASE d = e
    BY <2>1, <1>0, <1>a, SMTT(30)
  <2>2. CASE d # e
    <3>1. FaultSteps!(d)
      BY DEF IInv, FaultSteps
    <3> QED  BY <2>2, <3>1, <1>0, <1>a DEF Held
  <2> QED  BY <2>1, <2>2
<1>3. ForkSteps'
  <2>1. UNCHANGED <<status, pte, forking>>
    BY DEF StoreFaults
  <2> QED  BY <2>1 DEF IInv, ForkSteps
<1>4. OneParent'
  <2>1. UNCHANGED forking
    BY DEF StoreFaults
  <2> QED  BY <2>1 DEF IInv, OneParent
<1>5. FreeIsEmpty'
  <2>1. UNCHANGED <<status, pte>>
    BY DEF StoreFaults
  <2> QED  BY <2>1 DEF IInv, FreeIsEmpty
<1>6. TempAlone'
  BY <1>0, <1>a DEF IInv, TempAlone
<1>7. ShareAlike'
  <2>1. pte' = pte
    BY DEF StoreFaults
  <2> QED  BY <2>1 DEF IInv, ShareAlike
<1>8. WritableOnce'
  <2>1. UNCHANGED <<pte, forking>>
    BY DEF StoreFaults
  <2> QED  BY <2>1 DEF IInv, WritableOnce, HalfShared
<1>9. Seen'
  <2>1. UNCHANGED <<pte, content, view, status, forking>>
    BY DEF StoreFaults
  <2> QED  BY <2>1 DEF IInv, Seen, Settled, HalfShared, Held
<1> QED  BY <1>1, <1>2, <1>3, <1>4, <1>5, <1>6, <1>7, <1>8, <1>9 DEF IInv

\* The copy changes the page at PFTEMP only.
LEMMA pgfault_copyInv ==
    ASSUME IInv, NEW e \in Env, pgfault_copy(e)
    PROVE  IInv'
<1>1. TypeOK'
  <2>1. fault[e].va \in VPage /\ fault[e].step = "copy" /\ pte[e][fault[e].va].perm = "COW"
    BY DEF IInv, TypeOK, FaultSteps, pgfault_copy, InFault
  <2>2. Held(e, fault[e].va) \in Value
    BY <2>1 DEF IInv, TypeOK, Pte, Unmapped, Held
  <2>3. content' \in [Page -> Value]
    BY <2>2, ZenonT(40) DEF IInv, TypeOK, pgfault_copy
  <2>4. fault' \in [Env -> [step : {"none", "alloc", "copy", "map", "unmap", "retry"}, va : VPage, value : Value]]
    BY <2>1, Zenon DEF IInv, TypeOK, pgfault_copy, FaultGoes
  <2> QED  BY <2>3, <2>4 DEF IInv, TypeOK, pgfault_copy
<1>2. FaultSteps'
  <2> DEFINE v == fault[e].va  t == pftemp[e]
  <2>1. /\ status[e] = "runs" /\ v \in VPage /\ pte[e][v].perm = "COW" /\ t \in Page /\ t # NoPage
        /\ UNCHANGED <<status, pte, pftemp>>
    BY DEF IInv, TypeOK, FaultSteps, pgfault_copy, InFault
  <2>2. \A d \in Env, w \in VPage : pte[d][w].page = t => d = e /\ w = v /\ fault[e].step = "unmap"
    BY <2>1, Zenon DEF IInv, TempAlone
  <2>3. fault[e].step = "copy"
    BY DEF pgfault_copy, InFault
  <2>4. \A d \in Env, w \in VPage : pte[d][w].page # t
    BY <2>2, <2>3
  <2>5. \A p \in Page : content'[p] = IF p = t THEN Held(e, v) ELSE content[p]
    BY <2>1 DEF IInv, TypeOK, pgfault_copy
  <2>6. \A d \in Env : fault'[d] = IF d = e THEN [step |-> "map", va |-> v, value |-> fault[e].value] ELSE fault[d]
    BY DEF IInv, TypeOK, pgfault_copy, FaultGoes
  <2>7. \A d \in Env : fault[d].step = "map" => /\ fault[d].va \in VPage /\ pftemp[d] \in Page /\ pftemp[d] # NoPage
                                             /\ pte[d][fault[d].va].page \in Page
    BY DEF IInv, TypeOK, FaultSteps, Pte, Unmapped
  <2>8. \A d \in Env : d # e /\ pftemp[d] # NoPage => pftemp[d] # t
    BY <2>1 DEF IInv, TempAlone
  <2>9. pte[e][v].page \in Page
    BY <2>1 DEF IInv, TypeOK, Pte, Unmapped
  <2>10. \A d \in Env : fault'[d].step = "map" => content'[pftemp[d]] = content'[pte[d][fault'[d].va].page]
    <3> SUFFICES ASSUME NEW d \in Env, fault'[d].step = "map" PROVE content'[pftemp[d]] = content'[pte[d][fault'[d].va].page]
      OBVIOUS
    <3>1. CASE d = e
      BY <3>1, <2>1, <2>4, <2>5, <2>6, <2>9, SMTT(30) DEF Held
    <3>2. CASE d # e
      BY <3>2, <2>4, <2>5, <2>6, <2>7, <2>8 DEF IInv, FaultSteps, Held
    <3> QED  BY <3>1, <3>2
  <2> SUFFICES ASSUME NEW d \in Env PROVE FaultSteps!(d)'
    BY Zenon DEF FaultSteps
  <2>11. CASE d = e
    <3>1. fault'[e].step = "map" /\ fault'[e].va = v
      BY <2>6
    <3>2. content'[pftemp[e]] = content'[pte[e][v].page]
      BY <3>1, <2>10, Zenon
    <3> QED  BY <2>11, <3>1, <3>2, <2>1 DEF Held
  <2>12. CASE d # e
    BY <2>12, <2>1, <2>6, <2>10, SMTT(30) DEF IInv, FaultSteps, Held
  <2> QED  BY <2>11, <2>12
<1>3. ForkSteps'
  <2>1. UNCHANGED <<status, pte, forking>>
    BY DEF pgfault_copy
  <2> QED  BY <2>1 DEF IInv, ForkSteps
<1>4. OneParent'
  <2>1. UNCHANGED forking
    BY DEF pgfault_copy
  <2> QED  BY <2>1 DEF IInv, OneParent
<1>5. FreeIsEmpty'
  <2>1. UNCHANGED <<status, pte>>
    BY DEF pgfault_copy
  <2> QED  BY <2>1 DEF IInv, FreeIsEmpty
<1>6. TempAlone'
  <2>1. fault[e].step = "copy" /\ UNCHANGED <<pte, pftemp>>
    BY DEF pgfault_copy, InFault
  <2>2. \A d \in Env : d # e => fault'[d] = fault[d]
    BY DEF IInv, TypeOK, pgfault_copy, FaultGoes
  <2> QED  BY <2>1, <2>2 DEF IInv, TempAlone
<1>7. ShareAlike'
  <2>1. UNCHANGED pte
    BY DEF pgfault_copy
  <2> QED  BY <2>1 DEF IInv, ShareAlike
<1>8. WritableOnce'
  <2>1. UNCHANGED <<pte, forking>>
    BY Zenon DEF pgfault_copy
  <2> QED  BY <2>1 DEF IInv, WritableOnce, HalfShared
<1>9. Seen'
  <2> DEFINE p == pftemp[e]
  <2>1. /\ fault[e].step = "copy" /\ content' = [content EXCEPT ![p] = Held(e, fault[e].va)]
        /\ UNCHANGED <<status, pte, forking, view>>
    BY DEF pgfault_copy, InFault
  <2>2. p # NoPage
    BY <2>1, SMTT(30) DEF IInv, FaultSteps
  <2> SUFFICES ASSUME NEW d \in Env, NEW w \in VPage, Settled(d, w)' PROVE (Held(d, w) = view[d][w])'
    BY DEF Seen
  <2>3. Settled(d, w)
    BY <2>1 DEF Settled, HalfShared
  <2>4. pte[d][w].page \in Page
    BY <2>3, ForkAssumption DEF Settled, IInv, TypeOK, Pte
  <2>5. pte[d][w].page # p
    BY <2>1, <2>2 DEF IInv, TempAlone
  <2>6. content'[pte[d][w].page] = content[pte[d][w].page]
    BY <2>1, <2>4, <2>5 DEF IInv, TypeOK
  <2> QED  BY <2>1, <2>3, <2>6 DEF IInv, Seen, Held
<1> QED  BY <1>1, <1>2, <1>3, <1>4, <1>5, <1>6, <1>7, <1>8, <1>9 DEF IInv

\* The copy takes the place of the page it was made from.
LEMMA pgfault_mapInv ==
    ASSUME IInv, NEW e \in Env, pgfault_map(e)
    PROVE  IInv'
<1> DEFINE v == fault[e].va  p == pftemp[e]  q == [page |-> p, perm |-> "W"]
           f == [step |-> "unmap", va |-> v, value |-> fault[e].value]
<1>1. /\ status[e] = "runs" /\ fault[e].step = "map" /\ pte' = [pte EXCEPT ![e][v] = q]
      /\ fault' = [fault EXCEPT ![e] = f] /\ UNCHANGED <<status, pftemp, content, forking, view>>
  BY DEF pgfault_map, InFault, FaultGoes
<1>2. v \in VPage /\ fault[e].value \in Value /\ pte[e][v].perm = "COW" /\ p \in Page /\ p # NoPage
      /\ content[p] = Held(e, v)
  BY <1>1 DEF IInv, TypeOK, FaultSteps
<1>3. \A d \in Env, w \in VPage : pte'[d][w] = IF d = e /\ w = v THEN q ELSE pte[d][w]
  BY <1>1, <1>2 DEF IInv, TypeOK
<1>4. \A d \in Env : fault'[d] = IF d = e THEN f ELSE fault[d]
  BY <1>1 DEF IInv, TypeOK
<1>5. \A d \in Env, w \in VPage : pte[d][w].page # p
  BY <1>1, <1>2 DEF IInv, TempAlone
<1>6. \A d \in Env : d # e => fault[d].va \in VPage /\ (pftemp[d] # NoPage => pftemp[d] # p)
  BY <1>2 DEF IInv, TypeOK, TempAlone
<1>7. TypeOK'
  <2>1. q \in Pte /\ f \in [step : {"unmap"}, va : VPage, value : Value]
    BY <1>2 DEF Pte, Perm
  <2> HIDE DEF q, f
  <2>2. pte' \in [Env -> [VPage -> Pte]]
    BY <2>1, <1>1, <1>2 DEF IInv, TypeOK
  <2>3. fault' \in [Env -> [step : {"none", "alloc", "copy", "map", "unmap", "retry"}, va : VPage, value : Value]]
    BY <2>1, <1>1 DEF IInv, TypeOK
  <2> QED  BY <2>2, <2>3, <1>1 DEF IInv, TypeOK
<1>8. FaultSteps'
  <2> SUFFICES ASSUME NEW d \in Env PROVE FaultSteps!(d)'
    BY DEF FaultSteps
  <2>1. CASE d = e
    BY <2>1, <1>1, <1>2, <1>3, <1>4, SMTT(30)
  <2>2. CASE d # e
    <3>1. FaultSteps!(d)
      BY DEF IInv, FaultSteps
    <3>2. pte'[d][fault[d].va] = pte[d][fault[d].va] /\ fault'[d] = fault[d]
      BY <2>2, <1>3, <1>4, <1>6, Zenon
    <3> QED  BY <3>1, <3>2, <1>1, Zenon DEF Held
  <2> QED  BY <2>1, <2>2
<1>9. ForkSteps'
  <2> SUFFICES ASSUME NEW d \in Env PROVE ForkSteps!(d)'
    BY DEF ForkSteps
  <2>1. ForkSteps!(d)
    BY DEF IInv, ForkSteps
  <2>2. \A x \in Env, w \in VPage :
          /\ pte'[x][w].perm = "COW" => pte[x][w].perm = "COW"
          /\ x # e \/ pte[x][w].perm # "COW" => pte'[x][w] = pte[x][w]
          /\ pte[x][w].perm = "COW" => pte'[x][w].perm \in {"COW", "W"}
    BY <1>2, <1>3
  <2>3. forking[d].step # "none" => forking[d].child # e
    BY <2>1, <1>1, Zenon
  <2> DEFINE k == forking[d]
  <2>4. /\ k.step = "share" => pte'[d][k.va].perm = "SHARE"
        /\ k.step = "ro" => pte'[d][k.va].perm = "RO"
        /\ k.step \in {"cow_child", "cow_self"} => pte'[d][k.va].perm \in {"COW", "W"}
    BY <2>1, <2>2, SMTT(30)
  <2>5. k.step = "cow_self" => pte'[k.child][k.va].perm = "COW"
    BY <2>1, <2>2, <2>3
  <2> QED  BY <2>1, <2>4, <2>5, <1>1, Zenon
<1>10. OneParent'
  BY <1>1 DEF IInv, OneParent
<1>11. FreeIsEmpty'
  BY <1>1, <1>3 DEF IInv, FreeIsEmpty
<1>12. TempAlone'
  <2> SUFFICES ASSUME NEW a \in Env, NEW b \in Env, pftemp[a] # NoPage
               PROVE  /\ pftemp[b] = pftemp[a] => b = a
                      /\ \A w \in VPage : pte'[b][w].page = pftemp[a]
                                          => b = a /\ w = fault'[a].va /\ fault'[a].step = "unmap"
    BY <1>1, SMTT(30) DEF TempAlone
  <2>1. CASE a = e
    BY <2>1, <1>2, <1>3, <1>4, <1>5, SMTT(30) DEF IInv, TempAlone
  <2>2. CASE a # e
    BY <2>2, <1>3, <1>4, <1>6, SMTT(30) DEF IInv, TempAlone
  <2> QED  BY <2>1, <2>2
<1>13. ShareAlike'
  BY <1>3, <1>5 DEF IInv, ShareAlike
<1>14. WritableOnce'
  <2> SUFFICES ASSUME NEW a \in Env, NEW b \in Env, NEW x \in VPage, NEW w \in VPage,
                      pte'[a][x].perm = "W", pte'[b][w].page = pte'[a][x].page
               PROVE  (b = a /\ w = x) \/ (w = x /\ HalfShared(a, b, x))
    BY <1>1, SMTT(30) DEF WritableOnce, HalfShared
  <2>1. CASE a = e /\ x = v
    BY <2>1, <1>3, <1>5
  <2>2. CASE ~(a = e /\ x = v)
    BY <2>2, <1>3, <1>5 DEF IInv, WritableOnce
  <2> QED  BY <2>1, <2>2
<1>15. Seen'
  <2> SUFFICES ASSUME NEW d \in Env, NEW w \in VPage, Settled(d, w)' PROVE (Held(d, w) = view[d][w])'
    BY DEF Seen
  <2>1. pte[d][w] # Unmapped
    BY <1>2, <1>3 DEF Settled, Unmapped
  <2>2. Settled(d, w)
    BY <2>1, <1>1, Zenon DEF Settled, HalfShared
  <2>3. (Held(d, w))' = Held(d, w)
    BY <1>1, <1>2, <1>3 DEF Held
  <2> QED  BY <2>2, <2>3, <1>1 DEF IInv, Seen
<1> QED  BY <1>7, <1>8, <1>9, <1>10, <1>11, <1>12, <1>13, <1>14, <1>15 DEF IInv

\* PFTEMP is given up.
LEMMA pgfault_unmapInv ==
    ASSUME IInv, NEW e \in Env, pgfault_unmap(e)
    PROVE  IInv'
<1> DEFINE f == [step |-> "retry", va |-> fault[e].va, value |-> fault[e].value]
<1>0. /\ status[e] = "runs" /\ fault[e].step = "unmap" /\ pftemp' = [pftemp EXCEPT ![e] = NoPage]
      /\ fault' = [fault EXCEPT ![e] = f] /\ UNCHANGED <<status, pte, content, forking, view>>
  BY DEF pgfault_unmap, InFault, FaultGoes
<1>a. \A d \in Env : fault'[d] = (IF d = e THEN f ELSE fault[d]) /\ pftemp'[d] = (IF d = e THEN NoPage ELSE pftemp[d])
  BY <1>0 DEF IInv, TypeOK
<1>1. TypeOK'
  <2>1. f \in [step : {"retry"}, va : VPage, value : Value]
    BY DEF IInv, TypeOK
  <2> HIDE DEF f
  <2>2. fault' \in [Env -> [step : {"none", "alloc", "copy", "map", "unmap", "retry"}, va : VPage, value : Value]]
    BY <2>1, <1>0 DEF IInv, TypeOK
  <2> QED  BY <1>0, <2>2 DEF IInv, TypeOK
<1>2. FaultSteps'
  <2> SUFFICES ASSUME NEW d \in Env PROVE FaultSteps!(d)'
    BY DEF FaultSteps
  <2>1. FaultSteps!(d)
    BY DEF IInv, FaultSteps
  <2>2. CASE d = e
    BY <2>1, <2>2, <1>0, <1>a, SMTT(30)
  <2>3. CASE d # e
    BY <2>1, <2>3, <1>0, <1>a DEF Held
  <2> QED  BY <2>2, <2>3
<1>3. ForkSteps'
  <2>1. UNCHANGED <<status, pte, forking>>
    BY DEF pgfault_unmap
  <2> QED  BY <2>1 DEF IInv, ForkSteps
<1>4. OneParent'
  <2>1. UNCHANGED forking
    BY DEF pgfault_unmap
  <2> QED  BY <2>1 DEF IInv, OneParent
<1>5. FreeIsEmpty'
  <2>1. UNCHANGED <<status, pte>>
    BY DEF pgfault_unmap
  <2> QED  BY <2>1 DEF IInv, FreeIsEmpty
<1>6. TempAlone'
  BY <1>0, <1>a DEF IInv, TempAlone
<1>7. ShareAlike'
  <2>1. UNCHANGED pte
    BY DEF pgfault_unmap
  <2> QED  BY <2>1 DEF IInv, ShareAlike
<1>8. WritableOnce'
  <2>1. UNCHANGED <<pte, forking>>
    BY DEF pgfault_unmap
  <2> QED  BY <2>1 DEF IInv, WritableOnce, HalfShared
<1>9. Seen'
  <2>1. UNCHANGED <<pte, content, view, status, forking>>
    BY SMTT(30) DEF pgfault_unmap
  <2> QED  BY <2>1 DEF IInv, Seen, Settled, HalfShared, Held
<1> QED  BY <1>1, <1>2, <1>3, <1>4, <1>5, <1>6, <1>7, <1>8, <1>9 DEF IInv

\* The store that had faulted.
LEMMA RetryInv ==
    ASSUME IInv, NEW e \in Env, Retry(e)
    PROVE  IInv'
<1>0. Seen' /\ content' \in [Page -> Value] /\ view' \in [Env -> [VPage -> Value]]
  <2>1. fault[e].va \in VPage /\ fault[e].value \in Value /\ pte[e][fault[e].va].perm = "W"
    BY DEF IInv, TypeOK, FaultSteps, Retry, InFault
  <2> QED  BY <2>1, StoredSeen DEF Retry
<1>1. TypeOK'
  <2>1. NoFault \in [step : {"none"}, va : VPage, value : Value]
    BY ForkAssumption DEF NoFault, VPage
  <2>2. fault' \in [Env -> [step : {"none", "alloc", "copy", "map", "unmap", "retry"}, va : VPage, value : Value]]
    BY <2>1 DEF IInv, TypeOK, Retry
  <2> QED  BY <1>0, <2>2 DEF IInv, TypeOK, Retry
<1>2. FaultSteps'
  <2>1. fault[e].va \in VPage /\ fault[e].value \in Value /\ pte[e][fault[e].va].perm = "W" /\ pftemp[e] = NoPage
    BY Zenon DEF IInv, TypeOK, FaultSteps, Retry, InFault
  <2>2. \A d \in Env : d # e /\ fault[d].step = "map" => content'[pftemp[d]] = content'[pte[d][fault[d].va].page]
    BY <2>1, StoredFault DEF Retry
  <2>3. UNCHANGED <<status, pte, pftemp>>
    BY DEF Retry
  <2>4. fault'[e] = NoFault /\ NoFault.step = "none" /\ \A d \in Env : d # e => fault'[d] = fault[d]
    BY Zenon DEF IInv, TypeOK, Retry, NoFault
  <2> SUFFICES ASSUME NEW d \in Env PROVE FaultSteps!(d)'
    BY DEF FaultSteps
  <2>5. CASE d = e
    BY <2>1, <2>3, <2>4, <2>5, Zenon
  <2>6. CASE d # e
    <3>1. FaultSteps!(d)
      BY DEF IInv, FaultSteps
    <3> QED  BY <2>2, <2>3, <2>4, <2>6, <3>1, Zenon DEF Held
  <2> QED  BY <2>5, <2>6
<1>3. ForkSteps'
  <2>1. UNCHANGED <<status, pte, forking>>
    BY DEF Retry
  <2> QED  BY <2>1 DEF IInv, ForkSteps
<1>4. OneParent'
  <2>1. UNCHANGED forking
    BY DEF Retry
  <2> QED  BY <2>1 DEF IInv, OneParent
<1>5. FreeIsEmpty'
  <2>1. UNCHANGED <<status, pte>>
    BY DEF Retry
  <2> QED  BY <2>1 DEF IInv, FreeIsEmpty
<1>6. TempAlone'
  <2>1. fault[e].step = "retry" /\ UNCHANGED <<pte, pftemp>>
    BY DEF Retry, InFault
  <2>2. pftemp[e] = NoPage /\ \A d \in Env : d # e => fault'[d] = fault[d]
    BY <2>1, Zenon DEF IInv, TypeOK, FaultSteps, Retry
  <2> QED  BY <2>1, <2>2 DEF IInv, TempAlone
<1>7. ShareAlike'
  <2>1. UNCHANGED pte
    BY DEF Retry
  <2> QED  BY <2>1 DEF IInv, ShareAlike
<1>8. WritableOnce'
  <2>1. UNCHANGED <<pte, forking>>
    BY DEF Retry
  <2> QED  BY <2>1 DEF IInv, WritableOnce, HalfShared
<1>9. Seen'
  BY <1>0
<1> QED  BY <1>1, <1>2, <1>3, <1>4, <1>5, <1>6, <1>7, <1>8, <1>9 DEF IInv

\* A panic in fork stops the program and changes nothing else.
LEMMA ForkPanicsInv ==
    ASSUME IInv, NEW e \in Env, ForkPanics(e)
    PROVE  IInv'
<1>1. UNCHANGED <<pte, pftemp, content, fault, forking, view>> /\ status[e] = "runs"
  BY DEF ForkPanics
<1>2. \A d \in Env : status'[d] = IF d = e THEN "panicked" ELSE status[d]
  BY DEF IInv, TypeOK, ForkPanics, Panic
<1>3. TypeOK'
  BY <1>1, SMTT(30) DEF IInv, TypeOK, ForkPanics, Panic
<1>4. FaultSteps'
  BY <1>1, <1>2, Zenon DEF IInv, FaultSteps, Held
<1>5. ForkSteps'
  <2> SUFFICES ASSUME NEW d \in Env PROVE ForkSteps!(d)'
    BY DEF ForkSteps
  <2>1. forking[d].step # "none" => status'[d] \in {"runs", "panicked"} /\ status'[forking[d].child] = "embryo"
    BY <1>1, <1>2 DEF IInv, ForkSteps
  <2> QED  BY <2>1, <1>1, SMTT(30) DEF IInv, ForkSteps
<1>6. OneParent' /\ TempAlone'
  BY <1>1 DEF IInv, OneParent, TempAlone
<1>7. FreeIsEmpty'
  BY <1>1, <1>2 DEF IInv, FreeIsEmpty
<1>8. ShareAlike'
  BY <1>1 DEF IInv, ShareAlike
<1>9. WritableOnce'
  BY <1>1, SMTT(30) DEF IInv, WritableOnce, HalfShared
<1>10. Seen'
  <2>1. \A d \in Env : status'[d] = "embryo" <=> status[d] = "embryo"
    BY <1>1, <1>2
  <2> QED  BY <2>1, <1>1 DEF IInv, Seen, Settled, HalfShared, Held
<1> QED  BY <1>3, <1>4, <1>5, <1>6, <1>7, <1>8, <1>9, <1>10 DEF IInv

\* The end of a program.
LEMMA DestroyInv ==
    ASSUME IInv, NEW e \in Env, Destroy(e)
    PROVE  IInv'
<1>1. TypeOK'
  <2>1. NoFault \in [step : {"none"}, va : VPage, value : Value] /\ [w \in VPage |-> Unmapped] \in [VPage -> Pte]
    BY ForkAssumption DEF NoFault, VPage, Pte
  <2>2. NoFork \in [step : {"none"}, child : {NoEnv}, va : 0 .. NPAGE]
    BY ForkAssumption DEF NoFork
  <2>3. fault' \in [Env -> [step : {"none", "alloc", "copy", "map", "unmap", "retry"}, va : VPage, value : Value]]
    BY <2>1 DEF IInv, TypeOK, Destroy
  <2>4. forking' \in [Env -> [step : {"none", "look", "share", "ro", "cow_child", "cow_self"},
                              child : Env \cup {NoEnv}, va : 0 .. NPAGE]]
    BY <2>2 DEF IInv, TypeOK, Destroy
  <2>5. pte' \in [Env -> [VPage -> Pte]]
    BY <2>1 DEF IInv, TypeOK, Destroy
  <2> QED  BY <2>3, <2>4, <2>5 DEF IInv, TypeOK, Destroy
<1>2. FaultSteps'
  <2>1. \A d \in Env : d # e => /\ pte'[d] = pte[d] /\ pftemp'[d] = pftemp[d]
                               /\ fault'[d] = fault[d] /\ status'[d] = status[d]
    BY Zenon DEF IInv, TypeOK, Destroy
  <2>2. pftemp'[e] = NoPage /\ fault'[e] = NoFault /\ NoFault.step = "none" /\ content' = content
    BY DEF IInv, TypeOK, Destroy, NoFault
  <2> SUFFICES ASSUME NEW d \in Env PROVE FaultSteps!(d)'
    BY DEF FaultSteps
  <2>3. CASE d = e
    BY <2>2, <2>3, Zenon
  <2>4. CASE d # e
    BY <2>1, <2>2, <2>4, SMTT(30) DEF IInv, FaultSteps, Held
  <2> QED  BY <2>3, <2>4
<1>3. ForkSteps'
  <2>1. \A d \in Env : d # e => pte'[d] = pte[d] /\ forking'[d] = forking[d] /\ status'[d] = status[d]
    BY DEF IInv, TypeOK, Destroy
  <2>2. forking'[e] = NoFork /\ NoFork.step = "none" /\ status[e] # "embryo"
    BY SMTT(30) DEF IInv, TypeOK, Destroy, NoFork
  <2> SUFFICES ASSUME NEW d \in Env PROVE ForkSteps!(d)'
    BY DEF ForkSteps
  <2>3. CASE d = e
    BY <2>2, <2>3, Zenon
  <2>4. CASE d # e
    <3>1. forking[d].step # "none" => forking[d].child \in Env /\ forking[d].child # e
      BY <2>2, SMTT(30) DEF IInv, ForkSteps
    <3> QED  BY <2>1, <2>4, <3>1 DEF IInv, ForkSteps
  <2> QED  BY <2>3, <2>4, Zenon
<1>4. OneParent'
  <2>1. \A d \in Env : forking'[d] = IF d = e THEN NoFork ELSE forking[d]
    BY DEF IInv, TypeOK, Destroy
  <2>2. \A d \in Env : forking[d].step # "none" => forking[d].child # NoEnv
    BY ForkAssumption DEF IInv, ForkSteps
  <2> QED  BY <2>1, <2>2 DEF IInv, OneParent, NoFork
<1>5. FreeIsEmpty'
  <2>1. \A d \in Env, w \in VPage : /\ d # e => pte'[d][w] = pte[d][w] /\ status'[d] = status[d]
                                    /\ d = e => pte'[d][w] = Unmapped
    BY DEF IInv, TypeOK, Destroy
  <2> QED  BY <2>1 DEF IInv, FreeIsEmpty
<1>6. TempAlone'
  <2>1. \A d \in Env : /\ d # e => pte'[d] = pte[d] /\ fault'[d] = fault[d] /\ pftemp'[d] = pftemp[d]
                       /\ d = e => pftemp'[d] = NoPage
    BY DEF IInv, TypeOK, Destroy
  <2>2. \A w \in VPage : pte'[e][w].page = NoPage
    BY DEF IInv, TypeOK, Destroy, Unmapped
  <2> QED  BY <2>1, <2>2 DEF IInv, TempAlone
<1>7. ShareAlike'
  <2>1. \A d \in Env, w \in VPage : /\ d # e => pte'[d][w] = pte[d][w]
                                    /\ d = e => pte'[d][w].page = NoPage /\ pte'[d][w].perm = "none"
    BY DEF IInv, TypeOK, Destroy, Unmapped
  <2>2. \A d \in Env, w \in VPage : pte[d][w].perm \in Perm => pte[d][w].page # NoPage
    BY ForkAssumption DEF IInv, TypeOK, Pte, Unmapped, Perm
  <2>3. \A d \in Env : d # e => forking'[d] = forking[d]
    BY Zenon DEF IInv, TypeOK, Destroy
  <2> QED  BY <2>1, <2>2, <2>3 DEF IInv, ShareAlike, HalfShared, Perm
<1>8. WritableOnce'
  <2>1. \A d \in Env, w \in VPage : /\ d # e => pte'[d][w] = pte[d][w]
                                    /\ d = e => pte'[d][w].page = NoPage /\ pte'[d][w].perm = "none"
    BY DEF IInv, TypeOK, Destroy, Unmapped
  <2>2. \A d \in Env, w \in VPage : pte[d][w].perm \in Perm => pte[d][w].page # NoPage
    BY ForkAssumption DEF IInv, TypeOK, Pte, Unmapped, Perm
  <2>3. \A d \in Env : d # e => forking'[d] = forking[d]
    BY DEF IInv, TypeOK, Destroy
  <2> QED  BY <2>1, <2>2, <2>3, SMTT(30) DEF IInv, WritableOnce, HalfShared, Perm
<1>9. Seen'
  <2>1. \A d \in Env, w \in VPage : /\ d # e => pte'[d][w] = pte[d][w]
                                    /\ d = e => pte'[d][w] = Unmapped
    BY DEF IInv, TypeOK, Destroy
  <2>2. \A d \in Env : /\ d # e => forking'[d] = forking[d] /\ status'[d] = status[d]
                       /\ d = e => forking'[d] = NoFork
    BY DEF IInv, TypeOK, Destroy
  <2>3. UNCHANGED <<content, view>>
    BY Zenon DEF Destroy
  <2> SUFFICES ASSUME NEW d \in Env, NEW w \in VPage, Settled(d, w)' PROVE (Held(d, w) = view[d][w])'
    BY DEF Seen
  <2>4. d # e
    BY <2>1 DEF Settled
  <2>5. /\ pte[d][w] # Unmapped
        /\ status[d] = "embryo" => \E x \in Env : x # e /\ forking[x].child = d
    <3>1. pte'[d][w] # Unmapped
      BY DEF Settled
    <3>2. status'[d] = "embryo" => \E x \in Env : forking'[x].child = d
      BY Zenon DEF Settled
    <3>3. forking'[e].child # d
      BY <2>2, ForkAssumption DEF NoFork
    <3>4. status[d] = "embryo" => \E x \in Env : x # e /\ forking[x].child = d
      BY <3>2, <3>3, <2>2, <2>4
    <3> QED  BY <3>1, <3>4, <2>1, <2>4
  <2>6. \A x \in Env : x # e => ~HalfShared(x, d, w)
    <3>1. \A x \in Env : forking'[x] # [step |-> "cow_self", child |-> d, va |-> w]
      BY Zenon DEF Settled, HalfShared
    <3> QED  BY <3>1, <2>2 DEF HalfShared
  <2>7. ~HalfShared(e, d, w)
    <3> SUFFICES ASSUME HalfShared(e, d, w) PROVE FALSE
      OBVIOUS
    <3>1. forking[e].step = "cow_self" /\ forking[e].child = d
      BY SMTT(30) DEF HalfShared
    <3>2. status[d] = "embryo"
      BY <3>1, Zenon DEF IInv, ForkSteps
    <3> QED  BY <3>1, <3>2, <2>5 DEF IInv, OneParent
  <2>8. Settled(d, w)
    BY <2>5, <2>6, <2>7 DEF Settled
  <2> QED  BY <2>1, <2>3, <2>4, <2>8 DEF IInv, Seen, Held
<1> QED  BY <1>1, <1>2, <1>3, <1>4, <1>5, <1>6, <1>7, <1>8, <1>9 DEF IInv

(***************************************************************************)
(* The theorems.                                                           *)
(***************************************************************************)
\* Initially only Root has pages, each at one place.
LEMMA InitInv == Init => IInv
<1> SUFFICES ASSUME Init PROVE IInv
  OBVIOUS
<1>1. PICK table \in [VPage -> Pte] :
        /\ \A v, w \in VPage : v # w /\ table[v] # Unmapped => table[v].page # table[w].page
        /\ table[Stack].perm = "W"
        /\ pte = [e \in Env |-> IF e = Root THEN table ELSE [v \in VPage |-> Unmapped]]
  BY DEF Init
<1>2. Unmapped \in Pte
  BY DEF Pte
<1>3. pte \in [Env -> [VPage -> Pte]]
  BY <1>1, <1>2
<1>4. \A e \in Env, v \in VPage : pte[e][v] # Unmapped => e = Root /\ pte[e][v] = table[v] /\ pte[e][v].page \in Page
  BY <1>1, <1>3 DEF Pte
<1>5. \A e \in Env, v \in VPage : pte[e][v] = Unmapped => pte[e][v].page = NoPage /\ pte[e][v].perm = "none"
  BY DEF Unmapped
<1>6. view \in [Env -> [VPage -> Value]]
  <2>1. (CHOOSE x \in Value : TRUE) \in Value
    BY ForkAssumption
  <2>2. \A e \in Env, v \in VPage : pte[e][v] # Unmapped => Held(e, v) \in Value
    BY <1>4 DEF Init, Held
  <2> QED  BY <2>1, <2>2 DEF Init
<1>7. NoFault \in [step : {"none"}, va : VPage, value : Value] /\ NoFault.step = "none"
  BY ForkAssumption DEF NoFault, VPage
<1>8. NoFork \in [step : {"none"}, child : {NoEnv}, va : 0 .. NPAGE] /\ NoFork.step = "none"
  BY ForkAssumption DEF NoFork
<1>9. TypeOK
  BY <1>3, <1>6, <1>7, <1>8, SMTT(30) DEF Init, TypeOK
<1>10. FaultSteps /\ ForkSteps /\ OneParent
  BY <1>7, <1>8, Zenon DEF Init, FaultSteps, ForkSteps, OneParent
<1>11. FreeIsEmpty
  BY <1>4 DEF Init, FreeIsEmpty
<1>12. TempAlone
  BY DEF Init, TempAlone
<1>13. \A e, d \in Env, v, w \in VPage :
         pte[e][v] # Unmapped /\ pte[d][w].page = pte[e][v].page => d = e /\ w = v
  BY <1>1, <1>4, <1>5, ForkAssumption
<1>14. ShareAlike /\ WritableOnce
  BY <1>5, <1>13 DEF ShareAlike, WritableOnce
<1>15. Seen
  BY DEF Init, Seen, Settled
<1> QED  BY <1>9, <1>10, <1>11, <1>12, <1>14, <1>15 DEF IInv

\* Every step of every program keeps the invariant.
LEMMA NextInv == IInv /\ [Next]_vars => IInv'
<1> SUFFICES ASSUME IInv, [Next]_vars PROVE IInv'
  OBVIOUS
<1>1. CASE UNCHANGED vars
  <2> USE <1>1 DEF vars, IInv
  <2>1. TypeOK'
    BY Zenon DEF TypeOK
  <2>2. FaultSteps'
    BY Zenon DEF FaultSteps, Held
  <2>3. ForkSteps'
    BY Zenon DEF ForkSteps
  <2>4. OneParent' /\ FreeIsEmpty'
    BY DEF OneParent, FreeIsEmpty
  <2>5. TempAlone'
    BY DEF TempAlone
  <2>6. ShareAlike'
    BY SMTT(30) DEF ShareAlike
  <2>7. WritableOnce'
    BY SMTT(30) DEF WritableOnce, HalfShared
  <2>8. Seen'
    BY DEF Seen, Settled, HalfShared, Held
  <2> QED  BY <2>1, <2>2, <2>3, <2>4, <2>5, <2>6, <2>7, <2>8
<1>2. CASE Next
  <2> PICK e \in Env :
        \/ \E v \in VPage, x \in Value : Store(e, v, x) \/ StoreFaults(e, v, x)
        \/ pgfault_alloc(e) \/ pgfault_copy(e) \/ pgfault_map(e) \/ pgfault_unmap(e) \/ Retry(e)
        \/ \E c \in Env : Fork(e, c)
        \/ duppage(e) \/ share_page(e) \/ share_read_only(e) \/ cow_child(e) \/ cow_self(e)
        \/ fork_done(e) \/ ForkPanics(e)
        \/ Destroy(e)
    BY <1>2 DEF Next
  <2>1. CASE \E v \in VPage, x \in Value : Store(e, v, x) \/ StoreFaults(e, v, x)
    BY <2>1, StoreInv, StoreFaultsInv
  <2>2. CASE \E c \in Env : Fork(e, c)
    BY <2>2, ForkInv
  <2>3. CASE share_page(e)
    BY <2>3, MapChildInv DEF share_page
  <2>4. CASE share_read_only(e)
    BY <2>4, MapChildInv DEF share_read_only
  <2>5. CASE cow_child(e)
    BY <2>5, MapChildInv DEF cow_child
  <2> QED  BY <2>1, <2>2, <2>3, <2>4, <2>5, pgfault_allocInv, pgfault_copyInv, pgfault_mapInv, pgfault_unmapInv,
              RetryInv, duppageInv, cow_selfInv, fork_doneInv, ForkPanicsInv, DestroyInv
<1> QED  BY <1>1, <1>2

\* The invariant holds always.
LEMMA InvHolds == Spec => []IInv
BY InitInv, NextInv, PTL DEF Spec

\* TypeOK, for every number of programs and pages.
THEOREM ForkTypes == Spec => []TypeOK
<1>1. IInv => TypeOK
  BY DEF IInv
<1> QED  BY <1>1, InvHolds, PTL

\* WritableAlone: duppage and pgfault never leave a page writable in one program
\* and mapped in another, or at the PFTEMP of a handler that is filling it.
THEOREM WritablePagesArePrivate == Spec => []WritableAlone
<1>1. IInv => WritableAlone
  <2> SUFFICES ASSUME IInv, NEW e \in Env, NEW d \in Env, NEW v \in VPage, pte[e][v].perm = "W"
               PROVE  /\ \A w \in VPage : pte[d][w].page = pte[e][v].page =>
                           (d = e /\ w = v) \/ (w = v /\ HalfShared(e, d, v))
                      /\ pftemp[d] = pte[e][v].page =>
                           d = e /\ fault[e].va = v /\ fault[e].step = "unmap"
    BY Zenon DEF WritableAlone
  <2>1. pte[e][v].page # NoPage
    BY ForkAssumption DEF IInv, TypeOK, Pte, Unmapped
  <2>2. pftemp[d] = pte[e][v].page => e = d /\ v = fault[d].va /\ fault[d].step = "unmap"
    BY <2>1 DEF IInv, TempAlone
  <2> QED  BY <2>2 DEF IInv, WritableOnce
<1> QED  BY <1>1, InvHolds, PTL

\* ProgramsSeeTheirStores: copy-on-write fork gives each program a memory of its
\* own, PTE_SHARE apart.
THEOREM ForkIsolates == Spec => []ProgramsSeeTheirStores
<1>1. IInv => ProgramsSeeTheirStores
  <2> SUFFICES ASSUME IInv, NEW c \in Env, NEW v \in VPage, pte[c][v] # Unmapped, status[c] # "embryo"
               PROVE  Held(c, v) = view[c][v]
    BY Zenon DEF ProgramsSeeTheirStores
  <2>1. \A e \in Env : ~HalfShared(e, c, v)
    <3> SUFFICES ASSUME NEW e \in Env, HalfShared(e, c, v) PROVE FALSE
      BY Zenon
    <3>1. forking[e].step = "cow_self" /\ forking[e].child = c
      BY DEF HalfShared
    <3> QED  BY <3>1 DEF IInv, ForkSteps
  <2> QED  BY <2>1 DEF IInv, Seen, Settled
<1> QED  BY <1>1, InvHolds, PTL

=============================================================================
