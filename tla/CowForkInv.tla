----------------------------- MODULE CowForkInv -----------------------------
(***************************************************************************)
(* The invariant of fork and its fault handler, and the proof that the     *)
(* steps of fork itself keep it.                                           *)
(***************************************************************************)
EXTENDS CowFork, TLAPS

(***************************************************************************)
(* The inductive invariant.                                                *)
(***************************************************************************)
\* What a fault handler has done so far.
FaultSteps ==
    \A e \in Env :
      LET f == fault[e]
      IN /\ f.step = "none" => f = NoFault
         /\ f.step # "none" => status[e] \in {"runs", "panicked"}
         /\ f.step \in {"alloc", "copy", "map"} => pte[e][f.va].perm = "COW"
         /\ f.step \in {"unmap", "retry"} => pte[e][f.va].perm = "W"
         /\ pftemp[e] # NoPage <=> f.step \in {"copy", "map", "unmap"}
         /\ f.step = "map" => content[pftemp[e]] = Held(e, f.va)

\* What a fork has done so far.
ForkSteps ==
    \A e \in Env :
      LET k == forking[e]
      IN /\ k.step = "none" => k = NoFork
         /\ k.step # "none" => /\ status[e] \in {"runs", "panicked"}
                               /\ k.child \in Env /\ status[k.child] = "embryo"
         /\ k.step \notin {"none", "look"} => k.va \in VPage
         /\ k.step = "share" => pte[e][k.va].perm = "SHARE"
         /\ k.step = "ro" => pte[e][k.va].perm = "RO"
         /\ k.step \in {"cow_child", "cow_self"} => pte[e][k.va].perm \in {"COW", "W"}
         /\ k.step = "cow_self" => pte[k.child][k.va].perm = "COW"

OneParent ==
    \A e, d \in Env : forking[e].step # "none" /\ forking[d].child = forking[e].child => e = d

FreeIsEmpty == \A e \in Env, v \in VPage : status[e] = "free" => pte[e][v] = Unmapped

\* The page a fault handler fills is mapped nowhere else until it has its place.
TempAlone ==
    \A e, d \in Env :
      pftemp[e] # NoPage =>
        /\ pftemp[d] = pftemp[e] => d = e
        /\ \A w \in VPage : pte[d][w].page = pftemp[e] => d = e /\ w = fault[e].va /\ fault[e].step = "unmap"

ShareAlike ==
    \A e, d \in Env, v, w \in VPage :
      pte[e][v].perm = "SHARE" /\ pte[d][w].page = pte[e][v].page => w = v /\ pte[d][w] = pte[e][v]

\* A writable page is mapped once below USTACKTOP, but for duppage's moment.
WritableOnce ==
    \A e, d \in Env, v, w \in VPage :
      pte[e][v].perm = "W" /\ pte[d][w].page = pte[e][v].page =>
        (d = e /\ w = v) \/ (w = v /\ HalfShared(e, d, v))

\* A page that has been given to c for good.
Settled(c, v) ==
    /\ pte[c][v] # Unmapped
    /\ \A e \in Env : ~HalfShared(e, c, v)
    /\ status[c] = "embryo" => \E e \in Env : forking[e].child = c

Seen == \A c \in Env, v \in VPage : Settled(c, v) => Held(c, v) = view[c][v]

IInv == /\ TypeOK /\ FaultSteps /\ ForkSteps /\ OneParent /\ FreeIsEmpty
        /\ TempAlone /\ ShareAlike /\ WritableOnce /\ Seen

\* A branch of duppage keeps the invariant.
LEMMA MapChildInv ==
    ASSUME IInv, NEW e \in Env, NEW step, NEW perm, MapChild(e, step, perm),
           \/ step = "share" /\ perm = "SHARE" /\ NextPage(e)
           \/ step = "ro" /\ perm = "RO" /\ NextPage(e)
           \/ step = "cow_child" /\ perm = "COW" /\ ForkGoes(e, "cow_self")
    PROVE  IInv'
<1> DEFINE c == forking[e].child  v == forking[e].va  q == pte[e][v].page
           k == [step |-> IF step = "cow_child" THEN "cow_self" ELSE "look", child |-> c,
                 va |-> IF step = "cow_child" THEN v ELSE v + 1]
<1>0. step \in {"share", "ro", "cow_child"} /\ perm \in {"SHARE", "RO", "COW"}
  OBVIOUS
<1>1. /\ c \in Env /\ c # e /\ status[c] = "embryo" /\ v \in VPage
      /\ forking[e].step = step /\ status[e] = "runs" /\ fault[e] = NoFault
      /\ q \in Page /\ q # NoPage /\ Held(e, v) \in Value
      /\ pte' \in [Env -> [VPage -> Pte]]
      /\ view' \in [Env -> [VPage -> Value]]
  <2> USE DEF IInv, TypeOK, MapChild, InFork
  <2>1. forking[e].step = step /\ status[e] = "runs" /\ fault[e] = NoFault
    OBVIOUS
  <2>2. c \in Env /\ v \in VPage /\ status[c] = "embryo" /\ c # e
    BY <1>0 DEF ForkSteps
  <2>3. pte[e][v] \in Pte /\ pte[e][v].perm \in Perm
    BY <1>0, <2>2 DEF ForkSteps, Perm
  <2>4. q \in Page /\ q # NoPage
    BY <2>3, ForkAssumption DEF Pte, Unmapped, Perm
  <2>5. Held(e, v) \in Value
    BY <2>4 DEF Held
  <2>6. [page |-> q, perm |-> perm] \in Pte
    BY <1>0, <2>4 DEF Pte, Perm
  <2> QED  BY <2>1, <2>2, <2>4, <2>5, <2>6
<1>2. \A d \in Env, w \in VPage :
        /\ d = c /\ w = v => pte'[d][w] = [page |-> q, perm |-> perm] /\ view'[d][w] = Held(e, v)
        /\ ~(d = c /\ w = v) => pte'[d][w] = pte[d][w] /\ view'[d][w] = view[d][w]
  BY <1>1 DEF IInv, TypeOK, MapChild
<1>3. forking' = [forking EXCEPT ![e] = k]
  BY DEF NextPage, ForkGoes, ForkAt
<1>4. k \in [step : {"look", "cow_self"}, child : Env, va : 0 .. NPAGE]
  BY <1>1, ForkAssumption DEF VPage
<1>5. UNCHANGED <<status, pftemp, content, fault>>
  BY DEF MapChild
<1>6. \A d \in Env : forking'[d] = IF d = e THEN k ELSE forking[d]
  BY <1>3 DEF IInv, TypeOK
<1>7. /\ step = "share" => perm = "SHARE" /\ pte[e][v].perm = "SHARE"
      /\ step = "ro" => perm = "RO" /\ pte[e][v].perm = "RO"
      /\ step = "cow_child" => perm = "COW" /\ pte[e][v].perm \in {"COW", "W"}
      /\ step \in {"share", "ro", "cow_child"}
  BY <1>1 DEF IInv, ForkSteps
<1>8. k.step = "cow_self" => step = "cow_child" /\ k.va = v
  BY <1>7
<1>9. k.child = c /\ k.step \in {"look", "cow_self"}
  OBVIOUS
<1> HIDE DEF k
<1>10. TypeOK'
  BY <1>1, <1>3, <1>4, <1>5 DEF IInv, TypeOK
<1>11. FaultSteps'
  <2>1. \A d \in Env : fault[d].step # "none" => d # c
    BY <1>1 DEF IInv, FaultSteps
  <2>2. \A d \in Env : fault[d].step # "none" => fault[d].va \in VPage
    BY DEF IInv, TypeOK
  <2> QED  BY <1>2, <1>5, <2>1, <2>2 DEF IInv, FaultSteps, Held
<1>12. ForkSteps'
  <2> SUFFICES ASSUME NEW d \in Env PROVE ForkSteps!(d)'
    BY DEF ForkSteps
  <2>1. CASE d = e
    BY <2>1, <1>1, <1>2, <1>4, <1>5, <1>6, <1>7, <1>8, <1>9, SMTT(30) DEF IInv, ForkSteps, VPage
  <2>2. CASE d # e
    <3>1. forking[d].step # "none" => d # c /\ forking[d].child # c /\ forking[d].child \in Env
      BY <2>2, <1>1, <1>7 DEF IInv, ForkSteps, OneParent
    <3> QED  BY <2>2, <3>1, <1>1, <1>2, <1>5, <1>6, SMTT(30) DEF IInv, ForkSteps
  <2> QED  BY <2>1, <2>2
<1>13. OneParent'
  BY <1>1, <1>6, <1>7, <1>9 DEF IInv, OneParent
<1>14. FreeIsEmpty'
  BY <1>1, <1>2, <1>5 DEF IInv, FreeIsEmpty
<1>15. TempAlone'
  <2>1. \A d \in Env : pftemp[d] # NoPage => pftemp[d] # q
    BY <1>1 DEF IInv, TempAlone, NoFault
  <2> SUFFICES ASSUME NEW a \in Env, NEW d \in Env, pftemp[a] # NoPage
               PROVE  /\ pftemp[d] = pftemp[a] => d = a
                      /\ \A w \in VPage : pte'[d][w].page = pftemp[a] =>
                           d = a /\ w = fault[a].va /\ fault[a].step = "unmap"
    BY <1>5 DEF TempAlone
  <2>2. \A w \in VPage : pte'[d][w].page = pftemp[a] => pte[d][w].page = pftemp[a]
    BY <1>2, <2>1
  <2> QED  BY <2>2 DEF IInv, TempAlone
<1>16. ShareAlike'
  <2> SUFFICES ASSUME NEW a \in Env, NEW b \in Env, NEW x \in VPage, NEW w \in VPage,
                      pte'[a][x].perm = "SHARE", pte'[b][w].page = pte'[a][x].page
               PROVE  w = x /\ pte'[b][w] = pte'[a][x]
    BY DEF ShareAlike
  <2>1. CASE a = c /\ x = v
    <3>1. pte'[a][x] = [page |-> q, perm |-> "SHARE"] /\ pte[e][v].perm = "SHARE"
      BY <2>1, <1>2, <1>7
    <3>2. pte[e][v] = [page |-> q, perm |-> "SHARE"]
      BY <3>1, <1>1 DEF IInv, TypeOK, Pte, Unmapped
    <3>3. CASE b = c /\ w = v
      BY <2>1, <3>3, SMTT(30)
    <3>4. CASE ~(b = c /\ w = v)
      <4>1. pte'[b][w] = pte[b][w] /\ pte[b][w].page = pte[e][v].page
        BY <3>1, <3>4, <1>2
      <4> QED  BY <2>1, <3>1, <3>2, <4>1, <1>1, SMTT(30) DEF IInv, ShareAlike
    <3> QED  BY <3>3, <3>4
  <2>2. CASE ~(a = c /\ x = v)
    <3>1. pte'[a][x] = pte[a][x]
      BY <2>2, <1>2
    <3>2. CASE b = c /\ w = v
      <4>1. pte[e][v].page = pte[a][x].page /\ pte'[b][w] = [page |-> q, perm |-> perm]
        BY <3>1, <3>2, <1>2
      <4>2. v = x /\ pte[e][v] = pte[a][x]
        BY <4>1, <3>1, <1>1 DEF IInv, ShareAlike
      <4>3. pte[e][v] = [page |-> q, perm |-> "SHARE"]
        BY <4>2, <3>1, <1>1 DEF IInv, TypeOK, Pte, Unmapped
      <4> QED  BY <3>1, <3>2, <4>1, <4>2, <4>3, <1>7
    <3>3. CASE ~(b = c /\ w = v)
      BY <3>1, <3>3, <1>2 DEF IInv, ShareAlike
    <3> QED  BY <3>2, <3>3
  <2> QED  BY <2>1, <2>2
<1>17. WritableOnce'
  <2> SUFFICES ASSUME NEW a \in Env, NEW b \in Env, NEW x \in VPage, NEW w \in VPage,
                      pte'[a][x].perm = "W", pte'[b][w].page = pte'[a][x].page
               PROVE  (b = a /\ w = x) \/ (w = x /\ HalfShared(a, b, x)')
    BY DEF WritableOnce
  <2>1. ~(a = c /\ x = v) /\ pte'[a][x] = pte[a][x]
    BY <1>2, <1>7
  <2>2. CASE b = c /\ w = v
    <3>1. pte[e][v].page = pte[a][x].page
      BY <2>1, <2>2, <1>2
    <3>2. ~HalfShared(a, e, x)
      BY <1>1 DEF IInv, ForkSteps, HalfShared
    <3>3. e = a /\ v = x
      BY <2>1, <3>1, <3>2, <1>1 DEF IInv, WritableOnce
    <3>4. step = "cow_child"
      BY <2>1, <3>3, <1>7
    <3> QED  BY <2>2, <3>3, <3>4, <1>6 DEF HalfShared, k
  <2>3. CASE ~(b = c /\ w = v)
    <3>1. (b = a /\ w = x) \/ (w = x /\ HalfShared(a, b, x))
      BY <2>1, <2>3, <1>2 DEF IInv, WritableOnce
    <3> QED  BY <3>1, <1>1, <1>6, <1>7 DEF HalfShared
  <2> QED  BY <2>2, <2>3
<1>18. Seen'
  <2> SUFFICES ASSUME NEW d \in Env, NEW w \in VPage, Settled(d, w)' PROVE (Held(d, w) = view[d][w])'
    BY SMTT(30) DEF Seen
  <2>1. CASE d = c /\ w = v
    BY <2>1, <1>2, <1>5 DEF Held
  <2>2. CASE ~(d = c /\ w = v)
    <3>a. pte[d][w] # Unmapped
      BY <2>2, <1>2 DEF Settled, Unmapped
    <3>b. \A a \in Env : ~HalfShared(a, d, w)
      <4> SUFFICES ASSUME NEW a \in Env, HalfShared(a, d, w) PROVE FALSE
        BY SMTT(30)
      <4>1. a # e
        BY <1>1, <1>7 DEF HalfShared
      <4> QED  BY <4>1, <1>6 DEF Settled, HalfShared
    <3>c. status[d] = "embryo" => \E a \in Env : forking[a].child = d
      BY <1>5, <1>6, <1>9 DEF Settled
    <3>1. Settled(d, w)
      BY <3>a, <3>b, <3>c DEF Settled
    <3> QED  BY <2>2, <3>1, <1>2, <1>5 DEF IInv, Seen, Held
  <2> QED  BY <2>1, <2>2
<1> QED  BY <1>10, <1>11, <1>12, <1>13, <1>14, <1>15, <1>16, <1>17, <1>18 DEF IInv

\* Marking the parent's own page copy-on-write ends duppage.
LEMMA cow_selfInv ==
    ASSUME IInv, NEW e \in Env, cow_self(e)
    PROVE  IInv'
<1> DEFINE c == forking[e].child  v == forking[e].va  q == pte[e][v].page
           k == [step |-> "look", child |-> c, va |-> v + 1]
<1>1. /\ c \in Env /\ c # e /\ status[c] = "embryo" /\ v \in VPage
      /\ forking[e].step = "cow_self" /\ status[e] = "runs" /\ fault[e] = NoFault
      /\ pte[e][v].perm \in {"COW", "W"} /\ pte[c][v].perm = "COW"
  BY SMTT(30) DEF IInv, ForkSteps, cow_self, InFork
<1>2. q \in Page /\ pte[c][v].page \in Page
  <2>1. pte[e][v] \in Pte /\ pte[c][v] \in Pte
    BY <1>1 DEF IInv, TypeOK
  <2> QED  BY <2>1, <1>1 DEF Pte, Unmapped
<1>3. Held(c, v) \in Value /\ [page |-> q, perm |-> "COW"] \in Pte
  BY <1>2 DEF Held, IInv, TypeOK, Pte, Perm
<1>4. /\ pte' = [pte EXCEPT ![e][v] = [page |-> q, perm |-> "COW"]]
      /\ view' = [view EXCEPT ![c][v] = Held(c, v)]
      /\ forking' = [forking EXCEPT ![e] = k]
      /\ UNCHANGED <<status, pftemp, content, fault>>
  BY DEF cow_self, NextPage, ForkAt
<1>5. \A d \in Env, w \in VPage :
        pte'[d][w] = IF d = e /\ w = v THEN [page |-> q, perm |-> "COW"] ELSE pte[d][w]
  BY <1>1, <1>4, SMTT(30) DEF IInv, TypeOK
<1>6. \A d \in Env, w \in VPage : view'[d][w] = IF d = c /\ w = v THEN Held(c, v) ELSE view[d][w]
  BY <1>1, <1>4 DEF IInv, TypeOK
<1>7. \A d \in Env : forking'[d] = IF d = e THEN k ELSE forking[d]
  BY <1>4 DEF IInv, TypeOK
<1>8. \A d \in Env, w \in VPage : pte'[d][w].page = pte[d][w].page
  BY <1>5
<1>9. \A d \in Env, w \in VPage : (Held(d, w))' = Held(d, w)
  BY <1>4, <1>8, Zenon DEF Held
<1>10. TypeOK'
  <2>1. k \in [step : {"look"}, child : Env, va : 0 .. NPAGE]
    BY <1>1, ForkAssumption DEF VPage
  <2> HIDE DEF k
  <2>2. pte' \in [Env -> [VPage -> Pte]] /\ view' \in [Env -> [VPage -> Value]]
    BY <1>1, <1>3, <1>4 DEF IInv, TypeOK
  <2> QED  BY <1>4, <2>1, <2>2 DEF IInv, TypeOK
<1>11. FaultSteps'
  <2>1. \A d \in Env : fault[d].step # "none" => d # e /\ fault[d].va \in VPage
    BY <1>1 DEF IInv, TypeOK, NoFault
  <2> QED  BY <1>4, <1>5, <1>9, <2>1 DEF IInv, TypeOK, FaultSteps, NoFault
<1>12. ForkSteps'
  <2> SUFFICES ASSUME NEW d \in Env PROVE ForkSteps!(d)'
    BY DEF ForkSteps
  <2>1. CASE d = e
    BY <2>1, <1>1, <1>4, <1>7, SMTT(30) DEF VPage
  <2>2. CASE d # e
    <3>1. forking'[d] = forking[d]
      BY <2>2, <1>7
    <3>2. /\ forking[d].step # "none" => forking[d].child \in Env
          /\ forking[d].step \notin {"none", "look"} => forking[d].va \in VPage
      BY DEF IInv, ForkSteps
    <3>3. \A w \in VPage : pte'[d][w] = pte[d][w]
      BY <2>2, <1>5, SMTT(30)
    <3>4. forking[d].step = "cow_self" => pte'[forking[d].child][forking[d].va].perm = "COW"
      BY <3>2, <1>5 DEF IInv, ForkSteps
    <3>5. ForkSteps!(d)
      BY DEF IInv, ForkSteps
    <3> QED  BY <3>1, <3>2, <3>3, <3>4, <3>5, <1>4
  <2> QED  BY <2>1, <2>2
<1>13. OneParent'
  BY <1>1, <1>7, SMTT(30) DEF IInv, OneParent
<1>14. FreeIsEmpty'
  BY <1>1, <1>4, <1>5 DEF IInv, FreeIsEmpty
<1>15. TempAlone'
  BY <1>4, <1>8 DEF IInv, TempAlone
<1>16. ShareAlike'
  <2> SUFFICES ASSUME NEW a \in Env, NEW b \in Env, NEW x \in VPage, NEW w \in VPage,
                      pte'[a][x].perm = "SHARE", pte'[b][w].page = pte'[a][x].page
               PROVE  w = x /\ pte'[b][w] = pte'[a][x]
    BY DEF ShareAlike
  <2>1. pte'[a][x] = pte[a][x] /\ pte[b][w].page = pte[a][x].page
    BY <1>5, <1>8
  <2>2. w = x /\ pte[b][w] = pte[a][x]
    BY <2>1 DEF IInv, ShareAlike
  <2>3. ~(b = e /\ w = v)
    BY <2>1, <2>2, <1>1
  <2> QED  BY <2>1, <2>2, <2>3, <1>5
<1>17. WritableOnce'
  <2> SUFFICES ASSUME NEW a \in Env, NEW b \in Env, NEW x \in VPage, NEW w \in VPage,
                      pte'[a][x].perm = "W", pte'[b][w].page = pte'[a][x].page
               PROVE  (b = a /\ w = x) \/ (w = x /\ HalfShared(a, b, x)')
    BY DEF WritableOnce
  <2>1. ~(a = e /\ x = v) /\ pte'[a][x] = pte[a][x] /\ pte[b][w].page = pte[a][x].page
    BY <1>5, <1>8
  <2>2. (b = a /\ w = x) \/ (w = x /\ HalfShared(a, b, x))
    BY <2>1 DEF IInv, WritableOnce
  <2>3. HalfShared(a, b, x) => a # e
    BY <2>1 DEF HalfShared
  <2> QED  BY <2>2, <2>3, <1>7 DEF HalfShared
<1>18. Seen'
  <2> SUFFICES ASSUME NEW d \in Env, NEW w \in VPage, Settled(d, w)' PROVE (Held(d, w) = view[d][w])'
    BY DEF Seen
  <2>1. CASE d = c /\ w = v
    BY <2>1, <1>6, <1>9
  <2>2. CASE ~(d = c /\ w = v)
    <3>1. pte[d][w] # Unmapped
      BY <1>1, <1>5 DEF Settled, Unmapped
    <3>2. \A a \in Env : ~HalfShared(a, d, w)
      BY <2>2, <1>7 DEF Settled, HalfShared
    <3>3. status[d] = "embryo" => \E a \in Env : forking[a].child = d
      BY <1>4, <1>7 DEF Settled
    <3> QED  BY <2>2, <3>1, <3>2, <3>3, <1>6, <1>9, SMTT(30) DEF Settled, IInv, Seen
  <2> QED  BY <2>1, <2>2
<1> QED  BY <1>10, <1>11, <1>12, <1>13, <1>14, <1>15, <1>16, <1>17, <1>18, SMTT(30) DEF IInv

\* Reading the page table entry commits the program to a branch it is right
\* about until it maps the page.
LEMMA duppageInv ==
    ASSUME IInv, NEW e \in Env, duppage(e)
    PROVE  IInv'
<1> DEFINE c == forking[e].child  v == forking[e].va
<1>1. /\ forking[e].step = "look" /\ v \in VPage /\ status[e] = "runs"
      /\ UNCHANGED <<status, pte, pftemp, content, fault, view>>
  BY DEF duppage, InFork
<1>2. pte[e][v] \in Pte /\ c \in Env /\ status[c] = "embryo"
  BY <1>1 DEF IInv, TypeOK, ForkSteps
<1>3. \E s \in {"look", "share", "ro", "cow_child"}, w \in 0 .. NPAGE :
        /\ forking' = [forking EXCEPT ![e] = [step |-> s, child |-> c, va |-> w]]
        /\ s # "look" => w \in VPage
        /\ s = "share" => pte[e][w].perm = "SHARE"
        /\ s = "ro" => pte[e][w].perm = "RO"
        /\ s = "cow_child" => pte[e][w].perm \in {"COW", "W"}
  <2>1. v \in 0 .. NPAGE /\ v + 1 \in 0 .. NPAGE
    BY <1>1, ForkAssumption DEF VPage
  <2>2. CASE pte[e][v] = Unmapped
    <3>1. forking' = [forking EXCEPT ![e] = [step |-> "look", child |-> c, va |-> v + 1]]
      BY <2>2 DEF duppage, NextPage, ForkAt, Unmapped
    <3> QED  BY <3>1, <2>1, Zenon
  <2>3. CASE pte[e][v].perm = "SHARE"
    <3>1. forking' = [forking EXCEPT ![e] = [step |-> "share", child |-> c, va |-> v]]
      BY <2>3 DEF duppage, ForkGoes, ForkAt, Unmapped
    <3> QED  BY <3>1, <2>1, <2>3, <1>1, Zenon
  <2>4. CASE pte[e][v].perm \in {"COW", "W"}
    <3>1. forking' = [forking EXCEPT ![e] = [step |-> "cow_child", child |-> c, va |-> v]]
      <4>1. CASE pte[e][v].perm = "COW"
        BY <4>1 DEF duppage, ForkGoes, ForkAt, Unmapped
      <4>2. CASE pte[e][v].perm = "W"
        BY <4>2 DEF duppage, ForkGoes, ForkAt, Unmapped
      <4> QED  BY <2>4, <4>1, <4>2
    <3> QED  BY <3>1, <2>1, <2>4, <1>1, Zenon
  <2>5. CASE pte[e][v].perm = "RO"
    <3>1. forking' = [forking EXCEPT ![e] = [step |-> "ro", child |-> c, va |-> v]]
      BY <2>5 DEF duppage, ForkGoes, ForkAt, Unmapped
    <3> QED  BY <3>1, <2>1, <2>5, <1>1, Zenon
  <2> QED  BY <1>2, <2>2, <2>3, <2>4, <2>5 DEF Pte, Perm
<1>4. PICK s \in {"look", "share", "ro", "cow_child"} : \E w \in 0 .. NPAGE :
        /\ forking' = [forking EXCEPT ![e] = [step |-> s, child |-> c, va |-> w]]
        /\ s # "look" => w \in VPage
        /\ s = "share" => pte[e][w].perm = "SHARE"
        /\ s = "ro" => pte[e][w].perm = "RO"
        /\ s = "cow_child" => pte[e][w].perm \in {"COW", "W"}
  BY <1>3, Zenon
<1>5. PICK w \in 0 .. NPAGE :
        /\ forking' = [forking EXCEPT ![e] = [step |-> s, child |-> c, va |-> w]]
        /\ s # "look" => w \in VPage
        /\ s = "share" => pte[e][w].perm = "SHARE"
        /\ s = "ro" => pte[e][w].perm = "RO"
        /\ s = "cow_child" => pte[e][w].perm \in {"COW", "W"}
  BY <1>4, Zenon
<1>6. \A d \in Env : forking'[d] = IF d = e THEN [step |-> s, child |-> c, va |-> w] ELSE forking[d]
  BY <1>5 DEF IInv, TypeOK
<1>7. \A a, b \in Env, x \in VPage : HalfShared(a, b, x)' <=> HalfShared(a, b, x)
  BY <1>1, <1>6 DEF HalfShared
<1>8. TypeOK'
  BY <1>1, <1>2, <1>5 DEF IInv, TypeOK
<1>9. FaultSteps'
  BY <1>1, Zenon DEF IInv, FaultSteps, Held
<1>10. ForkSteps'
  BY <1>1, <1>2, <1>5, <1>6 DEF IInv, ForkSteps
<1>11. OneParent'
  BY <1>1, <1>6 DEF IInv, OneParent
<1>12. FreeIsEmpty' /\ TempAlone' /\ ShareAlike'
  BY <1>1 DEF IInv, FreeIsEmpty, TempAlone, ShareAlike
<1>13. WritableOnce'
  BY <1>1, <1>7 DEF IInv, WritableOnce
<1>14. Seen'
  <2> SUFFICES ASSUME NEW d \in Env, NEW x \in VPage, Settled(d, x)' PROVE (Held(d, x) = view[d][x])'
    BY DEF Seen
  <2>1. Settled(d, x)
    BY <1>1, <1>6, <1>7 DEF Settled
  <2> QED  BY <2>1, <1>1 DEF IInv, Seen, Held
<1> QED  BY <1>8, <1>9, <1>10, <1>11, <1>12, <1>13, <1>14 DEF IInv

\* A child starts without any page.
LEMMA ForkInv ==
    ASSUME IInv, NEW e \in Env, NEW c \in Env, Fork(e, c)
    PROVE  IInv'
<1> DEFINE k == [step |-> "look", child |-> c, va |-> 0]
<1>1. /\ status[e] = "runs" /\ forking[e] = NoFork /\ status[c] = "free" /\ c # e
      /\ UNCHANGED <<pte, pftemp, content, fault, view>>
  BY DEF Fork
<1>2. \A d \in Env : status'[d] = IF d = c THEN "embryo" ELSE status[d]
  BY DEF IInv, TypeOK, Fork
<1>3. \A d \in Env : forking'[d] = IF d = e THEN k ELSE forking[d]
  BY SMTT(30) DEF IInv, TypeOK, Fork
<1>4. \A d \in Env : forking[d].step # "none" => d # e /\ d # c /\ forking[d].child # c
  BY <1>1 DEF IInv, ForkSteps, NoFork
<1>5. \A d \in Env : forking[d].child # c
  <2> SUFFICES ASSUME NEW d \in Env PROVE forking[d].child # c
    BY Zenon
  <2>1. CASE forking[d].step = "none"
    BY <2>1, ForkAssumption DEF IInv, ForkSteps, NoFork
  <2>2. CASE forking[d].step # "none"
    BY <2>2, <1>4
  <2> QED  BY <2>1, <2>2
<1>6. \A x, d \in Env, w \in VPage : HalfShared(x, d, w)' <=> HalfShared(x, d, w)
  <2> SUFFICES ASSUME NEW x \in Env, NEW d \in Env, NEW w \in VPage
               PROVE  HalfShared(x, d, w)' <=> HalfShared(x, d, w)
    OBVIOUS
  <2>1. CASE x = e
    BY <2>1, <1>1, <1>3 DEF HalfShared, NoFork
  <2>2. CASE x # e
    BY <2>2, <1>3 DEF HalfShared
  <2> QED  BY <2>1, <2>2
<1>7. TypeOK'
  <2>1. k \in [step : {"look"}, child : Env, va : 0 .. NPAGE]
    BY ForkAssumption
  <2> HIDE DEF k
  <2>2. forking' = [forking EXCEPT ![e] = k]
    BY DEF Fork, k
  <2>3. forking' \in [Env -> [step : {"none", "look", "share", "ro", "cow_child", "cow_self"},
                              child : Env \cup {NoEnv}, va : 0 .. NPAGE]]
    BY <2>1, <2>2, SMTT(30) DEF IInv, TypeOK
  <2> QED  BY <1>1, <2>3 DEF IInv, TypeOK, Fork
<1>8. FaultSteps'
  <2> SUFFICES ASSUME NEW d \in Env PROVE FaultSteps!(d)'
    BY DEF FaultSteps
  <2>1. fault[d].step # "none" => status'[d] \in {"runs", "panicked"}
    BY <1>1, <1>2, Zenon DEF IInv, FaultSteps
  <2> QED  BY <2>1, <1>1 DEF IInv, FaultSteps, Held
<1>9. ForkSteps'
  <2> SUFFICES ASSUME NEW d \in Env PROVE ForkSteps!(d)'
    BY SMTT(30) DEF ForkSteps
  <2>1. CASE d = e
    BY <2>1, <1>1, <1>2, <1>3, SMTT(30)
  <2>2. CASE d # e
    <3>1. forking'[d] = forking[d]
      BY <2>2, <1>3
    <3>2. forking[d].step # "none" => /\ status'[d] \in {"runs", "panicked"}
                                      /\ forking[d].child \in Env /\ status'[forking[d].child] = "embryo"
      BY <1>2, <1>4 DEF IInv, ForkSteps
    <3> QED  BY <3>1, <3>2, <1>1 DEF IInv, ForkSteps
  <2> QED  BY <2>1, <2>2, Zenon
<1>10. OneParent'
  <2> SUFFICES ASSUME NEW x \in Env, NEW d \in Env, forking'[x].step # "none", forking'[d].child = forking'[x].child
               PROVE  x = d
    BY DEF OneParent
  <2>1. CASE x = e
    BY <2>1, <1>3, <1>5
  <2>2. CASE x # e
    BY <2>2, <1>3, <1>5 DEF IInv, OneParent
  <2> QED  BY <2>1, <2>2
<1>11. FreeIsEmpty'
  BY <1>1, <1>2 DEF IInv, FreeIsEmpty
<1>12. TempAlone' /\ ShareAlike'
  BY <1>1 DEF IInv, TempAlone, ShareAlike
<1>13. WritableOnce'
  BY <1>1, <1>6 DEF IInv, WritableOnce
<1>14. Seen'
  <2> SUFFICES ASSUME NEW d \in Env, NEW w \in VPage, Settled(d, w)' PROVE (Held(d, w) = view[d][w])'
    BY DEF Seen
  <2>1. d # c
    BY <1>1, SMTT(30) DEF Settled, IInv, FreeIsEmpty
  <2>2. status'[d] = status[d] /\ \A x \in Env : forking'[x].child = d => forking[x].child = d
    BY <2>1, <1>2, <1>3
  <2>3. Settled(d, w)
    BY <2>2, <1>1, <1>6 DEF Settled
  <2> QED  BY <2>3, <1>1 DEF IInv, Seen, Held
<1> QED  BY <1>7, <1>8, <1>9, <1>10, <1>11, <1>12, <1>13, <1>14 DEF IInv

\* The child starts to run.
LEMMA fork_doneInv ==
    ASSUME IInv, NEW e \in Env, fork_done(e)
    PROVE  IInv'
<1> DEFINE c == forking[e].child
<1>1. /\ status[e] = "runs" /\ fault[e] = NoFault /\ forking[e].step = "look"
      /\ UNCHANGED <<pte, pftemp, content, fault, view>>
  BY DEF fork_done, InFork
<1>2. c \in Env /\ status[c] = "embryo" /\ c # e
  BY <1>1 DEF IInv, ForkSteps
<1>3. NoFork \in [step : {"none"}, child : {NoEnv}, va : 0 .. NPAGE] /\ NoFork.step = "none" /\ NoFork.child = NoEnv
  BY ForkAssumption DEF NoFork
<1>4. \A d \in Env : status'[d] = IF d = c THEN "runs" ELSE status[d]
  BY <1>2 DEF IInv, TypeOK, fork_done
<1>5. \A d \in Env : forking'[d] = IF d = e THEN NoFork ELSE forking[d]
  BY Zenon DEF IInv, TypeOK, fork_done
<1>6. \A d \in Env : d # e /\ forking[d].step # "none" => forking[d].child # c /\ d # c
  BY <1>1, <1>2, SMTT(30) DEF IInv, OneParent, ForkSteps
<1>7. \A x \in Env, d \in Env, w \in VPage : HalfShared(x, d, w) => x # e /\ HalfShared(x, d, w)'
  BY <1>1, <1>5 DEF HalfShared
<1>10. TypeOK'
  BY <1>1, <1>2, <1>3, SMTT(30) DEF IInv, TypeOK, fork_done
<1>11. FaultSteps'
  <2> SUFFICES ASSUME NEW d \in Env PROVE FaultSteps!(d)'
    BY DEF FaultSteps
  <2>1. fault[d].step # "none" => status'[d] \in {"runs", "panicked"}
    BY <1>4 DEF IInv, FaultSteps
  <2> QED  BY <2>1, <1>1 DEF IInv, FaultSteps, Held
<1>12. ForkSteps'
  <2> SUFFICES ASSUME NEW d \in Env PROVE ForkSteps!(d)'
    BY DEF ForkSteps
  <2>1. CASE d = e
    BY <2>1, <1>3, <1>5, Zenon
  <2>2. CASE d # e
    BY <2>2, <1>1, <1>4, <1>5, <1>6, SMTT(30) DEF IInv, ForkSteps
  <2> QED  BY <2>1, <2>2
<1>13. OneParent'
  <2> SUFFICES ASSUME NEW x \in Env, NEW d \in Env, forking'[x].step # "none", forking'[d].child = forking'[x].child
               PROVE  x = d
    BY SMTT(30) DEF OneParent
  <2>1. x # e /\ forking'[x] = forking[x] /\ forking[x].child \in Env
    BY <1>3, <1>5 DEF IInv, ForkSteps
  <2>2. d # e
    BY <2>1, <1>3, <1>5, ForkAssumption, SMTT(30)
  <2> QED  BY <2>1, <2>2, <1>5 DEF IInv, OneParent
<1>14. FreeIsEmpty'
  BY <1>1, <1>4 DEF IInv, FreeIsEmpty
<1>15. TempAlone'
  BY <1>1 DEF IInv, TempAlone
<1>16. ShareAlike'
  BY <1>1 DEF IInv, ShareAlike
<1>17. WritableOnce'
  BY <1>1, <1>7 DEF IInv, WritableOnce
<1>18. Seen'
  <2> SUFFICES ASSUME NEW d \in Env, NEW w \in VPage, Settled(d, w)' PROVE (Held(d, w) = view[d][w])'
    BY DEF Seen
  <2>1. pte[d][w] # Unmapped
    BY <1>1 DEF Settled
  <2>2. \A x \in Env : ~HalfShared(x, d, w)
    BY <1>7 DEF Settled
  <2>3. status[d] = "embryo" => \E x \in Env : forking[x].child = d
    <3>1. CASE d = c
      BY <3>1
    <3>2. CASE d # c
      <4>1. status'[d] = "embryo" => \E x \in Env : forking'[x].child = d
        BY DEF Settled
      <4> QED  BY <4>1, <3>2, <1>3, <1>4, <1>5, ForkAssumption
    <3> QED  BY <3>1, <3>2
  <2>4. Settled(d, w)
    BY <2>1, <2>2, <2>3 DEF Settled
  <2> QED  BY <2>4, <1>1 DEF IInv, Seen, Held
<1> QED  BY <1>10, <1>11, <1>12, <1>13, <1>14, <1>15, <1>16, <1>17, <1>18 DEF IInv
=============================================================================
