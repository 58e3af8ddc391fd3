----------------------------- MODULE IpcProofs -----------------------------
(***************************************************************************)
(* Proof that module Ipc implements the abstract rendezvous, for any set   *)
(* of environments and values.                                             *)
(***************************************************************************)
EXTENDS Ipc, TLAPS

Reading == {"perm", "from", "value"}

\* An environment that can be sent a message is blocked; one that sends knows to
\* whom; a page goes only to an environment that asks for it.
SendInv ==
    /\ pc \in [Env -> Pc]
    /\ env_ipc_recving \in [Env -> BOOLEAN] /\ env_ipc_dstva \in [Env -> BOOLEAN]
    /\ DOMAIN arg = Env
    /\ \A e \in Env :
        /\ env_ipc_recving[e] /\ pc[e] # "dead" => pc[e] = "recv"
        /\ pc[e] = "recv" => (env_ipc_dstva[e] <=> e \in Asks)
        /\ pc[e] = "try" => arg[e] \in Arg /\ (arg[e].page => arg[e].to \in Asks)

\* What ipc_recv has read is what the last message was.
ReadInv ==
    /\ env_ipc_from \in [Env -> Env \cup {NoEnv}]
    /\ env_ipc_value \in [Env -> Value \cup {NoMsg}]
    /\ env_ipc_perm \in [Env -> BOOLEAN] /\ page \in [Env -> BOOLEAN]
    /\ DOMAIN local = Env /\ DOMAIN ret = Env
    /\ \A e \in Env :
        /\ pc[e] = "perm" => env_ipc_perm[e] = page[e]
        /\ pc[e] \in {"from", "value"} => local[e] \in Ret /\ local[e].page = page[e]
        /\ pc[e] = "value" => local[e].from = env_ipc_from[e]

IInv == SendInv /\ ReadInv

LEMMA InitIInv == Init => IInv
  BY DEF Init, IInv, SendInv, ReadInv, Pc

\* One step of Next preserves SendInv.
LEMMA SendStep == SendInv /\ [Next]_vars => SendInv'
<1> SUFFICES ASSUME SendInv, [Next]_vars PROVE SendInv'
  OBVIOUS
<1>1. CASE UNCHANGED vars
  BY <1>1 DEF SendInv, vars, fields
<1>2. ASSUME NEW e \in Env, NEW r \in Env, NEW v \in Value, NEW pg \in BOOLEAN,
             pg => r \in Asks, IpcSend(e, r, v, pg)
      PROVE  SendInv'
  BY <1>2 DEF SendInv, IpcSend, fields, Pc, Arg
<1>3. ASSUME NEW e \in Env, IpcTrySend(e) PROVE SendInv'
  <2> DEFINE r == arg[e].to
  <2>1. r \in Env /\ pc[e] = "try" /\ pc[r] = "recv"
    BY <1>3 DEF IpcTrySend, SendInv, Arg
  <2>2. /\ pc' = [pc EXCEPT ![e] = "idle", ![r] = "perm"]
        /\ env_ipc_recving' = [env_ipc_recving EXCEPT ![r] = FALSE]
        /\ arg' = [arg EXCEPT ![e] = NoMsg]
        /\ env_ipc_dstva' = env_ipc_dstva
    BY <1>3 DEF IpcTrySend
  <2> HIDE DEF r
  <2> QED
    BY <2>1, <2>2 DEF SendInv, Pc
<1>4. ASSUME NEW e \in Env, Die(e) PROVE SendInv'
  BY <1>4 DEF SendInv, Die, fields, Pc
<1>5. ASSUME NEW e \in Env, IpcSendPanic(e) PROVE SendInv'
  BY <1>4, <1>5 DEF IpcSendPanic
<1>6. ASSUME NEW e \in Env, IpcRecv(e, e \in Asks) PROVE SendInv'
  <2>1. PICK b \in BOOLEAN : (b <=> e \in Asks) /\ IpcRecv(e, b)
    <3>1. (e \in Asks) \in BOOLEAN
      OBVIOUS
    <3> QED
      BY <1>6, <3>1, Zenon
  <2> QED
    BY <2>1 DEF SendInv, IpcRecv, Pc
<1>7. ASSUME NEW e \in Env, ReadPerm(e) \/ ReadFrom(e) \/ ReadValue(e) PROVE SendInv'
  BY <1>7 DEF SendInv, ReadPerm, ReadFrom, ReadValue, fields, Pc
<1> QED
  BY <1>1, <1>2, <1>3, <1>4, <1>5, <1>6, <1>7 DEF Next, Deliver

LEMMA ReadStep == IInv /\ [Next]_vars => ReadInv'
<1> SUFFICES ASSUME SendInv, ReadInv, [Next]_vars PROVE ReadInv'
  BY DEF IInv
<1>1. CASE UNCHANGED vars
  BY <1>1 DEF ReadInv, vars, fields
<1>2. ASSUME NEW e \in Env, NEW r \in Env, NEW v \in Value, NEW pg \in BOOLEAN,
             IpcSend(e, r, v, pg)
      PROVE  ReadInv'
  BY <1>2 DEF SendInv, ReadInv, IpcSend, fields
<1>3. ASSUME NEW e \in Env, IpcTrySend(e) PROVE ReadInv'
  <2> DEFINE r == arg[e].to
  <2>1. r \in Env /\ arg[e].value \in Value /\ arg[e].page \in BOOLEAN
    BY <1>3 DEF IpcTrySend, SendInv, Arg
  <2>2. pc[r] = "recv" /\ (env_ipc_dstva[r] <=> r \in Asks) /\ (arg[e].page => r \in Asks)
    BY <1>3, <2>1 DEF IpcTrySend, SendInv
  <2>3. env_ipc_perm'[r] = page'[r]
    BY <1>3, <2>1, <2>2, Zenon DEF IpcTrySend, ReadInv, Transferred, SendInv
  <2>4. pc' = [pc EXCEPT ![e] = "idle", ![r] = "perm"]
    BY <1>3 DEF IpcTrySend
  <2>5. /\ env_ipc_from' = [env_ipc_from EXCEPT ![r] = e]
        /\ env_ipc_value' = [env_ipc_value EXCEPT ![r] = arg[e].value]
        /\ page' = [page EXCEPT ![r] = arg[e].page /\ env_ipc_dstva[r]]
        /\ env_ipc_perm' \in [Env -> BOOLEAN]
        /\ \A x \in Env : x # r => env_ipc_perm'[x] = env_ipc_perm[x]
        /\ local' = local /\ ret' = ret
    BY <1>3, <2>1, Zenon DEF IpcTrySend, Transferred, ReadInv
  <2> HIDE DEF r
  <2> QED
    BY <2>1, <2>2, <2>3, <2>4, <2>5 DEF ReadInv, SendInv
<1>4. ASSUME NEW e \in Env, Die(e) PROVE ReadInv'
  BY <1>4 DEF SendInv, ReadInv, Die, fields
<1>5. ASSUME NEW e \in Env, IpcSendPanic(e) PROVE ReadInv'
  BY <1>4, <1>5 DEF IpcSendPanic
<1>6. ASSUME NEW e \in Env, IpcRecv(e, e \in Asks) PROVE ReadInv'
  BY <1>6 DEF SendInv, ReadInv, IpcRecv
<1>7. ASSUME NEW e \in Env, ReadPerm(e) PROVE ReadInv'
  BY <1>7 DEF SendInv, ReadInv, ReadPerm, fields, Ret
<1>8. ASSUME NEW e \in Env, ReadFrom(e) PROVE ReadInv'
  BY <1>8 DEF SendInv, ReadInv, ReadFrom, fields, Ret
<1>9. ASSUME NEW e \in Env, ReadValue(e) PROVE ReadInv'
  BY <1>9 DEF SendInv, ReadInv, ReadValue, fields, Ret
<1> QED
  BY <1>1, <1>2, <1>3, <1>4, <1>5, <1>6, <1>7, <1>8, <1>9 DEF Next, Deliver

\* What the types need besides themselves: a send in progress has arguments, and
\* a receive that has read the permission has a result in the making.
Typed ==
    /\ TypeOK
    /\ \A e \in Env :
        /\ pc[e] = "try" => arg[e] \in Arg
        /\ pc[e] \in {"from", "value"} => local[e] \in Ret

LEMMA InitTyped == Init => Typed
  BY DEF Init, Typed, TypeOK, Pc

\* One step of any use of the two calls preserves the types.
LEMMA TypedStep == Typed /\ [AnyNext]_vars => Typed'
<1> SUFFICES ASSUME Typed, [AnyNext]_vars PROVE Typed'
  OBVIOUS
<1> USE DEF Typed, TypeOK
<1>1. CASE UNCHANGED vars
  BY <1>1 DEF vars, fields
<1>2. ASSUME NEW e \in Env, NEW r \in Env, NEW v \in Value, NEW pg \in BOOLEAN,
             IpcSend(e, r, v, pg)
      PROVE  Typed'
  <2>1. [to |-> r, value |-> v, page |-> pg] \in Arg
    BY DEF Arg
  <2> QED
    BY <1>2, <2>1 DEF IpcSend, fields, Pc
<1>3. ASSUME NEW e \in Env, IpcTrySend(e) PROVE Typed'
  <2> DEFINE r == arg[e].to
  <2>1. r \in Env /\ arg[e].value \in Value /\ arg[e].page \in BOOLEAN
    BY <1>3 DEF IpcTrySend, Arg
  <2>2. env_ipc_perm' \in [Env -> BOOLEAN] /\ page' \in [Env -> BOOLEAN]
    BY <1>3, <2>1, Zenon DEF IpcTrySend, Transferred
  <2>3. /\ pc' = [pc EXCEPT ![e] = "idle", ![r] = "perm"]
        /\ env_ipc_recving' = [env_ipc_recving EXCEPT ![r] = FALSE]
        /\ env_ipc_from' = [env_ipc_from EXCEPT ![r] = e]
        /\ env_ipc_value' = [env_ipc_value EXCEPT ![r] = arg[e].value]
        /\ arg' = [arg EXCEPT ![e] = NoMsg]
        /\ UNCHANGED <<env_ipc_dstva, local, ret>>
    BY <1>3 DEF IpcTrySend
  <2> HIDE DEF r
  <2> QED
    BY <2>1, <2>2, <2>3 DEF Pc
<1>4. ASSUME NEW e \in Env, Die(e) PROVE Typed'
  BY <1>4 DEF Die, fields, Pc
<1>5. ASSUME NEW e \in Env, IpcSendPanic(e) PROVE Typed'
  BY <1>4, <1>5 DEF IpcSendPanic
<1>6. ASSUME NEW e \in Env, NEW wants \in BOOLEAN, IpcRecv(e, wants) PROVE Typed'
  BY <1>6 DEF IpcRecv, Pc
<1>7. ASSUME NEW e \in Env, ReadPerm(e) PROVE Typed'
  BY <1>7 DEF ReadPerm, fields, Ret, Pc
<1>8. ASSUME NEW e \in Env, ReadFrom(e) PROVE Typed'
  BY <1>8 DEF ReadFrom, fields, Ret, Pc
<1>9. ASSUME NEW e \in Env, ReadValue(e) PROVE Typed'
  BY <1>9 DEF ReadValue, fields, Ret, Pc
<1> QED
  BY <1>1, <1>2, <1>3, <1>4, <1>5, <1>6, <1>7, <1>8, <1>9 DEF AnyNext, Deliver

\* Whatever environments do with the two calls, the fields of the environment
\* table, the arguments of ipc_send and the results of ipc_recv keep their types.
THEOREM TypeCorrect == AnySpec => []TypeOK
<1>1. Typed => TypeOK
  BY DEF Typed
<1> QED
  BY InitTyped, TypedStep, <1>1, PTL DEF AnySpec

\* The two parts together.
THEOREM Invariance == Spec => []IInv
<1>1. IInv /\ [Next]_vars => IInv'
  BY SendStep, ReadStep DEF IInv
<1> QED
  BY InitIInv, <1>1, PTL DEF Spec

-----------------------------------------------------------------------------
\* The refinement: every step is a step of the rendezvous, or none.

LEMMA SendSim ==
    ASSUME SendInv, NEW e \in Env, NEW r \in Env, NEW v \in Value, NEW pg \in BOOLEAN,
           IpcSend(e, r, v, pg)
    PROVE  R!Send(e)
<1>1. pc[e] = "idle" /\ pc' = [pc EXCEPT ![e] = "try"] /\ env_ipc_dstva' = env_ipc_dstva
  BY DEF IpcSend, fields
<1>2. State' = [State EXCEPT ![e] = "sending"] /\ State[e] = "busy"
  BY <1>1, Zenon DEF State, Abstract, SendInv
<1>3. Message' = Message
  BY <1>1 DEF Message, SendInv, IpcSend, fields
<1> QED
  BY <1>2, <1>3, Zenon DEF R!Send, IpcSend

LEMMA RecvSim ==
    ASSUME SendInv, NEW e \in Env, NEW wants \in BOOLEAN, IpcRecv(e, wants)
    PROVE  R!Receive(e)
<1>1. /\ pc[e] = "idle" /\ pc' = [pc EXCEPT ![e] = "recv"]
      /\ env_ipc_dstva' = [env_ipc_dstva EXCEPT ![e] = wants]
  BY DEF IpcRecv
<1>2. PICK w \in {"waiting", "waiting for a page"} :
          State' = [State EXCEPT ![e] = w] /\ State[e] = "busy"
  <2> DEFINE w == IF wants THEN "waiting for a page" ELSE "waiting"
  <2> State' = [State EXCEPT ![e] = w] /\ State[e] = "busy"
    BY <1>1, Zenon DEF State, Abstract, SendInv
  <2> QED
    BY Zenon
<1>3. Message' = Message
  BY <1>1, Zenon DEF Message, SendInv, IpcRecv
<1> QED
  BY <1>2, <1>3, Zenon DEF R!Receive, IpcRecv

LEMMA DieSim ==
    ASSUME SendInv, NEW e \in Env, Die(e)
    PROVE  R!Die(e)
<1>1. pc[e] # "dead" /\ pc' = [pc EXCEPT ![e] = "dead"] /\ env_ipc_dstva' = env_ipc_dstva
  BY DEF Die, fields
<1>2. State' = [State EXCEPT ![e] = "dead"] /\ State[e] # "dead"
  BY <1>1, Zenon DEF State, Abstract, SendInv, Pc
<1>3. Message' = [Message EXCEPT ![e] = NoMsg]
  BY <1>1, Zenon DEF Message, SendInv, Die, fields
<1> QED
  BY <1>2, <1>3 DEF R!Die, Die

LEMMA MeetSim ==
    ASSUME IInv, NEW e \in Env, IpcTrySend(e)
    PROVE  R!Meet(e, arg[e].to) /\ arg[e].to \in Env
<1> DEFINE r == arg[e].to
<1>1. r \in Env /\ pc[e] = "try" /\ pc[r] = "recv"
  BY DEF IInv, IpcTrySend, SendInv, Arg
<1>2. /\ pc' = [pc EXCEPT ![e] = "idle", ![r] = "perm"]
      /\ env_ipc_from' = [env_ipc_from EXCEPT ![r] = e]
      /\ env_ipc_value' = [env_ipc_value EXCEPT ![r] = arg[e].value]
      /\ page' = [page EXCEPT ![r] = arg[e].page /\ env_ipc_dstva[r]]
      /\ env_ipc_dstva' = env_ipc_dstva
  BY DEF IpcTrySend, Transferred
<1>3. State[e] = "sending" /\ State[r] = (IF env_ipc_dstva[r] THEN "waiting for a page" ELSE "waiting")
  BY <1>1, Zenon DEF State, Abstract
<1> HIDE DEF r
<1>4. State' = [State EXCEPT ![e] = "busy", ![r] = "met"]
  BY <1>1, <1>2, Zenon DEF State, Abstract, IInv, SendInv
<1>5. Message' = [Message EXCEPT ![r] = [from |-> e, value |-> arg[e].value,
                                         page |-> arg[e].page /\ State[r] # "waiting"]]
  BY <1>1, <1>2, <1>3, Zenon DEF Message, IInv, SendInv, ReadInv
<1>6. arg' = [arg EXCEPT ![e] = NoMsg] /\ ret' = ret /\ arg[e].to = r
  BY DEF IpcTrySend, r
<1> QED
  BY <1>1, <1>3, <1>4, <1>5, <1>6, Zenon DEF R!Meet

LEMMA ReadSim ==
    ASSUME IInv, NEW e \in Env, ReadPerm(e) \/ ReadFrom(e)
    PROVE  UNCHANGED <<State, arg, Message, ret>>
<1>0. /\ pc[e] \in Reading /\ env_ipc_dstva' = env_ipc_dstva
      /\ \E p \in Reading : pc' = [pc EXCEPT ![e] = p]
  BY DEF ReadPerm, ReadFrom, fields, Reading
<1>1. \A x \in Env : Abstract(x)' = Abstract(x)
  BY <1>0, ZenonT(40) DEF Abstract, IInv, SendInv, Reading
<1>2. Message' = Message
  BY DEF Message, IInv, SendInv, ReadPerm, ReadFrom, fields
<1> QED
  BY <1>1, <1>2 DEF State, ReadPerm, ReadFrom

LEMMA ReturnSim ==
    ASSUME IInv, NEW e \in Env, ReadValue(e)
    PROVE  R!Return(e)
<1>1. pc[e] = "value" /\ pc' = [pc EXCEPT ![e] = "idle"] /\ env_ipc_dstva' = env_ipc_dstva
  BY DEF ReadValue, fields
<1>2. State' = [State EXCEPT ![e] = "busy"] /\ State[e] = "met"
  BY <1>1, Zenon DEF State, Abstract, IInv, SendInv
<1>3. Message' = [Message EXCEPT ![e] = NoMsg]
  BY <1>1, Zenon DEF Message, IInv, SendInv, ReadValue, fields
<1>4. [local[e] EXCEPT !.value = env_ipc_value[e]] = Message[e]
  BY <1>1 DEF Message, IInv, ReadInv, Ret
<1> QED
  BY <1>2, <1>3, <1>4, Zenon DEF R!Return, ReadValue

\* ipc_send and ipc_recv implement the rendezvous: every receive returns the
\* sender, the value and the page of the one send it met.
THEOREM Refinement == Spec => ImplementsRendezvous
<1>1. Init => R!Init
  BY DEF Init, R!Init, State, Abstract, Message
<1>2. IInv /\ [Next]_vars => [R!Next]_(R!vars)
  <2> SUFFICES ASSUME IInv, [Next]_vars PROVE R!Next \/ UNCHANGED R!vars
    OBVIOUS
  <2> USE DEF R!vars
  <2>1. CASE UNCHANGED vars
    <3>1. \A x \in Env : Abstract(x)' = Abstract(x)
      BY <2>1 DEF vars, fields, Abstract
    <3> QED
      BY <2>1, <3>1 DEF vars, fields, State, Message
  <2>2. ASSUME NEW e \in Env, NEW r \in Env, NEW v \in Value, NEW pg \in BOOLEAN,
               IpcSend(e, r, v, pg)
        PROVE  R!Next
    BY <2>2, SendSim DEF R!Next, IInv
  <2>3. ASSUME NEW e \in Env, IpcTrySend(e) PROVE R!Next
    BY <2>3, MeetSim DEF R!Next
  <2>4. ASSUME NEW e \in Env, Die(e) PROVE R!Next
    BY <2>4, DieSim DEF R!Next, IInv
  <2>5. ASSUME NEW e \in Env, IpcSendPanic(e) PROVE R!Next
    BY <2>4, <2>5 DEF IpcSendPanic
  <2>6. ASSUME NEW e \in Env, IpcRecv(e, e \in Asks) PROVE R!Next
    <3>1. (e \in Asks) \in BOOLEAN
      OBVIOUS
    <3> QED
      BY <2>6, <3>1, RecvSim, Zenon DEF R!Next, IInv
  <2>7. ASSUME NEW e \in Env, ReadPerm(e) \/ ReadFrom(e) PROVE UNCHANGED R!vars
    BY <2>7, ReadSim
  <2>8. ASSUME NEW e \in Env, ReadValue(e) PROVE R!Next
    BY <2>8, ReturnSim DEF R!Next
  <2> QED
    BY <2>1, <2>2, <2>3, <2>4, <2>5, <2>6, <2>7, <2>8 DEF Next, Deliver
<1> QED
  BY Invariance, <1>1, <1>2, PTL DEF Spec, R!Spec, ImplementsRendezvous
=============================================================================
