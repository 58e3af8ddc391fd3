-------------------------------- MODULE Ipc ---------------------------------
(***************************************************************************)
(* Messages: sys_ipc_try_send and sys_ipc_recv of kern/syscall.c and the   *)
(* library calls around them, lib/ipc.c.  A system call is one step (big   *)
(* kernel lock, module Kernel); ipc_recv reads the message from the        *)
(* environment table afterwards, field by field, in user mode.  An         *)
(* environment that ends is gone: module Kernel shows that its id is not   *)
(* taken for that of a later user of the slot.                             *)
(***************************************************************************)
EXTENDS Integers

CONSTANTS
    Env, NoEnv,
    Value, NoMsg,   \* what is sent; "no message"
    Asks            \* the environments that give ipc_recv an address for a page

ASSUME IpcAssumption == NoEnv \notin Env /\ Asks \subseteq Env

VARIABLES
    env_ipc_recving,
    env_ipc_dstva,  \* TRUE: below UTOP, the receiver asks for a page
    env_ipc_from, env_ipc_value, env_ipc_perm,
    page,           \* history: the last message to the environment mapped a page
    pc,             \* where the environment is in ipc_send or ipc_recv
    arg,            \* the arguments of its ipc_send
    local,          \* what its ipc_recv has read so far
    ret             \* what its last ipc_recv returned

fields == <<env_ipc_recving, env_ipc_dstva, env_ipc_from, env_ipc_value,
            env_ipc_perm, page>>
vars == <<fields, pc, arg, local, ret>>

Arg == [to : Env, value : Value, page : BOOLEAN]
Ret == [from : Env \cup {NoEnv}, value : Value \cup {NoMsg}, page : BOOLEAN]
Pc == {"idle", "try", "recv", "perm", "from", "value", "dead"}

TypeOK ==
    /\ env_ipc_recving \in [Env -> BOOLEAN]
    /\ env_ipc_dstva \in [Env -> BOOLEAN]
    /\ env_ipc_from \in [Env -> Env \cup {NoEnv}]
    /\ env_ipc_value \in [Env -> Value \cup {NoMsg}]
    /\ env_ipc_perm \in [Env -> BOOLEAN]
    /\ page \in [Env -> BOOLEAN]
    /\ pc \in [Env -> Pc]
    /\ arg \in [Env -> Arg \cup {NoMsg}]
    /\ local \in [Env -> Ret \cup {NoMsg}] /\ ret \in [Env -> Ret \cup {NoMsg}]

Init ==
    /\ env_ipc_recving = [e \in Env |-> FALSE]
    /\ env_ipc_dstva = [e \in Env |-> FALSE]
    /\ env_ipc_from = [e \in Env |-> NoEnv]
    /\ env_ipc_value = [e \in Env |-> NoMsg]
    /\ env_ipc_perm = [e \in Env |-> FALSE]
    /\ page = [e \in Env |-> FALSE]
    /\ pc = [e \in Env |-> "idle"]
    /\ arg = [e \in Env |-> NoMsg]
    /\ local = [e \in Env |-> NoMsg] /\ ret = [e \in Env |-> NoMsg]

-----------------------------------------------------------------------------
\* ipc_send is called.
IpcSend(s, r, v, pg) ==
    /\ pc[s] = "idle"
    /\ pc' = [pc EXCEPT ![s] = "try"]
    /\ arg' = [arg EXCEPT ![s] = [to |-> r, value |-> v, page |-> pg]]
    /\ UNCHANGED <<fields, local, ret>>

Transferred(s) == arg[s].page /\ env_ipc_dstva[arg[s].to]

\* Fault: env_ipc_recving is not reset, so that a second send can follow.
IpcTrySendKeepsRecving(s) ==
    LET r == arg[s].to
    IN  /\ pc[s] = "try" /\ pc[r] # "dead" /\ env_ipc_recving[r]
        /\ env_ipc_perm' = [env_ipc_perm EXCEPT ![r] = Transferred(s)]
        /\ page' = [page EXCEPT ![r] = Transferred(s)]
        /\ env_ipc_from' = [env_ipc_from EXCEPT ![r] = s]
        /\ env_ipc_value' = [env_ipc_value EXCEPT ![r] = arg[s].value]
        /\ pc' = [pc EXCEPT ![s] = "idle", ![r] = IF @ = "recv" THEN "perm" ELSE @]
        /\ arg' = [arg EXCEPT ![s] = NoMsg]
        /\ UNCHANGED <<env_ipc_recving, env_ipc_dstva, local, ret>>

\* sys_ipc_try_send returns 0 and the sender leaves its loop.  With a page that
\* the receiver does not ask for, env_ipc_perm is left as it was.
IpcTrySend(s) ==
    LET r == arg[s].to
    IN  /\ pc[s] = "try" /\ pc[r] # "dead" /\ env_ipc_recving[r]
        /\ env_ipc_perm' = [env_ipc_perm EXCEPT ![r] =
                              IF ~arg[s].page THEN FALSE
                              ELSE IF env_ipc_dstva[r] THEN TRUE ELSE @]
        /\ page' = [page EXCEPT ![r] = Transferred(s)]
        /\ env_ipc_recving' = [env_ipc_recving EXCEPT ![r] = FALSE]
        /\ env_ipc_from' = [env_ipc_from EXCEPT ![r] = s]
        /\ env_ipc_value' = [env_ipc_value EXCEPT ![r] = arg[s].value]
        /\ pc' = [pc EXCEPT ![s] = "idle", ![r] = "perm"]
        /\ arg' = [arg EXCEPT ![s] = NoMsg]
        /\ UNCHANGED <<env_ipc_dstva, local, ret>>

\* exit, a fault or sys_env_destroy; env_ipc_recving is not reset.
Die(e) ==
    /\ pc[e] # "dead"
    /\ pc' = [pc EXCEPT ![e] = "dead"]
    /\ arg' = [arg EXCEPT ![e] = NoMsg]
    /\ local' = [local EXCEPT ![e] = NoMsg]
    /\ UNCHANGED <<fields, ret>>

\* ipc_send panics when the receiver is gone, or when page_insert finds no
\* memory for a page table; -E_IPC_NOT_RECV makes it yield and try again.
IpcSendPanic(s) ==
    LET r == arg[s].to
    IN  /\ pc[s] = "try"
        /\ pc[r] = "dead" \/ (env_ipc_recving[r] /\ Transferred(s))
        /\ Die(s)

\* ipc_recv calls sys_ipc_recv.
IpcRecv(r, wants) ==
    /\ pc[r] = "idle"
    /\ env_ipc_dstva' = [env_ipc_dstva EXCEPT ![r] = wants]
    /\ env_ipc_recving' = [env_ipc_recving EXCEPT ![r] = TRUE]
    /\ pc' = [pc EXCEPT ![r] = "recv"]
    /\ UNCHANGED <<env_ipc_from, env_ipc_value, env_ipc_perm, page, arg, local, ret>>

\* The rest of ipc_recv, in user mode: *perm_store, *from_env_store, the value.
ReadPerm(r) ==
    /\ pc[r] = "perm"
    /\ local' = [local EXCEPT ![r] = [from |-> NoEnv, value |-> NoMsg,
                                      page |-> env_ipc_perm[r]]]
    /\ pc' = [pc EXCEPT ![r] = "from"]
    /\ UNCHANGED <<fields, arg, ret>>

ReadFrom(r) ==
    /\ pc[r] = "from"
    /\ local' = [local EXCEPT ![r].from = env_ipc_from[r]]
    /\ pc' = [pc EXCEPT ![r] = "value"]
    /\ UNCHANGED <<fields, arg, ret>>

ReadValue(r) ==
    /\ pc[r] = "value"
    /\ ret' = [ret EXCEPT ![r] = [local[r] EXCEPT !.value = env_ipc_value[r]]]
    /\ local' = [local EXCEPT ![r] = NoMsg]
    /\ pc' = [pc EXCEPT ![r] = "idle"]
    /\ UNCHANGED <<fields, arg>>

Deliver(e) == IpcTrySend(e) \/ ReadPerm(e) \/ ReadFrom(e) \/ ReadValue(e)

\* The servers ask for a page in every ipc_recv, and only they are sent one.
Next ==
    \E e \in Env :
        \/ Deliver(e) \/ IpcSendPanic(e) \/ Die(e) \/ IpcRecv(e, e \in Asks)
        \/ \E r \in Env, v \in Value, pg \in BOOLEAN :
              (pg => r \in Asks) /\ IpcSend(e, r, v, pg)

\* Any use of the two calls.
AnyNext ==
    \E e \in Env :
        \/ Deliver(e) \/ IpcSendPanic(e) \/ Die(e)
        \/ \E wants \in BOOLEAN : IpcRecv(e, wants)
        \/ \E r \in Env, v \in Value, pg \in BOOLEAN : IpcSend(e, r, v, pg)

Spec == Init /\ [][Next]_vars
AnySpec == Init /\ [][AnyNext]_vars

-----------------------------------------------------------------------------
\* Properties.

\* sys_ipc_try_send, of a message just delivered: env_ipc_perm is set to perm if
\* a page was transferred, 0 otherwise.
PermMeansPage == \A r \in Env : pc[r] = "perm" => env_ipc_perm[r] = page[r]

Abstract(e) ==
    CASE pc[e] = "idle" -> "busy"
      [] pc[e] = "try" -> "sending"
      [] pc[e] = "recv" -> IF env_ipc_dstva[e] THEN "waiting for a page" ELSE "waiting"
      [] pc[e] \in {"perm", "from", "value"} -> "met"
      [] OTHER -> "dead"

State == [e \in Env |-> Abstract(e)]

\* The message in the environment table, until ipc_recv returns it.
Message == [e \in Env |->
              IF pc[e] \in {"perm", "from", "value"}
              THEN [from |-> env_ipc_from[e], value |-> env_ipc_value[e],
                    page |-> page[e]]
              ELSE NoMsg]

R == INSTANCE Rendezvous WITH state <- State, out <- arg, in <- Message

\* ipc_send and ipc_recv implement the rendezvous: each receive returns what the
\* one send it met carried.  The fields of the environment table that hold the
\* message are not overwritten before the receiver has read them all, and a
\* failed send leaves the receiver waiting.
ImplementsRendezvous == R!Spec
=============================================================================
