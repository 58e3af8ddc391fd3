----------------------------- MODULE Rendezvous -----------------------------
(***************************************************************************)
(* What the message calls of JOS promise: a send and a receive meet, once, *)
(* and the receive returns what that send carried.  A message is a sender, *)
(* a value, and whether a page came with it.  An environment may end at    *)
(* any time; a send to one that has ended, or that cannot be completed,    *)
(* ends the sender.                                                        *)
(***************************************************************************)
EXTENDS Integers

CONSTANTS Env, Value, NoMsg

VARIABLES
    state,  \* what each environment is doing
    out,    \* the receiver and the message of a send in progress
    in,     \* the message met by a receive that has not returned
    ret     \* what the last receive returned

vars == <<state, out, in, ret>>

Init ==
    /\ state = [e \in Env |-> "busy"]
    /\ out = [e \in Env |-> NoMsg]
    /\ in = [e \in Env |-> NoMsg]
    /\ ret = [e \in Env |-> NoMsg]

Send(s) ==
    /\ state[s] = "busy"
    /\ \E r \in Env, v \in Value, pg \in BOOLEAN :
        out' = [out EXCEPT ![s] = [to |-> r, value |-> v, page |-> pg]]
    /\ state' = [state EXCEPT ![s] = "sending"]
    /\ UNCHANGED <<in, ret>>

\* wants: the receiver has room for a page.
Receive(r) ==
    /\ state[r] = "busy"
    /\ \E w \in {"waiting", "waiting for a page"} : state' = [state EXCEPT ![r] = w]
    /\ UNCHANGED <<out, in, ret>>

Meet(s, r) ==
    /\ state[s] = "sending" /\ out[s].to = r
    /\ state[r] \in {"waiting", "waiting for a page"}
    /\ in' = [in EXCEPT ![r] = [from |-> s, value |-> out[s].value,
                                page |-> out[s].page /\ state[r] # "waiting"]]
    /\ out' = [out EXCEPT ![s] = NoMsg]
    /\ state' = [state EXCEPT ![s] = "busy", ![r] = "met"]
    /\ UNCHANGED ret

Return(r) ==
    /\ state[r] = "met"
    /\ ret' = [ret EXCEPT ![r] = in[r]]
    /\ in' = [in EXCEPT ![r] = NoMsg]
    /\ state' = [state EXCEPT ![r] = "busy"]
    /\ UNCHANGED out

Die(e) ==
    /\ state[e] # "dead"
    /\ state' = [state EXCEPT ![e] = "dead"]
    /\ out' = [out EXCEPT ![e] = NoMsg]
    /\ in' = [in EXCEPT ![e] = NoMsg]
    /\ UNCHANGED ret

Next ==
    \E e \in Env :
        \/ Send(e) \/ Receive(e) \/ Return(e) \/ Die(e)
        \/ \E r \in Env : Meet(e, r)

Spec == Init /\ [][Next]_vars
=============================================================================
