--------------------------- MODULE BatchLifecycle ---------------------------
(***************************************************************************)
(* What the hub promises about unbonding, with amounts, time, validators   *)
(* and the chain left out.  Batches are opened one after another; users    *)
(* add shares only to the open batch; the open batch, once it holds        *)
(* shares, is submitted and starts unbonding, and the next one opens; an   *)
(* unbonding batch is reconciled; a user withdraws only from reconciled    *)
(* batches, taking all of their request at once; a batch is closed as     *)
(* soon as its last request has been withdrawn, and never reopens.         *)
(*                                                                         *)
(* Hub.tla is shown to implement this specification (LifecycleRefined).   *)
(***************************************************************************)
EXTENDS Naturals, FiniteSetsExt

CONSTANTS Users, BatchIds    \* BatchIds is 1..N

VARIABLES
    current,    \* id of the open batch
    status,     \* batch id -> one of Status
    requests    \* <<batch id, user>> -> shares requested, 0 for none

vars == <<current, status, requests>>

Status == {"future", "open", "unbonding", "reconciled", "closed"}

TypeOK ==
    /\ current \in BatchIds /\ status \in [BatchIds -> Status]
    /\ requests \in [BatchIds \X Users -> Nat]

Init ==
    /\ current = 1
    /\ status = [id \in BatchIds |-> IF id = 1 THEN "open" ELSE "future"]
    /\ requests = [k \in BatchIds \X Users |-> 0]

Holders(id) == {u \in Users : requests[<<id, u>>] > 0}

(* u adds shares to its request in the open batch.                         *)
Request(u) ==
    /\ requests'[<<current, u>>] > requests[<<current, u>>]
    /\ requests' = [requests EXCEPT ![<<current, u>>] = requests'[<<current, u>>]]
    /\ UNCHANGED <<current, status>>

(* The open batch, holding shares, starts unbonding; the next one opens.   *)
Submit ==
    /\ Holders(current) # {}
    /\ current + 1 \in BatchIds
    /\ status' = [status EXCEPT ![current] = "unbonding", ![current + 1] = "open"]
    /\ current' = current + 1
    /\ UNCHANGED requests

(* A request that makes the open batch due submits it at once.             *)
RequestAndSubmit(u) ==
    /\ requests'[<<current, u>>] > requests[<<current, u>>]
    /\ requests' = [requests EXCEPT ![<<current, u>>] = requests'[<<current, u>>]]
    /\ current + 1 \in BatchIds
    /\ status' = [status EXCEPT ![current] = "unbonding", ![current + 1] = "open"]
    /\ current' = current + 1

(* Some unbonding batches become reconciled.                               *)
Reconcile(D) ==
    /\ D # {} /\ \A id \in D : status[id] = "unbonding"
    /\ status' = [id \in BatchIds |-> IF id \in D THEN "reconciled" ELSE status[id]]
    /\ UNCHANGED <<current, requests>>

(* u withdraws its whole request from the reconciled batches D; a batch    *)
(* left with no request is closed.                                         *)
Withdraw(u, D) ==
    /\ D # {}
    /\ \A id \in D : status[id] = "reconciled" /\ requests[<<id, u>>] > 0
    /\ requests' = [k \in BatchIds \X Users |->
                      IF k[1] \in D /\ k[2] = u THEN 0 ELSE requests[k]]
    /\ status' = [id \in BatchIds |->
                    IF id \in D /\ Holders(id) = {u} THEN "closed" ELSE status[id]]
    /\ UNCHANGED current

Next ==
    \/ \E u \in Users : Request(u) \/ RequestAndSubmit(u)
    \/ Submit
    \/ \E D \in SUBSET BatchIds : Reconcile(D)
    \/ \E u \in Users, D \in SUBSET BatchIds : Withdraw(u, D)

Spec == Init /\ [][Next]_vars

=============================================================================
