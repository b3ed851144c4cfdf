----------------------------- MODULE MCSession -----------------------------
(* Small instances of Session for TLC. *)
EXTENDS Session, TLC

CONSTANTS c1, c2, c3, k1, k2

\* One client uses transactions, the other a queue and subscriptions.
UsesDifferent ==
    [c \in Client |->
       IF c = c1 THEN {"get", "watch", "unwatch", "multi", "exec", "discard"}
       ELSE {"blpop", "subscribe", "unsubscribe"}]

UsesAny == [c \in Client |-> Command]

UsesBlocking == [c \in Client |-> {"get", "blpop"}]

UsesQueue == [c \in Client |-> {"blpop"}]

Symmetry == Permutations(Private)
=============================================================================
