----------------------------- MODULE Witnesses ------------------------------
(***************************************************************************)
(* What the program promises about a timestamp, with no money in it: an id *)
(* is witnessed by a nonempty set of supporters from the moment it is      *)
(* stamped, its stamp is the time of that moment and never changes, only a *)
(* supporter ends their own support, and the id is forgotten exactly when  *)
(* the last supporter leaves.                                              *)
(***************************************************************************)
EXTENDS Naturals

CONSTANT People

VARIABLES
    supporters,  \* id -> who supports it, for the ids that are witnessed
    stamp,       \* id -> when it was witnessed first
    now

wvars == <<supporters, stamp, now>>

Founded(S, i, u) == [j \in DOMAIN S \cup {i} |-> IF j = i THEN {u} ELSE S[j]]
Without(S, i) == [j \in DOMAIN S \ {i} |-> S[j]]

\* Support as it is after u leaves i: an id with nobody left is gone.
Left(S, i, u) == IF S[i] = {u} THEN Without(S, i) ELSE [S EXCEPT ![i] = @ \ {u}]

WInit ==
    /\ supporters = <<>>
    /\ stamp = <<>>
    /\ now = 0

\* u stamps an id nobody witnesses.  Time zero stamps nothing.
Found(u, i) ==
    /\ i \notin DOMAIN supporters
    /\ now # 0
    /\ supporters' = Founded(supporters, i, u)
    /\ stamp' = [j \in DOMAIN supporters' |-> IF j = i THEN now ELSE stamp[j]]
    /\ UNCHANGED now

Support(u, i) ==
    /\ i \in DOMAIN supporters /\ u \notin supporters[i]
    /\ supporters' = [supporters EXCEPT ![i] = @ \cup {u}]
    /\ UNCHANGED <<stamp, now>>

Withdraw(u, i) ==
    /\ i \in DOMAIN supporters /\ u \in supporters[i]
    /\ supporters' = Left(supporters, i, u)
    /\ stamp' = [j \in DOMAIN supporters' |-> stamp[j]]
    /\ UNCHANGED now

\* u stamps i and leaves the id it derives from, at once.
Move(u, old, i) ==
    /\ i \notin DOMAIN supporters
    /\ old \in DOMAIN supporters /\ u \in supporters[old]
    /\ now # 0
    /\ supporters' = Left(Founded(supporters, i, u), old, u)
    /\ stamp' = [j \in DOMAIN supporters' |-> IF j = i THEN now ELSE stamp[j]]
    /\ UNCHANGED now

Pass ==
    /\ now' = now + 1
    /\ UNCHANGED <<supporters, stamp>>

WNext ==
    \/ \E u \in People :
          \/ \E i \in DOMAIN supporters' :
                \/ Found(u, i)
                \/ \E old \in DOMAIN supporters : Move(u, old, i)
          \/ \E i \in DOMAIN supporters : Support(u, i) \/ Withdraw(u, i)
    \/ Pass

WSpec == WInit /\ [][WNext]_wvars
=============================================================================
