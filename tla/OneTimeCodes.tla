---------------------------- MODULE OneTimeCodes ----------------------------
(***************************************************************************)
(* What the short-code store promises, with no database in it: every       *)
(* (usage, target) pair has at most one code that can still be redeemed,   *)
(* issuing a code takes the place of the one before it, and a code is      *)
(* redeemed once.  ShortCodes.tla is the implementation.                   *)
(***************************************************************************)
CONSTANTS Pairs,    \* the (usage, target) pairs codes are issued for
          Codes     \* the identities of the codes

VARIABLES issued,   \* the codes issued so far
          live,     \* live[p]: the codes of p that can still be redeemed
          spent     \* the codes that were redeemed

vars == <<issued, live, spent>>

Init == /\ issued = {}
        /\ live = [p \in Pairs |-> {}]
        /\ spent = {}

\* The new code is the only one of its pair that can be redeemed from here on.
Issue(p, c) == /\ c \notin issued
               /\ issued' = issued \union {c}
               /\ live' = [live EXCEPT ![p] = {c}]
               /\ UNCHANGED spent

Redeem(p, c) == /\ live[p] = {c}
                /\ c \notin spent
                /\ live' = [live EXCEPT ![p] = {}]
                /\ spent' = spent \union {c}
                /\ UNCHANGED issued

Next == \E p \in Pairs, c \in Codes : Issue(p, c) \/ Redeem(p, c)

Spec == Init /\ [][Next]_vars

-----------------------------------------------------------------------------
TypeOK == /\ issued \subseteq Codes
          /\ live \in [Pairs -> SUBSET issued]
          /\ spent \subseteq issued

\* At most one redeemable code per pair, and none of them redeemed before.
OneLiveCode == /\ \A p \in Pairs : \A c, d \in live[p] : c = d
               /\ \A p \in Pairs : live[p] \intersect spent = {}
=============================================================================
