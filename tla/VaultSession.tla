---------------------------- MODULE VaultSession ----------------------------
(***************************************************************************)
(* What the unlock agent promises about its secrets, with no server, no    *)
(* clients, no connections and no clock.                                   *)
(*                                                                         *)
(* A token is granted for one entry while a session is open, may be        *)
(* redeemed once, and is worthless when it lapses or when its session      *)
(* ends.  A session that has expired grants and redeems nothing more, and  *)
(* nothing but a new unlock brings it back.                                *)
(***************************************************************************)
EXTENDS Naturals, Sequences

CONSTANTS Names, Sessions

VARIABLES
    session,   \* the open session, 0 when the vault is locked
    expired,   \* whether its time is up, noticed or not
    issued,    \* the entry and session of each token granted
    live,      \* tokens that can be redeemed
    used       \* tokens that were

vars == <<session, expired, issued, live, used>>

Init ==
    /\ session = 0 /\ expired = FALSE
    /\ issued = <<>> /\ live = {} /\ used = {}

Open ==
    /\ session' \in Sessions \ {session}
    /\ expired' \in BOOLEAN
    /\ live' = {}
    /\ UNCHANGED <<issued, used>>

Close ==
    /\ session # 0
    /\ session' = 0 /\ expired' = FALSE
    /\ live' = {}
    /\ UNCHANGED <<issued, used>>

Grant ==
    /\ session # 0 /\ ~expired
    /\ \E n \in Names : issued' = Append(issued, [name |-> n, session |-> session])
    /\ live' \subseteq live \cup {Len(issued')}
    /\ UNCHANGED <<session, expired, used>>

Redeem ==
    /\ session # 0 /\ ~expired
    /\ \E t \in live :
         /\ used' = used \cup {t}
         /\ live' = live \ {t}
    /\ UNCHANGED <<session, expired, issued>>

\* Time passes, or a redemption fails.
Lapse ==
    /\ session # 0
    /\ live' \subseteq live
    /\ expired' \in {expired, TRUE}
    /\ UNCHANGED <<session, issued, used>>

Next == Open \/ Close \/ Grant \/ Redeem \/ Lapse

Spec == Init /\ [][Next]_vars
=============================================================================
