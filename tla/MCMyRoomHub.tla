----------------------------- MODULE MCMyRoomHub -----------------------------
EXTENDS MyRoomHub, TLC

CONSTANTS ann, bob, cid

(* ann changes the policy of her room, moves to another channel and sends  *)
(* datagrams; bob visits, reports an address and reads what her room        *)
(* protects; cid never logs in and only owns a room.                        *)
Habits == ann :> {"login", "write", "move", "udp"} @@ bob :> {"login", "read", "report"} @@ cid :> {}

GuardedInfo == [locked |-> FALSE, item |-> 1]
ClosedInfo == [locked |-> TRUE, item |-> 2]
StoredInfos == ann :> GuardedInfo @@ bob :> ClosedInfo @@ cid :> GuardedInfo
AllInfos == {GuardedInfo, ClosedInfo}

(* Bound of the run, not of the theorems: addresses and what is protected   *)
(* are explored apart. Only one kind of address is known at a time, and     *)
(* none while a password is granted.                                        *)
AddressesApart ==
    \A u \in Users :
        /\ reported[u] => \A v \in Users : observed[v] = 0
        /\ reported[u] \/ observed[u] # 0 => \A v \in Users : grants[v] = None
=============================================================================
