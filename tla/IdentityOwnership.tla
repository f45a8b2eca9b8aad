------------------------- MODULE IdentityOwnership -------------------------
(***************************************************************************)
(* What the identity registry promises to the rest of the server.  A name  *)
(* is held by at most one generation at a time; a generation comes to hold *)
(* a name once, with a number larger than every one before it; and it      *)
(* gives the name up only when none of its operations is running, so the   *)
(* work of two generations of one name never overlaps.                     *)
(***************************************************************************)
EXTENDS Naturals

CONSTANT Names

VARIABLES held,    \* held[n]: the generation that holds n, 0 when nobody does
          running, \* running[n]: operations admitted by it and not yet over
          fresh    \* every generation from here on is unused

vars == <<held, running, fresh>>

Init == /\ held = [n \in Names |-> 0]
        /\ running = [n \in Names |-> 0]
        /\ fresh = 1

(* The generation keeps the name; its operations come and go.              *)
Keep(n) == /\ held'[n] = held[n]
           /\ running'[n] \in Nat
           /\ held[n] = 0 => running'[n] = 0

(* The name is announced, advanced to a newer generation or released.      *)
HandOver(n) == /\ running[n] = 0
               /\ running'[n] = 0
               /\ held'[n] = 0 \/ held'[n] \in fresh..(fresh' - 1)

(* One turn of the World actor may settle several names.                   *)
Next == /\ fresh' \in Nat
        /\ fresh' >= fresh
        /\ \A n \in Names : Keep(n) \/ HandOver(n)
        /\ \A m, n \in Names : held'[m] = held'[n] /\ held'[n] # 0 => m = n

Spec == Init /\ [][Next]_vars
=============================================================================
