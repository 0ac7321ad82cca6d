----------------------------- MODULE MCBrowser -----------------------------
(***************************************************************************)
(* A small tab: the form, the list and the queue.  None of the three reads *)
(* what another writes, except that a page left is left for both, so it is *)
(* enough to look at one of them while the others are as they began.       *)
(***************************************************************************)
EXTENDS OfflineQueue, Browser, TLC

CONSTANTS i1, i2, f1, f2, f3, d1, d2, m1, m2, a1, a2

TabInit == Init /\ BrowserInit

TabNext ==
    \/ Next /\ UNCHANGED browserVars
    \/ BrowserNext /\ UNCHANGED vars

TabSpec == TabInit /\ [][TabNext]_<<vars, browserVars>>

QueueUnused == submitted = {} /\ online
FormUnused ==
    /\ draft = Empty /\ made = [d \in Draft |-> 0] /\ crowded = {}
    /\ mutation = [m \in Mutation |-> NoMutation] /\ request = [a \in Attempt |-> NoRequest]

OneUsed ==
    \/ QueueUnused /\ (FormUnused \/ NotLoaded)
    \/ FormUnused /\ NotLoaded

Symmetry == Permutations(Draft) \cup Permutations(Mutation) \cup Permutations(Attempt)
              \cup Permutations(Item) \cup Permutations(Flush)
=============================================================================
