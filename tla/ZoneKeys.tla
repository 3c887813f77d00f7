------------------------------ MODULE ZoneKeys ------------------------------
(***************************************************************************)
(* What the DNSSEC package promises of the keys of the zones, without the  *)
(* responses in flight and the goroutines that import them: every key that *)
(* a node holds or has saved for a zone was generated for that zone by     *)
(* some node; a node generates one only when it neither holds nor has      *)
(* saved any; it comes back with what it saved, and a node that has ended  *)
(* takes up nothing any more.                                              *)
(***************************************************************************)
CONSTANTS Node, Zone, Key, NoKey

VARIABLES
    up,       \* whether a node runs
    held,     \* the key of a node for a zone
    saved,    \* the key it has saved for a zone
    generated \* the keys there are: <<key, node, zone>>

Made(z) == {k \in Key : \E n \in Node : <<k, n, z>> \in generated}

NoKeys == [z \in Zone |-> NoKey]

Init ==
    /\ up = [n \in Node |-> FALSE]
    /\ held = [n \in Node |-> NoKeys]
    /\ saved = [n \in Node |-> NoKeys]
    /\ generated = {}

\* A key that no node has generated before, where there is none.
Generate(n, z) ==
    /\ up[n] /\ held[n][z] = NoKey /\ saved[n][z] = NoKey
    /\ \E k \in Key :
          /\ \A p \in Node, y \in Zone : <<k, p, y>> \notin generated
          /\ generated' = generated \cup {<<k, n, z>>}
          /\ held' = [held EXCEPT ![n][z] = k]
    /\ UNCHANGED <<up, saved>>

\* The key in force becomes one that some node has generated for the zone ...
Adopt(n, z) ==
    /\ up[n]
    /\ \E k \in Made(z) : held' = [held EXCEPT ![n][z] = k]
    /\ UNCHANGED <<up, saved, generated>>

\* ... and such a key is saved.
Save(n, z) ==
    /\ up[n]
    /\ \E k \in Made(z) : saved' = [saved EXCEPT ![n][z] = k]
    /\ UNCHANGED <<up, held, generated>>

End(n) ==
    /\ up[n]
    /\ up' = [up EXCEPT ![n] = FALSE]
    /\ held' = [held EXCEPT ![n] = NoKeys]
    /\ UNCHANGED <<saved, generated>>

Recover(n) ==
    /\ ~up[n]
    /\ up' = [up EXCEPT ![n] = TRUE]
    /\ held' = [held EXCEPT ![n] = saved[n]]
    /\ UNCHANGED <<saved, generated>>

Next ==
    \E n \in Node :
        \/ End(n)
        \/ Recover(n)
        \/ \E z \in Zone : Generate(n, z) \/ Adopt(n, z) \/ Save(n, z)

Spec == Init /\ [][Next]_<<up, held, saved, generated>>
=============================================================================
