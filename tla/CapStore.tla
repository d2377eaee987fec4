------------------------------ MODULE CapStore ------------------------------
(***************************************************************************)
(* What libzoea promises to a program: a store of capabilities under names *)
(* (the cap_ptr and cap_depth of a Capability<K>).  A name is given out    *)
(* once, and means the same object ever after.                             *)
(***************************************************************************)
CONSTANTS
    Boot,           \* the names, types and objects that a program starts with
    NoBadge,        \* the badge of a capability that is not minted
    Badges          \* the badges a program mints with

VARIABLE store      \* what each name means: type, object and badge

\* Retype: the object is one that no name means yet.
Create(n) ==
    /\ \A m \in DOMAIN store : store[m].obj # store'[n].obj
    /\ store'[n].badge = NoBadge

\* Copy and mint: the object of another name; only mint gives a badge.
Derive(n) ==
    /\ \E m \in DOMAIN store : /\ store'[n].type = store[m].type
                               /\ store'[n].obj = store[m].obj
    /\ store'[n].badge \in Badges \cup {NoBadge}

Init == store = Boot

\* A name is added, and no other name changes its meaning.
Next ==
    \E n \in DOMAIN store' \ DOMAIN store :
        /\ DOMAIN store' = DOMAIN store \cup {n}
        /\ \A m \in DOMAIN store : store'[m] = store[m]
        /\ Create(n) \/ Derive(n)

Spec == Init /\ [][Next]_store

=============================================================================
