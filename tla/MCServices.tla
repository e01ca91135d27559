----------------------------- MODULE MCServices -----------------------------
(* Services of the server that share no table, checked in one run: a behaviour
   follows the requests of one of them, the one part names, and the others stay
   in their initial state. *)
EXTENDS TrainingPack, Scope, TLC

CONSTANTS i1, j1, p1, p2, m1, m2

Points == [i \in {i1} |-> "A"]
OneCode == [x \in {p1, p2, m1, m2} |-> "C1"]
TwoTypes == [x \in {m1, m2} |-> IF x = m1 THEN "positive" ELSE "defect"]

\* reports are interchangeable, and so are clerks, and proposals
Alike == Permutations(Qualification) \union Permutations(Clerk) \union Permutations(Prop)

VARIABLE part

Init ==
    /\ TPInit /\ ScopeInit
    /\ part \in {"learning", "pack", "scope"}

\* the pack is followed with one proposal, of an authoring job, which is reviewed
\* and not applied (readiness counts both as confirmed), and a real provider
\* and no attached rules for m2; its role is the one a gauge has
SmallPack ==
    /\ ljob'[j1] = "none"
    /\ \A p, q \in Made' : p = q
    /\ \A p \in Prop : prop'[p].role = RecordOnly
    /\ UNCHANGED applying
    /\ provider'[m2] # "mock" /\ mem'[m2].attached = "absent"

\* at most one of two proposals is a measurement, and the answer leaves the role
\* of at most one open
SmallLearning ==
    /\ \A p, q \in Prop : prop'[p].cat = Physical /\ prop'[q].cat = Physical => p = q
    /\ \A p, q \in Made' : prop'[p].role = Unresolved /\ prop'[q].role = Unresolved => p = q

Next ==
    /\ UNCHANGED part
    /\ \/ part = "learning" /\ LearnNext /\ SmallLearning /\ UNCHANGED <<packVars, scopeVars>>
       \/ part = "pack" /\ TPNext /\ SmallPack /\ UNCHANGED scopeVars
       \/ part = "scope" /\ ScopeNext /\ UNCHANGED allPackVars

Spec == Init /\ [][Next]_<<allPackVars, scopeVars, part>>
=============================================================================
