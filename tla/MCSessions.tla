----------------------------- MODULE MCSessions -----------------------------
EXTENDS Sessions, TLC

\* Two scenes, one state space.  Somebody signs in, refreshes and signs out in
\* two browsers while an admin edits the account once.
CONSTANT Visitor
SigningIn ==
    /\ edits <= 1
    /\ \A u \in Users \ {Visitor} :
          user[u] = [role |-> IF u \in FirstAdmins THEN "admin" ELSE "editor",
                     status |-> IF u \in FirstAdmins THEN "active" ELSE "absent"]
          /\ \A s \in Slots : InFlight(s) => req[s].user # u

\* Or admins edit each other, two at a time, and nobody has signed in.
Editing ==
    /\ \A t \in Tokens : row[t].st = "free"
    /\ \A s \in Slots : req[s].op \in {"none", "edit"}

Scenes == SigningIn \/ Editing

\* Tokens, request slots and browsers are interchangeable.
Symmetry == Permutations(Tokens) \cup Permutations(Slots) \cup Permutations(Browsers)
=============================================================================
