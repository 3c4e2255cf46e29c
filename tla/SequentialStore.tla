--------------------------- MODULE SequentialStore ---------------------------
(***************************************************************************)
(* What package sus promises to its callers: a store of versioned entities *)
(* whose multi-entity operations are atomic and whose updates are          *)
(* sequential.  It says nothing of locks, loops or bytes; SusStore is      *)
(* shown to implement it.                                                  *)
(***************************************************************************)
EXTENDS Naturals

CONSTANTS Ids,      \* the ids an id factory can issue
          Callers,  \* the goroutines that use the store
          Absent    \* "there is no entity under this id"

VARIABLES db,       \* the entity stored under each id
          issued    \* the ids handed out so far

\* An entity: its version, and the callers whose changes its state contains.
Entity == [v : Nat, marks : SUBSET Callers]

Init ==
  /\ db = [id \in Ids |-> Absent]
  /\ issued = {}

\* Every entity of B appears at once, at version 0 and under an unused id.
Create(B) ==
  /\ B \cap issued = {}
  /\ issued' = issued \cup B
  /\ db' = [id \in Ids |-> IF id \in B THEN [v |-> 0, marks |-> {}] ELSE db[id]]

\* Every entity of B moves to its next version at once and keeps every change
\* that was already in it.
Update(B) ==
  /\ db' \in [Ids -> Entity \cup {Absent}]
  /\ \A id \in B : /\ db[id] # Absent
                   /\ db'[id] # Absent
                   /\ db'[id].v = db[id].v + 1
                   /\ db[id].marks \subseteq db'[id].marks
  /\ \A id \in Ids \ B : db'[id] = db[id]
  /\ UNCHANGED issued

\* Every entity of B disappears at once.
Delete(B) ==
  /\ db' = [id \in Ids |-> IF id \in B THEN Absent ELSE db[id]]
  /\ UNCHANGED issued

Next == \E B \in SUBSET Ids : Create(B) \/ Update(B) \/ Delete(B)

Spec == Init /\ [][Next]_<<db, issued>>
=============================================================================
