---------------------------- MODULE AtomicReads ----------------------------
(***************************************************************************)
(* What the repositories promise a caller of GetByTokenHash, GetByID and   *)
(* the like: the answer is what one statement would have found in the      *)
(* committed tables at some instant after the question was asked and       *)
(* before it was answered.  A reader may look again before it answers.     *)
(***************************************************************************)
CONSTANTS
    Reader,
    State,              \* committed states of the tables
    Question,
    Lookup(_, _),       \* Lookup(s, q): what one statement finds
    Nothing             \* no question, no answer yet

VARIABLES tables, asked, seen

vars == <<tables, asked, seen>>

Init ==
    /\ tables \in State
    /\ asked = [r \in Reader |-> Nothing]
    /\ seen = [r \in Reader |-> Nothing]

Change ==
    /\ tables' \in State
    /\ UNCHANGED <<asked, seen>>

Ask(r, q) ==
    /\ asked[r] = Nothing
    /\ asked' = [asked EXCEPT ![r] = q]
    /\ seen' = [seen EXCEPT ![r] = Nothing]
    /\ UNCHANGED tables

Look(r) ==
    /\ asked[r] # Nothing
    /\ seen' = [seen EXCEPT ![r] = Lookup(tables, asked[r])]
    /\ UNCHANGED <<tables, asked>>

(* The answer stays in seen until the next question. *)
Answer(r) ==
    /\ asked[r] # Nothing /\ seen[r] # Nothing
    /\ asked' = [asked EXCEPT ![r] = Nothing]
    /\ UNCHANGED <<tables, seen>>

(* The database fails: an error instead of an answer. *)
Refuse(r) ==
    /\ asked[r] # Nothing
    /\ asked' = [asked EXCEPT ![r] = Nothing]
    /\ seen' = [seen EXCEPT ![r] = Nothing]
    /\ UNCHANGED tables

Next ==
    \/ Change
    \/ \E r \in Reader : \/ \E q \in Question : Ask(r, q)
                         \/ Look(r) \/ Answer(r) \/ Refuse(r)

Spec == Init /\ [][Next]_vars
=============================================================================
