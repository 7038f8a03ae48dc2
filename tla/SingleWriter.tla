--------------------------- MODULE SingleWriter ---------------------------
(***************************************************************************)
(* What the account writer registry promises to the exchange account: one  *)
(* capability is current, it passes on only while nobody writes, each time *)
(* to a new generation, and whoever writes does so under the current one.  *)
(* No clock, lease, lock or process is left; AccountWriter implements this *)
(* under the mapping it states.                                            *)
(***************************************************************************)
EXTENDS Naturals

CONSTANTS Owners, Databases, NoOwner, NoDb

VARIABLES
    current,  \* the capability the account is bound to
    writing,  \* the capability of the mutation under way, or Nobody
    last      \* the generation of the last mutation

abstractVars == <<current, writing, last>>

Nobody == [db |-> NoDb, owner |-> NoOwner, generation |-> 0]

Init ==
    /\ current = Nobody
    /\ writing = Nobody
    /\ last = 0

\* The operator binds the account to a database; the capability of the old
\* one ends and its generation is not given out again.
Rebind(d) ==
    /\ writing = Nobody
    /\ current' = [db |-> d, owner |-> NoOwner,
                   generation |-> current.generation]
    /\ UNCHANGED <<writing, last>>

\* The capability passes to an owner under the next generation.
Grant(o) ==
    /\ writing = Nobody
    /\ current' = [db |-> current.db, owner |-> o,
                   generation |-> current.generation + 1]
    /\ UNCHANGED <<writing, last>>

\* The current owner writes; no generation before the last one does.
Begin ==
    /\ writing = Nobody
    /\ current.owner # NoOwner
    /\ current.generation >= last
    /\ writing' = current
    /\ last' = current.generation
    /\ UNCHANGED current

End ==
    /\ writing # Nobody
    /\ writing' = Nobody
    /\ UNCHANGED <<current, last>>

Next ==
    \/ \E d \in Databases : Rebind(d)
    \/ \E o \in Owners : Grant(o)
    \/ Begin
    \/ End

Spec == Init /\ [][Next]_abstractVars
=============================================================================
