--------------------------- MODULE StagedConfig ---------------------------
(***************************************************************************)
(* What ConfigSnapshotRepository promises to the operators and the cycles  *)
(* of one paper run: one configuration is active and at most one is staged *)
(* on it, by an editor that knew the active one, and a cycle makes the     *)
(* staged one active in one step.  No session, label, loaded row or        *)
(* conditional update is left.                                             *)
(***************************************************************************)
CONSTANTS Configs, NoConfig

VARIABLES
    active,    \* the configuration of the run
    pending,   \* the one staged on it
    base       \* the one the staged one is to replace

\* The first configuration of the run is active at once; one that is staged
\* already is to replace it.
Found(c) ==
    /\ active = NoConfig
    /\ active' = c /\ base' = c
    /\ UNCHANGED pending

\* Any other waits for a cycle; it differs from the one it is to replace,
\* which is the active one.
Stage(c) ==
    /\ pending = NoConfig
    /\ c # active
    /\ pending' = c /\ base' = active
    /\ UNCHANGED active

\* A cycle makes the staged one active in the place of the one it was staged
\* on.
Activate ==
    /\ pending # NoConfig
    /\ base = active
    /\ active' = pending
    /\ pending' = NoConfig
    /\ UNCHANGED base

Next == Activate \/ \E c \in Configs : Found(c) \/ Stage(c)
=============================================================================
