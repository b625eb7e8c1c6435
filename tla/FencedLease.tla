----------------------------- MODULE FencedLease -----------------------------
(***************************************************************************)
(* What the local maintainer expects of its run lock, without clocks,      *)
(* files or processes: at any time at most one run owns the lease, a run   *)
(* that has lost the lease never gets it back, and only the current owner  *)
(* changes the guarded maintainer state.                                   *)
(***************************************************************************)
CONSTANTS Run,     \* run IDs
          NoRun    \* the value of `owner' while nobody owns the lease

VARIABLES owner,   \* the run that owns the lease
          used,    \* runs that own or have owned the lease
          writer   \* the run that last changed guarded state

vars == <<owner, used, writer>>

Init == /\ owner = NoRun
        /\ used = {}
        /\ writer = NoRun

Grant(r) == /\ owner = NoRun
            /\ r \notin used
            /\ owner' = r
            /\ used' = used \cup {r}
            /\ UNCHANGED writer

Revoke == /\ owner # NoRun
          /\ owner' = NoRun
          /\ UNCHANGED <<used, writer>>

Write == /\ owner # NoRun
         /\ writer' = owner
         /\ UNCHANGED <<owner, used>>

Next == \/ \E r \in Run : Grant(r)
        \/ Revoke
        \/ Write

Spec == Init /\ [][Next]_vars
=============================================================================
