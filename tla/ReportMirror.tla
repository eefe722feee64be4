---------------------------- MODULE ReportMirror ----------------------------
(***************************************************************************)
(* What one of the two report channels of the keyboard promises.  The      *)
(* firmware keeps a source value and submits it whenever it changes; the   *)
(* USB endpoint holds at most one submitted value, and the host sees it    *)
(* when it polls.  A submission may be lost (never, when the channel is    *)
(* reliable), and a channel with faults may also forget: the host resets   *)
(* the bus, or the firmware dies and starts again from the zero value.     *)
(* lost tells whether the last submission was refused or forgotten.        *)
(***************************************************************************)
CONSTANTS
    Values,    \* what the source can hold
    Zero,      \* nothing pressed: the value after a start
    NoReport,  \* the endpoint is empty
    Reliable,  \* no submission is refused
    Faults     \* the bus may be reset and the firmware may die

VARIABLES source, inflight, view, lost

vars == <<source, inflight, view, lost>>

Init == source = Zero /\ inflight = NoReport /\ view = Zero /\ lost = FALSE

Accepted ==
    /\ inflight = NoReport
    /\ source' \in Values /\ inflight' = source' /\ lost' = FALSE
    /\ UNCHANGED view

Refused ==
    /\ ~Reliable
    /\ source' \in Values /\ lost' = TRUE
    /\ UNCHANGED <<inflight, view>>

Deliver ==
    /\ inflight # NoReport
    /\ view' = inflight /\ inflight' = NoReport
    /\ UNCHANGED <<source, lost>>

BusReset ==
    /\ Faults
    /\ view' = Zero /\ inflight' = NoReport /\ lost' = TRUE
    /\ UNCHANGED source

Restart ==
    /\ Faults
    /\ source' = Zero /\ lost' = TRUE
    /\ UNCHANGED <<inflight, view>>

Next ==
    \/ Accepted
    \/ Refused
    \/ Deliver
    \/ BusReset
    \/ Restart

SafeSpec == Init /\ [][Next]_vars

Spec == SafeSpec /\ WF_vars(Deliver)

\* Once nothing is under way the view is the source, unless the last
\* submission was refused or forgotten.
Agreement == (inflight = NoReport /\ ~lost) => view = source

=============================================================================
