---------------------------- MODULE FencedIntent -----------------------------
(***************************************************************************)
(* What the rollout of the social functions promises while pairs of a       *)
(* generation and a switch travel between the core, a node, an app and its  *)
(* reports.  A pair is only ever read from the intent, so a generation      *)
(* stands for one choice.  An app runs a pair somebody was handed, a report *)
(* tells of what an app ran, and the functions are offered by a report of   *)
(* the present intent only: a change takes the offer back at once.          *)
(***************************************************************************)
EXTENDS Naturals

VARIABLES
    generation, \* counts the changes of the intent
    on,         \* whether the functions are wanted
    held,       \* the pairs the core, the node and the app have
    running,    \* the pair the app was started with
    reports,    \* the pairs of reports on their way or accepted
    offered     \* whether discovery offers the functions

vars == <<generation, on, held, running, reports, offered>>

Off == [gen |-> 0, on |-> FALSE]
Present == [gen |-> generation, on |-> on]

Init ==
    /\ generation = 0 /\ on = FALSE
    /\ held = {Off} /\ running = Off
    /\ reports = {} /\ offered = FALSE

Change ==
    /\ generation' = generation + 1
    /\ on' \in BOOLEAN
    /\ offered' = FALSE
    /\ UNCHANGED <<held, running, reports>>

\* The present pair is read, pairs are handed on or forgotten, and the app is
\* started with one of them.
Work ==
    /\ held' \subseteq held \cup {Present}
    /\ running' \in held
    /\ UNCHANGED <<generation, on, reports, offered>>

\* The app reports, a report is accepted, lost or too old.
Report ==
    /\ reports' \subseteq reports \cup {running}
    /\ offered' \in BOOLEAN
    /\ offered' => on /\ Present \in reports'
    /\ UNCHANGED <<generation, on, held, running>>

Next == Change \/ Work \/ Report

Spec == Init /\ [][Next]_vars

=============================================================================
