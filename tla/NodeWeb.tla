------------------------------- MODULE NodeWeb -------------------------------
(***************************************************************************)
(* What the exchange of the Web container on a node promises: the node has  *)
(* one proved image, which serves whenever no exchange is under way.  An    *)
(* exchange goes from one image to another, and while it lasts the node     *)
(* serves one of the two or nothing.  It ends with the new image, which is  *)
(* the desired one from then on, or with the old one and nothing changed.   *)
(***************************************************************************)

CONSTANTS
    Image,
    Sound,      \* the images that become healthy
    NoImage

VARIABLES
    image,      \* the image the node has
    goal,       \* what it is being exchanged for
    desired,    \* the image the node is to have after a restart
    serving     \* the images that answer users

vars == <<image, goal, desired, serving>>

Steady == goal = NoImage

Init ==
    /\ image \in Sound
    /\ Steady
    /\ desired \in Sound \cup {NoImage}
    /\ serving = {image}

Begin(i) ==
    /\ Steady
    /\ i # image
    /\ goal' = i
    /\ UNCHANGED <<image, desired, serving>>

Exchange ==
    /\ ~ Steady
    /\ serving' \in SUBSET {image, goal}
    /\ UNCHANGED <<image, goal, desired>>

Succeed ==
    /\ ~ Steady
    /\ serving = {goal}
    /\ image' = goal
    /\ desired' = goal
    /\ goal' = NoImage
    /\ UNCHANGED serving

GiveUp ==
    /\ ~ Steady
    /\ serving = {image}
    /\ goal' = NoImage
    /\ UNCHANGED <<image, desired, serving>>

\* What serves already is asked for.
Confirm ==
    /\ Steady
    /\ desired' = image
    /\ UNCHANGED <<image, goal, serving>>

Next == (\E i \in Image : Begin(i)) \/ Exchange \/ Succeed \/ GiveUp \/ Confirm

Spec == Init /\ [][Next]_vars

=============================================================================
