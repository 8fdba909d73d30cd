--------------------------- MODULE ConsumerControl ---------------------------
(***************************************************************************)
(* What the commands of a topic's consumer promise, without the mutex, the *)
(* handle and the tasks.  A start brings a new loop up; one that found     *)
(* another loop there has raced with another command, or that one's start  *)
(* had.  A stop, an error or the end of the stream takes a loop down, and  *)
(* none that was taken down consumes again.  Loops whose start raced are   *)
(* the only ones that may be there twice.                                  *)
(***************************************************************************)
CONSTANT Loops  \* the loops there may be

VARIABLES
    consuming,  \* the loops that consume the topic
    used,       \* the loops that were ever brought up
    raced       \* the starts that raced with another command

controlledVars == <<consuming, used, raced>>

ControlInit == consuming = {} /\ used = {} /\ raced = {}

\* A race is never forgotten.
Races == raced \subseteq raced'

\* Of two loops that consume at the same time one has raced.
BringUp(l) ==
    /\ l \notin used
    /\ Races
    /\ l \in raced' \/ consuming \subseteq raced'
    /\ consuming' = consuming \cup {l}
    /\ used' = used \cup {l}

TakeDown(l) ==
    /\ l \in consuming
    /\ consuming' = consuming \ {l}
    /\ Races
    /\ UNCHANGED used

\* Two commands meet.
Meet == Races /\ UNCHANGED <<consuming, used>>

ControlNext == Meet \/ \E l \in Loops : BringUp(l) \/ TakeDown(l)

ControlSpec == ControlInit /\ [][ControlNext]_controlledVars
=============================================================================
