---------------------------- MODULE FlowControl -----------------------------
(***************************************************************************)
(* What ChannelUtil promises its callers: a channel does not read while    *)
(* anybody holds it, and reads again with the last release.                *)
(***************************************************************************)
EXTENDS Naturals

CONSTANT MaxHolds   \* bound: holds at the same time

VARIABLES
    holds,    \* how many disables wait for their restore
    reading   \* the channel reads from its socket

Init == holds = 0 /\ reading = TRUE

Hold ==
    /\ holds < MaxHolds
    /\ holds' = holds + 1
    /\ reading' = FALSE

Release ==
    /\ holds > 0
    /\ holds' = holds - 1
    /\ reading' = (holds = 1)

Spec == Init /\ [][Hold \/ Release]_<<holds, reading>>
=============================================================================
