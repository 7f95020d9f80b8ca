--------------------------- MODULE OneShotPromise ---------------------------
(***************************************************************************)
(* What an approval card promises the owner, whatever its surfaces, its    *)
(* journal and the daemon's crashes do: it is asked, then refused or       *)
(* claimed, never both; its tool takes effect at most once and only while  *)
(* claimed; a refused card and a closed one stay so, and none goes back.   *)
(* Several cards may move in one step (an expiry, a recovery).             *)
(***************************************************************************)
EXTENDS Naturals

CONSTANT Cards

VARIABLES
    phase,    \* where each card stands
    effect    \* how often its tool took effect

vars == <<phase, effect>>

Phases == {"unasked", "open", "claimed", "refused", "closed"}

\* What a phase may turn into, in one step or in several.
After(p) ==
    {q \in Phases : \/ p = "unasked" /\ q # "unasked"
                    \/ p = "open" /\ q \in {"claimed", "refused", "closed"}
                    \/ p = "claimed" /\ q = "closed"}

Moves(c) == phase'[c] \in After(phase[c]) /\ effect'[c] = effect[c]
Acts(c)  == /\ phase[c] = "claimed" /\ phase'[c] = "claimed"
            /\ effect[c] = 0 /\ effect'[c] = 1
Stays(c) == phase'[c] = phase[c] /\ effect'[c] = effect[c]

Init == phase = [c \in Cards |-> "unasked"] /\ effect = [c \in Cards |-> 0]

Next ==
    /\ phase' \in [Cards -> Phases] /\ effect' \in [Cards -> 0 .. 1]
    /\ \A c \in Cards : Moves(c) \/ Acts(c) \/ Stays(c)

Spec == Init /\ [][Next]_vars
=============================================================================
