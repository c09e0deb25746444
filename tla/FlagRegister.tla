---------------------------- MODULE FlagRegister ----------------------------
(***************************************************************************)
(* What the feature-flag service promises of each flag: publications form  *)
(* one growing history, and evaluation shows an entry of that history that *)
(* only ever moves forward.                                                *)
(***************************************************************************)
EXTENDS Sequences, Naturals

CONSTANTS Keys, Definitions

VARIABLES history, shown

NoFlag == [revision |-> 0]

(* The entry of history h that revision n names.                            *)
Entry(h, n) == [revision |-> n, definition |-> h[n]]

Init ==
  /\ history = [k \in Keys |-> << >>]
  /\ shown = [k \in Keys |-> NoFlag]

Publish ==
  /\ \E k \in Keys, d \in Definitions : history' = [history EXCEPT ![k] = Append(@, d)]
  /\ UNCHANGED shown

(* Some flags move forward, together, to entries already published.         *)
Show ==
  /\ \A k \in Keys :
       \/ shown'[k] = shown[k]
       \/ \E n \in 1..Len(history[k]) :
            /\ n > shown[k].revision
            /\ shown'[k] = Entry(history[k], n)
  /\ UNCHANGED history

Spec == Init /\ [][Publish \/ Show]_<<history, shown>>
=============================================================================
