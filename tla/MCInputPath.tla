---------------------------- MODULE MCInputPath ------------------------------
(* InputPath with one pad, one softkey and two groups.  Button::ALL has     *)
(* Shift first, then the groups (B before A), Control and the softkeys.     *)
(* Two profiles: by bank, and the same edited to move every control, Shift  *)
(* and those of the second bank to nowhere.                                 *)
EXTENDS InputPath

CONSTANTS here, there

MCRank == [b \in Buttons |-> CASE b = Shift -> 0 [] b = 1 -> 1 [] b = 0 -> 2
                               [] b = Control -> 3 [] OTHER -> 4]
MCProfiles ==
    {[c \in Controls |-> [g \in Groups |-> IF c \in Banked /\ g = 1 THEN there ELSE here]],
     [c \in Controls |-> [g \in Groups |-> IF c = Shift \/ (c \in Banked /\ g = 1) THEN Silenced ELSE there]]}
=============================================================================
