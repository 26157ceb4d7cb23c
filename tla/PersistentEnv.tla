---------------------------- MODULE PersistentEnv ----------------------------
(***************************************************************************)
(* What saveenv promises, without flash: there is an environment the user  *)
(* edits and a stored one.  The stored environment is replaced, at one     *)
(* instant, by the edited one, or it is lost as a whole.  Power may fail   *)
(* at any time; a boot then reads the stored environment back, or starts   *)
(* from the default one when there is none.                                *)
(***************************************************************************)
CONSTANTS
    Env,        \* the environments
    Default,    \* default_environment
    NoEnv       \* none

VARIABLES
    edited,     \* the copy in RAM; none while the board is off
    stored      \* what the next boot will find

Init == edited = NoEnv /\ stored \in Env \cup {NoEnv}

Edit == edited # NoEnv /\ edited' \in Env /\ UNCHANGED stored

Store == edited # NoEnv /\ stored' = edited /\ UNCHANGED edited

Lose == edited # NoEnv /\ stored' = NoEnv /\ UNCHANGED edited

(* A power failure may be what loses the stored environment. *)
Fail == edited' = NoEnv /\ stored' \in {stored, NoEnv}

Boot ==
    /\ edited = NoEnv
    /\ edited' = IF stored = NoEnv THEN Default ELSE stored
    /\ UNCHANGED stored

Next == Edit \/ Store \/ Lose \/ Fail \/ Boot

Spec == Init /\ [][Next]_<<edited, stored>>
=============================================================================
