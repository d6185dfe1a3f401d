------------------------------ MODULE VarStore ------------------------------
(***************************************************************************)
(* What the tracker's store of settings promises (ef_set_env_blob and      *)
(* ef_get_env_blob of ef_env.c, whatever happens to the power): a variable *)
(* has one value at every moment.  It changes in one step, to the value of *)
(* the set that is under way, and only a set that took effect can end as   *)
(* done.  A variable that is lost is lost for good: nothing is promised of *)
(* it any more, and store shows nothing for it.                            *)
(***************************************************************************)
CONSTANTS Keys, Vals, Absent

VARIABLES store,    \* the value of each variable
          setting,  \* the set under way, and whether it took effect
          lost      \* variables nothing is promised of

vars == <<store, setting, lost>>

NoSet == [key |-> Absent, val |-> Absent, taken |-> FALSE]

Init == /\ store = [k \in Keys |-> Absent]
        /\ setting = NoSet
        /\ lost = {}

Begin(k, v) ==
    /\ setting = NoSet
    /\ setting' = [key |-> k, val |-> v, taken |-> FALSE]
    /\ UNCHANGED <<store, lost>>

\* The one step in which a variable changes.
Take ==
    /\ setting # NoSet
    /\ ~setting.taken
    /\ setting' = [setting EXCEPT !.taken = TRUE]
    /\ store' = [k \in Keys |-> IF k = setting.key /\ k \notin lost
                                THEN setting.val ELSE store[k]]
    /\ UNCHANGED lost

\* The set is done, or the power fails after it took effect.
End ==
    /\ setting.taken
    /\ setting' = NoSet
    /\ UNCHANGED <<store, lost>>

\* EF_ENV_FULL, or the power fails before the set took effect.
GiveUp ==
    /\ setting # NoSet
    /\ ~setting.taken
    /\ setting' = NoSet
    /\ UNCHANGED <<store, lost>>

\* A recovery did not come to the variable, or a collection had no room.
Lose ==
    /\ \E S \in SUBSET Keys :
          /\ lost' = lost \union S
          /\ store' = [k \in Keys |-> IF k \in S THEN Absent ELSE store[k]]
    /\ UNCHANGED setting

Next == \/ \E k \in Keys, v \in Vals : Begin(k, v)
        \/ Take
        \/ End
        \/ GiveUp
        \/ Lose

Spec == Init /\ [][Next]_vars
=============================================================================
