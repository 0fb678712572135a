------------------------------ MODULE OneShot ------------------------------
(***************************************************************************)
(* What a resource that stands for one operation promises (a restore, a    *)
(* restore Job): the operation is asked for once, is performed at most     *)
(* once, and not at all once it is reported as ended, a report that stays; *)
(* each record of it that is lost or overtaken excuses one time more.      *)
(***************************************************************************)
EXTENDS Naturals

VARIABLES stage,      \* "asked", "working" or "ended"
          performed,  \* how often the operation was performed
          lost        \* records of the operation that could not be written

vars == <<stage, performed, lost>>

Init == stage = "asked" /\ performed = 0 /\ lost = 0

Lose == lost' = lost + 1 /\ UNCHANGED <<stage, performed>>

Record == stage = "asked" /\ stage' = "working" /\ UNCHANGED <<performed, lost>>

Perform ==
  /\ performed < lost + (IF stage = "ended" THEN 0 ELSE 1)
  /\ performed' = performed + 1
  /\ UNCHANGED <<stage, lost>>

End == stage # "ended" /\ stage' = "ended" /\ UNCHANGED <<performed, lost>>

Next == Lose \/ Record \/ Perform \/ End

Spec == Init /\ [][Next]_vars

=============================================================================
