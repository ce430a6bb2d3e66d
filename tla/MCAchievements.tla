------------------------------ MODULE MCAchievements ------------------------------
(***************************************************************************)
(* Achievements for TLC.                                                    *)
(***************************************************************************)
EXTENDS Achievements, TLC

\* One achievement of this machine, and one whose check may change between scans
\* (an hour of the day, a number of services).
MCTypeOf == ("os-user" :> "cached") @@ ("night-owl" :> "time")
MCTraits == {"os-user"}

\* The program's definitions, or no directory of them.
MCInstalled == {Ids, {}}

\* A file from another machine that unlocked the second one earlier.
MCForeign == {"night-owl" :> 1}
===============================================================================
