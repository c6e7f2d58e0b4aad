------------------------------ MODULE MCDocking ------------------------------
(***************************************************************************)
(* The times of the code: autodockmaxtime is 60 s (Planner.ple), the       *)
(* server is waited for 5 s and the drive 20 s (Autodock.h), so in units   *)
(* of 5 s the timer is 12 and the drive 4.                                 *)
(*                                                                         *)
(* Positions of the problem shipped (problemTemplatedOptic.pddl), with     *)
(* frames of 16 and 18 characters, one between, and one out of range.      *)
(***************************************************************************)
EXTENDS Actions

MCTimer == 12
MCDriveTime == 4
MCMaxRounds == 4
MCPosition == {<<90, 90>>, <<145, 100>>, <<90, 100>>, <<170, 90>>}
MCStartAt == <<90, 90>>
MCMaxShots == 4
MCMaxActions == 4
=============================================================================
