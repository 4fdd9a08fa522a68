---------------------------- MODULE MCAlarmPipeline ----------------------------
(***************************************************************************)
(* AlarmPipeline with the tag of MCAlarmManager, and one rule that the     *)
(* driver and the sweep both judge.                                        *)
(***************************************************************************)
EXTENDS MCAlarmManager, AlarmPipeline

CommLossRule == (d1 :> Health("comm_loss", 1))
================================================================================
