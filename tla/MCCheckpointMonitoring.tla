------------------------ MODULE MCCheckpointMonitoring ------------------------
(* One Checkpoint with two episodes, for the finding about an execution    *)
(* that waits for the episode of a killed worker.                          *)
EXTENDS CheckpointMonitoring
===============================================================================
