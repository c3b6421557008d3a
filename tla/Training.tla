------------------------------ MODULE Training ------------------------------
(***************************************************************************)
(* The offline training jobs, one at a time: an agent in the simulated     *)
(* load balancer, PPO, the actor's layer by itself, the DQN main loop or   *)
(* the A3C workers. (The last two run in one process; they meet only at    *)
(* its end, where the main thread saves the shared network without waiting *)
(* for the workers.)                                                       *)
(***************************************************************************)
EXTENDS Rollout, RateTraining, Spline

VARIABLES
    job,            \* which of the jobs runs
    saved           \* what the main thread has written, in order

vars == <<simVars, ppoVars, rateVars, edge, job, saved>>

Init ==
    /\ SimInit /\ PpoInit /\ RateInit /\ SplineInit
    /\ job \in {"sim", "ppo", "kan", "dqn", "a3c"}
    /\ job # "sim" => loads = [b \in Backends |-> 0]
    /\ job # "ppo" => ppoLoads = [b \in Backends |-> 0]
    /\ saved = <<>>

\* The end of PPO training: the network for inference, ...
ExportOnnx ==
    /\ job = "ppo" /\ saved = <<>>
    /\ buffer = <<>> /\ steps >= PpoTotal
    /\ saved' = <<"onnx">>
    /\ UNCHANGED <<simVars, ppoVars, rateVars, edge, job>>

\* ... its equations, appended to a log, ...
WriteAuditLog ==
    /\ saved = <<"onnx">>
    /\ saved' = Append(saved, "audit")
    /\ UNCHANGED <<simVars, ppoVars, rateVars, edge, job>>

\* ... and the checkpoint.
Checkpoint ==
    /\ saved = <<"onnx", "audit">>
    /\ saved' = Append(saved, "checkpoint")
    /\ UNCHANGED <<simVars, ppoVars, rateVars, edge, job>>

\* The models of the rate limiters are saved after the last turn of the DQN
\* loop and, as that may be at any time for the workers, whatever they do. They
\* are daemon threads and end with the process.
SaveRate ==
    /\ saved = <<>>
    /\ \/ job = "dqn" /\ dqn.steps >= DqnSteps
       \/ job = "a3c"
    /\ saved' = <<"rate">>
    /\ UNCHANGED <<simVars, ppoVars, rateVars, edge, job>>

Simulate ==
    /\ job = "sim"
    /\ SimStep \/ SimReset
    /\ UNCHANGED <<ppoVars, rateVars, edge, job, saved>>

TrainPpo ==
    /\ job = "ppo" /\ saved = <<>>
    /\ Collect \/ Update
    /\ UNCHANGED <<simVars, rateVars, edge, job, saved>>

EvaluateKan ==
    /\ job = "kan"
    /\ Forward
    /\ UNCHANGED <<simVars, ppoVars, rateVars, job, saved>>

TrainDqn ==
    /\ job = "dqn" /\ saved = <<>>
    /\ Learn
    /\ UNCHANGED <<simVars, ppoVars, edge, job, saved>>

TrainA3C ==
    /\ job = "a3c" /\ saved = <<>>
    /\ \E w \in Workers : Work(w)
    /\ UNCHANGED <<simVars, ppoVars, edge, job, saved>>

Next == Simulate \/ TrainPpo \/ EvaluateKan \/ TrainDqn \/ TrainA3C
        \/ ExportOnnx \/ WriteAuditLog \/ Checkpoint \/ SaveRate

Spec == Init /\ [][Next]_vars

\* Loads stay below 1.2 times capacity, limits between their bounds, buffers
\* within theirs, and the target network is never SyncEvery updates behind.
TrainingTypeOK == SimTypeOK /\ PpoTypeOK /\ RateTypeOK

\* What the learners learn from is what happened: only the current policy's
\* transitions in PPO's buffer, contiguous history in DQN's, and A3C's returns
\* equal to their definition.
TrainingInv == TrainingTypeOK /\ OnPolicy /\ ReplayChained /\ ReturnsRight
=============================================================================
