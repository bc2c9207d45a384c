------------------------------ MODULE TaskBridge ------------------------------
(***************************************************************************)
(* What the queue between the Go API and the batch tier promises: work     *)
(* that has been queued is carried out at least once before it is called   *)
(* done, at most Max times however often it fails, and never again once it *)
(* has been closed as done or given up.                                    *)
(***************************************************************************)
EXTENDS Naturals

CONSTANTS Tasks, Max

VARIABLES status, runs

Status == {"none", "queued", "done", "abandoned"}

Init == /\ status = [t \in Tasks |-> "none"]
        /\ runs = [t \in Tasks |-> 0]

Moves(t, from, to) == /\ status[t] = from
                      /\ status' = [status EXCEPT ![t] = to]
                      /\ UNCHANGED runs

Queue(t)  == Moves(t, "none", "queued")
Finish(t) == runs[t] > 0 /\ Moves(t, "queued", "done")
GiveUp(t) == Moves(t, "queued", "abandoned")

Run(t) == /\ status[t] = "queued" /\ runs[t] < Max
          /\ runs' = [runs EXCEPT ![t] = @ + 1]
          /\ UNCHANGED status

Next == \E t \in Tasks : Queue(t) \/ Run(t) \/ Finish(t) \/ GiveUp(t)

Spec == Init /\ [][Next]_<<status, runs>>
===============================================================================
