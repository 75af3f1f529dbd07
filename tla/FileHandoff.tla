----------------------------- MODULE FileHandoff -----------------------------
(***************************************************************************)
(* What DYAD promises about one file: it becomes ready once, and each      *)
(* consumer either reads all of it after that, or is told of a failure.    *)
(***************************************************************************)
CONSTANT Consumers

VARIABLES ready,    \* the producer's copy is complete
          outcome   \* what each consumer got

Init ==
    /\ ready = FALSE
    /\ outcome = [c \in Consumers |-> "waiting"]

MakeReady ==
    /\ ~ready
    /\ ready' = TRUE
    /\ UNCHANGED outcome

ReadWhole(c) ==
    /\ ready
    /\ outcome[c] = "waiting"
    /\ outcome' = [outcome EXCEPT ![c] = "whole"]
    /\ UNCHANGED ready

Fail(c) ==
    /\ outcome[c] = "waiting"
    /\ outcome' = [outcome EXCEPT ![c] = "failed"]
    /\ UNCHANGED ready

Next == MakeReady \/ \E c \in Consumers : ReadWhole(c) \/ Fail(c)

Spec == Init /\ [][Next]_<<ready, outcome>>
=============================================================================
