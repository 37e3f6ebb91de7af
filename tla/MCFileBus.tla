------------------------------ MODULE MCFileBus ------------------------------
(* One message of each kind that is treated differently, for TLC. *)
EXTENDS FileBus

CONSTANTS fin, stg, del, again, peer,     \* messages
          orchestrator, driver, alice, bob,   \* instances
          stage, final                        \* tasks

Letter(from, to, type, task, keyed, auth) ==
    [from |-> from, to |-> to, type |-> type, task |-> task, keyed |-> keyed, auth |-> auth]

(* The final report of a run, the delegate and the report of its stage, a  *)
(* further delegate, and a message between peers.                          *)
Letters ==
    [m \in Msg |->
        CASE m = fin   -> Letter(driver, orchestrator, "report", final, TRUE, TRUE)
          [] m = del   -> Letter(driver, alice, "delegate", stage, FALSE, TRUE)
          [] m = stg   -> Letter(alice, orchestrator, "report", stage, FALSE, TRUE)
          [] m = again -> Letter(driver, alice, "delegate", stage, FALSE, TRUE)
          [] m = peer  -> Letter(alice, bob, "report", stage, FALSE, FALSE)]
=============================================================================
