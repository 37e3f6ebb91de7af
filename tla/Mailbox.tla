------------------------------- MODULE Mailbox -------------------------------
(***************************************************************************)
(* What the file bus promises about a message with a stable id: it is put  *)
(* into the inbox of its recipient, taken by one reader, finished, and     *)
(* never returns once taken, whatever is retried.  Only one that was lost  *)
(* before is put there again.  FileBus is shown to implement this.         *)
(***************************************************************************)
CONSTANTS Stable    \* messages sent under a stable id

VARIABLE mail       \* mail[m]: "unsent", "waiting", "taken" or "finished"

Init == mail = [m \in Stable |-> "unsent"]

Moves(m, from, to) == mail[m] = from /\ mail' = [mail EXCEPT ![m] = to]

Post(m) == Moves(m, "unsent", "waiting")
Lose(m) == Moves(m, "waiting", "unsent")
Take(m) == Moves(m, "waiting", "taken")
Finish(m) == Moves(m, "taken", "finished")

Next == \E m \in Stable : Post(m) \/ Lose(m) \/ Take(m) \/ Finish(m)

Spec == Init /\ [][Next]_mail
=============================================================================
