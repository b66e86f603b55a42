------------------------------ MODULE JobBoard ------------------------------
(***************************************************************************)
(* What the job list promises its users, with no server, no messages and   *)
(* no database contexts: an entry appears once as "Submitted", from then   *)
(* on only moves forward through the life of the job, ends with "Complete" *)
(* for good, or is removed.  The promise is void for a job in disturbed:   *)
(* its name was taken by another job, edited, or the server restarted      *)
(* under it; but even then "Complete" is never taken back.                 *)
(***************************************************************************)
EXTENDS Naturals

CONSTANT Job
VARIABLES board, disturbed

Progress == <<"Submitted", "null", "Initializing", "Running", "Finishing",
              "Complete">>
Shown == {Progress[i] : i \in 1..6} \cup {"orphan"}

NotBefore(s, t) ==
  \E i \in 1..6 : \E k \in i..6 : Progress[i] = s /\ Progress[k] = t

BoardInit ==
  /\ board = [j \in Job |-> "absent"]
  /\ disturbed = {}

Appear(j) == board[j] = "absent" /\ board'[j] = "Submitted"

Advance(j) ==
  /\ board[j] \in Shown \ {"Complete"} /\ board'[j] \in Shown
  /\ j \notin disturbed' => NotBefore(board[j], board'[j])

Leave(j) == board'[j] = "gone"

Entry(j) == Appear(j) \/ Advance(j) \/ Leave(j) \/ board'[j] = board[j]

BoardNext ==
  /\ disturbed \subseteq disturbed'
  /\ DOMAIN board' = Job
  /\ \A j \in Job : Entry(j)

BoardSpec == BoardInit /\ [][BoardNext]_<<board, disturbed>>
=============================================================================
