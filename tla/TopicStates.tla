---------------------------- MODULE TopicStates ----------------------------
(***************************************************************************)
(* The statuses of a topic and the moves the state machine allows          *)
(* (topicstate/state_machine.go).  Pure: nothing in the database enforces  *)
(* it, so each caller asks it about the copy of the row it has read.       *)
(***************************************************************************)
Statuses == {"backlog", "scheduled", "generating", "drafted", "done", "archived"}

From == [schedule         |-> {"backlog", "scheduled"},
         clear_schedule   |-> {"backlog", "scheduled"},
         start_generation |-> {"backlog", "scheduled"},
         mark_drafted     |-> {"generating"},
         reject_draft     |-> {"drafted", "generating", "backlog", "scheduled"},
         archive          |-> {"backlog", "scheduled", "drafted", "done"}]

To == [schedule         |-> "scheduled",
       clear_schedule   |-> "backlog",
       start_generation |-> "generating",
       mark_drafted     |-> "drafted",
       reject_draft     |-> "backlog",
       archive          |-> "archived"]

Allows(status, event) == status \in From[event]

\* A topic whose draft already exists is drafted, from these statuses.
Reconcilable == {"backlog", "scheduled", "generating"}

\* A failed generation gives the topic back to its slot, or to the backlog.
AfterFailure(slotted) == IF slotted THEN "scheduled" ELSE "backlog"
=============================================================================
