------------------------ MODULE MCForegroundScheduler ------------------------
(* Two requests, one on each side of the foreground boundary, against work *)
(* in a foreground lane, in the inventory lane and in the background lane. *)
EXTENDS ForegroundScheduler

MCRequests == {"navigate", "inventory"}
MCRequestLane == [navigate |-> 1, inventory |-> 3]
MCCheckpoints == {"visible", "urls", "hydration"}
MCCheckpointLane == [visible |-> 2, urls |-> 3, hydration |-> 4]
MCWindows == {"w1", "w2"}
=============================================================================
