----------------------------- MODULE StateStore -----------------------------
(***************************************************************************)
(* What a Scheduler promises about its state file: a save is atomic with   *)
(* respect to the state in memory (the file gets all of the state of one   *)
(* moment, or is unreadable), and a started process has exactly what the   *)
(* file holds, or nothing. Scheduler implements it                         *)
(* (SchedulerProperties!ImplementsStore).                                  *)
(***************************************************************************)
CONSTANTS States, Empty, Missing, Unreadable

VARIABLES up, memory, file

store == << up, memory, file >>

Loaded == IF file \in {Missing, Unreadable} THEN Empty ELSE file

Init == up = TRUE /\ memory = Empty /\ file = Missing

Update ==
  /\ up
  /\ memory' \in States
  /\ UNCHANGED << up, file >>

Save == up /\ file' = memory /\ UNCHANGED << up, memory >>

\* a save that has begun to write and may get no further
Tear == up /\ file' = Unreadable /\ UNCHANGED << up, memory >>

Stop == up /\ up' = FALSE /\ memory' = Empty /\ UNCHANGED file

Start == ~up /\ up' = TRUE /\ memory' = Loaded /\ UNCHANGED file

Next == Update \/ Save \/ Tear \/ Stop \/ Start

Spec == Init /\ [][Next]_store
=============================================================================
