--------------------------- MODULE MCAttendanceDay ---------------------------
(* Model-checking instance of AttendanceDay.                               *)
EXTENDS AttendanceDay, TLC

(* The approvers are alike, and so are the forms and sweeps. *)
MCSymmetry == Permutations(Deciders) \cup Permutations(Requesters)

(* What competes for the day at once: two corrections, raised or about to  *)
(* be, and a decision of each; or two decisions of the one correction of   *)
(* the day; or, with an optional holiday, one of each.                     *)
Existing == {c \in Corrections : correction[c].status # "NONE"}
Raising  == {r \in Requesters : requester[r] # Asleep}
Deciding == {d \in Deciders : decider[d] # Idle}

MCBound ==
  LET holidayToo == granted \/ reviewing \/ outcome # "NONE" IN
  /\ Cardinality(Existing) + Cardinality(Raising)
       <= IF holidayToo \/ contested # {} THEN 1 ELSE 2
  /\ Cardinality(Deciding) <= IF holidayToo THEN 1 ELSE 2
=============================================================================
