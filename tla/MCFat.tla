------------------------------- MODULE MCFat -------------------------------
(***************************************************************************)
(* Instances of Fat for TLC.                                               *)
(***************************************************************************)
EXTENDS Fat

\* Nothing is claimed once a removal was cut short: stop there.  Bound: from a
\* write through a stale descriptor on, a write follows fewer links.
WhileWhole == ~torn /\ (misused => call.left < MaxWalk)

\* A program that writes files through one descriptor at a time, and removes
\* them when it has closed it, on a device that never fails.
UndisturbedNext ==
  \/ \E d \in Fds, s \in Slots : Create(d, s) \/ Open(d, s)
  \/ \E d \in Fds : Close(d)
  \/ \E d \in Fds, links \in 0 .. MaxWalk : Write(d, links)
  \/ Walk \/ Add1 \/ Astray \/ Add2 \/ Link1 \/ Link2 \/ Start(TRUE)
  \/ \E s \in Slots : (\A d \in Fds : ~open[d].up) /\ Unlink(s)
  \/ Clear1 \/ Clear2 \/ Mark

UndisturbedSpec == Init /\ [][UndisturbedNext]_vars
=============================================================================
