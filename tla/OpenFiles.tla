------------------------------ MODULE OpenFiles ------------------------------
(***************************************************************************)
(* What a descriptor layer promises: every descriptor names one open file  *)
(* or none, an open file lives exactly as long as a descriptor names it,   *)
(* and no file is given out while it lives.  There are no counters.        *)
(***************************************************************************)
CONSTANTS
  Descs,  \* the descriptors
  Slots,  \* the places an open file can be kept in
  None,   \* what a descriptor that is not open names; no slot
  Starts  \* the functions from descriptors to Slots a cold start may leave

VARIABLES
  names,  \* what each descriptor names
  live    \* the slots that keep an open file

ovars == <<names, live>>

Named(n) == {n[d] : d \in Descs} \ {None}

Init == names \in Starts /\ live = Named(names)

\* A descriptor opens a file in a slot that keeps none.
Acquire(d, s) ==
  /\ names[d] = None
  /\ s \in Slots \ live
  /\ names' = [names EXCEPT ![d] = s]
  /\ live' = live \cup {s}

\* The file goes with its last descriptor.
Release(d) ==
  /\ names[d] # None
  /\ names' = [names EXCEPT ![d] = None]
  /\ live' = Named(names')

\* Descriptors that are not open come to name files that live.
Share ==
  /\ names' \in [Descs -> Slots \cup {None}]
  /\ \A d \in Descs : names'[d] # names[d] => names[d] = None /\ names'[d] \in live
  /\ UNCHANGED live

\* A descriptor is redirected to the file of another, which keeps it.
Redirect(d, e) ==
  /\ d # e
  /\ names[d] # None
  /\ names[e] # None
  /\ names' = [names EXCEPT ![d] = names[e]]
  /\ live' = Named(names')

Restart == names' \in Starts /\ live' = Named(names')

Next ==
  \/ \E d \in Descs, s \in Slots : Acquire(d, s)
  \/ \E d \in Descs : Release(d)
  \/ Share
  \/ \E d, e \in Descs : Redirect(d, e)
  \/ Restart

Spec == Init /\ [][Next]_ovars
=============================================================================
