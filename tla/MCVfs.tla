------------------------------- MODULE MCVfs -------------------------------
(***************************************************************************)
(* Small instances of Vfs.  Cold start takes four kernel descriptors, so a *)
(* half has five; a byte of 16 values keeps the wrap-around of shifted     *)
(* descriptor numbers (11 .. 15 reach the kernel half, 5 .. 10 none).      *)
(***************************************************************************)
EXTENDS Vfs

OwnHalf  == 0 .. NFd - 1
OnlyFree == {Free}

\* Two numbers of the own half, one that shifts out of both halves, one that
\* shifts into the kernel half; a target in each half, one outside, 0xff.
SomeArgs == {0, 3, 6, 12}
SomeNews == {1, 5, 10, Free}

\* Nothing is claimed of what follows a drifting call: stop behind it.
UntilDrift == clean

\* Two programs that only open and duplicate, and only remove files.
DupSpec ==
  Init /\ [][\/ Execv("REG", TRUE)
             \/ UOpen("REG")
             \/ \E new \in NewArgs, old \in UserArgs : UDupTo(new, old)]_vars

UnlinkSpec ==
  Init /\ [][\/ Execv("REG", TRUE)
             \/ UnlinkFails("REG")
             \/ UnlinkRemoves]_vars

JustStdout == {2}
JustStdin  == {0}
=============================================================================
