-------------------------------- MODULE Vfs --------------------------------
(***************************************************************************)
(* The descriptor layer of the ZI28 operating system: the kernel half and  *)
(* the user half of the descriptor table, the table of open files with its *)
(* reference counts, and the system calls, process calls and mounts that   *)
(* change them (fs/vfs.org, process.org, and the k_open of drive.org and   *)
(* path.org).                                                              *)
(*                                                                         *)
(* The kernel is not preemptive and takes no interrupts, so one call is    *)
(* one step.  What happens to the position and the data of a file is the   *)
(* subject of module BlockIo; k_read, k_write, k_lseek, k_fstat and         *)
(* k_readdir change nothing that is kept here.                             *)
(***************************************************************************)
EXTENDS Integers, FiniteSets

CONSTANTS
  NFd,      \* descriptors per half of the table (fdTableEntries, 32)
  NFiles,   \* entries of the file table (fileTableEntries, 32)
  Byte,     \* the values of a register or a table byte (256)
  UserArgs, \* descriptor numbers the programs pass to system calls
  NewArgs,  \* "new fd" arguments the programs pass to the dup call
  FileKinds,   \* the kinds of files the programs and the shell open
  DriverByte,  \* low byte of the address of fat_fsDriver, and whether its high
  DriverIsFs   \* byte selects a file system: what the shell's mount passes

Kinds == {"REG", "DIR", "CHAR"}

ASSUME SizesFit ==
  /\ NFd \in Nat /\ NFd >= 4
  /\ NFiles \in Nat /\ NFiles >= 3
  /\ Byte \in Nat /\ 2 * NFd < Byte /\ NFiles < Byte

ASSUME ArgsTyped ==
  /\ UserArgs \subseteq 0 .. Byte - 1
  /\ NewArgs \subseteq 0 .. Byte - 1
  /\ FileKinds \subseteq Kinds
  /\ DriverByte \in 0 .. Byte - 1
  /\ DriverIsFs \in BOOLEAN

VARIABLES
  tab,     \* the two tables, as one record (see Table)
  mounts,  \* the descriptors the drive table keeps (driveTableDevfd)
  proc,    \* who executes: the shell, a program, a program's program, or
           \* code reached through a return address that was overwritten
  clean    \* history: no call has yet taken one of the three branches that
           \* let counts and descriptors drift apart (see Drift below)

vars == <<tab, mounts, proc, clean>>
----------------------------------------------------------------------------
(* Tables. *)

Free      == Byte - 1
Fds       == 0 .. 2 * NFd - 1
KernelFds == 0 .. NFd - 1
UserFds   == NFd .. 2 * NFd - 1
Files     == 0 .. NFiles - 1
StdStreams == 0 .. 2

\* fd: the slots of k_fdTable and u_fdTable, which are contiguous; mode: the
\* type bits of ft_tableMode, "free" for 0x00; refs: ft_refCount.
Table == [fd   : [Fds -> Files \cup {Free}],
          mode : [Files -> Kinds \cup {"free"}],
          refs : [Files -> 0 .. Byte - 1]]

Lowest(S) == CHOOSE x \in S : \A y \in S : x <= y

Holders(t, f)    == {d \in Fds : t.fd[d] = f}
FreeFds(t, half) == {d \in half : t.fd[d] = Free}
FreeFiles(t)     == {f \in Files : t.mode[f] = "free"}

\* A slot above the table, a closed one included, is out of bounds for
\* getFileAddr; the callers that ignore the carry go on with entry 0.
EntryOf(slot) == IF slot \in Files THEN slot ELSE 0

\* u_ entry points shift the caller's number into the user half, in 8 bits.
UserFd_Unshifted(a) == a
UserFd(a) == (a + NFd) % Byte
----------------------------------------------------------------------------
(* What the calls do to the tables. *)

CanClaim(t, half) == FreeFds(t, half) # {} /\ FreeFiles(t) # {}

\* Mutant: the reference count is not set.
Claim_NoCount(t, half, kind) ==
  [t EXCEPT !.fd[Lowest(FreeFds(t, half))] = Lowest(FreeFiles(t)),
            !.mode[Lowest(FreeFiles(t))] = kind]

\* A successful open takes the first free slot and the first free entry.
Claim(t, half, kind) ==
  LET d == Lowest(FreeFds(t, half))
      f == Lowest(FreeFiles(t))
  IN  [fd   |-> [t.fd EXCEPT ![d] = f],
       mode |-> [t.mode EXCEPT ![f] = kind],
       refs |-> [t.refs EXCEPT ![f] = 1]]

Valid(t, d) == d \in Fds /\ t.fd[d] # Free

\* Mutants: the entry is cleared at every close; it is never cleared.
CloseFd_Always(t, d) ==
  IF ~Valid(t, d) THEN t
  ELSE [t EXCEPT !.fd[d] = Free, !.mode[t.fd[d]] = "free",
                 !.refs[t.fd[d]] = (@ - 1) % Byte]
CloseFd_Leaks(t, d) ==
  IF ~Valid(t, d) THEN t
  ELSE [t EXCEPT !.fd[d] = Free, !.refs[t.fd[d]] = (@ - 1) % Byte]

\* Closing frees the slot, counts down in 8 bits and clears the entry at 0.
CloseFd(t, d) ==
  IF ~Valid(t, d) THEN t
  ELSE LET f == t.fd[d]
           n == (t.refs[f] - 1) % Byte
       IN  [fd   |-> [t.fd EXCEPT ![d] = Free],
            mode |-> IF n = 0 THEN [t.mode EXCEPT ![f] = "free"] ELSE t.mode,
            refs |-> [t.refs EXCEPT ![f] = n]]

\* Mutant: a closed descriptor is copied without counting anything.
CopyFd_SkipsClosed(t, new, old) ==
  IF t.fd[old] \notin Files THEN [t EXCEPT !.fd[new] = t.fd[old]]
  ELSE [t EXCEPT !.fd[new] = t.fd[old], !.refs[t.fd[old]] = (@ + 1) % Byte]

\* The copy at the end of dup and udup.
CopyFd(t, new, old) ==
  LET f == EntryOf(t.fd[old])
  IN  [t EXCEPT !.fd[new] = t.fd[old], !.refs[f] = (@ + 1) % Byte]

\* stat, chdir and the loading part of execv: open for the kernel, use, close.
OpenAndClose(t, kind) ==
  CloseFd(Claim(t, KernelFds, kind), Lowest(FreeFds(t, KernelFds)))

\* udup leaves a user slot that is in use alone.
Udup(t, i) == IF t.fd[NFd + i] # Free THEN t ELSE CopyFd(t, NFd + i, i)

UdupStd(t) == Udup(Udup(Udup(t, 0), 1), 2)

\* Explicit new slot: dup closes the descriptor whose NUMBER is the entry index
\* found in the slot (register a still holds it), not the slot itself.
BeforeCopy(t, new) == IF t.fd[new] = Free THEN t ELSE CloseFd(t, t.fd[new])
----------------------------------------------------------------------------
(* Drift: the branches after which counts no longer match descriptors. *)

\* A descriptor is copied over one that is still open, or a closed one copied.
DupDrifts(t, new, old) == t.fd[new] # Free \/ t.fd[old] = Free

\* A closed standard stream is copied.  (If entry 0 is free, the load that
\* follows claims and clears it, which sets its count right again.)
UdupDrifts(t) == \E i \in StdStreams : t.fd[NFd + i] = Free /\ t.fd[i] = Free
----------------------------------------------------------------------------
(* Cold start. *)

\* After coldStart: TTY0 for reading on 0, TTY0 for writing on 1 and 2, and the
\* drive's device file on 3 when it could be opened.
BootTable(mounted) ==
  [fd   |-> [d \in Fds |-> IF d = 0 THEN 0 ELSE IF d < 3 THEN 1
                           ELSE IF d = 3 /\ mounted THEN 2 ELSE Free],
   mode |-> [f \in Files |-> IF f < 2 \/ (f = 2 /\ mounted) THEN "CHAR" ELSE "free"],
   refs |-> [f \in Files |-> IF f = 0 THEN 1 ELSE IF f = 1 THEN 2
                             ELSE IF f = 2 /\ mounted THEN 1 ELSE 0]]

Booted(mounted) ==
  [tab |-> BootTable(mounted), mounts |-> IF mounted THEN {3} ELSE {}]

Init == \E mounted \in BOOLEAN :
  /\ tab = Booted(mounted).tab
  /\ mounts = Booted(mounted).mounts
  /\ proc = "shell"
  /\ clean = TRUE

\* Reset, RST 0, or a jump through a null driver routine.
ColdStart == \E mounted \in BOOLEAN :
  /\ tab' = Booted(mounted).tab
  /\ mounts' = Booted(mounted).mounts
  /\ proc' = "shell"
  /\ clean' = TRUE
----------------------------------------------------------------------------
(* System calls of a program. *)

InProgram == proc \in {"program", "nested"}
Runs      == InProgram \/ proc = "shell"

\* Mutant: the entry counter has already moved on when it is stored in the slot.
UOpen_NextEntry(kind) ==
  /\ InProgram
  /\ CanClaim(tab, UserFds)
  /\ tab' = [Claim(tab, UserFds, kind) EXCEPT
               !.fd[Lowest(FreeFds(tab, UserFds))] = Lowest(FreeFiles(tab)) + 1]
  /\ UNCHANGED <<mounts, proc, clean>>

\* A full table or an error of the file system leaves both tables as they were.
UOpen(kind) ==
  /\ InProgram
  /\ CanClaim(tab, UserFds)
  /\ tab' = Claim(tab, UserFds, kind)
  /\ UNCHANGED <<mounts, proc, clean>>

UClose(a) ==
  /\ InProgram
  /\ tab' = CloseFd(tab, UserFd(a))
  /\ UNCHANGED <<mounts, proc, clean>>

\* dup with 0xff: the first free user slot.  `old` is not shifted into the user
\* half, here and below, and an out-of-range one is refused.
UDupFirst(old) ==
  /\ InProgram
  /\ FreeFds(tab, UserFds) # {}
  /\ old \in Fds
  /\ LET new == Lowest(FreeFds(tab, UserFds))
     IN  /\ tab' = CopyFd(tab, new, old)
         /\ clean' = (clean /\ ~DupDrifts(tab, new, old))
  /\ UNCHANGED <<mounts, proc>>

\* dup to a given number: the wrong close comes first, even if `old` is refused.
UDupTo(new, old) ==
  /\ InProgram
  /\ new \in Fds
  /\ LET t == BeforeCopy(tab, new)
     IN  IF old \in Fds
         THEN /\ tab' = CopyFd(t, new, old)
              /\ clean' = (clean /\ ~DupDrifts(t, new, old))
         ELSE tab' = t /\ UNCHANGED clean
  /\ UNCHANGED <<mounts, proc>>

\* unlink opens on the kernel half.  A directory, or a file the file system
\* will not remove, stays open when the call returns.
UnlinkFails(kind) ==
  /\ InProgram
  /\ CanClaim(tab, KernelFds)
  /\ kind \in {"REG", "DIR"}
  /\ tab' = Claim(tab, KernelFds, kind)
  /\ UNCHANGED <<mounts, proc, clean>>

\* A removed file's entry is cleared, and the descriptor goes on naming it.
UnlinkRemoves ==
  /\ InProgram
  /\ CanClaim(tab, KernelFds)
  /\ LET f == Lowest(FreeFiles(tab))
     IN  tab' = [Claim(tab, KernelFds, "REG") EXCEPT !.mode[f] = "free", !.refs[f] = 0]
  /\ clean' = FALSE
  /\ UNCHANGED <<mounts, proc>>

\* devfs has no unlink routine: the call jumps to address 0.
UnlinkDevice ==
  /\ InProgram
  /\ CanClaim(tab, KernelFds)
  /\ ColdStart

Stat(kind) ==
  /\ Runs
  /\ CanClaim(tab, KernelFds)
  /\ tab' = OpenAndClose(tab, kind)
  /\ UNCHANGED <<mounts, proc, clean>>

Chdir ==
  /\ Runs
  /\ CanClaim(tab, KernelFds)
  /\ tab' = OpenAndClose(tab, "DIR")
  /\ UNCHANGED <<mounts, proc, clean>>

\* Mutant: the call closes the device before it returns, as stat does.
UMount_Closes(kind, accepted) ==
  /\ InProgram
  /\ CanClaim(tab, KernelFds)
  /\ tab' = OpenAndClose(tab, kind)
  /\ mounts' = IF accepted THEN mounts \cup {Lowest(FreeFds(tab, KernelFds))} ELSE mounts
  /\ UNCHANGED <<proc, clean>>

\* The device stays open for the drive; it also stays open when k_mount refuses.
UMount(kind, accepted) ==
  /\ InProgram
  /\ CanClaim(tab, KernelFds)
  /\ tab' = Claim(tab, KernelFds, kind)
  /\ mounts' = IF accepted THEN mounts \cup {Lowest(FreeFds(tab, KernelFds))} ELSE mounts
  /\ UNCHANGED <<proc, clean>>

\* The shell's mount builtin overwrites the descriptor with the address of the
\* driver before it calls k_mount.
ShellMount(kind) ==
  /\ proc = "shell"
  /\ CanClaim(tab, KernelFds)
  /\ tab' = Claim(tab, KernelFds, kind)
  /\ mounts' = IF DriverIsFs THEN mounts \cup {DriverByte} ELSE mounts
  /\ UNCHANGED <<proc, clean>>

\* The streams are copied before the arguments and the path are looked at.
Execv(kind, loads) ==
  /\ Runs
  /\ LET t == UdupStd(tab)
     IN  IF loads
         THEN /\ CanClaim(t, KernelFds)
              /\ tab' = OpenAndClose(t, kind)
              /\ proc' = IF proc = "shell" THEN "program" ELSE "nested"
         ELSE tab' = t /\ UNCHANGED proc
  /\ clean' = (clean /\ (UdupDrifts(tab) => loads /\ tab.mode[0] = "free"))
  /\ UNCHANGED mounts

\* exit restores the one saved stack pointer and closes nothing.  The pointer a
\* nested execv saved lies in the memory its program was loaded over.
Exit ==
  /\ InProgram
  /\ proc' = IF proc = "program" THEN "shell" ELSE "wild"
  /\ UNCHANGED <<tab, mounts, clean>>
----------------------------------------------------------------------------
Next ==
  \/ ColdStart
  \/ \E kind \in FileKinds : UOpen(kind)
  \/ \E a \in UserArgs : UClose(a)
  \/ \E old \in UserArgs : Free \in NewArgs /\ UDupFirst(old)
  \/ \E new \in NewArgs \ {Free}, old \in UserArgs : UDupTo(new, old)
  \/ \E kind \in FileKinds : UnlinkFails(kind)
  \/ UnlinkRemoves
  \/ UnlinkDevice
  \/ \E kind \in FileKinds : Stat(kind)
  \/ Chdir
  \/ \E kind \in FileKinds, accepted \in BOOLEAN : UMount(kind, accepted)
  \/ \E kind \in FileKinds : ShellMount(kind)
  \/ \E kind \in FileKinds, loads \in BOOLEAN : Execv(kind, loads)
  \/ Exit

Spec == Init /\ [][Next]_vars
----------------------------------------------------------------------------
(* Properties. *)

\* The tables hold values of their types: in particular every slot that is in
\* use names an entry of the file table.
TypeOK ==
  /\ tab \in Table
  /\ mounts \subseteq 0 .. Byte - 1
  /\ proc \in {"shell", "program", "nested", "wild"}
  /\ clean \in BOOLEAN

\* ft_refCount is "the number of file descriptors pointing to this file"
\* (vfs.org), through every mix of calls of the shell and of nested programs,
\* until the first call that takes one of the three drifting branches.
RefCountExact == clean => \A f \in Files : tab.refs[f] = Cardinality(Holders(tab, f))

\* Until then no descriptor dangles and no entry leaks: an entry of the file
\* table is in use exactly as long as a descriptor points to it.
LiveIffHeld == clean => \A f \in Files : tab.mode[f] # "free" <=> Holders(tab, f) # {}

IsBooted(t) == \E mounted \in BOOLEAN : t = BootTable(mounted)

\* A descriptor that a call leaves in place goes on naming the same open file:
\* no open elsewhere takes its entry over, no close elsewhere clears it.
OpenFileStable ==
  [][clean /\ clean' /\ ~IsBooted(tab') =>
       \A d \in Fds : Valid(tab, d) /\ tab'.fd[d] = tab.fd[d]
                       => tab'.mode[tab.fd[d]] = tab.mode[tab.fd[d]]]_vars

\* Programs that pass descriptor numbers of their own half, and let dup choose,
\* never close or redirect a descriptor of the kernel, whatever they call.
KernelHalfStays ==
  [][~IsBooted(tab') => \A d \in KernelFds : Valid(tab, d) => tab'.fd[d] = tab.fd[d]]_vars

\* dt_devfd is "the file descriptor of the underlying device file" (drive.org):
\* the descriptor of a mounted drive is open as long as the drive is mounted.
DevfdsOpen ==
  clean => \A d \in mounts : Valid(tab, d) /\ tab.mode[tab.fd[d]] # "free"

\* Every drifting branch does break the tables when it is the first: the
\* history ends where the counts end being right, and not before.
DriftBreaks ==
  [][clean /\ ~clean' => \E f \in Files :
       \/ tab'.refs[f] # Cardinality(Holders(tab', f))
       \/ (tab'.mode[f] = "free") # (Holders(tab', f) = {})]_vars

\* The descriptor layer as its callers see it, while no call has drifted.
Abs == INSTANCE OpenFiles WITH
  Descs <- Fds, Slots <- Files, None <- Free,
  Starts <- {BootTable(mounted).fd : mounted \in BOOLEAN},
  names <- tab.fd, live <- {f \in Files : tab.mode[f] # "free"}

\* Up to the first drifting call the tables implement the abstract descriptor
\* layer: each call is one abstract step or changes nothing there.
ImplementsOpenFiles ==
  /\ Abs!Init
  /\ [][clean' => Abs!Next]_(Abs!ovars)

\* The reference count without the history: what vfs.org says of every state.
RefCountIsFdCount == \A f \in Files : tab.refs[f] = Cardinality(Holders(tab, f))
=============================================================================
