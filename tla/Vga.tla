---- MODULE Vga ----
(* The graphics module of the emulator (emulator/modules/vga/vga.c): the port
   accesses of the emulated machine, in the thread of the emulator, and the
   thread that draws the picture. They share the video memory without a lock; a
   step is one access or one pixel. *)
EXTENDS Integers

CONSTANTS
  Width,    \* bytes of a row, 128 in the module; a byte is two pixels
  Rows,     \* rows of the video memory, 256 in the module
  Visible,  \* rows on the screen, 192 in the module
  Bytes     \* the bytes that occur: pairs of a left and a right color

Colors == 0 .. 15

ASSUME VgaFits ==
  /\ Width \in Nat \ {0} /\ Visible \in Nat \ {0} /\ Rows \in Nat /\ Visible <= Rows
  /\ Bytes \subseteq Colors \X Colors

VARIABLES
  vram,     \* the video memory, a byte is <<low nibble, high nibble>>
  oldVram,  \* vram_old, as the pixel loop leaves it
  coord,    \* xreg and yreg
  visible,  \* isVisible of the module, windowVisible of the thread
  scan,     \* the thread: what it does, where, and updateFlag
  screen    \* the renderer's picture and the one in the window

vgaVars == <<vram, oldVram, coord, visible, scan, screen>>

Cells == 0 .. Width * Rows - 1
Pixels == 0 .. 2 * Width * Visible - 1
Cell == coord.x + Width * coord.y

(* Port accesses. *)

\* Address bit 0: the next byte, at the end of a row that of the next row.
Advanced(c) ==
  IF c.x + 1 < Width THEN [c EXCEPT !.x = @ + 1] ELSE [x |-> 0, y |-> (c.y + 1) % Rows]

VgaRead ==
  /\ coord' = Advanced(coord)
  /\ UNCHANGED <<vram, oldVram, visible, scan, screen>>

VgaWrite ==
  /\ \E data \in Bytes, advance \in BOOLEAN :
       /\ vram' = [vram EXCEPT ![Cell] = data]
       /\ coord' = IF advance THEN Advanced(coord) ELSE coord
  /\ UNCHANGED <<oldVram, visible, scan, screen>>

VgaSetCoord ==
  /\ \/ \E x \in 0 .. Width - 1 : coord' = [coord EXCEPT !.x = x]
     \/ \E y \in 0 .. Rows - 1 : coord' = [coord EXCEPT !.y = y]
  /\ UNCHANGED <<vram, oldVram, visible, scan, screen>>

VgaShowHide ==
  /\ \E v \in BOOLEAN : visible' = [visible EXCEPT !.module = v]
  /\ UNCHANGED <<vram, oldVram, coord, scan, screen>>

(* The thread. *)

\* The memory starts at random; what the machine has written there is lost.
Fill ==
  /\ scan.does = "fill"
  /\ \E data \in Bytes :
       /\ vram' = [vram EXCEPT ![scan.at] = data]
       /\ oldVram' = [oldVram EXCEPT ![scan.at] = data]
  /\ scan' = IF scan.at + 1 \in Cells THEN [scan EXCEPT !.at = @ + 1] ELSE [scan EXCEPT !.does = "events", !.at = 0]
  /\ UNCHANGED <<coord, visible, screen>>

\* The user may close the window; then the window follows isVisible.
Events ==
  /\ scan.does = "events"
  /\ \E closes \in BOOLEAN :
       visible' = IF closes THEN [module |-> FALSE, window |-> FALSE] ELSE [visible EXCEPT !.window = visible.module]
  /\ scan' = [scan EXCEPT !.does = "draw", !.at = 0, !.update = FALSE]
  /\ UNCHANGED <<vram, oldVram, coord, screen>>

\* What stays of the old byte: nothing but the pixel just drawn.
Remembered(old, side, color) == IF side = 1 THEN <<color, 0>> ELSE <<0, color>>

\* Mutant: updateFlag is that of the last pixel.
Changed_LastOnly(update, color, old) == color # old

Changed(update, color, old) == update \/ color # old

Draw ==
  /\ scan.does = "draw"
  /\ LET cell == scan.at \div 2
         side == 1 + (scan.at % 2)
         color == vram[cell][side]
     IN /\ oldVram' = [oldVram EXCEPT ![cell] = Remembered(@, side, color)]
        /\ screen' = [screen EXCEPT !.back[scan.at] = color]
        /\ scan' = [scan EXCEPT !.update = Changed(@, color, oldVram[cell][side]),
                                !.at = @ + 1, !.does = IF scan.at + 1 \in Pixels THEN "draw" ELSE "present"]
  /\ UNCHANGED <<vram, coord, visible>>

Presented(s) == IF scan.update THEN [s EXCEPT !.front = s.back] ELSE s

Present ==
  /\ scan.does = "present"
  /\ screen' = Presented(screen)
  /\ scan' = [scan EXCEPT !.does = "events", !.at = 0, !.update = FALSE, !.first = FALSE]
  /\ UNCHANGED <<vram, oldVram, coord, visible>>

Black == [p \in Pixels |-> 0]

VgaInit ==
  /\ vram = [k \in Cells |-> <<0, 0>>] /\ oldVram = vram
  /\ coord = [x |-> 0, y |-> 0]
  /\ visible = [module |-> TRUE, window |-> TRUE]
  /\ scan = [does |-> "fill", at |-> 0, update |-> FALSE, first |-> TRUE]
  /\ screen = [back |-> Black, front |-> Black]

VgaNext == \/ VgaRead \/ VgaWrite \/ VgaSetCoord \/ VgaShowHide \/ Fill \/ Events \/ Draw \/ Present

VgaSpec == VgaInit /\ [][VgaNext]_vgaVars

(* Properties. *)

\* Whatever the machine writes meanwhile, the window shows the last frame that
\* was drawn, with one exception: a frame that is all black is never presented,
\* so that a screen that is cleared keeps its last picture. (The first frame
\* may be held back: it is compared with the memory it was filled with.)
VgaPresents ==
  [][scan.does = "present" /\ ~scan.first =>
       screen'.front = IF screen.back = Black THEN screen.front ELSE screen.back]_scan
====
