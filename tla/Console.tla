------------------------------ MODULE Console ------------------------------
(***************************************************************************)
(* The text console of io/io.c, shared without any lock by the kernel,     *)
(* which prints and clears the screen with interrupts enabled, and the     *)
(* keyboard interrupt handler (debug_keyboard_handler of apic.c,           *)
(* keyboard_handler of pic.c), which echoes what is typed.                 *)
(*                                                                         *)
(* printByte in the kernel is a sequence of loads and stores, between any  *)
(* two of which the handler may run; the handler itself runs with          *)
(* interrupts off, in one step.  A byte is its kind: a letter, a line      *)
(* break, a tab, a backspace or the null byte.  A cell of the screen is    *)
(* blank (low byte 0) or not; colours are left out.                        *)
(***************************************************************************)
EXTENDS Integers, Sequences

CONSTANTS Width, Height,
          Tab,        \* columns a tab advances (4)
          Byte,       \* values of a uint8_t (256)
          Keys,       \* kinds of byte the plain scan codes stand for
          ExtKeys,    \* kinds of byte the scan codes after 0xe0 stand for
          TypeAhead,  \* bound: how many typed letters the history remembers
          Leftovers   \* sets of cells behind the screen that the firmware left not blank

ASSUME SizeAssumption == Width \in Nat \ {0} /\ Height \in Nat \ {0}
ASSUME ByteAssumption == Tab \in Nat \ {0} /\ Byte \in Nat /\ Byte > Width + Tab

\* The history is no longer than the screen: no letter of it is typed over.
ASSUME HistoryAssumption == TypeAhead \in 0 .. (Width * Height)

Kinds == {"letter", "newline", "tab", "backspace", "null"}
ASSUME KeysAssumption == Keys \subseteq Kinds /\ ExtKeys \subseteq Kinds

Cell(cx, cy) == cy * Width + cx
Screen       == 0 .. (Width * Height - 1)
Memory       == 0 .. (Width * Height + Byte)      \* the text memory that is modelled

ASSUME LeftoversAssumption == Leftovers \subseteq SUBSET (Memory \ Screen)

VARIABLES screen,   \* is the cell blank?  indexed by y*Width + x, also past the end
          x, y,     \* console.x, console.y
          seq,      \* the handler has seen 0xe0
          pc,       \* where the kernel is in printByte or kclear_screen
          byte,     \* the kind of byte it prints
          r,        \* the register of a load and store, or the index of kclear_screen
          typed     \* history: where the letters just typed went

kernel  == <<pc, byte, r>>
vars    == <<screen, x, y, seq, kernel, typed>>

\* After the kclear_screen kernel_main begins with: it blanks the screen, and not
\* the text memory behind it.
Init ==
    /\ \E junk \in Leftovers : screen = [c \in Memory |-> c \notin junk]
    /\ x = 0 /\ y = 0 /\ seq = 0
    /\ pc = "idle" /\ byte = "null" /\ r = 0
    /\ typed = <<>>

(***************************************************************************)
(* printByte, run without interruption: the console afterwards.            *)
(***************************************************************************)
At(s, cx, cy) == [screen |-> s, x |-> cx, y |-> cy]

\* The two range checks at the end of printByte.
Wrap(c) ==
    LET c1 == IF c.x >= Width THEN At(c.screen, 0, c.y + 1) ELSE c
    IN  IF c1.y >= Height THEN At(c1.screen, 0, 0) ELSE c1

\* Mutant of Backspace: from the first column it stays in its line.
BackspaceInLine(s, cx, cy) ==
    LET bx == IF cx = 0 THEN 0 ELSE cx - 1
    IN  Wrap(At([s EXCEPT ![Cell(bx, cy)] = TRUE], bx, cy))

(***************************************************************************)
(* Backspace in column 0 searches the line before from its end for a cell  *)
(* that is not blank.  Past column 0 console.x-- wraps to Byte-1 and one   *)
(* more cell is read, far behind the line; if it is blank the cursor is    *)
(* set to column 0, else that cell is erased.  The branch that goes on to  *)
(* the line before is never taken: the first cell has just been read as    *)
(* blank.                                                                  *)
(***************************************************************************)
Backspace(s, cx, cy) ==
    LET by    == IF cx # 0 THEN cy ELSE IF cy = 0 THEN Height - 1 ELSE cy - 1
        text  == {k \in 0 .. (Width - 1) : ~s[Cell(k, by)]}
        bx    == IF cx # 0 THEN cx - 1
                 ELSE IF text = {} THEN Byte - 1
                 ELSE CHOOSE k \in text : \A l \in text : l <= k
    IN  IF cx = 0 /\ text = {} /\ s[Cell(Byte - 1, by)]
        THEN At(s, 0, by)
        ELSE Wrap(At([s EXCEPT ![Cell(bx, by)] = TRUE], bx, by))

printByte(s, cx, cy, b) ==
    IF b = "null" THEN At(s, cx, cy)
    ELSE IF b = "newline" THEN Wrap(At(s, 0, cy + 1))
    ELSE IF b = "tab" THEN Wrap(At(s, cx + Tab, cy))
    ELSE IF b = "backspace" THEN Backspace(s, cx, cy)
    ELSE Wrap(At([s EXCEPT ![Cell(cx, cy)] = FALSE], cx + 1, cy))

(***************************************************************************)
(* The keyboard interrupt: 0xe0 announces an extended key, a code above    *)
(* 0x80 is a release, anything else is echoed.                             *)
(***************************************************************************)
Remember(b) ==
    CASE b = "letter" /\ pc = "idle" /\ Len(typed) < TypeAhead -> Append(typed, <<x, y>>)
      [] b = "backspace" /\ pc = "idle" /\ typed # <<>> -> SubSeq(typed, 1, Len(typed) - 1)
      [] b = "null" -> typed
      [] OTHER -> <<>>

KeyPressed(b) ==
    LET c == printByte(screen, x, y, b)
    IN  /\ screen' = c.screen /\ x' = c.x /\ y' = c.y
        /\ seq' = 0
        /\ typed' = Remember(b)
        /\ UNCHANGED kernel

KeyExtended == seq' = 1 /\ UNCHANGED <<screen, x, y, kernel, typed>>
KeyReleased == seq' = 0 /\ UNCHANGED <<screen, x, y, kernel, typed>>

(***************************************************************************)
(* The kernel's printByte and kclear_screen, step by step.                 *)
(***************************************************************************)
Goto(label)      == pc' = label /\ byte' = byte /\ typed' = <<>> /\ seq' = seq
Load(v, label)   == r' = v /\ Goto(label) /\ UNCHANGED <<screen, x, y>>
SetX(v, label)   == x' = v /\ Goto(label) /\ UNCHANGED <<screen, y, r>>
SetY(v, label)   == y' = v /\ Goto(label) /\ UNCHANGED <<screen, x, r>>
Test(yes, l1, l2) == Goto(IF yes THEN l1 ELSE l2) /\ UNCHANGED <<screen, x, y, r>>

BeginByte(b) ==
    /\ pc = "idle"
    /\ pc' = [letter |-> "put", newline |-> "cr", tab |-> "load"][b]
    /\ byte' = b /\ typed' = <<>>
    /\ UNCHANGED <<screen, x, y, seq, r>>

Put == /\ pc = "put"
       /\ screen' = [screen EXCEPT ![Cell(x, y)] = FALSE]
       /\ Goto("load") /\ UNCHANGED <<x, y, r>>

\* Mutant of WrapX: the line is ended, the column is not reset.
WrapXKeep ==
    \/ pc = "wrapx"  /\ Test(x >= Width, "wrapx1", "wrapy")
    \/ pc = "wrapx1" /\ Load(y, "wrapx2")
    \/ pc = "wrapx2" /\ SetY(r + 1, "wrapy")

Advance == \/ pc = "load"  /\ Load(x, "store")
           \/ pc = "store" /\ SetX(r + (IF byte = "tab" THEN Tab ELSE 1), "wrapx")
Newline == \/ pc = "cr"  /\ SetX(0, "lf")
           \/ pc = "lf"  /\ Load(y, "lf1")
           \/ pc = "lf1" /\ SetY(r + 1, "wrapx")
WrapX   == \/ pc = "wrapx"  /\ Test(x >= Width, "wrapx1", "wrapy")
           \/ pc = "wrapx1" /\ Load(y, "wrapx2")
           \/ pc = "wrapx2" /\ SetY(r + 1, "wrapx3")
           \/ pc = "wrapx3" /\ SetX(0, "wrapy")

\* Mutant of WrapY: nothing is done at the end of the screen.
WrapYNever == pc = "wrapy" /\ Test(TRUE, "idle", "idle")

WrapY   == \/ pc = "wrapy"  /\ Test(y >= Height, "wrapy1", "idle")
           \/ pc = "wrapy1" /\ SetX(0, "wrapy2")
           \/ pc = "wrapy2" /\ SetY(0, "idle")

kclear_screen ==
    \/ pc = "idle" /\ Load(0, "clear")
    \/ /\ pc = "clear" /\ r < Width * Height
       /\ screen' = [screen EXCEPT ![r] = TRUE]
       /\ r' = r + 1
       /\ Goto("clear") /\ UNCHANGED <<x, y>>
    \/ pc = "clear" /\ r >= Width * Height /\ SetX(0, "home")
    \/ pc = "home" /\ SetY(0, "idle")

Kernel ==
    \/ \E b \in {"letter", "newline", "tab"} : BeginByte(b)
    \/ Put \/ Advance \/ Newline \/ WrapX \/ WrapY
    \/ kclear_screen

Keyboard ==
    \/ \E b \in (IF seq = 1 THEN ExtKeys ELSE Keys) : KeyPressed(b)
    \/ KeyExtended
    \/ KeyReleased

Next == Kernel \/ Keyboard

Spec == Init /\ [][Next]_vars
-----------------------------------------------------------------------------
(***************************************************************************)
(* Whenever the kernel is outside printByte and kclear_screen the cursor   *)
(* is on the screen, wherever in them key strokes came in between: the     *)
(* two range checks repair every intermediate state.                       *)
(***************************************************************************)
CursorOnScreen == pc = "idle" => x \in 0 .. (Width - 1) /\ y \in 0 .. (Height - 1)

(***************************************************************************)
(* A backspace undoes a letter that was typed, across the end of a line    *)
(* and of the screen too, as long as the kernel prints nothing.            *)
(***************************************************************************)
BackspaceUndoes ==
    [][KeyPressed("backspace") /\ pc = "idle" /\ typed # <<>>
       => LET was == typed[Len(typed)]
          IN  <<x', y'>> = was /\ screen'[Cell(was[1], was[2])]]_vars

(***************************************************************************)
(* The screen ends where the buffer does, but a key stroke that comes in   *)
(* the middle of printByte may find the cursor beyond it.  What a step     *)
(* writes or erases then is within a line and a tab of the end.  The one   *)
(* exception is the cell the search of a backspace reads when it has run   *)
(* past column 0 of a blank line (console.x has wrapped to Byte-1): that   *)
(* cell is erased, far behind its line, if something was left there, and   *)
(* no letter is ever written so far out.                                   *)
(***************************************************************************)
NearWrites(s, t) ==
    \A c \in Memory : t[c] # s[c] =>
        \/ c < Width * Height + Width + Tab
        \/ /\ t[c]
           /\ \E row \in 0 .. (Height - 1) :
                 /\ c = Cell(Byte - 1, row)
                 /\ \A k \in 0 .. (Width - 1) : s[Cell(k, row)]

WritesNearScreen == [][NearWrites(screen, screen')]_vars
=============================================================================
