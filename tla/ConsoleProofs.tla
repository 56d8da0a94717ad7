--------------------------- MODULE ConsoleProofs ---------------------------
(***************************************************************************)
(* For every screen size and every interleaving with key strokes: after    *)
(* printByte and kclear_screen the cursor is on the screen, what is        *)
(* written lies within a line and a tab of the screen (but for one cell a  *)
(* backspace erases), and while the kernel prints nothing a backspace      *)
(* undoes a letter.                                                        *)
(***************************************************************************)
EXTENDS Console, TLAPS, WellFoundedInduction, SequenceTheorems

Labels == {"idle", "put", "load", "store", "cr", "lf", "lf1", "wrapx", "wrapx1", "wrapx2",
           "wrapx3", "wrapy", "wrapy1", "wrapy2", "clear", "home"}

(***************************************************************************)
(* The column is in range from the first range check on, the row from the  *)
(* second; the labels from which the kernel reaches idle carry what is     *)
(* known there.                                                            *)
(***************************************************************************)
IInv ==
    /\ x \in Nat /\ y \in Nat /\ r \in Nat
    /\ pc \in Labels
    /\ pc \in {"idle", "wrapy", "wrapy2", "home"} => x < Width
    /\ pc = "idle" => y < Height

(***************************************************************************)
(* The two checks at the end of printByte put any cursor on the screen.    *)
(***************************************************************************)
LEMMA WrapInRange ==
    ASSUME NEW s, NEW cx \in Nat, NEW cy \in Nat
    PROVE  /\ Wrap(At(s, cx, cy)).x \in 0 .. (Width - 1)
           /\ Wrap(At(s, cx, cy)).y \in 0 .. (Height - 1)
BY SizeAssumption DEF Wrap, At

(***************************************************************************)
(* A set of columns that is not empty has a last one, so the search for    *)
(* the end of a line has a result.                                         *)
(***************************************************************************)
LEMMA GreatestExists ==
    ASSUME NEW S \in SUBSET (0 .. (Width - 1)), S # {}
    PROVE  \E k \in S : \A l \in S : l <= k
<1> DEFINE T == {Width - k : k \in S}
<1>1. T \subseteq Nat /\ T # {}
  <2>1. ASSUME NEW k \in S PROVE Width - k \in Nat
    BY SizeAssumption
  <2>2. PICK k \in S : TRUE
    OBVIOUS
  <2>3. Width - k \in T
    BY <2>2
  <2> QED BY <2>1, <2>3
<1>2. PICK m \in T : \A t \in T : ~ (<<t, m>> \in OpToRel(<, Nat))
  BY <1>1, WFMin, NatLessThanWellFounded
<1>3. ASSUME NEW t \in T PROVE m <= t
  <2>1. t \in Nat /\ m \in Nat
    BY <1>1
  <2>2. t < m => <<t, m>> \in OpToRel(<, Nat)
    BY <2>1 DEF OpToRel
  <2>3. ~ (t < m)
    BY <1>2, <2>2, Zenon
  <2> QED BY <2>1, <2>3
<1>4. PICK k \in S : m = Width - k
  OBVIOUS
<1>5. ASSUME NEW l \in S PROVE l <= k
  <2>1. m <= Width - l
    BY <1>3
  <2> QED BY <2>1, <1>4, SizeAssumption
<1> QED BY <1>5

(***************************************************************************)
(* A backspace, too, leaves a cursor that is on the screen on it, and      *)
(* never a negative one.                                                   *)
(***************************************************************************)
LEMMA BackspaceInRange ==
    ASSUME NEW s, NEW cx \in Nat, NEW cy \in Nat
    PROVE  /\ Backspace(s, cx, cy).x \in 0 .. (Width - 1)
           /\ Backspace(s, cx, cy).y \in Nat
           /\ cy <= Height => Backspace(s, cx, cy).y < Height
<1> DEFINE by   == IF cx # 0 THEN cy ELSE IF cy = 0 THEN Height - 1 ELSE cy - 1
           text == {k \in 0 .. (Width - 1) : ~s[Cell(k, by)]}
           bx   == IF cx # 0 THEN cx - 1
                   ELSE IF text = {} THEN Byte - 1
                   ELSE CHOOSE k \in text : \A l \in text : l <= k
<1>1. by \in Nat /\ (cy <= Height /\ cx = 0 => by < Height)
  BY SizeAssumption
<1>2. CASE cx = 0 /\ text = {} /\ s[Cell(Byte - 1, by)]
  <2>1. Backspace(s, cx, cy) = At(s, 0, by)
    BY <1>2 DEF Backspace
  <2> QED BY <1>2, <2>1, <1>1, SizeAssumption DEF At
<1>3. CASE ~(cx = 0 /\ text = {} /\ s[Cell(Byte - 1, by)])
  <2>1. Backspace(s, cx, cy) = Wrap(At([s EXCEPT ![Cell(bx, by)] = TRUE], bx, by))
    BY <1>3 DEF Backspace
  <2> DEFINE s1 == [s EXCEPT ![Cell(bx, by)] = TRUE]
  <2>w. ASSUME bx \in Nat
        PROVE  /\ Backspace(s, cx, cy).x \in 0 .. (Width - 1)
               /\ Backspace(s, cx, cy).y \in 0 .. (Height - 1)
    <3> HIDE DEF bx, by, text, s1
    <3> QED BY <2>1, <2>w, <1>1, WrapInRange DEF s1
  <2>2. CASE cx # 0 \/ text = {}
    <3>1. bx \in Nat
      BY <2>2, ByteAssumption, SizeAssumption
    <3> QED BY <3>1, <2>w, SizeAssumption
  <2>3. CASE cx = 0 /\ text # {}
    \* Whatever CHOOSE picks, Wrap is applied to a cursor of the line.
    <3>1. \E k \in text : \A l \in text : l <= k
      <4> HIDE DEF text
      <4>1. text \in SUBSET (0 .. (Width - 1))
        BY DEF text
      <4> QED BY <2>3, <4>1, GreatestExists
    <3>2. bx \in text
      BY <2>3, <3>1
    <3>3. bx \in Nat
      BY <3>2, SizeAssumption
    <3> QED BY <3>3, <2>w, SizeAssumption
  <2> QED BY <2>2, <2>3
<1> QED BY <1>2, <1>3

(***************************************************************************)
(* printByte as the handler runs it.                                       *)
(***************************************************************************)
LEMMA PrintByteInRange ==
    ASSUME NEW s, NEW cx \in Nat, NEW cy \in Nat, NEW b \in Kinds
    PROVE  LET c == printByte(s, cx, cy, b)
           IN  /\ c.x \in Nat /\ c.y \in Nat
               /\ cx < Width => c.x < Width
               /\ cy < Height => c.y < Height
<1>1. CASE b = "null"
  BY <1>1 DEF printByte, At
<1>2. CASE b = "newline"
  BY <1>2, WrapInRange, SizeAssumption DEF printByte
<1>3. CASE b = "tab"
  BY <1>3, WrapInRange, SizeAssumption, ByteAssumption DEF printByte
<1>4. CASE b = "backspace"
  BY <1>4, BackspaceInRange, SizeAssumption DEF printByte
<1>5. CASE b = "letter"
  BY <1>5, WrapInRange, SizeAssumption DEF printByte
<1> QED BY <1>1, <1>2, <1>3, <1>4, <1>5 DEF Kinds

LEMMA InitIInv == Init => IInv
BY SizeAssumption DEF Init, IInv, Labels

\* A key stroke, wherever the kernel is.
LEMMA KeyboardIInv == IInv /\ Keyboard => IInv'
<1> SUFFICES ASSUME IInv, Keyboard PROVE IInv'
  OBVIOUS
<1>1. ASSUME NEW b \in Kinds, KeyPressed(b) PROVE IInv'
  <2> DEFINE c == printByte(screen, x, y, b)
  <2>1. /\ c.x \in Nat /\ c.y \in Nat
        /\ x < Width => c.x < Width
        /\ y < Height => c.y < Height
    BY PrintByteInRange DEF IInv
  <2>2. x' = c.x /\ y' = c.y /\ UNCHANGED <<pc, byte, r>>
    BY <1>1 DEF KeyPressed, kernel
  <2> HIDE DEF c
  <2> QED BY <2>1, <2>2 DEF IInv
<1>2. CASE KeyExtended \/ KeyReleased
  BY <1>2 DEF KeyExtended, KeyReleased, kernel, IInv
<1>3. Keys \subseteq Kinds /\ ExtKeys \subseteq Kinds
  BY KeysAssumption
<1>4. CASE \E b \in (IF seq = 1 THEN ExtKeys ELSE Keys) : KeyPressed(b)
  BY <1>4, <1>1, <1>3
<1> QED BY <1>2, <1>4 DEF Keyboard

\* The kernel's own steps.
LEMMA KernelIInv == IInv /\ Kernel => IInv'
<1> SUFFICES ASSUME IInv, Kernel PROVE IInv'
  OBVIOUS
<1> USE DEF IInv, Labels, Goto, Load, SetX, SetY, Test
<1>1. ASSUME NEW b \in {"letter", "newline", "tab"}, BeginByte(b) PROVE IInv'
  BY <1>1 DEF BeginByte
<1>2. CASE Put
  BY <1>2 DEF Put
<1>3. CASE Advance
  BY <1>3, ByteAssumption DEF Advance
<1>4. CASE Newline
  BY <1>4 DEF Newline
<1>5. CASE WrapX
  BY <1>5, SizeAssumption DEF WrapX
<1>6. CASE WrapY
  BY <1>6, SizeAssumption DEF WrapY
<1>7. CASE kclear_screen
  BY <1>7, SizeAssumption DEF kclear_screen
<1> QED BY <1>1, <1>2, <1>3, <1>4, <1>5, <1>6, <1>7 DEF Kernel

LEMMA NextIInv == IInv /\ [Next]_vars => IInv'
<1>1. IInv /\ UNCHANGED vars => IInv'
  BY DEF IInv, vars, kernel
<1> QED BY <1>1, KeyboardIInv, KernelIInv DEF Next

LEMMA Invariance == Spec => []IInv
BY InitIInv, NextIInv, PTL DEF Spec

(***************************************************************************)
(* Outside printByte and kclear_screen the cursor is on the screen, for    *)
(* every screen size and every interleaving with the keyboard handler.     *)
(***************************************************************************)
THEOREM CursorIsOnScreen == Spec => []CursorOnScreen
<1>1. IInv => CursorOnScreen
  BY SizeAssumption DEF IInv, CursorOnScreen
<1> QED BY Invariance, <1>1, PTL

-----------------------------------------------------------------------------
(***************************************************************************)
(* Where letters are written.  How far the cursor can be off the screen at *)
(* each label: it is in one direction only, because a line break is        *)
(* counted before the second check and a key stroke ends in range.         *)
(***************************************************************************)
End   == Width * Height
Limit == End + Width + Tab

NearInv ==
    /\ screen \in [Memory -> BOOLEAN]
    /\ x < Width + Tab /\ y <= Height
    /\ pc \notin {"wrapx", "wrapx3", "wrapy", "wrapy1", "wrapy2"} => y < Height
    /\ pc \in {"put", "load", "lf", "lf1"} => x < Width
    /\ pc = "store" => r < Width
    /\ pc \in {"lf1", "wrapx2"} => r < Height
    /\ pc = "wrapx" => x < Width \/ y < Height

\* Rows before the end of the screen.
LEMMA RowMono ==
    ASSUME NEW a \in Nat, NEW b \in Nat, a <= b
    PROVE  /\ a * Width \in Nat /\ b * Width \in Nat
           /\ a * Width <= b * Width
           /\ End = Height * Width /\ End \in Nat
           /\ (a + 1) * Width = a * Width + Width
<1>1. Width \in Nat /\ Height \in Nat
  BY SizeAssumption
<1> QED BY <1>1, Z3 DEF End

\* The cells a cursor of the kernel can be at are near the screen.
LEMMA WriteNear ==
    ASSUME NEW s \in [Memory -> BOOLEAN], NEW cx \in Nat, NEW cy \in Nat, NEW v \in BOOLEAN,
           cx < Width + Tab, cy <= Height
    PROVE  LET t == [s EXCEPT ![Cell(cx, cy)] = v]
           IN  t \in [Memory -> BOOLEAN] /\ NearWrites(s, t)
<1>1. cy * Width \in Nat /\ cy * Width <= End /\ End \in Nat
  BY RowMono, SizeAssumption
<1>2. Cell(cx, cy) \in Nat /\ Cell(cx, cy) < Limit
  BY <1>1, SizeAssumption, ByteAssumption DEF Cell, Limit
<1> DEFINE i == Cell(cx, cy)
           t == [s EXCEPT ![i] = v]
<1>3. t \in [Memory -> BOOLEAN]
  OBVIOUS
<1>4. ASSUME NEW c \in Memory, t[c] # s[c] PROVE c < Limit
  <2>1. c = i
    BY <1>4
  <2> QED BY <2>1, <1>2
<1> QED BY <1>3, <1>4 DEF NearWrites, Limit, End

\* kclear_screen blanks cells of the screen only.
LEMMA ClearNear ==
    ASSUME NEW s \in [Memory -> BOOLEAN], NEW i \in Nat, i < End
    PROVE  LET t == [s EXCEPT ![i] = TRUE]
           IN  t \in [Memory -> BOOLEAN] /\ NearWrites(s, t)
<1> DEFINE t == [s EXCEPT ![i] = TRUE]
<1>1. End \in Nat /\ End < Limit
  BY RowMono, SizeAssumption, ByteAssumption DEF Limit
<1>2. ASSUME NEW c \in Memory, t[c] # s[c] PROVE c < Limit
  <2>1. c = i
    BY <1>2
  <2> HIDE DEF t
  <2> QED BY <2>1, <1>1, SizeAssumption, ByteAssumption DEF Limit
<1> QED BY <1>2 DEF NearWrites, Limit, End

LEMMA SameNear ==
    ASSUME NEW s PROVE NearWrites(s, s)
BY DEF NearWrites

LEMMA WrapScreen ==
    ASSUME NEW s, NEW cx, NEW cy
    PROVE  Wrap(At(s, cx, cy)).screen = s
BY DEF Wrap, At

(***************************************************************************)
(* A backspace erases the cell before the cursor, the last letter of the   *)
(* line before, or, when that line is blank, the cell Byte-1.              *)
(***************************************************************************)
LEMMA BackspaceNear ==
    ASSUME NEW s \in [Memory -> BOOLEAN], NEW cx \in Nat, NEW cy \in Nat,
           cx < Width + Tab, cy <= Height
    PROVE  LET c == Backspace(s, cx, cy)
           IN  c.screen \in [Memory -> BOOLEAN] /\ NearWrites(s, c.screen)
<1> DEFINE by   == IF cx # 0 THEN cy ELSE IF cy = 0 THEN Height - 1 ELSE cy - 1
           text == {k \in 0 .. (Width - 1) : ~s[Cell(k, by)]}
           bx   == IF cx # 0 THEN cx - 1
                   ELSE IF text = {} THEN Byte - 1
                   ELSE CHOOSE k \in text : \A l \in text : l <= k
           t    == [s EXCEPT ![Cell(bx, by)] = TRUE]
<1>1. Backspace(s, cx, cy) = At(s, 0, by) \/ Backspace(s, cx, cy) = Wrap(At(t, bx, by))
  BY DEF Backspace
<1>2. by \in Nat /\ by <= Height /\ (cx = 0 => by \in 0 .. (Height - 1))
  BY SizeAssumption
<1>3. t \in [Memory -> BOOLEAN] /\ NearWrites(s, t)
  <2>1. CASE cx # 0
    <3>1. bx = cx - 1
      BY <2>1
    <3> HIDE DEF by, bx
    <3>2. bx \in Nat /\ bx < Width + Tab
      BY <2>1, <3>1, SizeAssumption, ByteAssumption
    <3> QED BY <1>2, <3>2, WriteNear
  <2>2. CASE cx = 0 /\ text # {}
    <3>1. text \in SUBSET (0 .. (Width - 1))
      OBVIOUS
    <3>2. bx = CHOOSE k \in text : \A l \in text : l <= k
      BY <2>2
    <3> HIDE DEF by, bx, text
    <3>3. \E k \in text : \A l \in text : l <= k
      BY <2>2, <3>1, GreatestExists
    <3>4. bx \in text
      BY <3>2, <3>3
    <3>5. bx \in Nat /\ bx < Width + Tab
      BY <3>1, <3>4, SizeAssumption, ByteAssumption
    <3> QED BY <1>2, <3>5, WriteNear
  <2>3. CASE cx = 0 /\ text = {}
    <3>1. bx = Byte - 1
      BY <2>3
    <3>2. \A k \in 0 .. (Width - 1) : s[Cell(k, by)]
      BY <2>3
    <3> HIDE DEF by, bx, text
    <3>3. t \in [Memory -> BOOLEAN]
      OBVIOUS
    <3>4. ASSUME NEW c \in Memory, t[c] # s[c] PROVE t[c] /\ c = Cell(Byte - 1, by)
      BY <3>1, <3>4
    <3>5. by \in 0 .. (Height - 1)
      BY <1>2, <2>3
    <3> HIDE DEF t
    <3> QED BY <3>2, <3>3, <3>4, <3>5 DEF NearWrites
  <2> QED BY <2>1, <2>2, <2>3
<1> HIDE DEF by, text, bx, t
<1>4. Wrap(At(t, bx, by)).screen = t
  BY WrapScreen
<1>5. At(s, 0, by).screen = s
  BY DEF At
<1> QED BY <1>1, <1>3, <1>4, <1>5, SameNear

\* printByte as the handler runs it, from any cursor the kernel leaves it.
LEMMA PrintByteNear ==
    ASSUME NEW s \in [Memory -> BOOLEAN], NEW cx \in Nat, NEW cy \in Nat, NEW b \in Kinds,
           cx < Width + Tab, cy <= Height
    PROVE  LET c == printByte(s, cx, cy, b)
           IN  /\ c.screen \in [Memory -> BOOLEAN] /\ NearWrites(s, c.screen)
               /\ (c.x = cx /\ c.y = cy) \/ (c.x < Width /\ c.y <= Height)
<1>0. NearWrites(s, s)
  BY SameNear
<1>1. CASE b = "null"
  BY <1>0, <1>1 DEF printByte, At
<1>2. CASE b = "newline"
  BY <1>0, <1>2, WrapInRange, WrapScreen, SizeAssumption DEF printByte
<1>3. CASE b = "tab"
  BY <1>0, <1>3, WrapInRange, WrapScreen, SizeAssumption, ByteAssumption DEF printByte
<1>4. CASE b = "backspace"
  <2>1. printByte(s, cx, cy, b) = Backspace(s, cx, cy)
    BY <1>4 DEF printByte
  <2>2. Backspace(s, cx, cy).x < Width /\ Backspace(s, cx, cy).y <= Height
    BY BackspaceInRange, SizeAssumption
  <2> QED BY <2>1, <2>2, BackspaceNear
<1>5. CASE b = "letter"
  <2> DEFINE t == [s EXCEPT ![Cell(cx, cy)] = FALSE]
  <2>1. t \in [Memory -> BOOLEAN] /\ NearWrites(s, t)
    BY WriteNear
  <2>2. printByte(s, cx, cy, b) = Wrap(At(t, cx + 1, cy))
    BY <1>5 DEF printByte
  <2> HIDE DEF t
  <2> QED BY <2>1, <2>2, WrapInRange, WrapScreen, SizeAssumption
<1> QED BY <1>1, <1>2, <1>3, <1>4, <1>5 DEF Kinds

LEMMA InitNearInv == Init => NearInv
<1> SUFFICES ASSUME Init PROVE NearInv
  OBVIOUS
<1>1. screen \in [Memory -> BOOLEAN]
  BY DEF Init
<1> QED BY <1>1, SizeAssumption, ByteAssumption DEF Init, NearInv

LEMMA KeyNearInv ==
    ASSUME IInv, NearInv, NEW b \in Kinds, KeyPressed(b)
    PROVE  NearInv' /\ NearWrites(screen, screen')
<1> DEFINE c == printByte(screen, x, y, b)
<1>1. x \in Nat /\ y \in Nat
  BY DEF IInv
<1>2. /\ c.screen \in [Memory -> BOOLEAN] /\ NearWrites(screen, c.screen)
      /\ (c.x = x /\ c.y = y) \/ (c.x < Width /\ c.y <= Height)
  BY <1>1, PrintByteNear DEF NearInv
<1>3. /\ c.x \in Nat /\ c.y \in Nat
      /\ y < Height => c.y < Height
  BY <1>1, PrintByteInRange
<1>4. screen' = c.screen /\ x' = c.x /\ y' = c.y /\ UNCHANGED <<pc, byte, r>>
  BY DEF KeyPressed, kernel
<1> HIDE DEF c
<1>5. x' < Width + Tab /\ y' <= Height
  BY <1>1, <1>2, <1>3, <1>4, SizeAssumption, ByteAssumption DEF NearInv
<1> QED BY <1>1, <1>2, <1>3, <1>4, <1>5, SizeAssumption DEF NearInv

LEMMA KernelNearInv == ASSUME IInv, NearInv, Kernel PROVE NearInv' /\ NearWrites(screen, screen')
<1> USE DEF IInv, Labels, Goto, Load, SetX, SetY, Test
<1>0. screen' = screen => NearWrites(screen, screen')
  BY SameNear
<1>1. ASSUME NEW b \in {"letter", "newline", "tab"}, BeginByte(b)
      PROVE  NearInv' /\ screen' = screen
  BY <1>1 DEF BeginByte, NearInv
<1>2. CASE Put
  <2>1. x < Width + Tab /\ y <= Height /\ screen \in [Memory -> BOOLEAN]
    BY DEF NearInv
  <2>2. screen' \in [Memory -> BOOLEAN] /\ NearWrites(screen, screen')
    BY <1>2, <2>1, WriteNear DEF Put
  <2> QED BY <1>2, <2>2 DEF Put, NearInv
<1>3. CASE Advance
  BY <1>0, <1>3, SizeAssumption, ByteAssumption DEF Advance, NearInv
<1>4. CASE Newline
  BY <1>0, <1>4, SizeAssumption, ByteAssumption DEF Newline, NearInv
<1>5. CASE WrapX
  BY <1>0, <1>5, SizeAssumption, ByteAssumption DEF WrapX, NearInv
<1>6. CASE WrapY
  BY <1>0, <1>6, SizeAssumption, ByteAssumption DEF WrapY, NearInv
<1>7. CASE kclear_screen
  <2>1. screen' \in [Memory -> BOOLEAN] /\ NearWrites(screen, screen')
    <3>1. screen' = screen \/ (r < Width * Height /\ screen' = [screen EXCEPT ![r] = TRUE])
      BY <1>7 DEF kclear_screen
    <3>2. r \in Nat /\ screen \in [Memory -> BOOLEAN]
      BY DEF NearInv
    <3>3. CASE screen' = screen
      BY <1>0, <3>2, <3>3
    <3>4. CASE r < End /\ screen' = [screen EXCEPT ![r] = TRUE]
      BY <3>2, <3>4, ClearNear
    <3> QED BY <3>1, <3>3, <3>4 DEF End
  <2> QED BY <1>7, <2>1, SizeAssumption, ByteAssumption DEF kclear_screen, NearInv
<1> QED BY <1>0, <1>1, <1>2, <1>3, <1>4, <1>5, <1>6, <1>7 DEF Kernel

LEMMA NextNearInv == IInv /\ NearInv /\ [Next]_vars => NearInv' /\ NearWrites(screen, screen')
<1> SUFFICES ASSUME IInv, NearInv, [Next]_vars PROVE NearInv' /\ NearWrites(screen, screen')
  OBVIOUS
<1>0. screen' = screen => NearWrites(screen, screen')
  BY SameNear
<1>1. CASE UNCHANGED vars
  BY <1>0, <1>1 DEF vars, kernel, NearInv
<1>2. CASE KeyExtended \/ KeyReleased
  BY <1>0, <1>2 DEF KeyExtended, KeyReleased, kernel, NearInv
<1>3. CASE \E b \in (IF seq = 1 THEN ExtKeys ELSE Keys) : KeyPressed(b)
  BY <1>3, KeyNearInv, KeysAssumption
<1>4. CASE Kernel
  BY <1>4, KernelNearInv
<1> QED BY <1>1, <1>2, <1>3, <1>4 DEF Next, Keyboard

(***************************************************************************)
(* Whatever the memory behind the screen holds at boot, a step writes and  *)
(* erases only on the screen and within a line and a tab behind it, except *)
(* for the cell Byte-1 of a blank line, which a backspace may erase: for   *)
(* every screen size and every interleaving with the keyboard handler.     *)
(***************************************************************************)
THEOREM WritesStayNear == Spec => WritesNearScreen
<1>1. IInv /\ NearInv /\ [Next]_vars => [NearWrites(screen, screen')]_vars
  BY NextNearInv
<1> QED BY Invariance, InitNearInv, NextNearInv, <1>1, PTL DEF Spec, WritesNearScreen

-----------------------------------------------------------------------------
(***************************************************************************)
(* Typing and undoing.  The letters of the history are the cells just      *)
(* before the cursor, counted backwards and around the end of the screen,  *)
(* and none of them is blank.                                              *)
(***************************************************************************)
Places    == (0 .. (Width - 1)) \X (0 .. (Height - 1))
CellOf(p) == Cell(p[1], p[2])

\* Cell c is the one before cell d, the last one before the first.
Precedes(c, d) == c + 1 = d \/ c + 1 = d + End

Trail(t, s, c) ==
    \A k \in 1 .. Len(t) : /\ s[CellOf(t[k])] = FALSE
                           /\ \/ CellOf(t[k]) + (Len(t) + 1 - k) = c
                              \/ CellOf(t[k]) + (Len(t) + 1 - k) = c + End

UndoInv ==
    /\ typed \in Seq(Places) /\ Len(typed) <= TypeAhead
    /\ typed # <<>> => pc = "idle"
    /\ Trail(typed, screen, Cell(x, y))

\* A place on the screen has a cell of its own.
LEMMA CellOnScreen ==
    ASSUME NEW a \in 0 .. (Width - 1), NEW b \in 0 .. (Height - 1)
    PROVE  /\ Cell(a, b) \in 0 .. (End - 1) /\ Cell(a, b) \in Memory
           /\ Cell(a, b) = b * Width + a /\ b * Width \in Nat /\ End \in Nat
           /\ b = Height - 1 => b * Width = End - Width
           /\ b < Height - 1 => b * Width <= End - 2 * Width
<1>1. Width \in Nat /\ Height \in Nat /\ Width >= 1 /\ Height >= 1 /\ a \in Nat /\ b \in Nat
  BY SizeAssumption
<1>2. b * Width \in Nat /\ (b + 1) * Width = b * Width + Width
  BY <1>1, RowMono
<1>3. End = Height * Width /\ End \in Nat /\ (b + 1) * Width <= Height * Width
  BY <1>1, RowMono
<1>4. b < Height - 1 => (b + 2) * Width <= Height * Width /\ (b + 2) * Width = b * Width + 2 * Width
  BY <1>1, Z3
<1>5. Cell(a, b) = b * Width + a
  BY DEF Cell
<1>6. Cell(a, b) \in 0 .. (End - 1)
  BY <1>1, <1>2, <1>3, <1>5
<1>7. Cell(a, b) \in Memory
  BY <1>3, <1>6, ByteAssumption DEF Memory, End
<1> QED BY <1>1, <1>2, <1>3, <1>4, <1>5, <1>6, <1>7

LEMMA CellUnique ==
    ASSUME NEW a \in 0 .. (Width - 1), NEW b \in 0 .. (Height - 1),
           NEW a2 \in 0 .. (Width - 1), NEW b2 \in 0 .. (Height - 1),
           Cell(a, b) = Cell(a2, b2)
    PROVE  a = a2 /\ b = b2
<1>1. Width \in Nat /\ Width >= 1
  BY SizeAssumption
<1>2. b * Width + a = b2 * Width + a2
  BY DEF Cell
<1>3. b < b2 => b * Width + Width <= b2 * Width
  BY <1>1, Z3
<1>4. b2 < b => b2 * Width + Width <= b * Width
  BY <1>1, Z3
<1>5. b * Width \in Nat /\ b2 * Width \in Nat
  BY CellOnScreen
<1> HIDE DEF Cell
<1>6. b = b2
  BY <1>1, <1>2, <1>3, <1>4, <1>5
<1> QED BY <1>2, <1>5, <1>6

\* A letter moves the cursor to the next cell.
LEMMA LetterForward ==
    ASSUME NEW s, NEW cx \in 0 .. (Width - 1), NEW cy \in 0 .. (Height - 1)
    PROVE  LET c == printByte(s, cx, cy, "letter")
           IN  /\ c.screen = [s EXCEPT ![Cell(cx, cy)] = FALSE]
               /\ c.x \in 0 .. (Width - 1) /\ c.y \in 0 .. (Height - 1)
               /\ Cell(c.x, c.y) = IF Cell(cx, cy) + 1 = End THEN 0 ELSE Cell(cx, cy) + 1
<1> DEFINE t == [s EXCEPT ![Cell(cx, cy)] = FALSE]
           c == Wrap(At(t, cx + 1, cy))
<1>1. printByte(s, cx, cy, "letter") = c
  BY DEF printByte
<1>2. Width \in Nat /\ Height \in Nat /\ Width >= 1 /\ Height >= 1
  BY SizeAssumption
<1>3. c.screen = t
  BY WrapScreen
<1>4. c.x \in 0 .. (Width - 1) /\ c.y \in 0 .. (Height - 1)
  BY <1>2, WrapInRange
<1>5. /\ Cell(cx, cy) = cy * Width + cx /\ cy * Width \in Nat /\ End \in Nat
      /\ cy = Height - 1 => cy * Width = End - Width
      /\ cy < Height - 1 => cy * Width <= End - 2 * Width
  BY CellOnScreen
<1>6. CASE cx + 1 < Width
  <2>1. c.x = cx + 1 /\ c.y = cy
    BY <1>2, <1>6 DEF Wrap, At
  <2>2. Cell(c.x, c.y) = cy * Width + cx + 1
    BY <2>1, <1>5, <1>2 DEF Cell
  <2> QED BY <1>1, <1>2, <1>3, <1>4, <1>5, <1>6, <2>2
<1>7. CASE cx + 1 = Width /\ cy + 1 < Height
  <2>1. c.x = 0 /\ c.y = cy + 1
    BY <1>2, <1>7 DEF Wrap, At
  <2>2. (cy + 1) * Width = cy * Width + Width
    BY RowMono
  <2>3. Cell(c.x, c.y) = cy * Width + Width
    BY <2>1, <2>2, <1>5, <1>2 DEF Cell
  <2> QED BY <1>1, <1>2, <1>3, <1>4, <1>5, <1>7, <2>3
<1>8. CASE cx + 1 = Width /\ cy + 1 = Height
  <2>1. c.x = 0 /\ c.y = 0
    BY <1>2, <1>8 DEF Wrap, At
  <2>2. Cell(c.x, c.y) = 0
    BY <2>1, <1>2 DEF Cell
  <2> QED BY <1>1, <1>2, <1>3, <1>4, <1>5, <1>8, <2>2
<1> QED BY <1>2, <1>6, <1>7, <1>8

\* A backspace finds the letter before the cursor: in the same line, or at the
\* end of the line before, or of the last line.
LetterBefore(s, cx, cy, wx, wy) ==
    /\ cx \in 0 .. (Width - 1) /\ cy \in 0 .. (Height - 1)
    /\ wx \in 0 .. (Width - 1) /\ wy \in 0 .. (Height - 1)
    /\ s[Cell(wx, wy)] = FALSE
    /\ Precedes(Cell(wx, wy), Cell(cx, cy))

Erased(s, wx, wy) == At([s EXCEPT ![Cell(wx, wy)] = TRUE], wx, wy)

LEMMA BackspaceBack ==
    ASSUME NEW s, NEW cx, NEW cy, NEW wx, NEW wy, LetterBefore(s, cx, cy, wx, wy)
    PROVE  Backspace(s, cx, cy) = Erased(s, wx, wy)
<1>0. /\ cx \in 0 .. (Width - 1) /\ cy \in 0 .. (Height - 1)
      /\ wx \in 0 .. (Width - 1) /\ wy \in 0 .. (Height - 1)
      /\ s[Cell(wx, wy)] = FALSE /\ Precedes(Cell(wx, wy), Cell(cx, cy))
  BY DEF LetterBefore
<1> DEFINE by   == IF cx # 0 THEN cy ELSE IF cy = 0 THEN Height - 1 ELSE cy - 1
           text == {k \in 0 .. (Width - 1) : ~s[Cell(k, by)]}
           bx   == IF cx # 0 THEN cx - 1
                   ELSE IF text = {} THEN Byte - 1
                   ELSE CHOOSE k \in text : \A l \in text : l <= k
<1>1. Width \in Nat /\ Height \in Nat /\ Width >= 1 /\ Height >= 1
  BY <1>0, SizeAssumption
<1>2. by \in 0 .. (Height - 1)
  BY <1>0, <1>1
<1>3. Cell(cx, cy) = cy * Width + cx /\ cy * Width \in Nat /\ End \in Nat
  BY <1>0, CellOnScreen
<1>4. Cell(wx, wy) \in 0 .. (End - 1)
  BY <1>0, CellOnScreen
<1>5. wx = (IF cx # 0 THEN cx - 1 ELSE Width - 1) /\ wy = by
  <2> DEFINE px == IF cx # 0 THEN cx - 1 ELSE Width - 1
  <2>1. px \in 0 .. (Width - 1)
    BY <1>0, <1>1
  <2>2. Cell(px, by) = by * Width + px /\ by * Width \in Nat
        /\ (by = Height - 1 => by * Width = End - Width)
    BY <1>0, <2>1, <1>2, CellOnScreen
  <2>3. Cell(px, by) = Cell(wx, wy)
    <3>1. CASE cx # 0
      BY <1>0, <3>1, <2>2, <1>1, <1>3, <1>4 DEF Precedes
    <3>2. CASE cx = 0 /\ cy = 0
      <4>1. cy * Width = 0
        BY <1>0, <3>2, <1>1
      <4> QED BY <1>0, <3>2, <4>1, <2>2, <1>1, <1>3, <1>4 DEF Precedes
    <3>3. CASE cx = 0 /\ cy # 0
      <4>1. by = cy - 1 /\ by \in Nat /\ (by + 1) * Width = by * Width + Width
        BY <1>0, <3>3, <1>1, <1>2, RowMono
      <4>2. cy * Width = by * Width + Width
        BY <1>0, <4>1
      <4>3. cy * Width >= 1
        BY <1>0, <4>2, <1>1, <2>2
      <4> QED BY <1>0, <3>3, <4>2, <4>3, <2>2, <1>1, <1>3, <1>4 DEF Precedes
    <3> QED BY <3>1, <3>2, <3>3
  <2> HIDE DEF px, by
  <2>4. wx = px /\ wy = by
    BY <1>0, <2>1, <2>3, <1>2, CellUnique
  <2> QED BY <2>4 DEF px
<1>6. bx = wx /\ ~ (cx = 0 /\ text = {})
  <2>1. CASE cx # 0
    BY <1>0, <2>1, <1>5
  <2>2. CASE cx = 0
    <3>1. wx \in text /\ \A l \in text : l <= wx
      BY <1>0, <2>2, <1>1, <1>5
    <3>2. text # {} /\ bx = CHOOSE k \in text : \A l \in text : l <= k
      BY <1>0, <2>2, <3>1
    <3>3. bx \in text /\ \A l \in text : l <= bx
      <4> HIDE DEF text, bx
      <4> QED BY <1>0, <3>1, <3>2
    <3>4. bx <= wx /\ wx <= bx /\ bx \in 0 .. (Width - 1)
      BY <1>0, <3>1, <3>3
    <3> HIDE DEF bx, text
    <3> QED BY <1>0, <3>1, <3>4, <1>1
  <2> QED BY <2>1, <2>2
<1>7. Backspace(s, cx, cy) = Wrap(At([s EXCEPT ![Cell(bx, by)] = TRUE], bx, by))
  BY <1>0, <1>6 DEF Backspace
<1> HIDE DEF bx, by, text
<1>8. Backspace(s, cx, cy) = Wrap(At([s EXCEPT ![Cell(wx, wy)] = TRUE], wx, wy))
  BY <1>0, <1>5, <1>6, <1>7
<1> QED BY <1>0, <1>1, <1>8 DEF Wrap, At, Erased

LEMMA PlaceCell ==
    ASSUME NEW p \in Places
    PROVE  /\ p[1] \in 0 .. (Width - 1) /\ p[2] \in 0 .. (Height - 1) /\ p = <<p[1], p[2]>>
           /\ CellOf(p) \in 0 .. (End - 1) /\ CellOf(p) \in Memory /\ End \in Nat
<1>1. p[1] \in 0 .. (Width - 1) /\ p[2] \in 0 .. (Height - 1) /\ p = <<p[1], p[2]>>
  BY DEF Places
<1> QED BY <1>1, CellOnScreen DEF CellOf

\* One more letter.
LEMMA TrailAppend ==
    ASSUME NEW t \in Seq(Places), NEW s \in [Memory -> BOOLEAN], NEW p \in Places,
           Trail(t, s, CellOf(p)), Len(t) < End
    PROVE  Trail(Append(t, p), [s EXCEPT ![CellOf(p)] = FALSE],
                 IF CellOf(p) + 1 = End THEN 0 ELSE CellOf(p) + 1)
<1> DEFINE n == Len(t)
           c == CellOf(p)
           c2 == IF c + 1 = End THEN 0 ELSE c + 1
           t2 == Append(t, p)
           s2 == [s EXCEPT ![c] = FALSE]
<1>1. c \in 0 .. (End - 1) /\ c \in Memory /\ End \in Nat
  BY PlaceCell
<1>2. /\ n \in Nat /\ n < End
      /\ Len(t2) = n + 1 /\ t2[n + 1] = p /\ \A k \in 1 .. n : t2[k] = t[k]
  OBVIOUS
<1>3. \A m \in Memory : s2[m] = IF m = c THEN FALSE ELSE s[m]
  OBVIOUS
<1>4. \A k \in 1 .. n : /\ CellOf(t[k]) \in 0 .. (End - 1) /\ CellOf(t[k]) \in Memory
                        /\ s[CellOf(t[k])] = FALSE
                        /\ \/ CellOf(t[k]) + (n + 1 - k) = c
                           \/ CellOf(t[k]) + (n + 1 - k) = c + End
  BY PlaceCell, ElementOfSeq DEF Trail
<1>5. c + 1 = c2 \/ c + 1 = c2 + End
  <2> HIDE DEF c
  <2> QED BY <1>1
<1>6. c2 = c + 1 \/ (c2 = c + 1 - End /\ c + 1 = End)
  <2> HIDE DEF c
  <2> QED BY <1>1
<1>7. c2 = c + 1 => c + 1 < End
  <2> HIDE DEF c
  <2> QED BY <1>1
<1> HIDE DEF c, c2, t2, s2, n
<1>8. ASSUME NEW k \in 1 .. (n + 1)
      PROVE  /\ s2[CellOf(t2[k])] = FALSE
             /\ \/ CellOf(t2[k]) + ((n + 1) + 1 - k) = c2
                \/ CellOf(t2[k]) + ((n + 1) + 1 - k) = c2 + End
  <2>1. CASE k = n + 1
    <3>1. CellOf(t2[k]) = c
      BY <2>1, <1>2 DEF c
    <3>2. (n + 1) + 1 - k = 1
      BY <2>1, <1>2
    <3> QED BY <3>1, <3>2, <1>1, <1>3, <1>5
  <2>2. CASE k # n + 1
    <3> DEFINE d == CellOf(t[k])
    <3>1. k \in 1 .. n /\ t2[k] = t[k]
      BY <2>2, <1>2
    <3>2. /\ d \in 0 .. (End - 1) /\ d \in Memory /\ s[d] = FALSE
          /\ d + (n + 1 - k) = c \/ d + (n + 1 - k) = c + End
      BY <3>1, <1>4
    <3> HIDE DEF d
    <3>3. s2[d] = FALSE
      BY <3>2, <1>3
    <3>4. d + ((n + 1) + 1 - k) = c + 1 \/ d + ((n + 1) + 1 - k) = c + 1 + End
      BY <3>1, <3>2, <1>1, <1>2
    <3>5. d + ((n + 1) + 1 - k) < 2 * End
      BY <3>1, <3>2, <1>1, <1>2
    <3>6. d + ((n + 1) + 1 - k) = c2 \/ d + ((n + 1) + 1 - k) = c2 + End
      BY <3>1, <3>2, <3>4, <3>5, <1>1, <1>2, <1>6, <1>7
    <3> QED BY <3>1, <3>3, <3>6 DEF d
  <2> QED BY <2>1, <2>2
<1>9. Trail(t2, s2, c2)
  BY <1>2, <1>8 DEF Trail
<1> QED BY <1>9 DEF t2, s2, c2, c

\* The last letter is taken back; the others are in other cells.
LEMMA TrailDrop ==
    ASSUME NEW t \in Seq(Places), NEW s \in [Memory -> BOOLEAN], NEW c \in 0 .. (End - 1),
           Trail(t, s, c), t # <<>>, Len(t) <= End
    PROVE  LET p == t[Len(t)]
           IN  Trail(SubSeq(t, 1, Len(t) - 1), [s EXCEPT ![CellOf(p)] = TRUE], CellOf(p))
<1> DEFINE n == Len(t)
           e == CellOf(t[n])
           t2 == SubSeq(t, 1, n - 1)
           s2 == [s EXCEPT ![e] = TRUE]
<1>1. n \in Nat /\ n >= 1 /\ n \in 1 .. n /\ n <= End /\ End \in Nat
  <2>1. n \in Nat \ {0}
    BY EmptySeq
  <2>2. End \in Nat
    BY SizeAssumption DEF End
  <2> QED BY <2>1, <2>2
<1>2. e \in 0 .. (End - 1) /\ e \in Memory /\ (e + 1 = c \/ e + 1 = c + End)
  <2>1. e \in 0 .. (End - 1) /\ e \in Memory
    BY <1>1, PlaceCell, ElementOfSeq
  <2>2. e + (n + 1 - n) = c \/ e + (n + 1 - n) = c + End
    BY <1>1 DEF Trail
  <2> QED BY <1>1, <2>1, <2>2
<1>3. Len(t2) = n - 1 /\ \A k \in 1 .. (n - 1) : t2[k] = t[k]
  <2>1. \A k \in 1 .. (n - 1) : t[k] \in Places
    BY <1>1, ElementOfSeq
  <2>2. n - 1 \in Int
    BY <1>1
  <2>3. /\ Len(t2) = IF 1 <= n - 1 THEN n - 1 - 1 + 1 ELSE 0
        /\ \A k \in 1 .. (n - 1 - 1 + 1) : t2[k] = t[1 + k - 1]
    BY <2>1, <2>2, SubSeqProperties
  <2> HIDE DEF n, t2
  <2>4. ASSUME NEW k \in 1 .. (n - 1) PROVE t2[k] = t[k]
    <3>1. k \in 1 .. (n - 1 - 1 + 1) /\ 1 + k - 1 = k
      BY <1>1
    <3> QED BY <3>1, <2>3
  <2> QED BY <1>1, <2>3, <2>4
<1>4. \A m \in Memory : s2[m] = IF m = e THEN TRUE ELSE s[m]
  OBVIOUS
<1> HIDE DEF e, t2, s2
<1>5. ASSUME NEW k \in 1 .. (n - 1)
      PROVE  /\ s2[CellOf(t2[k])] = FALSE
             /\ \/ CellOf(t2[k]) + ((n - 1) + 1 - k) = e
                \/ CellOf(t2[k]) + ((n - 1) + 1 - k) = e + End
  <2> DEFINE d == CellOf(t[k])
  <2>1. k \in 1 .. n
    BY <1>1
  <2>2. d \in 0 .. (End - 1) /\ d \in Memory
    BY <2>1, PlaceCell, ElementOfSeq
  <2>3. /\ s[d] = FALSE
        /\ d + (n + 1 - k) = c \/ d + (n + 1 - k) = c + End
    BY <2>1 DEF Trail
  <2> HIDE DEF d
  <2>4. d + ((n - 1) + 1 - k) = e \/ d + ((n - 1) + 1 - k) = e + End
    BY <2>2, <2>3, <1>1, <1>2
  <2>5. d # e
    BY <2>2, <2>4, <1>1, <1>2
  <2>6. s2[d] = FALSE
    BY <2>2, <2>3, <2>5, <1>4
  <2> QED BY <2>4, <2>6, <1>3 DEF d
<1>6. Trail(t2, s2, e)
  BY <1>1, <1>3, <1>5 DEF Trail
<1> QED BY <1>6 DEF t2, s2, e

\* What a backspace does while the history is not empty.
LEMMA BackspaceStep ==
    ASSUME IInv, NearInv, UndoInv, KeyPressed("backspace"), typed # <<>>
    PROVE  LET was == typed[Len(typed)]
           IN  /\ was \in Places /\ <<x', y'>> = was
               /\ screen' = [screen EXCEPT ![CellOf(was)] = TRUE]
<1> DEFINE n   == Len(typed)
           was == typed[n]
<1>1. typed \in Seq(Places) /\ n \in Nat /\ n \in 1 .. n
  BY EmptySeq DEF UndoInv
<1>2. was \in Places
  BY <1>1, ElementOfSeq
<1>3. was[1] \in 0 .. (Width - 1) /\ was[2] \in 0 .. (Height - 1) /\ was = <<was[1], was[2]>>
  BY <1>2, PlaceCell
<1>4. x \in 0 .. (Width - 1) /\ y \in 0 .. (Height - 1)
  BY SizeAssumption DEF UndoInv, IInv
<1>5. /\ screen[CellOf(was)] = FALSE
      /\ CellOf(was) + (n + 1 - n) = Cell(x, y) \/ CellOf(was) + (n + 1 - n) = Cell(x, y) + End
  BY <1>1 DEF UndoInv, Trail
<1> HIDE DEF was
<1>6. n + 1 - n = 1
  BY <1>1
<1> DEFINE wx == was[1]
           wy == was[2]
<1>7. /\ wx \in 0 .. (Width - 1) /\ wy \in 0 .. (Height - 1) /\ CellOf(was) = Cell(wx, wy)
      /\ screen[Cell(wx, wy)] = FALSE /\ Precedes(Cell(wx, wy), Cell(x, y))
  BY <1>3, <1>5, <1>6 DEF CellOf, Precedes
<1> HIDE DEF wx, wy
<1>10. Backspace(screen, x, y) = At([screen EXCEPT ![CellOf(was)] = TRUE], wx, wy)
  <2>1. LetterBefore(screen, x, y, wx, wy)
    BY <1>4, <1>7 DEF LetterBefore
  <2>2. Backspace(screen, x, y) = Erased(screen, wx, wy)
    BY <2>1, BackspaceBack, Zenon
  <2> QED BY <2>2, <1>7 DEF Erased
<1>8. /\ screen' = Backspace(screen, x, y).screen
      /\ x' = Backspace(screen, x, y).x /\ y' = Backspace(screen, x, y).y
  BY DEF KeyPressed, printByte
<1>9. screen' = [screen EXCEPT ![CellOf(was)] = TRUE] /\ x' = was[1] /\ y' = was[2]
  BY <1>8, <1>10 DEF At, wx, wy
<1> QED BY <1>2, <1>3, <1>9 DEF was

LEMMA KeyUndoInv ==
    ASSUME IInv, NearInv, UndoInv, NEW b \in Kinds, KeyPressed(b)
    PROVE  UndoInv'
<1>1. /\ UNCHANGED pc /\ typed' = Remember(b)
      /\ screen' = printByte(screen, x, y, b).screen
      /\ x' = printByte(screen, x, y, b).x /\ y' = printByte(screen, x, y, b).y
  BY DEF KeyPressed, kernel
<1>2. typed \in Seq(Places) /\ Len(typed) \in Nat /\ Len(typed) <= TypeAhead
  BY DEF UndoInv
<1>3. screen \in [Memory -> BOOLEAN] /\ TypeAhead \in Nat /\ TypeAhead <= End /\ End \in Nat
  BY HistoryAssumption, RowMono DEF NearInv, End
<1>4. CASE b = "letter" /\ pc = "idle" /\ Len(typed) < TypeAhead
  <2> DEFINE p == <<x, y>>
  <2>1. x \in 0 .. (Width - 1) /\ y \in 0 .. (Height - 1)
    BY <1>4, SizeAssumption DEF IInv
  <2>2. p \in Places /\ CellOf(p) = Cell(x, y)
    BY <2>1 DEF Places, CellOf
  <2>3. typed' = Append(typed, p)
    BY <1>1, <1>4 DEF Remember
  <2>4. /\ screen' = [screen EXCEPT ![CellOf(p)] = FALSE]
        /\ Cell(x', y') = IF CellOf(p) + 1 = End THEN 0 ELSE CellOf(p) + 1
    <3> DEFINE c == printByte(screen, x, y, "letter")
    <3>1. /\ c.screen = [screen EXCEPT ![Cell(x, y)] = FALSE]
          /\ Cell(c.x, c.y) = IF Cell(x, y) + 1 = End THEN 0 ELSE Cell(x, y) + 1
      BY <2>1, LetterForward
    <3>2. screen' = c.screen /\ x' = c.x /\ y' = c.y
      BY <1>1, <1>4
    <3> HIDE DEF c, p
    <3>3. Cell(x', y') = Cell(c.x, c.y)
      BY <3>2 DEF Cell
    <3> QED BY <3>1, <3>2, <3>3, <2>2
  <2>5. Trail(typed, screen, CellOf(p))
    BY <2>2 DEF UndoInv
  <2> HIDE DEF p
  <2>6. Trail(typed', screen', Cell(x', y'))
    <3>1. Len(typed) < End
      BY <1>2, <1>3, <1>4
    <3>2. Trail(Append(typed, p), [screen EXCEPT ![CellOf(p)] = FALSE],
                IF CellOf(p) + 1 = End THEN 0 ELSE CellOf(p) + 1)
      BY <3>1, <2>2, <2>5, <1>2, <1>3, TrailAppend
    <3> QED BY <3>2, <2>3, <2>4
  <2>7. typed' \in Seq(Places) /\ Len(typed') <= TypeAhead
    BY <1>2, <1>3, <1>4, <2>2, <2>3
  <2> QED BY <2>6, <2>7, <1>1, <1>4 DEF UndoInv
<1>5. CASE b = "backspace" /\ pc = "idle" /\ typed # <<>>
  <2> DEFINE was == typed[Len(typed)]
  <2>1. /\ was \in Places /\ <<x', y'>> = was
        /\ screen' = [screen EXCEPT ![CellOf(was)] = TRUE]
    BY <1>5, BackspaceStep
  <2>2. x \in 0 .. (Width - 1) /\ y \in 0 .. (Height - 1)
    BY <1>5, SizeAssumption DEF IInv
  <2>3. Cell(x, y) \in 0 .. (End - 1)
    BY <2>2, CellOnScreen
  <2>4. typed' = SubSeq(typed, 1, Len(typed) - 1)
    BY <1>1, <1>5 DEF Remember
  <2>5. Trail(typed, screen, Cell(x, y)) /\ Len(typed) <= End
    BY <1>2, <1>3 DEF UndoInv
  <2>6. Trail(SubSeq(typed, 1, Len(typed) - 1), [screen EXCEPT ![CellOf(was)] = TRUE], CellOf(was))
    BY <2>3, <2>5, <1>2, <1>3, <1>5, TrailDrop
  <2>7. CellOf(was) = Cell(x', y')
    BY <2>1 DEF CellOf
  <2>8. Trail(typed', screen', Cell(x', y'))
    BY <2>1, <2>4, <2>6, <2>7
  <2>9. typed' \in Seq(Places) /\ Len(typed') <= TypeAhead
    <3>1. Len(typed) >= 1 /\ \A k \in 1 .. Len(typed) : typed[k] \in Places
      BY <1>2, <1>5, EmptySeq, ElementOfSeq
    <3>2. \A k \in 1 .. (Len(typed) - 1) : typed[k] \in Places
      BY <3>1, <1>2
    <3>3. 1 \in Int /\ Len(typed) - 1 \in Int
      BY <1>2
    <3>4. /\ SubSeq(typed, 1, Len(typed) - 1) \in Seq(Places)
          /\ Len(SubSeq(typed, 1, Len(typed) - 1)) <= Len(typed)
      BY <3>1, <3>2, <3>3, <1>2, SubSeqProperties
    <3> QED BY <3>1, <3>4, <2>4, <1>2, <1>3
  <2> QED BY <2>8, <2>9, <1>1, <1>5 DEF UndoInv
<1>6. CASE b = "null"
  <2>1. UNCHANGED <<screen, x, y, pc, typed>>
    BY <1>1, <1>6 DEF printByte, At, Remember
  <2> QED BY <2>1 DEF UndoInv, Trail
<1>7. CASE /\ ~ (b = "letter" /\ pc = "idle" /\ Len(typed) < TypeAhead)
           /\ ~ (b = "backspace" /\ pc = "idle" /\ typed # <<>>)
           /\ b # "null"
  <2>1. typed' = <<>>
    BY <1>1, <1>7 DEF Remember
  <2> QED BY <2>1, <1>3 DEF UndoInv, Trail
<1> QED BY <1>4, <1>5, <1>6, <1>7

LEMMA NextUndoInv == IInv /\ NearInv /\ UndoInv /\ [Next]_vars => UndoInv'
<1> SUFFICES ASSUME IInv, NearInv, UndoInv, [Next]_vars PROVE UndoInv'
  OBVIOUS
<1>1. CASE UNCHANGED vars \/ KeyExtended \/ KeyReleased
  BY <1>1 DEF vars, KeyExtended, KeyReleased, kernel, UndoInv, Trail
<1>2. CASE \E b \in (IF seq = 1 THEN ExtKeys ELSE Keys) : KeyPressed(b)
  BY <1>2, KeyUndoInv, KeysAssumption
<1>3. CASE Kernel
  <2>1. typed' = <<>>
    BY <1>3 DEF Kernel, BeginByte, Put, Advance, Newline, WrapX, WrapY, kclear_screen,
                Goto, Load, SetX, SetY, Test
  <2> QED BY <2>1, HistoryAssumption DEF UndoInv, Trail
<1> QED BY <1>1, <1>2, <1>3 DEF Next, Keyboard

(***************************************************************************)
(* A backspace takes back the letter typed last, across the end of a line  *)
(* and of the screen too, for every screen size and for as many letters as *)
(* the screen has cells.                                                   *)
(***************************************************************************)
THEOREM BackspaceTakesBack == Spec => BackspaceUndoes
<1>1. Init => UndoInv
  BY HistoryAssumption DEF Init, UndoInv, Trail
<1>2. IInv /\ NearInv /\ UndoInv
      => [KeyPressed("backspace") /\ pc = "idle" /\ typed # <<>>
          => LET was == typed[Len(typed)]
             IN  <<x', y'>> = was /\ screen'[Cell(was[1], was[2])]]_vars
  <2> SUFFICES ASSUME IInv, NearInv, UndoInv, KeyPressed("backspace"), typed # <<>>
               PROVE  LET was == typed[Len(typed)]
                      IN  <<x', y'>> = was /\ screen'[Cell(was[1], was[2])]
    OBVIOUS
  <2> DEFINE was == typed[Len(typed)]
  <2>1. /\ was \in Places /\ <<x', y'>> = was
        /\ screen' = [screen EXCEPT ![CellOf(was)] = TRUE]
    BY BackspaceStep
  <2>2. CellOf(was) \in Memory
    BY <2>1, PlaceCell
  <2>3. screen'[CellOf(was)] = TRUE
    BY <2>1, <2>2 DEF NearInv
  <2> QED BY <2>1, <2>3 DEF CellOf
<1> QED
  BY <1>1, <1>2, Invariance, InitNearInv, NextNearInv, NextUndoInv, PTL
     DEF Spec, BackspaceUndoes
=============================================================================
