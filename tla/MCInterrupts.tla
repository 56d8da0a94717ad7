---------------------------- MODULE MCInterrupts ----------------------------
(***************************************************************************)
(* Overrides: none (with and without interrupts for errors of the local    *)
(* APIC); the timer on line 2; a level override of a line to itself; a     *)
(* chain; one that is out of range.                                        *)
(***************************************************************************)
EXTENDS Interrupts

O(s, g, k) == [src |-> s, gsi |-> g, kind |-> k]
F(overriding) == [madt |-> overriding, lvt_unmasked |-> FALSE]

MCFirmwares ==
    {F(<<>>), [F(<<>>) EXCEPT !.lvt_unmasked = TRUE],
     F(<<O(0, 2, "edge")>>),
     F(<<O(1, 1, "level"), O(0, 2, "edge")>>),
     F(<<O(1, 2, "level"), O(0, 1, "edge")>>),
     F(<<O(1, 3, "edge"), O(2, 0, "edge")>>)}
=============================================================================
