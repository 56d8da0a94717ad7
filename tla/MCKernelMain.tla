---------------------------- MODULE MCKernelMain ----------------------------
(***************************************************************************)
(* Machines: every memory layout with one PCI machine, and every PCI       *)
(* machine with one memory layout.  A frame is 4 bytes, the kernel is      *)
(* linked into the boot section as the linker does by default, or above.   *)
(***************************************************************************)
EXTENDS KernelMain

Usable(base, len)   == [base |-> base, len |-> len, usable |-> TRUE]
Reserved(base, len) == [base |-> base, len |-> len, usable |-> FALSE]

\* With a hole (and an odd number of frames), with a hole and high memory, with an
\* end inside a frame, out of order, overlapping, with a last frame whose byte is the
\* last of a page.
Maps == {<<Usable(0, 16), Reserved(16, 8), Usable(24, 140)>>,
         <<Usable(0, 16), Usable(24, 72), Reserved(96, 16), Usable(128, 64)>>,
         <<Usable(0, 16), Usable(24, 90)>>,
         <<Usable(64, 96), Usable(0, 64)>>,
         <<Usable(0, 128), Reserved(64, 16)>>,
         <<Usable(0, 156)>>}
Kernels == {[addr |-> 44, size |-> 6], [addr |-> 72, size |-> 10]}
Framebuffers == {[addr |-> 120, width |-> 1, height |-> 2, bpp |-> 8],
                 [addr |-> 400, width |-> 1, height |-> 2, bpp |-> 8]}

Sdt(addr, len, signature) == [addr |-> addr, len |-> len, signature |-> signature]
SdtLists == {<<Sdt(100, 3, "RSDT"), Sdt(106, 7, "APIC")>>,
             <<Sdt(60, 9, "XSDT"), Sdt(200, 6, "APIC"), Sdt(260, 8, "FACP")>>}

\* PCI functions, base address registers and where a region really is.
Fn(class)      == [class |-> class, secondary |-> 0]
BridgeTo(bus)  == [class |-> "bridge", secondary |-> bus]
Bar32(at, span) == [value |-> at, flags |-> 0, span |-> span]
Bar64(at, span) == [value |-> at + 4, flags |-> 4, span |-> span]
High(value)     == [value |-> value, flags |-> 0, span |-> 1]

Pci(funcs, bars, at) ==
    [cache_line |-> FALSE, odd |-> {}, stuck |-> {}, funcs |-> funcs, bars |-> bars, at |-> at]

OneController ==
    Pci(<<0, 0, 0>> :> Fn("other") @@ <<0, 1, 1>> :> Fn("xhci"),
        <<0, 1, 1, 0>> :> Bar64(224, 16) @@ <<0, 1, 1, 1>> :> High(0),
        <<0, 1, 1>> :> 224)

Tree ==
    Pci(<<0, 0, 0>> :> BridgeTo(1) @@ <<0, 1, 0>> :> Fn("ahci") @@ <<0, 1, 1>> :> Fn("raid")
          @@ <<1, 0, 0>> :> Fn("xhci") @@ <<1, 0, 1>> :> BridgeTo(2) @@ <<1, 1, 1>> :> Fn("xhci")
          @@ <<2, 0, 1>> :> Fn("xhci") @@ <<2, 1, 0>> :> Fn("ahci"),
        <<0, 1, 0, 5>> :> Bar32(192, 32) @@ <<1, 1, 1, 0>> :> Bar32(240, 16)
          @@ <<2, 0, 1, 0>> :> Bar64(224, 16) @@ <<2, 0, 1, 1>> :> High(0),
        <<0, 1, 0>> :> 192 @@ <<1, 1, 1>> :> 240 @@ <<2, 0, 1>> :> 224)

OddPageSize == [Tree EXCEPT !.odd = {<<2, 0, 1>>}]
AllOdd      == [Tree EXCEPT !.odd = {<<2, 0, 1>>, <<1, 1, 1>>}]
Stuck       == [Tree EXCEPT !.stuck = {<<0, 1, 0>>}]
CacheLine   == [Tree EXCEPT !.cache_line = TRUE]
Loop        == [Tree EXCEPT !.funcs = (<<2, 1, 1>> :> BridgeTo(0)) @@ @]

\* A region at 1 * RegSize + 64, which get_bar takes for 64.
Above4G ==
    Pci(<<0, 0, 0>> :> Fn("xhci") @@ <<0, 1, 0>> :> Fn("xhci"),
        <<0, 0, 0, 0>> :> Bar64(64, 16) @@ <<0, 0, 0, 1>> :> High(1)
          @@ <<0, 1, 0, 0>> :> Bar32(240, 16),
        <<0, 0, 0>> :> 256 + 64 @@ <<0, 1, 0>> :> 240)

Machine(map, kernel, fb, sdts, apics, pci, inits) ==
    [map |-> map, kernel |-> kernel, fb |-> fb, sdts |-> sdts, apics |-> apics, pci |-> pci, drivers |-> inits]

MCMachines ==
    {Machine(m, k, f, s, <<300, 292>>, OneController, <<"xhci">>) :
        m \in Maps, k \in Kernels, f \in Framebuffers, s \in SdtLists}
    \cup
    {Machine(<<Usable(0, 160)>>, [addr |-> 44, size |-> 6],
             [addr |-> 120, width |-> 1, height |-> 2, bpp |-> 8], <<Sdt(100, 3, "RSDT")>>, <<>>, p, d) :
        p \in {OneController, Tree, OddPageSize, AllOdd, Stuck, CacheLine, Loop, Above4G},
        d \in {<<"xhci">>, <<"ahci", "xhci">>}}
=============================================================================
