------------------------------- MODULE MCAhci -------------------------------
(* A disk of ten sectors, commands of at most eight in descriptors of two. *)
EXTENDS Ahci

MCRequests ==
    {q \in [op : {"read", "write"}, start : 0 .. 9, size : 1 .. 11] :
        <<q.start, q.size>> \in {<<0, 1>>, <<1, 3>>, <<3, 4>>, <<2, 6>>, <<8, 4>>, <<9, 1>>, <<0, 11>>}}
=============================================================================
