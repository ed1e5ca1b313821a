------------------------------ MODULE MCIoWorker ------------------------------
(* Instances of IoWorker for TLC.  Descriptors are interchangeable: the kernel *)
(* hands out any free one, and no handler compares two of them.  So are        *)
(* clients, when none of them is slow.                                         *)
EXTENDS IoWorker, TLC

Interchangeable == {f @@ g : f \in Permutations(Fds), g \in Permutations(Clients)}
=============================================================================
