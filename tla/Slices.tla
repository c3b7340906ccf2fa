-------------------------------- MODULE Slices --------------------------------
(***************************************************************************)
(* How the ranks of the HBase renderer divide the particles of a frame     *)
(* between them (Draw of ice_tHbase.cpp): rank r of n draws the indices    *)
(* from chunk * r up to chunk * (r + 1), chunk being size / n.             *)
(***************************************************************************)
EXTENDS Integers

Chunk(size, n) == size \div n

\* Mutant: every rank starts at the first particle.
Slice_FromStart(size, n, r) == 0..(Chunk(size, n) * (r + 1) - 1)

Slice(size, n, r) == (Chunk(size, n) * r)..(Chunk(size, n) * (r + 1) - 1)

\* What no rank draws.
Rest(size, n) == {i \in 0..(size - 1) : \A r \in 0..(n - 1) : i \notin Slice(size, n, r)}
===============================================================================
