-------------------------- MODULE MCMyClayPlugin --------------------------
(* The instance of MyClayPlugin: k=6, m=2, d=7 with the order of the       *)
(* source.                                                                 *)
EXTENDS MyClayPlugin, Sequences

\* A table of order as the source writes it: the integers of the planes.
Table(seq) == [i \in Pos |-> get_plane_vector(seq[i + 1])]

Gray4 == Table(<<1, 5, 7, 3, 2, 6, 4, 0, 8, 10, 11, 15, 14, 12, 13, 9>>)
===========================================================================
