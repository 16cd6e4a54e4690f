-------------------------- MODULE MCMyClayRepair --------------------------
(* Instances of MyClayRepair alone: every lost chunk and every set of      *)
(* available chunks of a small profile.                                    *)
EXTENDS MyClayRepair

Identity == [i \in Pos |-> get_plane_vector(i)]
===========================================================================
