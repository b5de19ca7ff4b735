-------------------------- MODULE MCPhotoLifecycle --------------------------
(***************************************************************************)
(* Instances of PhotoLifecycle for TLC.                                    *)
(***************************************************************************)
EXTENDS PhotoLifecycle

CONSTANTS p1, p2, d1, d2

\* Two posts against a delete, and one against two.
PostsAndDeletes == {{p1, p2, d1}, {p1, d1, d2}}
OneOfEach == {{p1, d1}}
=============================================================================
