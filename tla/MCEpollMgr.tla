------------------------------ MODULE MCEpollMgr ------------------------------
(***************************************************************************)
(* Small instances of EpollMgr for TLC.  Each .cfg gives the sets of       *)
(* handles and threads and says which liberties the application takes.     *)
(***************************************************************************)
EXTENDS EpollMgr, TLC

\* The threads and the handles are interchangeable among themselves.
HandleSymmetry ==
    Permutations(RefHandles) \cup Permutations(Handles \ RefHandles)
Symmetry == HandleSymmetry \cup Permutations(Users \ {Owner})
===============================================================================
