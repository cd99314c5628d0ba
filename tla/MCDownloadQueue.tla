-------------------------- MODULE MCDownloadQueue --------------------------
(***************************************************************************)
(* Instances of DownloadQueue.                                             *)
(***************************************************************************)
EXTENDS DownloadQueue

\* A full block, an empty one and one with uncles only.
MCNeeds == <<{"body", "receipt"}, {}, {"body"}>>

MCEnds == {2, 3}

MCSmallNeeds == <<{"body", "receipt"}, {}>>

MCSmallEnds == {2}

=============================================================================
