----------------------------- MODULE MCTrackers -----------------------------
(***************************************************************************)
(* A table of two slots and three heads, so that a third head finds it     *)
(* full.  The windows are all one unit of time long: a stamp that is one   *)
(* unit late then already crosses each of them.  Heads start two samples   *)
(* before a wrap of seq.                                                   *)
(***************************************************************************)
EXTENDS Trackers, TLC

CONSTANTS h1, h2, h3

\* What LossExact and SilentDropped rest on holds of these sizes.
ASSUME ExactnessSizes == Punctual /\ SeqSpace

HeadSymmetry == Permutations(TrackerIds)
=============================================================================
