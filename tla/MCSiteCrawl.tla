---------------------------- MODULE MCSiteCrawl ----------------------------
(* A site of three pages for two slots, one page of two to be found, whose   *)
(* analyses may be run again; and one of the root and a seed for one slot.   *)
EXTENDS SiteCrawl, TLC

CONSTANTS p0, p1, p2, s1, s2, m, u, none

MCPage == {p0, p1}
MCSite == {p0, p1, p2}
MCHome == {p0}
MCOne == {s1}
MCSlot == {s1, s2}
MCOwners == [s \in MCSlot |-> s]
MCFirst == {0}
MCTwice == {0, 1}
MCSame == Permutations(MCSlot) \cup Permutations({p1, p2})
=============================================================================
