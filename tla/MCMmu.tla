----------------------------------- MODULE MCMmu -----------------------------------
(***************************************************************************)
(* Instances of Mmu for TLC: two virtual pages and two table pages.  Page  *)
(* 0 is a table that can point to itself, so that it is the root, the      *)
(* middle and the leaf table of a walk of three levels; a leaf in its      *)
(* entry 0 ends the walk at the top.                                       *)
(***************************************************************************)
EXTENDS Mmu

Inner(p) == [valid |-> TRUE, perms |-> {}, ppn |-> p]
LeafAt(p, perms) == [valid |-> TRUE, perms |-> perms, ppn |-> p]

\* Page 0 as an inner table and two mappings of virtual page 1; table page 1
\* leads out of the scratchpad.
MCPteWrites ==
    { <<0, 0, Inner(0)>>, <<0, 1, LeafAt(0, {"R", "W"})>>,
      <<0, 1, LeafAt(1, {"R", "U"})>>, <<1, 0, Inner(3)>> }

\* Address space 0 for bare mode and for paging, and space 1 with two roots.
MCSatps ==
    { [set |-> FALSE, asid |-> 0, root |-> 0], [set |-> TRUE, asid |-> 0, root |-> 0],
      [set |-> TRUE, asid |-> 1, root |-> 0], [set |-> TRUE, asid |-> 1, root |-> 1] }

MCMaps == {[vpn |-> 1, ppn |-> 1, perms |-> {"W"}]}
================================================================================
