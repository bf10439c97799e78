--------------------------- MODULE MCLinkResolver ---------------------------
(***************************************************************************)
(* Seven entries for LinkResolver, whose one bucket overflows when five    *)
(* files wait for their links.                                             *)
(***************************************************************************)
EXTENDS LinkResolver

MCNames == 1..7

(* Two files complete in the archive, two that wait for a link that is not *)
(* in it, one that does not say how many it has; and a file with more      *)
(* links than it says, an entry without a number, one with one link.       *)
MCStats ==
  {[inode |-> <<1, 1, 2, 2, 3, 4, 5>>, nlink |-> <<2, 2, 2, 2, 2, 3, 0>>],
   [inode |-> <<1, 1, 1, 2, 2, 0, 3>>, nlink |-> <<2, 2, 2, 3, 3, 2, 1>>]}

(* Files 2 and 3 have one hash, 1 and 5 another: they share a chain for good. *)
MCHash == <<0, 2, 2, 1, 0>>
=============================================================================
