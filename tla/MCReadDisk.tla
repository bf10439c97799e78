----------------------------- MODULE MCReadDisk -----------------------------
(***************************************************************************)
(* Small file systems for ReadDisk: the directory of the program, 1, with  *)
(* the top of the walk, 2.                                                 *)
(***************************************************************************)
EXTENDS ReadDisk

MCNodes == 1..7
MCVolatile == 3..6

(* Top holds a directory 3 with 4 and the link 5, and beside it 6 and 7.   *)
Tree(kind6, up6, target, refuses) ==
  [kind |-> <<"dir", "dir", "dir", "file", "link", kind6, "dir">>,
   up |-> <<0, 1, 2, 3, 3, up6, 2>>, to |-> <<0, 0, 0, 0, target, 0, 0>>,
   size |-> <<0, 0, 0, 3, 0, 0, 0>>, refuses |-> refuses]

(* Top is a link to 3, beside it, which holds a link to itself.            *)
LinkTop ==
  [kind |-> <<"dir", "link", "dir", "file", "link", "none", "none">>,
   up |-> <<0, 1, 1, 3, 3, 3, 2>>, to |-> <<0, 3, 0, 0, 3, 0, 0>>,
   size |-> <<0, 0, 0, 3, 0, 0, 0>>, refuses |-> {}]

(* Top is a link to 4, in 3, which holds links to itself and to 3: 4 is    *)
(* entered three times on one way.                                         *)
Knot ==
  [kind |-> <<"dir", "link", "dir", "dir", "link", "link", "none">>,
   up |-> <<0, 1, 1, 3, 4, 4, 2>>, to |-> <<0, 4, 0, 0, 4, 3, 0>>,
   size |-> <<0, 0, 0, 0, 0, 0, 0>>, refuses |-> {}]

(* Top holds the empty directory 3 and beside it 4.                        *)
Spare ==
  [kind |-> <<"dir", "dir", "dir", "file", "none", "none", "none">>,
   up |-> <<0, 1, 2, 2, 2, 2, 2>>, to |-> <<0, 0, 0, 0, 0, 0, 0>>,
   size |-> <<0, 0, 0, 0, 0, 0, 0>>, refuses |-> {}]

MCDisks ==
  {Tree("none", 3, target, {}) : target \in {2, 3}}
  \cup {Tree("dir", 2, 4, {}), Tree("dir", 2, 6, {3}), Tree("file", 2, 0, {}), LinkTop, Knot, Spare}

MCLayouts == {<<>>, <<[offset |-> 1, length |-> 1]>>, <<[offset |-> 0, length |-> 0]>>}
=============================================================================
