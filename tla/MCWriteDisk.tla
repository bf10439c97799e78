---------------------------- MODULE MCWriteDisk ----------------------------
(***************************************************************************)
(* Three paths: a directory, what is in it, and a name beside it.          *)
(***************************************************************************)
EXTENDS WriteDisk

D == <<1>>
F == <<1, 1>>
G == <<2>>
SomePaths == {D, F, G}
SomeInodes == 1..7

Entry(path, kind, mode, size, link) ==
  [path |-> path, kind |-> kind, mode |-> mode, size |-> size, link |-> link, mtime |-> 0]

SomeItems ==
  {Entry(D, "dir", {"other"}, -1, <<>>),          \* a directory one cannot work in
   Entry(D, "dir", {"owner", "other"}, -1, <<>>),
   Entry(F, "file", {"owner"}, 2, <<>>),
   Entry(F, "file", {"other"}, -1, <<>>),         \* size not known
   Entry(F, "dir", {"owner", "other"}, -1, <<>>),
   Entry(G, "file", {"owner", "other"}, 1, <<>>),
   Entry(G, "file", {"other"}, 0, <<>>),          \* not to be opened again
   Entry(G, "file", {"owner"}, -1, G),            \* hard links: to itself,
   Entry(G, "file", {"owner"}, -1, F),            \* without data
   Entry(F, "file", {"owner"}, 1, G),             \* and with
   Entry(D, "file", {"other"}, 1, <<>>)}          \* closes what it meets

(* On disk before: nothing; an older file and a directory; a file where    *)
(* the archive has a directory.                                            *)
NodeOf(kind, data) == Node(kind, {"owner"}, 0, data)
DiskOf(names) ==
  LET number(p) == IF p = <<>> THEN Root
                   ELSE IF p \notin DOMAIN names THEN 0
                   ELSE CASE p = D -> 2 [] p = F -> 3 [] p = G -> 4
  IN [at |-> [p \in Places |-> number(p)],
      node |-> [i \in SomeInodes |->
                  IF i = Root THEN NodeOf("dir", <<>>)
                  ELSE IF \E p \in DOMAIN names : number(p) = i
                  THEN LET k == names[CHOOSE p \in DOMAIN names : number(p) = i]
                       IN NodeOf(k, IF k = "file" THEN <<9>> ELSE <<>>)
                  ELSE NoNode]]

SomeDisks == {DiskOf(<<>>), DiskOf(D :> "dir" @@ F :> "file"),
              DiskOf(D :> "file" @@ G :> "dir")}

SomeFlags == {{}, {"PERM", "TIME"}, {"PERM", "TIME", "UNLINK"}, {"TIME", "SAFE"},
              {"PERM", "NO_OVERWRITE"}, {"TIME", "NEWER"}, {"PERM", "NO_AUTODIR"}}
SomeUmasks == {{"other"}}
NoUmask == {{}}
=============================================================================
