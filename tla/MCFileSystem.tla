---------------------------- MODULE MCFileSystem ----------------------------
(* The calls the programs make, and symmetry for the model checker.        *)
EXTENDS FileSystem, TLC

Abs(e) == [abs |-> TRUE, elem |-> e]
Rel(e) == [abs |-> FALSE, elem |-> e]
One(fn, q) == <<fn, q, q>>

MCPathCalls ==
    {One("open", Abs(<<"a", "b">>)),
     One("creat", Rel(<<"b">>)), One("creat", Abs(<< >>)),
     One("mkdir", Rel(<<"b">>)), One("mknod", Rel(<<"a">>)),
     One("chdir", Rel(<<"..">>)),
     One("unlink", Abs(<<"a">>)), One("unlink", Abs(<<"a", "b">>)), One("unlink", Rel(<<"..">>)),
     <<"link", Abs(<<"a", "b">>), Rel(<<"b">>)>>}

\* Work in a directory while it and its parent are removed.
MCRemovedCalls ==
    {One("mkdir", Rel(<<"..", "b">>)), One("creat", Rel(<<"..", "b">>)),
     One("mkdir", Abs(<<"b">>)),
     One("unlink", Abs(<<"a">>)), One("unlink", Abs(<<"a", "b">>))}

Perms == Permutations(Proc)
=============================================================================
