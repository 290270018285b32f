----------------------------- MODULE MCFileSys -----------------------------
(* A small instance of module FileSys for TLC: the root directory holds    *)
(* the empty file "a", so that another entry needs another block.          *)
EXTENDS FileSys

CONSTANTS p1, p2

MCProc == {p1, p2}

MCImage ==
    [ino |-> [i \in Inum |->
                CASE i = 1 -> [type |-> "dir", nlink |-> 1, blks |-> {1}]
                  [] i = 2 -> [type |-> "file", nlink |-> 1, blks |-> {}]
                  [] OTHER -> NoDinode],
     ent |-> [i \in Inum |->
                IF i = 1 THEN [NoEntries EXCEPT !["a"] = 2, ![".."] = 1]
                         ELSE NoEntries],
     bits |-> {1}]

C(op, path) == [op |-> op, path |-> path, new |-> <<>>]

MCCalls ==
    { C("open", <<"a">>), C("trunc", <<"/", "a">>), C("creat", <<"b">>),
      C("mkdir", <<"b">>), C("unlink", <<"a">>), C("unlink", <<"/", "b">>),
      C("unlink", <<"b", "..">>), C("chdir", <<"b">>), C("exec", <<"..", "a">>),
      C("mknod", <<"/", "b">>), C("mkdir", <<"/">>),
      [op |-> "link", path |-> <<"/", "a">>, new |-> <<"b">>],
      [op |-> "link", path |-> <<"/", "a">>, new |-> <<"b", "b">>] }
=============================================================================
