---------------------------- MODULE MCNamespace ----------------------------
(* Instances of Namespace: the root and one to three more dinodes, and   *)
(* paths of one or two elements, written as sequences of characters.     *)
EXTENDS Namespace, TLC

CONSTANTS p1, p2

(* The examples of skipelem's comment in fs.c. *)
ASSUME SkipElem(<<"a", "/", "b", "b", "/", "c">>)
         = [name |-> <<"a">>, rest |-> <<"b", "b", "/", "c">>]
ASSUME SkipElem(<<"/", "/", "/", "a", "/", "/", "b", "b">>)
         = [name |-> <<"a">>, rest |-> <<"b", "b">>]
ASSUME SkipElem(<<"a">>) = [name |-> <<"a">>, rest |-> <<>>]
ASSUME ~HasElem(<<>>) /\ ~HasElem(<<"/", "/", "/", "/">>)

(* "/a", "b", "a//b", "/a/." and "a/../": a subdirectory and its own "." *)
(* and "..".                                                               *)
MCPaths2 == {<<"/", "a">>, <<"b">>, <<"a", "/", "/", "b">>,
             <<"/", "a", "/", ".">>, <<"a", "/", ".", ".", "/">>}

(* "/a" and "b": two names in the root, without "." and "..". *)
MCPathsAB == {<<"/", "a">>, <<"b">>}

(* "/a", "b", "cc", "ccc/", "a/b", "a/." and "/a/..", and "/": with      *)
(* DIRSIZ 2, "cc" and "ccc" are one name; the root fills up, and a       *)
(* subdirectory holds a file.                                            *)
MCPaths3 == {<<"/", "a">>, <<"b">>, <<"c", "c">>, <<"c", "c", "c", "/">>,
             <<"a", "/", "b">>, <<"a", "/", ".">>, <<"/", "a", "/", ".", ".">>,
             <<"/">>}

(* sys_chdir to "/" and to "b": the process may work in a subdirectory, *)
(* which none of MCPaths3 can remove while it is there.                  *)
MCChdir3 == {<<"/">>, <<"/", "a", "/", "b">>}

(* sys_chdir into "/a" and back to "/". *)
MCChdirA == {<<"/", "a">>, <<"/">>}

MCNoChdir == {}

MCProcs1 == {p1}
MCProcs2 == {p1, p2}

ProcSym == Permutations(MCProcs2)
=============================================================================
