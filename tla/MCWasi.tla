------------------------------- MODULE MCWasi -------------------------------
(* Model-checking instance of Wasi.  Under "root": a directory a with a     *)
(* directory b, a file f, and links: up to "..", loop to itself, in to a/b, *)
(* abs to the outside.  In the second tree b has moved up from a.           *)
EXTENDS Wasi

Dir(sub) == [kind |-> "dir", sub |-> sub]
Link(names, abs) == [kind |-> "link", sub |-> <<>>, target |-> Path(abs, names, FALSE)]
File == [kind |-> "file", sub |-> <<>>]
NoSub == [x \in {} |-> None]
Nodes == [outer |-> Dir([root |-> "root", f |-> "secret"]), secret |-> File, f |-> File, new |-> File,
          up |-> Link(<<"..", "..", "f">>, FALSE), loop |-> Link(<<"loop">>, FALSE),
          in |-> Link(<<"a", "b">>, FALSE), abs |-> Link(<<"f">>, TRUE)]
Tree1 == Nodes @@ [root |-> Dir([a |-> "a", in |-> "in", loop |-> "loop", abs |-> "abs"]),
                   a |-> Dir([b |-> "b", f |-> "f"]), b |-> Dir([up |-> "up"])]
Tree2 == Nodes @@ [root |-> Dir([a |-> "a", b |-> "b", f |-> "f"]), a |-> Dir([f |-> "f"]),
                   b |-> Dir([f |-> "new"])]
MCFileSystems == [first |-> Tree1, moved |-> Tree2]
MCBelow == {"root", "a", "b", "f", "new", "up", "loop", "in", "abs"}
P(names, slash) == Path(FALSE, names, slash)
MCPaths == {P(<<"in", "up">>, FALSE), P(<<"a", "b", "..", "..", "f">>, FALSE),
            P(<<".", "in">>, FALSE), P(<<"loop">>, TRUE),
            P(<<"abs">>, FALSE), P(<<"..", "f">>, FALSE), P(<<"in", "..", "f">>, TRUE)}
MCWants == {[base |-> {"FD_WRITE"}, inh |-> {}],
            [base |-> {"PATH_OPEN"}, inh |-> {"FD_READ"}]}
MCNewPaths == {P(<<"in", "..", "f">>, TRUE)}
MCOpenFlags == {{}, {"CREAT", "TRUNC", "SYNC"}}
Symmetry == Permutations(Threads)
=============================================================================
