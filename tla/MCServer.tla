------------------------------ MODULE MCServer ------------------------------
(* Instances of Server for TLC. *)
EXTENDS Server, TLC

CONSTANTS a, b, c

Disk(aa, bb) == (a :> aa) @@ (b :> bb) @@ (c :> <<>>)
Texts(aa, bb, cc) == (a :> aa) @@ (b :> bb) @@ (c :> cc)

(* A client that does not wait and changes one file again and again, or a   *)
(* file that imports itself, or one that imports another, and that one.      *)
Solo == [disk |-> Disk(<<>>, <<>>), texts |-> Texts({<<>>}, {}, {}), patient |-> FALSE, bound |-> 3]
Self == [disk |-> Disk(<<a>>, <<>>), texts |-> Texts({<<a>>, <<>>}, {}, {}), patient |-> FALSE, bound |-> 2]
Pair == [disk |-> Disk(<<b>>, <<>>), texts |-> Texts({<<b>>, <<>>}, {<<>>}, {}),
         patient |-> FALSE, bound |-> 2]

(* A patient client, and a chain of imports, or a fork, that comes and goes. *)
Chain == [disk |-> Disk(<<b>>, <<c>>), texts |-> Texts({<<b>>, <<>>}, {<<c>>, <<>>}, {<<>>}),
          patient |-> TRUE, bound |-> 4]
Fork == [disk |-> Disk(<<b, c>>, <<>>), texts |-> Texts({<<b, c>>, <<c>>}, {<<>>}, {<<>>}),
         patient |-> TRUE, bound |-> 4]

TreeProjects == {Solo, Self, Pair, Chain, Fork}

(* A patient client, and a file with two ways to another. *)
Triangle == [disk |-> Disk(<<b, c>>, <<c>>), texts |-> Texts({<<b, c>>}, {}, {<<>>}),
             patient |-> TRUE, bound |-> 3]
TriangleProjects == {Triangle}
=============================================================================
