------------------------------- MODULE MCFiles --------------------------------
(* Names whose hashes collide and wrap around a map of four slots, and five    *)
(* archives: a tree that makes the root's map grow, one with a file under a    *)
(* directory it does not list, one that lists a file twice, one with a link    *)
(* and one with a file that the heap has no room for.                          *)
EXTENDS Files

MCNames == {".", "..", "", "a", "b", "c"}
MCHash == [n \in MCNames |-> CASE n = "." -> 3 [] n = ".." -> 3 [] n = "a" -> 7
                               [] n = "b" -> 4 [] n = "c" -> 2 [] OTHER -> 5]

Head512(name, type, size) ==
    [magic |-> TRUE, name |-> name, type |-> type, size |-> size, byte |-> "f"]
Data == [magic |-> FALSE]

Tree == << Head512(<<".">>, "DIRECTORY", 0),
           Head512(<<".", "a">>, "DIRECTORY", 0),
           Head512(<<".", "a", "b">>, "DIRECTORY", 0),
           Head512(<<".", "c">>, "FILE", 1), Data,
           Head512(<<".", "b">>, "FILE", 2), Data, Data >>
Orphan == << Head512(<<".", "a", "b">>, "FILE", 1), Data, Data >>
Twice == << Head512(<<".", "a">>, "FILE", 0), Head512(<<".", "a">>, "FILE", 0), Data >>
Link == << Head512(<<".", "a">>, "other", 0), Data >>
Large == << Head512(<<".", "a">>, "FILE", 6), Data, Data, Data >>
MCArchives == {Tree, Orphan, Twice, Link, Large}

Path(absolute, components) == [absolute |-> absolute, components |-> components]
MCPaths == { Path(TRUE, <<"">>), Path(FALSE, <<"..">>), Path(FALSE, <<"a">>),
             Path(FALSE, <<"b">>), Path(TRUE, <<"b">>) }
=============================================================================
