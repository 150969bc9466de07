----------------------------- MODULE MCProcess -----------------------------
(* Small instances of Process for TLC. *)
EXTENDS Process

CONSTANT q1

File(name, exact, requestTimeout, shutdownTimeout, listenPort) ==
    [level |-> [name |-> name, exact |-> exact], request |-> requestTimeout,
     shutdown |-> shutdownTimeout, port |-> listenPort]

\* A configuration, and one that differs in every field.
First  == File("info", TRUE, 1, 1, 1)
Second == File("debug", TRUE, 2, 2, 2)

\* With them, one that differs by a request timeout Validate refuses, and one
\* without a level.
SmallContents ==
    {First, Second, File("info", TRUE, 0, 2, 1),
     [request |-> 1, shutdown |-> 1, port |-> 1]}

\* The environment sets the level, and spells it differently.
SmallEnv == [level |-> [name |-> "warn", exact |-> FALSE]]

\* First is replaced by any other content, Second by First; a file that Load
\* cannot read is met by the boot, and in a round is refused like the others.
MCInit ==
    /\ Init
    /\ text[1] \notin {text[0], Torn}
    /\ text[0] = Second => text[1] = First

MCSpec == MCInit /\ [][Next]_vars
=============================================================================
