-------------------------- MODULE MCStartupParams --------------------------
(* Small instances of StartupParams for TLC. *)
EXTENDS StartupParams

CONSTANT Here

\* <<Here>> marks where an options string goes.
T(word) == <<word>>
Packet(ss, rest) == [strings |-> ss, fragment |-> rest]

MCOptionsHere == <<Here>>

MCLayouts ==
  { Packet(<<T("user"), T("alice"), T("options"), MCOptionsHere, <<>>>>, FALSE),
    Packet(<<T("options"), MCOptionsHere, <<>>>>, FALSE),
    Packet(<<T("user"), T("alice"), T("replication"), T("on"),
             T("options"), MCOptionsHere, <<>>>>, FALSE),
    Packet(<<T("user"), T("alice"), T("database"), <<>>, <<>>>>, FALSE),
    Packet(<<T("user"), T("alice"), T("user"), T("bob"), T("database"), T("d"), <<>>>>, FALSE),
    Packet(<<T("user"), <<>>, <<>>>>, FALSE),
    Packet(<<T("user"), T("alice"), T("replication"), T("perhaps"), <<>>>>, FALSE),
    Packet(<<T("user"), T("alice")>>, FALSE),
    Packet(<<T("user")>>, FALSE),
    Packet(<<T("user"), T("alice"), <<>>>>, TRUE),
    Packet(<<T("user"), T("alice"), <<>>, T("options"), MCOptionsHere, <<>>>>, FALSE) }

\* Short strings in every form, and longer ones of whole settings.
MCLexemes == {"-c", "--", "=", "\\", " ", "user", "replication", "on"}

MCPieces ==
  { <<"-c", "user", "=", "options", " ">>, <<"--", "user", "=", "user", " ">>,
    <<"-c", " ">>, <<"user", "=", "=", " ">>, <<"--", "options", "=", "x">>, <<"\\", " ">> }

MCWords ==
  MCLexemes \cup {Here, "alice", "bob", "database", "d", "perhaps", "options", "x"}

MCOptionTexts ==
  BoundedSeq(MCLexemes, 5) \cup {FlattenSeq(ps) : ps \in BoundedSeq(MCPieces, 4)}
=============================================================================
