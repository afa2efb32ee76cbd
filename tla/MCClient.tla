------------------------------- MODULE MCClient -------------------------------
(***************************************************************************)
(* The parts of the session manager side by side, for TLC: each behaviour  *)
(* exercises one part, chosen at the start, and leaves the others as they  *)
(* start. The parts share no variable; where they meet, each says what it  *)
(* leaves free.                                                            *)
(***************************************************************************)
EXTENDS TabStrip, TabSessions, TextEdit, HostForm, HostDialogs, HostRows, SshArgs, DirectLaunch

VARIABLE part

MCHosts == {[rdp |-> FALSE, entry |-> TRUE, user |-> TRUE],
            [rdp |-> TRUE, entry |-> TRUE, user |-> FALSE]}

MCTexts == STRING
MCProfiles == <<"default", "work">>
MCVault == <<"first", "second">>

\* An SSH entry without a vault entry, an RDP entry without a user on SSH's port, and an entry
\* of an unknown protocol with an option of its own.
MCTextsOf(f) == IF f = "IdentitiesOnly" THEN "yes" ELSE "kept"
MCEntries ==
    {[protocol |-> "ssh", own |-> 0, under |-> 1,
      val |-> [f \in EditorFields |-> IF f = "VaultPass" THEN "" ELSE MCTextsOf(f)]],
     [protocol |-> "rdp", own |-> 0, under |-> 0,
      val |-> [f \in EditorFields |->
                  CASE f = "User" -> "" [] f = "Port" -> "22" [] OTHER -> MCTextsOf(f)]],
     [protocol |-> "other", own |-> 1, under |-> 0,
      val |-> [f \in EditorFields |-> MCTextsOf(f)]]}

\* The root file may include the file of a team, whose folder is named like one of its own.
MCFiles == {"root", "team"}
MCStem == [file \in MCFiles |-> IF file = "root" THEN 9 ELSE 3]
MCDir == [file \in MCFiles |-> IF file = "root" THEN 1 ELSE 2]

MCTeam == <<[file |-> "team", under |-> <<>>]>>
MCRead(include, nodes) == [state |-> "read", include |-> include, nodes |-> nodes]
MCVersions ==
    {[file |-> "root", doc |-> MCRead(MCTeam, <<FolderNode(<<>>, 3), HostNode(<<3>>, 1, FALSE)>>)],
     [file |-> "root", doc |-> MCRead(<<>>, <<HostNode(<<>>, 2, FALSE), FolderNode(<<>>, 4),
                                              FolderNode(<<4>>, 3), HostNode(<<4, 3>>, 1, FALSE)>>)],
     [file |-> "team", doc |-> MCRead(<<>>, <<FolderNode(<<>>, 4), HostNode(<<4>>, 2, FALSE)>>)],
     [file |-> "team", doc |-> Broken]}

\* Two trees: the folders of the first are numbered anew in the second, where one has moved to
\* an included file and its entry is hidden.
TreeLine(folder, id, at, name, file, hidden) ==
    [folder |-> folder, id |-> id, at |-> at, name |-> name, file |-> file, hidden |-> hidden]
MCTrees ==
    {<<TreeLine(FALSE, 1, <<>>, "ab", "root", FALSE), TreeLine(TRUE, 1, <<>>, "lab", "root", FALSE),
       TreeLine(FALSE, 2, <<"lab">>, "ac", "root", FALSE),
       TreeLine(TRUE, 2, <<"lab">>, "old", "root", FALSE),
       TreeLine(FALSE, 3, <<"lab", "old">>, "b", "root", FALSE)>>,
     <<TreeLine(TRUE, 1, <<>>, "dev", "root", FALSE), TreeLine(TRUE, 2, <<>>, "lab", "root", FALSE),
       TreeLine(FALSE, 1, <<"lab">>, "ab", "root", FALSE),
       TreeLine(FALSE, 2, <<"lab">>, "ac", "root", FALSE),
       TreeLine(TRUE, 3, <<"lab">>, "old", "team", FALSE),
       TreeLine(FALSE, 3, <<"lab", "old">>, "b", "team", TRUE)>>}
MCQueries == {"a", "b-"}
MCStrict == [q \in MCQueries |-> IF q = "a" THEN {"ab", "ac"} ELSE {}]
MCFuzzy == [q \in MCQueries |-> IF q = "a" THEN {"ab", "ac"} ELSE {"b"}]

\* Options in each form that ssh has for them, a command's words, and hosts of which two have
\* one address.
MCTokens ==
    {Token(<<"p">>, "", "", ""), Token(<<"v">>, "", "", ""), Token(<<"i">>, "mine", "", ""),
     Token(<<"o">>, "", "", ""), Token(<<"o">>, "Port=22", "port", ""),
     Token(<<"v", "A">>, "", "", ""), Token(<<>>, "IdentityFile=mine", "identityfile", ""),
     Spaced(Token(<<>>, "Port 22", "port", "")), Spaced(Token(<<>>, "LocalForward x", "localforward", "")),
     Word("web"), Token(<<>>, "10.0.0.9", "", "ops")}
MCBook ==
    <<[name |-> "web", host |-> "10.0.0.1", protocol |-> "ssh",
       options |-> [user |-> <<"root">>, port |-> <<"2200">>, identityfile |-> <<"a", "b">>,
                    forwardagent |-> <<"yes">>, loglevel |-> <<"info">>]],
      [name |-> "db", host |-> "10.0.0.9", protocol |-> "ssh",
       options |-> [user |-> <<"root">>, proxyjump |-> <<"web">>, localforward |-> <<"x", "y">>]],
      [name |-> "box", host |-> "10.0.0.1", protocol |-> "rdp", options |-> [port |-> <<"1">>]]>>

clientVars ==
    <<part, stripVars, sessionsVars, textVars, formVars, browserVars, rowsVars, argv, launchVars>>

ClientInit ==
    /\ part \in {"strip", "sessions", "text", "form", "browser", "rows", "args", "launch"}
    /\ StripInit /\ SessionsInit /\ TextInit /\ FormInit /\ BrowserInit /\ RowsInit
    /\ ArgsInit /\ LaunchInit
    /\ secret => part = "text"
    /\ folded # {} => part = "rows"
    /\ part # "rows" => Len(rowTree) = 5
    /\ part # "launch" => vault = "none" /\ \A aspect \in DOMAIN launch : launch[aspect]
    /\ \A file \in Files : files[file].state = (IF part = "browser" THEN "read" ELSE "missing")

StripPart ==
    /\ part = "strip" /\ StripNext
    /\ UNCHANGED <<part, sessionsVars, textVars, formVars, browserVars, rowsVars, argv, launchVars>>
SessionsPart ==
    /\ part = "sessions" /\ SessionsNext
    /\ UNCHANGED <<part, stripVars, textVars, formVars, browserVars, rowsVars, argv, launchVars>>
TextPart ==
    /\ part = "text" /\ TextNext
    /\ UNCHANGED <<part, stripVars, sessionsVars, formVars, browserVars, rowsVars, argv, launchVars>>
FormPart ==
    /\ part = "form" /\ FormNext
    /\ UNCHANGED <<part, stripVars, sessionsVars, textVars, browserVars, rowsVars, argv, launchVars>>
BrowserPart ==
    /\ part = "browser" /\ BrowserNext
    /\ UNCHANGED <<part, stripVars, sessionsVars, textVars, formVars, rowsVars, argv, launchVars>>
RowsPart ==
    /\ part = "rows" /\ RowsNext
    /\ UNCHANGED <<part, stripVars, sessionsVars, textVars, formVars, browserVars, argv, launchVars>>
ArgsPart ==
    /\ part = "args" /\ ArgsNext
    /\ UNCHANGED <<part, stripVars, sessionsVars, textVars, formVars, browserVars, rowsVars, launchVars>>
LaunchPart ==
    /\ part = "launch" /\ LaunchNext
    /\ UNCHANGED <<part, stripVars, sessionsVars, textVars, formVars, browserVars, rowsVars, argv>>

ClientNext ==
    \/ StripPart \/ SessionsPart \/ TextPart \/ FormPart \/ BrowserPart \/ RowsPart
    \/ ArgsPart \/ LaunchPart

ClientSpec == ClientInit /\ [][ClientNext]_clientVars
=============================================================================
