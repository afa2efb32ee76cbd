------------------------------ MODULE SshArgs ------------------------------
(***************************************************************************)
(* What cossh makes of an ssh command line when its destination is in the  *)
(* inventory (process/ssh_builder.rs, args/ssh.rs), and what ssh reads in  *)
(* the result.                                                             *)
(*                                                                         *)
(* A token is the letters after a dash, in their order, and the text that  *)
(* follows them: -p22 is p and 22, a word has no letters. A word that an   *)
(* -o may take names an option, before = or before a blank; one that may   *)
(* be a destination has a user or none. Option keys are as ssh_config(5)   *)
(* has them, in lower case. The arguments - and -- are left out.           *)
(***************************************************************************)
EXTENDS Integers, Sequences, FiniteSets, SequencesExt, Lists

CONSTANTS
    Tokens,     \* what the user may type
    Book,       \* the inventory: its hosts in order
    MaxArgs     \* bound: the length of the command line

ASSUME ArgsAssumption ==
    /\ MaxArgs \in Nat
    /\ \A a \in Tokens :
          a \in [flags : Seq(STRING), text : STRING, key : STRING, equals : BOOLEAN, user : STRING]
    /\ Book \in Seq(Range(Book))
    /\ \A h \in Range(Book) :
          /\ h.name \in STRING /\ h.host \in STRING /\ h.protocol \in {"ssh", "rdp"}
          /\ IsFiniteSet(DOMAIN h.options) /\ DOMAIN h.options \subseteq STRING
          /\ \A key \in DOMAIN h.options : h.options[key] \in Seq(STRING)

VARIABLE argv

-----------------------------------------------------------------------------
Token(flags, text, key, user) ==
    [flags |-> flags, text |-> text, key |-> key, equals |-> TRUE, user |-> user]
Word(text) == Token(<<>>, text, "", "")

\* An option as ssh also takes it: 'Port 22'.
Spaced(a) == [a EXCEPT !.equals = FALSE]

\* SSH_FLAGS_WITH_SEPARATE_VALUES, of both files
Separate ==
    {"b", "B", "c", "D", "E", "e", "F", "I", "i", "J", "L", "l", "m", "O", "o", "p", "P", "Q",
     "R", "S", "w", "W"}

\* The option that a flag with a value sets, and the option that a flag without one does.
ValueKeys ==
    [l |-> "user", p |-> "port", P |-> "tag", i |-> "identityfile", J |-> "proxyjump",
     b |-> "bindaddress", B |-> "bindinterface", c |-> "ciphers", D |-> "dynamicforward",
     I |-> "pkcs11provider", L |-> "localforward", m |-> "macs", R |-> "remoteforward",
     S |-> "controlpath", w |-> "tunnel"]
SwitchKeys ==
    [A |-> "forwardagent", a |-> "forwardagent", C |-> "compression",
     f |-> "forkafterauthentication", g |-> "gatewayports", M |-> "controlmaster",
     N |-> "sessiontype", s |-> "sessiontype", n |-> "stdinnull", q |-> "loglevel",
     v |-> "loglevel", T |-> "requesttty", t |-> "requesttty", X |-> "forwardx11",
     x |-> "forwardx11", Y |-> "forwardx11trusted"]

IsFlag(a) == a.flags # <<>>
Alone(a) == Len(a.flags) = 1 /\ a.text = ""
TakesNext(a) == Alone(a) /\ a.flags[1] \in Separate

-----------------------------------------------------------------------------
(* inspect_ssh_args *)

\* mark_short_flag_override
Switches(a) == {SwitchKeys[l] : l \in Range(a.flags) \cap DOMAIN SwitchKeys}

\* record_ssh_option takes what stands before = for the key, which without one is all of it.
Noted(a) == IF a.equals THEN {a.key} \ {""} ELSE {}

\* Faulty variant: a value that is written together with its flag is not noticed.
Recorded_Separate(args, i) ==
    LET a == args[i]
        letter == a.flags[1]
    IN  CASE letter = "o" /\ TakesNext(a) -> IF i < Len(args) THEN Noted(args[i + 1]) ELSE {}
          [] letter \in DOMAIN ValueKeys /\ TakesNext(a) -> {ValueKeys[letter]}
          [] letter = "v" /\ Alone(a) -> {}
          [] OTHER -> Switches(a)

\* The options that the flag at i is known to set: an -o by its word, a flag with a value, and
\* the letters of the others, of which -v is known in a cluster only.
Recorded(args, i) ==
    LET a == args[i]
        letter == a.flags[1]
    IN  CASE letter = "o" /\ TakesNext(a) -> IF i < Len(args) THEN Noted(args[i + 1]) ELSE {}
          [] letter = "o" /\ ~TakesNext(a) -> Noted(a)
          [] letter \in DOMAIN ValueKeys -> {ValueKeys[letter]}
          [] letter = "v" /\ Alone(a) -> {}
          [] OTHER -> Switches(a)

\* What is known of the arguments up to the one at i: its value may be the next.
Inspects(args, i, seen) ==
    CASE seen.at # 0 -> seen
      [] seen.at = 0 /\ seen.skip -> [seen EXCEPT !.skip = FALSE]
      [] seen.at = 0 /\ ~seen.skip /\ IsFlag(args[i]) ->
           [seen EXCEPT !.skip = TakesNext(args[i]), !.keys = @ \cup Recorded(args, i)]
      [] OTHER -> [seen EXCEPT !.at = i]

\* The walk, up to the first word that is no flag's value: the destination.
Inspection(args) ==
    LET walk[i \in 0 .. Len(args)] ==
            IF i = 0 THEN [skip |-> FALSE, at |-> 0, keys |-> {}]
            ELSE Inspects(args, i, walk[i - 1])
    IN  walk[Len(args)]

\* resolve_host_by_destination: by its name, or by an address that only it has; filtered as
\* build_ssh_command does.
Resolved(destination) ==
    LET hosts == DOMAIN Book
        named == {h \in hosts : Book[h].name = destination}
        there == {h \in hosts : Book[h].host = destination}
        first == CHOOSE h \in named : \A other \in named : h <= other
        found == IF named # {} THEN {first} ELSE IF Cardinality(there) = 1 THEN there ELSE {}
    IN  {Book[h] : h \in {g \in found : Book[g].protocol = "ssh"}}

\* is_non_interactive_ssh_invocation: such a line is passed on as it is.
NonInteractive(args) ==
    \E i \in DOMAIN args : Alone(args[i]) /\ args[i].flags[1] \in {"G", "V", "O", "Q"}

-----------------------------------------------------------------------------
(* synthesize_ssh_args *)

\* The order of injection, before the entry's other options.
MainKeys ==
    <<"user", "port", "identityfile", "proxyjump", "proxycommand", "forwardagent",
      "identitiesonly", "localforward", "remoteforward">>
OwnFlag == [user |-> "l", port |-> "p", identityfile |-> "i", localforward |-> "L",
            remoteforward |-> "R"]

\* inject_ssh_option, or the flag of its own that an option has: two tokens for each value.
AsTokens(pairs) ==
    [n \in 1 .. 2 * Len(pairs) |->
        LET key == pairs[(n + 1) \div 2][1]
            value == pairs[(n + 1) \div 2][2]
        IN  IF n % 2 = 1
            THEN Token(<<IF key \in DOMAIN OwnFlag THEN OwnFlag[key] ELSE "o">>, "", "", "")
            ELSE Token(<<>>, value, IF key \in DOMAIN OwnFlag THEN "" ELSE key, "")]

Values(host, key) == IF key \in DOMAIN host.options THEN host.options[key] ELSE <<>>

\* The options of the entry for which the user has given no value, and their values.
Injected(host, given) ==
    LET keys == MainKeys \o SetToSeq(DOMAIN host.options \ Range(MainKeys))
        Unless(key) == IF key \in given THEN <<>>
                       ELSE [v \in DOMAIN Values(host, key) |-> <<key, Values(host, key)[v]>>]
    IN  FlattenSeq([k \in DOMAIN keys |-> Unless(keys[k])])

Synthesized(args, host) ==
    LET seen == Inspection(args)
        user == args[seen.at].user
        given == seen.keys \cup (IF user = "" THEN {} ELSE {"user"})
    IN  SubSeq(args, 1, seen.at - 1) \o AsTokens(Injected(host, given))
        \o <<Token(<<>>, host.host, "", user)>> \o SubSeq(args, seen.at + 1, Len(args))

\* What build_ssh_command hands to ssh. The key of an option and the user before an @ are
\* parts of their word's text, so they change with it.
Built(args) ==
    LET at == Inspection(args).at
        hosts == IF at = 0 \/ NonInteractive(args) THEN {} ELSE Resolved(args[at].text)
    IN  IF hosts = {} THEN args ELSE Synthesized(args, CHOOSE host \in hosts : TRUE)

-----------------------------------------------------------------------------
(* ssh reads its command line *)

\* The first value of an option counts, but for those that add up. A switch replaces a value
\* before it; which of the user's own counts makes no difference here, as nothing is added to an
\* option with a switch, LogLevel behind a -v excepted, which leaves it.
Cumulative == {"identityfile", "localforward", "remoteforward", "dynamicforward"}

\* The option that a flag with a value sets.
OptionOf(letter, a) ==
    IF letter = "o" THEN a.key ELSE IF letter \in DOMAIN ValueKeys THEN ValueKeys[letter] ELSE ""

\* A flag's letters up to the first that takes a value, which may be written with it.
Letters(a) ==
    LET valued == {k \in DOMAIN a.flags : a.flags[k] \in Separate}
        k == IF valued = {} THEN Len(a.flags) + 1
             ELSE CHOOSE v \in valued : \A w \in valued : v <= w
        before == Filtered(SubSeq(a.flags, 1, k - 1), DOMAIN SwitchKeys)
    IN  [switches |-> [s \in DOMAIN before |-> <<SwitchKeys[before[s]], before[s]>>],
         letter |-> IF k > Len(a.flags) THEN "" ELSE a.flags[k],
         here |-> k < Len(a.flags) \/ a.text # ""]

\* getopt, and main after it: options may follow the destination, up to the command.
Reads(r, i, a) ==
    LET p == Letters(a)
        value == IF p.letter # "" /\ p.here THEN << <<OptionOf(p.letter, a), a.text>> >> ELSE <<>>
    IN  CASE r.command # 0 -> r
          [] r.command = 0 /\ r.wants # "" ->
               [r EXCEPT !.wants = "", !.got = Append(@, <<OptionOf(r.wants, a), a.text>>)]
          [] r.command = 0 /\ r.wants = "" /\ IsFlag(a) ->
               [r EXCEPT !.got = @ \o p.switches \o value,
                         !.wants = IF p.here THEN "" ELSE p.letter,
                         !.late = @ \/ r.host # 0]
          [] r.command = 0 /\ r.wants = "" /\ ~IsFlag(a) /\ r.host = 0 ->
               [r EXCEPT !.host = i,
                         !.got = IF a.user = "" THEN @ ELSE Append(@, <<"user", a.user>>)]
          [] OTHER -> [r EXCEPT !.command = i]

Reading(args) ==
    LET read[i \in 0 .. Len(args)] ==
            IF i = 0 THEN [wants |-> "", got |-> <<>>, host |-> 0, late |-> FALSE, command |-> 0]
            ELSE Reads(read[i - 1], i, args[i])
    IN  read[Len(args)]

Effective(reading, key) ==
    LET all == Filtered(reading.got, {key} \X STRING)
        values == [k \in DOMAIN all |-> all[k][2]]
    IN  IF key \in Cumulative \/ values = <<>> THEN values ELSE <<values[1]>>

Command(args) ==
    LET at == Reading(args).command IN IF at = 0 THEN <<>> ELSE SubSeq(args, at, Len(args))

-----------------------------------------------------------------------------
ArgsInit == argv = <<>>

\* One more argument.
TypeArg(token) == Len(argv) < MaxArgs /\ argv' = Append(argv, token)

ArgsNext == \E token \in Tokens : TypeArg(token)

ArgsSpec == ArgsInit /\ [][ArgsNext]_argv

-----------------------------------------------------------------------------
(* Properties *)

\* Where the options stand before the destination, as in ssh's own synopsis.
InOrder(reading) == reading.host # 0 /\ ~reading.late

\* The forms that inspect_ssh_args knows: a flag that takes a value stands alone or with its
\* value, not in a cluster behind other letters, and one that is no option's stands alone; of
\* an option that adds up, the key stands before =.
Recognised(a) ==
    /\ \A k \in DOMAIN a.flags :
          a.flags[k] \in Separate =>
              Len(a.flags) = 1 /\ (a.text # "" => a.flags[1] \in DOMAIN ValueKeys \cup {"o"})
    /\ a.key \in Cumulative => a.equals

\* Lines that the inventory adds to and that are not exempted.
Plain == ~NonInteractive(argv) /\ \A a \in Range(argv) : Recognised(a)

\* With an entry of the inventory ssh connects to the entry's address and runs the same
\* command. It reads every option as the user has given it before the destination, in whatever
\* form, and takes the entry's value, all of them for one that adds up, exactly where the user
\* gives none.
UserOptionsWin ==
    LET mine == Reading(argv)
        built == Built(argv)
        full == Reading(built)
    IN  InOrder(mine) /\ Plain =>
          /\ Command(built) = Command(argv)
          /\ \A host \in Resolved(argv[mine.host].text) :
                /\ built[full.host].text = host.host
                /\ \A key \in Range(MainKeys) \cup DOMAIN host.options \cup {p[1] : p \in Range(mine.got)} :
                      Effective(full, key) =
                        IF Effective(mine, key) # <<>> THEN Effective(mine, key)
                        ELSE IF key \in Cumulative \/ Values(host, key) = <<>> THEN Values(host, key)
                        ELSE <<Values(host, key)[1]>>

\* README.md:88 has the user's port behind the destination: "cossh -l ssh user@host -p 2222". The
\* inspection ends at the destination, so the entry's port is put before it, and ssh takes that.
\* So it is with every option that has a value; a switch counts wherever it stands.
LateOptionsWin ==
    LET mine == Reading(argv)
        full == Reading(Built(argv))
    IN  mine.host # 0 /\ Plain =>
          \A p \in Range(mine.got) :
              \/ p[1] \in Cumulative \cup Range(SwitchKeys)
              \/ Effective(full, p[1]) = Effective(mine, p[1])
=============================================================================
