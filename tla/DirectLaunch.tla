---------------------------- MODULE DirectLaunch ----------------------------
(***************************************************************************)
(* How `cossh ssh` and `cossh rdp` come by a password before they start    *)
(* their program (process/ssh_builder.rs, rdp_builder.rs, vault.rs): the   *)
(* calls to the unlock agent one after the other, the prompts, and what    *)
(* becomes of the launch when one of them fails. Between two calls the     *)
(* session may end, the vault may be unlocked elsewhere, and its entries   *)
(* may come and go.                                                        *)
(***************************************************************************)
EXTENDS Integers

CONSTANT MaxChanges   \* bound: what others do to the vault meanwhile

ASSUME ChangesAssumption == MaxChanges \in Nat

VARIABLES
    launch,    \* what is launched, how, and where cossh runs
    due,        \* the call or prompt that is next
    prompts,   \* the master-password prompts so far
    vault,     \* the agent: "none" while no vault is initialized, "locked", "unlocked"
    stored,    \* the vault has the entry
    leased,    \* the agent still knows the token it has granted
    changes,
    asked,     \* what the user was asked for
    outcome    \* how the launch came out

launchVars == <<launch, due, prompts, vault, stored, leased, changes, asked, outcome>>

-----------------------------------------------------------------------------
LaunchKind ==
    [rdp : BOOLEAN,
     autologin : BOOLEAN,   \* auth_settings.direct_password_autologin, and not switched off
     explicit : BOOLEAN,    \* --pass-entry
     entry : BOOLEAN,       \* a pass entry is named, here or in the inventory
     user : BOOLEAN,        \* RDP: a user is named
     stdin : BOOLEAN,       \* stdin is a terminal
     stderr : BOOLEAN]      \* stderr is a terminal

\* The program is started with the vault's password, or asks for one itself; a notice says that
\* it will. Or it isn't started.
Started(password, notice) == [end |-> "started", password |-> password, notice |-> notice]
NotStarted == [end |-> "error", password |-> FALSE, notice |-> FALSE]
Pending == [end |-> "none", password |-> FALSE, notice |-> FALSE]

Ends(result) == due' = "done" /\ outcome' = result
Goes(next) == due' = next /\ UNCHANGED outcome

\* terminal_prompting_available
Prompting == launch.stdin /\ launch.stderr

\* Faulty variant: RDP falls back to a prompt that nobody can answer.
Failure_Anywhere(error) ==
    IF launch.rdp
    THEN (IF launch.explicit THEN NotStarted ELSE Started(FALSE, TRUE))
    ELSE (IF error = "unlock failed" THEN Started(FALSE, TRUE) ELSE NotStarted)

\* The errors of build_ssh_command, and direct_rdp_vault_autologin_failure.
Failure(error) ==
    IF launch.rdp
    THEN (IF launch.explicit \/ ~Prompting THEN NotStarted ELSE Started(FALSE, TRUE))
    ELSE (IF error = "unlock failed" THEN Started(FALSE, TRUE) ELSE NotStarted)

Fails(error) == Ends(Failure(error))

\* Only the launch moves.
Ours == UNCHANGED <<launch, vault, stored, leased, changes>>
Silent == UNCHANGED asked

-----------------------------------------------------------------------------
(* build_rdp_command_with_prompts, and the start of build_ssh_command *)

Begin ==
    /\ due = "begin" /\ Ours /\ Silent /\ UNCHANGED prompts
    /\ CASE launch.rdp /\ ~launch.user /\ ~Prompting -> Ends(NotStarted)
         [] launch.rdp /\ ~launch.user /\ Prompting -> Goes("user")
         [] OTHER -> Goes("autologin")

\* prompt_rdp_username: an empty answer is an error.
AnswerUser(empty) ==
    /\ due = "user" /\ Ours /\ UNCHANGED prompts
    /\ asked' = asked \cup {"user"}
    /\ IF empty THEN Ends(NotStarted) ELSE Goes("autologin")

Autologin ==
    /\ due = "autologin" /\ Ours /\ Silent /\ UNCHANGED prompts
    /\ IF launch.autologin /\ launch.entry THEN Goes("query") ELSE Ends(Started(FALSE, FALSE))

-----------------------------------------------------------------------------
(* query_vault_entry_status_with_policy *)

Query ==
    /\ due = "query" /\ Ours /\ Silent
    /\ CASE vault = "none" -> Fails("not initialized") /\ UNCHANGED prompts
         [] vault # "none" /\ ~stored -> Fails("not found") /\ UNCHANGED prompts
         [] vault = "unlocked" /\ stored -> Goes("token") /\ UNCHANGED prompts
         [] vault = "locked" /\ stored /\ ~launch.stdin -> Fails("no terminal") /\ UNCHANGED prompts
         [] OTHER -> Goes("prompt") /\ prompts' = 1

\* The agent can't be asked, whatever for.
CallFails ==
    /\ due \in {"query", "again", "token", "secret"} /\ Ours /\ Silent /\ UNCHANGED prompts
    /\ Fails(IF due = "again" THEN "unlock failed" ELSE "query")

\* unlock_agent_interactively: three attempts at the password.
AnswerPassword ==
    /\ due = "prompt" /\ UNCHANGED <<launch, stored, leased, changes>>
    /\ asked' = asked \cup {"master password"}
    /\ UNCHANGED prompts
    /\ IF vault = "none" THEN Fails("unlock failed") /\ UNCHANGED vault
       ELSE Goes("again") /\ vault' = "unlocked"

WrongMaster ==
    /\ due = "prompt" /\ vault # "none" /\ Ours
    /\ asked' = asked \cup {"master password"}
    /\ IF prompts = 3 THEN Fails("unlock failed") /\ UNCHANGED prompts
       ELSE Goes("prompt") /\ prompts' = prompts + 1

\* An empty password, or no answer from the user or from the agent.
GivesUp ==
    /\ due = "prompt" /\ Ours /\ UNCHANGED prompts
    /\ asked' = asked \cup {"master password"}
    /\ Fails("unlock failed")

\* The entry is looked up again; SSH doesn't mind when it is gone.
Again ==
    /\ due = "again" /\ Ours /\ Silent /\ UNCHANGED prompts
    /\ IF vault # "unlocked" THEN Fails("unlock failed")
       ELSE IF launch.rdp /\ ~stored THEN Fails("not found") ELSE Goes("token")

\* authorize_askpass: an askpass helper gets the token, or cossh itself does. The agent grants
\* one while it is unlocked and the entry is there.
AskToken ==
    /\ due = "token" /\ Silent /\ UNCHANGED <<launch, vault, stored, changes, prompts>>
    /\ leased' = (vault = "unlocked" /\ stored)
    /\ IF ~leased' THEN Fails("token")
       ELSE IF launch.rdp THEN Goes("secret") ELSE Ends(Started(TRUE, FALSE))

\* get_secret, and validate_rdp_password_for_startup
AskSecret(fits) ==
    /\ due = "secret" /\ Ours /\ Silent /\ UNCHANGED prompts
    /\ IF leased /\ stored /\ fits THEN Ends(Started(TRUE, FALSE)) ELSE Fails("secret")

-----------------------------------------------------------------------------
(* Meanwhile *)

Change ==
    /\ due # "done" /\ changes < MaxChanges /\ changes' = changes + 1
    /\ UNCHANGED <<launch, due, prompts, asked, outcome>>

\* The session expires, or another client locks or unlocks the vault, or makes one.
SessionChanges ==
    /\ Change /\ leased' = FALSE /\ UNCHANGED stored
    /\ vault' \in IF vault = "unlocked" THEN {"locked"} ELSE {"locked", "unlocked"}

EntryChanges == Change /\ stored' = ~stored /\ UNCHANGED <<vault, leased>>

-----------------------------------------------------------------------------
LaunchInit ==
    /\ launch \in {l \in LaunchKind : (l.explicit => l.entry) /\ (~l.rdp => l.user)}
    /\ due = "begin" /\ prompts = 0
    /\ vault \in {"none", "locked", "unlocked"}
    /\ stored \in {s \in BOOLEAN : s => vault # "none"}
    /\ leased = FALSE /\ changes = 0 /\ asked = {} /\ outcome = Pending

LaunchNext ==
    \/ Begin \/ Autologin \/ Query \/ CallFails \/ Again \/ AskToken
    \/ \E empty \in BOOLEAN : AnswerUser(empty)
    \/ AnswerPassword \/ WrongMaster \/ GivesUp
    \/ \E fits \in BOOLEAN : AskSecret(fits)
    \/ SessionChanges \/ EntryChanges

LaunchSpec == LaunchInit /\ [][LaunchNext]_launchVars

-----------------------------------------------------------------------------
(* Properties *)

\* A launch that was to use the vault's password starts with it, or says that the program will
\* ask for one and has a terminal for that, or isn't started; with --pass-entry RDP never falls
\* back. The master password is asked for at a terminal only, and three times at most.
NoSilentFallback ==
    /\ (outcome.end = "started" /\ ~outcome.password /\ launch.autologin /\ launch.entry) =>
          outcome.notice /\ launch.stdin /\ ~(launch.rdp /\ launch.explicit)
    /\ ("master password" \in asked => launch.stdin) /\ prompts <= 3
    /\ outcome.password => launch.autologin /\ launch.entry
=============================================================================
