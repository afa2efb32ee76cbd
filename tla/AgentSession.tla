---------------------------- MODULE AgentSession ----------------------------
(***************************************************************************)
(* The password-vault unlock agent and the processes that talk to it:      *)
(* auth/agent/server.rs (the server loop and handle_request),              *)
(* auth/agent/runtime.rs (the in-memory unlock session and its askpass     *)
(* leases), auth/agent/client.rs (one call, its auto-start and its single  *)
(* resend) and the part of the vault's files an agent reads: which entries *)
(* exist and which generation of the master password wraps the data key.   *)
(*                                                                         *)
(* The server is one thread.  It accepts without blocking, but it reads a  *)
(* request with a blocking read, so time passes, clients die and the vault *)
(* changes on disk between any two of its steps.  Key derivation is slow,  *)
(* so an unlock is two steps: the metadata is read, then the key is        *)
(* installed.  Every other handler runs at one instant with the expiry     *)
(* check before it.                                                        *)
(*                                                                         *)
(* Time is kept as the elapsed() values the code compares: ages that stop  *)
(* growing at MaxAge, past every timeout, and leases that count down to 0. *)
(***************************************************************************)
EXTENDS Naturals, Sequences, FiniteSets

CONSTANTS
    Clients,       \* processes that call the agent
    NoClient,      \* no accepted connection
    Trusted,       \* those whose peer credentials and executable are cossh's
    Names,         \* vault entry names
    Policies,      \* [idle, session] timeouts a client may ask for
    AskpassTTL,    \* lifetime of an askpass lease
    MaxAge,        \* bound: ages saturate here
    MaxTokens,     \* bound: askpass tokens issued in a behaviour
    MaxSessions,   \* bound: unlocks in a behaviour
    MaxGen         \* bound: master passwords ever set

ASSUME ClientsAssumption == Trusted \subseteq Clients /\ NoClient \notin Clients
ASSUME BoundsAssumption ==
    /\ AskpassTTL \in Nat /\ MaxAge \in Nat
    /\ MaxTokens \in Nat /\ MaxSessions \in Nat /\ MaxGen \in Nat
ASSUME PoliciesAssumption ==
    \A p \in Policies : p.idle \in 0..MaxAge /\ p.session \in 0..MaxAge

NoPolicy == [idle |-> 0, session |-> 0]
Tokens == 1..MaxTokens
Gens == 1..MaxGen

Requests ==
    [kind : {"status", "entry_status", "lock"}]
        \cup [kind : {"unlock"}, gen : Gens, policy : Policies]
        \cup [kind : {"authorize"}, name : Names]
        \cup [kind : {"get_secret"}, token : Tokens]

\* AgentClient::request is called with auto_start for all but two payloads.
AutoStart(req) == req.kind \notin {"status", "lock"}

VARIABLES
    pc,            \* "top", "reading" or "deriving"; "down" once run_server has returned
                   \* after a lock, "dead" when the process ended otherwise
    cur,           \* the accepted connection
    backlog,       \* connections not accepted yet
    readGen,       \* the metadata generation an unlock request read
    client,        \* the call each client is making
    session,       \* 0 when locked, else which unlock this is: data_key
    sessGen,       \* the password generation that opened the session
    policy,
    sinceUnlock,   \* unlocked_at.elapsed()
    sinceActivity, \* last_activity_at.elapsed()
    leases,        \* askpass_leases, with the time each has left
    event,         \* kind in the vault-events file
    entries,       \* names with an entry file
    pwGen,         \* generation of vault.json; 0 when not initialised
    sessions,      \* history: unlocks so far
    issued,        \* history: what token t was issued for, at index t
    used,          \* history: tokens a secret was returned for
    confirmed      \* history: generations whose rotation command returned

server == <<pc, cur, backlog, readGen>>
runtime == <<session, sessGen, policy, sinceUnlock, sinceActivity, leases>>
store == <<entries, pwGen>>
history == <<sessions, issued, used>>
vars == <<server, client, runtime, event, store, history, confirmed>>

Lease == [token : Tokens, name : Names, left : 0..AskpassTTL]
Unlocked == session # 0
Running == pc \notin {"down", "dead"}
Live(c) == client[c].st \in {"queued", "sent"}
Waiting == {backlog[i] : i \in 1..Len(backlog)}

-----------------------------------------------------------------------------
(* AgentRuntime *)

\* Faulty variant: the absolute timeout is forgotten.
Expired_IdleOnly == Unlocked /\ sinceActivity >= policy.idle

\* expire_if_needed
Expired ==
    /\ Unlocked
    /\ \/ sinceActivity >= policy.idle
       \/ sinceUnlock >= policy.session

\* lock
Lock ==
    /\ session' = 0 /\ sessGen' = 0 /\ policy' = NoPolicy
    /\ sinceUnlock' = 0 /\ sinceActivity' = 0
    /\ leases' = {}

\* Faulty variant: installs the new key without locking first.
Open_KeepsLeases(gen, p) ==
    /\ sessions' = sessions + 1
    /\ session' = sessions'
    /\ sessGen' = gen
    /\ policy' = p
    /\ sinceUnlock' = 0 /\ sinceActivity' = 0
    /\ leases' = leases

\* unlock: locks first, so no lease of the session before survives
Open(gen, p) ==
    /\ sessions' = sessions + 1
    /\ session' = sessions'
    /\ sessGen' = gen
    /\ policy' = p
    /\ sinceUnlock' = 0 /\ sinceActivity' = 0
    /\ leases' = {}

\* prune_expired_askpass_leases
Pruned == {l \in leases : l.left > 0}

\* Faulty variant: activity restarts the absolute timeout.
Touch_Restarts ==
    /\ sinceActivity' = 0 /\ sinceUnlock' = 0
    /\ UNCHANGED <<session, sessGen, policy>>

\* touch, in a handler that keeps the session
Touch ==
    /\ sinceActivity' = 0
    /\ UNCHANGED <<session, sessGen, policy, sinceUnlock>>

-----------------------------------------------------------------------------
(* AgentClient *)

Idle == [st |-> "idle", req |-> [kind |-> "status"], retried |-> FALSE, rot |-> 0]

\* A failed send_request: the first failure of an auto-starting call spawns a
\* server, any other failure ends the call.
Failed(k) ==
    IF k.st \in {"queued", "sent"} /\ AutoStart(k.req) /\ ~k.retried
      THEN [k EXCEPT !.st = "starting"]
      ELSE Idle

\* The calls of the clients in done were answered, those in failed broke.
\* The lock of a rotation command ends the command either way.
Finish(done, failed) ==
    /\ client' = [c \in Clients |->
                    IF c \in done THEN Idle
                    ELSE IF c \in failed THEN Failed(client[c])
                    ELSE client[c]]
    /\ confirmed' = confirmed \cup ({client[c].rot : c \in done \cup failed} \ {0})

\* A call begins: connect succeeds while a server listens.
Call(c, req, rot) ==
    LET k == [st |-> "queued", req |-> req, retried |-> FALSE, rot |-> rot]
    IN IF Running
         THEN /\ client' = [client EXCEPT ![c] = k]
              /\ backlog' = Append(backlog, c)
              /\ UNCHANGED confirmed
         ELSE /\ client' = [client EXCEPT ![c] = Failed(k)]
              /\ confirmed' = confirmed \cup ({rot} \ {0})
              /\ UNCHANGED backlog

Begin(c, req) ==
    /\ client[c].st = "idle"
    /\ Call(c, req, 0)
    /\ UNCHANGED <<pc, cur, readGen, runtime, event, store, history>>

AskStatus(c) ==
    \E k \in {"status", "entry_status", "lock"} : Begin(c, [kind |-> k])

\* The master password of any generation set so far: an old one, too.
AskUnlock(c) ==
    \E g \in 1..pwGen, p \in Policies :
        Begin(c, [kind |-> "unlock", gen |-> g, policy |-> p])

AskAuthorize(c) == \E n \in Names : Begin(c, [kind |-> "authorize", name |-> n])

\* Any token handed out so far, used, expired or revoked ones included.
AskSecret(c) ==
    \E t \in 1..Len(issued) : Begin(c, [kind |-> "get_secret", token |-> t])

\* Once connected a client writes its request; it may also stall or die first.
Write(c) ==
    /\ client[c].st = "queued"
    /\ client' = [client EXCEPT ![c].st = "sent"]
    /\ UNCHANGED <<server, runtime, event, store, history, confirmed>>

\* A client dies.  Its connection stays with the server: empty ("gone"), or
\* with a whole request in it ("orphan") that will still be handled.
Die(c) ==
    /\ client[c].st # "idle" /\ client[c].st \notin {"gone", "orphan"}
    /\ client' = [client EXCEPT ![c] =
                    CASE client[c].st = "queued" -> [Idle EXCEPT !.st = "gone"]
                      [] client[c].st = "sent" ->
                            [client[c] EXCEPT !.st = "orphan", !.rot = 0]
                      [] OTHER -> Idle]
    /\ UNCHANGED <<server, runtime, event, store, history, confirmed>>

\* spawn_server: a new process binds the endpoint, or finds another agent
\* there and leaves (see AgentEndpoint) ...
Spawn(c) ==
    /\ client[c].st = "starting"
    /\ pc' = IF Running THEN pc ELSE "top"
    /\ client' = [client EXCEPT ![c].st = "probing"]
    /\ UNCHANGED <<cur, backlog, readGen, runtime, event, store, history, confirmed>>

\* ... a status probe succeeds and the request is sent again, once ...
Resend(c) ==
    /\ client[c].st = "probing"
    /\ Running
    /\ client' = [client EXCEPT ![c].st = "queued", ![c].retried = TRUE]
    /\ backlog' = Append(backlog, c)
    /\ UNCHANGED <<pc, cur, readGen, runtime, event, store, history, confirmed>>

\* ... or none does in AGENT_STARTUP_TIMEOUT.
StartTimeout(c) ==
    /\ client[c].st = "probing"
    /\ client' = [client EXCEPT ![c] = Idle]
    /\ UNCHANGED <<server, runtime, event, store, history, confirmed>>

-----------------------------------------------------------------------------
(* The vault commands, which change files the agent reads *)

Initialize ==
    /\ pwGen = 0 /\ MaxGen > 0
    /\ pwGen' = 1
    /\ UNCHANGED <<server, client, runtime, event, entries, history, confirmed>>

\* `cossh vault add` and `cossh vault remove`, by processes that unwrap the key
\* themselves.
AddEntry(n) ==
    /\ pwGen > 0 /\ n \notin entries
    /\ entries' = entries \cup {n}
    /\ UNCHANGED <<server, client, runtime, event, pwGen, history, confirmed>>

RemoveEntry(n) ==
    /\ n \in entries
    /\ entries' = entries \ {n}
    /\ UNCHANGED <<server, client, runtime, event, pwGen, history, confirmed>>

\* `cossh vault set-master-password`: the metadata is replaced, then the agent
\* is told to lock.
Rotate(c) ==
    /\ client[c].st = "idle"
    /\ pwGen \in 1..(MaxGen - 1)
    /\ pwGen' = pwGen + 1
    /\ client' = [client EXCEPT ![c] = [Idle EXCEPT !.st = "rotated", !.rot = pwGen']]
    /\ UNCHANGED <<server, runtime, event, entries, history, confirmed>>

\* Faulty variant: the command returns without telling the agent.
LockAfterRotate_Skipped(c) ==
    /\ client[c].st = "rotated"
    /\ Finish({c}, {})
    /\ UNCHANGED <<server, runtime, event, store, history>>

LockAfterRotate(c) ==
    /\ client[c].st = "rotated"
    /\ Call(c, [kind |-> "lock"], client[c].rot)
    /\ UNCHANGED <<pc, cur, readGen, runtime, event, store, history>>

-----------------------------------------------------------------------------
(* run_server *)

\* write_response, then the next turn of the loop
Respond ==
    /\ pc' = "top" /\ cur' = NoClient
    /\ Finish({cur}, {})
    /\ readGen' = 0
    /\ UNCHANGED backlog

\* The process ends: the listener closes and every connection breaks.
Exit(end, answered) ==
    /\ pc' = end /\ cur' = NoClient /\ backlog' = <<>> /\ readGen' = 0
    /\ Finish(answered, (Waiting \cup {cur}) \ (answered \cup {NoClient}))

\* The check at the top of the loop
\* (Faulty variant: nobody is told.)
ExpireAtTop_Silent ==
    /\ pc = "top" /\ Expired
    /\ Lock
    /\ Exit("down", {})
    /\ UNCHANGED <<event, store, history>>

ExpireAtTop ==
    /\ pc = "top" /\ Expired
    /\ Lock
    /\ event' = "locked"
    /\ Exit("down", {})
    /\ UNCHANGED <<store, history>>

Accept ==
    /\ pc = "top" /\ ~Expired
    /\ backlog # <<>>
    /\ cur' = Head(backlog) /\ backlog' = Tail(backlog)
    /\ pc' = "reading"
    /\ UNCHANGED <<readGen, client, runtime, event, store, history, confirmed>>

\* Faulty variant: the failed read is tried again on the same connection.
ReadFails_Retries == pc = "reading" /\ client[cur].st = "gone" /\ UNCHANGED vars

\* read_request fails: the peer closed without a whole request.
ReadFails ==
    /\ pc = "reading" /\ client[cur].st = "gone"
    /\ Respond
    /\ UNCHANGED <<runtime, event, store, history>>

\* read_request returns, and the second check of the loop comes out ...
HasRequest == pc = "reading" /\ client[cur].st \in {"sent", "orphan"}

\* ... expired,
ExpireAtRequest ==
    /\ HasRequest /\ Expired
    /\ Lock
    /\ event' = "locked"
    /\ Exit("down", {cur})
    /\ UNCHANGED <<store, history>>

\* Faulty variant: the session is checked at the top of the loop only.
Handling_Unchecked(kind) == HasRequest /\ client[cur].req.kind = kind

\* ... or not.
Handling(kind) == HasRequest /\ ~Expired /\ client[cur].req.kind = kind

\* agent_peer_trust: the executable of a dead peer cannot be looked up.
PeerTrusted == cur \in Trusted /\ client[cur].st = "sent"

-----------------------------------------------------------------------------
(* handle_request *)

HandleStatus ==
    /\ Handling("status") \/ Handling("entry_status")
    /\ Respond
    /\ UNCHANGED <<runtime, event, store, history>>

HandleLock ==
    /\ Handling("lock")
    /\ event' = IF Unlocked THEN "locked" ELSE event
    /\ Lock
    /\ Exit("down", {cur})
    /\ UNCHANGED <<store, history>>

\* unlock_with_password_and_paths reads the metadata, then derives the key.
BeginUnlock ==
    /\ Handling("unlock")
    /\ pc' = "deriving"
    /\ readGen' = pwGen
    /\ UNCHANGED <<cur, backlog, client, runtime, event, store, history, confirmed>>

FinishUnlock ==
    /\ pc = "deriving"
    /\ client[cur].req.gen = readGen
    /\ sessions < MaxSessions
    /\ Open(readGen, client[cur].req.policy)
    /\ event' = "unlocked"
    /\ Respond
    /\ UNCHANGED <<store, issued, used>>

\* A wrong password (and, at the bound, a failing key derivation)
RejectUnlock ==
    /\ pc = "deriving"
    /\ client[cur].req.gen # readGen \/ sessions = MaxSessions
    /\ Respond
    /\ UNCHANGED <<runtime, event, store, history>>

MayAuthorize == PeerTrusted /\ Unlocked /\ client[cur].req.name \in entries

Authorize ==
    /\ Handling("authorize") /\ MayAuthorize
    /\ Len(issued) < MaxTokens
    /\ issued' = Append(issued, [name |-> client[cur].req.name, session |-> session])
    /\ leases' = Pruned \cup
         {[token |-> Len(issued'), name |-> client[cur].req.name, left |-> AskpassTTL]}
    /\ Touch
    /\ Respond
    /\ UNCHANGED <<event, store, sessions, used>>

\* Past the bound: a token that nobody redeems, so that its lease is left out.
AuthorizeUntracked ==
    /\ Handling("authorize") /\ MayAuthorize
    /\ Len(issued) = MaxTokens
    /\ leases' = Pruned
    /\ Touch
    /\ Respond
    /\ UNCHANGED <<event, store, history>>

\* No random bytes: the leases were pruned before they were asked for.
AuthorizeFails ==
    /\ Handling("authorize") /\ MayAuthorize
    /\ leases' = Pruned
    /\ Respond
    /\ UNCHANGED <<session, sessGen, policy, sinceUnlock, sinceActivity, event, store, history>>

RefuseAuthorize ==
    /\ Handling("authorize") /\ ~MayAuthorize
    /\ Respond
    /\ UNCHANGED <<runtime, event, store, history>>

Asked(l) == l.token = client[cur].req.token

\* Faulty variant: the token is looked up and not removed.
ServeSecret_KeepsLease ==
    /\ Handling("get_secret") /\ PeerTrusted /\ Unlocked
    /\ \E l \in Pruned :
         /\ Asked(l) /\ l.name \in entries
         /\ used' = used \cup {l.token}
    /\ leases' = Pruned
    /\ Touch
    /\ Respond
    /\ UNCHANGED <<event, store, sessions, issued>>

\* The lease is consumed and its entry is read from disk ...
ServeSecret ==
    /\ Handling("get_secret") /\ PeerTrusted /\ Unlocked
    /\ \E l \in Pruned :
         /\ Asked(l) /\ l.name \in entries
         /\ leases' = Pruned \ {l}
         /\ used' = used \cup {l.token}
    /\ Touch
    /\ Respond
    /\ UNCHANGED <<event, store, sessions, issued>>

\* ... which fails when the entry is gone, or the token was not found.
SecretFails ==
    /\ Handling("get_secret") /\ PeerTrusted /\ Unlocked
    /\ \A l \in Pruned : Asked(l) => l.name \notin entries
    /\ leases' = {l \in Pruned : ~Asked(l)}
    /\ Respond
    /\ UNCHANGED <<session, sessGen, policy, sinceUnlock, sinceActivity, event, store, history>>

RefuseSecret ==
    /\ Handling("get_secret") /\ ~(PeerTrusted /\ Unlocked)
    /\ Respond
    /\ UNCHANGED <<runtime, event, store, history>>

-----------------------------------------------------------------------------
\* The server process ends without a word: accept fails, or it is killed.
ServerDies ==
    /\ Running
    /\ Lock
    /\ Exit("dead", {})
    /\ UNCHANGED <<event, store, history>>

Older(age) == IF age < MaxAge THEN age + 1 ELSE MaxAge

Tick ==
    /\ Unlocked
    /\ sinceUnlock' = Older(sinceUnlock)
    /\ sinceActivity' = Older(sinceActivity)
    /\ leases' = {[l EXCEPT !.left = IF @ > 0 THEN @ - 1 ELSE 0] : l \in leases}
    /\ UNCHANGED <<server, client, session, sessGen, policy, event, store, history, confirmed>>

Init ==
    /\ pc = "down" /\ cur = NoClient /\ backlog = <<>> /\ readGen = 0
    /\ client = [c \in Clients |-> Idle]
    /\ session = 0 /\ sessGen = 0 /\ policy = NoPolicy
    /\ sinceUnlock = 0 /\ sinceActivity = 0 /\ leases = {}
    /\ event = "none"
    /\ entries = {} /\ pwGen = 0
    /\ sessions = 0 /\ issued = <<>> /\ used = {} /\ confirmed = {}

Loop == ExpireAtTop \/ Accept \/ ReadFails \/ ExpireAtRequest

Handle ==
    \/ HandleStatus \/ HandleLock
    \/ BeginUnlock \/ FinishUnlock \/ RejectUnlock
    \/ Authorize \/ AuthorizeUntracked \/ AuthorizeFails \/ RefuseAuthorize
    \/ ServeSecret \/ SecretFails \/ RefuseSecret

Server == Loop \/ Handle

Start(c) == Spawn(c) \/ Resend(c) \/ StartTimeout(c)

Client(c) ==
    \/ AskStatus(c) \/ AskUnlock(c) \/ AskAuthorize(c) \/ AskSecret(c)
    \/ Rotate(c) \/ LockAfterRotate(c)
    \/ Write(c) \/ Die(c) \/ Start(c)

Vault == Initialize \/ \E n \in Names : AddEntry(n) \/ RemoveEntry(n)

Next == Server \/ Vault \/ Tick \/ ServerDies \/ \E c \in Clients : Client(c)

Spec == Init /\ [][Next]_vars

\* The server thread and the clock go on.
ServerFairness == WF_vars(Server) /\ WF_vars(Tick)

\* A connected client writes its request or dies, and a client that started a
\* server goes on to reach it or to give up.
ClientFairness ==
    \A c \in Clients :
        /\ WF_vars(Write(c))
        /\ WF_vars(Start(c))
        /\ WF_vars(LockAfterRotate(c))

FairSpec == Spec /\ ServerFairness /\ ClientFairness

\* Clients may stall for ever after they connect.
StallSpec == Spec /\ ServerFairness

-----------------------------------------------------------------------------
(* Properties *)

CallType ==
    [st : {"idle", "queued", "sent", "gone", "orphan", "starting", "probing", "rotated"},
     req : Requests, retried : BOOLEAN, rot : 0..MaxGen]

\* Types, and that a locked runtime holds nothing of the session it had.
TypeOK ==
    /\ pc \in {"down", "dead", "top", "reading", "deriving"}
    /\ cur \in Clients \cup {NoClient}
    /\ backlog \in Seq(Clients)
    /\ readGen \in 0..MaxGen
    /\ client \in [Clients -> CallType]
    /\ session \in 0..MaxSessions /\ sessGen \in 0..MaxGen
    /\ policy \in Policies \cup {NoPolicy}
    /\ sinceUnlock \in 0..MaxAge /\ sinceActivity \in 0..MaxAge
    /\ leases \subseteq Lease
    /\ ~Unlocked => leases = {} /\ sessGen = 0
    /\ event \in {"none", "locked", "unlocked"}
    /\ entries \subseteq Names /\ pwGen \in 0..MaxGen
    /\ sessions \in 0..MaxSessions
    /\ issued \in Seq([name : Names, session : 1..MaxSessions])
    /\ Len(issued) \leq MaxTokens
    /\ used \subseteq Tokens
    /\ confirmed \subseteq Gens

\* Every outstanding lease was issued in the session that is open now, for the
\* entry it names, and has never been redeemed; a token has one lease at most.
\* runtime.rs keeps no session in a lease, so this rests on lock() and unlock()
\* clearing them on every path and on take_askpass_entry removing what it
\* returns.
LeasesBelongToSession ==
    \A l \in leases :
        /\ l.token \in 1..Len(issued) \ used
        /\ issued[l.token] = [name |-> l.name, session |-> session]
        /\ \A m \in leases : m.token = l.token => m = l

\* A secret leaves the agent only while the session that issued its token is
\* open and inside both of its timeouts, and only once per token, however long
\* the request before it kept the server waiting.
SecretsInsideSession ==
    [][\A t \in Tokens : t \in used' \ used =>
          /\ Unlocked
          /\ issued[t].session = session
          /\ issued[t].name \in entries
          /\ sinceUnlock < policy.session
          /\ sinceActivity < policy.idle
          /\ \E l \in leases : l.token = t /\ l.left > 0]_vars

\* Activity never moves the absolute deadline: while one session stays open its
\* age only grows and its policy does not change (runtime.rs touch, unlock).
AbsoluteDeadlineFixed ==
    [][session' = session /\ Unlocked =>
          sinceUnlock' >= sinceUnlock /\ policy' = policy]_vars

\* When `cossh vault set-master-password` has returned, no agent holds a session
\* opened with a password from before that rotation - an unlock that read the
\* old metadata and was still deriving its key included (cli.rs 286-289).
RotationEndsOldSessions ==
    \A g \in confirmed : Unlocked => sessGen >= g

\* The event file tells every change of the session, on each of the ways by which
\* run_server ends one or opens one: expiry at the top of the loop, expiry found
\* at a request, a lock, an unlock. Only a process that is killed, or whose
\* accept fails, ends its session without a word.
EventFollowsSession ==
    [][session' # session =>
          \/ event' = IF session' = 0 THEN "locked" ELSE "unlocked"
          \/ Running /\ pc' = "dead"]_vars

\* An unlock session ends, however active its clients are: the "Absolute unlock
\* lifetime cap" of UnlockPolicy.
SessionsEnd == \A s \in 1..MaxSessions : session = s ~> session # s

\* Every call returns to its caller: answered, refused, or broken.
CallsReturn ==
    \A c \in Clients : client[c].st # "idle" ~> client[c].st = "idle"

\* The agent implements VaultSession: a token lives while its lease does.
Promise == INSTANCE VaultSession WITH
    Sessions <- 1..MaxSessions,
    expired <- Expired,
    live <- {l.token : l \in {m \in leases : m.left > 0}}

\* No interleaving of clients, deaths, expiry and vault commands lets a token be
\* redeemed twice, after it lapsed, after its session ended or by a session that
\* is over, and no request revives a session whose time is up.
KeepsPromise == Promise!Spec
=============================================================================
