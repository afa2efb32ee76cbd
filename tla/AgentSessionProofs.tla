------------------------ MODULE AgentSessionProofs ------------------------
(***************************************************************************)
(* Proofs about AgentSession for every set of clients, names and policies  *)
(* and every value of the bounds.                                          *)
(***************************************************************************)
EXTENDS AgentSession, TLAPS

-----------------------------------------------------------------------------
(* Calls and requests *)

\* Every request a client can send is one of Requests.
LEMMA RequestTypes ==
    /\ \A k \in {"status", "entry_status", "lock"} : [kind |-> k] \in Requests
    /\ \A g \in Gens, p \in Policies :
          [kind |-> "unlock", gen |-> g, policy |-> p] \in Requests
    /\ \A n \in Names : [kind |-> "authorize", name |-> n] \in Requests
    /\ \A t \in Tokens : [kind |-> "get_secret", token |-> t] \in Requests
BY DEF Requests

\* What a request carries, by its kind.
LEMMA RequestFields ==
    ASSUME NEW r \in Requests
    PROVE  /\ r.kind = "unlock" => r.gen \in Gens /\ r.policy \in Policies
           /\ r.kind = "authorize" => r.name \in Names
           /\ r.kind = "get_secret" => r.token \in Tokens
BY DEF Requests

\* A call that ends or breaks leaves a well-formed client behind.
LEMMA IdleType == Idle \in CallType
BY RequestTypes, BoundsAssumption DEF Idle, CallType

LEMMA CallUpdates ==
    ASSUME NEW k \in CallType, NEW r \in 0..MaxGen
    PROVE  /\ [k EXCEPT !.st = "gone"] \in CallType
           /\ [k EXCEPT !.st = "orphan", !.rot = r] \in CallType
           /\ [k EXCEPT !.st = "rotated", !.rot = r] \in CallType
           /\ [k EXCEPT !.st = "queued", !.retried = TRUE] \in CallType
BY DEF CallType

LEMMA FailedType ==
    ASSUME NEW k \in CallType
    PROVE  Failed(k) \in CallType
BY IdleType DEF Failed, CallType

LEMMA FinishType ==
    ASSUME client \in [Clients -> CallType], confirmed \subseteq Gens,
           NEW D, NEW F, D \subseteq Clients, F \subseteq Clients, Finish(D, F)
    PROVE  client' \in [Clients -> CallType] /\ confirmed' \subseteq Gens
<1>1. client' \in [Clients -> CallType]
  <2>1. \A c \in Clients : Failed(client[c]) \in CallType
    BY FailedType
  <2> QED BY <2>1, IdleType DEF Finish
<1>2. confirmed' \subseteq Gens
  <2>1. \A c \in D \cup F : client[c].rot \in 0..MaxGen
    BY DEF CallType
  <2>2. ASSUME NEW g \in confirmed', g \notin confirmed
        PROVE  g \in Gens
    <3>1. PICK c \in D \cup F : g = client[c].rot /\ g # 0
      BY <2>2 DEF Finish
    <3> QED BY <2>1, <3>1, BoundsAssumption DEF Gens
  <2> QED BY <2>2
<1> QED BY <1>1, <1>2

LEMMA CallKeepsType ==
    ASSUME client \in [Clients -> CallType], confirmed \subseteq Gens,
           backlog \in Seq(Clients),
           NEW c \in Clients, NEW r \in Requests, NEW rot \in 0..MaxGen,
           Call(c, r, rot)
    PROVE  /\ client' \in [Clients -> CallType] /\ confirmed' \subseteq Gens
           /\ backlog' \in Seq(Clients)
<1> DEFINE k == [st |-> "queued", req |-> r, retried |-> FALSE, rot |-> rot]
<1>1. k \in CallType
  BY DEF CallType
<1>2. Failed(k) \in CallType
  BY <1>1, FailedType
<1> HIDE DEF k
<1>3. Call(c, r, rot) =>
        /\ client' = [client EXCEPT ![c] = IF Running THEN k ELSE Failed(k)]
        /\ confirmed' \in {confirmed, confirmed \cup ({rot} \ {0})}
        /\ backlog' \in {backlog, Append(backlog, c)}
  BY DEF Call, k
<1>4. client' \in [Clients -> CallType]
  BY <1>1, <1>2, <1>3
<1>5. {rot} \ {0} \subseteq Gens
  BY BoundsAssumption DEF Gens
<1>6. Append(backlog, c) \in Seq(Clients)
  OBVIOUS
<1> QED BY <1>3, <1>4, <1>5, <1>6

-----------------------------------------------------------------------------
(* Type correctness, in the parts that actions change together *)

USE DEF Running

WireType ==
    /\ pc \in {"down", "dead", "top", "reading", "deriving"}
    /\ cur \in Clients \cup {NoClient}
    /\ backlog \in Seq(Clients)
    /\ readGen \in 0..MaxGen
    /\ client \in [Clients -> CallType]
    /\ confirmed \subseteq Gens

RuntimeType ==
    /\ session \in 0..MaxSessions /\ sessGen \in 0..MaxGen
    /\ policy \in Policies \cup {NoPolicy}
    /\ sinceUnlock \in 0..MaxAge /\ sinceActivity \in 0..MaxAge
    /\ leases \subseteq Lease
    /\ ~Unlocked => leases = {} /\ sessGen = 0

FileType ==
    /\ event \in {"none", "locked", "unlocked"}
    /\ entries \subseteq Names /\ pwGen \in 0..MaxGen

HistoryType ==
    /\ sessions \in 0..MaxSessions
    /\ issued \in Seq([name : Names, session : 1..MaxSessions])
    /\ Len(issued) \leq MaxTokens
    /\ used \subseteq Tokens

LEMMA TypeParts ==
    /\ TypeOK <=> WireType /\ RuntimeType /\ FileType /\ HistoryType
    /\ TypeOK' <=> WireType' /\ RuntimeType' /\ FileType' /\ HistoryType'
BY DEF TypeOK, WireType, RuntimeType, FileType, HistoryType

\* The server is serving a client whenever it is not at the top of its loop,
\* deriving a key only for an unlock request, and a process that is not there
\* holds no key.
Serving ==
    /\ pc \in {"reading", "deriving"} => cur \in Clients
    /\ pc = "deriving" =>
         client[cur].st \in {"sent", "orphan"} /\ client[cur].req.kind = "unlock"
    /\ ~Running => ~Unlocked

LEMMA LockType == Lock => RuntimeType' /\ ~Unlocked'
BY BoundsAssumption DEF Lock, RuntimeType, Unlocked, Lease

LEMMA RespondType ==
    ASSUME WireType, cur \in Clients, Respond
    PROVE  WireType' /\ pc' = "top"
<1>1. client' \in [Clients -> CallType] /\ confirmed' \subseteq Gens
  BY FinishType DEF Respond, WireType
<1> QED BY <1>1, BoundsAssumption DEF Respond, WireType

LEMMA ExitType ==
    ASSUME WireType, NEW end \in {"down", "dead"}, NEW S, S \subseteq Clients, Exit(end, S)
    PROVE  WireType' /\ ~Running'
<1>1. Waiting \subseteq Clients
  BY DEF Waiting, WireType
<1>2. (Waiting \cup {cur}) \ (S \cup {NoClient}) \subseteq Clients
  BY <1>1 DEF WireType
<1>3. client' \in [Clients -> CallType] /\ confirmed' \subseteq Gens
  BY <1>2, FinishType DEF Exit, WireType
<1> QED BY <1>3, BoundsAssumption DEF Exit, WireType

-----------------------------------------------------------------------------
(* Every step keeps TypeOK and Serving *)

\* A client's own step touches the wire alone, and leaves the client being
\* served where it is.
WireStep ==
    /\ WireType' /\ Serving'
    /\ UNCHANGED <<runtime, event, store, history>>

LEMMA BeginStep ==
    ASSUME TypeOK, Serving, NEW c \in Clients, NEW r \in Requests, Begin(c, r)
    PROVE  WireStep
<1> USE TypeParts
<1>1. 0 \in 0..MaxGen
  BY BoundsAssumption
<1>2. /\ client' \in [Clients -> CallType] /\ confirmed' \subseteq Gens
      /\ backlog' \in Seq(Clients)
  BY <1>1, CallKeepsType DEF Begin, WireType
<1>3. WireType'
  BY <1>2 DEF Begin, WireType
<1>4. pc = "deriving" => client'[cur] = client[cur]
  BY DEF Begin, Call, Serving, WireType
<1>5. Serving'
  BY <1>4 DEF Begin, Serving, Unlocked, runtime
<1> QED BY <1>3, <1>5 DEF WireStep, Begin, store, history

LEMMA AskStep ==
    ASSUME TypeOK, Serving, NEW c \in Clients,
           AskStatus(c) \/ AskUnlock(c) \/ AskAuthorize(c) \/ AskSecret(c)
    PROVE  WireStep
<1>1. CASE AskStatus(c)
  BY <1>1, BeginStep, RequestTypes DEF AskStatus
<1>2. CASE AskUnlock(c)
  <2>1. \A g \in 1..pwGen : g \in Gens
    BY BoundsAssumption DEF TypeOK, Gens
  <2> QED BY <1>2, <2>1, BeginStep, RequestTypes DEF AskUnlock
<1>3. CASE AskAuthorize(c)
  BY <1>3, BeginStep, RequestTypes DEF AskAuthorize
<1>4. CASE AskSecret(c)
  <2>1. \A t \in 1..Len(issued) : t \in Tokens
    BY BoundsAssumption DEF TypeOK, Tokens
  <2> QED BY <1>4, <2>1, BeginStep, RequestTypes DEF AskSecret
<1> QED BY <1>1, <1>2, <1>3, <1>4

LEMMA OwnStep ==
    ASSUME TypeOK, Serving, NEW c \in Clients,
           Write(c) \/ Die(c) \/ Start(c) \/ LockAfterRotate(c)
    PROVE  WireStep
<1> USE TypeParts
<1> USE DEF WireStep, runtime, store, history
<1>1. CASE Write(c)
  <2>1. WireType'
    BY <1>1 DEF Write, WireType, server, CallType
  <2>2. Serving'
    BY <1>1 DEF Write, WireType, server, Serving, Unlocked
  <2> QED BY <1>1, <2>1, <2>2 DEF Write
<1>2. CASE Die(c)
  <2>1. client[c] \in CallType
    BY DEF WireType
  <2>2. 0 \in 0..MaxGen
    BY BoundsAssumption
  <2>3. \E k \in CallType : client' = [client EXCEPT ![c] = k]
    BY <1>2, <2>1, <2>2, IdleType, CallUpdates DEF Die
  <2>4. WireType'
    BY <1>2, <2>3 DEF Die, WireType, server
  <2>5. Serving'
    BY <1>2 DEF Die, WireType, server, Serving, Unlocked
  <2> QED BY <1>2, <2>4, <2>5 DEF Die
<1>3. CASE Start(c)
  <2>1. WireType'
    <3>1. CASE Spawn(c)
      BY <3>1 DEF Spawn, WireType, CallType
    <3>2. CASE Resend(c)
      <4>1. [client[c] EXCEPT !.st = "queued", !.retried = TRUE] \in CallType
        BY CallUpdates, BoundsAssumption DEF WireType
      <4>2. \E k \in CallType : client' = [client EXCEPT ![c] = k]
        BY <3>2, <4>1 DEF Resend
      <4>3. client' \in [Clients -> CallType]
        BY <4>2 DEF WireType
      <4>4. backlog' \in Seq(Clients)
        BY <3>2 DEF Resend, WireType
      <4> QED BY <3>2, <4>3, <4>4 DEF Resend, WireType
    <3>3. CASE StartTimeout(c)
      BY <3>3, IdleType DEF StartTimeout, WireType, server
    <3> QED BY <1>3, <3>1, <3>2, <3>3 DEF Start
  <2>2. Serving'
    BY <1>3 DEF Start, Spawn, Resend, StartTimeout, WireType, server, Serving, Unlocked
  <2> QED BY <1>3, <2>1, <2>2 DEF Start, Spawn, Resend, StartTimeout
<1>4. CASE LockAfterRotate(c)
  <2>1. client[c].rot \in 0..MaxGen
    BY DEF WireType, CallType
  <2>2. /\ client' \in [Clients -> CallType] /\ confirmed' \subseteq Gens
        /\ backlog' \in Seq(Clients)
    BY <1>4, <2>1, CallKeepsType, RequestTypes DEF LockAfterRotate, WireType
  <2>3. WireType'
    BY <1>4, <2>2 DEF LockAfterRotate, WireType
  <2>4. pc = "deriving" => client'[cur] = client[cur]
    BY <1>4 DEF LockAfterRotate, Call, Serving, WireType
  <2>5. Serving'
    BY <1>4, <2>4 DEF LockAfterRotate, Serving, Unlocked
  <2> QED BY <1>4, <2>3, <2>5 DEF LockAfterRotate
<1> QED BY <1>1, <1>2, <1>3, <1>4

\* The vault commands change only the files, and Rotate its own call.
LEMMA VaultStep ==
    ASSUME TypeOK, Serving, Vault \/ \E c \in Clients : Rotate(c)
    PROVE  TypeOK' /\ Serving'
<1> USE TypeParts
<1>1. CASE Vault
  <2>1. UNCHANGED <<server, client, runtime, event, history, confirmed>> /\ FileType'
    BY <1>1, BoundsAssumption DEF Vault, Initialize, AddEntry, RemoveEntry, FileType
  <2> QED
    BY <2>1 DEF server, runtime, history, WireType, RuntimeType, HistoryType,
                Serving, Unlocked
<1>2. CASE \E c \in Clients : Rotate(c)
  <2>1. PICK c \in Clients : Rotate(c)
    BY <1>2
  <2>2. pwGen' \in 0..MaxGen
    BY <2>1, BoundsAssumption DEF Rotate, FileType
  <2>3. [Idle EXCEPT !.st = "rotated", !.rot = pwGen'] \in CallType
    BY <2>2, IdleType, CallUpdates
  <2>4. WireType'
    BY <2>1, <2>3 DEF Rotate, WireType, server
  <2>5. FileType' /\ RuntimeType' /\ HistoryType'
    BY <2>1, <2>2 DEF Rotate, FileType, RuntimeType, HistoryType, runtime, history,
                      Unlocked
  <2>6. Serving'
    BY <2>1 DEF Rotate, Serving, Unlocked, WireType, server, runtime
  <2> QED BY <2>4, <2>5, <2>6
<1> QED BY <1>1, <1>2

LEMMA TickStep ==
    ASSUME TypeOK, Serving, Tick
    PROVE  TypeOK' /\ Serving'
<1> USE TypeParts
<1>1. \A a \in 0..MaxAge : Older(a) \in 0..MaxAge
  BY BoundsAssumption DEF Older
<1>2. leases' \subseteq Lease
  BY BoundsAssumption DEF Tick, RuntimeType, Lease
<1>3. RuntimeType'
  BY <1>1, <1>2 DEF Tick, RuntimeType, Unlocked
<1> QED
  BY <1>3 DEF Tick, WireType, FileType, HistoryType, Serving, server, store, history,
              Unlocked

\* The steps that end the process
LEMMA ExitStep ==
    ASSUME TypeOK, Serving, ExpireAtTop \/ ExpireAtRequest \/ HandleLock \/ ServerDies
    PROVE  TypeOK' /\ Serving'
<1> USE TypeParts
<1>1. PICK end \in {"down", "dead"}, S \in SUBSET Clients : Exit(end, S)
  <2>1. HandleLock \/ ExpireAtRequest => {cur} \subseteq Clients
    BY DEF HandleLock, ExpireAtRequest, Handling, HasRequest, Serving
  <2> QED BY <2>1 DEF ExpireAtTop, ExpireAtRequest, HandleLock, ServerDies
<1>2. Lock /\ FileType' /\ HistoryType'
  BY DEF ExpireAtTop, ExpireAtRequest, HandleLock, ServerDies, FileType, HistoryType,
         store, history
<1>3. WireType' /\ ~Running'
  BY <1>1, ExitType
<1> QED BY <1>2, <1>3, LockType DEF Serving

LEMMA AcceptStep ==
    ASSUME TypeOK, Serving, Accept \/ BeginUnlock
    PROVE  TypeOK' /\ Serving'
<1> USE TypeParts
<1>1. CASE Accept
  <2>1. Head(backlog) \in Clients /\ Tail(backlog) \in Seq(Clients)
    BY <1>1 DEF Accept, WireType
  <2>2. WireType' /\ UNCHANGED <<runtime, event, store, history>>
    BY <1>1, <2>1 DEF Accept, WireType
  <2>3. Serving'
    BY <1>1, <2>1 DEF Accept, Serving
  <2> QED BY <2>2, <2>3 DEF RuntimeType, FileType, HistoryType, runtime, store, history,
                            Unlocked
<1>2. CASE BeginUnlock
  <2>1. WireType' /\ UNCHANGED <<runtime, event, store, history>>
    BY <1>2 DEF BeginUnlock, WireType, FileType, store
  <2>2. Serving'
    BY <1>2 DEF BeginUnlock, Handling, HasRequest, Serving
  <2> QED BY <2>1, <2>2 DEF RuntimeType, FileType, HistoryType, runtime, store, history,
                            Unlocked
<1> QED BY <1>1, <1>2

\* The steps that answer a request and change nothing else
Answer == ReadFails \/ HandleStatus \/ RejectUnlock \/ RefuseAuthorize \/ RefuseSecret

\* The steps that answer it and change the session or its leases
Serve ==
    \/ FinishUnlock \/ Authorize \/ AuthorizeUntracked \/ AuthorizeFails
    \/ ServeSecret \/ SecretFails

LEMMA Answered ==
    ASSUME TypeOK, Serving, Answer \/ Serve
    PROVE  Respond /\ WireType' /\ pc' = "top" /\ Serving' /\ UNCHANGED store
<1>1. cur \in Clients
  BY DEF Answer, Serve, ReadFails, HandleStatus, RejectUnlock, RefuseAuthorize, RefuseSecret,
         FinishUnlock, Authorize, AuthorizeUntracked, AuthorizeFails, ServeSecret, SecretFails,
         Handling, HasRequest, Serving
<1>2. Respond /\ UNCHANGED store
  BY DEF Answer, Serve, ReadFails, HandleStatus, RejectUnlock, RefuseAuthorize, RefuseSecret,
         FinishUnlock, Authorize, AuthorizeUntracked, AuthorizeFails, ServeSecret, SecretFails
<1>3. WireType' /\ pc' = "top"
  BY <1>1, <1>2, RespondType, TypeParts
<1> QED BY <1>2, <1>3 DEF Serving

LEMMA AnswerStep ==
    ASSUME TypeOK, Serving, Answer
    PROVE  TypeOK' /\ Serving' /\ UNCHANGED <<runtime, event, store, history>>
<1>1. UNCHANGED <<runtime, event, store, history>>
  BY DEF Answer, ReadFails, HandleStatus, RejectUnlock, RefuseAuthorize, RefuseSecret
<1>2. RuntimeType' /\ FileType' /\ HistoryType'
  BY <1>1, TypeParts DEF RuntimeType, FileType, HistoryType, runtime, store, history, Unlocked
<1> QED BY <1>1, <1>2, Answered, TypeParts

LEMMA ServeStep ==
    ASSUME TypeOK, Serving, Serve
    PROVE  TypeOK' /\ Serving'
<1> USE TypeParts
<1>1. Pruned \subseteq leases
  BY DEF Pruned
<1>2. CASE FinishUnlock
  <2>1. client[cur].req \in Requests /\ client[cur].req.kind = "unlock"
    BY <1>2 DEF FinishUnlock, Serving, WireType, CallType
  <2>2. client[cur].req.policy \in Policies
    BY <2>1, RequestFields
  <2>3. RuntimeType' /\ sessions' \in 0..MaxSessions
    BY <1>2, <2>2, BoundsAssumption
    DEF FinishUnlock, Open, RuntimeType, HistoryType, WireType, Unlocked
  <2> QED BY <1>2, <2>3, Answered DEF FinishUnlock, HistoryType, FileType, store, Serve
<1>3. CASE Authorize
  <2>1. client[cur].req \in Requests /\ client[cur].req.kind = "authorize"
    BY <1>3 DEF Authorize, Handling, HasRequest, Serving, WireType, CallType
  <2>2. client[cur].req.name \in Names
    BY <2>1, RequestFields
  <2>3. Unlocked
    BY <1>3 DEF Authorize, MayAuthorize
  <2>4. session \in 1..MaxSessions
    BY <2>3 DEF RuntimeType, Unlocked
  <2>5. /\ issued' \in Seq([name : Names, session : 1..MaxSessions])
        /\ Len(issued') = Len(issued) + 1
    BY <1>3, <2>2, <2>4 DEF Authorize, HistoryType
  <2>6. Len(issued') \in Tokens
    BY <1>3, <2>5, BoundsAssumption DEF Authorize, HistoryType, Tokens
  <2>7. leases' \subseteq Lease
    BY <1>1, <1>3, <2>2, <2>6, BoundsAssumption DEF Authorize, RuntimeType, Lease
  <2>8. HistoryType'
    BY <1>3, <2>5, <2>6, BoundsAssumption DEF Authorize, HistoryType, Tokens
  <2>9. RuntimeType'
    BY <1>3, <2>3, <2>7, BoundsAssumption DEF Authorize, Touch, RuntimeType, Unlocked
  <2> QED BY <1>3, <2>8, <2>9, Answered DEF Authorize, FileType, store, Serve
<1>4. CASE AuthorizeFails
  BY <1>1, <1>4, Answered
  DEF AuthorizeFails, RuntimeType, FileType, HistoryType, store, history, Serve, Unlocked
<1>5. CASE ServeSecret
  <2>1. RuntimeType'
    BY <1>1, <1>5, BoundsAssumption DEF ServeSecret, Touch, RuntimeType, Unlocked
  <2>2. used' \subseteq Tokens
    BY <1>1, <1>5 DEF ServeSecret, RuntimeType, HistoryType, Lease
  <2> QED BY <1>5, <2>1, <2>2, Answered DEF ServeSecret, FileType, HistoryType, store, Serve
<1>6. CASE SecretFails
  BY <1>1, <1>6, Answered
  DEF SecretFails, RuntimeType, FileType, HistoryType, store, history, Serve, Unlocked
<1>7. CASE AuthorizeUntracked
  <2>1. RuntimeType'
    BY <1>1, <1>7, BoundsAssumption
    DEF AuthorizeUntracked, MayAuthorize, Touch, RuntimeType, Unlocked
  <2> QED BY <1>7, <2>1, Answered
          DEF AuthorizeUntracked, FileType, HistoryType, store, history, Serve
<1> QED BY <1>2, <1>3, <1>4, <1>5, <1>6, <1>7 DEF Serve

\* A step of Next, sorted by what it does
LEMMA StepKinds ==
    ASSUME Next
    PROVE  \/ Answer \/ Serve
           \/ Accept \/ BeginUnlock
           \/ ExpireAtTop \/ ExpireAtRequest \/ HandleLock \/ ServerDies
           \/ Tick
           \/ Vault \/ \E c \in Clients : Rotate(c)
           \/ \E c \in Clients :
                 \/ AskStatus(c) \/ AskUnlock(c) \/ AskAuthorize(c) \/ AskSecret(c)
                 \/ Write(c) \/ Die(c) \/ Start(c) \/ LockAfterRotate(c)
BY DEF Next, Server, Loop, Handle, Client, Answer, Serve

LEMMA ClientStep ==
    ASSUME TypeOK, Serving, NEW c \in Clients,
           \/ AskStatus(c) \/ AskUnlock(c) \/ AskAuthorize(c) \/ AskSecret(c)
           \/ Write(c) \/ Die(c) \/ Start(c) \/ LockAfterRotate(c)
    PROVE  TypeOK' /\ Serving' /\ UNCHANGED <<runtime, event, store, history>>
<1>1. WireStep
  BY AskStep, OwnStep
<1>2. RuntimeType' /\ FileType' /\ HistoryType'
  BY <1>1, TypeParts
  DEF WireStep, RuntimeType, FileType, HistoryType, runtime, store, history, Unlocked
<1> QED BY <1>1, <1>2, TypeParts DEF WireStep

LEMMA TypeInit == Init => TypeOK /\ Serving
<1> SUFFICES ASSUME Init PROVE TypeOK /\ Serving
  OBVIOUS
<1>1. WireType
  BY IdleType, BoundsAssumption DEF Init, WireType
<1>2. RuntimeType /\ FileType /\ HistoryType
  BY BoundsAssumption DEF Init, RuntimeType, FileType, HistoryType, Lease, Unlocked
<1>3. Serving
  BY DEF Init, Serving, Unlocked
<1> QED BY <1>1, <1>2, <1>3, TypeParts

LEMMA TypeNext == TypeOK /\ Serving /\ [Next]_vars => TypeOK' /\ Serving'
<1> SUFFICES ASSUME TypeOK, Serving, [Next]_vars PROVE TypeOK' /\ Serving'
  OBVIOUS
<1>1. CASE Next
  BY <1>1, StepKinds, AnswerStep, ServeStep, AcceptStep, ExitStep, TickStep, VaultStep,
     ClientStep
<1>2. CASE UNCHANGED vars
  BY <1>2 DEF vars, server, runtime, store, history, TypeOK, Serving, Unlocked
<1> QED BY <1>1, <1>2

\* Every variable keeps its type, and a locked agent holds nothing of the
\* session it had, whatever its clients do and whenever it dies (runtime.rs).
THEOREM TypeCorrect == Spec => []TypeOK
<1>1. Spec => [](TypeOK /\ Serving)
  BY TypeInit, TypeNext, PTL DEF Spec
<1> QED BY <1>1, PTL

-----------------------------------------------------------------------------
(* Leases *)

\* The used tokens are among those issued: what keeps a fresh token fresh.
LeaseInv == LeasesBelongToSession /\ used \subseteq 1..Len(issued)

LEMMA LeaseNext ==
    TypeOK /\ TypeOK' /\ Serving /\ LeaseInv /\ [Next]_vars => LeaseInv'
<1> SUFFICES ASSUME TypeOK, TypeOK', Serving, LeaseInv, [Next]_vars PROVE LeaseInv'
  OBVIOUS
<1> USE DEF LeaseInv, LeasesBelongToSession
<1>1. CASE leases' = {} /\ UNCHANGED <<issued, used>>
  BY <1>1
<1>2. CASE UNCHANGED <<session, issued, used>> /\ leases' \subseteq leases
  BY <1>2
<1>3. ASSUME Next PROVE LeaseInv'
  <2>1. CASE Answer
    BY <1>2, <2>1, AnswerStep DEF runtime, history
  <2>2. CASE Serve
    <3>1. CASE FinishUnlock
      BY <1>1, <3>1 DEF FinishUnlock, Open
    <3>2. CASE AuthorizeUntracked \/ AuthorizeFails \/ SecretFails
      BY <1>2, <3>2
      DEF AuthorizeUntracked, AuthorizeFails, SecretFails, Touch, Pruned, history
    <3>3. CASE Authorize
      <4> DEFINE t == Len(issued) + 1
                 n == client[cur].req.name
                 e == [name |-> n, session |-> session]
      <4>1. /\ issued' = Append(issued, e) /\ Len(issued') = t
            /\ leases' = Pruned \cup {[token |-> t, name |-> n, left |-> AskpassTTL]}
            /\ session' = session /\ used' = used
        BY <3>3 DEF Authorize, Touch, TypeOK
      <4>2. issued'[t] = e /\ \A i \in 1..Len(issued) : issued'[i] = issued[i]
        BY <4>1 DEF TypeOK
      <4>3. /\ t \in 1..t /\ t \notin 1..Len(issued)
            /\ 1..Len(issued) \subseteq 1..t
            /\ t \notin used /\ used \subseteq 1..t
        <5>0. issued \in Seq([name : Names, session : 1..MaxSessions])
          BY DEF TypeOK
        <5>1. Len(issued) \in Nat /\ used \subseteq 1..Len(issued)
          BY <5>0
        <5>2. \A i \in 1..Len(issued) : i \in 1..t /\ i # t
          BY <5>1
        <5>3. t \in 1..t
          BY <5>1
        <5> QED BY <5>1, <5>2, <5>3
      <4>4. \A l \in Pruned : l \in leases /\ l.token \in 1..Len(issued)
        BY DEF Pruned
      <4> HIDE DEF n, e, t
      <4> DEFINE new == [token |-> t, name |-> n, left |-> AskpassTTL]
      <4>5. new.token = t /\ new.name = n
        OBVIOUS
      <4>6. leases' = Pruned \cup {new}
        BY <4>1
      <4> HIDE DEF new
      <4>7. \A l \in leases' : l \in Pruned \/ (l.token = t /\ l.name = n /\ l = new)
        BY <4>5, <4>6
      <4>8. \A l \in leases' : l.token \in 1..Len(issued') \ used'
        BY <4>1, <4>3, <4>4, <4>7
      <4>9. \A l \in leases' : issued'[l.token] = [name |-> l.name, session |-> session']
        BY <4>1, <4>2, <4>4, <4>7 DEF e
      <4>10. \A l, m \in leases' : m.token = l.token => m = l
        BY <4>3, <4>4, <4>7
      <4> QED BY <4>1, <4>3, <4>8, <4>9, <4>10
    <3>4. CASE ServeSecret
      <4>1. PICK l \in Pruned : leases' = Pruned \ {l} /\ used' = used \cup {l.token}
        BY <3>4 DEF ServeSecret
      <4>2. UNCHANGED <<session, issued>>
        BY <3>4 DEF ServeSecret, Touch
      <4>3. l \in leases /\ Pruned \subseteq leases
        BY DEF Pruned
      <4> QED BY <4>1, <4>2, <4>3
    <3> QED BY <2>2, <3>1, <3>2, <3>3, <3>4 DEF Serve
  <2>3. CASE Accept \/ BeginUnlock
    BY <1>2, <2>3 DEF Accept, BeginUnlock, runtime, history
  <2>4. CASE ExpireAtTop \/ ExpireAtRequest \/ HandleLock \/ ServerDies
    BY <1>1, <2>4 DEF ExpireAtTop, ExpireAtRequest, HandleLock, ServerDies, Lock, history
  <2>5. CASE Tick
    <3>1. \A l \in leases' : \E m \in leases : l.token = m.token /\ l.name = m.name
               /\ l = [m EXCEPT !.left = IF m.left > 0 THEN m.left - 1 ELSE 0]
      BY <2>5 DEF Tick, TypeOK, Lease
    <3> QED BY <2>5, <3>1 DEF Tick, history
  <2>6. CASE Vault \/ \E c \in Clients : Rotate(c)
    BY <1>2, <2>6 DEF Vault, Initialize, AddEntry, RemoveEntry, Rotate, runtime, history
  <2>7. ASSUME NEW c \in Clients,
               \/ AskStatus(c) \/ AskUnlock(c) \/ AskAuthorize(c) \/ AskSecret(c)
               \/ Write(c) \/ Die(c) \/ Start(c) \/ LockAfterRotate(c)
        PROVE  LeaseInv'
    BY <1>2, <2>7, ClientStep DEF runtime, history
  <2> QED BY <1>3, <2>1, <2>2, <2>3, <2>4, <2>5, <2>6, <2>7, StepKinds
<1>4. CASE UNCHANGED vars
  BY <1>2, <1>4 DEF vars, runtime, history
<1> QED BY <1>3, <1>4

LEMMA LeaseInit == Init => LeaseInv
BY DEF Init, LeaseInv, LeasesBelongToSession

LEMMA LeaseInvariant == Spec => [](TypeOK /\ Serving /\ LeaseInv)
<1>1. TypeOK /\ Serving /\ LeaseInv /\ [Next]_vars => TypeOK' /\ Serving' /\ LeaseInv'
  BY TypeNext, LeaseNext
<1> QED BY <1>1, TypeInit, LeaseInit, PTL DEF Spec

\* No lease outlives the session that issued it and none has been redeemed:
\* runtime.rs may look a token up without asking which session it is from.
THEOREM LeasesAreOfThisSession == Spec => []LeasesBelongToSession
<1>1. LeaseInv => LeasesBelongToSession
  BY DEF LeaseInv
<1> QED BY <1>1, LeaseInvariant, PTL

\* A secret is returned only inside both timeouts of the session that issued
\* its token, and the token is spent: the stall before the request is read
\* (server.rs 60) cannot stretch the session.
THEOREM SecretsStayInSession == Spec => SecretsInsideSession
<1> DEFINE InSession ==
      \A t \in Tokens : t \in used' \ used =>
          /\ Unlocked
          /\ issued[t].session = session
          /\ issued[t].name \in entries
          /\ sinceUnlock < policy.session
          /\ sinceActivity < policy.idle
          /\ \E l \in leases : l.token = t /\ l.left > 0
<1>1. TypeOK /\ Serving /\ LeaseInv /\ [Next]_vars => [InSession]_vars
  <2> SUFFICES ASSUME TypeOK, Serving, LeaseInv, [Next]_vars PROVE InSession
    OBVIOUS
  <2>1. CASE used' = used
    BY <2>1
  <2>2. CASE ServeSecret
    <3>1. PICK l \in Pruned : l.name \in entries /\ used' = used \cup {l.token}
      BY <2>2 DEF ServeSecret
    <3>2. l \in leases /\ l.left > 0
      BY DEF Pruned
    <3>3. issued[l.token] = [name |-> l.name, session |-> session]
      BY <3>2 DEF LeaseInv, LeasesBelongToSession
    <3>4. issued[l.token].session = session /\ issued[l.token].name = l.name
      BY <3>3
    <3>5. Unlocked /\ ~(sinceActivity >= policy.idle) /\ ~(sinceUnlock >= policy.session)
      BY <2>2 DEF ServeSecret, Handling, Expired
    <3>6. sinceUnlock < policy.session /\ sinceActivity < policy.idle
      BY <3>5, PoliciesAssumption, BoundsAssumption DEF TypeOK, NoPolicy
    <3> QED BY <3>1, <3>2, <3>4, <3>5, <3>6
  <2>3. [Next]_vars => used' = used \/ ServeSecret
    <3>1. Next => used' = used \/ ServeSecret
      BY StepKinds, AnswerStep, ClientStep
      DEF Serve, FinishUnlock, Authorize, AuthorizeUntracked, AuthorizeFails, SecretFails, Accept, BeginUnlock,
          ExpireAtTop, ExpireAtRequest, HandleLock, ServerDies, Tick, Vault, Initialize,
          AddEntry, RemoveEntry, Rotate, history
    <3> QED BY <3>1 DEF vars, history
  <2> QED BY <2>1, <2>2, <2>3
<1> QED BY <1>1, LeaseInvariant, PTL DEF Spec, SecretsInsideSession

-----------------------------------------------------------------------------
(* Rotation of the master password *)

\* A rotation is confirmed only by a lock call that returned, and a lock call
\* returns only with the agent gone.  The session of an agent, and the metadata
\* an unlock in progress has read, are newer than every confirmed rotation.
RotationInv ==
    /\ \A c \in Clients :
         /\ client[c].rot \leq pwGen
         /\ client[c].rot # 0 =>
              \/ client[c].st = "rotated"
              \/ client[c].st \in {"queued", "sent"} /\ client[c].req.kind = "lock"
    /\ \A g \in confirmed :
         /\ g \leq pwGen
         /\ Unlocked => sessGen >= g
         /\ pc = "deriving" => readGen >= g

\* A call that breaks keeps no rotation.
LEMMA FailedRot ==
    ASSUME TypeOK, RotationInv, NEW c \in Clients
    PROVE  Failed(client[c]).rot = 0
<1>1. client[c] \in CallType
  BY DEF TypeOK
<1>2. CASE Failed(client[c]) = Idle
  BY <1>2 DEF Idle
<1>3. CASE Failed(client[c]) # Idle
  <2>1. /\ client[c].st \in {"queued", "sent"} /\ client[c].req.kind # "lock"
        /\ Failed(client[c]) = [client[c] EXCEPT !.st = "starting"]
    BY <1>3 DEF Failed, AutoStart
  <2>2. client[c].rot = 0
    BY <2>1 DEF RotationInv
  <2> QED BY <1>1, <2>1, <2>2 DEF CallType
<1> QED BY <1>2, <1>3

\* Calls that end leave the rotations of the others, and confirm their own.
LEMMA FinishRot ==
    ASSUME TypeOK, RotationInv, NEW D, NEW F, D \cup F \subseteq Clients, Finish(D, F)
    PROVE  /\ \A c \in Clients : client'[c] = client[c] \/ client'[c].rot = 0
           /\ \A g \in confirmed' : \/ g \in confirmed
                                   \/ \E c \in D \cup F : g = client[c].rot /\ g # 0
<1>1. \A c \in Clients : \/ client'[c] = client[c]
                        \/ client'[c] = Idle
                        \/ client'[c] = Failed(client[c])
  BY DEF Finish
<1>2. Idle.rot = 0
  BY DEF Idle
<1> QED BY <1>1, <1>2, FailedRot DEF Finish

LEMMA ServedRot ==
    ASSUME TypeOK, Serving, RotationInv, Answer \/ Serve
    PROVE  client[cur].rot = 0
<1>1. cur \in Clients
  BY DEF Answer, Serve, ReadFails, HandleStatus, RejectUnlock, RefuseAuthorize, RefuseSecret,
         FinishUnlock, Authorize, AuthorizeUntracked, AuthorizeFails, ServeSecret, SecretFails,
         Handling, HasRequest, Serving
<1>2. client[cur].st \in {"gone", "sent", "orphan"}
  BY DEF Answer, Serve, ReadFails, HandleStatus, RejectUnlock, RefuseAuthorize, RefuseSecret,
         FinishUnlock, Authorize, AuthorizeUntracked, AuthorizeFails, ServeSecret, SecretFails,
         Handling, HasRequest, Serving
<1>3. client[cur].st # "gone" => client[cur].req.kind # "lock"
  BY DEF Answer, Serve, ReadFails, HandleStatus, RejectUnlock, RefuseAuthorize, RefuseSecret,
         FinishUnlock, Authorize, AuthorizeUntracked, AuthorizeFails, ServeSecret, SecretFails,
         Handling, HasRequest, Serving
<1> QED BY <1>1, <1>2, <1>3 DEF RotationInv

\* Steps in which the calls of some clients end
LEMMA RotationFinish ==
    ASSUME TypeOK, TypeOK', RotationInv, NEW D, NEW F, D \cup F \subseteq Clients, Finish(D, F),
           pwGen' = pwGen, pc' # "deriving",
           \/ ~Unlocked'
           \/ /\ \A c \in D \cup F : client[c].rot = 0
              /\ \/ session' = session /\ sessGen' = sessGen
                 \/ pc = "deriving" /\ sessGen' = readGen
    PROVE  RotationInv'
<1>1. \A c \in Clients : client[c].rot \leq pwGen /\ 0 \leq pwGen
  BY BoundsAssumption DEF RotationInv, TypeOK
<1>2. \A c \in Clients :
         /\ client'[c].rot \leq pwGen'
         /\ client'[c].rot # 0 =>
              \/ client'[c].st = "rotated"
              \/ client'[c].st \in {"queued", "sent"} /\ client'[c].req.kind = "lock"
  BY <1>1, FinishRot DEF RotationInv
<1>3. ASSUME NEW g \in confirmed'
      PROVE  g \leq pwGen' /\ (Unlocked' => sessGen' >= g)
  <2>1. CASE g \in confirmed
    BY <2>1 DEF RotationInv, Unlocked
  <2>2. CASE g \notin confirmed
    BY <1>1, <1>3, <2>2, FinishRot
  <2> QED BY <2>1, <2>2
<1> QED BY <1>2, <1>3 DEF RotationInv

\* Steps of one client c that end at most its own call
LEMMA RotationOwn ==
    ASSUME TypeOK, Serving, RotationInv, NEW c \in Clients,
           NEW k, client' = [client EXCEPT ![c] = k],
           k.rot \leq pwGen',
           k.rot # 0 => \/ k.st = "rotated"
                        \/ k.st \in {"queued", "sent"} /\ k.req.kind = "lock",
           pwGen \leq pwGen', pwGen' \in 0..MaxGen,
           session' = session, sessGen' = sessGen, readGen' = readGen,
           pc' = "deriving" => pc = "deriving",
           \/ confirmed' = confirmed
           \/ ~Running /\ pc' = pc /\ confirmed' = confirmed \cup ({client[c].rot} \ {0})
    PROVE  RotationInv'
<1>1. \A d \in Clients :
         /\ client'[d].rot \leq pwGen'
         /\ client'[d].rot # 0 =>
              \/ client'[d].st = "rotated"
              \/ client'[d].st \in {"queued", "sent"} /\ client'[d].req.kind = "lock"
  <2> SUFFICES ASSUME NEW d \in Clients
               PROVE  /\ client'[d].rot \leq pwGen'
                      /\ client'[d].rot # 0 =>
                           \/ client'[d].st = "rotated"
                           \/ client'[d].st \in {"queued", "sent"} /\ client'[d].req.kind = "lock"
    OBVIOUS
  <2>1. CASE d = c
    BY <2>1 DEF TypeOK
  <2>2. CASE d # c
    <3>1. client'[d] = client[d] /\ client[d].rot \in 0..MaxGen /\ pwGen \in 0..MaxGen
      BY <2>2 DEF TypeOK, CallType
    <3> QED BY <3>1, BoundsAssumption DEF RotationInv
  <2> QED BY <2>1, <2>2
<1>2. ASSUME NEW g \in confirmed'
      PROVE  /\ g \leq pwGen'
             /\ Unlocked' => sessGen' >= g
             /\ pc' = "deriving" => readGen' >= g
  <2>1. CASE g \in confirmed
    <3>1. g \in 1..MaxGen /\ pwGen \in 0..MaxGen /\ g \leq pwGen
      BY <2>1 DEF TypeOK, RotationInv, Gens
    <3> QED BY <2>1, <3>1, BoundsAssumption DEF RotationInv, Unlocked
  <2>2. CASE g \notin confirmed
    <3>1. g = client[c].rot /\ ~Running /\ pc' = pc
      BY <1>2, <2>2
    <3>2. g \in 0..MaxGen /\ g \leq pwGen /\ pwGen \in 0..MaxGen
      BY <3>1 DEF TypeOK, CallType, RotationInv
    <3> QED BY <3>1, <3>2, BoundsAssumption DEF Serving, Unlocked
  <2> QED BY <2>1, <2>2
<1> QED BY <1>1, <1>2 DEF RotationInv

LEMMA RotationBegin ==
    ASSUME TypeOK, Serving, RotationInv, NEW c \in Clients, NEW r, Begin(c, r)
    PROVE  RotationInv'
<1> DEFINE k == [st |-> "queued", req |-> r, retried |-> FALSE, rot |-> 0]
<1>1. k.rot = 0 /\ Failed(k).rot = 0
  BY DEF Failed, Idle
<1>2. \E j \in {k, Failed(k)} : client' = [client EXCEPT ![c] = j]
  BY DEF Begin, Call
<1>3. confirmed' = confirmed
  BY DEF Begin, Call
<1>4. 0 \leq pwGen /\ pwGen \leq pwGen /\ pwGen \in 0..MaxGen
  BY BoundsAssumption DEF TypeOK
<1>5. UNCHANGED <<pc, readGen, session, sessGen, pwGen>>
  BY DEF Begin, runtime, store
<1>6. PICK j : client' = [client EXCEPT ![c] = j] /\ j.rot = 0
  BY <1>1, <1>2
<1> QED BY <1>3, <1>4, <1>5, <1>6, RotationOwn

LEMMA RotationClient ==
    ASSUME TypeOK, Serving, RotationInv, NEW c \in Clients,
           \/ AskStatus(c) \/ AskUnlock(c) \/ AskAuthorize(c) \/ AskSecret(c)
           \/ Write(c) \/ Die(c) \/ Start(c) \/ LockAfterRotate(c) \/ Rotate(c)
    PROVE  RotationInv'
<1> USE BoundsAssumption
<1>1. /\ pwGen \in 0..MaxGen /\ 0 \leq pwGen /\ pwGen \leq pwGen
      /\ client[c] \in CallType /\ Idle.rot = 0
  BY DEF TypeOK, Idle
<1>2. CASE AskStatus(c) \/ AskUnlock(c) \/ AskAuthorize(c) \/ AskSecret(c)
  BY <1>2, RotationBegin DEF AskStatus, AskUnlock, AskAuthorize, AskSecret
<1>3. CASE Write(c)
  <2> DEFINE k == [client[c] EXCEPT !.st = "sent"]
  <2>1. k.st = "sent" /\ k.rot = client[c].rot /\ k.req = client[c].req
    BY <1>1 DEF CallType
  <2>2. client' = [client EXCEPT ![c] = k]
    BY <1>3 DEF Write
  <2>3. k.rot # 0 => k.req.kind = "lock"
    BY <1>3, <2>1 DEF Write, RotationInv
  <2>4. k.rot \leq pwGen
    BY <2>1 DEF RotationInv
  <2>5. UNCHANGED <<pc, readGen, session, sessGen, pwGen, confirmed>>
    BY <1>3 DEF Write, server, runtime, store
  <2> HIDE DEF k
  <2> QED BY <1>1, <2>1, <2>2, <2>3, <2>4, <2>5, RotationOwn
<1>4. CASE Die(c)
  <2>1. /\ [Idle EXCEPT !.st = "gone"].rot = 0
        /\ [client[c] EXCEPT !.st = "orphan", !.rot = 0].rot = 0
    BY <1>1 DEF Idle, CallType
  <2>2. \E k \in {[Idle EXCEPT !.st = "gone"],
                 [client[c] EXCEPT !.st = "orphan", !.rot = 0], Idle} :
           client' = [client EXCEPT ![c] = k]
    BY <1>4 DEF Die
  <2>3. PICK k : client' = [client EXCEPT ![c] = k] /\ k.rot = 0
    BY <1>1, <2>1, <2>2
  <2>4. UNCHANGED <<pc, readGen, session, sessGen, pwGen, confirmed>>
    BY <1>4 DEF Die, server, runtime, store
  <2> QED BY <1>1, <2>3, <2>4, RotationOwn
<1>5. CASE Start(c)
  <2>1. client[c].st \in {"starting", "probing"}
    BY <1>5 DEF Start, Spawn, Resend, StartTimeout
  <2>2. client[c].rot = 0
    BY <2>1 DEF RotationInv
  <2>3. /\ [client[c] EXCEPT !.st = "probing"].rot = 0
        /\ [client[c] EXCEPT !.st = "queued", !.retried = TRUE].rot = 0
    BY <1>1, <2>2 DEF CallType
  <2>4. PICK k : client' = [client EXCEPT ![c] = k] /\ k.rot = 0
    <3>1. \E k \in {[client[c] EXCEPT !.st = "probing"],
                   [client[c] EXCEPT !.st = "queued", !.retried = TRUE], Idle} :
             client' = [client EXCEPT ![c] = k]
      BY <1>5 DEF Start, Spawn, Resend, StartTimeout
    <3> QED BY <1>1, <2>3, <3>1
  <2>5. /\ UNCHANGED <<readGen, session, sessGen, pwGen, confirmed>>
        /\ pc' = "deriving" => pc = "deriving"
    BY <1>5 DEF Start, Spawn, Resend, StartTimeout, server, runtime, store
  <2> QED BY <1>1, <2>4, <2>5, RotationOwn
<1>6. CASE LockAfterRotate(c)
  <2> DEFINE k == [st |-> "queued", req |-> [kind |-> "lock"], retried |-> FALSE,
                   rot |-> client[c].rot]
  <2>1. k.st = "queued" /\ k.req.kind = "lock" /\ k.rot \leq pwGen /\ Failed(k) = Idle
    BY DEF RotationInv, Failed, AutoStart
  <2>2. UNCHANGED <<pc, readGen, session, sessGen, pwGen>>
    BY <1>6 DEF LockAfterRotate, runtime, store
  <2>3. CASE Running
    <3>1. client' = [client EXCEPT ![c] = k] /\ confirmed' = confirmed
      BY <1>6, <2>3 DEF LockAfterRotate, Call
    <3> HIDE DEF k
    <3> QED BY <1>1, <2>1, <2>2, <3>1, RotationOwn
  <2>4. CASE ~Running
    <3>1. /\ client' = [client EXCEPT ![c] = Idle]
          /\ confirmed' = confirmed \cup ({client[c].rot} \ {0})
      BY <1>6, <2>1, <2>4 DEF LockAfterRotate, Call
    <3> QED BY <1>1, <2>2, <2>4, <3>1, RotationOwn
  <2> QED BY <2>3, <2>4
<1>7. CASE Rotate(c)
  <2> DEFINE k == [Idle EXCEPT !.st = "rotated", !.rot = pwGen']
  <2>1. k.st = "rotated" /\ k.rot = pwGen'
    BY DEF Idle
  <2>2. /\ client' = [client EXCEPT ![c] = k]
        /\ UNCHANGED <<pc, readGen, session, sessGen, confirmed>>
        /\ pwGen' = pwGen + 1 /\ pwGen \in 1..(MaxGen - 1)
    BY <1>7 DEF Rotate, server, runtime
  <2>3. pwGen \leq pwGen' /\ pwGen' \in 0..MaxGen /\ pwGen' \leq pwGen'
    BY <1>1, <2>2
  <2> HIDE DEF k
  <2> QED BY <1>1, <2>1, <2>2, <2>3, RotationOwn
<1> QED BY <1>2, <1>3, <1>4, <1>5, <1>6, <1>7

LEMMA RotationNext ==
    TypeOK /\ TypeOK' /\ Serving /\ RotationInv /\ [Next]_vars => RotationInv'
<1> SUFFICES ASSUME TypeOK, TypeOK', Serving, RotationInv, [Next]_vars PROVE RotationInv'
  OBVIOUS
<1>1. ASSUME Next PROVE RotationInv'
  <2>1. CASE Answer \/ Serve
    <3>1. Respond /\ pc' = "top" /\ pwGen' = pwGen /\ {cur} \subseteq Clients
      <4>1. Respond /\ pc' = "top" /\ UNCHANGED store
        BY <2>1, Answered
      <4>2. cur \in Clients
        BY <2>1
        DEF Answer, Serve, ReadFails, HandleStatus, RejectUnlock, RefuseAuthorize,
            RefuseSecret, FinishUnlock, Authorize, AuthorizeUntracked, AuthorizeFails, ServeSecret,
            SecretFails, Handling, HasRequest, Serving
      <4> QED BY <4>1, <4>2 DEF store
    <3>2. client[cur].rot = 0
      BY <2>1, ServedRot
    <3>3. \/ session' = session /\ sessGen' = sessGen
          \/ pc = "deriving" /\ sessGen' = readGen
      <4>1. CASE Answer
        BY <4>1, AnswerStep DEF runtime
      <4>2. CASE Serve
        BY <4>2 DEF Serve, FinishUnlock, Open, Authorize, AuthorizeUntracked, AuthorizeFails, ServeSecret,
                    SecretFails, Touch
      <4> QED BY <2>1, <4>1, <4>2
    <3>4. Finish({cur}, {})
      BY <3>1 DEF Respond
    <3> QED BY <3>1, <3>2, <3>3, <3>4, RotationFinish
  <2>2. CASE ExpireAtTop \/ ExpireAtRequest \/ HandleLock \/ ServerDies
    <3>1. ~Unlocked' /\ pwGen' = pwGen
      BY <2>2 DEF ExpireAtTop, ExpireAtRequest, HandleLock, ServerDies, Lock, Unlocked, store
    <3>2. PICK end \in {"down", "dead"}, S \in SUBSET Clients : Exit(end, S)
      <4>1. HandleLock \/ ExpireAtRequest => {cur} \subseteq Clients
        BY DEF HandleLock, ExpireAtRequest, Handling, HasRequest, Serving
      <4> QED BY <2>2, <4>1 DEF ExpireAtTop, ExpireAtRequest, HandleLock, ServerDies
    <3> DEFINE F == (Waiting \cup {cur}) \ (S \cup {NoClient})
    <3>3. S \cup F \subseteq Clients
      <4>1. backlog \in Seq(Clients) /\ cur \in Clients \cup {NoClient}
        BY DEF TypeOK
      <4>2. Waiting \subseteq Clients
        BY <4>1 DEF Waiting
      <4> QED BY <3>2, <4>1, <4>2
    <3>4. Finish(S, F) /\ ~Running'
      BY <3>2 DEF Exit
    <3> HIDE DEF F
    <3> QED BY <3>1, <3>3, <3>4, RotationFinish
  <2>3. CASE Accept \/ BeginUnlock
    <3>1. UNCHANGED <<client, confirmed, session, sessGen, pwGen>>
      BY <2>3 DEF Accept, BeginUnlock, runtime, store
    <3>2. pc' = "reading" \/ (pc' = "deriving" /\ readGen' = pwGen)
      BY <2>3 DEF Accept, BeginUnlock
    <3> QED BY <3>1, <3>2 DEF RotationInv, Unlocked
  <2>4. CASE Tick
    BY <2>4 DEF Tick, RotationInv, Unlocked, server, store
  <2>5. CASE Vault
    <3>1. UNCHANGED <<client, confirmed, session, sessGen, pc, readGen>>
      BY <2>5 DEF Vault, Initialize, AddEntry, RemoveEntry, runtime, server
    <3>2. pwGen' = pwGen \/ (pwGen = 0 /\ pwGen' = 1)
      BY <2>5 DEF Vault, Initialize, AddEntry, RemoveEntry
    <3>3. /\ \A c \in Clients : client[c].rot \in 0..MaxGen
          /\ \A g \in confirmed : g \in 1..MaxGen
      BY DEF TypeOK, CallType, Gens
    <3>4. pwGen \in 0..MaxGen
      BY DEF TypeOK
    <3> QED BY <3>1, <3>2, <3>3, <3>4, BoundsAssumption DEF RotationInv, Unlocked
  <2>6. ASSUME NEW c \in Clients,
               \/ AskStatus(c) \/ AskUnlock(c) \/ AskAuthorize(c) \/ AskSecret(c)
               \/ Write(c) \/ Die(c) \/ Start(c) \/ LockAfterRotate(c) \/ Rotate(c)
        PROVE  RotationInv'
    BY <2>6, RotationClient
  <2> QED BY <1>1, <2>1, <2>2, <2>3, <2>4, <2>5, <2>6, StepKinds
<1>2. CASE UNCHANGED vars
  BY <1>2 DEF vars, server, runtime, store, RotationInv, Unlocked
<1> QED BY <1>1, <1>2

LEMMA RotationInit == Init => RotationInv
BY DEF Init, RotationInv, Idle

\* Once `cossh vault set-master-password` has returned (cli.rs 286-289), no
\* agent holds a session that an older password opened, for any number of
\* clients and rotations and whatever an unlock was in the middle of.
THEOREM RotationRevokes == Spec => []RotationEndsOldSessions
<1>1. /\ TypeOK /\ Serving /\ RotationInv /\ [Next]_vars
      => TypeOK' /\ Serving' /\ RotationInv'
  BY TypeNext, RotationNext
<1>2. RotationInv => RotationEndsOldSessions
  BY DEF RotationInv, RotationEndsOldSessions
<1> QED BY <1>1, <1>2, TypeInit, RotationInit, PTL DEF Spec

-----------------------------------------------------------------------------
(* The agent keeps the promise of VaultSession *)

\* An unlock gets a number no session had before.
Numbered == session \leq sessions

LEMMA NumberedNext == TypeOK /\ Serving /\ Numbered /\ [Next]_vars => Numbered'
<1> SUFFICES ASSUME TypeOK, Serving, Numbered, [Next]_vars PROVE Numbered'
  OBVIOUS
<1> USE DEF Numbered
<1>1. CASE UNCHANGED <<session, sessions>>
  BY <1>1
<1>2. ASSUME Next PROVE Numbered'
  <2>1. CASE FinishUnlock
    BY <2>1 DEF FinishUnlock, Open, TypeOK
  <2>2. CASE ExpireAtTop \/ ExpireAtRequest \/ HandleLock \/ ServerDies
    BY <2>2 DEF ExpireAtTop, ExpireAtRequest, HandleLock, ServerDies, Lock, history, TypeOK
  <2>3. CASE ~FinishUnlock /\ ~(ExpireAtTop \/ ExpireAtRequest \/ HandleLock \/ ServerDies)
    BY <1>1, <1>2, <2>3, StepKinds, AnswerStep, ClientStep
    DEF Serve, Authorize, AuthorizeUntracked, AuthorizeFails, ServeSecret, SecretFails, Touch, Accept,
        BeginUnlock, Tick, Vault, Initialize, AddEntry, RemoveEntry, Rotate, runtime, history
  <2> QED BY <2>1, <2>2, <2>3
<1>3. CASE UNCHANGED vars
  BY <1>1, <1>3 DEF vars, runtime, history
<1> QED BY <1>2, <1>3

LEMMA PromiseInit == Init => Promise!Init
BY DEF Init, Promise!Init, Expired, Unlocked

LEMMA PromiseNext ==
    TypeOK /\ TypeOK' /\ Serving /\ LeaseInv /\ Numbered /\ [Next]_vars
       => [Promise!Next]_(Promise!vars)
<1> SUFFICES ASSUME TypeOK, TypeOK', Serving, LeaseInv, Numbered, [Next]_vars
             PROVE  [Promise!Next]_(Promise!vars)
  OBVIOUS
<1> DEFINE live == {l.token : l \in {m \in leases : m.left > 0}}
<1>1. CASE UNCHANGED <<runtime, issued, used>>
  BY <1>1 DEF Promise!vars, Expired, Unlocked, runtime
<1>2. ASSUME Next PROVE [Promise!Next]_(Promise!vars)
  <2>1. CASE Answer
    BY <1>1, <2>1, AnswerStep DEF history
  <2>2. CASE FinishUnlock
    <3>1. session' \in (1..MaxSessions) \ {session}
      BY <2>2, BoundsAssumption DEF FinishUnlock, Open, TypeOK, Numbered
    <3> QED BY <2>2, <3>1 DEF FinishUnlock, Open, Promise!Next, Promise!Open, Expired, Unlocked
  <2>3. CASE AuthorizeFails \/ SecretFails
    <3>1. /\ UNCHANGED <<session, sinceUnlock, sinceActivity, policy, issued, used>>
          /\ Unlocked /\ leases' \subseteq leases
      BY <2>3 DEF AuthorizeFails, MayAuthorize, SecretFails, Pruned, history
    <3>2. live' \subseteq live
      BY <3>1
    <3> QED BY <3>1, <3>2 DEF Promise!Next, Promise!Lapse, Expired, Unlocked
  <2>11. CASE AuthorizeUntracked
    <3>1. /\ Unlocked /\ ~Expired /\ session' = session /\ policy' = policy
          /\ sinceUnlock' = sinceUnlock /\ sinceActivity' = 0
          /\ UNCHANGED <<issued, used>> /\ leases' \subseteq leases
      BY <2>11 DEF AuthorizeUntracked, MayAuthorize, Handling, Touch, Pruned, history
    <3>2. ~Expired'
      BY <3>1, PoliciesAssumption, BoundsAssumption DEF Expired, Unlocked, TypeOK, NoPolicy
    <3>3. Expired' = Expired
      BY <3>1, <3>2 DEF Expired
    <3>4. live' \subseteq live
      BY <3>1
    <3> QED BY <3>1, <3>3, <3>4 DEF Promise!Next, Promise!Lapse, Unlocked
  <2>4. CASE Authorize
    <3>1. /\ Unlocked /\ ~Expired /\ session' = session /\ used' = used
          /\ policy' = policy /\ sinceUnlock' = sinceUnlock /\ sinceActivity' = 0
      BY <2>4 DEF Authorize, MayAuthorize, Handling, Touch
    <3>2. cur \in Clients /\ client[cur].req.kind = "authorize"
      BY <2>4 DEF Authorize, Handling, HasRequest, Serving
    <3>3. client[cur].req.name \in Names
      BY <3>2, RequestFields DEF TypeOK, CallType
    <3>4. \E n \in Names : issued' = Append(issued, [name |-> n, session |-> session])
      BY <2>4, <3>3 DEF Authorize
    <3>5. live' \subseteq live \cup {Len(issued')}
      <4>1. \A l \in leases' : l \in leases \/ l.token = Len(issued')
        BY <2>4 DEF Authorize, Pruned
      <4> QED BY <4>1
    <3>6. ~Expired'
      BY <3>1, PoliciesAssumption, BoundsAssumption DEF Expired, Unlocked, TypeOK, NoPolicy
    <3>7. Expired' = Expired
      BY <3>1, <3>6 DEF Expired
    <3> QED BY <3>1, <3>4, <3>5, <3>7 DEF Promise!Next, Promise!Grant, Unlocked
  <2>5. CASE ServeSecret
    <3>1. /\ Unlocked /\ ~Expired /\ session' = session /\ issued' = issued
          /\ policy' = policy /\ sinceUnlock' = sinceUnlock /\ sinceActivity' = 0
      BY <2>5 DEF ServeSecret, Handling, Touch
    <3>2. PICK l \in Pruned : leases' = Pruned \ {l} /\ used' = used \cup {l.token}
      BY <2>5 DEF ServeSecret
    <3>3. l.token \in live
      BY <3>2 DEF Pruned
    <3>4. live' = live \ {l.token}
      <4>1. \A m \in leases : m.token = l.token => m = l
        BY <3>2 DEF Pruned, LeaseInv, LeasesBelongToSession
      <4> QED BY <3>2, <4>1 DEF Pruned
    <3>5. ~Expired'
      BY <3>1, PoliciesAssumption, BoundsAssumption DEF Expired, Unlocked, TypeOK, NoPolicy
    <3>6. Expired' = Expired
      BY <3>1, <3>5 DEF Expired
    <3> QED BY <3>1, <3>2, <3>3, <3>4, <3>6 DEF Promise!Next, Promise!Redeem, Unlocked
  <2>6. CASE Accept \/ BeginUnlock
    BY <1>1, <2>6 DEF Accept, BeginUnlock, history
  <2>7. CASE ExpireAtTop \/ ExpireAtRequest \/ HandleLock \/ ServerDies
    <3>1. Lock /\ UNCHANGED <<issued, used>>
      BY <2>7 DEF ExpireAtTop, ExpireAtRequest, HandleLock, ServerDies, history
    <3>2. session' = 0 /\ live' = {} /\ ~Expired'
      BY <3>1 DEF Lock, Expired, Unlocked
    <3>3. CASE session # 0
      BY <3>1, <3>2, <3>3 DEF Promise!Next, Promise!Close
    <3>4. CASE session = 0
      <4>1. live = {} /\ ~Expired
        BY <3>4 DEF TypeOK, Unlocked, Expired
      <4>2. live' = live /\ session' = session
        BY <3>2, <3>4, <4>1
      <4>3. Expired' = Expired
        BY <3>2, <4>1 DEF Expired
      <4> HIDE DEF live
      <4>4. UNCHANGED <<session, Expired, issued, live, used>>
        BY <3>1, <4>2, <4>3
      <4> QED BY <4>4 DEF Promise!vars, live
    <3> QED BY <3>3, <3>4
  <2>8. CASE Tick
    <3>1. /\ Unlocked /\ UNCHANGED <<session, policy, issued, used>>
          /\ sinceUnlock' = Older(sinceUnlock) /\ sinceActivity' = Older(sinceActivity)
      BY <2>8 DEF Tick, history
    <3>2. live' \subseteq live
      <4>1. \A l \in leases' : \E m \in leases :
                l = [m EXCEPT !.left = IF m.left > 0 THEN m.left - 1 ELSE 0]
        BY <2>8 DEF Tick
      <4>2. \A l \in leases' : \E m \in leases :
                l.token = m.token /\ (l.left > 0 => m.left > 0)
        <5> SUFFICES ASSUME NEW l \in leases'
                     PROVE  \E m \in leases : l.token = m.token /\ (l.left > 0 => m.left > 0)
          OBVIOUS
        <5>1. PICK m \in leases : l = [m EXCEPT !.left = IF m.left > 0 THEN m.left - 1 ELSE 0]
          BY <4>1
        <5>2. m \in Lease
          BY DEF TypeOK
        <5>3. l.token = m.token /\ l.left = IF m.left > 0 THEN m.left - 1 ELSE 0
          BY <5>1, <5>2 DEF Lease
        <5> QED BY <5>2, <5>3, BoundsAssumption DEF Lease
      <4> QED BY <4>2
    <3>3. Expired => Expired'
      <4>1. sinceUnlock' >= sinceUnlock /\ sinceActivity' >= sinceActivity
        BY <3>1, BoundsAssumption DEF Older, TypeOK
      <4>2. policy.idle \in 0..MaxAge /\ policy.session \in 0..MaxAge
        BY PoliciesAssumption, BoundsAssumption, SMTT(20) DEF TypeOK, NoPolicy
      <4>3. /\ sinceUnlock \in Nat /\ sinceUnlock' \in Nat
            /\ sinceActivity \in Nat /\ sinceActivity' \in Nat
            /\ policy.idle \in Nat /\ policy.session \in Nat
        <5>1. /\ sinceUnlock \in 0..MaxAge /\ sinceUnlock' \in 0..MaxAge
              /\ sinceActivity \in 0..MaxAge /\ sinceActivity' \in 0..MaxAge
          BY DEF TypeOK
        <5> QED BY <4>2, <5>1, BoundsAssumption
      <4>4. policy' = policy /\ session' = session
        BY <3>1
      <4> QED BY <4>1, <4>3, <4>4 DEF Expired, Unlocked
    <3>4. Expired' \in {Expired, TRUE}
      BY <3>3 DEF Expired
    <3> QED BY <3>1, <3>2, <3>4 DEF Promise!Next, Promise!Lapse, Unlocked
  <2>9. CASE Vault \/ \E c \in Clients : Rotate(c)
    BY <1>1, <2>9 DEF Vault, Initialize, AddEntry, RemoveEntry, Rotate, history
  <2>10. ASSUME NEW c \in Clients,
               \/ AskStatus(c) \/ AskUnlock(c) \/ AskAuthorize(c) \/ AskSecret(c)
               \/ Write(c) \/ Die(c) \/ Start(c) \/ LockAfterRotate(c)
        PROVE  [Promise!Next]_(Promise!vars)
    BY <1>1, <2>10, ClientStep DEF history
  <2> QED BY <1>2, <2>1, <2>2, <2>3, <2>4, <2>5, <2>6, <2>7, <2>8, <2>9, <2>10, <2>11,
         StepKinds DEF Serve
<1>3. CASE UNCHANGED vars
  BY <1>1, <1>3 DEF vars, history
<1> QED BY <1>2, <1>3

\* The server with its clients, deaths, clock and vault commands implements
\* VaultSession: every token is granted in a session, redeemed at most once and
\* only while that session is open and in time.
THEOREM AgentKeepsPromise == Spec => KeepsPromise
<1>1. TypeOK /\ Serving /\ LeaseInv /\ Numbered /\ [Next]_vars
      => /\ TypeOK' /\ Serving' /\ LeaseInv' /\ Numbered'
         /\ [Promise!Next]_(Promise!vars)
  BY TypeNext, LeaseNext, NumberedNext, PromiseNext
<1>2. Init => Numbered
  BY DEF Init, Numbered
<1> QED BY <1>1, <1>2, TypeInit, LeaseInit, PromiseInit, PTL
        DEF Spec, KeepsPromise, Promise!Spec

-----------------------------------------------------------------------------
(* Action properties *)

\* While a session stays open its age only grows and its policy is the one it
\* was opened with: touch() cannot move the absolute deadline (runtime.rs 136).
THEOREM DeadlineStaysFixed == Spec => AbsoluteDeadlineFixed
<1> DEFINE Fixed ==
      session' = session /\ Unlocked => sinceUnlock' >= sinceUnlock /\ policy' = policy
<1>1. TypeOK /\ Serving /\ Numbered /\ [Next]_vars => [Fixed]_vars
  <2> SUFFICES ASSUME TypeOK, Serving, Numbered, [Next]_vars PROVE Fixed
    OBVIOUS
  <2>1. sinceUnlock \in 0..MaxAge
    BY DEF TypeOK
  <2>2. CASE UNCHANGED <<sinceUnlock, policy>>
    BY <2>1, <2>2, BoundsAssumption
  <2>3. CASE FinishUnlock
    BY <2>3 DEF FinishUnlock, Open, TypeOK, Numbered
  <2>4. CASE ExpireAtTop \/ ExpireAtRequest \/ HandleLock \/ ServerDies
    BY <2>4 DEF ExpireAtTop, ExpireAtRequest, HandleLock, ServerDies, Lock, Unlocked
  <2>5. CASE Tick
    BY <2>1, <2>5, BoundsAssumption DEF Tick, Older
  <2>6. \/ UNCHANGED <<sinceUnlock, policy>> \/ FinishUnlock \/ Tick
        \/ ExpireAtTop \/ ExpireAtRequest \/ HandleLock \/ ServerDies
    <3>1. CASE Next
      BY <3>1, StepKinds, AnswerStep, ClientStep
      DEF Serve, Authorize, AuthorizeUntracked, AuthorizeFails, ServeSecret, SecretFails, Touch, Accept,
          BeginUnlock, Vault, Initialize, AddEntry, RemoveEntry, Rotate, runtime
    <3>2. CASE UNCHANGED vars
      BY <3>2 DEF vars, runtime
    <3> QED BY <3>1, <3>2
  <2> QED BY <2>2, <2>3, <2>4, <2>5, <2>6
<1>2. TypeOK /\ Serving /\ Numbered /\ [Next]_vars => TypeOK' /\ Serving' /\ Numbered'
  BY TypeNext, NumberedNext
<1>3. Init => Numbered
  BY DEF Init, Numbered
<1> QED BY <1>1, <1>2, <1>3, TypeInit, PTL DEF Spec, AbsoluteDeadlineFixed

\* Every change of the session is announced in the event file by the step that
\* makes it, on each path by which run_server returns or goes on (server.rs 41,
\* 74, 102, 114); exempt is only the process that dies without returning from it.
THEOREM EventsAreComplete == Spec => EventFollowsSession
<1> DEFINE Announced ==
      session' # session =>
          \/ event' = IF session' = 0 THEN "locked" ELSE "unlocked"
          \/ Running /\ pc' = "dead"
<1>1. TypeOK /\ Serving /\ [Next]_vars => [Announced]_vars
  <2> SUFFICES ASSUME TypeOK, Serving, [Next]_vars PROVE Announced
    OBVIOUS
  <2>1. CASE FinishUnlock
    BY <2>1 DEF FinishUnlock, Open, TypeOK
  <2>2. CASE ExpireAtTop \/ ExpireAtRequest \/ HandleLock
    BY <2>2 DEF ExpireAtTop, ExpireAtRequest, HandleLock, Lock, Unlocked
  <2>3. CASE ServerDies
    BY <2>3 DEF ServerDies, Exit
  <2>4. \/ session' = session
        \/ FinishUnlock \/ ExpireAtTop \/ ExpireAtRequest \/ HandleLock \/ ServerDies
    <3>1. CASE Next
      BY <3>1, StepKinds, AnswerStep, ClientStep
      DEF Serve, Authorize, AuthorizeUntracked, AuthorizeFails, ServeSecret, SecretFails, Touch, Accept,
          BeginUnlock, Tick, Vault, Initialize, AddEntry, RemoveEntry, Rotate, runtime
    <3>2. CASE UNCHANGED vars
      BY <3>2 DEF vars, runtime
    <3> QED BY <3>1, <3>2
  <2> QED BY <2>1, <2>2, <2>3, <2>4
<1>2. TypeOK /\ Serving /\ [Next]_vars => TypeOK' /\ Serving'
  BY TypeNext
<1> QED BY <1>1, <1>2, TypeInit, PTL DEF Spec, EventFollowsSession
=============================================================================
