----------------------------- MODULE Registration -----------------------------
(***************************************************************************)
(* Registration with the authentication server, secsock/secsock.c:45-157.  *)
(* The LED task tries until it has the distribution key.  Every attempt    *)
(* has a nonce of its own; what answers an earlier attempt may still be on *)
(* its way, or wait at the socket, when the next attempt begins.  The      *)
(* server is not part of the repository: it is modelled from the messages  *)
(* secsock.c expects of it.  Cryptography is ideal: only the server makes  *)
(* messages that pass secsock_rsa_verify, the others are never seen here.  *)
(***************************************************************************)
EXTENDS Naturals, Sequences

CONSTANTS
  MaxAttempts,    \* bounds the attempts
  MaxChallenges,  \* bounds the nonces of the server
  MaxQueue        \* bounds the messages that wait at the socket

ASSUME BoundAssumption == {MaxAttempts, MaxChallenges, MaxQueue} \subseteq Nat

VARIABLES
  phase,         \* "idle" or, in respRegistration, "wait"
  attempt,       \* how many nonces were made: the last one is the nonce of the attempt
  isRegistered,
  dist_key,
  queue,         \* the messages at the socket
  toServer,      \* the messages ever sent to the server
  toEntity,      \* the messages ever sent to this entity
  challenges,    \* how many nonces the server has made
  unanswered,    \* those of them it takes an answer to
  madeFor        \* the nonces it has made a key for, in order: a key is a place here

regTaskVars == << phase, attempt, isRegistered, dist_key >>
serverVars == << challenges, unanswered, madeFor >>
regVars == << regTaskVars, queue, toServer, toEntity, serverVars >>

REQREG == [flag |-> "REQREG"]
Answer(challenge, nonce) == [flag |-> "NONCE", challenge |-> challenge, nonce |-> nonce]

NONCE(challenge) == [flag |-> "NONCE", nonce |-> challenge, key |-> 0]
ACPTREG(nonce, key) == [flag |-> "ACPTREG", nonce |-> nonce, key |-> key]
RJCTREG == [flag |-> "RJCTREG", nonce |-> 0, key |-> 0]
\* A datagram from another address or port.
Other == [flag |-> "OTHER", nonce |-> 0, key |-> 0]

RegInit ==
  /\ phase = "idle" /\ attempt = 0 /\ isRegistered = FALSE /\ dist_key = 0
  /\ queue = << >>
  /\ toServer = {} /\ toEntity = {}
  /\ challenges = 0 /\ unanswered = {} /\ madeFor = << >>

-----------------------------------------------------------------------------
(* The server and the network, which may lose, repeat, delay and reorder.    *)

Challenge ==
  /\ REQREG \in toServer
  /\ challenges < MaxChallenges
  /\ challenges' = challenges + 1
  /\ unanswered' = unanswered \cup {challenges'}
  /\ toEntity' = toEntity \cup {NONCE(challenges')}
  /\ UNCHANGED << regTaskVars, queue, toServer, madeFor >>

IssueKey(challenge, nonce) ==
  /\ Answer(challenge, nonce) \in toServer
  /\ challenge \in unanswered
  /\ unanswered' = unanswered \ {challenge}
  /\ madeFor' = Append(madeFor, nonce)
  /\ toEntity' = toEntity \cup {ACPTREG(nonce, Len(madeFor'))}
  /\ UNCHANGED << regTaskVars, queue, toServer, challenges >>

Refuse ==
  /\ REQREG \in toServer
  /\ toEntity' = toEntity \cup {RJCTREG}
  /\ UNCHANGED << regTaskVars, queue, toServer, serverVars >>

Deliver(m) ==
  /\ Len(queue) < MaxQueue
  /\ queue' = Append(queue, m)
  /\ UNCHANGED << regTaskVars, toServer, toEntity, serverVars >>

-----------------------------------------------------------------------------
(* reqRegistration.                                                          *)

MayRequest == phase = "idle" /\ ~isRegistered

Request ==
  /\ MayRequest
  /\ attempt < MaxAttempts
  /\ toServer' = toServer \cup {REQREG}
  /\ attempt' = attempt + 1
  /\ phase' = "wait"
  /\ UNCHANGED << isRegistered, dist_key, queue, toEntity, serverVars >>

\* secsock_sendto returns 0.  The request may be on its way all the same: FreeRTOS_sendto
\* returns 0 for one it queues while the server's address is not in the ARP cache.
RequestFails ==
  /\ MayRequest
  /\ toServer' \in {toServer, toServer \cup {REQREG}}
  /\ UNCHANGED << regTaskVars, queue, toEntity, serverVars >>

-----------------------------------------------------------------------------
(* respRegistration: one message, or none in time.                           *)

\* A slip: the nonce of the key is not compared.
AnyNonce(m) == TRUE

MyNonce(m) == m.nonce = attempt

Take ==
  /\ phase = "wait"
  /\ queue # << >>
  /\ queue' = Tail(queue)

AnswerChallenge ==
  /\ Take
  /\ Head(queue).flag = "NONCE"
  /\ toServer' = toServer \cup {Answer(Head(queue).nonce, attempt)}
  /\ UNCHANGED << regTaskVars, toEntity, serverVars >>

Register ==
  /\ Take
  /\ Head(queue).flag = "ACPTREG"
  /\ MyNonce(Head(queue))
  /\ dist_key' = Head(queue).key
  /\ isRegistered' = TRUE
  /\ phase' = "idle"
  /\ UNCHANGED << attempt, toServer, toEntity, serverVars >>

\* The task goes on waiting.
PassOver ==
  /\ Take
  /\ Head(queue).flag = "ACPTREG"
  /\ ~MyNonce(Head(queue))
  /\ UNCHANGED << regTaskVars, toServer, toEntity, serverVars >>

GiveUp ==
  /\ Take
  /\ Head(queue).flag \in {"RJCTREG", "OTHER"}
  /\ phase' = "idle"
  /\ UNCHANGED << attempt, isRegistered, dist_key, toServer, toEntity, serverVars >>

\* Nothing came within the socket's receive block time.
TimeOut ==
  /\ phase = "wait"
  /\ queue = << >>
  /\ phase' = "idle"
  /\ UNCHANGED << attempt, isRegistered, dist_key, queue, toServer, toEntity, serverVars >>

-----------------------------------------------------------------------------

ServerAndNetwork ==
  \/ Challenge \/ Refuse
  \/ \E challenge \in unanswered, nonce \in 1..attempt : IssueKey(challenge, nonce)
  \/ \E m \in toEntity \cup {Other} : Deliver(m)

RegTask ==
  \/ Request \/ RequestFails
  \/ AnswerChallenge \/ Register \/ PassOver \/ GiveUp \/ TimeOut

RegNext == ServerAndNetwork \/ RegTask

RegSpec == RegInit /\ [][RegNext]_regVars

-----------------------------------------------------------------------------

Nonce == 1..attempt
MadeKey == 1..Len(madeFor)
ToServer == {REQREG} \cup { Answer(c, n) : c \in 1..challenges, n \in Nonce }
ToEntity == { NONCE(c) : c \in 1..challenges } \cup
            { ACPTREG(n, k) : n \in Nonce, k \in MadeKey } \cup {RJCTREG, Other}

\* Type correctness.
RegTypeOK ==
  /\ phase \in {"idle", "wait"} /\ (phase = "wait" => attempt > 0)
  /\ attempt \in 0..MaxAttempts
  /\ isRegistered \in BOOLEAN
  /\ dist_key \in MadeKey \cup {0}
  /\ queue \in Seq(ToEntity)
  /\ toServer \subseteq ToServer
  /\ toEntity \subseteq ToEntity
  /\ challenges \in 0..MaxChallenges
  /\ unanswered \subseteq 1..challenges
  /\ madeFor \in Seq(Nonce)

\* Every acceptance that is on its way or waits at the socket bears the nonce its key was
\* made for.
AcceptancesHold ==
  /\ \A m \in toEntity : m.flag = "ACPTREG" => madeFor[m.key] = m.nonce
  /\ \A q \in 1..Len(queue) : queue[q].flag = "ACPTREG" => madeFor[queue[q].key] = queue[q].nonce

\* The key of a registered entity was made for the nonce of the attempt that got it, and
\* never for an earlier one, whatever answers of earlier attempts arrive late or twice
\* (secsock.c:111-120).
KeyAnswersAttempt == isRegistered => dist_key \in MadeKey /\ madeFor[dist_key] = attempt

\* The inductive invariant.
RegInv == RegTypeOK /\ AcceptancesHold /\ KeyAnswersAttempt

=============================================================================
