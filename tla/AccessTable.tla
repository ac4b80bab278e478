------------------------------ MODULE AccessTable ------------------------------
(***************************************************************************)
(* The access table of secsock/secsock.c on the serving entity: grants     *)
(* give peers access for some minutes, the LED task stores each grant in   *)
(* from_access_table, looks requests up in it and answers them, while the  *)
(* firewall rule ip_check of led_task.c, in the Ethernet interrupt         *)
(* handler, reads the same table for every frame and zeroes the entries    *)
(* that have expired.  No lock protects the table.                         *)
(*                                                                         *)
(* A message bears a name, is sealed with a key and holds a request or a   *)
(* grant.  The task chooses the key by the name, and takes a request and a *)
(* grant under whichever key opens the message: under the key of the       *)
(* server or under one that came with a grant.  So whoever holds a key may *)
(* write grants, for any peer and with any key it knows.  Cryptography is  *)
(* ideal: what was not sealed with a key is not opened with it.            *)
(*                                                                         *)
(* A name is the sequence of its letters: entries are found with memcmp    *)
(* over the length of the new name and filled with memcpy without the      *)
(* terminating zero.  Names fit into their field.                          *)
(***************************************************************************)
EXTENDS Integers, Sequences, FiniteSets

CONSTANTS
  Letter,      \* the letters of names
  Names,       \* the names messages bear
  authName,    \* the name of the authentication server
  Peer,        \* the peers grants are written for: name and address
  NoIp,        \* 0.0.0.0, in an entry that was never filled
  OtherIp,     \* the address of a host nobody writes a grant for
  MAX_TABLES,
  Minute,      \* 60
  Minutes,     \* the durations of grants
  MaxTime,     \* bounds the clock
  MaxGrants,   \* bounds the number of grants
  MaxInbox     \* bounds the messages that wait at the socket

Address == {NoIp} \cup { p.ip : p \in Peer }

ASSUME NamesAssumption ==
  /\ Names \subseteq Seq(Letter) /\ authName \in Names
  /\ Peer \subseteq [name : Seq(Letter), ip : Address]
ASSUME NumberAssumption ==
  /\ MAX_TABLES \in Nat /\ Minute \in Nat /\ Minutes \subseteq Nat
  /\ MaxTime \in Nat /\ MaxGrants \in Nat /\ MaxInbox \in Nat

VARIABLES
  now,                \* secsock_timeins()
  from_access_table,
  issued,             \* the grants that were written, in order
  inbox,              \* the messages that have passed the firewall
  pc,                 \* where the LED task is
  msg,                \* the message it works on
  current_time,       \* its local of that name
  accessCount,        \* the entry it is filling
  xEntityName,        \* the name of the request it answers
  left,               \* the answers it still has to send
  until,              \* history: when the access each grant gives ends, -1 before it is stored
  request,            \* history: key and address of the entry the request was found in
  response            \* history: key and address of the last answer to it

taskVars == << pc, msg, current_time, accessCount, xEntityName, left, request, response >>
vars == << now, from_access_table, issued, inbox, until, taskVars >>

Slot == 1..MAX_TABLES
Grant == 1..Len(issued)
Key == { issued[g].key : g \in Grant }
NewKey == Len(issued) + 1
NoKey == 0
DistKey == MaxGrants + 1   \* dist_key, which the server shares with this entity
NoGrant == 0

\* The first of some entries, as a set.
First(S) == { i \in S : \A j \in S : i <= j }

Time(i) == from_access_table[i].time
Name(i) == from_access_table[i].entintyName

EmptyEntry == [entintyName |-> << >>, key |-> NoKey, time |-> 0, ip |-> NoIp]
NoMessage == [name |-> << >>, key |-> NoKey, grant |-> NoGrant]
Nobody == [key |-> NoKey, ip |-> NoIp]

Init ==
  /\ now = 0
  /\ from_access_table = [i \in Slot |-> EmptyEntry]
  /\ issued = << >>
  /\ inbox = {}
  /\ pc = "listen"
  /\ msg = NoMessage
  /\ current_time = 0
  /\ accessCount = 0
  /\ xEntityName = << >>
  /\ left = 0
  /\ until = [g \in 1..MaxGrants |-> -1]
  /\ request = Nobody
  /\ response = Nobody

-----------------------------------------------------------------------------
(* The world: the clock, and those who write messages.                       *)

Tick ==
  /\ now < MaxTime
  /\ now' = now + 1
  /\ UNCHANGED << from_access_table, issued, inbox, until, taskVars >>

\* A grant is written, to be sealed with the key by: the server's, with a new key in it,
\* or one that came with a grant, by somebody who knows that key.
Issue(by, p, minutes, key) ==
  /\ Len(issued) < MaxGrants
  /\ by = DistKey => key = NewKey
  /\ issued' = Append(issued, [peer |-> p, minutes |-> minutes, key |-> key, by |-> by])
  /\ UNCHANGED << now, from_access_table, inbox, until, taskVars >>

\* The messages that may be sent: a request (REQCOMM), or a grant (ACKACC) under the key
\* it is sealed with.
Message ==
  { m \in [name : Names, key : Key \cup {DistKey}, grant : Grant \cup {NoGrant}] :
      m.grant \in Grant => m.key = issued[m.grant].by }

-----------------------------------------------------------------------------
(* ip_check, in the interrupt handler: one step.                             *)

\* A slip: any entry in use will do.
AdmittedByInUse(i, src) == Time(i) # 0 /\ from_access_table[i].ip = src

AdmittedBy(i, src) == Time(i) > now /\ from_access_table[i].ip = src

Admits(src) == \E i \in Slot : AdmittedBy(i, src)

\* A slip: every entry before the one that matches is zeroed.
SweepAll(src) ==
  [i \in Slot |-> IF \A j \in 1..i : ~AdmittedBy(j, src)
                    THEN [from_access_table[i] EXCEPT !.time = 0]
                    ELSE from_access_table[i]]

\* The entries that have expired are zeroed, up to the one that matches.
Sweep(src) ==
  [i \in Slot |-> IF Time(i) <= now /\ \A j \in 1..i : ~AdmittedBy(j, src)
                    THEN [from_access_table[i] EXCEPT !.time = 0]
                    ELSE from_access_table[i]]

\* The bound on the messages that wait: few, and they come while the task listens.  One
\* that came earlier is treated alike, for any of them may pass from the server's address.
RoomForMessage == pc = "listen" /\ Cardinality(inbox) < MaxInbox

\* A frame with a message for the task.  The network may deliver it late, more than
\* once, or never.
Frame(src, m) ==
  /\ RoomForMessage
  /\ from_access_table' = Sweep(src)
  /\ inbox' = IF Admits(src) THEN inbox \cup {m} ELSE inbox
  /\ UNCHANGED << now, issued, until, taskVars >>

\* A frame with something else.
OtherFrame(src) ==
  /\ from_access_table' = Sweep(src)
  /\ UNCHANGED << now, issued, inbox, until, taskVars >>

\* A frame from the server's address passes before the table is looked at.
AuthFrame(m) ==
  /\ RoomForMessage
  /\ inbox' = inbox \cup {m}
  /\ UNCHANGED << now, from_access_table, issued, until, taskVars >>

-----------------------------------------------------------------------------
(* secsock_listen, in the LED task.                                          *)

\* The locals are dead when the task waits for the next message.
ListenAgain ==
  /\ pc' = "listen"
  /\ msg' = NoMessage /\ current_time' = 0 /\ accessCount' = 0
  /\ xEntityName' = << >> /\ left' = 0
  /\ request' = Nobody /\ response' = Nobody

FromServer == msg.name = authName

\* secsock_recvfrom returns a message.  Only one that does not bear the server's name
\* needs the table, and the time.
Receive(m) ==
  /\ pc = "listen"
  /\ m \in inbox
  /\ inbox' = inbox \ {m}
  /\ msg' = m
  /\ pc' = "lookup"
  /\ current_time' = IF m.name = authName THEN current_time ELSE now
  /\ UNCHANGED << now, from_access_table, issued, until, accessCount, xEntityName, left,
                  request, response >>

\* The entries of n that are in use.
Entries(n) == { i \in Slot : Time(i) # 0 /\ Name(i) = n }

\* A slip: the time is not compared.
UnexpiredNever(n) == Entries(n)

Unexpired(n) == { i \in Entries(n) : current_time < Time(i) }

\* The search ends at the first entry that has not expired; those before it that have
\* are zeroed.
AfterSearch(n) ==
  [i \in Slot |-> IF i \in Entries(n) \ Unexpired(n) /\ \A j \in Unexpired(n) : i < j
                    THEN [from_access_table[i] EXCEPT !.time = 0]
                    ELSE from_access_table[i]]

Searched == IF FromServer THEN from_access_table ELSE AfterSearch(msg.name)

\* The entry whose key is tried, if it is not the server's, as a set.
KeyEntry == IF FromServer THEN {} ELSE First(Unexpired(msg.name))

OpenedBy(i) == i \in KeyEntry /\ from_access_table[i].key = msg.key

\* The key that the name stands for opens the message.
Opened ==
  \/ FromServer /\ msg.key = DistKey
  \/ \E i \in Slot : OpenedBy(i)

\* A grant, whoever sealed it.
TakeGrant ==
  /\ pc = "lookup"
  /\ Opened /\ msg.grant \in Grant
  /\ from_access_table' = Searched
  /\ pc' = "grant"
  /\ UNCHANGED << now, issued, inbox, until, msg, current_time, accessCount, xEntityName, left,
                  request, response >>

\* A request, which fits the caller's buffer.
Accept ==
  /\ pc = "lookup"
  /\ msg.grant = NoGrant
  /\ \/ /\ FromServer /\ msg.key = DistKey
        /\ request' = [key |-> DistKey, ip |-> NoIp]
     \/ \E i \in Slot :
          /\ OpenedBy(i)
          /\ request' = [key |-> from_access_table[i].key, ip |-> from_access_table[i].ip]
  /\ from_access_table' = Searched
  /\ pc' = "serve"
  /\ xEntityName' = msg.name
  /\ left' = 2
  /\ response' = Nobody
  /\ UNCHANGED << now, issued, inbox, until, msg, current_time, accessCount >>

\* No entry, another key, or a request that is too long.
Reject ==
  /\ pc = "lookup"
  /\ ~(Opened /\ msg.grant \in Grant)
  /\ from_access_table' = Searched
  /\ ListenAgain
  /\ UNCHANGED << now, issued, inbox, until >>

-----------------------------------------------------------------------------
(* The grant, ACKACC.                                                        *)

\* The peer it is written for.
Grantee == issued[msg.grant].peer

\* memcmp(entintyName, n, strlen(n)) = 0
StartsWith(name, n) == Len(n) <= Len(name) /\ \A i \in 1..Len(n) : name[i] = n[i]

\* memcpy(entintyName, n, strlen(n)): what the entry held beyond n stays.
Overlay(name, n) ==
  [i \in 1..(IF Len(n) < Len(name) THEN Len(name) ELSE Len(n)) |-> IF i <= Len(n) THEN n[i] ELSE name[i]]

Matching(n) == { i \in Slot : StartsWith(Name(i), n) }

Free == { i \in Slot : Time(i) = 0 }

\* The two searches.  A sweep between two of their reads can only turn an expired entry
\* into a free one, so each search is one step.
Candidates(n) == IF Matching(n) # {} THEN First(Matching(n)) ELSE First(Free)

\* A slip: an entry that is found by its name is overwritten whatever its time.
StorableAlways(n) == Candidates(n)

\* Only an entry whose time is 0 is filled.
Storable(n) == Candidates(n) \cap Free

\* When an access that is stored now ends.
Ends(g) == now + Minute * issued[g].minutes

\* The name and the time are written first; from here on the handler believes the
\* entry, with the address it had before.
StoreTime ==
  /\ pc = "grant"
  /\ \E i \in Storable(Grantee.name) :
       /\ accessCount' = i
       /\ from_access_table' =
            [from_access_table EXCEPT ![i].entintyName = Overlay(@, Grantee.name),
                                      ![i].time = Ends(msg.grant)]
  /\ until' = [until EXCEPT ![msg.grant] = Ends(msg.grant)]
  /\ pc' = "store"
  /\ UNCHANGED << now, issued, inbox, msg, current_time, xEntityName, left, request, response >>

\* Then the address and the key.
StoreAddress ==
  /\ pc = "store"
  /\ from_access_table' = [from_access_table EXCEPT ![accessCount].ip = Grantee.ip,
                                                    ![accessCount].key = issued[msg.grant].key]
  /\ ListenAgain
  /\ UNCHANGED << now, issued, inbox, until >>

\* The entry of that name is in use.
GrantIgnored ==
  /\ pc = "grant"
  /\ Candidates(Grantee.name) # {} /\ Storable(Grantee.name) = {}
  /\ ListenAgain
  /\ UNCHANGED << now, from_access_table, issued, inbox, until >>

\* "Table over flow"
GrantOverflows ==
  /\ pc = "grant"
  /\ Candidates(Grantee.name) = {}
  /\ ListenAgain
  /\ UNCHANGED << now, from_access_table, issued, inbox, until >>

-----------------------------------------------------------------------------
(* sendResp, called twice for a request.                                     *)

ReadTime ==
  /\ pc = "serve"
  /\ left > 0
  /\ current_time' = now
  /\ pc' = "respond"
  /\ UNCHANGED << now, from_access_table, issued, inbox, until, msg, accessCount, xEntityName,
                  left, request, response >>

Answered ==
  /\ pc' = "serve"
  /\ left' = left - 1
  /\ UNCHANGED << now, issued, inbox, until, msg, current_time, accessCount, xEntityName,
                  request >>

\* A slip: the first entry in use is taken, whatever its name.
ResponseEntryAny == First({ i \in Slot : Time(i) # 0 })

\* The first entry of that name, if there is one.
ResponseEntry == First(Entries(xEntityName))

Respond ==
  /\ pc = "respond"
  /\ \E i \in ResponseEntry :
       IF current_time < Time(i)
         THEN /\ response' = [key |-> from_access_table[i].key, ip |-> from_access_table[i].ip]
              /\ UNCHANGED from_access_table
         ELSE /\ from_access_table' = [from_access_table EXCEPT ![i].time = 0]
              /\ UNCHANGED response
  /\ Answered

\* "Could not find entry"
RespondNowhere ==
  /\ pc = "respond"
  /\ ResponseEntry = {}
  /\ UNCHANGED << from_access_table, response >>
  /\ Answered

\* The request is done with.
Served ==
  /\ pc = "serve"
  /\ left = 0
  /\ ListenAgain
  /\ UNCHANGED << now, from_access_table, issued, inbox, until >>

-----------------------------------------------------------------------------

World ==
  \/ Tick
  \/ \E by \in Key \cup {DistKey}, p \in Peer, minutes \in Minutes, key \in Key \cup {NewKey} :
       Issue(by, p, minutes, key)

Isr ==
  \/ \E src \in Address \cup {OtherIp} : OtherFrame(src)
  \/ \E m \in Message : AuthFrame(m) \/ \E src \in Address \cup {OtherIp} : Frame(src, m)

LedTask ==
  \/ \E m \in inbox : Receive(m)
  \/ TakeGrant \/ Accept \/ Reject
  \/ StoreTime \/ StoreAddress \/ GrantIgnored \/ GrantOverflows
  \/ ReadTime \/ Respond \/ RespondNowhere \/ Served

Next == World \/ Isr \/ LedTask

Spec == Init /\ [][Next]_vars

-----------------------------------------------------------------------------

GrantType == [peer : Peer, minutes : Minutes, key : 1..MaxGrants, by : 1..DistKey]
EntryType == [entintyName : Seq(Letter), key : 0..MaxGrants, time : Nat, ip : Address]

\* Type correctness.
TypeOK ==
  /\ now \in 0..MaxTime
  /\ from_access_table \in [Slot -> EntryType]
  /\ issued \in Seq(GrantType)
  /\ Len(issued) <= MaxGrants
  /\ inbox \subseteq Message
  /\ pc \in {"listen", "lookup", "grant", "store", "serve", "respond"}
  /\ msg \in Message \cup {NoMessage}
  /\ current_time \in 0..now
  /\ accessCount \in Slot \cup {0}
  /\ xEntityName \in Names \cup {<< >>}
  /\ left \in 0..2
  /\ until \in [1..MaxGrants -> Nat \cup {-1}]
  /\ request \in [key : 0..DistKey, ip : Address]
  /\ response \in [key : 0..MaxGrants, ip : Address]

\* What each place of the LED task knows of its locals.
LocalsOK ==
  /\ pc # "listen" => msg \in Message
  /\ pc \in {"grant", "store"} => msg.grant \in Grant
  /\ pc = "store" => accessCount \in Slot /\ until[msg.grant] >= 0
  /\ pc = "respond" => left > 0

\* No access ends later than a grant that arrives now would make it end.
UntilOK ==
  /\ \A g \in Grant : until[g] <= Ends(g)
  /\ \A g \in (1..MaxGrants) \ Grant : until[g] = -1

\* No two entries bear the same name, although names are compared up to the length of
\* the new one and written over what the entry held (secsock.c:622-647): so the search
\* for a peer finds one entry or none.
NamesDistinct == \A i, j \in Slot : i # j /\ Name(i) # << >> => Name(i) # Name(j)

\* A grant for the empty name is stored in the first entry or nowhere.
EmptyNameFirst == \A i \in Slot : Time(i) # 0 /\ Name(i) = << >> => i = 1

\* The grants that were stored, and those among them whose access lasts at t.
Stored == { g \in Grant : until[g] >= 0 }
LiveAt(t) == { g \in Grant : until[g] > t }

\* The key and the address of entry i are those of grant g.
Filled(i, g) ==
  from_access_table[i].key = issued[g].key /\ from_access_table[i].ip = issued[g].peer.ip

\* An entry in use belongs to one grant, which brought its key and its address, to whose
\* name its own name begins and whose access does not end before it.
BelongsTo(i, g) ==
  Filled(i, g) /\ StartsWith(Name(i), issued[g].peer.name) /\ Time(i) <= until[g]

\* While an entry is being filled only its name and its end are those of the new grant;
\* its address and its key are those it had before (secsock.c:645-656).
EntriesGranted ==
  \A i \in Slot :
    /\ from_access_table[i].ip = NoIp \/ \E g \in Stored : Filled(i, g)
    /\ Time(i) # 0 =>
         IF pc = "store" /\ accessCount = i
           THEN StartsWith(Name(i), Grantee.name) /\ Time(i) <= until[msg.grant]
           ELSE \E g \in Grant : BelongsTo(i, g)

\* While a request is served, the entry of that name, if it is still in use, holds the
\* key and the address under which the request was found.
Serving ==
  pc \in {"serve", "respond"} /\ request.key # DistKey =>
    \A i \in Entries(xEntityName) :
      from_access_table[i].key = request.key /\ from_access_table[i].ip = request.ip

\* An entry that has not expired is neither dropped nor overwritten, by no interleaving
\* of the sweep in the handler (led_task.c:135), the searches with a time that is no
\* longer current (secsock.c:588-605, 684-706) and the grants, of which one that arrives
\* a second time finds its entry in use and does not prolong it.
KeepsUnexpired ==
  [][ \A i \in Slot : Time(i) > now =>
        /\ Name(i)' = Name(i) /\ Time(i)' = Time(i)
        /\ ~(pc = "store" /\ accessCount = i) =>
             from_access_table'[i] = from_access_table[i] ]_vars

\* Between any two writes of the LED task the handler admits an address only while the
\* access of a grant for that address lasts.  There is one window in which the code does
\* not keep to this: an entry that is being filled already has its new end while it
\* still has its old address (secsock.c:649-651).  What is admitted in the window is
\* 0.0.0.0, or an address that entry gave access to before.
AdmitsOnlyGranted ==
  \A i \in Slot : \A src \in Address :
    AdmittedBy(i, src) =>
      \/ \E g \in LiveAt(now) : issued[g].peer.ip = src
      \/ /\ pc = "store" /\ accessCount = i
         /\ src = NoIp \/ \E g \in Stored : Filled(i, g) /\ issued[g].peer.ip = src

\* Whoever wrote g was given access: it is the server, or somebody who holds the key of
\* another grant that was stored.
Vouched(g) ==
  issued[g].by = DistKey \/ \E h \in Stored \ {g} : issued[h].key = issued[g].by

\* A request is served, and a grant is taken, only under the server's key from the
\* server's name, or under the key of a grant whose access was not over when the name
\* was looked up and whose name the message's begins with - although entries are found
\* by a prefix of their name and filled one field at a time, and although a grant is
\* taken under any of these keys (secsock.c:582-620).  So every access goes back to the
\* server through grants that were stored themselves.
HeardUnderLiveGrant ==
  /\ pc = "grant" \/ (pc = "serve" /\ left = 2) =>
       IF FromServer THEN msg.key = DistKey
       ELSE \E g \in LiveAt(current_time) :
              issued[g].key = msg.key /\ StartsWith(msg.name, issued[g].peer.name)
  /\ \A g \in Stored : Vouched(g)

\* The answer to a request under the key of a grant goes out under that key and to the
\* address that was granted with it, although sendResp searches the table again, later
\* (secsock.c:691-729).  A request under the server's own key is answered, if at all,
\* under the key of an entry that bears the server's name.
ResponseUnderRequestKey ==
  response # Nobody /\ request.key # DistKey => response = request

\* The inductive invariant: no step of the handler, which runs between any two steps of
\* the task, leaves an entry in use that belongs to no grant or that two names find.
IInv ==
  /\ TypeOK /\ LocalsOK /\ UntilOK
  /\ NamesDistinct /\ EmptyNameFirst /\ EntriesGranted /\ Serving
  /\ HeardUnderLiveGrant /\ ResponseUnderRequestKey

=============================================================================
