---------------------------- MODULE SecSock_proofs ----------------------------
(***************************************************************************)
(* Proofs about the two halves of secsock.c.  AccessTable, for every set   *)
(* of peers, every size of the table and every clock: whatever the         *)
(* interleaving of the LED task and the handler, an entry in use belongs   *)
(* to one grant.  Registration, for any number of attempts,    *)
(* challenges and waiting messages.                                        *)
(***************************************************************************)
EXTENDS AccessTable, Registration, SequenceTheorems, TLAPS

-----------------------------------------------------------------------------
(* Names.                                                                    *)

\* memcmp and memcpy over the length of n (secsock.c:626, 647): what is stored under n
\* starts with n, and what starts with n already does not change.
LEMMA OverlayFacts ==
  ASSUME NEW name \in Seq(Letter), NEW n \in Seq(Letter)
  PROVE  /\ Overlay(name, n) \in Seq(Letter)
         /\ StartsWith(Overlay(name, n), n)
         /\ StartsWith(name, n) => Overlay(name, n) = name
<1> DEFINE size == IF Len(n) < Len(name) THEN Len(name) ELSE Len(n)
<1>1. /\ Len(name) \in Nat /\ name \in [1..Len(name) -> Letter]
      /\ Len(n) \in Nat /\ n \in [1..Len(n) -> Letter]
  BY LenProperties
<1>2. size \in Nat /\ Len(n) <= size /\ Len(name) <= size
  BY <1>1
<1>3. Overlay(name, n) = [i \in 1..size |-> IF i <= Len(n) THEN n[i] ELSE name[i]]
  BY DEF Overlay
<1>4. ASSUME NEW i \in 1..size
      PROVE  (IF i <= Len(n) THEN n[i] ELSE name[i]) \in Letter
  BY <1>1, <1>2
<1> HIDE DEF size
<1>5. Overlay(name, n) \in [1..size -> Letter]
  BY <1>3, <1>4
<1>6. Overlay(name, n) \in Seq(Letter) /\ Len(Overlay(name, n)) = size
  BY <1>2, <1>5
<1>7. StartsWith(Overlay(name, n), n)
  BY <1>1, <1>2, <1>3, <1>6 DEF StartsWith
<1>8. ASSUME StartsWith(name, n)
      PROVE  Overlay(name, n) = name
  <2>0. Len(n) <= Len(name) /\ Len(n) \in Nat /\ Len(name) \in Nat
    BY <1>1, <1>8 DEF StartsWith
  <2>1. size = Len(name)
    BY <2>0 DEF size
  <2>2. \A i \in 1..Len(name) : Overlay(name, n)[i] = name[i]
    BY <1>1, <1>3, <1>8, <2>1 DEF StartsWith
  <2>. QED BY <1>6, <2>1, <2>2, SeqEqual
<1>. QED BY <1>6, <1>7, <1>8

\* A name starts with itself, so names of which one does not start with the other differ.
LEMMA StartsWithItself ==
  ASSUME NEW n \in Seq(Letter)
  PROVE  StartsWith(n, n)
BY LenProperties DEF StartsWith

-----------------------------------------------------------------------------
(* Grants, keys and messages.                                                *)

\* What a grant is.
LEMMA GrantFacts ==
  ASSUME TypeOK, NEW g \in Grant
  PROVE  /\ g \in 1..MaxGrants
         /\ issued[g] \in GrantType
         /\ issued[g].peer.name \in Seq(Letter)
         /\ issued[g].peer.ip \in Address
         /\ issued[g].key \in 1..MaxGrants
         /\ Ends(g) \in Nat
         /\ until[g] \in Nat \cup {-1}
<1>1. Len(issued) \in Nat /\ g \in 1..Len(issued)
  BY LenProperties DEF TypeOK, Grant
<1>2. issued[g] \in GrantType
  BY <1>1, ElementOfSeq DEF TypeOK
<1>3. issued[g].peer \in [name : Seq(Letter), ip : Address] /\ issued[g].minutes \in Nat
  BY <1>2, NumberAssumption, NamesAssumption DEF GrantType
<1>4. Minute * issued[g].minutes \in Nat
  BY <1>3, NumberAssumption
<1>5. Ends(g) \in Nat
  BY <1>4 DEF Ends, TypeOK
<1>6. g \in 1..MaxGrants
  BY <1>1, NumberAssumption DEF TypeOK
<1>. QED BY <1>2, <1>3, <1>5, <1>6 DEF GrantType, TypeOK

LEMMA KeyFacts ==
  ASSUME TypeOK
  PROVE  Key \subseteq 1..MaxGrants
BY GrantFacts DEF Key

\* What a message is, and that it stays one while no grant is written.
LEMMA MessageFacts ==
  ASSUME TypeOK, NEW m \in Message
  PROVE  /\ m.name \in Names /\ m.name \in Seq(Letter)
         /\ m.key \in 0..DistKey
         /\ m.grant \in Grant \/ m.grant = NoGrant
         /\ m.grant \in Grant => m.key = issued[m.grant].by
<1>1. m.key \in Key \cup {DistKey}
  BY DEF Message
<1>2. DistKey \in Nat /\ DistKey = MaxGrants + 1 /\ MaxGrants \in Nat
  BY NumberAssumption DEF DistKey
<1>3. m.key \in 0..DistKey
  BY <1>1, <1>2, KeyFacts
<1>. QED BY <1>3, NamesAssumption DEF Message

LEMMA SameMessages ==
  ASSUME UNCHANGED issued
  PROVE  Grant' = Grant /\ Key' = Key /\ Message' = Message
BY DEF Grant, Key, Message

\* What every step but those of the grant does to the table: entries are freed.
Freed ==
  /\ from_access_table' \in [Slot -> EntryType]
  /\ \A i \in Slot :
       /\ Name(i)' = Name(i)
       /\ from_access_table'[i].key = from_access_table[i].key
       /\ from_access_table'[i].ip = from_access_table[i].ip
       /\ Time(i)' = Time(i) \/ (Time(i)' = 0 /\ Time(i) <= now)

\* A function with some entries freed.
LEMMA FreedSome ==
  ASSUME TypeOK, NEW S, \A i \in Slot \cap S : Time(i) <= now,
         from_access_table' = [i \in Slot |-> IF i \in S
                                                THEN [from_access_table[i] EXCEPT !.time = 0]
                                                ELSE from_access_table[i]]
  PROVE  Freed
<1>1. ASSUME NEW i \in Slot
      PROVE  /\ from_access_table'[i] \in EntryType
             /\ Name(i)' = Name(i)
             /\ from_access_table'[i].key = from_access_table[i].key
             /\ from_access_table'[i].ip = from_access_table[i].ip
             /\ Time(i)' = Time(i) \/ (Time(i)' = 0 /\ Time(i) <= now)
  <2>1. from_access_table[i] \in EntryType
    BY DEF TypeOK
  <2>2. CASE i \in S
    BY <2>1, <2>2 DEF Name, Time, EntryType
  <2>3. CASE i \notin S
    BY <2>1, <2>3 DEF Name, Time, EntryType
  <2>. QED BY <2>2, <2>3
<1>. QED BY <1>1 DEF Freed

LEMMA SweepFrees ==
  ASSUME TypeOK, NEW src, from_access_table' = Sweep(src)
  PROVE  Freed
<1> DEFINE S == { i \in Slot : Time(i) <= now /\ \A j \in 1..i : ~AdmittedBy(j, src) }
<1>1. from_access_table' = [i \in Slot |-> IF i \in S
                                             THEN [from_access_table[i] EXCEPT !.time = 0]
                                             ELSE from_access_table[i]]
  BY DEF Sweep
<1>2. \A i \in Slot \cap S : Time(i) <= now
  OBVIOUS
<1> HIDE DEF S
<1>. QED BY <1>1, <1>2, FreedSome

LEMMA UnchangedFrees ==
  ASSUME TypeOK, UNCHANGED from_access_table
  PROVE  Freed
BY DEF TypeOK, Freed, Name, Time

LEMMA SearchFrees ==
  ASSUME TypeOK, from_access_table' = Searched
  PROVE  Freed
<1>1. CASE FromServer
  BY <1>1, UnchangedFrees DEF Searched
<1>2. CASE ~FromServer
  <2> DEFINE n == msg.name
  <2> DEFINE S == { i \in Slot : i \in Entries(n) \ Unexpired(n) /\ \A j \in Unexpired(n) : i < j }
  <2>1. from_access_table' = [i \in Slot |-> IF i \in S
                                               THEN [from_access_table[i] EXCEPT !.time = 0]
                                               ELSE from_access_table[i]]
    BY <1>2 DEF AfterSearch, Searched
  <2>2. ASSUME NEW i \in Slot \cap S
        PROVE  Time(i) <= now
    <3>1. Time(i) \in Nat /\ ~(current_time < Time(i))
      BY DEF Unexpired, TypeOK, Time, EntryType
    <3>. QED BY <3>1 DEF TypeOK
  <2> HIDE DEF S
  <2>. QED BY <2>1, <2>2, FreedSome
<1>. QED BY <1>1, <1>2

\* Respond frees the entry it finds expired, or none.
LEMMA RespondFrees ==
  ASSUME TypeOK, NEW i \in Slot,
         ~(current_time < Time(i)),
         from_access_table' = [from_access_table EXCEPT ![i].time = 0]
  PROVE  Freed
<1>1. Time(i) <= now
  BY DEF TypeOK, Time, EntryType
<1>2. from_access_table' = [j \in Slot |-> IF j \in {i}
                                             THEN [from_access_table[j] EXCEPT !.time = 0]
                                             ELSE from_access_table[j]]
  BY DEF TypeOK
<1>. QED BY <1>1, <1>2, FreedSome

-----------------------------------------------------------------------------
(* What freeing entries leaves true.                                         *)

\* A step that only frees entries and does not enter or leave the filling of one.
LEMMA FreedKeepsEntries ==
  ASSUME IInv, Freed, UNCHANGED << issued, until >>,
         \/ pc = "store" /\ UNCHANGED << pc, accessCount, msg >>
         \/ pc # "store" /\ pc' # "store"
  PROVE  NamesDistinct' /\ EmptyNameFirst' /\ EntriesGranted'
<1>1. NamesDistinct' /\ EmptyNameFirst'
  BY DEF IInv, NamesDistinct, EmptyNameFirst, Freed
<1>2. Grant' = Grant /\ Stored' = Stored
  BY DEF Grant, Stored
<1>3. ASSUME NEW i \in Slot
      PROVE  from_access_table'[i].ip = NoIp \/ \E g \in Stored' : Filled(i, g)'
  <2>1. from_access_table[i].ip = NoIp \/ \E g \in Stored : Filled(i, g)
    BY DEF IInv, EntriesGranted
  <2>2. \A g : Filled(i, g) => Filled(i, g)'
    BY DEF Freed, Filled
  <2>3. from_access_table'[i].ip = from_access_table[i].ip
    BY DEF Freed
  <2>. QED BY <1>2, <2>1, <2>2, <2>3
<1>4. ASSUME NEW i \in Slot, Time(i)' # 0
      PROVE  IF pc' = "store" /\ accessCount' = i
               THEN StartsWith(Name(i)', Grantee'.name) /\ Time(i)' <= until'[msg'.grant]
               ELSE \E g \in Grant' : BelongsTo(i, g)'
  <2>1. Time(i) # 0 /\ Time(i)' = Time(i) /\ Name(i)' = Name(i)
    BY <1>4 DEF Freed
  <2>2. CASE pc' = "store" /\ accessCount' = i
    <3>1. pc = "store" /\ accessCount = i /\ msg' = msg /\ Grantee' = Grantee
      BY <2>2 DEF Grantee
    <3>. QED BY <2>1, <2>2, <3>1 DEF IInv, EntriesGranted
  <2>3. CASE ~(pc' = "store" /\ accessCount' = i)
    <3>1. PICK g \in Grant : BelongsTo(i, g)
      BY <2>1, <2>3 DEF IInv, EntriesGranted
    <3>2. BelongsTo(i, g)'
      BY <2>1, <3>1 DEF BelongsTo, Filled, Freed
    <3>. QED BY <1>2, <2>3, <3>2
  <2>. QED BY <2>2, <2>3
<1>5. EntriesGranted'
  BY <1>3, <1>4 DEF EntriesGranted
<1>. QED BY <1>1, <1>5

\* A step that only frees entries while a request is served.
LEMMA FreedKeepsServing ==
  ASSUME IInv, Freed, UNCHANGED << request, xEntityName >>,
         pc' \in {"serve", "respond"} => pc \in {"serve", "respond"}
  PROVE  Serving'
<1>1. Entries(xEntityName)' \subseteq Entries(xEntityName)
  BY DEF Freed, Entries
<1>2. \A i \in Slot : /\ from_access_table'[i].key = from_access_table[i].key
                      /\ from_access_table'[i].ip = from_access_table[i].ip
  BY DEF Freed
<1>3. Entries(xEntityName) \subseteq Slot
  BY DEF Entries
<1>. QED BY <1>1, <1>2, <1>3 DEF IInv, Serving

\* A step that stores no grant.
LEMMA UntilKept ==
  ASSUME IInv, UNCHANGED << issued, until >>, now' = now \/ now' = now + 1
  PROVE  UntilOK'
<1>1. Grant' = Grant
  BY DEF Grant
<1>2. ASSUME NEW g \in Grant
      PROVE  until'[g] <= Ends(g)'
  <2>1. until[g] \in Nat \cup {-1} /\ until[g] <= Ends(g) /\ Ends(g) \in Nat
    BY GrantFacts DEF IInv, UntilOK
  <2> DEFINE duration == Minute * issued[g].minutes
  <2>a. issued[g].minutes \in Nat
    BY GrantFacts, NumberAssumption DEF IInv, GrantType
  <2>2. duration \in Int
    BY <2>a, NumberAssumption
  <2>3. Ends(g) = now + duration /\ Ends(g)' = now' + duration
    BY DEF Ends
  <2> HIDE DEF duration
  <2>. QED BY <2>1, <2>2, <2>3 DEF IInv, TypeOK
<1>. QED BY <1>1, <1>2 DEF IInv, UntilOK

\* A step that stores no grant leaves those that are stored vouched for.
LEMMA VouchingKept ==
  ASSUME IInv, UNCHANGED << issued, until >>
  PROVE  \A g \in Stored' : Vouched(g)'
BY DEF IInv, HeardUnderLiveGrant, Stored, Vouched, Grant

\* A step that changes nothing of the message that is worked on.
LEMMA MessageKept ==
  ASSUME IInv, UNCHANGED << issued, until, pc, msg, left, request, xEntityName, current_time, response >>
  PROVE  HeardUnderLiveGrant' /\ ResponseUnderRequestKey'
<1>1. Grant' = Grant /\ Stored' = Stored
  BY DEF Grant, Stored
<1>2. \A t : LiveAt(t)' = LiveAt(t)
  BY DEF LiveAt, Grant
<1>3. \A g : Vouched(g)' <=> Vouched(g)
  BY <1>1 DEF Vouched
<1>. QED BY <1>1, <1>2, <1>3
         DEF IInv, HeardUnderLiveGrant, ResponseUnderRequestKey, FromServer, LiveAt

\* Back at the top of the loop.
LEMMA ListenFacts ==
  ASSUME IInv, ListenAgain, UNCHANGED << now, issued, until >>,
         inbox' = inbox,
         from_access_table' \in [Slot -> EntryType]
  PROVE  TypeOK' /\ LocalsOK' /\ Serving' /\ HeardUnderLiveGrant' /\ ResponseUnderRequestKey'
<1>1. Message' = Message
  BY SameMessages
<1>2. NoIp \in Address /\ DistKey \in Nat
  BY NumberAssumption DEF Address, DistKey
<1>3. TypeOK'
  BY <1>1, <1>2, NumberAssumption DEF IInv, TypeOK, ListenAgain, NoMessage, Nobody, NoKey
<1>4. HeardUnderLiveGrant'
  BY VouchingKept DEF ListenAgain, HeardUnderLiveGrant
<1>. QED BY <1>3, <1>4 DEF ListenAgain, LocalsOK, Serving, ResponseUnderRequestKey

-----------------------------------------------------------------------------
(* The inductive invariant: initially, and one lemma for each kind of step.  *)

LEMMA InitInvariant == Init => IInv
<1>. SUFFICES ASSUME Init PROVE IInv
  OBVIOUS
<1>1. issued \in Seq(GrantType) /\ Len(issued) = 0
  BY EmptySeq DEF Init
<1>2. << >> \in Seq(Letter)
  BY EmptySeq
<1>3. NoIp \in Address /\ DistKey \in Nat
  BY NumberAssumption DEF Address, DistKey
<1>4. from_access_table \in [Slot -> EntryType]
  BY <1>2, <1>3, NumberAssumption DEF Init, EmptyEntry, NoKey, EntryType
<1>5. TypeOK
  BY <1>1, <1>3, <1>4, NumberAssumption DEF Init, TypeOK, Nobody, NoKey
<1>6. Grant = {}
  BY <1>1 DEF Grant
<1>7. \A i \in Slot : Time(i) = 0 /\ Name(i) = << >> /\ from_access_table[i].ip = NoIp
  BY DEF Init, Time, Name, EmptyEntry
<1>8. UntilOK
  BY <1>6 DEF Init, UntilOK
<1>9. NamesDistinct /\ EmptyNameFirst /\ EntriesGranted
  BY <1>7 DEF NamesDistinct, EmptyNameFirst, EntriesGranted
<1>10. LocalsOK /\ Serving /\ ResponseUnderRequestKey
  BY DEF Init, LocalsOK, Serving, ResponseUnderRequestKey
<1>11. HeardUnderLiveGrant
  BY <1>6 DEF Init, HeardUnderLiveGrant, Stored
<1>. QED BY <1>5, <1>8, <1>9, <1>10, <1>11 DEF IInv

\* A tick, and a frame in the handler: the LED task is where it was.
LEMMA WorldInvariant ==
  ASSUME IInv, Freed, now' \in 0..MaxTime, now' = now \/ now' = now + 1, inbox' \subseteq Message,
         UNCHANGED << issued, until, taskVars >>
  PROVE  IInv'
<1>1. Grant' = Grant /\ Message' = Message
  BY SameMessages
<1>2. current_time' \in 0..now'
  BY NumberAssumption DEF IInv, TypeOK, taskVars
<1>3. TypeOK'
  BY <1>1, <1>2 DEF IInv, TypeOK, taskVars, Freed
<1>4. NamesDistinct' /\ EmptyNameFirst' /\ EntriesGranted'
  BY FreedKeepsEntries DEF taskVars
<1>5. Serving'
  BY FreedKeepsServing DEF taskVars
<1>6. UntilOK'
  BY UntilKept
<1>7. HeardUnderLiveGrant' /\ ResponseUnderRequestKey'
  BY MessageKept DEF taskVars
<1>8. LocalsOK'
  BY <1>1 DEF taskVars, IInv, LocalsOK
<1>. QED BY <1>3, <1>4, <1>5, <1>6, <1>7, <1>8 DEF IInv

LEMMA IssueInvariant ==
  ASSUME IInv, NEW by \in Key \cup {DistKey}, NEW p \in Peer, NEW minutes \in Minutes,
         NEW key \in Key \cup {NewKey}, Issue(by, p, minutes, key)
  PROVE  IInv'
<1> DEFINE grant == [peer |-> p, minutes |-> minutes, key |-> key, by |-> by]
<1>0. PICK new \in Nat : new = Len(issued) + 1
  BY LenProperties DEF IInv, TypeOK
<1>a. /\ Len(issued) < MaxGrants /\ issued' = Append(issued, grant)
      /\ UNCHANGED << now, from_access_table, inbox, until, taskVars >>
  BY DEF Issue
<1>b. /\ key \in 1..MaxGrants /\ by \in 1..DistKey
  BY <1>0, <1>a, KeyFacts, NumberAssumption DEF IInv, TypeOK, NewKey, DistKey
<1>c. grant \in GrantType
  BY <1>b DEF GrantType
<1> HIDE DEF grant
<1>1. /\ issued' \in Seq(GrantType)
      /\ Len(issued) \in Nat
      /\ Len(issued') = new
      /\ \A g \in 1..Len(issued) : issued'[g] = issued[g]
      /\ issued'[new] = grant
  BY <1>0, <1>a, <1>c, AppendProperties, LenProperties DEF IInv, TypeOK
<1>2. /\ Grant' = Grant \cup {new}
      /\ new \in (1..MaxGrants) \ Grant
      /\ \A g \in Grant : issued'[g] = issued[g]
  BY <1>0, <1>1, <1>a, NumberAssumption DEF Grant
<1>3. Message \subseteq Message'
  <2>1. Key \subseteq Key'
    BY <1>2 DEF Key
  <2>2. NoGrant \notin Grant' /\ NoGrant \notin Grant
    BY <1>2 DEF NoGrant, Grant
  <2>3. ASSUME NEW m \in Message
        PROVE  m \in Message'
    <3>1. /\ m \in [name : Names, key : Key \cup {DistKey}, grant : Grant \cup {NoGrant}]
          /\ m.grant \in Grant => m.key = issued[m.grant].by
      BY DEF Message
    <3>2. m \in [name : Names, key : Key' \cup {DistKey}, grant : Grant' \cup {NoGrant}]
      BY <1>2, <2>1, <3>1
    <3>3. m.grant \in Grant' => m.grant \in Grant
      BY <2>2, <3>1
    <3>. QED BY <1>2, <3>1, <3>2, <3>3 DEF Message
  <2>. QED BY <2>3
<1>4. TypeOK'
  BY <1>0, <1>1, <1>3, <1>a, NumberAssumption DEF IInv, TypeOK, taskVars
<1>5. ASSUME NEW g \in Grant
      PROVE  until'[g] <= Ends(g)'
  BY <1>2, <1>a DEF IInv, UntilOK, Ends
<1>6. until'[new] = -1
  BY <1>2, <1>a DEF IInv, UntilOK
<1>6a. until'[new] <= Ends(new)'
  <2>1. Ends(new)' = now' + Minute * minutes
    BY <1>1 DEF Ends, grant
  <2>2. Minute * minutes \in Nat
    BY NumberAssumption
  <2>. QED BY <1>4, <1>6, <2>1, <2>2 DEF TypeOK
<1>7. UntilOK'
  BY <1>2, <1>5, <1>6a, <1>a DEF IInv, UntilOK
<1>8. NamesDistinct' /\ EmptyNameFirst'
  BY <1>a DEF IInv, NamesDistinct, EmptyNameFirst, Name, Time
<1>9. Stored' = Stored
  BY <1>2, <1>6, <1>a DEF Stored
<1>10. ASSUME NEW g \in Grant, NEW i \in Slot
       PROVE  (Filled(i, g) => Filled(i, g)') /\ (BelongsTo(i, g) => BelongsTo(i, g)')
  BY <1>2, <1>a DEF Filled, BelongsTo, Name, Time
<1>11. LocalsOK'
  BY <1>2, <1>3, <1>a DEF IInv, LocalsOK, taskVars
<1>12. Stored \subseteq Grant
  BY DEF Stored
<1>13. EntriesGranted'
  <2>1. ASSUME NEW i \in Slot
        PROVE  from_access_table'[i].ip = NoIp \/ \E g \in Stored' : Filled(i, g)'
    BY <1>9, <1>10, <1>12, <1>a DEF IInv, EntriesGranted
  <2>2. ASSUME NEW i \in Slot, Time(i)' # 0
        PROVE  IF pc' = "store" /\ accessCount' = i
                 THEN StartsWith(Name(i)', Grantee'.name) /\ Time(i)' <= until'[msg'.grant]
                 ELSE \E g \in Grant' : BelongsTo(i, g)'
    <3>1. Time(i) # 0 /\ Time(i)' = Time(i) /\ Name(i)' = Name(i)
      BY <1>a, <2>2 DEF Time, Name
    <3>2. CASE pc = "store" /\ accessCount = i
      <4>1. msg.grant \in Grant /\ Grantee' = Grantee
        BY <1>2, <1>a, <3>2 DEF IInv, LocalsOK, Grantee, taskVars
      <4>. QED BY <1>a, <3>1, <3>2, <4>1 DEF IInv, EntriesGranted, taskVars
    <3>3. CASE ~(pc = "store" /\ accessCount = i)
      <4>1. PICK g \in Grant : BelongsTo(i, g)
        BY <3>1, <3>3 DEF IInv, EntriesGranted
      <4>. QED BY <1>2, <1>10, <1>a, <3>3, <4>1 DEF taskVars
    <3>. QED BY <3>2, <3>3
  <2>. QED BY <2>1, <2>2 DEF EntriesGranted
<1>14. Serving' /\ ResponseUnderRequestKey'
  BY <1>a DEF IInv, Serving, ResponseUnderRequestKey, taskVars, Entries, Time, Name
<1>15. HeardUnderLiveGrant'
  <2>1. \A g \in Stored' : Vouched(g)'
    BY <1>2, <1>9, <1>12 DEF IInv, HeardUnderLiveGrant, Vouched
  <2>2. LiveAt(current_time)' = LiveAt(current_time)
    <3>1. ~(until'[new] > current_time)
      BY <1>6 DEF IInv, TypeOK
    <3>. QED BY <1>2, <1>a, <3>1 DEF LiveAt, taskVars
  <2>3. LiveAt(current_time) \subseteq Grant
    BY DEF LiveAt
  <2>. QED BY <1>2, <1>a, <2>1, <2>2, <2>3 DEF IInv, HeardUnderLiveGrant, FromServer, taskVars
<1>. QED BY <1>4, <1>7, <1>8, <1>11, <1>13, <1>14, <1>15 DEF IInv

LEMMA ReceiveInvariant ==
  ASSUME IInv, NEW m \in inbox, Receive(m)
  PROVE  IInv'
<1>. USE DEF Receive
<1>1. Message' = Message /\ m \in Message
  BY SameMessages DEF IInv, TypeOK
<1>2. current_time' \in 0..now'
  BY DEF IInv, TypeOK
<1>3. TypeOK'
  BY <1>1, <1>2 DEF IInv, TypeOK
<1>4. Freed
  BY UnchangedFrees DEF IInv
<1>5. NamesDistinct' /\ EmptyNameFirst' /\ EntriesGranted'
  BY <1>4, FreedKeepsEntries
<1>6. LocalsOK' /\ Serving'
  BY <1>1 DEF LocalsOK, Serving
<1>7. UntilOK'
  BY UntilKept
<1>8. HeardUnderLiveGrant'
  BY VouchingKept DEF HeardUnderLiveGrant
<1>9. ResponseUnderRequestKey'
  BY DEF IInv, ResponseUnderRequestKey
<1>. QED BY <1>3, <1>5, <1>6, <1>7, <1>8, <1>9 DEF IInv

\* A name finds one entry or none.
LEMMA OneEntry ==
  ASSUME IInv, NEW n, NEW i \in Entries(n), NEW j \in Entries(n)
  PROVE  i = j
BY DEF IInv, Entries, NamesDistinct, EmptyNameFirst

\* The key that opens a message is the server's, or that of a grant whose access was not
\* over when the name was looked up.
LEMMA OpenedFacts ==
  ASSUME IInv, pc = "lookup"
  PROVE  /\ \A i \in Slot : OpenedBy(i) => ~FromServer /\ i \in Entries(msg.name)
         /\ Opened => IF FromServer THEN msg.key = DistKey
                      ELSE \E g \in LiveAt(current_time) :
                             issued[g].key = msg.key /\ StartsWith(msg.name, issued[g].peer.name)
<1>1. ASSUME NEW i \in Slot, OpenedBy(i)
      PROVE  /\ ~FromServer /\ i \in Entries(msg.name) /\ current_time < Time(i)
             /\ from_access_table[i].key = msg.key
  BY <1>1 DEF OpenedBy, KeyEntry, First, Unexpired
<1>2. ASSUME NEW i \in Slot, OpenedBy(i)
      PROVE  \E g \in LiveAt(current_time) :
               issued[g].key = msg.key /\ StartsWith(msg.name, issued[g].peer.name)
  <2>1. Time(i) # 0 /\ Name(i) = msg.name
    BY <1>1, <1>2 DEF Entries
  <2>2. PICK g \in Grant : BelongsTo(i, g)
    BY <2>1 DEF IInv, EntriesGranted
  <2>3. Time(i) \in Nat /\ until[g] \in Int /\ current_time \in Int
    BY GrantFacts DEF IInv, TypeOK, Time, EntryType
  <2>4. until[g] > current_time
    BY <1>1, <1>2, <2>2, <2>3 DEF BelongsTo
  <2>. QED BY <1>1, <1>2, <2>1, <2>2, <2>4 DEF BelongsTo, Filled, LiveAt
<1>. QED BY <1>1, <1>2 DEF Opened

\* The entry found under the name and opened with the request's key is the only one of
\* that name, so sendResp can find no other.
LEMMA AcceptInvariant ==
  ASSUME IInv, Accept
  PROVE  IInv'
<1>1. /\ pc = "lookup" /\ msg.grant = NoGrant
      /\ \/ /\ FromServer /\ msg.key = DistKey
            /\ request' = [key |-> DistKey, ip |-> NoIp]
         \/ \E i \in Slot :
              /\ OpenedBy(i)
              /\ request' = [key |-> from_access_table[i].key, ip |-> from_access_table[i].ip]
      /\ from_access_table' = Searched
      /\ pc' = "serve" /\ xEntityName' = msg.name /\ left' = 2 /\ response' = Nobody
      /\ UNCHANGED << now, issued, inbox, until, msg, current_time, accessCount >>
  BY DEF Accept
<1>2. msg \in Message /\ msg.name \in Names /\ Message' = Message
  BY <1>1, MessageFacts, SameMessages DEF IInv, LocalsOK
<1>3. Freed
  BY <1>1, SearchFrees DEF IInv
<1>4. request' \in [key : 0..DistKey, ip : Address] /\ Nobody \in [key : 0..MaxGrants, ip : Address]
  BY <1>1, NumberAssumption DEF IInv, TypeOK, EntryType, DistKey, Address, Nobody, NoKey
<1>5. TypeOK'
  BY <1>1, <1>2, <1>3, <1>4 DEF IInv, TypeOK, Freed
<1>6. NamesDistinct' /\ EmptyNameFirst' /\ EntriesGranted'
  BY <1>1, <1>3, FreedKeepsEntries
<1>7. Serving'
  <2>. SUFFICES ASSUME request'.key # DistKey, NEW j \in Entries(msg.name)'
                PROVE  /\ from_access_table'[j].key = request'.key
                       /\ from_access_table'[j].ip = request'.ip
    BY <1>1 DEF Serving
  <2>1. PICK i \in Slot :
          /\ OpenedBy(i)
          /\ request' = [key |-> from_access_table[i].key, ip |-> from_access_table[i].ip]
    BY <1>1
  <2>2. j \in Slot /\ j \in Entries(msg.name)
    BY <1>1, <1>3 DEF Entries, Freed
  <2>3. j = i
    BY <1>1, <2>1, <2>2, OneEntry, OpenedFacts
  <2>. QED BY <1>3, <2>1, <2>3 DEF Freed
<1>8. HeardUnderLiveGrant'
  <2>1. Opened /\ FromServer' = FromServer /\ LiveAt(current_time)' = LiveAt(current_time)
    BY <1>1 DEF Opened, FromServer, LiveAt, Grant
  <2>. QED BY <1>1, <2>1, OpenedFacts, VouchingKept DEF HeardUnderLiveGrant
<1>9. LocalsOK' /\ ResponseUnderRequestKey'
  BY <1>1, <1>2 DEF LocalsOK, ResponseUnderRequestKey
<1>10. UntilOK'
  BY <1>1, UntilKept
<1>. QED BY <1>5, <1>6, <1>7, <1>8, <1>9, <1>10 DEF IInv

\* A grant is taken under the key that opened it.
LEMMA TakeGrantInvariant ==
  ASSUME IInv, TakeGrant
  PROVE  IInv'
<1>. USE DEF TakeGrant
<1>1. Grant' = Grant /\ Message' = Message
  BY SameMessages
<1>2. Freed
  BY SearchFrees DEF IInv
<1>3. TypeOK'
  BY <1>1, <1>2 DEF IInv, TypeOK, Freed
<1>4. NamesDistinct' /\ EmptyNameFirst' /\ EntriesGranted'
  BY <1>2, FreedKeepsEntries
<1>5. LocalsOK' /\ Serving'
  BY <1>1 DEF IInv, LocalsOK, Serving
<1>6. HeardUnderLiveGrant'
  <2>1. FromServer' = FromServer /\ LiveAt(current_time)' = LiveAt(current_time)
    BY DEF FromServer, LiveAt, Grant
  <2>. QED BY <2>1, OpenedFacts, VouchingKept DEF HeardUnderLiveGrant
<1>7. ResponseUnderRequestKey'
  BY DEF IInv, ResponseUnderRequestKey
<1>8. UntilOK'
  BY UntilKept
<1>. QED BY <1>3, <1>4, <1>5, <1>6, <1>7, <1>8 DEF IInv

\* The end of a round that frees entries or none: Reject, GrantIgnored, GrantOverflows,
\* Served.
LEMMA RoundInvariant ==
  ASSUME IInv, ListenAgain, Freed, pc # "store", UNCHANGED << now, issued, inbox, until >>
  PROVE  IInv'
<1>1. TypeOK' /\ LocalsOK' /\ Serving' /\ HeardUnderLiveGrant' /\ ResponseUnderRequestKey'
  BY ListenFacts DEF Freed
<1>2. NamesDistinct' /\ EmptyNameFirst' /\ EntriesGranted'
  BY FreedKeepsEntries DEF ListenAgain
<1>3. UntilOK'
  BY UntilKept
<1>. QED BY <1>1, <1>2, <1>3 DEF IInv

\* A grant that is stored was vouched for when it was taken.
LEMMA StoredVouched ==
  ASSUME IInv, pc = "grant"
  PROVE  Vouched(msg.grant)
<1>1. msg \in Message /\ msg.grant \in Grant /\ msg.key = issued[msg.grant].by
  BY MessageFacts DEF IInv, LocalsOK
<1>2. CASE FromServer
  BY <1>1, <1>2 DEF IInv, HeardUnderLiveGrant, Vouched
<1>3. CASE ~FromServer
  <2>1. PICK h \in LiveAt(current_time) : issued[h].key = msg.key
    BY <1>3 DEF IInv, HeardUnderLiveGrant
  <2>2. current_time \in Nat /\ h \in Grant /\ until[h] \in Int /\ until[h] > current_time
    BY <2>1, GrantFacts DEF IInv, TypeOK, LiveAt
  <2>3. h \in Stored
    BY <2>2 DEF Stored
  <2>4. CASE h = msg.grant
    BY <2>3, <2>4 DEF IInv, HeardUnderLiveGrant
  <2>5. CASE h # msg.grant
    BY <1>1, <2>1, <2>3, <2>5 DEF Vouched
  <2>. QED BY <2>4, <2>5
<1>. QED BY <1>2, <1>3

\* The name and the end of the entry: no other entry bears the name, because none starts
\* with it, or because this one did and its name does not change.
LEMMA StoreTimeInvariant ==
  ASSUME IInv, StoreTime
  PROVE  IInv'
<1> DEFINE g == msg.grant
<1>1. /\ Grant' = Grant /\ Message' = Message /\ g \in Grant /\ g \in 1..MaxGrants
      /\ Ends(g) \in Nat /\ Grantee.name \in Seq(Letter)
  BY SameMessages, GrantFacts DEF StoreTime, IInv, LocalsOK, Grantee
<1>2. /\ pc = "grant" /\ pc' = "store"
      /\ until' = [until EXCEPT ![g] = Ends(g)]
      /\ UNCHANGED << now, issued, inbox, msg, current_time, xEntityName, left, request, response >>
  BY DEF StoreTime
<1> DEFINE n == Grantee.name
<1>3. PICK i \in Slot :
        /\ i \in Storable(n)
        /\ accessCount' = i
        /\ from_access_table' = [from_access_table EXCEPT ![i].entintyName = Overlay(@, n),
                                                          ![i].time = Ends(g)]
  BY DEF StoreTime, Storable, Free
<1>4. /\ Time(i) = 0
      /\ Name(i) \in Seq(Letter)
      /\ from_access_table[i] \in EntryType
  BY <1>3 DEF Storable, Free, IInv, TypeOK, Name, EntryType
<1> DEFINE name == Overlay(Name(i), n)
<1>5. /\ name \in Seq(Letter)
      /\ StartsWith(name, n)
      /\ StartsWith(Name(i), n) => name = Name(i)
  BY <1>1, <1>4, OverlayFacts
<1>6. /\ Name(i)' = name /\ Time(i)' = Ends(g)
      /\ from_access_table'[i].key = from_access_table[i].key
      /\ from_access_table'[i].ip = from_access_table[i].ip
      /\ \A j \in Slot : j # i => from_access_table'[j] = from_access_table[j]
      /\ from_access_table'[i] \in EntryType
  BY <1>1, <1>3, <1>4, <1>5 DEF IInv, TypeOK, Name, Time, EntryType
<1>e. \A j \in Slot : j # i => Name(j)' = Name(j) /\ Time(j)' = Time(j)
  BY <1>6 DEF Name, Time
<1>m. Grantee' = Grantee
  BY <1>2 DEF Grantee
<1> HIDE DEF name, g, n
<1>7. TypeOK'
  <2>1. from_access_table' \in [Slot -> EntryType]
    BY <1>3, <1>6 DEF IInv, TypeOK
  <2>. QED BY <1>1, <1>2, <1>3, <2>1 DEF IInv, TypeOK
<1>8. NamesDistinct' /\ EmptyNameFirst'
  <2>1. CASE Matching(n) # {}
    <3>1. StartsWith(Name(i), n) /\ \A j \in Matching(n) : i <= j
      BY <1>3, <2>1 DEF Storable, Candidates, First, Matching
    <3>2. NamesDistinct'
      BY <1>5, <1>6, <1>e, <3>1 DEF IInv, NamesDistinct
    <3>3. ASSUME Name(i)' = << >>
          PROVE  i = 1
      <4>1. Name(i) = << >> /\ Len(n) = 0
        BY <1>1, <1>4, <1>5, <1>6, <3>1, <3>3, EmptySeq, LenProperties DEF StartsWith, n
      <4>2. \A j \in Slot : Name(j) \in Seq(Letter)
        BY DEF IInv, TypeOK, EntryType, Name
      <4>3. \A j \in Slot : StartsWith(Name(j), n)
        BY <4>1, <4>2, LenProperties DEF StartsWith
      <4>4. 1 \in Slot
        BY <1>3, NumberAssumption DEF Slot
      <4>5. i <= 1
        BY <3>1, <4>3, <4>4 DEF Matching
      <4>. QED BY <4>5 DEF Slot
    <3>. QED BY <1>e, <3>2, <3>3 DEF IInv, EmptyNameFirst
  <2>2. CASE Matching(n) = {}
    <3>1. \A j \in Slot : Name(j) # name
      BY <1>5, <2>2 DEF Matching
    <3>2. name # << >>
      <4>1. Len(n) # 0
        <5>1. Name(i) \in Seq(Letter) /\ ~StartsWith(Name(i), n)
          BY <1>4, <2>2 DEF Matching
        <5>. QED BY <5>1, LenProperties DEF StartsWith
      <4>. QED BY <1>1, <1>5, <4>1, LenProperties, EmptySeq DEF StartsWith, n
    <3>. QED BY <1>6, <1>e, <3>1, <3>2 DEF IInv, NamesDistinct, EmptyNameFirst
  <2>. QED BY <2>1, <2>2
<1>9. /\ until'[g] = Ends(g)
      /\ \A h \in Grant : until[h] <= until'[h] /\ until[h] \in Int /\ until'[h] \in Int
  <2>1. until'[g] = Ends(g) /\ until[g] <= Ends(g) /\ until[g] \in Int
    BY <1>1, <1>2, GrantFacts DEF IInv, UntilOK, TypeOK
  <2>2. ASSUME NEW h \in Grant, h # g
        PROVE  until'[h] = until[h] /\ until[h] \in Int
    BY <1>2, <2>2, GrantFacts DEF IInv, TypeOK
  <2>3. \A h \in Grant : h # g => until[h] <= until'[h]
    BY <2>2
  <2>. QED BY <1>1, <2>1, <2>2, <2>3
<1>10. Stored' = Stored \cup {g}
  BY <1>1, <1>2, <1>9 DEF IInv, TypeOK, Stored
<1>11. \A j \in Slot, h \in Grant :
         /\ Filled(j, h) => Filled(j, h)'
         /\ j # i /\ BelongsTo(j, h) => BelongsTo(j, h)'
  <2>1. ASSUME NEW j \in Slot, NEW h \in Grant
        PROVE  Filled(j, h) => Filled(j, h)'
    BY <1>2, <1>6 DEF Filled
  <2>2. ASSUME NEW j \in Slot, NEW h \in Grant, j # i, BelongsTo(j, h)
        PROVE  BelongsTo(j, h)'
    <3>1. Time(j) <= until[h] /\ Time(j) \in Nat
      BY <2>2 DEF BelongsTo, IInv, TypeOK, Time, EntryType
    <3>2. Time(j)' = Time(j) /\ Name(j)' = Name(j) /\ Time(j) <= until'[h]
      BY <1>9, <1>e, <2>2, <3>1
    <3>. QED BY <1>2, <2>1, <2>2, <3>2 DEF BelongsTo
  <2>. QED BY <2>1, <2>2
<1>12. EntriesGranted'
  <2>1. ASSUME NEW j \in Slot
        PROVE  from_access_table'[j].ip = NoIp \/ \E h \in Stored' : Filled(j, h)'
    <3>1. from_access_table'[j].ip = from_access_table[j].ip
      BY <1>6
    <3>2. Stored \subseteq Grant
      BY DEF Stored
    <3>. QED BY <1>10, <1>11, <3>1, <3>2 DEF IInv, EntriesGranted
  <2>2. ASSUME NEW j \in Slot, j # i, Time(j)' # 0
        PROVE  \E h \in Grant' : BelongsTo(j, h)'
    <3>1. Time(j) # 0
      BY <1>e, <2>2
    <3>2. PICK h \in Grant : BelongsTo(j, h)
      BY <1>2, <3>1 DEF IInv, EntriesGranted
    <3>. QED BY <1>1, <1>11, <2>2, <3>2
  <2>3. Time(i)' <= until'[msg'.grant] /\ StartsWith(Name(i)', Grantee'.name)
    BY <1>1, <1>2, <1>5, <1>6, <1>9, <1>m DEF g, n
  <2>. QED BY <1>2, <1>3, <2>1, <2>2, <2>3 DEF EntriesGranted
<1>13. UntilOK'
  BY <1>1, <1>2 DEF IInv, TypeOK, UntilOK, Ends
<1>14. LocalsOK' /\ Serving'
  BY <1>1, <1>2, <1>3, <1>9 DEF IInv, LocalsOK, Serving, g
<1>15. HeardUnderLiveGrant'
  <2>1. ASSUME NEW h \in Stored'
        PROVE  Vouched(h)'
    <3>1. Vouched(h)
      BY <1>2, <1>10, StoredVouched DEF IInv, HeardUnderLiveGrant, g
    <3>. QED BY <1>2, <1>10, <3>1 DEF Vouched
  <2>. QED BY <1>2, <2>1 DEF HeardUnderLiveGrant
<1>16. ResponseUnderRequestKey'
  BY <1>2 DEF IInv, ResponseUnderRequestKey
<1>. QED BY <1>7, <1>8, <1>12, <1>13, <1>14, <1>15, <1>16 DEF IInv

\* Filling the address and the key of an entry.
LEMMA FillEntry ==
  ASSUME TypeOK, NEW i \in Slot, NEW ip \in Address, NEW key \in 0..MaxGrants,
         from_access_table' = [from_access_table EXCEPT ![i].ip = ip, ![i].key = key]
  PROVE  /\ from_access_table' \in [Slot -> EntryType]
         /\ Name(i)' = Name(i) /\ Time(i)' = Time(i)
         /\ from_access_table'[i].key = key /\ from_access_table'[i].ip = ip
         /\ \A j \in Slot : j # i => from_access_table'[j] = from_access_table[j]
<1>1. from_access_table[i] \in EntryType
  BY DEF TypeOK
<1>. QED BY <1>1 DEF TypeOK, Name, Time, EntryType

\* What StoreAddress does: the entry is filled with the address and the key of a stored
\* grant.
LEMMA StoreAddressFacts ==
  ASSUME IInv, StoreAddress
  PROVE  /\ msg.grant \in Grant /\ msg.grant \in Stored /\ accessCount \in Slot
         /\ from_access_table' \in [Slot -> EntryType]
         /\ \A j \in Slot : Name(j)' = Name(j) /\ Time(j)' = Time(j)
         /\ from_access_table'[accessCount].key = issued[msg.grant].key
         /\ from_access_table'[accessCount].ip = Grantee.ip
         /\ \A j \in Slot : j # accessCount => from_access_table'[j] = from_access_table[j]
<1>1. msg.grant \in Grant /\ msg.grant \in Stored /\ accessCount \in Slot
  BY DEF StoreAddress, IInv, LocalsOK, Stored
<1>2. PICK i \in Slot : i = accessCount
  BY <1>1
<1>3. PICK ip \in Address : ip = Grantee.ip
  BY <1>1, GrantFacts DEF IInv, Grantee
<1>4. PICK key \in 0..MaxGrants : key = issued[msg.grant].key
  BY <1>1, GrantFacts DEF IInv
<1>5. from_access_table' = [from_access_table EXCEPT ![i].ip = ip, ![i].key = key]
  BY <1>2, <1>3, <1>4 DEF StoreAddress
<1>6. /\ from_access_table' \in [Slot -> EntryType]
      /\ Name(i)' = Name(i) /\ Time(i)' = Time(i)
      /\ from_access_table'[i].key = key /\ from_access_table'[i].ip = ip
      /\ \A j \in Slot : j # i => from_access_table'[j] = from_access_table[j]
  BY <1>5, FillEntry DEF IInv
<1>7. \A j \in Slot : j # i => Name(j)' = Name(j) /\ Time(j)' = Time(j)
  BY <1>6 DEF Name, Time
<1>. QED BY <1>1, <1>2, <1>3, <1>4, <1>6, <1>7

\* The address and the key: now the entry belongs to the grant in all its fields.
LEMMA StoreAddressInvariant ==
  ASSUME IInv, StoreAddress
  PROVE  IInv'
<1>0. /\ UNCHANGED << until, issued, now, inbox >>
      /\ pc = "store" /\ ListenAgain /\ pc' = "listen"
      /\ Grant' = Grant /\ Stored' = Stored
  BY DEF StoreAddress, ListenAgain, Grant, Stored
<1>1. PICK i \in Slot, g \in Grant :
        /\ i = accessCount /\ g = msg.grant /\ g \in Stored
        /\ from_access_table' \in [Slot -> EntryType]
        /\ \A j \in Slot : Name(j)' = Name(j) /\ Time(j)' = Time(j)
        /\ from_access_table'[i].key = issued[g].key
        /\ from_access_table'[i].ip = issued[g].peer.ip
        /\ \A j \in Slot : j # i => from_access_table'[j] = from_access_table[j]
  BY StoreAddressFacts DEF Grantee
<1>2. TypeOK' /\ LocalsOK' /\ Serving' /\ HeardUnderLiveGrant' /\ ResponseUnderRequestKey'
  BY <1>0, <1>1, ListenFacts
<1>3. NamesDistinct' /\ EmptyNameFirst'
  BY <1>1 DEF IInv, NamesDistinct, EmptyNameFirst
<1>4. UntilOK'
  BY <1>0, UntilKept
<1>5. Filled(i, g)'
  BY <1>0, <1>1 DEF Filled
<1>6. ASSUME NEW j \in Slot
      PROVE  from_access_table'[j].ip = NoIp \/ \E h \in Stored' : Filled(j, h)'
  <2>1. CASE j = i
    BY <1>0, <1>1, <1>5, <2>1
  <2>2. CASE j # i
    <3>1. from_access_table'[j] = from_access_table[j]
      BY <1>1, <2>2
    <3>2. \A h : Filled(j, h) => Filled(j, h)'
      BY <1>0, <3>1 DEF Filled
    <3>. QED BY <1>0, <3>1, <3>2 DEF IInv, EntriesGranted
  <2>. QED BY <2>1, <2>2
<1>7. ASSUME NEW j \in Slot, Time(j)' # 0
      PROVE  \E h \in Grant' : BelongsTo(j, h)'
  <2>0. Time(j) # 0 /\ Time(j)' = Time(j) /\ Name(j)' = Name(j)
    BY <1>1, <1>7
  <2>1. CASE j = i
    <3>1. StartsWith(Name(i), issued[g].peer.name) /\ Time(i) <= until[g]
      BY <1>0, <1>1, <2>0, <2>1 DEF IInv, EntriesGranted, Grantee
    <3>. QED BY <1>0, <1>5, <2>0, <2>1, <3>1 DEF BelongsTo
  <2>2. CASE j # i
    <3>1. PICK h \in Grant : BelongsTo(j, h)
      BY <1>1, <2>0, <2>2 DEF IInv, EntriesGranted
    <3>2. from_access_table'[j] = from_access_table[j]
      BY <1>1, <2>2
    <3>3. BelongsTo(j, h)'
      BY <1>0, <2>0, <3>1, <3>2 DEF BelongsTo, Filled
    <3>. QED BY <1>0, <3>3
  <2>. QED BY <2>1, <2>2
<1>8. EntriesGranted'
  BY <1>0, <1>6, <1>7 DEF EntriesGranted
<1>. QED BY <1>2, <1>3, <1>4, <1>8 DEF IInv

LEMMA ReadTimeInvariant ==
  ASSUME IInv, ReadTime
  PROVE  IInv'
<1>. USE DEF ReadTime
<1>1. Message' = Message /\ Grant' = Grant
  BY SameMessages
<1>2. TypeOK' /\ LocalsOK'
  BY <1>1 DEF IInv, TypeOK, LocalsOK
<1>3. Freed
  BY UnchangedFrees DEF IInv
<1>4. NamesDistinct' /\ EmptyNameFirst' /\ EntriesGranted'
  BY <1>3, FreedKeepsEntries
<1>5. Serving'
  BY <1>3, FreedKeepsServing
<1>6. UntilOK'
  BY UntilKept
<1>7. HeardUnderLiveGrant'
  BY VouchingKept DEF HeardUnderLiveGrant
<1>8. ResponseUnderRequestKey'
  BY DEF IInv, ResponseUnderRequestKey
<1>. QED BY <1>2, <1>4, <1>5, <1>6, <1>7, <1>8 DEF IInv

\* One answer: Respond, RespondNowhere.
LEMMA AnsweredInvariant ==
  ASSUME IInv, pc = "respond", Answered, Freed,
         response' = response \/
           \E i \in Entries(xEntityName) :
             response' = [key |-> from_access_table[i].key, ip |-> from_access_table[i].ip]
  PROVE  IInv'
<1>1. Message' = Message /\ Grant' = Grant
  BY SameMessages DEF Answered
<1>2. left' \in 0..1 /\ pc' = "serve"
  BY DEF Answered, IInv, TypeOK, LocalsOK
<1>3. ResponseUnderRequestKey'
  <2>1. ASSUME NEW i \in Entries(xEntityName), request.key # DistKey
        PROVE  [key |-> from_access_table[i].key, ip |-> from_access_table[i].ip] = request
    <3>1. from_access_table[i].key = request.key /\ from_access_table[i].ip = request.ip
      BY <2>1 DEF IInv, Serving
    <3>2. request \in [key : 0..DistKey, ip : Address]
      BY DEF IInv, TypeOK
    <3>. QED BY <3>1, <3>2
  <2>. QED BY <2>1 DEF IInv, ResponseUnderRequestKey, Answered
<1>4. response' \in [key : 0..MaxGrants, ip : Address]
  BY DEF IInv, TypeOK, EntryType, Entries
<1>5. TypeOK' /\ LocalsOK'
  <2>1. left' \in 0..2
    BY <1>2
  <2>. QED BY <1>1, <1>4, <2>1 DEF Answered, IInv, TypeOK, LocalsOK, Freed
<1>6. NamesDistinct' /\ EmptyNameFirst' /\ EntriesGranted'
  BY FreedKeepsEntries DEF Answered
<1>7. Serving'
  BY FreedKeepsServing DEF Answered
<1>8. UntilOK'
  BY UntilKept DEF Answered
<1>9. HeardUnderLiveGrant'
  BY <1>2, VouchingKept DEF Answered, HeardUnderLiveGrant
<1>. QED BY <1>3, <1>5, <1>6, <1>7, <1>8, <1>9 DEF IInv

LEMMA RespondInvariant ==
  ASSUME IInv, Respond
  PROVE  IInv'
<1>1. PICK i \in ResponseEntry :
        IF current_time < Time(i)
          THEN /\ response' = [key |-> from_access_table[i].key, ip |-> from_access_table[i].ip]
               /\ UNCHANGED from_access_table
          ELSE /\ from_access_table' = [from_access_table EXCEPT ![i].time = 0]
               /\ UNCHANGED response
  BY DEF Respond
<1>2. i \in Slot /\ i \in Entries(xEntityName) /\ TypeOK
  BY DEF ResponseEntry, First, Entries, IInv
<1>3. pc = "respond" /\ Answered
  BY DEF Respond
<1>4. CASE current_time < Time(i)
  BY <1>1, <1>2, <1>3, <1>4, UnchangedFrees, AnsweredInvariant
<1>5. CASE ~(current_time < Time(i))
  BY <1>1, <1>2, <1>3, <1>5, RespondFrees, AnsweredInvariant
<1>. QED BY <1>4, <1>5

-----------------------------------------------------------------------------
(* The theorems.                                                             *)

\* A step that frees entries at most.
LEMMA FreeingSteps ==
  ASSUME TypeOK
  PROVE  /\ Tick => Freed
         /\ \A src : OtherFrame(src) => Freed
         /\ \A m : AuthFrame(m) => Freed
         /\ \A src, m : Frame(src, m) => Freed
         /\ \A by, p, minutes, key : Issue(by, p, minutes, key) => Freed
         /\ \A m : Receive(m) => Freed
         /\ TakeGrant \/ Accept \/ Reject \/ GrantIgnored \/ GrantOverflows => Freed
         /\ ReadTime \/ Respond \/ RespondNowhere \/ Served => Freed
<1>1. Tick \/ GrantIgnored \/ GrantOverflows \/ ReadTime \/ RespondNowhere \/ Served => Freed
  BY UnchangedFrees DEF Tick, GrantIgnored, GrantOverflows, ReadTime, RespondNowhere, Served
<1>2. \A by, p, minutes, key : Issue(by, p, minutes, key) => Freed
  BY UnchangedFrees DEF Issue
<1>3. \A m : Receive(m) => Freed
  BY UnchangedFrees DEF Receive
<1>4. \A m : AuthFrame(m) => Freed
  BY UnchangedFrees DEF AuthFrame
<1>5. \A src, m : Frame(src, m) => Freed
  BY SweepFrees DEF Frame
<1>6. \A src : OtherFrame(src) => Freed
  BY SweepFrees DEF OtherFrame
<1>7. TakeGrant \/ Accept \/ Reject => Freed
  BY SearchFrees DEF TakeGrant, Accept, Reject
<1>8. Respond => Freed
  <2>. SUFFICES ASSUME Respond PROVE Freed
    OBVIOUS
  <2>1. PICK i \in ResponseEntry :
          IF current_time < Time(i)
            THEN UNCHANGED from_access_table
            ELSE from_access_table' = [from_access_table EXCEPT ![i].time = 0]
    BY DEF Respond
  <2>2. i \in Slot
    BY DEF ResponseEntry, First, Entries
  <2>3. CASE current_time < Time(i)
    BY <2>1, <2>3, UnchangedFrees
  <2>4. CASE ~(current_time < Time(i))
    BY <2>1, <2>2, <2>4, RespondFrees
  <2>. QED BY <2>3, <2>4
<1>. QED BY <1>1, <1>2, <1>3, <1>4, <1>5, <1>6, <1>7, <1>8

LEMMA NextInvariant == IInv /\ [Next]_vars => IInv'
<1>. SUFFICES ASSUME IInv, [Next]_vars PROVE IInv'
  OBVIOUS
<1>0. TypeOK /\ now \in 0..MaxTime /\ inbox \subseteq Message
  BY DEF IInv, TypeOK
<1>1. CASE Tick
  <2>1. now' \in 0..MaxTime
    BY <1>0, <1>1, NumberAssumption DEF Tick
  <2>. QED BY <1>0, <1>1, <2>1, FreeingSteps, WorldInvariant DEF Tick
<1>2. ASSUME NEW by \in Key \cup {DistKey}, NEW p \in Peer, NEW minutes \in Minutes,
             NEW key \in Key \cup {NewKey}, Issue(by, p, minutes, key)
      PROVE  IInv'
  BY <1>2, IssueInvariant
<1>3. ASSUME NEW src, OtherFrame(src)
      PROVE  IInv'
  BY <1>0, <1>3, FreeingSteps, WorldInvariant DEF OtherFrame
<1>4. ASSUME NEW src, NEW m \in Message, Frame(src, m)
      PROVE  IInv'
  <2>1. inbox' \subseteq Message
    BY <1>0, <1>4 DEF Frame
  <2>. QED BY <1>0, <1>4, <2>1, FreeingSteps, WorldInvariant DEF Frame
<1>5. ASSUME NEW m \in Message, AuthFrame(m)
      PROVE  IInv'
  <2>1. inbox' \subseteq Message
    BY <1>0, <1>5 DEF AuthFrame
  <2>. QED BY <1>0, <1>5, <2>1, FreeingSteps, WorldInvariant DEF AuthFrame
<1>6. ASSUME NEW m \in inbox, Receive(m)
      PROVE  IInv'
  BY <1>6, ReceiveInvariant
<1>7. CASE TakeGrant \/ Accept
  BY <1>7, TakeGrantInvariant, AcceptInvariant
<1>8. CASE Reject \/ GrantIgnored \/ GrantOverflows \/ Served
  BY <1>0, <1>8, FreeingSteps, RoundInvariant DEF Reject, GrantIgnored, GrantOverflows, Served
<1>9. CASE StoreTime
  BY <1>9, StoreTimeInvariant
<1>10. CASE StoreAddress
  BY <1>10, StoreAddressInvariant
<1>11. CASE ReadTime
  BY <1>11, ReadTimeInvariant
<1>12. CASE Respond
  BY <1>12, RespondInvariant
<1>13. CASE RespondNowhere
  BY <1>0, <1>13, FreeingSteps, AnsweredInvariant DEF RespondNowhere
<1>14. CASE UNCHANGED vars
  BY <1>0, <1>14, UnchangedFrees, WorldInvariant DEF vars
<1>. QED BY <1>1, <1>2, <1>3, <1>4, <1>5, <1>6, <1>7, <1>8, <1>9, <1>10, <1>11, <1>12, <1>13, <1>14
         DEF Next, World, Isr, LedTask

\* Whatever the interleaving of the handler and the task, an entry in use belongs to one
\* grant (secsock.c:556-735, led_task.c:112-140).
THEOREM AccessInvariant == Spec => []IInv
<1>. QED BY InitInvariant, NextInvariant, PTL DEF Spec

\* No two entries bear one name (secsock.c:622-647).
THEOREM EntriesHaveDistinctNames == Spec => []NamesDistinct
<1>1. IInv => NamesDistinct
  BY DEF IInv
<1>. QED BY <1>1, AccessInvariant, PTL

\* Requests are served and grants are taken only under the server's key or under that of
\* a grant whose access had not ended, and every grant that was stored came in this way
\* (secsock.c:582-620).
THEOREM MessagesHaveLiveGrants == Spec => []HeardUnderLiveGrant
<1>1. IInv => HeardUnderLiveGrant
  BY DEF IInv
<1>. QED BY <1>1, AccessInvariant, PTL

\* An answer goes out under the key and to the address under which its request was found
\* (secsock.c:691-731).
THEOREM AnswersGoToTheRequester == Spec => []ResponseUnderRequestKey
<1>1. IInv => ResponseUnderRequestKey
  BY DEF IInv
<1>. QED BY <1>1, AccessInvariant, PTL

\* The handler admits an address only while the access of a grant for it lasts, or, while
\* its entry is being filled, if that entry had it before (led_task.c:127-133).
THEOREM HandlerAdmitsOnlyGranted == Spec => []AdmitsOnlyGranted
<1>1. IInv => AdmitsOnlyGranted
  <2>. SUFFICES ASSUME IInv, NEW i \in Slot, NEW src \in Address, AdmittedBy(i, src)
                PROVE  \/ \E g \in LiveAt(now) : issued[g].peer.ip = src
                       \/ /\ pc = "store" /\ accessCount = i
                          /\ src = NoIp \/ \E g \in Stored : Filled(i, g) /\ issued[g].peer.ip = src
    BY DEF AdmitsOnlyGranted
  <2>1. Time(i) \in Nat /\ now \in Nat /\ Time(i) > now /\ from_access_table[i].ip = src
    BY DEF AdmittedBy, IInv, TypeOK, Time, EntryType
  <2>2. CASE pc = "store" /\ accessCount = i
    BY <2>1, <2>2 DEF IInv, EntriesGranted, Filled
  <2>3. CASE ~(pc = "store" /\ accessCount = i)
    <3>1. PICK g \in Grant : BelongsTo(i, g)
      BY <2>1, <2>3 DEF IInv, EntriesGranted
    <3>2. until[g] \in Int /\ Time(i) <= until[g] /\ issued[g].peer.ip = src
      BY <2>1, <3>1, GrantFacts DEF IInv, BelongsTo, Filled
    <3>3. g \in LiveAt(now)
      BY <2>1, <3>1, <3>2 DEF LiveAt
    <3>. QED BY <3>2, <3>3
  <2>. QED BY <2>2, <2>3
<1>. QED BY <1>1, AccessInvariant, PTL

\* An entry that has not expired is kept by every step (led_task.c:135,
\* secsock.c:602, 645, 704).
THEOREM UnexpiredIsKept == Spec => KeepsUnexpired
<1> DEFINE Kept == \A i \in Slot : Time(i) > now =>
                     /\ Name(i)' = Name(i) /\ Time(i)' = Time(i)
                     /\ ~(pc = "store" /\ accessCount = i) =>
                          from_access_table'[i] = from_access_table[i]
<1>1. ASSUME TypeOK, Freed
      PROVE  Kept
  <2>. SUFFICES ASSUME NEW i \in Slot, Time(i) > now
                PROVE  Time(i)' = Time(i) /\ Name(i)' = Name(i) /\ from_access_table'[i] = from_access_table[i]
    OBVIOUS
  <2>1. Time(i)' = Time(i) /\ Name(i)' = Name(i)
    BY <1>1 DEF Freed, TypeOK, Time, EntryType
  <2>2. from_access_table[i] \in EntryType /\ from_access_table'[i] \in EntryType
    BY <1>1 DEF Freed, TypeOK
  <2>3. /\ from_access_table'[i].key = from_access_table[i].key
        /\ from_access_table'[i].ip = from_access_table[i].ip
        /\ from_access_table'[i].time = from_access_table[i].time
        /\ from_access_table'[i].entintyName = from_access_table[i].entintyName
    BY <1>1, <2>1 DEF Freed, Time, Name
  <2>. QED BY <2>1, <2>2, <2>3 DEF EntryType
<1>2. ASSUME IInv, StoreTime
      PROVE  Kept
  <2>1. PICK i \in Slot : /\ Time(i) = 0
                          /\ from_access_table' =
                               [from_access_table EXCEPT ![i].entintyName = Overlay(@, Grantee.name),
                                                         ![i].time = Ends(msg.grant)]
    BY <1>2 DEF StoreTime, Storable, Free
  <2>2. \A j \in Slot : j # i => from_access_table'[j] = from_access_table[j]
    BY <1>2, <2>1 DEF IInv, TypeOK
  <2>3. ~(Time(i) > now)
    BY <1>2, <2>1 DEF IInv, TypeOK
  <2>. QED BY <2>2, <2>3 DEF Time, Name
<1>3. ASSUME IInv, StoreAddress
      PROVE  Kept
  BY <1>3, StoreAddressFacts DEF StoreAddress
<1>4. IInv /\ [Next]_vars => Kept
  <2>1. ASSUME IInv, Next
        PROVE  Freed \/ StoreTime \/ StoreAddress
    <3>1. TypeOK
      BY <2>1 DEF IInv
    <3>. QED BY <2>1, <3>1, FreeingSteps DEF Next, World, Isr, LedTask
  <2>2. ASSUME IInv, UNCHANGED vars
        PROVE  Freed
    BY <2>2, UnchangedFrees DEF IInv, vars
  <2>3. IInv => TypeOK
    BY DEF IInv
  <2>. QED BY <1>1, <1>2, <1>3, <2>1, <2>2, <2>3
<1>5. IInv /\ [Next]_vars => [Kept]_vars
  BY <1>4
<1>. QED BY <1>5, AccessInvariant, PTL DEF Spec, KeepsUnexpired

-----------------------------------------------------------------------------
(* Registration.                                                             *)

\* Nonces, keys and messages only become more: what was one stays one.
LEMMA Growth ==
  ASSUME RegTypeOK, attempt' \in Nat, challenges' \in Nat, attempt <= attempt', challenges <= challenges',
         MadeKey \subseteq MadeKey'
  PROVE  /\ Nonce \subseteq Nonce' /\ ToEntity \subseteq ToEntity'
         /\ 1..challenges \subseteq (1..challenges)'
         /\ queue \in Seq(ToEntity') /\ madeFor \in Seq(Nonce')
         /\ toServer \subseteq ToServer'
<1>1. attempt \in Nat /\ challenges \in Nat
  BY BoundAssumption DEF RegTypeOK
<1>2. Nonce \subseteq Nonce' /\ 1..challenges \subseteq (1..challenges)'
  BY <1>1 DEF Nonce
<1>3. ToEntity \subseteq ToEntity'
  BY <1>2 DEF ToEntity, NONCE, ACPTREG
<1>. QED BY <1>2, <1>3, SeqMonotonic DEF RegTypeOK, ToServer

\* An acceptance in the network or at the socket has a nonce and a key that was made.
LEMMA AcceptanceFacts ==
  ASSUME RegTypeOK
  PROVE  /\ \A m \in ToEntity : m.flag = "ACPTREG" => m.nonce \in Nonce /\ m.key \in MadeKey
         /\ \A q \in 1..Len(queue) : queue[q] \in ToEntity
<1>1. \A m \in ToEntity : m.flag = "ACPTREG" => m.nonce \in Nonce /\ m.key \in MadeKey
  BY DEF ToEntity, NONCE, ACPTREG, RJCTREG, Other
<1>2. \A q \in 1..Len(queue) : queue[q] \in ToEntity
  BY ElementOfSeq DEF RegTypeOK
<1>. QED BY <1>1, <1>2

\* A step that makes no key and brings no acceptance that was not already there.
LEMMA NoNewAcceptance ==
  ASSUME AcceptancesHold, madeFor' = madeFor,
         \A m \in toEntity' : m.flag = "ACPTREG" => m \in toEntity,
         \A q \in 1..Len(queue') : queue'[q].flag = "ACPTREG" =>
              queue'[q] \in toEntity \/ \E r \in 1..Len(queue) : queue'[q] = queue[r]
  PROVE  AcceptancesHold'
BY DEF AcceptancesHold

LEMMA RegInitInvariant == RegInit => RegInv
<1>. SUFFICES ASSUME RegInit PROVE RegInv
  OBVIOUS
<1>1. Len(<< >>) = 0 /\ << >> \in Seq(ToEntity) /\ << >> \in Seq(Nonce)
  BY EmptySeq
<1>2. 0 \in 0..MaxAttempts /\ 0 \in 0..MaxChallenges
  BY BoundAssumption
<1>3. RegTypeOK
  <2>1. /\ queue \in Seq(ToEntity) /\ madeFor \in Seq(Nonce)
        /\ attempt \in 0..MaxAttempts /\ challenges \in 0..MaxChallenges
    BY <1>1, <1>2 DEF RegInit
  <2>2. /\ phase = "idle" /\ isRegistered = FALSE /\ dist_key = 0
        /\ toServer = {} /\ toEntity = {} /\ unanswered = {}
    BY DEF RegInit
  <2>3. \A S : toServer \subseteq S /\ toEntity \subseteq S /\ unanswered \subseteq S
    BY <2>2
  <2>. QED BY <2>1, <2>2, <2>3 DEF RegTypeOK
<1>4. AcceptancesHold /\ KeyAnswersAttempt
  BY <1>1 DEF RegInit, AcceptancesHold, KeyAnswersAttempt
<1>. QED BY <1>3, <1>4 DEF RegInv

\* The server makes a key: the acceptance it sends bears the nonce of that key.
LEMMA IssueKeyInvariant ==
  ASSUME RegInv, NEW challenge \in unanswered, NEW nonce \in 1..attempt, IssueKey(challenge, nonce)
  PROVE  RegInv'
<1>. USE DEF IssueKey, regTaskVars
<1>1. PICK new \in Nat : new = Len(madeFor) + 1
  BY LenProperties DEF RegInv, RegTypeOK
<1>2. /\ madeFor' \in Seq(Nonce) /\ Len(madeFor) \in Nat
      /\ Len(madeFor') = new
      /\ madeFor'[new] = nonce
      /\ \A k \in MadeKey : madeFor'[k] = madeFor[k]
  BY <1>1, AppendProperties, LenProperties DEF RegInv, RegTypeOK, Nonce, MadeKey
<1>3. MadeKey' = MadeKey \cup {new} /\ Nonce' = Nonce /\ ToServer' = ToServer
  BY <1>1, <1>2 DEF MadeKey, Nonce, ToServer
<1>4. /\ ToEntity \subseteq ToEntity' /\ queue \in Seq(ToEntity')
  BY <1>3, Growth, BoundAssumption DEF RegInv, RegTypeOK
<1>5. ACPTREG(nonce, new) \in ToEntity'
  BY <1>3 DEF ToEntity, Nonce
<1>6. RegTypeOK'
  BY <1>2, <1>3, <1>4, <1>5 DEF RegInv, RegTypeOK
<1>7. AcceptancesHold'
  <2>1. ASSUME NEW m \in toEntity', m.flag = "ACPTREG"
        PROVE  madeFor'[m.key] = m.nonce
    <3>1. CASE m \in toEntity
      <4>1. m.key \in MadeKey /\ madeFor[m.key] = m.nonce
        BY <2>1, <3>1, AcceptanceFacts DEF RegInv, RegTypeOK, AcceptancesHold
      <4>. QED BY <1>2, <4>1
    <3>2. CASE m = ACPTREG(nonce, new)
      BY <1>2, <3>2 DEF ACPTREG
    <3>. QED BY <1>2, <2>1, <3>1, <3>2
  <2>2. ASSUME NEW q \in 1..Len(queue'), queue'[q].flag = "ACPTREG"
        PROVE  madeFor'[queue'[q].key] = queue'[q].nonce
    <3>1. queue[q].key \in MadeKey /\ madeFor[queue[q].key] = queue[q].nonce
      BY <2>2, AcceptanceFacts DEF RegInv, AcceptancesHold
    <3>. QED BY <1>2, <3>1
  <2>. QED BY <2>1, <2>2 DEF AcceptancesHold
<1>8. KeyAnswersAttempt'
  BY <1>2, <1>3 DEF RegInv, KeyAnswersAttempt
<1>. QED BY <1>6, <1>7, <1>8 DEF RegInv

\* What the task takes from the socket was there.
LEMMA TakeFacts ==
  ASSUME RegInv, Take
  PROVE  /\ queue' \in Seq(ToEntity)
         /\ \A q \in 1..Len(queue') : \E r \in 1..Len(queue) : queue'[q] = queue[r]
         /\ Head(queue) \in ToEntity
         /\ Head(queue).flag = "ACPTREG" => /\ Head(queue).key \in MadeKey
                                            /\ madeFor[Head(queue).key] = Head(queue).nonce
<1>1. queue \in Seq(ToEntity) /\ queue # << >> /\ queue' = Tail(queue)
  BY DEF Take, RegInv, RegTypeOK
<1>2. /\ Tail(queue) \in Seq(ToEntity) /\ Head(queue) \in ToEntity /\ Len(queue) \in Nat \ {0}
      /\ Len(Tail(queue)) = Len(queue) - 1
      /\ \A q \in 1..Len(Tail(queue)) : Tail(queue)[q] = queue[q + 1]
  BY <1>1, HeadTailProperties, EmptySeq
<1>3. Head(queue) = queue[1]
  BY <1>1
<1>4. ASSUME NEW q \in 1..Len(queue')
      PROVE  \E r \in 1..Len(queue) : queue'[q] = queue[r]
  <2>1. q + 1 \in 1..Len(queue)
    BY <1>1, <1>2
  <2>. QED BY <1>1, <1>2, <2>1
<1>. QED BY <1>1, <1>2, <1>3, <1>4, AcceptanceFacts DEF RegInv, AcceptancesHold

LEMMA RegNextInvariant == RegInv /\ [RegNext]_regVars => RegInv'
<1>. SUFFICES ASSUME RegInv, [RegNext]_regVars PROVE RegInv'
  OBVIOUS
<1>. USE DEF regTaskVars, serverVars
<1>0. /\ RegTypeOK /\ AcceptancesHold /\ KeyAnswersAttempt
      /\ attempt \in Nat /\ challenges \in Nat
      /\ attempt \in 0..MaxAttempts /\ challenges \in 0..MaxChallenges
  BY BoundAssumption DEF RegInv, RegTypeOK
<1>1. CASE Challenge
  <2>1. challenges' \in 0..MaxChallenges /\ challenges <= challenges' /\ challenges' \in 1..challenges'
    BY <1>0, <1>1, BoundAssumption DEF Challenge
  <2>2. /\ ToEntity \subseteq ToEntity' /\ queue \in Seq(ToEntity') /\ madeFor \in Seq(Nonce')
        /\ 1..challenges \subseteq 1..challenges'
        /\ toServer \subseteq ToServer'
    <3>1. attempt' \in Nat /\ challenges' \in Nat /\ attempt <= attempt' /\ MadeKey \subseteq MadeKey'
      BY <1>0, <1>1, <2>1 DEF Challenge, MadeKey
    <3>. QED BY <1>0, <2>1, <3>1, Growth
  <2>3. NONCE(challenges') \in ToEntity'
    BY <2>1 DEF ToEntity
  <2>4. toEntity' \subseteq ToEntity' /\ unanswered' \subseteq 1..challenges'
    BY <1>0, <1>1, <2>1, <2>2, <2>3 DEF Challenge, RegTypeOK
  <2>5. RegTypeOK'
    BY <1>0, <1>1, <2>1, <2>2, <2>4 DEF Challenge, RegTypeOK, MadeKey
  <2>6. AcceptancesHold'
    <3>1. \A m \in toEntity' : m.flag = "ACPTREG" => m \in toEntity
      BY <1>1 DEF Challenge, NONCE
    <3>. QED BY <1>0, <1>1, <3>1, NoNewAcceptance DEF Challenge
  <2>7. KeyAnswersAttempt'
    BY <1>0, <1>1 DEF Challenge, KeyAnswersAttempt, MadeKey
  <2>. QED BY <2>5, <2>6, <2>7 DEF RegInv
<1>2. CASE Refuse
  <2>1. ToEntity' = ToEntity /\ ToServer' = ToServer /\ Nonce' = Nonce /\ MadeKey' = MadeKey /\ RJCTREG \in ToEntity
    BY <1>2 DEF Refuse, ToEntity, ToServer, Nonce, MadeKey
  <2>2. RegTypeOK'
    BY <1>0, <1>2, <2>1 DEF Refuse, RegTypeOK
  <2>3. AcceptancesHold'
    <3>1. \A m \in toEntity' : m.flag = "ACPTREG" => m \in toEntity
      BY <1>2 DEF Refuse, RJCTREG
    <3>. QED BY <1>0, <1>2, <3>1, NoNewAcceptance DEF Refuse
  <2>4. KeyAnswersAttempt'
    BY <1>0, <1>2 DEF Refuse, KeyAnswersAttempt, MadeKey
  <2>. QED BY <2>2, <2>3, <2>4 DEF RegInv
<1>3. ASSUME NEW challenge \in unanswered, NEW nonce \in 1..attempt, IssueKey(challenge, nonce)
      PROVE  RegInv'
  BY <1>3, IssueKeyInvariant
<1>4. ASSUME NEW m \in toEntity \cup {Other}, Deliver(m)
      PROVE  RegInv'
  <2>1. ToEntity' = ToEntity /\ ToServer' = ToServer /\ Nonce' = Nonce /\ MadeKey' = MadeKey
    BY <1>4 DEF Deliver, ToEntity, ToServer, Nonce, MadeKey
  <2>2. m \in ToEntity /\ (m.flag = "ACPTREG" => m \in toEntity)
    BY <1>0, <1>4 DEF RegTypeOK, ToEntity, Other
  <2>3. /\ queue' \in Seq(ToEntity)
        /\ Len(queue') = Len(queue) + 1
        /\ queue'[Len(queue) + 1] = m
        /\ \A q \in 1..Len(queue) : queue'[q] = queue[q]
        /\ Len(queue) \in Nat
    BY <1>0, <1>4, <2>2, AppendProperties, LenProperties DEF Deliver, RegTypeOK
  <2>4. ASSUME NEW q \in 1..Len(queue'), queue'[q].flag = "ACPTREG"
        PROVE  queue'[q] \in toEntity \/ \E r \in 1..Len(queue) : queue'[q] = queue[r]
    <3>1. CASE q = Len(queue) + 1
      BY <2>2, <2>3, <2>4, <3>1
    <3>2. CASE q # Len(queue) + 1
      <4>1. q \in 1..Len(queue)
        BY <2>3, <3>2
      <4>. QED BY <2>3, <4>1
    <3>. QED BY <3>1, <3>2
  <2>5. RegTypeOK'
    BY <1>0, <1>4, <2>1, <2>3 DEF Deliver, RegTypeOK
  <2>6. AcceptancesHold'
    BY <1>0, <1>4, <2>4, NoNewAcceptance DEF Deliver
  <2>7. KeyAnswersAttempt'
    BY <1>0, <1>4 DEF Deliver, KeyAnswersAttempt, MadeKey
  <2>. QED BY <2>5, <2>6, <2>7 DEF RegInv
<1>5. CASE Request
  <2>1. attempt' \in 0..MaxAttempts /\ attempt <= attempt' /\ attempt' \in Nat
    BY <1>0, <1>5, BoundAssumption DEF Request
  <2>2. /\ ToEntity \subseteq ToEntity' /\ queue \in Seq(ToEntity') /\ madeFor \in Seq(Nonce')
        /\ toServer \subseteq ToServer' /\ REQREG \in ToServer'
    <3>1. challenges' \in Nat /\ challenges <= challenges' /\ MadeKey \subseteq MadeKey'
      BY <1>0, <1>5 DEF Request, MadeKey
    <3>. QED BY <1>0, <2>1, <3>1, Growth DEF ToServer
  <2>3. RegTypeOK'
    BY <1>0, <1>5, <2>1, <2>2 DEF Request, RegTypeOK, MadeKey
  <2>4. AcceptancesHold'
    BY <1>0, <1>5, NoNewAcceptance DEF Request
  <2>5. KeyAnswersAttempt'
    BY <1>5 DEF Request, MayRequest, KeyAnswersAttempt
  <2>. QED BY <2>3, <2>4, <2>5 DEF RegInv
<1>6. CASE RequestFails
  <2>1. ToEntity' = ToEntity /\ ToServer' = ToServer /\ Nonce' = Nonce /\ MadeKey' = MadeKey
    BY <1>6 DEF RequestFails, ToEntity, ToServer, Nonce, MadeKey
  <2>2. RegTypeOK'
    <3>1. REQREG \in ToServer
      BY DEF ToServer
    <3>. QED BY <1>0, <1>6, <2>1, <3>1 DEF RequestFails, RegTypeOK
  <2>3. AcceptancesHold'
    BY <1>0, <1>6, NoNewAcceptance DEF RequestFails
  <2>4. KeyAnswersAttempt'
    BY <1>0, <1>6 DEF RequestFails, KeyAnswersAttempt, MadeKey
  <2>. QED BY <2>2, <2>3, <2>4 DEF RegInv
<1>7. CASE AnswerChallenge \/ Register \/ PassOver \/ GiveUp
  <2>1. /\ ToEntity' = ToEntity /\ ToServer' = ToServer /\ Nonce' = Nonce /\ MadeKey' = MadeKey /\ Take
        /\ UNCHANGED << toEntity, attempt, challenges, unanswered, madeFor >>
    BY <1>7 DEF AnswerChallenge, Register, PassOver, GiveUp, ToEntity, ToServer, Nonce, MadeKey
  <2>2. AcceptancesHold'
    BY <1>0, <2>1, TakeFacts, NoNewAcceptance
  <2>3. queue' \in Seq(ToEntity') /\ Head(queue) \in ToEntity
    BY <2>1, TakeFacts
  <2>4. CASE AnswerChallenge
    <3>1. Head(queue).nonce \in 1..challenges /\ attempt \in Nonce
      <4>1. Head(queue).flag = "NONCE" /\ toServer' = toServer \cup {Answer(Head(queue).nonce, attempt)}
        BY <2>4 DEF AnswerChallenge
      <4>2. Head(queue).nonce \in 1..challenges
        BY <2>3, <4>1 DEF ToEntity, NONCE, ACPTREG, RJCTREG, Other
      <4>3. attempt \in Nonce
        BY <1>0, <2>1 DEF Take, RegTypeOK, Nonce
      <4>. QED BY <4>2, <4>3
    <3>2. RegTypeOK'
      BY <1>0, <2>1, <2>3, <2>4, <3>1 DEF AnswerChallenge, RegTypeOK, ToServer
    <3>3. KeyAnswersAttempt'
      BY <1>0, <2>1, <2>4 DEF AnswerChallenge, KeyAnswersAttempt
    <3>. QED BY <2>2, <3>2, <3>3 DEF RegInv
  <2>5. CASE Register
    <3>1. Head(queue).key \in MadeKey /\ madeFor[Head(queue).key] = attempt
      BY <2>1, <2>5, TakeFacts DEF Register, MyNonce
    <3>2. RegTypeOK'
      BY <1>0, <2>1, <2>3, <2>5, <3>1 DEF Register, RegTypeOK
    <3>3. KeyAnswersAttempt'
      BY <2>1, <2>5, <3>1 DEF Register, KeyAnswersAttempt
    <3>. QED BY <2>2, <3>2, <3>3 DEF RegInv
  <2>6. CASE PassOver \/ GiveUp
    <3>1. /\ UNCHANGED << isRegistered, dist_key, toServer >> /\ phase' \in {"idle", "wait"}
          /\ phase' = "wait" => attempt > 0
      BY <1>0, <2>6 DEF PassOver, GiveUp, RegTypeOK
    <3>2. RegTypeOK'
      BY <1>0, <2>1, <2>3, <3>1 DEF RegTypeOK
    <3>3. KeyAnswersAttempt'
      BY <1>0, <2>1, <3>1 DEF KeyAnswersAttempt
    <3>. QED BY <2>2, <3>2, <3>3 DEF RegInv
  <2>. QED BY <1>7, <2>4, <2>5, <2>6
<1>8. CASE TimeOut \/ UNCHANGED regVars
  <2>1. /\ ToEntity' = ToEntity /\ ToServer' = ToServer /\ Nonce' = Nonce /\ MadeKey' = MadeKey
        /\ UNCHANGED << attempt, isRegistered, dist_key, queue, toServer, toEntity,
                        challenges, unanswered, madeFor >>
    BY <1>8 DEF TimeOut, regVars, ToEntity, ToServer, Nonce, MadeKey
  <2>2. RegTypeOK'
    BY <1>0, <1>8, <2>1 DEF RegTypeOK, TimeOut, regVars
  <2>3. AcceptancesHold'
    BY <1>0, <2>1, NoNewAcceptance
  <2>4. KeyAnswersAttempt'
    BY <1>0, <2>1 DEF KeyAnswersAttempt
  <2>. QED BY <2>2, <2>3, <2>4 DEF RegInv
<1>. QED BY <1>1, <1>2, <1>3, <1>4, <1>5, <1>6, <1>7, <1>8 DEF RegNext, ServerAndNetwork, RegTask

\* Messages that are late or repeated never bring a key that was made for another attempt.
THEOREM RegistrationInvariant == RegSpec => []RegInv
<1>. QED BY RegInitInvariant, RegNextInvariant, PTL DEF RegSpec

\* A registered entity has the key that was made for its attempt (secsock.c:111-120).
THEOREM KeyIsForThisAttempt == RegSpec => []KeyAnswersAttempt
<1>1. RegInv => KeyAnswersAttempt
  BY DEF RegInv
<1>. QED BY <1>1, RegistrationInvariant, PTL

=============================================================================
