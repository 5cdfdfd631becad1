-------------------------- MODULE RegistriesProofs --------------------------
(***************************************************************************)
(* Proofs about Registries, for any clients, ports, job ids, tokens and    *)
(* bounds.  Three invariants are proved inductive, one on top of the other:*)
(* the types; what running handles, entries and waiting calls know of each *)
(* other; and the order of the messages.                                   *)
(***************************************************************************)
EXTENDS Registries, WellFoundedInduction, SequenceTheorems, TLAPS

(* The least element of a nonempty set of numbers: what Fresh relies on.   *)
LEMMA MinOK ==
    ASSUME NEW S \in SUBSET Nat, S # {}
    PROVE  Min(S) \in S /\ \A y \in S : Min(S) <= y
<1> DEFINE R == OpToRel(<, Nat)
<1>1. \A x, y \in Nat : x < y => <<x, y>> \in R
  BY DEF OpToRel
<1>2. IsWellFoundedOn(R, Nat)
  BY NatLessThanWellFounded
<1> HIDE DEF R
<1>3. PICK x \in S : \A y \in S : ~ (<<y, x>> \in R)
  BY <1>2, WFMin
<1>4. \A y \in S : ~ (y < x)
  BY <1>1, <1>3
<1>5. \A y \in S : x <= y
  BY <1>4
<1>6. QED
  BY <1>5 DEF Min

(* The greatest element of a set of numbers with a bound: what Offset does.*)
LEMMA MaxOK ==
    ASSUME NEW N \in Nat, NEW S \in SUBSET (0 .. N), S # {}
    PROVE  \E x \in S : \A y \in S : y <= x
<1> DEFINE T == {N - x : x \in S}
<1>0. \A x \in S : x \in Nat /\ x <= N /\ N - x \in Nat
  OBVIOUS
<1>1. T \in SUBSET Nat /\ T # {}
  BY <1>0
<1>2. PICK d \in T : \A e \in T : d <= e
  BY <1>1, MinOK
<1>3. PICK x \in S : d = N - x
  BY <1>2
<1>4. \A y \in S : N - x <= N - y
  BY <1>2, <1>3
<1>5. QED
  BY <1>0, <1>4

(* The keys of one tool are of one kind.                                   *)
LEMMA KindOfKey ==
    ASSUME NEW k \in Key
    PROVE  /\ Tools(k) \subseteq Tool
           /\ Tools(k) \cap {"http_serve", "http_serve_stop"} # {} => k \in Port
           /\ Tools(k) \cap {"schedule_add", "schedule_remove"} # {} => k \in JobId
           /\ Tools(k) \cap {"tg_listen", "tg_inbox", "tg_stop"} # {} => k \in Token
           /\ Tools(k) \cap {"browser_open", "browser_use", "browser_close"} # {} => k \in Sid
BY RegistriesConstantsOK DEF Tools, Tool, MakingTools, Lookups, Key, Handle, Sid

(* The kinds are disjoint, and NULL is of none.                            *)
LEMMA KindsDisjoint ==
    /\ Port \cap JobId = {} /\ Port \cap Token = {} /\ JobId \cap Token = {}
    /\ Sid \cap (Port \cup JobId \cup Token) = {}
    /\ NULL \notin Key /\ NULL \notin Handle /\ NULL \notin Tool
    /\ Key = Port \cup JobId \cup Token \cup Sid /\ Sid = Handle
    /\ Handle \in SUBSET Nat
BY RegistriesConstantsOK, NullOK DEF Key, Handle, Sid

(* The handle that is made next has not been made.                         *)
LEMMA FreshOK ==
    ASSUME Unmade # {}
    PROVE  Fresh \in Handle /\ state[Fresh] = "none"
BY MinOK, KindsDisjoint DEF Fresh, Unmade

-----------------------------------------------------------------------------
(* The types.  Each action is a step of its own in the three proofs.       *)

(* The types hold at first.                                                *)
LEMMA InitType == Init => TypeOK
<1> SUFFICES ASSUME Init PROVE TypeOK
  OBVIOUS
<1>1. <<>> \in Seq(Message) /\ Len(<<>>) = 0
  OBVIOUS
<1>2. 0 \in 0 .. MaxMessages /\ 0 <= InboxCap
  BY RegistriesConstantsOK
<1>3. QED
  BY <1>1, <1>2, KindsDisjoint
     DEF Init, TypeOK, CallOK, HandlesOK, TgOK, Idle, Live

(* A made handle stays made.                                               *)
StaysMade == Unmade' \subseteq Unmade

(* A call of a client: its key, its tool, the handle it waits for.         *)
LEMMA CallOf ==
    ASSUME CallOK, NEW c \in Client, call[c].tool # NULL
    PROVE  /\ K(c) \in Key /\ call[c].tool \in Tools(K(c))
           /\ call[c].h # NULL => call[c].h \in Handle /\ call[c].h \notin Unmade
<1>1. call[c] # Idle
  BY DEF Idle
<1>2. QED
  BY <1>1 DEF CallOK, K

(* The three things an action does to the calls.                           *)
LEMMA EndOK ==
    ASSUME CallOK, NEW C, End(C), StaysMade
    PROVE  CallOK'
<1>1. Idle \in [tool : Tool \cup {NULL}, key : Key \cup {NULL}, h : Handle \cup {NULL}]
  BY DEF Idle
<1>2. call' \in [Client -> [tool : Tool \cup {NULL}, key : Key \cup {NULL},
                            h : Handle \cup {NULL}]]
  BY <1>1 DEF CallOK, End
<1>3. ASSUME NEW c \in Client, call'[c] # Idle
      PROVE  /\ call'[c].key \in Key /\ call'[c].tool \in Tools(call'[c].key)
             /\ call'[c].h \in {NULL} \cup (Handle \ Unmade')
  <2>1. call'[c] = call[c]
    BY <1>3 DEF End
  <2>2. QED
    BY <1>3, <2>1 DEF CallOK, StaysMade
<1>4. QED
  BY <1>2, <1>3 DEF CallOK, Idle

(* A client that awaits a handle has the types of one.                     *)
LEMMA AwaitOK ==
    ASSUME CallOK, NEW c \in Client, call[c].tool # NULL,
           NEW h \in Handle, h \notin Unmade', Await(c, h), StaysMade
    PROVE  CallOK'
<1>1. call' \in [Client -> [tool : Tool \cup {NULL}, key : Key \cup {NULL},
                            h : Handle \cup {NULL}]]
  BY DEF CallOK, Await
<1>2. ASSUME NEW d \in Client, call'[d] # Idle
      PROVE  /\ call'[d].key \in Key /\ call'[d].tool \in Tools(call'[d].key)
             /\ call'[d].h \in {NULL} \cup (Handle \ Unmade')
  <2>1. CASE d = c
    <3>1. call'[c].key = K(c) /\ call'[c].tool = call[c].tool /\ call'[c].h = h
      BY DEF Await, CallOK, K
    <3>2. QED
      BY <2>1, <3>1, CallOf
  <2>2. CASE d # c
    <3>1. call'[d] = call[d]
      BY <2>2 DEF Await, CallOK
    <3>2. QED
      BY <1>2, <3>1 DEF CallOK, StaysMade
  <2>3. QED
    BY <2>1, <2>2
<1>3. QED
  BY <1>1, <1>2 DEF CallOK, Idle

(* So has one that posts a call.                                           *)
LEMMA PostOK ==
    ASSUME CallOK, NEW c \in Client, NEW k \in Key, NEW tool \in Tools(k),
           Post(c, tool, k)
    PROVE  CallOK'
<1> DEFINE new == [tool |-> tool, key |-> k, h |-> NULL]
<1>1. call' = [call EXCEPT ![c] = new] /\ Unmade' = Unmade
  BY DEF Post, Unmade, handleVars
<1>2. tool \in Tool
  BY KindOfKey
<1>3. call' \in [Client -> [tool : Tool \cup {NULL}, key : Key \cup {NULL},
                            h : Handle \cup {NULL}]]
  BY <1>1, <1>2 DEF CallOK
<1>4. \A d \in Client : call'[d] = IF d = c THEN new ELSE call[d]
  BY <1>1 DEF CallOK
<1>5. QED
  BY <1>1, <1>3, <1>4 DEF CallOK, Idle

(* The four things an action does to the handles.                          *)
LEMMA MakeOK ==
    ASSUME HandlesOK, NEW k \in Key, Make(k)
    PROVE  /\ HandlesOK' /\ StaysMade
           /\ Fresh \in Handle /\ state[Fresh] = "none" /\ Fresh \notin Unmade'
           /\ reg' = [reg EXCEPT ![k] = Fresh]
           /\ state' = [state EXCEPT ![Fresh] = "live"]
           /\ keyOf' = [keyOf EXCEPT ![Fresh] = k]
<1>1. Fresh \in Handle /\ state[Fresh] = "none"
  BY FreshOK DEF Make
<1>2. \A l \in Key : reg[l] # Fresh
  BY <1>1, KindsDisjoint DEF HandlesOK
<1> HIDE DEF Fresh
<1>3. HandlesOK'
  BY <1>1, <1>2, KindsDisjoint DEF HandlesOK, Make, Becomes, Enter, Live
<1>4. StaysMade /\ Fresh \notin Unmade'
  BY <1>1 DEF HandlesOK, Make, Becomes, StaysMade, Unmade
<1>5. QED
  BY <1>1, <1>3, <1>4 DEF Make, Becomes, Enter

(* A browser that starts, and is in no Map yet.                            *)
LEMMA LaunchOK ==
    ASSUME HandlesOK, Unmade # {}, Becomes(Fresh, "live"), UNCHANGED <<reg, keyOf>>
    PROVE  /\ HandlesOK' /\ StaysMade
           /\ Fresh \in Handle /\ state[Fresh] = "none" /\ Fresh \notin Unmade'
<1>1. Fresh \in Handle /\ state[Fresh] = "none"
  BY FreshOK
<1> HIDE DEF Fresh
<1>2. HandlesOK'
  BY <1>1 DEF HandlesOK, Becomes, Live
<1>3. StaysMade /\ Fresh \notin Unmade'
  BY <1>1 DEF HandlesOK, Becomes, StaysMade, Unmade
<1>4. QED
  BY <1>1, <1>2, <1>3

(* It is registered.                                                       *)
LEMMA EnterOK ==
    ASSUME HandlesOK, NEW k \in Key, NEW h \in Handle, h \notin Unmade,
           keyOf[h] = NULL, Enter(k, h), UNCHANGED state
    PROVE  HandlesOK' /\ StaysMade
<1>1. \A l \in Key : reg[l] # h
  BY KindsDisjoint DEF HandlesOK
<1>2. HandlesOK'
  BY <1>1, KindsDisjoint DEF HandlesOK, Enter, Unmade
<1>3. QED
  BY <1>2 DEF StaysMade, Unmade

(* A handle that closes.                                                   *)
LEMMA BecomesOK ==
    ASSUME HandlesOK, NEW h \in Handle, h \notin Unmade, Becomes(h, "closing"),
           UNCHANGED <<reg, keyOf>>
    PROVE  HandlesOK' /\ StaysMade /\ h \notin Unmade'
BY DEF HandlesOK, Becomes, Unmade, StaysMade, Live

(* A handle that leaves its registry.                                      *)
LEMMA DropOK ==
    ASSUME HandlesOK, NEW k \in Key \cup {NULL}, NEW h \in Handle, h \notin Unmade,
           Drop(k, h)
    PROVE  HandlesOK' /\ StaysMade
BY KindsDisjoint DEF HandlesOK, Drop, Becomes, Unmade, StaysMade, Live

(* A registered handle has been made.                                      *)
LEMMA RegOK ==
    ASSUME HandlesOK, NEW k \in Key, reg[k] # NULL
    PROVE  reg[k] \in Handle /\ reg[k] \notin Unmade /\ keyOf[reg[k]] = k
BY KindsDisjoint DEF HandlesOK, Unmade

(* Inboxes and what was taken of them, with new values for one token.      *)
LEMMA TgSet ==
    ASSUME TgOK, NEW t \in Token, NEW q \in Seq(Message), Len(q) <= InboxCap,
           NEW r \in Seq(Message),
           inbox' = [inbox EXCEPT ![t] = q], taken' = [taken EXCEPT ![t] = r],
           UNCHANGED <<pollVars, overtaken>>
    PROVE  TgOK'
<1>1. UNCHANGED <<sent, confirmed, got, overtaken>>
  BY DEF pollVars
<1>2. inbox' \in [Token -> Seq(Message)] /\ taken' \in [Token -> Seq(Message)]
  BY DEF TgOK
<1>3. \A u \in Token : Len(inbox'[u]) <= InboxCap
  BY DEF TgOK
<1>4. /\ {sent', confirmed'} \subseteq [Token -> 0 .. MaxMessages]
      /\ got' \in [Handle -> SUBSET (1 .. MaxMessages)] /\ overtaken' \subseteq Token
  BY <1>1 DEF TgOK
<1>5. {inbox', taken'} \subseteq [Token -> Seq(Message)]
  BY <1>2
<1>6. QED
  BY <1>3, <1>4, <1>5, Zenon DEF TgOK

(* The messages a poll brings are messages.                                *)
LEMMA BatchOK ==
    ASSUME NEW h \in Handle, NEW m \in 0 .. MaxMessages, NEW n \in 0 .. MaxMessages, n > m
    PROVE  /\ Batch(h, m, n) \in Seq(Message) /\ Len(Batch(h, m, n)) = n - m
           /\ \A i \in 1 .. n - m : Batch(h, m, n)[i] = [bot |-> h, id |-> m + i]
<1>1. n - m \in Nat /\ m \in Nat /\ n \in Nat /\ n <= MaxMessages /\ MaxMessages \in Nat
  BY RegistriesConstantsOK
<1>2. \A i \in 1 .. n - m : [bot |-> h, id |-> m + i] \in Message
  <2> SUFFICES ASSUME NEW i \in 1 .. n - m PROVE m + i \in 1 .. MaxMessages
    BY DEF Message
  <2>1. QED
    BY <1>1
<1>3. QED
  BY <1>1, <1>2 DEF Batch

(* What the cap leaves is the end of the queue.                            *)
LEMMA CappedOK ==
    ASSUME NEW S, NEW q \in Seq(S)
    PROVE  \E m \in 1 .. Len(q) + 1 :
              /\ Capped(q) = SubSeq(q, m, Len(q))
              /\ Len(Capped(q)) <= InboxCap /\ Capped(q) \in Seq(S)
<1>1. Len(q) \in Nat /\ InboxCap \in Nat \ {0}
  BY RegistriesConstantsOK
<1>2. CASE Len(q) > InboxCap
  <2> DEFINE m == Len(q) - InboxCap + 1
  <2>1. m \in 1 .. Len(q) + 1 /\ Len(q) - m + 1 = InboxCap
    BY <1>1, <1>2
  <2>2. SubSeq(q, m, Len(q)) \in Seq(S) /\ Len(SubSeq(q, m, Len(q))) = InboxCap
    BY <1>1, <1>2, <2>1
  <2>3. Capped(q) = SubSeq(q, m, Len(q))
    BY <1>2 DEF Capped
  <2> HIDE DEF m
  <2>4. QED
    BY <1>1, <2>1, <2>2, <2>3
<1>3. CASE ~ (Len(q) > InboxCap)
  <2>1. Capped(q) = q /\ SubSeq(q, 1, Len(q)) = q
    BY <1>3 DEF Capped
  <2>2. QED
    BY <1>1, <1>3, <2>1
<1>4. QED
  BY <1>2, <1>3

(* Every step keeps the types.                                             *)
LEMMA TypeNext == TypeOK /\ [Next]_vars => TypeOK'
<1> SUFFICES ASSUME TypeOK, [Next]_vars PROVE TypeOK'
  OBVIOUS
<1> USE DEF Starts, Waits
<1>k. CallOK /\ HandlesOK /\ TgOK /\ up \in BOOLEAN /\ session \subseteq Client
  BY DEF TypeOK
<1>n. NULL \notin Tool /\ NULL \notin Key /\ NULL \notin Handle
  BY KindsDisjoint
<1>t. ASSUME NEW c \in Client, call[c].tool \in Tool
      PROVE  /\ K(c) \in Key /\ call[c].tool \in Tools(K(c))
             /\ call[c].h # NULL => call[c].h \in Handle /\ call[c].h \notin Unmade
  BY <1>k, <1>n, <1>t, CallOf
<1>s. ASSUME handleVars' = handleVars
      PROVE  HandlesOK' /\ StaysMade
  BY <1>k, <1>s DEF HandlesOK, StaysMade, Unmade, handleVars
<1>g. ASSUME tgVars' = tgVars PROVE TgOK'
  BY <1>k, <1>g DEF TgOK, tgVars, pollVars
<1>q. ASSUME call' = call, StaysMade PROVE CallOK'
  BY <1>k, <1>q DEF CallOK, StaysMade
<1>1. ASSUME NEW c \in Client, Connect(c) \/ Disconnect(c) PROVE TypeOK'
  BY <1>1, <1>k, <1>s, <1>g, <1>q DEF TypeOK, Connect, Disconnect
<1>2. ASSUME NEW c \in Client, NEW k \in Key, NEW tool \in Tools(k), Post(c, tool, k)
      PROVE  TypeOK'
  BY <1>2, <1>k, <1>s, <1>g, PostOK DEF TypeOK, Post
<1>3. ASSUME NEW c \in Client, NEW tool \in Lookups, NotFound(c, tool) PROVE TypeOK'
  BY <1>3, <1>k, <1>s, <1>g, EndOK DEF TypeOK, NotFound
<1>4. ASSUME NEW c \in Client, HttpServe(c) PROVE TypeOK'
  <2>1. K(c) \in Key
    BY <1>4, <1>t DEF HttpServe, Tool, MakingTools
  <2>2. HandlesOK' /\ StaysMade
    BY <1>4, <2>1, <1>k, <1>s, MakeOK DEF HttpServe
  <2>3. up' \in BOOLEAN
    BY <1>4, <1>k DEF HttpServe
  <2>4. QED
    BY <1>4, <2>2, <2>3, <1>k, <1>g, EndOK DEF TypeOK, HttpServe
<1>5. ASSUME NEW c \in Client, HttpStop(c) \/ TgStop(c) \/ BrowserClose(c)
      PROVE  TypeOK'
  <2>1. K(c) \in Key /\ call[c].tool # NULL /\ reg[K(c)] # NULL
    BY <1>5, <1>t, <1>n DEF HttpStop, TgStop, BrowserClose, Tool, Lookups
  <2>2. HandlesOK' /\ StaysMade /\ reg[K(c)] \notin Unmade' /\ reg[K(c)] \in Handle
    BY <1>5, <2>1, <1>k, RegOK, BecomesOK DEF HttpStop, TgStop, BrowserClose
  <2>3. CallOK'
    BY <1>5, <2>1, <2>2, <1>k, AwaitOK DEF HttpStop, TgStop, BrowserClose
  <2>4. QED
    BY <1>5, <2>2, <2>3, <1>k, <1>g DEF TypeOK, HttpStop, TgStop, BrowserClose
<1>6. ASSUME NEW h \in Handle, HttpClosed(h) PROVE TypeOK'
  <2>1. PICK c \in Client : Waits(c, "http_serve_stop") /\ call[c].h = h
    BY <1>6 DEF HttpClosed, StoppersOf
  <2>2. h \notin Unmade
    BY <2>1, <1>t DEF Tool, Lookups
  <2>3. keyOf[h] \in Key \cup {NULL}
    BY <1>k DEF HandlesOK
  <2>4. HandlesOK' /\ StaysMade
    BY <1>6, <2>2, <2>3, <1>k, DropOK DEF HttpClosed
  <2>5. QED
    BY <1>6, <2>4, <1>k, <1>g, EndOK DEF TypeOK, HttpClosed
<1>7. ASSUME NEW c \in Client, ScheduleAdd(c) PROVE TypeOK'
  <2>1. K(c) \in Key
    BY <1>7, <1>t DEF ScheduleAdd, Tool, MakingTools
  <2>2. QED
    BY <1>7, <2>1, <1>k, <1>g, MakeOK, EndOK DEF TypeOK, ScheduleAdd
<1>8. ASSUME NEW c \in Client, ScheduleRemove(c) PROVE TypeOK'
  <2>1. K(c) \in Key
    BY <1>8, <1>t DEF ScheduleRemove, Tool, Lookups
  <2>2. HandlesOK' /\ StaysMade
    BY <1>8, <2>1, <1>k, RegOK, DropOK DEF ScheduleRemove
  <2>3. QED
    BY <1>8, <2>2, <1>k, <1>g, EndOK DEF TypeOK, ScheduleRemove
<1>9. ASSUME NEW c \in Client, TgListen(c) PROVE TypeOK'
  <2>1. K(c) \in Key /\ K(c) \in Token
    BY <1>9, <1>t, KindOfKey DEF TgListen, Tool, MakingTools
  <2>2. HandlesOK' /\ StaysMade
    BY <1>9, <2>1, <1>k, <1>s, MakeOK DEF TgListen
  <2>3. TgOK'
    <3>1. <<>> \in Seq(Message) /\ Len(<<>>) <= InboxCap
      BY RegistriesConstantsOK
    <3>2. QED
      BY <1>9, <2>1, <3>1, <1>k DEF TgListen, TgOK, pollVars
  <2>4. QED
    BY <1>9, <2>2, <2>3, <1>k, EndOK DEF TypeOK, TgListen
<1>10. ASSUME NEW h \in Handle, NEW t \in Token, TgUpdates(h, t) PROVE TypeOK'
  <2>1. PICK n \in sent[t] .. MaxMessages :
           /\ n > confirmed[t]
           /\ sent' = [sent EXCEPT ![t] = n]
           /\ got' = [got EXCEPT ![h] = got[h] \cup confirmed[t] + 1 .. n]
           /\ inbox' = [inbox EXCEPT ![t] = Capped(inbox[t] \o Batch(h, confirmed[t], n))]
    BY <1>10 DEF TgUpdates
  <2> DEFINE all == inbox[t] \o Batch(h, confirmed[t], n)
  <2>2. /\ inbox[t] \in Seq(Message) /\ confirmed[t] \in 0 .. MaxMessages
        /\ n \in 0 .. MaxMessages /\ confirmed[t] + 1 .. n \subseteq 1 .. MaxMessages
    BY <1>k, <2>1, RegistriesConstantsOK DEF TgOK
  <2>3. Batch(h, confirmed[t], n) \in Seq(Message)
    BY <2>1, <2>2, BatchOK
  <2>4. all \in Seq(Message)
    BY <2>2, <2>3
  <2> HIDE DEF all
  <2>5. Capped(all) \in Seq(Message) /\ Len(Capped(all)) <= InboxCap
    BY <2>4, CappedOK
  <2>6. inbox' = [inbox EXCEPT ![t] = Capped(all)] /\ UNCHANGED <<confirmed, taken, overtaken>>
    BY <1>10, <2>1 DEF TgUpdates, all
  <2>7. TgOK'
    BY <2>1, <2>2, <2>5, <2>6, <1>k DEF TgOK
  <2>8. QED
    BY <1>10, <2>7, <1>k, <1>s, <1>q DEF TypeOK, TgUpdates
<1>20. ASSUME NEW h \in Handle, NEW t \in Token, TgGetUpdates(h, t) PROVE TypeOK'
  <2>1. Offset(h) \in 0 .. MaxMessages
    <3>1. MaxMessages \in Nat /\ got[h] \cup {0} \in SUBSET (0 .. MaxMessages)
      BY <1>k, RegistriesConstantsOK DEF TgOK
    <3>2. \E x \in got[h] \cup {0} : \A y \in got[h] \cup {0} : y <= x
      BY <3>1, MaxOK
    <3>3. QED
      BY <3>1, <3>2 DEF Offset, Max
  <2>2. TgOK'
    BY <1>20, <2>1, <1>k DEF TgOK, TgGetUpdates
  <2>3. QED
    BY <1>20, <2>2, <1>k, <1>s, <1>q DEF TypeOK, TgGetUpdates
<1>11. ASSUME NEW c \in Client, TgInbox(c) PROVE TypeOK'
  <2> DEFINE in == inbox[K(c)]
             n  == Min({InboxTake, Len(in)})
  <2>1. K(c) \in Token
    BY <1>11, <1>t, KindOfKey DEF TgInbox, Tool
  <2>2. /\ in \in Seq(Message) /\ Len(in) <= InboxCap
        /\ taken[K(c)] \in Seq(Message)
    BY <2>1, <1>k DEF TgOK
  <2>3. n \in Nat /\ n <= Len(in)
    <3> DEFINE S == {InboxTake, Len(in)}
    <3>1. S \in SUBSET Nat /\ S # {}
      BY <2>2, RegistriesConstantsOK
    <3>2. Min(S) \in S /\ \A y \in S : Min(S) <= y
      BY <3>1, MinOK
    <3>3. QED
      BY <3>1, <3>2
  <2> HIDE DEF n
  <2>4. /\ SubSeq(in, 1, n) \in Seq(Message)
        /\ SubSeq(in, n + 1, Len(in)) \in Seq(Message)
        /\ Len(SubSeq(in, n + 1, Len(in))) <= InboxCap
    BY <2>2, <2>3, RegistriesConstantsOK
  <2>5. taken[K(c)] \o SubSeq(in, 1, n) \in Seq(Message)
    BY <2>2, <2>4
  <2>6. /\ taken' = [taken EXCEPT ![K(c)] = taken[K(c)] \o SubSeq(in, 1, n)]
        /\ inbox' = [inbox EXCEPT ![K(c)] = SubSeq(in, n + 1, Len(in))]
    BY <1>11 DEF TgInbox, n
  <2> HIDE DEF in
  <2>7. UNCHANGED <<pollVars, overtaken>>
    BY <1>11 DEF TgInbox
  <2>8. TgOK'
    BY <2>1, <2>4, <2>5, <2>6, <2>7, <1>k, TgSet
  <2>9. QED
    BY <1>11, <2>8, <1>k, <1>s, EndOK DEF TypeOK, TgInbox
<1>12. ASSUME NEW c \in Client, TgStopAgain(c) PROVE TypeOK'
  <2>1. K(c) \in Key /\ K(c) \in Token /\ reg[K(c)] # NULL
    BY <1>12, <1>t, KindOfKey DEF TgStopAgain, Tool, Lookups
  <2>2. HandlesOK' /\ StaysMade
    BY <1>12, <2>1, <1>k, RegOK DEF TgStopAgain, HandlesOK, StaysMade, Unmade
  <2>3. <<>> \in Seq(Message) /\ Len(<<>>) <= InboxCap
    BY RegistriesConstantsOK
  <2>4. TgOK'
    BY <1>12, <2>1, <2>3, <1>k DEF TgStopAgain, TgOK, pollVars
  <2>5. QED
    BY <1>12, <2>2, <2>4, <1>k, EndOK DEF TypeOK, TgStopAgain
<1>13. ASSUME NEW c \in Client, TgStopped(c) PROVE TypeOK'
  <2>1. /\ K(c) \in Key /\ K(c) \in Token
        /\ call[c].h \in Handle /\ call[c].h \notin Unmade
    BY <1>13, <1>t, KindOfKey DEF TgStopped, Tool, Lookups
  <2>2. HandlesOK' /\ StaysMade
    BY <1>13, <2>1, <1>k, DropOK DEF TgStopped
  <2>3. <<>> \in Seq(Message) /\ Len(<<>>) <= InboxCap
    BY RegistriesConstantsOK
  <2>4. TgOK'
    BY <1>13, <2>1, <2>3, <1>k DEF TgStopped, TgOK, pollVars
  <2>5. QED
    BY <1>13, <2>2, <2>4, <1>k, EndOK DEF TypeOK, TgStopped
<1>14. ASSUME NEW c \in Client, BrowserLaunch(c) PROVE TypeOK'
  <2>1. CASE End({c}) /\ UNCHANGED state
    BY <1>14, <2>1, <1>k, <1>s, <1>g, EndOK DEF TypeOK, BrowserLaunch, handleVars
  <2>2. CASE Unmade # {} /\ Becomes(Fresh, "live") /\ Await(c, Fresh)
    <3>1. /\ HandlesOK' /\ StaysMade
          /\ Fresh \in Handle /\ Fresh \notin Unmade'
      BY <1>14, <2>2, <1>k, LaunchOK DEF BrowserLaunch
    <3>2. CallOK'
      BY <1>14, <2>2, <3>1, <1>k, <1>n, AwaitOK DEF BrowserLaunch, Tool, MakingTools
    <3>3. QED
      BY <1>14, <3>1, <3>2, <1>k, <1>g DEF TypeOK, BrowserLaunch
  <2>3. QED
    BY <1>14, <2>1, <2>2 DEF BrowserLaunch
<1>21. ASSUME NEW c \in Client, BrowserPage(c) PROVE TypeOK'
  <2>1. PICK k \in Sid : Enter(k, call[c].h)
    BY <1>21 DEF BrowserPage
  <2>2. call[c].h \in Handle /\ call[c].h \notin Unmade /\ keyOf[call[c].h] = NULL
    BY <1>21, <1>t DEF BrowserPage, Opening, Tool, MakingTools
  <2>3. HandlesOK' /\ StaysMade
    BY <1>21, <2>1, <2>2, <1>k, EnterOK DEF BrowserPage, Key
  <2>4. CallOK'
    BY <1>21, <2>3, <1>k, <1>q, EndOK DEF BrowserPage
  <2>5. QED
    BY <1>21, <2>3, <2>4, <1>k, <1>g DEF TypeOK, BrowserPage
<1>15. ASSUME NEW c \in Client, BrowserAt(c) \/ BrowserUsed(c) \/ BrowserPageFails(c)
       PROVE  TypeOK'
  BY <1>15, <1>k, <1>s, <1>g, EndOK DEF TypeOK, BrowserAt, BrowserUsed, BrowserPageFails
<1>16. ASSUME NEW c \in Client, BrowserUse(c) PROVE TypeOK'
  <2>1. K(c) \in Key /\ call[c].tool # NULL /\ reg[K(c)] # NULL
    BY <1>16, <1>t, <1>n DEF BrowserUse, Tool, Lookups
  <2>2. HandlesOK' /\ StaysMade /\ reg[K(c)] \in Handle /\ reg[K(c)] \notin Unmade'
    BY <1>16, <2>1, <1>k, <1>s, RegOK DEF BrowserUse, StaysMade
  <2>3. CallOK'
    BY <1>16, <2>1, <2>2, <1>k, AwaitOK DEF BrowserUse
  <2>4. QED
    BY <1>16, <2>2, <2>3, <1>k, <1>g DEF TypeOK, BrowserUse
<1>17. ASSUME NEW c \in Client, BrowserClosed(c) PROVE TypeOK'
  <2>1. K(c) \in Key /\ call[c].h \in Handle /\ call[c].h \notin Unmade
    BY <1>17, <1>t DEF BrowserClosed, Tool, Lookups
  <2>2. HandlesOK' /\ StaysMade
    BY <1>17, <2>1, <1>k, DropOK DEF BrowserClosed
  <2>3. QED
    BY <1>17, <2>2, <1>k, <1>g, EndOK DEF TypeOK, BrowserClosed
<1>18. CASE UNCHANGED vars
  BY <1>18, <1>k, <1>s, <1>g, <1>q DEF TypeOK, vars
<1>19. QED
  BY <1>1, <1>2, <1>3, <1>4, <1>5, <1>6, <1>7, <1>8, <1>9, <1>10, <1>11, <1>12,
     <1>13, <1>14, <1>15, <1>16, <1>17, <1>18, <1>20, <1>21, Zenon DEF Next, CallStep

(* Every map holds handles under keys of its kind, every waiting call names*)
(* a handle that was made, and every inbox keeps its cap.                  *)
THEOREM TypeCorrect == Spec => []TypeOK
BY InitType, TypeNext, PTL DEF Spec

-----------------------------------------------------------------------------
(* What handles, entries and waiting calls know of each other.             *)

StopTools == {"http_serve_stop", "tg_stop", "browser_close"}

WaitsFor(c, tools, h) == call[c].tool \in tools /\ call[c].h = h /\ h # NULL

(* A stop that waits does so for a handle of its key; the handle of an     *)
(* HTTP or Telegram stop cannot end before it, and one stop at most waits  *)
(* for the last poll of a bot.                                             *)
StopsKnow ==
    \A c \in Client, h \in Handle :
        /\ WaitsFor(c, StopTools, h) => keyOf[h] = K(c)
        /\ WaitsFor(c, {"http_serve_stop", "tg_stop"}, h) => state[h] = "closing"
        /\ \A d \in Client :
              WaitsFor(c, {"tg_stop"}, h) /\ WaitsFor(d, {"tg_stop"}, h) => c = d

(* EntriesAlive, with the calls that will delete the entry.                *)
EntriesClosing ==
    \A k \in Key : reg[k] # NULL =>
        \/ state[reg[k]] = "live"
        \/ /\ state[reg[k]] = "closing"
           /\ \E c \in Client : WaitsFor(c, StopTools, reg[k])

(* A browser that is in no Map yet, or never will be, runs.                *)
UnnamedRuns == \A h \in Handle : keyOf[h] = NULL => state[h] \in {"none", "live"}

HandleInv == StopsKnow /\ EntriesClosing /\ Reachable /\ UnnamedRuns

(* The invariant of the handles holds at first.                            *)
LEMMA HandleInit == Init => HandleInv
BY KindsDisjoint DEF Init, HandleInv, StopsKnow, EntriesClosing, Reachable,
   UnnamedRuns, WaitsFor, Idle, Live

(* A step that neither begins nor ends the wait of a stop.                 *)
SameStops ==
    \A c \in Client : \/ call'[c] = call[c]
                      \/ /\ call[c].tool \in StopTools => call[c].h = NULL
                         /\ call'[c].tool \in StopTools => call'[c].h = NULL

(* Who waits for a handle to close goes on waiting for it.                 *)
LEMMA SameStopsWait ==
    ASSUME SameStops, NEW c \in Client, NEW h \in Handle,
           NEW tools \in SUBSET StopTools
    PROVE  /\ WaitsFor(c, tools, h)' <=> WaitsFor(c, tools, h)
           /\ WaitsFor(c, tools, h) => K(c)' = K(c)
BY DEF SameStops, WaitsFor, K

(* The end of a call that waits for no handle.                             *)
LEMMA EndsNoStop ==
    ASSUME NEW c \in Client, End({c}), call[c].tool \in StopTools => call[c].h = NULL
    PROVE  SameStops
BY KindsDisjoint DEF End, SameStops, Idle, Tool, Lookups, StopTools

(* Nothing happens to the handles.                                         *)
LEMMA QuietKeeps ==
    ASSUME HandleInv, HandlesOK, SameStops, UNCHANGED <<handleVars, overtaken>>
    PROVE  HandleInv'
<1>1. StopsKnow'
  BY SameStopsWait DEF HandleInv, StopsKnow, handleVars, StopTools
<1>2. EntriesClosing'
  BY SameStopsWait DEF HandleInv, HandlesOK, EntriesClosing, handleVars
<1>3. Reachable' /\ UnnamedRuns'
  BY DEF HandleInv, Reachable, UnnamedRuns, handleVars
<1>4. QED
  BY <1>1, <1>2, <1>3 DEF HandleInv

(* A handle is made under a key; a server or a bot, only where none is.    *)
LEMMA MakeKeeps ==
    ASSUME HandleInv, HandlesOK, CallOK, SameStops, NEW k \in Key, Make(k),
           UNCHANGED overtaken, k \in Port \cup Token => reg[k] = NULL
    PROVE  HandleInv'
<1> DEFINE new == Fresh
<1>1. /\ new \in Handle /\ state[new] = "none"
      /\ \A l \in Key : reg'[l] = IF l = k THEN new ELSE reg[l]
      /\ \A h \in Handle : /\ state'[h] = IF h = new THEN "live" ELSE state[h]
                           /\ keyOf'[h] = IF h = new THEN k ELSE keyOf[h]
  BY MakeOK DEF HandlesOK
<1> HIDE DEF new
<1>2. \A c \in Client, tools \in SUBSET StopTools : ~ WaitsFor(c, tools, new)
  <2> SUFFICES ASSUME NEW c \in Client, call[c].tool \in StopTools, call[c].h = new
               PROVE  FALSE
    BY DEF WaitsFor
  <2>1. call[c] # Idle
    BY KindsDisjoint DEF Idle, StopTools, Tool, Lookups
  <2>2. QED
    BY <1>1, <2>1, KindsDisjoint DEF CallOK, Unmade
<1>3. \A h \in Handle : state[h] # "none" => keyOf[h] \in Key \cup {NULL}
  BY DEF HandlesOK
<1>4. StopsKnow'
  BY <1>1, <1>2, SameStopsWait DEF HandleInv, StopsKnow, StopTools
<1>5. EntriesClosing'
  BY <1>1, <1>2, SameStopsWait DEF HandleInv, HandlesOK, EntriesClosing
<1>6. Reachable' /\ UnnamedRuns'
  <2>1. Reachable'
    BY <1>1, <1>3, KindsDisjoint DEF HandleInv, HandlesOK, Reachable, Live
  <2>2. UnnamedRuns'
    BY <1>1 DEF HandleInv, UnnamedRuns
  <2>3. QED
    BY <2>1, <2>2
<1>7. QED
  BY <1>4, <1>5, <1>6 DEF HandleInv

(* A browser is launched.                                                  *)
LEMMA LaunchKeeps ==
    ASSUME HandleInv, HandlesOK, CallOK, SameStops, Unmade # {},
           Becomes(Fresh, "live"), UNCHANGED <<reg, keyOf, overtaken>>
    PROVE  HandleInv'
<1> DEFINE new == Fresh
<1>1. /\ new \in Handle /\ state[new] = "none" /\ keyOf[new] = NULL
      /\ \A h \in Handle : state'[h] = IF h = new THEN "live" ELSE state[h]
  BY FreshOK DEF HandlesOK, Becomes
<1> HIDE DEF new
<1>2. \A h \in Handle, c \in Client :
         WaitsFor(c, {"http_serve_stop", "tg_stop"}, h) => h # new
  BY <1>1 DEF HandleInv, StopsKnow
<1>3. StopsKnow'
  BY <1>1, <1>2, SameStopsWait DEF HandleInv, StopsKnow, StopTools
<1>4. EntriesClosing'
  BY <1>1, SameStopsWait DEF HandleInv, HandlesOK, EntriesClosing
<1>5. Reachable' /\ UnnamedRuns'
  BY <1>1, KindsDisjoint, RegistriesConstantsOK
     DEF HandleInv, Reachable, UnnamedRuns, Live
<1>6. QED
  BY <1>3, <1>4, <1>5 DEF HandleInv

(* A browser is registered, under a key of its kind.                       *)
LEMMA EnterKeeps ==
    ASSUME HandleInv, HandlesOK, SameStops, NEW k \in Sid, NEW h \in Handle,
           h \notin Unmade, keyOf[h] = NULL, Enter(k, h), UNCHANGED <<state, overtaken>>,
           \A c \in Client : ~ WaitsFor(c, StopTools, h)
    PROVE  HandleInv'
<1>1. /\ k \in Key /\ k \notin Port \cup Token
      /\ \A l \in Key : reg'[l] = IF l = k THEN h ELSE reg[l]
      /\ \A g \in Handle : keyOf'[g] = IF g = h THEN k ELSE keyOf[g]
      /\ state[h] = "live"
  BY KindsDisjoint DEF HandlesOK, Enter, HandleInv, UnnamedRuns, Unmade
<1>2. StopsKnow'
  BY <1>1, SameStopsWait DEF HandleInv, StopsKnow, StopTools
<1>3. EntriesClosing'
  BY <1>1, SameStopsWait DEF HandleInv, HandlesOK, EntriesClosing
<1>4. Reachable' /\ UnnamedRuns'
  BY <1>1 DEF HandleInv, HandlesOK, Reachable, UnnamedRuns
<1>5. QED
  BY <1>2, <1>3, <1>4 DEF HandleInv

(* A stop closes the handle of its key and waits for it.                   *)
LEMMA CloseKeeps ==
    ASSUME HandleInv, HandlesOK, CallOK, NEW c \in Client, NEW k \in Key,
           call[c].tool \in StopTools, call[c].h = NULL, K(c) = k, reg[k] # NULL,
           call[c].tool = "tg_stop" => state[reg[k]] = "live",
           Becomes(reg[k], "closing"), Await(c, reg[k]),
           UNCHANGED <<reg, keyOf, overtaken>>
    PROVE  HandleInv'
<1> DEFINE g == reg[k]
<1>1. /\ g \in Handle /\ keyOf[g] = k /\ g # NULL /\ state[g] \in Live
      /\ \A h \in Handle : state'[h] = IF h = g THEN "closing" ELSE state[h]
  BY RegOK DEF HandlesOK, Becomes, HandleInv, EntriesClosing, Live
<1>2. /\ \A d \in Client : d # c => call'[d] = call[d]
      /\ call'[c].tool = call[c].tool /\ call'[c].h = g /\ K(c)' = k
  BY DEF CallOK, Await, K
<1> HIDE DEF g
<1>3. StopsKnow'
  <2>1. \A d \in Client, tools \in SUBSET StopTools, h \in Handle :
           WaitsFor(d, tools, h)' =>
              \/ d = c /\ h = g /\ call[c].tool \in tools
              \/ d # c /\ WaitsFor(d, tools, h) /\ K(d)' = K(d)
    BY <1>1, <1>2 DEF WaitsFor, K
  <2>2. call[c].tool = "tg_stop" =>
           \A d \in Client : ~ WaitsFor(d, {"tg_stop"}, g)
    BY <1>1 DEF HandleInv, StopsKnow, WaitsFor, g
  <2>3. \A h \in Handle : state[h] = "closing" => state'[h] = "closing"
    BY <1>1
  <2>4. QED
    BY <1>1, <1>2, <2>1, <2>2, <2>3 DEF HandleInv, StopsKnow, StopTools
<1>4. EntriesClosing'
  <2> SUFFICES ASSUME NEW l \in Key, reg[l] # NULL, state'[reg[l]] # "live"
               PROVE  /\ state'[reg[l]] = "closing"
                      /\ \E d \in Client : WaitsFor(d, StopTools, reg[l])'
    BY DEF EntriesClosing
  <2>1. CASE reg[l] = g
    BY <1>1, <1>2, <2>1 DEF WaitsFor
  <2>2. CASE reg[l] # g
    <3>1. /\ state[reg[l]] = "closing" /\ state'[reg[l]] = "closing"
          /\ \E d \in Client : WaitsFor(d, StopTools, reg[l])
      BY <1>1, <2>2, RegOK DEF HandleInv, EntriesClosing
    <3>2. QED
      BY <1>2, <3>1 DEF WaitsFor
  <2>3. QED
    BY <2>1, <2>2
<1>5. Reachable' /\ UnnamedRuns'
  BY <1>1, KindsDisjoint DEF HandleInv, Reachable, UnnamedRuns, Live
<1>6. QED
  BY <1>3, <1>4, <1>5 DEF HandleInv

(* The calls C end and a handle ends, with whatever entry its key has: no  *)
(* other stop of it waits, and a server or a bot has not ended before.     *)
LEMMA DropKeeps ==
    ASSUME HandleInv, HandlesOK, CallOK, NEW C, End(C), NEW h \in Handle,
           NEW k \in Key, keyOf[h] = k, Drop(k, h), UNCHANGED overtaken,
           k \in Port \cup Token => state[h] \in Live,
           \A d \in C \cap Client : call[d].tool \in StopTools => call[d].h \in {h, NULL},
           \A d \in Client \ C : ~ WaitsFor(d, {"http_serve_stop", "tg_stop"}, h)
    PROVE  HandleInv'
<1>1. /\ \A l \in Key : reg'[l] = IF l = k THEN NULL ELSE reg[l]
      /\ \A g \in Handle : state'[g] = IF g = h THEN "gone" ELSE state[g]
      /\ keyOf' = keyOf
  BY DEF HandlesOK, Drop, Becomes
<1>2. \A d \in Client : call'[d] = IF d \in C THEN Idle ELSE call[d]
  BY DEF End
<1>3. Idle.tool = NULL /\ Idle.h = NULL /\ NULL \notin StopTools
  BY KindsDisjoint DEF Idle, StopTools, Tool, Lookups
<1>4. StopsKnow'
  <2>1. \A d \in Client, tools \in SUBSET StopTools, g \in Handle :
           WaitsFor(d, tools, g)' =>
              WaitsFor(d, tools, g) /\ K(d)' = K(d) /\ d \notin C
    BY <1>2, <1>3 DEF WaitsFor, K
  <2>2. QED
    BY <1>1, <2>1 DEF HandleInv, StopsKnow, StopTools
<1>5. EntriesClosing'
  <2> SUFFICES ASSUME NEW l \in Key, reg'[l] # NULL
               PROVE  \/ state'[reg'[l]] = "live"
                      \/ /\ state'[reg'[l]] = "closing"
                         /\ \E d \in Client : WaitsFor(d, StopTools, reg[l])'
    BY DEF EntriesClosing
  <2>1. l # k /\ reg'[l] = reg[l] /\ reg[l] \in Handle /\ reg[l] # h
    BY <1>1, RegOK DEF HandlesOK
  <2>2. state'[reg[l]] = state[reg[l]]
    BY <1>1, <2>1
  <2>3. ASSUME NEW d \in Client, WaitsFor(d, StopTools, reg[l])
        PROVE  WaitsFor(d, StopTools, reg[l])'
    <3>1. d \notin C
      BY <2>1, <2>3 DEF WaitsFor
    <3>2. call'[d] = call[d]
      BY <1>2, <3>1
    <3>3. QED
      BY <2>1, <2>3, <3>2 DEF WaitsFor
  <2>4. QED
    BY <2>1, <2>2, <2>3 DEF HandleInv, EntriesClosing
<1>6. Reachable' /\ UnnamedRuns'
  BY <1>1, KindsDisjoint DEF HandleInv, HandlesOK, Reachable, UnnamedRuns, Live
<1>7. QED
  BY <1>4, <1>5, <1>6 DEF HandleInv

(* Every step keeps the invariant of the handles.                          *)
LEMMA HandleNext == TypeOK /\ HandleInv /\ [Next]_vars => HandleInv'
<1> SUFFICES ASSUME TypeOK, HandleInv, [Next]_vars PROVE HandleInv'
  OBVIOUS
<1> USE DEF Starts, Waits
<1>k. CallOK /\ HandlesOK
  BY DEF TypeOK
<1>n. NULL \notin Tool /\ NULL \notin Key /\ NULL \notin Handle /\ Sid \subseteq Key
      /\ Sid \cap (Port \cup Token) = {} /\ JobId \cap (Port \cup Token) = {}
  BY KindsDisjoint
<1>t. ASSUME NEW c \in Client, call[c].tool \in Tool
      PROVE  /\ K(c) \in Key /\ call[c].tool \in Tools(K(c))
             /\ call[c].h # NULL => call[c].h \in Handle /\ call[c].h \notin Unmade
             /\ call[c].tool \in {"http_serve", "http_serve_stop"} => K(c) \in Port
             /\ call[c].tool \in {"schedule_add", "schedule_remove"} => K(c) \in JobId
             /\ call[c].tool \in {"tg_listen", "tg_inbox", "tg_stop"} => K(c) \in Token
             /\ call[c].tool \in {"browser_open", "browser_use", "browser_close"} =>
                   K(c) \in Sid
  <2>1. /\ K(c) \in Key /\ call[c].tool \in Tools(K(c))
        /\ call[c].h # NULL => call[c].h \in Handle /\ call[c].h \notin Unmade
    BY <1>k, <1>n, <1>t, CallOf
  <2>2. QED
    BY <2>1, KindOfKey
<1>e. ASSUME NEW c \in Client, End({c}), call[c].tool \notin StopTools \/ call[c].h = NULL
      PROVE  SameStops
  BY <1>e, EndsNoStop
<1>1. ASSUME NEW c \in Client, Connect(c) \/ Disconnect(c) PROVE HandleInv'
  BY <1>1, <1>k, QuietKeeps DEF Connect, Disconnect, SameStops, tgVars
<1>2. ASSUME NEW c \in Client, NEW k \in Key, NEW tool \in Tools(k), Post(c, tool, k)
      PROVE  HandleInv'
  <2>1. SameStops
    BY <1>2, <1>k DEF Post, SameStops, CallOK, Idle
  <2>2. QED
    BY <1>2, <2>1, <1>k, QuietKeeps DEF Post, tgVars
<1>3. ASSUME NEW c \in Client, NEW tool \in Lookups, NotFound(c, tool)
      PROVE  HandleInv'
  BY <1>3, <1>k, <1>e, QuietKeeps DEF NotFound, tgVars
<1>4. ASSUME NEW c \in Client, HttpServe(c) PROVE HandleInv'
  <2>1. SameStops /\ K(c) \in Key /\ UNCHANGED overtaken
    BY <1>4, <1>t, <1>e DEF HttpServe, tgVars, Tool, MakingTools
  <2>2. CASE reg[K(c)] # NULL
    BY <1>4, <2>1, <2>2, <1>k, QuietKeeps DEF HttpServe
  <2>3. CASE reg[K(c)] = NULL
    BY <1>4, <2>1, <2>3, <1>k, MakeKeeps DEF HttpServe
  <2>4. QED
    BY <2>2, <2>3
<1>5. ASSUME NEW c \in Client, HttpStop(c) \/ TgStop(c) \/ BrowserClose(c)
      PROVE  HandleInv'
  <2>1. /\ call[c].tool \in StopTools /\ call[c].h = NULL /\ reg[K(c)] # NULL
        /\ call[c].tool = "tg_stop" => state[reg[K(c)]] = "live"
        /\ Becomes(reg[K(c)], "closing") /\ Await(c, reg[K(c)])
        /\ UNCHANGED <<reg, keyOf, overtaken>>
    BY <1>5 DEF HttpStop, TgStop, BrowserClose, StopTools, tgVars
  <2>2. K(c) \in Key
    BY <2>1, <1>t DEF StopTools, Tool, Lookups
  <2>3. QED
    BY <2>1, <2>2, <1>k, CloseKeeps
<1>6. ASSUME NEW h \in Handle, HttpClosed(h) PROVE HandleInv'
  <2>1. PICK c \in Client : Waits(c, "http_serve_stop") /\ call[c].h = h
    BY <1>6 DEF HttpClosed, StoppersOf
  <2>2. keyOf[h] = K(c) /\ state[h] = "closing" /\ K(c) \in Key /\ K(c) \in Port
    BY <2>1, <1>t DEF HandleInv, StopsKnow, WaitsFor, StopTools, Tool, Lookups
  <2>3. /\ \A d \in StoppersOf(h) : call[d].h = h
        /\ \A d \in Client \ StoppersOf(h) : ~ WaitsFor(d, {"http_serve_stop"}, h)
    BY <2>1 DEF StoppersOf, WaitsFor
  <2>4. \A d \in Client : ~ WaitsFor(d, {"tg_stop"}, h)
    <3> SUFFICES ASSUME NEW d \in Client, WaitsFor(d, {"tg_stop"}, h) PROVE FALSE
      OBVIOUS
    <3>1. keyOf[h] = K(d) /\ K(d) \in Token
      BY <1>t DEF HandleInv, StopsKnow, WaitsFor, StopTools, Tool, Lookups
    <3>2. QED
      BY <2>2, <3>1, KindsDisjoint
  <2>5. \A d \in Client \ StoppersOf(h) :
           ~ WaitsFor(d, {"http_serve_stop", "tg_stop"}, h)
    BY <2>3, <2>4 DEF WaitsFor
  <2>6. /\ End(StoppersOf(h)) /\ Drop(K(c), h) /\ UNCHANGED overtaken
    BY <1>6, <2>2 DEF HttpClosed, tgVars
  <2> HIDE DEF Waits
  <2>7. QED
    BY <2>2, <2>3, <2>5, <2>6, <1>k, DropKeeps DEF Live
<1>7. ASSUME NEW c \in Client, ScheduleAdd(c) PROVE HandleInv'
  <2>1. SameStops /\ K(c) \in Key /\ K(c) \in JobId /\ Make(K(c)) /\ UNCHANGED overtaken
    BY <1>7, <1>t, <1>e DEF ScheduleAdd, tgVars, Tool, MakingTools
  <2>2. QED
    BY <2>1, <1>k, <1>n, MakeKeeps
<1>8. ASSUME NEW c \in Client, ScheduleRemove(c) PROVE HandleInv'
  <2> DEFINE h == reg[K(c)]
  <2>1. /\ K(c) \in Key /\ K(c) \in JobId /\ call[c].h = NULL /\ h # NULL
        /\ Drop(K(c), h) /\ End({c}) /\ UNCHANGED overtaken
    BY <1>8, <1>t DEF ScheduleRemove, Tool, Lookups, tgVars
  <2>2. h \in Handle /\ keyOf[h] = K(c)
    BY <2>1, <1>k, RegOK
  <2>3. \A d \in Client : ~ WaitsFor(d, {"http_serve_stop", "tg_stop"}, h)
    <3> SUFFICES ASSUME NEW d \in Client, WaitsFor(d, {"http_serve_stop", "tg_stop"}, h)
                 PROVE  FALSE
      OBVIOUS
    <3>1. keyOf[h] = K(d) /\ K(d) \in Port \cup Token
      BY <2>2, <1>t DEF HandleInv, StopsKnow, WaitsFor, StopTools, Tool, Lookups
    <3>2. QED
      BY <2>1, <2>2, <3>1, <1>n
  <2> HIDE DEF h
  <2>4. QED
    BY <2>1, <2>2, <2>3, <1>k, <1>n, DropKeeps
<1>9. ASSUME NEW c \in Client, TgListen(c) PROVE HandleInv'
  <2>1. SameStops /\ K(c) \in Key /\ UNCHANGED overtaken
    BY <1>9, <1>t, <1>e DEF TgListen, Tool, MakingTools
  <2>2. CASE reg[K(c)] # NULL
    BY <1>9, <2>1, <2>2, <1>k, QuietKeeps DEF TgListen
  <2>3. CASE reg[K(c)] = NULL
    BY <1>9, <2>1, <2>3, <1>k, MakeKeeps DEF TgListen
  <2>4. QED
    BY <2>2, <2>3
<1>10. ASSUME NEW h \in Handle, NEW t \in Token, TgUpdates(h, t) PROVE HandleInv'
  BY <1>10, <1>k, QuietKeeps DEF TgUpdates, SameStops
<1>20. ASSUME NEW h \in Handle, NEW t \in Token, TgGetUpdates(h, t) PROVE HandleInv'
  BY <1>20, <1>k, QuietKeeps DEF TgGetUpdates, SameStops
<1>11. ASSUME NEW c \in Client, TgInbox(c) PROVE HandleInv'
  BY <1>11, <1>k, <1>e, QuietKeeps DEF TgInbox
<1>12. ASSUME NEW c \in Client, TgStopAgain(c) PROVE HandleInv'
  <2>1. /\ K(c) \in Key /\ K(c) \in Token /\ reg[K(c)] # NULL /\ call[c].h = NULL
        /\ reg' = [reg EXCEPT ![K(c)] = NULL] /\ UNCHANGED <<state, keyOf>>
        /\ overtaken' = overtaken \cup {K(c)}
        /\ End({c})
    BY <1>12, <1>t DEF TgStopAgain, Tool, Lookups
  <2>2. SameStops
    BY <2>1, <1>e
  <2>3. StopsKnow'
    BY <2>1, <2>2, SameStopsWait DEF HandleInv, StopsKnow, StopTools
  <2>4. EntriesClosing'
    BY <2>1, <2>2, <1>k, SameStopsWait DEF HandleInv, HandlesOK, EntriesClosing
  <2>5. Reachable' /\ UnnamedRuns'
    <3>1. \A k \in Key : reg'[k] = IF k = K(c) THEN NULL ELSE reg[k]
      BY <2>1, <1>k DEF HandlesOK
    <3>2. QED
      BY <2>1, <3>1, KindsDisjoint DEF HandleInv, Reachable, UnnamedRuns
  <2>6. QED
    BY <2>3, <2>4, <2>5 DEF HandleInv
<1>13. ASSUME NEW c \in Client, TgStopped(c) PROVE HandleInv'
  <2> DEFINE h == call[c].h
  <2>1. /\ K(c) \in Key /\ K(c) \in Token /\ h \in Handle
        /\ Drop(K(c), h) /\ End({c}) /\ UNCHANGED overtaken
        /\ keyOf[h] = K(c) /\ state[h] = "closing" /\ WaitsFor(c, {"tg_stop"}, h)
    BY <1>13, <1>t
       DEF TgStopped, Tool, Lookups, HandleInv, StopsKnow, WaitsFor, StopTools
  <2>2. \A d \in Client \ {c} : ~ WaitsFor(d, {"http_serve_stop", "tg_stop"}, h)
    <3> SUFFICES ASSUME NEW d \in Client \ {c},
                        WaitsFor(d, {"http_serve_stop", "tg_stop"}, h)
                 PROVE  FALSE
      OBVIOUS
    <3>1. ~ WaitsFor(d, {"tg_stop"}, h)
      BY <2>1 DEF HandleInv, StopsKnow
    <3>2. keyOf[h] = K(d) /\ K(d) \in Port
      BY <2>1, <3>1, <1>t DEF HandleInv, StopsKnow, WaitsFor, StopTools, Tool, Lookups
    <3>3. QED
      BY <2>1, <3>2, KindsDisjoint
  <2>3. \A d \in {c} \cap Client : call[d].h \in {h, NULL}
    OBVIOUS
  <2> HIDE DEF h
  <2>4. QED
    BY <2>1, <2>2, <2>3, <1>k, DropKeeps DEF Live
<1>14. ASSUME NEW c \in Client, BrowserLaunch(c) PROVE HandleInv'
  <2>1. CASE End({c}) /\ UNCHANGED state
    BY <1>14, <2>1, <1>k, <1>e, QuietKeeps DEF BrowserLaunch, handleVars, tgVars
  <2>2. CASE Unmade # {} /\ Becomes(Fresh, "live") /\ Await(c, Fresh)
    <3>1. SameStops
      BY <1>14, <2>2, <1>k DEF BrowserLaunch, Await, SameStops, StopTools, CallOK
    <3>2. QED
      BY <1>14, <2>2, <3>1, <1>k, LaunchKeeps DEF BrowserLaunch, tgVars
  <2>3. QED
    BY <1>14, <2>1, <2>2 DEF BrowserLaunch
<1>21. ASSUME NEW c \in Client, BrowserPage(c) PROVE HandleInv'
  <2> DEFINE h == call[c].h
  <2>1. PICK k \in Sid : Enter(k, h)
    BY <1>21 DEF BrowserPage
  <2>2. /\ h \in Handle /\ h \notin Unmade /\ keyOf[h] = NULL
        /\ \A d \in Client : ~ WaitsFor(d, StopTools, h)
    <3>1. h \in Handle /\ h \notin Unmade /\ keyOf[h] = NULL
      BY <1>21, <1>t DEF BrowserPage, Opening, Tool, MakingTools
    <3> HIDE DEF h
    <3> SUFFICES ASSUME NEW d \in Client, WaitsFor(d, StopTools, h) PROVE FALSE
      BY <3>1
    <3>2. keyOf[h] = K(d) /\ K(d) \in Key
      BY <3>1, <1>t DEF HandleInv, StopsKnow, WaitsFor, StopTools, Tool, Lookups
    <3>3. QED
      BY <3>1, <3>2, <1>n
  <2>3. SameStops
    BY <1>21, <1>e DEF BrowserPage, Opening, SameStops, StopTools
  <2>5. UNCHANGED <<state, overtaken>>
    BY <1>21 DEF BrowserPage, tgVars
  <2> HIDE DEF h
  <2>6. QED
    BY <2>1, <2>2, <2>3, <2>5, <1>k, EnterKeeps
<1>15. ASSUME NEW c \in Client, BrowserAt(c) \/ BrowserUsed(c) \/ BrowserPageFails(c)
       PROVE  HandleInv'
  BY <1>15, <1>k, <1>e, QuietKeeps
     DEF BrowserAt, BrowserUsed, BrowserPageFails, Opening, StopTools, tgVars
<1>16. ASSUME NEW c \in Client, BrowserUse(c) PROVE HandleInv'
  <2>1. SameStops
    BY <1>16, <1>k DEF BrowserUse, Await, SameStops, StopTools, CallOK
  <2>2. QED
    BY <1>16, <2>1, <1>k, QuietKeeps DEF BrowserUse, tgVars
<1>17. ASSUME NEW c \in Client, BrowserClosed(c) PROVE HandleInv'
  <2> DEFINE h == call[c].h
  <2>1. /\ K(c) \in Sid /\ K(c) \in Key /\ h \in Handle /\ keyOf[h] = K(c)
        /\ Drop(K(c), h) /\ End({c}) /\ UNCHANGED overtaken
    BY <1>17, <1>t
       DEF BrowserClosed, Tool, Lookups, HandleInv, StopsKnow, WaitsFor, StopTools, tgVars
  <2>2. \A d \in Client : ~ WaitsFor(d, {"http_serve_stop", "tg_stop"}, h)
    <3> SUFFICES ASSUME NEW d \in Client, WaitsFor(d, {"http_serve_stop", "tg_stop"}, h)
                 PROVE  FALSE
      OBVIOUS
    <3>1. keyOf[h] = K(d) /\ K(d) \in Port \cup Token
      BY <2>1, <1>t DEF HandleInv, StopsKnow, WaitsFor, StopTools, Tool, Lookups
    <3>2. QED
      BY <2>1, <3>1, <1>n
  <2>3. \A d \in {c} \cap Client : call[d].h \in {h, NULL}
    OBVIOUS
  <2> HIDE DEF h
  <2>4. QED
    BY <2>1, <2>2, <2>3, <1>k, <1>n, DropKeeps
<1>18. CASE UNCHANGED vars
  BY <1>18, <1>k, QuietKeeps DEF vars, SameStops, tgVars
<1>19. QED
  BY <1>1, <1>2, <1>3, <1>4, <1>5, <1>6, <1>7, <1>8, <1>9, <1>10, <1>11, <1>12,
     <1>13, <1>14, <1>15, <1>16, <1>17, <1>18, <1>20, <1>21, Zenon DEF Next, CallStep

(* So it always holds.                                                     *)
LEMMA HandleInvariant == Spec => []HandleInv
<1>1. Init => HandleInv
  BY HandleInit
<1>2. TypeOK /\ HandleInv /\ [Next]_vars => HandleInv'
  BY HandleNext
<1>3. QED
  BY <1>1, <1>2, TypeCorrect, PTL DEF Spec

(* One server per port, and one poller per token whose stops did not       *)
(* overlap.                                                                *)
THEOREM OneLivePerKey == Spec => []OnePerKey
<1>1. TypeOK /\ HandleInv => OnePerKey
  BY DEF HandleInv, Reachable, OnePerKey, TypeOK, HandlesOK
<1>2. QED
  BY <1>1, HandleInvariant, TypeCorrect, PTL

(* Whatever a port runs, and a token whose stops did not overlap, has its  *)
(* entry until it has ended.                                               *)
THEOREM AlwaysReachable == Spec => []Reachable
<1>1. HandleInv => Reachable
  BY DEF HandleInv
<1>2. QED
  BY <1>1, HandleInvariant, PTL

(* No entry outlives its handle without a call that will delete it.        *)
THEOREM EntriesStayAlive == Spec => []EntriesAlive
<1>1. HandleInv => EntriesAlive
  BY DEF HandleInv, EntriesClosing, EntriesAlive, WaitsFor
<1>2. QED
  BY <1>1, HandleInvariant, PTL

-----------------------------------------------------------------------------
(* The order of the messages.                                              *)

(* Each bot's messages increase along q, and the bot has received them.    *)
Ordered(q, g) ==
    \A i \in DOMAIN q :
        /\ q[i].id \in g[q[i].bot]
        /\ \A j \in DOMAIN q : i < j /\ q[i].bot = q[j].bot => q[i].id < q[j].id

(* What was handed out and then what waits.                                *)
OrderInv == \A t \in Token : Ordered(taken[t] \o inbox[t], got)

(* The elements of a concatenation.                                        *)
LEMMA ConcatElements ==
    ASSUME NEW a \in Seq(Message), NEW b \in Seq(Message)
    PROVE  /\ a \o b \in Seq(Message) /\ DOMAIN (a \o b) = 1 .. Len(a) + Len(b)
           /\ Len(a) \in Nat /\ Len(b) \in Nat
           /\ \A i \in 1 .. Len(a) + Len(b) :
                 /\ (a \o b)[i] = IF i <= Len(a) THEN a[i] ELSE b[i - Len(a)]
                 /\ (a \o b)[i] \in Message
OBVIOUS

(* A batch of newer messages at the end of an ordered queue.               *)
LEMMA OrderedBatch ==
    ASSUME NEW q \in Seq(Message), NEW g \in [Handle -> SUBSET (1 .. MaxMessages)],
           Ordered(q, g), NEW h \in Handle, NEW m \in 0 .. MaxMessages,
           NEW n \in 0 .. MaxMessages, n > m, \A x \in g[h] : x <= m,
           NEW f, f = [g EXCEPT ![h] = g[h] \cup m + 1 .. n]
    PROVE  Ordered(q \o Batch(h, m, n), f)
<1> DEFINE c == Batch(h, m, n)
           r == q \o c
<1>1. /\ c \in Seq(Message) /\ Len(c) = n - m /\ m \in Nat /\ n \in Nat /\ n - m \in Nat
      /\ \A i \in 1 .. n - m : c[i].bot = h /\ c[i].id = m + i
  <2>1. /\ c \in Seq(Message) /\ Len(c) = n - m
        /\ \A i \in 1 .. n - m : c[i] = [bot |-> h, id |-> m + i]
    BY BatchOK
  <2>2. m \in Nat /\ n \in Nat /\ n - m \in Nat
    BY RegistriesConstantsOK
  <2> HIDE DEF c
  <2>3. ASSUME NEW i \in 1 .. n - m PROVE c[i].bot = h /\ c[i].id = m + i
    <3>1. c[i] = [bot |-> h, id |-> m + i]
      BY <2>1
    <3>2. QED
      BY <3>1
  <2>4. QED
    BY <2>1, <2>2, <2>3, Zenon
<1>2. /\ \A b \in Handle : f[b] = IF b = h THEN g[h] \cup m + 1 .. n ELSE g[b]
      /\ \A b \in Handle : \A x \in g[b] : x \in f[b] /\ x \in Nat
  BY RegistriesConstantsOK
<1> HIDE DEF c
<1>3. /\ DOMAIN q = 1 .. Len(q) /\ DOMAIN r = 1 .. Len(q) + (n - m) /\ Len(q) \in Nat
      /\ \A i \in 1 .. Len(q) : r[i] = q[i] /\ q[i] \in Message
      /\ \A i \in DOMAIN r : i > Len(q) =>
            /\ i - Len(q) \in 1 .. n - m
            /\ r[i].bot = h /\ r[i].id = m + (i - Len(q))
  <2>1. /\ DOMAIN r = 1 .. Len(q) + Len(c) /\ Len(q) \in Nat
        /\ \A i \in 1 .. Len(q) + Len(c) :
              r[i] = IF i <= Len(q) THEN q[i] ELSE c[i - Len(q)]
    BY <1>1, ConcatElements
  <2>2. DOMAIN q = 1 .. Len(q) /\ \A i \in 1 .. Len(q) : q[i] \in Message
    OBVIOUS
  <2> HIDE DEF r
  <2>3. ASSUME NEW i \in DOMAIN r, i > Len(q)
        PROVE  i - Len(q) \in 1 .. n - m /\ r[i] = c[i - Len(q)]
    <3>1. i \in 1 .. Len(q) + Len(c) /\ i \in Int
      BY <2>1, <2>3
    <3>2. i - Len(q) \in 1 .. n - m
      BY <1>1, <2>1, <2>3, <3>1
    <3>3. r[i] = IF i <= Len(q) THEN q[i] ELSE c[i - Len(q)]
      BY <2>1, <3>1
    <3>4. ~ (i <= Len(q))
      BY <2>1, <2>3, <3>1
    <3>5. QED
      BY <3>2, <3>3, <3>4, Zenon
  <2>4. DOMAIN r = 1 .. Len(q) + (n - m)
    BY <1>1, <2>1
  <2>5. ASSUME NEW i \in 1 .. Len(q) PROVE r[i] = q[i]
    <3>1. i \in 1 .. Len(q) + Len(c) /\ i <= Len(q)
      BY <1>1, <2>1
    <3>2. QED
      BY <2>1, <3>1
  <2>6. ASSUME NEW i \in DOMAIN r, i > Len(q)
        PROVE  r[i].bot = h /\ r[i].id = m + (i - Len(q))
    BY <1>1, <2>3, <2>6, Zenon
  <2>7. QED
    BY <2>1, <2>2, <2>3, <2>4, <2>5, <2>6, Zenon
<1> HIDE DEF r
<1>4. ASSUME NEW i \in DOMAIN r
      PROVE  r[i].id \in f[r[i].bot]
  <2>1. CASE i <= Len(q)
    <3>1. r[i] = q[i] /\ q[i].bot \in Handle /\ q[i].id \in g[q[i].bot]
      BY <1>3, <2>1 DEF Ordered, Message
    <3>2. QED
      BY <1>2, <3>1
  <2>2. CASE i > Len(q)
    <3>1. r[i].bot = h /\ r[i].id \in m + 1 .. n
      BY <1>1, <1>3, <2>2
    <3>2. QED
      BY <1>2, <3>1
  <2>3. QED
    BY <1>3, <2>1, <2>2
<1>5. ASSUME NEW i \in DOMAIN r, NEW j \in DOMAIN r, i < j, r[i].bot = r[j].bot
      PROVE  r[i].id < r[j].id
  <2>1. CASE j <= Len(q)
    BY <1>3, <1>5, <2>1 DEF Ordered
  <2>2. CASE i <= Len(q) /\ j > Len(q)
    <3>1. /\ r[i] = q[i] /\ q[i].bot = h /\ q[i].id \in g[h]
          /\ r[j].id = m + (j - Len(q)) /\ j - Len(q) \in 1 .. n - m
      BY <1>3, <1>5, <2>2 DEF Ordered
    <3>2. q[i].id <= m /\ q[i].id \in Nat
      BY <1>2, <3>1
    <3>3. QED
      BY <1>1, <3>1, <3>2
  <2>3. CASE i > Len(q)
    <3>1. r[i].id = m + (i - Len(q)) /\ r[j].id = m + (j - Len(q))
      BY <1>3, <1>5, <2>3
    <3>2. QED
      BY <1>1, <1>3, <1>5, <3>1
  <2>4. QED
    BY <1>3, <2>1, <2>2, <2>3
<1>6. Ordered(r, f)
  BY <1>4, <1>5 DEF Ordered
<1>7. QED
  BY <1>6 DEF r, c

(* An ordered queue of two parts, less the first messages of the second.   *)
LEMMA OrderedDrop ==
    ASSUME NEW a \in Seq(Message), NEW b \in Seq(Message), NEW g, Ordered(a \o b, g),
           NEW m \in 1 .. Len(b) + 1
    PROVE  Ordered(a \o SubSeq(b, m, Len(b)), g)
<1> DEFINE c == SubSeq(b, m, Len(b))
           q == a \o b
           r == a \o c
           k == m - 1
<1>1. /\ c \in Seq(Message) /\ Len(c) = Len(b) - k /\ k \in Nat /\ k <= Len(b)
      /\ \A i \in 1 .. Len(c) : c[i] = b[i + k]
      /\ Len(a) \in Nat /\ Len(b) \in Nat
  OBVIOUS
<1> HIDE DEF c, k
<1>2. /\ DOMAIN q = 1 .. Len(a) + Len(b) /\ DOMAIN r = 1 .. Len(a) + Len(c)
      /\ \A i \in DOMAIN r : r[i] = IF i <= Len(a) THEN a[i] ELSE c[i - Len(a)]
      /\ \A i \in DOMAIN q : q[i] = IF i <= Len(a) THEN a[i] ELSE b[i - Len(a)]
  BY <1>1, ConcatElements
<1> HIDE DEF q, r
<1> DEFINE f(i) == IF i <= Len(a) THEN i ELSE i + k
<1>3. ASSUME NEW i \in DOMAIN r
      PROVE  f(i) \in DOMAIN q /\ r[i] = q[f(i)]
  <2>1. CASE i <= Len(a)
    BY <1>1, <1>2, <2>1
  <2>2. CASE i > Len(a)
    <3>1. i - Len(a) \in 1 .. Len(c) /\ i + k \in DOMAIN q /\ ~ (i + k <= Len(a))
      BY <1>1, <1>2, <2>2
    <3>2. r[i] = b[(i - Len(a)) + k]
      <4>1. r[i] = c[i - Len(a)]
        BY <1>1, <1>2, <2>2
      <4>2. c[i - Len(a)] = b[(i - Len(a)) + k]
        BY <1>1, <3>1
      <4>3. QED
        BY <4>1, <4>2
    <3>3. q[i + k] = b[(i + k) - Len(a)]
      BY <1>2, <3>1
    <3>4. (i - Len(a)) + k = (i + k) - Len(a)
      BY <1>1, <1>2
    <3>5. QED
      BY <1>2, <2>2, <3>1, <3>2, <3>3, <3>4
  <2>3. QED
    BY <1>1, <1>2, <2>1, <2>2
<1>4. \A i, j \in DOMAIN r : i < j => f(i) < f(j)
  BY <1>1, <1>2
<1> HIDE DEF f
<1>5. Ordered(q, g)
  BY DEF q
<1>6. Ordered(r, g)
  BY <1>3, <1>4, <1>5 DEF Ordered
<1>7. QED
  BY <1>6 DEF r, c

(* Moving the first n elements of b behind a changes nothing.              *)
LEMMA MoveFirst ==
    ASSUME NEW a \in Seq(Message), NEW b \in Seq(Message), NEW n \in 0 .. Len(b)
    PROVE  (a \o SubSeq(b, 1, n)) \o SubSeq(b, n + 1, Len(b)) = a \o b
<1> DEFINE s == SubSeq(b, 1, n)
           t == SubSeq(b, n + 1, Len(b))
<1>1. s \in Seq(Message) /\ t \in Seq(Message)
  OBVIOUS
<1>2. s \o t = SubSeq(b, 1, Len(b))
  <2>1. 1 \in 1 .. Len(b) + 1 /\ n \in 1 - 1 .. Len(b) /\ Len(b) \in n .. Len(b)
    OBVIOUS
  <2>2. QED
    BY <2>1, ConcatAdjacentSubSeq
<1>3. SubSeq(b, 1, Len(b)) = b
  OBVIOUS
<1> HIDE DEF s, t
<1>4. (a \o s) \o t = a \o (s \o t)
  BY <1>1, ConcatAssociative, SMTT(60)
<1>5. (a \o s) \o t = a \o b
  BY <1>2, <1>3, <1>4
<1>6. QED
  BY <1>5 DEF s, t

(* The order of the messages holds at first.                               *)
LEMMA OrderInit == Init => OrderInv
BY DEF Init, OrderInv, Ordered

(* Every step keeps it.                                                    *)
LEMMA OrderNext == TypeOK /\ OrderInv /\ [Next]_vars => OrderInv'
<1> SUFFICES ASSUME TypeOK, OrderInv, [Next]_vars, NEW t \in Token
             PROVE  Ordered(taken'[t] \o inbox'[t], got')
  BY DEF OrderInv
<1> DEFINE a == taken[t]
           b == inbox[t]
<1>1. /\ a \in Seq(Message) /\ b \in Seq(Message) /\ Ordered(a \o b, got)
      /\ got \in [Handle -> SUBSET (1 .. MaxMessages)]
  BY DEF TypeOK, TgOK, OrderInv
(* The new inbox is the old one or empty, or some messages more, or what   *)
(* tg_inbox leaves.                                                        *)
<1>2. ASSUME taken'[t] = a, inbox'[t] \in {b, <<>>}, got' = got
      PROVE  Ordered(taken'[t] \o inbox'[t], got')
  <2>1. CASE inbox'[t] = b
    BY <1>1, <1>2, <2>1
  <2>2. CASE inbox'[t] = <<>>
    <3>1. Len(b) + 1 \in 1 .. Len(b) + 1 /\ SubSeq(b, Len(b) + 1, Len(b)) = <<>>
      BY <1>1
    <3>2. Ordered(a \o SubSeq(b, Len(b) + 1, Len(b)), got)
      BY <1>1, <3>1, OrderedDrop
    <3>3. QED
      BY <1>2, <2>2, <3>1, <3>2
  <2>3. QED
    BY <1>2, <2>1, <2>2
<1>3. ASSUME NEW h \in Handle, TgUpdates(h, t)
      PROVE  Ordered(taken'[t] \o inbox'[t], got')
  <2> DEFINE m == confirmed[t]
  <2>1. PICK n \in sent[t] .. MaxMessages :
           /\ n > m /\ got' = [got EXCEPT ![h] = got[h] \cup m + 1 .. n]
           /\ inbox' = [inbox EXCEPT ![t] = Capped(b \o Batch(h, m, n))]
    BY <1>3 DEF TgUpdates
  <2>2. m \in 0 .. MaxMessages /\ n \in 0 .. MaxMessages
    BY <2>1, RegistriesConstantsOK DEF TypeOK, TgOK
  <2>3. \A x \in got[h] : x <= m
    <3>1. MaxMessages \in Nat /\ got[h] \cup {0} \in SUBSET (0 .. MaxMessages)
      BY <1>1, RegistriesConstantsOK
    <3>2. PICK y \in got[h] \cup {0} : \A x \in got[h] \cup {0} : x <= y
      BY <3>1, MaxOK
    <3>3. Offset(h) \in got[h] \cup {0} /\ \A x \in got[h] \cup {0} : x <= Offset(h)
      BY <3>2 DEF Offset, Max
    <3>4. Offset(h) <= m
      BY <1>3 DEF TgUpdates
    <3>5. QED
      BY <2>2, <3>1, <3>3, <3>4
  <2> DEFINE c == Batch(h, m, n)
             all == b \o c
  <2>4. Ordered((a \o b) \o c, got')
    <3>1. a \o b \in Seq(Message)
      BY <1>1
    <3>2. QED
      BY <1>1, <2>1, <2>2, <2>3, <3>1, OrderedBatch
  <2>5. c \in Seq(Message)
    BY <2>1, <2>2, BatchOK
  <2> HIDE DEF c, m
  <2>6. (a \o b) \o c = a \o all /\ all \in Seq(Message)
    <3>1. a \in Seq(Message) /\ b \in Seq(Message)
      BY <1>1
    <3> HIDE DEF a, b
    <3>2. all \in Seq(Message)
      BY <3>1, <2>5
    <3>3. (a \o b) \o c = a \o (b \o c)
      BY <3>1, <2>5, ConcatAssociative, SMTT(60)
    <3>4. QED
      BY <3>2, <3>3
  <2>7. taken'[t] = a /\ inbox'[t] = Capped(all)
    BY <1>3, <2>1 DEF TgUpdates, TypeOK, TgOK, c, m
  <2> HIDE DEF all
  <2>8. PICK p \in 1 .. Len(all) + 1 : Capped(all) = SubSeq(all, p, Len(all))
    BY <2>6, CappedOK
  <2>9. Ordered(a \o SubSeq(all, p, Len(all)), got')
    BY <1>1, <2>4, <2>6, OrderedDrop
  <2>10. QED
    BY <2>7, <2>8, <2>9
<1>4. ASSUME NEW c \in Client, TgInbox(c), K(c) = t
      PROVE  Ordered(taken'[t] \o inbox'[t], got')
  <2> DEFINE m == Min({InboxTake, Len(b)})
  <2>1. m \in 0 .. Len(b)
    <3> DEFINE S == {InboxTake, Len(b)}
    <3>1. S \in SUBSET Nat /\ S # {}
      BY <1>1, RegistriesConstantsOK
    <3>2. Min(S) \in S /\ \A y \in S : Min(S) <= y
      BY <3>1, MinOK
    <3>3. QED
      BY <3>1, <3>2
  <2>2. /\ taken'[t] = a \o SubSeq(b, 1, m) /\ got' = got
        /\ inbox'[t] = SubSeq(b, m + 1, Len(b))
    BY <1>4 DEF TgInbox, TypeOK, TgOK, pollVars
  <2> HIDE DEF m
  <2>3. taken'[t] \o inbox'[t] = a \o b
    BY <1>1, <2>1, <2>2, MoveFirst
  <2>4. QED
    BY <1>1, <2>2, <2>3
<1>o. ASSUME NEW c \in Client, TgInbox(c), K(c) # t
      PROVE  Ordered(taken'[t] \o inbox'[t], got')
  <2>1. taken'[t] = a /\ inbox'[t] = b /\ got' = got
    BY <1>o DEF TgInbox, TypeOK, TgOK, pollVars
  <2>2. QED
    BY <1>2, <2>1
<1>5. CASE UNCHANGED <<taken, inbox, got>>
  BY <1>2, <1>5
<1>6. ASSUME NEW c \in Client, TgListen(c) \/ TgStopAgain(c) \/ TgStopped(c)
      PROVE  Ordered(taken'[t] \o inbox'[t], got')
  <2>1. taken'[t] = a /\ inbox'[t] \in {b, <<>>} /\ got' = got
    BY <1>6 DEF TgListen, TgStopAgain, TgStopped, TypeOK, TgOK, pollVars
  <2>2. QED
    BY <1>2, <2>1
<1>7. ASSUME NEW h \in Handle, NEW u \in Token, u # t, TgUpdates(h, u)
      PROVE  Ordered(taken'[t] \o inbox'[t], got')
  <2>1. PICK n \in sent[u] .. MaxMessages :
           /\ n > confirmed[u] /\ got' = [got EXCEPT ![h] = got[h] \cup confirmed[u] + 1 .. n]
           /\ inbox'[t] = b /\ taken'[t] = a
    BY <1>7 DEF TgUpdates, TypeOK, TgOK
  <2>2. \A g \in Handle : got[g] \subseteq got'[g]
    BY <1>1, <2>1
  <2> DEFINE q == a \o b
  <2>3. DOMAIN q = 1 .. Len(a) + Len(b) /\ \A i \in DOMAIN q : q[i].bot \in Handle
    <3>1. \A i \in DOMAIN q : q[i] \in Message
      BY <1>1, ConcatElements
    <3>2. QED
      BY <1>1, <3>1, ConcatElements DEF Message
  <2>4. Ordered(q, got)
    BY <1>1
  <2> HIDE DEF q
  <2>5. Ordered(q, got')
    BY <2>2, <2>3, <2>4 DEF Ordered
  <2>6. QED
    BY <2>1, <2>5 DEF q
<1>g. ASSUME NEW h \in Handle, NEW u \in Token, TgGetUpdates(h, u)
      PROVE  UNCHANGED <<taken, inbox, got>>
  BY <1>g DEF TgGetUpdates
<1>8. ASSUME NEW c \in Client,
             \/ Connect(c) \/ Disconnect(c)
             \/ \E k \in Key : \E tool \in Tools(k) : Post(c, tool, k)
             \/ \E tool \in Lookups : NotFound(c, tool)
             \/ HttpServe(c) \/ HttpStop(c) \/ ScheduleAdd(c) \/ ScheduleRemove(c)
             \/ TgStop(c) \/ BrowserLaunch(c) \/ BrowserPage(c) \/ BrowserPageFails(c)
             \/ BrowserAt(c) \/ BrowserUse(c) \/ BrowserUsed(c)
             \/ BrowserClose(c) \/ BrowserClosed(c)
      PROVE  UNCHANGED <<taken, inbox, got>>
  BY <1>8 DEF Connect, Disconnect, Post, NotFound, HttpServe, HttpStop, ScheduleAdd,
     ScheduleRemove, TgStop, BrowserLaunch, BrowserPage, BrowserPageFails, BrowserAt,
     BrowserUse, BrowserUsed, BrowserClose, BrowserClosed, tgVars, pollVars
<1>9. ASSUME NEW h \in Handle, HttpClosed(h) PROVE UNCHANGED <<taken, inbox, got>>
  BY <1>9 DEF HttpClosed, tgVars, pollVars
<1>10. CASE UNCHANGED vars
  BY <1>5, <1>10 DEF vars, tgVars, pollVars
<1> DEFINE Goal == Ordered(taken'[t] \o inbox'[t], got')
<1>11. \A h \in Handle, u \in Token : TgUpdates(h, u) \/ TgGetUpdates(h, u) => Goal
  BY <1>3, <1>5, <1>7, <1>g
<1>12. \A c \in Client : CallStep(c) => Goal
  <2> SUFFICES ASSUME NEW c \in Client, CallStep(c) PROVE Goal
    OBVIOUS
  <2>1. CASE TgInbox(c)
    BY <1>4, <1>o, <2>1
  <2>2. CASE TgListen(c) \/ TgStopAgain(c) \/ TgStopped(c)
    BY <1>6, <2>2
  <2>3. CASE ~ (TgInbox(c) \/ TgListen(c) \/ TgStopAgain(c) \/ TgStopped(c))
    <3>1. UNCHANGED <<taken, inbox, got>>
      BY <1>8, <2>3, Zenon DEF CallStep
    <3>2. QED
      BY <1>5, <3>1
  <2>4. QED
    BY <2>1, <2>2, <2>3
<1>13. \A c \in Client : Connect(c) \/ Disconnect(c) => Goal
  BY <1>5, <1>8
<1>14. \A c \in Client, k \in Key : \A tool \in Tools(k) : Post(c, tool, k) => Goal
  BY <1>5, <1>8
<1>15. \A h \in Handle : HttpClosed(h) => Goal
  BY <1>5, <1>9
<1> HIDE DEF Goal
<1>16. Goal
  BY <1>10, <1>11, <1>12, <1>13, <1>14, <1>15, Zenon DEF Next, Goal
<1>17. QED
  BY <1>16 DEF Goal

(* tg_inbox hands out what a bot received at most once and in order.       *)
THEOREM InboxStaysOrdered == Spec => []InboxOrdered
<1>1. OrderInv => InboxOrdered
  BY DEF OrderInv, Ordered, InboxOrdered
<1>2. QED
  BY <1>1, OrderInit, OrderNext, TypeCorrect, PTL DEF Spec
=============================================================================
