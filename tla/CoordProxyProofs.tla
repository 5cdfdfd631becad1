--------------------------- MODULE CoordProxyProofs ---------------------------
(***************************************************************************)
(* Proofs about CoordProxy, for any sets of requests and any faults.       *)
(***************************************************************************)
EXTENDS CoordProxy, SequenceTheorems, TLAPS

(* The calls a mode makes, and whose turn each of them is.                 *)
Rounds(m) == CASE m = "SOLO" -> 1 [] m = "RELAY" -> 2 [] m = "CHALLENGE" -> 3
Turn(i)   == IF i = 2 THEN "LLM2" ELSE "LLM1"
InTurn(s, n) == \A i \in 1 .. Len(s) : s[i] = Turn(n + i)

(* The calls made and the calls to make are those of the mode, in turn,    *)
(* until one rejects, or the preview of the calls does.                    *)
CallsFit(r) ==
    /\ pc[r] \in {"idle", "calling", "settled", "logged", "done"}
    /\ pc[r] = "idle" => heard[r] = <<>>
    /\ pc[r] = "calling" =>
          /\ mode[r] \in Mode
          /\ Len(heard[r]) + Len(todo[r]) = Rounds(mode[r])
          /\ mode[r] # "SOLO" => InTurn(todo[r], Len(heard[r]))
    /\ mode[r] # "SOLO" => InTurn(heard[r], 0)
    /\ outcome[r] = "result" => mode[r] \in Mode /\ Len(heard[r]) = Rounds(mode[r])
    /\ outcome[r] = "error" =>
          mode[r] \in Mode /\ (r \in odd \/ Len(heard[r]) < Rounds(mode[r]))

(* The entry says the outcome, which is there once the calls have ended.   *)
EntryFits(r) ==
    /\ pc[r] \in {"idle", "calling"} => outcome[r] = NULL
    /\ pc[r] \in {"settled", "logged"} => outcome[r] # NULL
    /\ pc[r] \in {"idle", "calling", "settled"} => entry[r] = NULL
    /\ entry[r] \in {NULL, outcome[r]}
    /\ pc[r] = "logged" => r \in skipped \/ entry[r] = outcome[r]

(* The reply says the outcome, and the entry is there or could not be.     *)
ReplyFits(r) ==
    reply[r] \in {200, 502} =>
        /\ outcome[r] = IF reply[r] = 200 THEN "result" ELSE "error"
        /\ r \in skipped \/ entry[r] = outcome[r]

ChatOK(r) == CallsFit(r) /\ EntryFits(r) /\ ReplyFits(r)

(* No status before the head or the end.                                   *)
NotYet == \A r \in Request : pc[r] \notin {"streaming", "done"} => reply[r] = NULL

Inv == TypeOK /\ (\A r \in Chat : ChatOK(r)) /\ NotYet

(* Chats and piped requests are different; a number is no NULL.            *)
LEMMA RequestsDiffer ==
    /\ Chat \subseteq Request /\ Piped \subseteq Request /\ Other \subseteq Piped
    /\ Chat \cap Piped = {} /\ NULL \notin Mode /\ NULL \notin Status
    /\ NULL # "result" /\ NULL # "error"
BY ProxyConstantsOK, NullOK DEF Request, Piped

(* An answer that was never given is no HTTP status.                       *)
LEMMA NoStatus == NULL # 200 /\ NULL # 502
BY NullOK DEF Status

(* Every mode has a round, and every mode but SOLO several.                *)
LEMMA RoundsOK == \A m \in Mode : Rounds(m) \in Nat /\ Rounds(m) > 0 /\ (m # "SOLO" => Rounds(m) > 1)
BY DEF Rounds, Mode

(* The calls that are planned are as many as the mode makes, in turn.      *)
LEMMA CallsOK ==
    ASSUME NEW m \in Mode, NEW phi \in Band
    PROVE  /\ Calls(m, phi) \in Seq(Llm) /\ Len(Calls(m, phi)) = Rounds(m)
           /\ Calls(m, phi) # <<>>
           /\ m # "SOLO" => InTurn(Calls(m, phi), 0)
<1>1. selectSoloLlm(phi) \in Llm
  BY DEF selectSoloLlm, Llm, Band
<1>2. CASE m = "SOLO"
  <2>1. Calls(m, phi) = <<selectSoloLlm(phi)>> /\ Rounds(m) = 1
    BY <1>2 DEF Calls, Rounds
  <2>2. \A x \in Llm : <<x>> \in Seq(Llm) /\ Len(<<x>>) = 1 /\ <<x>> # <<>>
    OBVIOUS
  <2>3. QED
    BY <1>1, <1>2, <2>1, <2>2, Zenon
<1>3. CASE m = "RELAY"
  <2>1. Calls(m, phi) = <<"LLM1", "LLM2">> /\ Rounds(m) = 2
    BY <1>3 DEF Calls, Rounds, RelayCalls
  <2>2. QED
    BY <2>1 DEF Llm, InTurn, Turn
<1>4. CASE m = "CHALLENGE"
  <2>1. Calls(m, phi) = <<"LLM1", "LLM2", "LLM1">> /\ Rounds(m) = 3
    BY <1>4 DEF Calls, Rounds, ChallengeCalls
  <2>2. QED
    BY <2>1 DEF Llm, InTurn, Turn
<1>5. QED
  BY <1>2, <1>3, <1>4 DEF Mode

(* selectMode answers a mode for every phi.                                *)
LEMMA ModeOK ==
    ASSUME NEW phi \in Band
    PROVE  selectMode(phi) \in Mode
BY DEF selectMode, Band, Mode

(* The invariant holds at first.                                           *)
LEMMA InvInit == Init => Inv
<1> SUFFICES ASSUME Init PROVE Inv
  OBVIOUS
<1>1. TypeOK
  BY RequestsDiffer DEF Init, TypeOK, Active, PC
<1>2. ASSUME NEW r \in Chat PROVE ChatOK(r)
  <2>1. /\ pc[r] = "idle" /\ mode[r] = NULL /\ heard[r] = <<>> /\ outcome[r] = NULL
        /\ entry[r] = NULL /\ reply[r] = NULL /\ r \in Request
    BY RequestsDiffer DEF Init
  <2>2. CallsFit(r)
    BY <2>1, RequestsDiffer DEF CallsFit, InTurn
  <2>3. EntryFits(r) /\ ReplyFits(r)
    BY <2>1, RequestsDiffer, NoStatus DEF EntryFits, ReplyFits
  <2>4. QED
    BY <2>2, <2>3 DEF ChatOK
<1>3. NotYet
  BY DEF Init, NotYet
<1>4. QED
  BY <1>1, <1>2, <1>3 DEF Inv

(* A chat that a step does not touch.                                      *)
Untouched(q) ==
    /\ pc'[q] = pc[q] /\ mode'[q] = mode[q] /\ todo'[q] = todo[q]
    /\ heard'[q] = heard[q] /\ outcome'[q] = outcome[q] /\ entry'[q] = entry[q]
    /\ (q \in skipped' <=> q \in skipped) /\ reply'[q] = reply[q]
    /\ (q \in odd' <=> q \in odd)

(* A chat that a step leaves alone stays as it was.                        *)
LEMMA UntouchedKeeps == ASSUME NEW q \in Chat, ChatOK(q), Untouched(q) PROVE ChatOK(q)'
<1>1. CallsFit(q)'
  BY DEF Untouched, ChatOK, CallsFit
<1>2. EntryFits(q)'
  BY DEF Untouched, ChatOK, EntryFits
<1>3. ReplyFits(q)'
  BY DEF Untouched, ChatOK, ReplyFits
<1>4. QED
  BY <1>1, <1>2, <1>3 DEF ChatOK

(* An LLM answers, and it is the next one's turn.                          *)
LEMMA LenPositive ==
    ASSUME NEW t \in Seq(Llm), t # <<>>
    PROVE  /\ Len(t) \in Nat /\ Len(t) > 0 /\ (Len(t) = 1 <=> Tail(t) = <<>>)
<1>1. Len(t) \in Nat /\ Len(t) > 0 /\ Tail(t) \in Seq(Llm) /\ Len(Tail(t)) = Len(t) - 1
  OBVIOUS
<1>2. Tail(t) = <<>> <=> Len(Tail(t)) = 0
  BY <1>1, EmptySeq
<1>3. QED
  BY <1>1, <1>2

(* The turn passes from the models to come to those that have answered.    *)
LEMMA TurnPasses ==
    ASSUME NEW h \in Seq(Llm), NEW t \in Seq(Llm), t # <<>>
    PROVE  /\ Append(h, Head(t)) \in Seq(Llm) /\ Tail(t) \in Seq(Llm)
           /\ Len(Append(h, Head(t))) + Len(Tail(t)) = Len(h) + Len(t)
           /\ Len(Append(h, Head(t))) = Len(h) + 1 /\ Len(Tail(t)) = Len(t) - 1
           /\ InTurn(t, Len(h)) /\ InTurn(h, 0) =>
                 InTurn(Append(h, Head(t)), 0) /\ InTurn(Tail(t), Len(h) + 1)
BY DEF InTurn

(* A step of one chat: the types, the chat itself, and NotYet at it.       *)
LEMMA OneChat ==
    ASSUME Inv, NEW r \in Chat, TypeOK', ChatOK(r)',
           \A q \in Chat \ {r} : Untouched(q),
           \A q \in Request \ {r} : pc'[q] = pc[q] /\ reply'[q] = reply[q],
           pc'[r] \notin {"streaming", "done"} => reply'[r] = NULL
    PROVE  Inv'
<1>1. ASSUME NEW q \in Chat PROVE ChatOK(q)'
  <2>1. CASE q = r
    BY <2>1
  <2>2. CASE q # r
    BY <2>2, UntouchedKeeps DEF Inv
  <2>3. QED
    BY <2>1, <2>2
<1>2. NotYet'
  BY DEF Inv, NotYet
<1>3. QED
  BY <1>1, <1>2 DEF Inv

(* A step of what is piped, or of none: no chat is touched.                *)
LEMMA NoChat ==
    ASSUME Inv, TypeOK', NotYet', UNCHANGED chatVars,
           \A q \in Chat : pc'[q] = pc[q] /\ reply'[q] = reply[q]
    PROVE  Inv'
BY UntouchedKeeps DEF Inv, Untouched, chatVars

(* Every step keeps the invariant.                                         *)
LEMMA InvNext == Inv /\ [Next]_vars => Inv'
<1> SUFFICES ASSUME Inv, [Next]_vars PROVE Inv'
  OBVIOUS
<1> USE RequestsDiffer
<1>k. TypeOK /\ NotYet /\ \A r \in Chat : ChatOK(r)
  BY DEF Inv
<1>1. ASSUME NEW r \in Chat, Refuse(r) PROVE Inv'
  <2>1. TypeOK'
    BY <1>1, <1>k DEF Refuse, TypeOK, PC, Status, envVars, chatVars, lineVars
  <2>2. /\ pc[r] = "idle" /\ pc'[r] = "done" /\ reply'[r] = 400
        /\ UNCHANGED <<mode, todo, heard, odd, outcome, entry, skipped>>
        /\ \A q \in Request \ {r} : pc'[q] = pc[q] /\ reply'[q] = reply[q]
    BY <1>1, <1>k DEF Refuse, TypeOK, chatVars
  <2>3. ChatOK(r)'
    <3>1. ChatOK(r) /\ outcome[r] = NULL
      BY <2>2, <1>k DEF ChatOK, EntryFits
    <3>2. CallsFit(r)'
      BY <2>2, <3>1 DEF ChatOK, CallsFit
    <3>3. EntryFits(r)' /\ ReplyFits(r)'
      BY <2>2, <3>1 DEF ChatOK, EntryFits, ReplyFits
    <3>4. QED
      BY <3>2, <3>3 DEF ChatOK
  <2>4. QED
    BY <2>1, <2>2, <2>3, OneChat DEF Untouched
<1>2. ASSUME NEW r \in Chat, Misshapen(r) PROVE Inv'
  <2>1. TypeOK' /\ NotYet'
    BY <1>2, <1>k DEF Misshapen, TypeOK, NotYet, envVars, chatVars, lineVars
  <2>2. QED
    BY <1>2, <2>1, NoChat DEF Misshapen
<1>3. ASSUME NEW r \in Chat, NEW header \in Mode \cup {NULL}, NEW phi \in Band,
             Coordinate(r, header, phi)
      PROVE  Inv'
  <2> DEFINE m == IF header \in Mode THEN header ELSE selectMode(phi)
             c == Calls(m, phi)
  <2>1. m \in Mode
    BY ModeOK
  <2>2. /\ pc[r] = "idle" /\ pc' = [pc EXCEPT ![r] = "calling"]
        /\ mode' = [mode EXCEPT ![r] = m] /\ todo' = [todo EXCEPT ![r] = c]
        /\ UNCHANGED <<running, active, readable, heard, odd, outcome, entry, skipped,
                       cut, trickling, reply>>
    BY <1>3 DEF Coordinate, envVars, lineVars
  <2> HIDE DEF m
  <2>3. c \in Seq(Llm) /\ c # <<>> /\ Len(c) = Rounds(m) /\ (m # "SOLO" => InTurn(c, 0))
    BY <2>1, CallsOK
  <2> HIDE DEF c
  <2>4. TypeOK'
    BY <2>1, <2>2, <2>3, <1>k DEF TypeOK, PC
  <2>5. /\ pc'[r] = "calling" /\ mode'[r] = m /\ todo'[r] = c
        /\ \A q \in Chat \ {r} : Untouched(q)
        /\ \A q \in Request \ {r} : pc'[q] = pc[q] /\ reply'[q] = reply[q]
    BY <2>2, <1>k DEF TypeOK, Untouched
  <2>6. ChatOK(r) /\ heard[r] = <<>> /\ outcome[r] = NULL /\ entry[r] = NULL /\ reply[r] = NULL
    BY <2>2, <1>k DEF ChatOK, CallsFit, EntryFits, NotYet
  <2>7. CallsFit(r)'
    <3>1. Len(heard[r]) = 0 /\ Rounds(m) \in Nat /\ InTurn(heard[r], 0)
      BY <2>1, <2>6, RoundsOK DEF InTurn
    <3>2. QED
      BY <2>1, <2>2, <2>3, <2>5, <2>6, <3>1 DEF CallsFit
  <2>8. EntryFits(r)' /\ ReplyFits(r)'
    BY <2>2, <2>5, <2>6, NoStatus DEF EntryFits, ReplyFits
  <2>9. QED
    BY <2>2, <2>4, <2>5, <2>6, <2>7, <2>8, OneChat DEF ChatOK
<1>4. ASSUME NEW r \in Chat, LlmAnswers(r) PROVE Inv'
  <2> DEFINE h == heard[r]
             t == todo[r]
             last == Len(t) = 1
  <2>1. /\ h \in Seq(Llm) /\ t \in Seq(Llm) /\ t # <<>> /\ pc[r] = "calling"
        /\ Len(h) + Len(t) = Rounds(mode[r]) /\ mode[r] \in Mode
        /\ mode[r] # "SOLO" => InTurn(t, Len(h)) /\ InTurn(h, 0)
        /\ outcome[r] = NULL /\ entry[r] = NULL /\ reply[r] = NULL
    BY <1>4, <1>k DEF LlmAnswers, TypeOK, ChatOK, CallsFit, EntryFits, NotYet
  <2>2. /\ heard' = [heard EXCEPT ![r] = Append(h, Head(t))]
        /\ todo' = [todo EXCEPT ![r] = Tail(t)]
        /\ pc' = IF last THEN [pc EXCEPT ![r] = "settled"] ELSE pc
        /\ outcome' = IF last THEN [outcome EXCEPT ![r] = "result"] ELSE outcome
        /\ odd' \in {odd, odd \cup {r}} /\ trickling' = trickling \ {r}
        /\ UNCHANGED <<running, active, readable, mode, entry, skipped, cut, reply>>
    BY <1>4 DEF LlmAnswers, envVars
  <2>3. /\ Append(h, Head(t)) \in Seq(Llm) /\ Tail(t) \in Seq(Llm)
        /\ Len(Append(h, Head(t))) + Len(Tail(t)) = Len(h) + Len(t)
        /\ Len(Append(h, Head(t))) = Len(h) + 1 /\ Len(Tail(t)) = Len(t) - 1
        /\ mode[r] # "SOLO" =>
              InTurn(Append(h, Head(t)), 0) /\ InTurn(Tail(t), Len(h) + 1)
        /\ last <=> Tail(t) = <<>>
    <3>1. Len(t) \in Nat /\ Len(h) \in Nat /\ (Len(t) = 1 <=> Tail(t) = <<>>)
      BY <2>1, LenPositive
    <3>2. QED
      BY <2>1, <3>1, TurnPasses, Zenon
  <2>4. TypeOK'
    <3>1. {todo', heard'} \subseteq [Chat -> Seq(Llm)]
      BY <2>2, <2>3, <1>k DEF TypeOK
    <3>2. \A q \in Chat : pc'[q] = "calling" <=> todo'[q] # <<>>
      BY <2>1, <2>2, <2>3, <1>k DEF TypeOK
    <3>3. pc' \in [Request -> PC] /\ outcome' \in [Chat -> {NULL, "result", "error"}]
      BY <2>2, <1>k DEF TypeOK, PC
    <3>4. QED
      BY <2>2, <3>1, <3>2, <3>3, <1>k DEF TypeOK
  <2>5. /\ pc'[r] = IF last THEN "settled" ELSE "calling"
        /\ outcome'[r] = IF last THEN "result" ELSE NULL
        /\ heard'[r] = Append(h, Head(t)) /\ todo'[r] = Tail(t)
        /\ \A q \in Chat \ {r} : Untouched(q)
        /\ \A q \in Request \ {r} : pc'[q] = pc[q] /\ reply'[q] = reply[q]
    BY <2>1, <2>2, <1>k DEF TypeOK, Untouched
  <2>6. CallsFit(r)'
    <3>1. Len(h) \in Nat /\ Len(t) \in Nat /\ mode'[r] = mode[r]
      BY <2>1, <2>2
    <3>2. CASE last
      <4>1. pc'[r] = "settled" /\ outcome'[r] = "result" /\ Len(heard'[r]) = Rounds(mode[r])
        BY <2>1, <2>3, <2>5, <3>1, <3>2
      <4>2. QED
        BY <2>1, <2>3, <2>5, <3>1, <4>1 DEF CallsFit
    <3>3. CASE ~ last
      <4>1. /\ pc'[r] = "calling" /\ outcome'[r] = NULL
            /\ Len(heard'[r]) + Len(todo'[r]) = Rounds(mode[r])
            /\ Len(heard'[r]) = Len(h) + 1
        BY <2>1, <2>3, <2>5, <3>1, <3>3
      <4>2. QED
        BY <2>1, <2>3, <2>5, <3>1, <4>1 DEF CallsFit
    <3>4. QED
      BY <3>2, <3>3
  <2>7. EntryFits(r)' /\ ReplyFits(r)'
    BY <2>1, <2>2, <2>5, NoStatus DEF EntryFits, ReplyFits
  <2>8. QED
    BY <2>1, <2>2, <2>4, <2>5, <2>6, <2>7, OneChat DEF ChatOK
<1>5. ASSUME NEW r \in Chat, LlmFails(r) \/ LlmTimesOut(r) PROVE Inv'
  <2>1. /\ pc[r] = "calling"
        /\ todo' = [todo EXCEPT ![r] = <<>>] /\ pc' = [pc EXCEPT ![r] = "settled"]
        /\ outcome' = [outcome EXCEPT ![r] = "error"]
        /\ UNCHANGED <<running, active, readable, mode, heard, odd, entry, skipped, cut, reply>>
        /\ trickling' = trickling \ {r}
    BY <1>5 DEF LlmFails, LlmTimesOut, Rejects, envVars
  <2>2. /\ todo[r] \in Seq(Llm) /\ todo[r] # <<>> /\ heard[r] \in Seq(Llm)
        /\ Len(heard[r]) + Len(todo[r]) = Rounds(mode[r]) /\ mode[r] \in Mode
        /\ mode[r] # "SOLO" => InTurn(heard[r], 0)
        /\ entry[r] = NULL /\ reply[r] = NULL
    BY <2>1, <1>k DEF TypeOK, ChatOK, CallsFit, EntryFits, NotYet
  <2>3. Len(heard[r]) < Rounds(mode[r])
    <3>1. Len(heard[r]) \in Nat /\ Len(todo[r]) \in Nat /\ Len(todo[r]) > 0
      BY <2>2, LenPositive
    <3>2. Rounds(mode[r]) \in Nat
      BY <2>2, RoundsOK
    <3>3. \A a, b \in Nat : b > 0 => a < a + b
      OBVIOUS
    <3>4. QED
      BY <2>2, <3>1, <3>3, Zenon
  <2>4. TypeOK'
    BY <2>1, <1>k DEF TypeOK, PC
  <2>5. /\ pc'[r] = "settled" /\ outcome'[r] = "error"
        /\ \A q \in Chat \ {r} : Untouched(q)
        /\ \A q \in Request \ {r} : pc'[q] = pc[q] /\ reply'[q] = reply[q]
    BY <2>1, <1>k DEF TypeOK, Untouched
  <2>6. CallsFit(r)'
    BY <2>1, <2>2, <2>3, <2>5 DEF CallsFit
  <2>7. EntryFits(r)' /\ ReplyFits(r)'
    BY <2>1, <2>2, <2>5, NoStatus DEF EntryFits, ReplyFits
  <2>8. QED
    BY <2>1, <2>2, <2>4, <2>5, <2>6, <2>7, OneChat DEF ChatOK
<1>6. ASSUME NEW r \in Request,
             LlmCuts(r) \/ (r \in Chat /\ (LlmTrickles(r) \/ LlmFallsSilent(r)))
      PROVE  Inv'
  <2>1. TypeOK' /\ NotYet'
    BY <1>6, <1>k
       DEF LlmCuts, LlmTrickles, LlmFallsSilent, TypeOK, NotYet, envVars, chatVars
  <2>2. QED
    BY <1>6, <2>1, NoChat DEF LlmCuts, LlmTrickles, LlmFallsSilent
<1>7. ASSUME NEW r \in Chat, LogEntry(r) PROVE Inv'
  <2> DEFINE role == IF r \in odd THEN "error" ELSE outcome[r]
  <2>1. /\ pc[r] = "settled" /\ pc' = [pc EXCEPT ![r] = "logged"]
        /\ entry' = [entry EXCEPT ![r] = IF readable THEN role ELSE entry[r]]
        /\ skipped' = IF readable THEN skipped ELSE skipped \cup {r}
        /\ outcome' = [outcome EXCEPT ![r] = role]
        /\ UNCHANGED <<running, active, readable, mode, todo, heard, odd, cut, trickling,
                       reply>>
    BY <1>7 DEF LogEntry, erlAppend, envVars, lineVars
  <2>2. ChatOK(r) /\ reply[r] = NULL /\ outcome[r] \in {"result", "error"}
    BY <2>1, <1>k DEF NotYet, ChatOK, EntryFits, TypeOK
  <2>x. role \in {"result", "error"} /\ (role = "result" => r \notin odd /\ outcome[r] = role)
        /\ (role = "error" => r \in odd \/ outcome[r] = role)
    BY <2>2
  <2> HIDE DEF role
  <2>3. TypeOK'
    BY <2>1, <2>x, <1>k DEF TypeOK, PC
  <2>4. /\ pc'[r] = "logged" /\ entry'[r] = (IF readable THEN role ELSE entry[r])
        /\ outcome'[r] = role
        /\ \A q \in Chat \ {r} : Untouched(q)
        /\ \A q \in Request \ {r} : pc'[q] = pc[q] /\ reply'[q] = reply[q]
    BY <2>1, <1>k DEF TypeOK, Untouched
  <2>5. CallsFit(r)'
    <3>1. mode[r] \in Mode
      BY <2>2 DEF ChatOK, CallsFit
    <3>2. QED
      BY <2>1, <2>2, <2>x, <2>4, <3>1 DEF ChatOK, CallsFit
  <2>6. EntryFits(r)' /\ ReplyFits(r)'
    BY <2>1, <2>2, <2>x, <2>4, NoStatus DEF ChatOK, EntryFits, ReplyFits
  <2>7. QED
    BY <2>1, <2>2, <2>3, <2>4, <2>5, <2>6, OneChat DEF ChatOK
<1>8. ASSUME NEW r \in Chat, ReplyToChat(r) PROVE Inv'
  <2> DEFINE y == IF outcome[r] = "result" THEN 200 ELSE 502
  <2>1. /\ pc[r] = "logged" /\ pc' = [pc EXCEPT ![r] = "done"]
        /\ reply' = [reply EXCEPT ![r] = y]
        /\ UNCHANGED <<running, active, readable, mode, todo, heard, odd, outcome, entry,
                       skipped, cut, trickling>>
    BY <1>8 DEF ReplyToChat, envVars, chatVars, lineVars
  <2>2. ChatOK(r) /\ outcome[r] \in {"result", "error"}
    BY <2>1, <1>k DEF ChatOK, EntryFits, TypeOK
  <2>3. TypeOK'
    BY <2>1, <1>k DEF TypeOK, PC, Status
  <2>4. /\ pc'[r] = "done" /\ reply'[r] = y
        /\ \A q \in Chat \ {r} : Untouched(q)
        /\ \A q \in Request \ {r} : pc'[q] = pc[q] /\ reply'[q] = reply[q]
    BY <2>1, <1>k DEF TypeOK, Untouched
  <2>5. CallsFit(r)'
    BY <2>1, <2>2, <2>4 DEF ChatOK, CallsFit
  <2>6. EntryFits(r)' /\ ReplyFits(r)'
    BY <2>1, <2>2, <2>4 DEF ChatOK, EntryFits, ReplyFits
  <2>7. QED
    BY <2>3, <2>4, <2>5, <2>6, OneChat DEF ChatOK
<1>9. ASSUME NEW r \in Piped, Forward(r) \/ UpstreamHead(r) \/ UpstreamEnds(r) \/ UpstreamError(r)
                              \/ (r \in Other /\ Local(r))
      PROVE  Inv'
  <2>1. /\ UNCHANGED <<active, readable, chatVars, cut, trickling>> /\ running' \in BOOLEAN
        /\ \/ UNCHANGED <<pc, reply>>
           \/ \E x \in PC, y \in Status \cup {NULL} :
                 /\ pc' = [pc EXCEPT ![r] = x] /\ reply' = [reply EXCEPT ![r] = y]
                 /\ x \notin {"streaming", "done"} => y = NULL
                 /\ x # "calling"
    <3>1. r \in Request /\ reply = [reply EXCEPT ![r] = reply[r]] /\ reply[r] \in Status \cup {NULL}
      BY <1>k DEF TypeOK
    <3>2. running \in BOOLEAN /\ (pc[r] \in {"idle", "waiting"} => reply[r] = NULL)
      BY <3>1, <1>k DEF TypeOK, NotYet
    <3>3. CASE Forward(r)
      BY <3>1, <3>2, <3>3 DEF Forward, envVars, lineVars, PC
    <3>4. CASE UpstreamHead(r)
      BY <3>1, <3>2, <3>4 DEF UpstreamHead, envVars, lineVars, PC, Status
    <3>5. CASE UpstreamEnds(r)
      BY <3>1, <3>2, <3>5 DEF UpstreamEnds, envVars, lineVars, PC
    <3>6. CASE UpstreamError(r)
      <4>1. /\ UNCHANGED <<active, readable, chatVars, cut, trickling>> /\ running' \in BOOLEAN
            /\ \/ /\ pc' = [pc EXCEPT ![r] = "done"] /\ reply' = [reply EXCEPT ![r] = 502]
               \/ UNCHANGED <<pc, reply>>
        BY <3>2, <3>6 DEF UpstreamError, envVars, lineVars
      <4>2. "done" \in PC /\ 502 \in Status
        BY DEF PC, Status
      <4>3. QED
        BY <4>1, <4>2
    <3>7. CASE Local(r)
      BY <3>1, <3>2, <3>7 DEF Local, envVars, lineVars, PC, Status
    <3>8. QED
      BY <1>9, <3>3, <3>4, <3>5, <3>6, <3>7
  <2>2. TypeOK'
    BY <2>1, <1>k DEF TypeOK, chatVars
  <2>3. NotYet' /\ \A q \in Chat : pc'[q] = pc[q] /\ reply'[q] = reply[q]
    BY <2>1, <1>k DEF TypeOK, NotYet
  <2>4. QED
    BY <2>1, <2>2, <2>3, NoChat
<1>10. ASSUME HealthWriter \/ LedgerTearsOrMends \/ Kill PROVE Inv'
  <2>1. TypeOK' /\ NotYet'
    BY <1>10, <1>k DEF HealthWriter, LedgerTearsOrMends, Kill, TypeOK, Active, NotYet, envVars,
                     chatVars, lineVars
  <2>2. QED
    BY <1>10, <2>1, NoChat DEF HealthWriter, LedgerTearsOrMends, Kill
<1>11. CASE UNCHANGED vars
  <2>1. TypeOK' /\ NotYet'
    BY <1>11, <1>k DEF vars, TypeOK, NotYet, envVars, chatVars, lineVars
  <2>2. QED
    BY <1>11, <2>1, NoChat DEF vars
<1>12. QED
  BY <1>1, <1>2, <1>3, <1>4, <1>5, <1>6, <1>7, <1>8, <1>9, <1>10, <1>11, Zenon
     DEF Next, Arrives, ChatStep, PipeStep

(* So it always holds.                                                     *)
LEMMA Invariance == Spec => []Inv
BY InvInit, InvNext, PTL DEF Spec

(* Every chat keeps its place: it has calls to make exactly while it calls.*)
THEOREM TypeCorrect == Spec => []TypeOK
<1>1. Inv => TypeOK
  BY DEF Inv
<1>2. QED
  BY <1>1, Invariance, PTL

(* Whatever fails, the entry of a chat, its reply and the calls that were  *)
(* answered say the same.                                                  *)
THEOREM LedgerIsTruthful == Spec => []LedgerTellsTheTruth
<1>1. ASSUME Inv, NEW r \in Chat
      PROVE  /\ reply[r] = 200 => r \in skipped \/ entry[r] = "result"
             /\ reply[r] = 502 => r \in skipped \/ entry[r] = "error"
  BY <1>1 DEF Inv, ChatOK, ReplyFits
<1>2. ASSUME Inv, NEW r \in Chat, entry[r] = "result"
      PROVE  heard[r] # <<>> /\ todo[r] = <<>>
  <2>1. outcome[r] = "result" /\ pc[r] # "calling"
    BY <1>2, RequestsDiffer DEF Inv, ChatOK, EntryFits
  <2>2. Len(heard[r]) = Rounds(mode[r]) /\ mode[r] \in Mode
    BY <1>2, <2>1 DEF Inv, ChatOK, CallsFit
  <2>3. heard[r] # <<>>
    BY <2>2, RoundsOK
  <2>4. QED
    BY <1>2, <2>1, <2>3 DEF Inv, TypeOK
<1>3. ASSUME Inv, NEW r \in Chat, entry[r] = "error"
      PROVE  r \in odd \/ Len(heard[r]) < Rounds(mode[r])
  BY <1>3, RequestsDiffer DEF Inv, ChatOK, EntryFits, CallsFit
<1>4. Inv => LedgerTellsTheTruth
  BY <1>1, <1>2, <1>3 DEF LedgerTellsTheTruth, Rounds
<1>5. QED
  BY <1>4, Invariance, PTL

(* In a reply of RELAY or CHALLENGE the two LLMs have spoken in turn.      *)
THEOREM EachReviewsTheOther == Spec => []NobodyReviewsItself
<1>1. ASSUME Inv, NEW r \in Chat, reply[r] = 200, mode[r] # "SOLO"
      PROVE  /\ ToSet(heard[r]) = Llm
             /\ \A i \in 1 .. Len(heard[r]) - 1 : heard[r][i] # heard[r][i + 1]
             /\ mode[r] = "CHALLENGE" => Last(heard[r]) = heard[r][1]
  <2> DEFINE h == heard[r]
  <2>1. outcome[r] = "result"
    BY <1>1 DEF Inv, ChatOK, ReplyFits
  <2>2. /\ h \in Seq(Llm) /\ mode[r] \in {"RELAY", "CHALLENGE"}
        /\ Len(h) = Rounds(mode[r]) /\ InTurn(h, 0)
    BY <1>1, <2>1 DEF Inv, TypeOK, ChatOK, CallsFit, Mode
  <2>3. Len(h) = IF mode[r] = "RELAY" THEN 2 ELSE 3
    BY <2>2 DEF Rounds
  <2>4. DOMAIN h = 1 .. Len(h) /\ \A i \in 1 .. Len(h) : h[i] = IF i = 2 THEN "LLM2" ELSE "LLM1"
    BY <2>2, <2>3 DEF InTurn, Turn
  <2> HIDE DEF h
  <2>5. ToSet(h) = Llm
    BY <2>3, <2>4 DEF ToSet, Llm
  <2>6. \A i \in 1 .. Len(h) - 1 : h[i] # h[i + 1]
    BY <2>3, <2>4
  <2>7. mode[r] = "CHALLENGE" => Last(h) = h[1]
    BY <2>3, <2>4 DEF Last
  <2>8. QED
    BY <2>5, <2>6, <2>7 DEF h
<1>2. Inv => NobodyReviewsItself
  BY <1>1 DEF NobodyReviewsItself
<1>3. QED
  BY <1>2, Invariance, PTL
=============================================================================
