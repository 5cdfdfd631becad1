----------------------------- MODULE CoordProxy -----------------------------
(***************************************************************************)
(* coord-proxy.js: the HTTP proxy between the chat clients and LM Studio.  *)
(* A chat completion is coordinated: it becomes one, two or three calls of *)
(* the two LLM slots, one after the other, then an entry of the ERL ledger *)
(* and a reply.  Any other request is piped to LM Studio as it is.         *)
(*                                                                         *)
(* Handlers interleave at every await, so a request is a small control     *)
(* machine of its own; the proxy process is shared, and one handler that   *)
(* throws outside a try ends it for all of them.  LM Studio may answer,    *)
(* answer with something else, fail, say nothing, trickle bytes without    *)
(* end, or close the connection in the middle of a body; the last two      *)
(* settle no promise at all.                                               *)
(***************************************************************************)
EXTENDS Naturals, Sequences, SequencesExt

CONSTANTS
    Chat,       \* POSTs of exactly /v1/chat/completions
    QueryChat,  \* POSTs of /v1/chat/completions?mode=...
    Other,      \* any other request
    NULL,
    Faults      \* which of the faults below can happen

ASSUME ProxyConstantsOK ==
    /\ Chat \cap (QueryChat \cup Other) = {} /\ QueryChat \cap Other = {}
    /\ Faults \subseteq {"kill", "shape", "odd", "cut", "reset", "torn"}

Piped   == QueryChat \cup Other
Request == Chat \cup Piped
Llm     == {"LLM1", "LLM2"}
Mode    == {"SOLO", "RELAY", "CHALLENGE"}
Band    == {"below_0309", "below_0618", "below_0854", "above"}  \* of phi
Active  == {"absent", "empty", "phi-primary", "phi-mirror"}
Status  == {200, 204, 400, 404, 502}

ASSUME NullOK == NULL \notin Status /\ NULL \notin Mode \cup {"result", "error"}

VARIABLES
    running,   \* is the proxy process alive?
    active,    \* what the file active_server holds
    readable,  \* can the ledger file be parsed and written?
    pc,        \* where the handler of each request is
    mode,      \* the mode of each chat, NULL before it arrives
    todo,      \* the LLM calls each chat has still to make, the open one first
    heard,     \* the LLMs that have answered each chat, in order
    odd,       \* chats whose draft or critique came back as no string
    cut,       \* requests whose upstream closed in the middle of a body
    trickling, \* chats whose open call has had a byte within its 180 s
    outcome,   \* "result" or "error" once the calls of a chat have ended
    entry,     \* the role of the ledger entry of each chat, NULL if none
    skipped,   \* chats whose entry could not be written
    reply      \* the status each client was sent, NULL before

envVars  == <<active, readable>>
chatVars == <<mode, todo, heard, odd, outcome, entry, skipped>>
lineVars == <<cut, trickling>>
vars     == <<running, envVars, chatVars, pc, lineVars, reply>>

PC == {"idle", "calling", "settled", "logged", "waiting", "streaming", "done"}

TypeOK ==
    /\ running \in BOOLEAN /\ active \in Active /\ readable \in BOOLEAN
    /\ pc \in [Request -> PC]
    /\ mode \in [Chat -> Mode \cup {NULL}]
    /\ {todo, heard} \subseteq [Chat -> Seq(Llm)]
    /\ \A r \in Chat : pc[r] = "calling" <=> todo[r] # <<>>
    /\ cut \subseteq Request /\ trickling \subseteq Chat /\ odd \subseteq Chat
    /\ {outcome, entry} \subseteq [Chat -> {NULL, "result", "error"}]
    /\ skipped \subseteq Chat
    /\ reply \in [Request -> Status \cup {NULL}]

Init ==
    /\ running = TRUE /\ active = "absent" /\ readable = TRUE
    /\ pc = [r \in Request |-> "idle"]
    /\ mode = [r \in Chat |-> NULL]
    /\ todo = [r \in Chat |-> <<>>]
    /\ heard = [r \in Chat |-> <<>>]
    /\ cut = {} /\ trickling = {} /\ odd = {}
    /\ outcome = [r \in Chat |-> NULL]
    /\ entry = [r \in Chat |-> NULL]
    /\ skipped = {}
    /\ reply = [r \in Request |-> NULL]

-----------------------------------------------------------------------------
(* The choice of the mode and of the LLMs.                                 *)

selectMode(phi) ==
    CASE phi \in {"below_0309", "below_0618"} -> "SOLO"
      [] phi = "below_0854" -> "RELAY"
      [] phi = "above" -> "CHALLENGE"

(* An absent file reads as phi-primary.  A file the launcher has truncated *)
(* and not yet written reads as the empty string, which is neither.        *)
readHdglActive == IF active = "absent" THEN "phi-primary" ELSE active

selectSoloLlm(phi) ==
    CASE readHdglActive = "phi-mirror"  -> "LLM2"
      [] readHdglActive = "phi-primary" -> "LLM1"
      [] OTHER -> IF phi = "below_0309" THEN "LLM1" ELSE "LLM2"

RelayCalls     == <<"LLM1", "LLM2">>          \* draft, refine
ChallengeCalls == <<"LLM1", "LLM2", "LLM1">>  \* answer, critique, revise

CallsReviseElsewhere(m, phi) ==
    CASE m = "SOLO" -> <<selectSoloLlm(phi)>>
      [] m = "RELAY" -> RelayCalls
      [] m = "CHALLENGE" -> <<"LLM1", "LLM2", "LLM2">>

Calls(m, phi) ==
    CASE m = "SOLO" -> <<selectSoloLlm(phi)>>
      [] m = "RELAY" -> RelayCalls
      [] m = "CHALLENGE" -> ChallengeCalls

-----------------------------------------------------------------------------
(* Chat completions.                                                       *)

(* The body is complete.  Malformed JSON is refused; a body whose messages *)
(* is not an array throws in the async handler before its try, and the     *)
(* unhandled rejection ends the process.  A valid x-hdgl-mode header wins  *)
(* over phi.                                                               *)
Refuse(r) ==
    /\ running /\ pc[r] = "idle"
    /\ pc' = [pc EXCEPT ![r] = "done"]
    /\ reply' = [reply EXCEPT ![r] = 400]
    /\ UNCHANGED <<running, envVars, chatVars, lineVars>>

Misshapen(r) ==
    /\ "shape" \in Faults /\ running /\ pc[r] = "idle"
    /\ running' = FALSE
    /\ UNCHANGED <<envVars, chatVars, pc, lineVars, reply>>

Coordinate(r, header, phi) ==
    LET m == IF header \in Mode THEN header ELSE selectMode(phi) IN
    /\ running /\ pc[r] = "idle"
    /\ pc' = [pc EXCEPT ![r] = "calling"]
    /\ mode' = [mode EXCEPT ![r] = m]
    /\ todo' = [todo EXCEPT ![r] = Calls(m, phi)]
    /\ UNCHANGED <<running, envVars, heard, odd, outcome, entry, skipped, lineVars,
                   reply>>

(* The draft of a RELAY and the critique of a CHALLENGE go into the entry  *)
(* as a preview, which only a string has a slice of.                       *)
Previewed(r) ==
    \/ mode[r] = "RELAY" /\ heard[r] = <<>>
    \/ mode[r] = "CHALLENGE" /\ Len(heard[r]) = 1

(* The open call resolves, with a text or with a JSON body that has none   *)
(* (the status is not looked at, the text then is ''): the next call opens *)
(* in the same turn, or the last answer is the result.                     *)
LlmAnswers(r) ==
    /\ running /\ pc[r] = "calling" /\ r \notin cut
    /\ heard' = [heard EXCEPT ![r] = Append(@, Head(todo[r]))]
    /\ \/ odd' = odd
       \/ "odd" \in Faults /\ Previewed(r) /\ odd' = odd \cup {r}
    /\ todo' = [todo EXCEPT ![r] = Tail(@)]
    /\ trickling' = trickling \ {r}
    /\ IF Len(todo[r]) = 1
       THEN /\ pc' = [pc EXCEPT ![r] = "settled"]
            /\ outcome' = [outcome EXCEPT ![r] = "result"]
       ELSE UNCHANGED <<pc, outcome>>
    /\ UNCHANGED <<running, envVars, mode, entry, skipped, cut, reply>>

(* The open call rejects, and the calls after it are not made.             *)
Rejects(r) ==
    /\ running /\ pc[r] = "calling" /\ r \notin cut
    /\ todo' = [todo EXCEPT ![r] = <<>>]
    /\ pc' = [pc EXCEPT ![r] = "settled"]
    /\ outcome' = [outcome EXCEPT ![r] = "error"]
    /\ trickling' = trickling \ {r}
    /\ UNCHANGED <<running, envVars, mode, heard, odd, entry, skipped, cut, reply>>

(* A body that does not parse, or an error of the connection.              *)
LlmFails(r) == Rejects(r)

(* 180 s without a byte: the handler destroys the request and rejects.     *)
(* The timer is the socket's: every byte winds it up again, and a          *)
(* connection that has closed has none.                                    *)
TimeoutDestroysOnly(r) == FALSE /\ Rejects(r)
LlmTimesOut(r) == r \notin trickling /\ Rejects(r)

(* A byte of the body, or 180 s after the last one.                        *)
LlmTrickles(r) ==
    /\ running /\ pc[r] = "calling" /\ r \notin cut \cup trickling
    /\ trickling' = trickling \cup {r}
    /\ UNCHANGED <<running, envVars, chatVars, pc, cut, reply>>

LlmFallsSilent(r) ==
    /\ running /\ r \in trickling
    /\ trickling' = trickling \ {r}
    /\ UNCHANGED <<running, envVars, chatVars, pc, cut, reply>>

(* LM Studio closes in the middle of the body.  Neither 'end' nor an error *)
(* of the request follows, and nobody listens to those of the response.    *)
LlmCuts(r) ==
    /\ "cut" \in Faults /\ running /\ r \notin cut
    /\ pc[r] \in {"calling", "streaming"}
    /\ cut' = cut \cup {r} /\ trickling' = trickling \ {r}
    /\ UNCHANGED <<running, envVars, chatVars, pc, reply>>

(* erlAppend re-reads, extends and rewrites the ledger; it catches what    *)
(* goes wrong, and the request goes on without an entry.                   *)
erlAppendResult(r, role) ==
    /\ entry' = [entry EXCEPT ![r] = IF readable THEN "result" ELSE @]
    /\ skipped' = IF readable THEN skipped ELSE skipped \cup {r}
erlAppend(r, role) ==
    /\ entry' = [entry EXCEPT ![r] = IF readable THEN role ELSE @]
    /\ skipped' = IF readable THEN skipped ELSE skipped \cup {r}

(* The entry is written, then the reply: one turn of the event loop, which *)
(* only the death of the process can split.  A preview that throws lands   *)
(* in the catch that a rejected call lands in: an entry of role error.     *)
LogEntry(r) ==
    LET role == IF r \in odd THEN "error" ELSE outcome[r] IN
    /\ running /\ pc[r] = "settled"
    /\ erlAppend(r, role)
    /\ outcome' = [outcome EXCEPT ![r] = role]
    /\ pc' = [pc EXCEPT ![r] = "logged"]
    /\ UNCHANGED <<running, envVars, mode, todo, heard, odd, lineVars, reply>>

ReplyToChat(r) ==
    /\ running /\ pc[r] = "logged"
    /\ reply' = [reply EXCEPT ![r] = IF outcome[r] = "result" THEN 200 ELSE 502]
    /\ pc' = [pc EXCEPT ![r] = "done"]
    /\ UNCHANGED <<running, envVars, chatVars, lineVars>>

-----------------------------------------------------------------------------
(* What the proxy does not answer itself is piped to LM Studio.  A ?mode=  *)
(* in the query makes the URL another one: such a chat is piped as well.   *)

(* OPTIONS, the chat page and /status are answered in one turn, from files *)
(* at most: a missing page is a 404, a missing or torn health file null.   *)
Local(r) ==
    /\ running /\ pc[r] = "idle"
    /\ reply' \in {[reply EXCEPT ![r] = status] : status \in {200, 204, 404}}
    /\ pc' = [pc EXCEPT ![r] = "done"]
    /\ UNCHANGED <<running, envVars, chatVars, lineVars>>

Forward(r) ==
    /\ running /\ pc[r] = "idle"
    /\ pc' = [pc EXCEPT ![r] = "waiting"]
    /\ UNCHANGED <<running, envVars, chatVars, lineVars, reply>>

UpstreamHead(r) ==
    /\ running /\ pc[r] = "waiting"
    /\ reply' = [reply EXCEPT ![r] = 200]
    /\ pc' = [pc EXCEPT ![r] = "streaming"]
    /\ UNCHANGED <<running, envVars, chatVars, lineVars>>

UpstreamEnds(r) ==
    /\ running /\ pc[r] = "streaming" /\ r \notin cut
    /\ pc' = [pc EXCEPT ![r] = "done"]
    /\ UNCHANGED <<running, envVars, chatVars, lineVars, reply>>

(* The request to LM Studio fails: 502.  After the head has been sent,     *)
(* writeHead throws in the event handler and the process ends.             *)
UpstreamError(r) ==
    /\ running /\ r \notin cut
    /\ \/ /\ pc[r] = "waiting"
          /\ pc' = [pc EXCEPT ![r] = "done"]
          /\ reply' = [reply EXCEPT ![r] = 502]
          /\ running' = running
       \/ /\ pc[r] = "streaming" /\ "reset" \in Faults
          /\ running' = FALSE
          /\ UNCHANGED <<pc, reply>>
    /\ UNCHANGED <<envVars, chatVars, lineVars>>

-----------------------------------------------------------------------------
(* What the other processes do to the proxy.                               *)

(* The launcher's health writer truncates the file and writes it.          *)
HealthWriter ==
    /\ active' \in IF active = "empty" THEN {"phi-primary", "phi-mirror"}
                                       ELSE {"empty"}
    /\ UNCHANGED <<running, readable, chatVars, pc, lineVars, reply>>

(* A server dies in the middle of a save, a later save replaces the file.  *)
LedgerTearsOrMends ==
    /\ "torn" \in Faults
    /\ readable' = ~readable
    /\ UNCHANGED <<running, active, chatVars, pc, lineVars, reply>>

Kill ==
    /\ "kill" \in Faults /\ running
    /\ running' = FALSE
    /\ UNCHANGED <<envVars, chatVars, pc, lineVars, reply>>

Arrives(r) ==
    \/ Refuse(r) \/ Misshapen(r)
    \/ \E header \in Mode \cup {NULL}, phi \in Band : Coordinate(r, header, phi)

ChatStep(r) ==
    \/ LlmAnswers(r) \/ LlmFails(r) \/ LlmTimesOut(r) \/ LlmCuts(r)
    \/ LlmTrickles(r) \/ LlmFallsSilent(r)
    \/ LogEntry(r) \/ ReplyToChat(r)

PipeStep(r) ==
    \/ Forward(r) \/ UpstreamHead(r) \/ UpstreamEnds(r)
    \/ UpstreamError(r) \/ LlmCuts(r)

Next ==
    \/ \E r \in Chat : Arrives(r) \/ ChatStep(r)
    \/ \E r \in Piped : PipeStep(r)
    \/ \E r \in Other : Local(r)
    \/ HealthWriter \/ LedgerTearsOrMends \/ Kill

Spec == Init /\ [][Next]_vars

(* The timer of an open call expires when no byte winds it up again, and   *)
(* code that is ready to run runs.  Nothing is assumed of LM Studio.       *)
FairSpec ==
    Spec /\ \A r \in Chat : /\ WF_vars(LlmTimesOut(r))
                            /\ WF_vars(LogEntry(r)) /\ WF_vars(ReplyToChat(r))

-----------------------------------------------------------------------------
(* Properties.                                                             *)

(* What the ledger says of a chat is what its client was told and what the *)
(* LLMs did: a result was told 200 after every call of the mode, an error  *)
(* was told 502 and ended the calls early, or its preview could not be     *)
(* taken.  Only an unusable ledger file leaves an answered chat without    *)
(* its entry.  (erlAppend, the try of the completion handler)              *)
LedgerTellsTheTruth ==
    \A r \in Chat :
        /\ reply[r] = 200 => r \in skipped \/ entry[r] = "result"
        /\ reply[r] = 502 => r \in skipped \/ entry[r] = "error"
        /\ entry[r] = "result" => heard[r] # <<>> /\ todo[r] = <<>>
        /\ entry[r] = "error" =>
              \/ r \in odd
              \/ Len(heard[r]) < (CASE mode[r] = "SOLO" -> 1
                                    [] mode[r] = "RELAY" -> 2
                                    [] mode[r] = "CHALLENGE" -> 3)

(* "draft -> refine", "answer -> critique -> revise": in a reply of RELAY  *)
(* or CHALLENGE both LLMs have spoken, none reviews its own text, and the  *)
(* critique comes back to the one that answered.  (runRelay, runChallenge) *)
NobodyReviewsItself ==
    \A r \in Chat : (reply[r] = 200 /\ mode[r] # "SOLO") =>
        /\ ToSet(heard[r]) = Llm
        /\ \A i \in 1 .. Len(heard[r]) - 1 : heard[r][i] # heard[r][i + 1]
        /\ mode[r] = "CHALLENGE" => Last(heard[r]) = heard[r][1]

(* A chat that waits for LM Studio is answered, unless the proxy dies, LM  *)
(* Studio closes in the middle of a body, or it sends bytes for ever, each *)
(* within 180 s of the last: silence, failure and answers that are no      *)
(* answers all settle the call.  (callLlm)                                 *)
ChatSettles ==
    \A r \in Chat :
        <>[](r \notin trickling) =>
            ((pc[r] = "calling") ~> (pc[r] = "done" \/ r \in cut \/ ~running))

(* The same of every chat and whatever LM Studio does; the code does not   *)
(* give it.                                                                *)
ChatAlwaysSettles ==
    \A r \in Chat : (pc[r] = "calling") ~> (pc[r] = "done" \/ ~running)

(* No request ends the proxy for the others; the code does not give it.    *)
(* (the async handler before its try; writeHead of the error handler)      *)
NoRequestKills == "kill" \notin Faults => running

(* "x-hdgl-mode header (or ?mode= query param) overrides phi-selection": a *)
(* chat that names its mode in the query is coordinated, not piped.        *)
QueryModeOverrides == \A r \in QueryChat : pc[r] # "waiting"
=============================================================================
