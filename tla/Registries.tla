----------------------------- MODULE Registries -----------------------------
(***************************************************************************)
(* The tools of an MCP server that leave something running: http_serve,    *)
(* schedule_add, tg_listen and browser_open put a handle into a Map of the *)
(* process, and other tools find it there by its key.  Nothing of it is    *)
(* persisted.  Calls come in over SSE sessions; a call goes on when its    *)
(* session closes, and only its answer is lost.  Nothing says that a call  *)
(* ends: a server closes when its clients let go of their connections.     *)
(*                                                                         *)
(* Tools interleave at their awaits, the first of which is the load of the *)
(* library.  Ports, job ids, tokens and browser session ids are the keys   *)
(* of four Maps; they are disjoint here, so one function stands for all.   *)
(***************************************************************************)
EXTENDS Naturals, Sequences, SequencesExt, FiniteSets, FiniteSetsExt

CONSTANTS
    Client,       \* the clients, each with one session at a time
    Port, JobId, Token,
    NULL,
    MaxHandles,   \* bound: handles made
    MaxMessages,  \* bound: Telegram messages sent to each token
                  \* (a poll brings a hundred at most, more than this)
    InboxCap,     \* 500 in the code
    InboxTake,    \* 20 in the code, unless the caller asks for another
    Occupied      \* ports another process has

ASSUME RegistriesConstantsOK ==
    /\ {MaxHandles, MaxMessages} \subseteq Nat
    /\ {InboxCap, InboxTake} \subseteq Nat \ {0}
    /\ Occupied \subseteq Port
    /\ Port \cap JobId = {} /\ Port \cap Token = {} /\ JobId \cap Token = {}
    /\ (Port \cup JobId \cup Token) \cap (1 .. MaxHandles) = {}
    /\ NULL \notin Client \cup Port \cup JobId \cup Token

Handle == 1 .. MaxHandles          \* in the order they are made
Sid    == Handle                   \* browser_<ms>: named by its millisecond
Key    == Port \cup JobId \cup Token \cup Sid

Tools(k) == CASE k \in Port  -> {"http_serve", "http_serve_stop"}
              [] k \in JobId -> {"schedule_add", "schedule_remove"}
              [] k \in Token -> {"tg_listen", "tg_inbox", "tg_stop"}
              [] OTHER       -> {"browser_open", "browser_use", "browser_close"}

MakingTools == {"http_serve", "schedule_add", "tg_listen", "browser_open"}
Lookups == {"http_serve_stop", "schedule_remove", "tg_stop", "browser_use",
            "browser_close"}
Tool == MakingTools \cup Lookups \cup {"tg_inbox"}

ASSUME NullOK == NULL \notin Tool /\ NULL \notin Handle

VARIABLES
    up,        \* does the process run?
    session,   \* the clients with an open session
    call,      \* the call of each client the server works on
    reg,       \* the Maps: the handle under each key, NULL for none
    state,     \* what each handle is in the world
    keyOf,     \* the key each handle was registered under, NULL before
    sent,      \* per token: how many messages have been sent to it
    confirmed, \* per token: the last one Telegram will not deliver again
    got,       \* the messages each bot has received
    inbox,     \* per token: tgInbox, <<>> when there is none
    taken,     \* per token: what tg_inbox has handed out
    overtaken  \* tokens stopped while a stop of theirs was waiting

handleVars == <<reg, state, keyOf>>
pollVars   == <<sent, confirmed, got>>
tgVars     == <<pollVars, inbox, taken, overtaken>>
vars       == <<up, session, call, handleVars, tgVars>>

Idle == [tool |-> NULL, key |-> NULL, h |-> NULL]
Live == {"live", "closing"}
Unmade == {h \in Handle : state[h] = "none"}
Message == [bot : Handle, id : 1 .. MaxMessages]

(* A call that waits names the handle it waits for.                        *)
CallOK ==
    /\ call \in [Client -> [tool : Tool \cup {NULL}, key : Key \cup {NULL},
                           h : Handle \cup {NULL}]]
    /\ \A c \in Client : call[c] = Idle \/
          /\ call[c].key \in Key /\ call[c].tool \in Tools(call[c].key)
          /\ call[c].h \in {NULL} \cup (Handle \ Unmade)

HandlesOK ==
    /\ reg \in [Key -> Handle \cup {NULL}]
    /\ state \in [Handle -> Live \cup {"none", "gone"}]
    /\ keyOf \in [Handle -> Key \cup {NULL}]
    /\ \A h \in Handle : state[h] = "none" => keyOf[h] = NULL
    /\ \A k \in Key : reg[k] # NULL => keyOf[reg[k]] = k

TgOK ==
    /\ {sent, confirmed} \subseteq [Token -> 0 .. MaxMessages]
    /\ got \in [Handle -> SUBSET (1 .. MaxMessages)]
    /\ {inbox, taken} \subseteq [Token -> Seq(Message)]
    /\ \A t \in Token : Len(inbox[t]) <= InboxCap
    /\ overtaken \subseteq Token

TypeOK == up \in BOOLEAN /\ session \subseteq Client /\ CallOK /\ HandlesOK /\ TgOK

Init ==
    /\ up = TRUE
    /\ session = {}
    /\ call = [c \in Client |-> Idle]
    /\ reg = [k \in Key |-> NULL]
    /\ state = [h \in Handle |-> "none"]
    /\ keyOf = [h \in Handle |-> NULL]
    /\ sent = [t \in Token |-> 0]
    /\ confirmed = [t \in Token |-> 0]
    /\ got = [h \in Handle |-> {}]
    /\ inbox = [t \in Token |-> <<>>]
    /\ taken = [t \in Token |-> <<>>]
    /\ overtaken = {}

-----------------------------------------------------------------------------
(* The transport.                                                          *)

Connect(c) ==
    /\ up /\ c \notin session
    /\ session' = session \cup {c}
    /\ UNCHANGED <<up, call, handleVars, tgVars>>

Disconnect(c) ==
    /\ up /\ c \in session
    /\ session' = session \ {c}
    /\ UNCHANGED <<up, call, handleVars, tgVars>>

(* POST /message: 404 without an open session, else the handler starts.    *)
Making == {c \in Client : call[c].tool \in MakingTools /\ call[c].h = NULL}

Post(c, tool, k) ==
    /\ up /\ c \in session /\ call[c] = Idle /\ tool \in Tools(k)
    /\ tool \in MakingTools => Cardinality(Making) < Cardinality(Unmade)
    /\ call' = [call EXCEPT ![c] = [tool |-> tool, key |-> k, h |-> NULL]]
    /\ UNCHANGED <<up, session, handleVars, tgVars>>

(* The handler audits and answers, whether the tool returned or threw, and *)
(* whether the session is still there or not.                              *)
Starts(c, tool) == up /\ call[c].tool = tool /\ call[c].h = NULL
Waits(c, tool)  == up /\ call[c].tool = tool /\ call[c].h # NULL
End(C)          == call' = [c \in Client |-> IF c \in C THEN Idle ELSE call[c]]
Await(c, h)     == call' = [call EXCEPT ![c].h = h]
K(c)            == call[c].key

-----------------------------------------------------------------------------
(* Handles.                                                                *)

Fresh == Min(Unmade)

Becomes(h, s) == state' = [state EXCEPT ![h] = s]

Enter(k, h) ==
    /\ reg' = [reg EXCEPT ![k] = h]
    /\ keyOf' = [keyOf EXCEPT ![h] = k]

Make(k) == Unmade # {} /\ Becomes(Fresh, "live") /\ Enter(k, Fresh)

(* What the continuation of a stop does: the handle is gone, and the entry *)
(* of the key is deleted, whatever it is by now.                           *)
Drop(k, h) ==
    /\ Becomes(h, "gone")
    /\ reg' = [reg EXCEPT ![k] = NULL]
    /\ UNCHANGED keyOf

NotFound(c, tool) ==
    /\ Starts(c, tool) /\ reg[K(c)] = NULL
    /\ End({c})
    /\ UNCHANGED <<up, session, handleVars, tgVars>>

-----------------------------------------------------------------------------
(* Static file servers.                                                    *)

(* listen answers at once; when another process has the port, its 'error'  *)
(* event is nobody's and ends the process.                                 *)
HttpServe(c) ==
    /\ Starts(c, "http_serve")
    /\ End({c})
    /\ IF reg[K(c)] # NULL
          THEN UNCHANGED <<up, handleVars>>           \* "Port in use"
          ELSE Make(K(c)) /\ up' = (K(c) \notin Occupied)
    /\ UNCHANGED <<session, tgVars>>

HttpStopDeletesFirst(c) ==
    /\ Starts(c, "http_serve_stop") /\ reg[K(c)] # NULL
    /\ Becomes(reg[K(c)], "closing") /\ reg' = [reg EXCEPT ![K(c)] = NULL]
    /\ Await(c, reg[K(c)])
    /\ UNCHANGED <<up, session, keyOf, tgVars>>
HttpStop(c) ==
    /\ Starts(c, "http_serve_stop") /\ reg[K(c)] # NULL
    /\ Becomes(reg[K(c)], "closing")
    /\ Await(c, reg[K(c)])
    /\ UNCHANGED <<up, session, reg, keyOf, tgVars>>

(* The last connection has ended: every close callback of the server runs, *)
(* then every continuation, before any other call does.                    *)
StoppersOf(h) == {c \in Client : Waits(c, "http_serve_stop") /\ call[c].h = h}

HttpClosed(h) ==
    /\ StoppersOf(h) # {}
    /\ End(StoppersOf(h))
    /\ Drop(keyOf[h], h)
    /\ UNCHANGED <<up, session, tgVars>>

-----------------------------------------------------------------------------
(* Cron jobs.                                                              *)

ScheduleAdd(c) ==
    /\ Starts(c, "schedule_add")
    /\ Make(K(c))
    /\ End({c})
    /\ UNCHANGED <<up, session, tgVars>>

ScheduleRemoveKeepsEntry(c) ==
    /\ Starts(c, "schedule_remove") /\ reg[K(c)] # NULL
    /\ Becomes(reg[K(c)], "gone")
    /\ End({c})
    /\ UNCHANGED <<up, session, reg, keyOf, tgVars>>
ScheduleRemove(c) ==
    /\ Starts(c, "schedule_remove") /\ reg[K(c)] # NULL
    /\ Drop(K(c), reg[K(c)])
    /\ End({c})
    /\ UNCHANGED <<up, session, tgVars>>

-----------------------------------------------------------------------------
(* Telegram bots.                                                          *)

TgListenUnchecked(c) ==
    /\ Starts(c, "tg_listen")
    /\ Make(K(c))
    /\ inbox' = [inbox EXCEPT ![K(c)] = <<>>]
    /\ End({c})
    /\ UNCHANGED <<up, session, pollVars, taken, overtaken>>
TgListen(c) ==
    /\ Starts(c, "tg_listen")
    /\ End({c})
    /\ IF reg[K(c)] # NULL
          THEN UNCHANGED <<handleVars, inbox>>         \* "Already active"
          ELSE Make(K(c)) /\ inbox' = [inbox EXCEPT ![K(c)] = <<>>]
    /\ UNCHANGED <<up, session, pollVars, taken, overtaken>>

(* Telegram delivers what comes after the last update confirmed to it, and *)
(* the next getUpdates of a bot confirms what that bot has received: when  *)
(* no next one is sent, another bot of the token receives it again.        *)
Offset(h) == Max(got[h] \cup {0})
Polled(h, t) == up /\ keyOf[h] = t

TgGetUpdates(h, t) ==
    /\ Polled(h, t) /\ state[h] = "live" /\ Offset(h) > confirmed[t]
    /\ confirmed' = [confirmed EXCEPT ![t] = Offset(h)]
    /\ UNCHANGED <<up, session, call, handleVars, sent, got, inbox, taken, overtaken>>

(* A poll brings all there is.  The last poll of a bot that is stopping    *)
(* does so, too; its handler then finds no inbox and makes one.            *)
Batch(h, m, n) == [i \in 1 .. n - m |-> [bot |-> h, id |-> m + i]]
Uncapped(q) == q
KeepsOldest(q) == IF Len(q) > InboxCap THEN SubSeq(q, 1, InboxCap) ELSE q
Capped(q) == IF Len(q) > InboxCap THEN SubSeq(q, Len(q) - InboxCap + 1, Len(q)) ELSE q

TgUpdates(h, t) ==
    /\ Polled(h, t) /\ state[h] \in Live /\ Offset(h) <= confirmed[t]
    /\ \E n \in sent[t] .. MaxMessages :
          /\ n > confirmed[t]
          /\ sent' = [sent EXCEPT ![t] = n]
          /\ got' = [got EXCEPT ![h] = @ \cup confirmed[t] + 1 .. n]
          /\ inbox' = [inbox EXCEPT ![t] = Capped(@ \o Batch(h, confirmed[t], n))]
    /\ UNCHANGED <<up, session, call, handleVars, confirmed, taken, overtaken>>

TgInboxCopies(c) ==
    /\ Starts(c, "tg_inbox")
    /\ LET n == Min({InboxTake, Len(inbox[K(c)])})
       IN taken' = [taken EXCEPT ![K(c)] = @ \o SubSeq(inbox[K(c)], 1, n)]
    /\ End({c})
    /\ UNCHANGED <<up, session, handleVars, pollVars, inbox, overtaken>>
TgInbox(c) ==
    /\ Starts(c, "tg_inbox")
    /\ LET in == inbox[K(c)]
           n  == Min({InboxTake, Len(in)})
       IN /\ taken' = [taken EXCEPT ![K(c)] = @ \o SubSeq(in, 1, n)]
          /\ inbox' = [inbox EXCEPT ![K(c)] = SubSeq(in, n + 1, Len(in))]
    /\ End({c})
    /\ UNCHANGED <<up, session, handleVars, pollVars, overtaken>>

(* The first stop of a bot waits for its last poll.                        *)
TgStop(c) ==
    /\ Starts(c, "tg_stop") /\ reg[K(c)] # NULL /\ state[reg[K(c)]] = "live"
    /\ Becomes(reg[K(c)], "closing")
    /\ Await(c, reg[K(c)])
    /\ UNCHANGED <<up, session, reg, keyOf, tgVars>>

(* A second one finds no poll to wait for and deletes the entry at once,   *)
(* while the bot still polls.                                              *)
TgStopAgain(c) ==
    /\ Starts(c, "tg_stop") /\ reg[K(c)] # NULL /\ state[reg[K(c)]] = "closing"
    /\ reg' = [reg EXCEPT ![K(c)] = NULL]
    /\ overtaken' = overtaken \cup {K(c)}
    /\ inbox' = [inbox EXCEPT ![K(c)] = <<>>]
    /\ End({c})
    /\ UNCHANGED <<up, session, state, keyOf, pollVars, taken>>

TgStopped(c) ==
    /\ Waits(c, "tg_stop")
    /\ Drop(K(c), call[c].h)
    /\ inbox' = [inbox EXCEPT ![K(c)] = <<>>]
    /\ End({c})
    /\ UNCHANGED <<up, session, pollVars, taken, overtaken>>

-----------------------------------------------------------------------------
(* Browsers.                                                               *)

(* A browser is launched, or is not.                                       *)
BrowserLaunch(c) ==
    /\ Starts(c, "browser_open")
    /\ \/ End({c}) /\ UNCHANGED state
       \/ Unmade # {} /\ Becomes(Fresh, "live") /\ Await(c, Fresh)
    /\ UNCHANGED <<up, session, reg, keyOf, tgVars>>

(* It opens a page and is registered under the current millisecond, which  *)
(* is new unless another call came here in the same one; then the page     *)
(* goes to the url, if one is given.                                       *)
Opening(c) == Waits(c, "browser_open") /\ keyOf[call[c].h] = NULL
SameMs(k)  == \E d \in Client : Waits(d, "browser_open") /\ keyOf[call[d].h] = k

BrowserPage(c) ==
    /\ Opening(c)
    /\ \E k \in Sid : (k = call[c].h \/ SameMs(k)) /\ Enter(k, call[c].h)
    /\ End({c}) \/ UNCHANGED call
    /\ UNCHANGED <<up, session, state, tgVars>>

(* It opens no page: the call throws, and nothing knows of the browser.    *)
BrowserPageFails(c) ==
    /\ Opening(c)
    /\ End({c})
    /\ UNCHANGED <<up, session, handleVars, tgVars>>

(* goto has ended, well or not; the entry stays in both cases.             *)
BrowserAt(c) ==
    /\ Waits(c, "browser_open") /\ ~Opening(c)
    /\ End({c})
    /\ UNCHANGED <<up, session, handleVars, tgVars>>

(* browser_navigate, _click, _fill, _screenshot, _extract: they look the   *)
(* page up, then wait for it; a page that closes meanwhile rejects.        *)
BrowserUse(c) ==
    /\ Starts(c, "browser_use") /\ reg[K(c)] # NULL
    /\ Await(c, reg[K(c)])
    /\ UNCHANGED <<up, session, handleVars, tgVars>>

BrowserUsed(c) ==
    /\ Waits(c, "browser_use")
    /\ End({c})
    /\ UNCHANGED <<up, session, handleVars, tgVars>>

BrowserClose(c) ==
    /\ Starts(c, "browser_close") /\ reg[K(c)] # NULL
    /\ Becomes(reg[K(c)], "closing")
    /\ Await(c, reg[K(c)])
    /\ UNCHANGED <<up, session, reg, keyOf, tgVars>>

BrowserClosed(c) ==
    /\ Waits(c, "browser_close")
    /\ Drop(K(c), call[c].h)
    /\ End({c})
    /\ UNCHANGED <<up, session, tgVars>>

-----------------------------------------------------------------------------
CallStep(c) ==
    \/ \E tool \in Lookups : NotFound(c, tool)
    \/ HttpServe(c) \/ HttpStop(c)
    \/ ScheduleAdd(c) \/ ScheduleRemove(c)
    \/ TgListen(c) \/ TgInbox(c) \/ TgStop(c) \/ TgStopAgain(c) \/ TgStopped(c)
    \/ BrowserLaunch(c) \/ BrowserPage(c) \/ BrowserPageFails(c) \/ BrowserAt(c)
    \/ BrowserUse(c) \/ BrowserUsed(c) \/ BrowserClose(c) \/ BrowserClosed(c)

Next ==
    \/ \E c \in Client :
          \/ Connect(c) \/ Disconnect(c) \/ CallStep(c)
          \/ \E k \in Key : \E tool \in Tools(k) : Post(c, tool, k)
    \/ \E h \in Handle : HttpClosed(h)
    \/ \E h \in Handle, t \in Token : TgGetUpdates(h, t) \/ TgUpdates(h, t)

Spec == Init /\ [][Next]_vars

-----------------------------------------------------------------------------
(* Properties.                                                             *)

(* One server per port and one poller per token: the test of the Map and   *)
(* the entry are made in one turn, after the library has been loaded, so a *)
(* retry of a call whose answer was lost adds none.  Except that two stops *)
(* of one bot that overlap let a new one start beside it.  (http_serve,    *)
(* tg_listen)                                                              *)
OnePerKey ==
    \A g, h \in Handle :
        (keyOf[g] = keyOf[h] /\ {state[g], state[h]} \subseteq Live /\ g # h) =>
            keyOf[h] \notin Port \cup (Token \ overtaken)

(* What a port or a token runs can be stopped until it has ended, however  *)
(* stops and new starts of it overlap: its entry is there and names it,    *)
(* also while a stop waits.  Except, again, the bots of two stops at once. *)
(* (http_serve, http_serve_stop, tg_listen, tg_stop)                       *)
Reachable ==
    \A h \in Handle :
        (state[h] \in Live /\ keyOf[h] \in Port \cup (Token \ overtaken)) =>
            reg[keyOf[h]] = h

(* A registered handle runs, or a call is on its way to delete the entry:  *)
(* no entry blocks its key for good.                                       *)
EntriesAlive ==
    \A k \in Key : reg[k] # NULL =>
        \/ state[reg[k]] = "live"
        \/ state[reg[k]] = "closing" /\ \E c \in Client : call[c].h = reg[k]

(* What one bot received is handed out at most once and in the order it    *)
(* came, whatever calls of tg_inbox interleave with polls, stops and other *)
(* bots of the token.  Another bot may receive the same again.             *)
(* (tg_listen, tg_inbox)                                                   *)
InboxOrdered ==
    \A t \in Token :
        LET all == taken[t] \o inbox[t]
        IN \A i, j \in DOMAIN all :
              i < j /\ all[i].bot = all[j].bot => all[i].id < all[j].id

(* Telegram forgets what a bot has confirmed, so the server must not: of   *)
(* what the bot of a token has received, the newest InboxCap messages have *)
(* been handed out or wait in the inbox.  Except that a stop that resumes  *)
(* late deletes the inbox of the bot after it.  (tg_listen, tg_stop)       *)
Newest(h) ==
    {n \in got[h] : Cardinality({m \in got[h] : m > n}) < InboxCap}
InboxKeepsNewest ==
    \A t \in Token \ overtaken : reg[t] # NULL =>
        \A n \in Newest(reg[t]) :
            [bot |-> reg[t], id |-> n] \in ToSet(taken[t] \o inbox[t])

(* What runs can be stopped by its key, or a call is at work on it.  It    *)
(* does not hold.  (schedule_remove, tg_stop, browser_close)               *)
AllReachable ==
    \A h \in Handle : state[h] = "live" =>
        \/ keyOf[h] # NULL /\ reg[keyOf[h]] = h
        \/ \E c \in Client : call[c].h = h

(* A poller can be stopped by its token.  It does not hold.  (tg_stop)     *)
BotsReachable ==
    \A h \in Handle : (keyOf[h] \in Token /\ state[h] = "live") => reg[keyOf[h]] = h

(* "Clears after read": no message is handed out twice.  It does not hold. *)
(* (tg_inbox)                                                              *)
HandedOutOnce ==
    \A t \in Token : \A i, j \in DOMAIN taken[t] :
        i # j => taken[t][i].id # taken[t][j].id
=============================================================================
