------------------------------ MODULE SqlStore ------------------------------
(***************************************************************************)
(* The SQLite store mcp-data.db of the MCP servers.  sql.js keeps a whole  *)
(* database in memory; getDb opens it on first use, saveDb exports the     *)
(* whole image over the file.  Both servers run in one directory, so they  *)
(* have one file and two images of it.                                     *)
(*                                                                         *)
(* getDb is asynchronous: it tests sqlDb, awaits the sql.js module, then   *)
(* opens the file and assigns sqlDb.  Calls that arrive before the module  *)
(* is ready all pass the test.  When it is ready their continuations run   *)
(* one after the other in one flush of the microtask queue, and only then  *)
(* do their callers go on, each with the database it opened itself.        *)
(*                                                                         *)
(* A database is the set of rows db_exec has put in it.  An opened one is  *)
(* named after the caller whose continuation opened it.  An empty file is  *)
(* an empty database, so a file truncated by writeFileSync reads as {}.    *)
(***************************************************************************)
EXTENDS Sequences, SequencesExt, FiniteSets

CONSTANTS
    Server,        \* the MCP server processes
    Row,           \* a row, and the db_exec (or STORE pass) that inserts it
    Query,         \* the calls that only read: db_query, db_tables, ...
    NULL,          \* no database, no file, nothing to write
    EarlyClients,  \* may clients call before the boot's getDb has returned?
    Kills          \* can a process die while it writes the file?

ASSUME SqlConstantsOK ==
    /\ NULL \notin Server \cup Row \cup Query
    /\ \A R \in SUBSET Row : R # NULL
    /\ Row \cap Query = {} /\ Row \cap Server = {} /\ Query \cap Server = {}
    /\ {EarlyClients, Kills} \subseteq BOOLEAN

Client == Row \cup Query
Caller == Client \cup Server      \* a server's own call is the one at boot

VARIABLES
    file,     \* the rows in mcp-data.db, NULL when there is no file
    sqlDb,    \* the database each server uses, NULL before it is opened
    image,    \* the rows of each database opened
    waiting,  \* per server: the calls of getDb that await the sql.js module
    at,       \* the server each call was made to, NULL before it is made
    handle,   \* the database getDb returned to each call, NULL before
    writing,  \* the image saveDb is writing over the truncated file, or NULL
    running,  \* the servers that run
    acked,    \* the rows whose db_exec has returned ok
    late,     \* the calls that found a database open
    torn      \* has a kill ever left the file truncated?

procVars == <<sqlDb, image, waiting, at, handle, writing, running>>
histVars == <<acked, late, torn>>
vars     == <<file, procVars, histVars>>

TypeOK ==
    /\ file \in {NULL} \cup SUBSET Row
    /\ sqlDb \in [Server -> Caller \cup {NULL}]
    /\ image \in [Caller -> SUBSET Row]
    /\ waiting \in [Server -> Seq(Caller)]
    /\ \A s \in Server : IsInjective(waiting[s])
    /\ at \in [Client -> Server \cup {NULL}]
    /\ handle \in [Caller -> Caller \cup {NULL}]
    /\ writing \in [Server -> {NULL} \cup SUBSET Row]
    /\ running \subseteq Server
    /\ acked \subseteq Row
    /\ late \subseteq Client
    /\ torn \in BOOLEAN

Init ==
    /\ file = NULL
    /\ sqlDb = [s \in Server |-> NULL]
    /\ image = [c \in Caller |-> {}]
    /\ waiting = [s \in Server |-> <<>>]
    /\ at = [c \in Client |-> NULL]
    /\ handle = [c \in Caller |-> NULL]
    /\ writing = [s \in Server |-> NULL]
    /\ running = {}
    /\ acked = {}
    /\ late = {}
    /\ torn = FALSE

-----------------------------------------------------------------------------
\* the calls of s that have their database and are about to use it
Resuming(s) ==
    {c \in Caller : handle[c] # NULL /\ (c = s \/ (c \in Client /\ at[c] = s))}

(* No write in progress and no microtask left: the server takes its next   *)
(* event, a request or a signal.                                           *)
Quiet(s) ==
    /\ s \in running
    /\ writing[s] = NULL
    /\ Resuming(s) = {}
    /\ waiting[s] # <<>> => sqlDb[s] = NULL

(* The process starts, and its boot calls getDb before any request.        *)
Start(s) ==
    /\ s \notin running
    /\ running' = running \cup {s}
    /\ waiting' = [waiting EXCEPT ![s] = <<s>>]
    /\ UNCHANGED <<file, sqlDb, image, at, handle, writing, histVars>>

(* A tool call reaches getDb: the open database, or a wait for the module. *)
CallGetDb(s, c) ==
    /\ Quiet(s)
    /\ EarlyClients \/ sqlDb[s] # NULL
    /\ at[c] = NULL
    /\ at' = [at EXCEPT ![c] = s]
    /\ IF sqlDb[s] = NULL
       THEN waiting' = [waiting EXCEPT ![s] = Append(@, c)] /\ UNCHANGED handle
       ELSE handle' = [handle EXCEPT ![c] = sqlDb[s]] /\ UNCHANGED waiting
    /\ late' = IF sqlDb[s] = NULL THEN late ELSE late \cup {c}
    /\ UNCHANGED <<file, sqlDb, image, writing, running, acked, torn>>

\* the rows an opening of the file would find
Stored == IF file = NULL THEN {} ELSE file

\* mutant: the existing file is not read
OpensEmpty == {}

\* new SQL.Database(the file's bytes), or an empty database without a file
Opens == Stored

(* The continuation of the longest waiting getDb: it opens a database of   *)
(* its own and makes it the server's.                                      *)
OpenNext(s) ==
    /\ s \in running
    /\ writing[s] = NULL
    /\ waiting[s] # <<>>
    /\ LET c == Head(waiting[s]) IN
       /\ image' = [image EXCEPT ![c] = Opens]
       /\ sqlDb' = [sqlDb EXCEPT ![s] = c]
       /\ handle' = [handle EXCEPT ![c] = c]
    /\ waiting' = [waiting EXCEPT ![s] = Tail(@)]
    /\ UNCHANGED <<file, at, writing, running, histVars>>

\* c goes on, once every continuation queued before it has run
Resumes(s, c) ==
    /\ s \in running
    /\ writing[s] = NULL
    /\ waiting[s] = <<>>
    /\ c \in Resuming(s)

(* The boot has its database and goes on to probe the environment.         *)
BootGoesOn(s) ==
    /\ Resumes(s, s)
    /\ handle' = [handle EXCEPT ![s] = NULL]
    /\ UNCHANGED <<file, sqlDb, image, waiting, at, writing, running, histVars>>

(* A query answers from the database it was given.                         *)
Answer(s, q) ==
    /\ Resumes(s, q)
    /\ handle' = [handle EXCEPT ![q] = NULL]
    /\ UNCHANGED <<file, sqlDb, image, waiting, at, writing, running, histVars>>

\* mutant: the image is exported before the statement runs
SavedBefore(s, r) == image[sqlDb[s]]

\* sqlDb.export(), after the statement ran on the caller's own database
Saved(s, r) == image'[sqlDb[s]]

(* db_exec runs its statement on the database it was given, then saveDb    *)
(* exports the server's database, truncating the file first.               *)
Exec(s, r) ==
    /\ Resumes(s, r)
    /\ image' = [image EXCEPT ![handle[r]] = @ \cup {r}]
    /\ writing' = [writing EXCEPT ![s] = Saved(s, r)]
    /\ file' = {}
    /\ UNCHANGED <<sqlDb, waiting, at, handle, running, histVars>>

(* The bytes are written and db_exec returns ok.                           *)
ExecWritten(s, r) ==
    /\ writing[s] # NULL
    /\ r \in Resuming(s) /\ r \in image[handle[r]]
    /\ file' = writing[s]
    /\ writing' = [writing EXCEPT ![s] = NULL]
    /\ handle' = [handle EXCEPT ![r] = NULL]
    /\ acked' = acked \cup {r}
    /\ UNCHANGED <<sqlDb, image, waiting, at, running, late, torn>>

\* the calls in flight on s fail with the process, its databases are gone
Gone(s) ==
    /\ running' = running \ {s}
    /\ sqlDb' = [sqlDb EXCEPT ![s] = NULL]
    /\ waiting' = [waiting EXCEPT ![s] = <<>>]
    /\ writing' = [writing EXCEPT ![s] = NULL]
    /\ handle' = [c \in Caller |-> IF c \in Resuming(s) THEN NULL ELSE handle[c]]

(* SIGINT or SIGTERM: saveDb, if a database is open, and exit.  The write  *)
(* at exit is one step: nothing the server does comes after it.            *)
Exit(s) ==
    /\ Quiet(s)
    /\ Gone(s)
    /\ file' = IF sqlDb[s] = NULL THEN file ELSE image[sqlDb[s]]
    /\ UNCHANGED <<image, at, histVars>>

(* A kill while the file is truncated.                                     *)
Kill(s) ==
    /\ Kills
    /\ writing[s] # NULL
    /\ Gone(s)
    /\ torn' = TRUE
    /\ UNCHANGED <<file, image, at, acked, late>>

ServerStep(s) ==
    \/ Start(s)
    \/ \E c \in Client : CallGetDb(s, c)
    \/ OpenNext(s)
    \/ BootGoesOn(s)
    \/ \E q \in Query : Answer(s, q)
    \/ \E r \in Row : Exec(s, r) \/ ExecWritten(s, r)
    \/ Exit(s)
    \/ Kill(s)

Next == \E s \in Server : ServerStep(s)

Spec == Init /\ [][Next]_vars

-----------------------------------------------------------------------------
AllWritten == \A s \in Server : writing[s] = NULL

(* What a server answers from is what its next start will load: between    *)
(* two writes the image it has open is the image in the file -- also after *)
(* racing first calls.  It takes a server that has the file to itself.     *)
StoreCoherent ==
    AllWritten => \A s \in Server : sqlDb[s] # NULL => image[sqlDb[s]] = Stored

(* No row is lost whose db_exec was called with a database open, unless    *)
(* a kill left the file truncated: only racing first calls lose rows.      *)
LateRowsStored == AllWritten /\ ~torn => acked \cap late \subseteq Stored

(* A query that finds a database open sees every such row, from the moment *)
(* its db_exec has returned.                                               *)
LateQueriesSeeRows ==
    [][\A s \in Server, q \in Query \cap late :
         Answer(s, q) /\ ~torn => acked \cap late \subseteq image[handle[q]]]_vars

-----------------------------------------------------------------------------
(* server.js:2346, "SQLite SELECT. Persistent across restarts.": between   *)
(* two writes the file holds every row whose db_exec returned ok.          *)
AckedStored == AllWritten => acked \subseteq Stored
=============================================================================
