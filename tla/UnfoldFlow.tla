----------------------------- MODULE UnfoldFlow -----------------------------
(***************************************************************************)
(* unfold: the primary tool of the MCP servers.  It looks for signals in   *)
(* the text of a task, chooses a sequence of passes from them, and runs    *)
(* the passes one after the other over a flow state: the data and the path *)
(* one pass leaves are what the next one works on.  A pass that throws, or *)
(* returns an error, ends the sequence with a RESPOND.                     *)
(*                                                                         *)
(* Flows of several calls interleave between passes and share the file     *)
(* system: downloads are named by the last part of their url, scripts by   *)
(* the millisecond.  A shell command that fails is no error of its pass.   *)
(*                                                                         *)
(* A task is what the regular expressions find in it.  A content is what   *)
(* it is and the flows whose tasks it comes from.  The rows of the table   *)
(* flow_store count as files.                                              *)
(***************************************************************************)
EXTENDS Naturals, Sequences, SequencesExt, FiniteSets

CONSTANTS
    Flow,      \* calls of unfold
    Task,      \* the tasks they may be given
    File,      \* the names of files in urls, without extension
    NULL,
    SameMs     \* may two flows name scripts, notes or outputs in one millisecond?

Signal == {"url", "download", "file_read", "file_ref", "audio", "video",
           "transcribe", "convert", "code", "shell", "save", "recall", "db",
           "notes", "browse", "search", "notify", "multi_step"}
Word   == {"transcri", "command", "block", "python", "path", "literal", "note",
           "remember", "sql", "readpath", "memory"}

ASSUME UnfoldConstantsOK ==
    /\ NULL \notin Flow \cup File /\ NULL \notin Task /\ SameMs \in BOOLEAN
    /\ File \cap {"named", "note", "out", "row"} = {}     \* the kinds of paths differ
    /\ \A t \in Task : /\ t.signals \subseteq Signal /\ t.words \subseteq Word
                       /\ t.file \in File \cup {NULL}
                       /\ t.file # NULL => "url" \in t.signals
                       /\ "transcri" \in t.words => "transcribe" \in t.signals
                       /\ "block" \in t.words => "command" \in t.words

PASS == {"FETCH", "SHELL", "CODE", "TRANSFORM", "STORE", "RECALL", "BROWSE",
         "NOTIFY", "RESPOND"}

-----------------------------------------------------------------------------
(* selectPassSequence: the first strategy whose condition holds.           *)

Optional(cond, x) == IF cond THEN <<x>> ELSE <<>>

Strategies(S) ==
    LET has(x) == x \in S IN
    << [when   |-> has("download") /\ has("audio") /\ has("transcribe"),
        passes |-> <<"FETCH", "TRANSFORM", "TRANSFORM", "STORE", "RESPOND">>,
        hints  |-> <<"download", "ffmpeg", "whisper", "notes_write", "summary">>],
       [when   |-> has("download") /\ (has("audio") \/ has("video") \/ has("convert")),
        passes |-> <<"FETCH", "TRANSFORM", "STORE", "RESPOND">>,
        hints  |-> <<"download", "ffmpeg", "save", "summary">>],
       [when   |-> has("browse") \/ has("search"),
        passes |-> <<"BROWSE">> \o Optional(has("save"), "STORE") \o <<"RESPOND">>,
        hints  |-> <<"playwright">> \o Optional(has("save"), "save") \o <<"summary">>],
       [when   |-> has("url") /\ has("save"),
        passes |-> <<"FETCH", "CODE", "STORE", "RESPOND">>,
        hints  |-> <<"web_fetch", "parse", "save", "summary">>],
       [when   |-> has("url") /\ ~has("convert"),
        passes |-> <<"FETCH", "RESPOND">>,
        hints  |-> <<"web_fetch", "summary">>],
       [when   |-> (has("code") \/ has("shell")) /\ has("save"),
        passes |-> <<"CODE", "STORE", "RESPOND">>,
        hints  |-> <<"compute", "save", "summary">>],
       [when   |-> has("shell") /\ has("multi_step"),
        passes |-> <<"SHELL", "SHELL", "RESPOND">>,
        hints  |-> <<"step1", "step2", "report">>],
       [when   |-> has("shell") \/ has("code"),
        passes |-> <<"SHELL", "RESPOND">>,
        hints  |-> <<"execute", "result">>],
       [when   |-> has("save") /\ (has("recall") \/ has("file_read")),
        passes |-> <<"STORE", "RECALL", "RESPOND">>,
        hints  |-> <<"fs_write", "fs_read", "present">>],
       [when   |-> has("recall") \/ has("db") \/ has("notes"),
        passes |-> <<"RECALL">> \o Optional(has("code"), "CODE") \o <<"RESPOND">>,
        hints  |-> <<"retrieve">> \o Optional(has("code"), "process") \o <<"respond">>],
       [when   |-> has("file_read") \/ has("file_ref"),
        passes |-> <<"RECALL", "RESPOND">>,
        hints  |-> <<"fs_read", "present">>],
       [when   |-> has("notify"),
        passes |-> Optional(has("url"), "FETCH") \o Optional(has("shell"), "SHELL")
                      \o <<"NOTIFY", "RESPOND">>,
        hints  |-> Optional(has("url"), "fetch") \o Optional(has("shell"), "shell")
                      \o <<"notify", "respond">>],
       [when   |-> TRUE,
        passes |-> <<"RESPOND">>,
        hints  |-> <<"direct_response">>] >>

selectPassSequence(S) ==
    LET rows == Strategies(S)
    IN rows[CHOOSE i \in DOMAIN rows :
               rows[i].when /\ \A j \in 1 .. i - 1 : ~rows[j].when]

-----------------------------------------------------------------------------
VARIABLES
    task,      \* the task of each flow, NULL before the call
    plan,      \* the strategy chosen for it
    pc,        \* "idle", "run", "code" inside a CODE pass, "respond", "done"
    next,      \* the index of the pass to run
    st,        \* the flow state
    log,       \* the results: the pass and whether it is an error
    failed,    \* per flow: the commands that have failed
    files,     \* what the files hold
    script     \* the temporary script of each CODE pass that runs

vars == <<task, plan, pc, next, st, log, failed, files, script>>

Ext  == {"bin", "wav", "txt"}
NAMED == <<"named", "file">>          \* the file a task names
Path == (File \X Ext) \cup {NAMED} \cup ({"note", "out", "row"} \X Flow)

What    == {"page", "name", "media", "wav", "transcript", "output", "listing",
            "literal"}
Content == [what : What, of : SUBSET Flow, from : Ext \cup {NULL}]
Of(f, what) == [what |-> what, of |-> {f}, from |-> NULL]

State == [data : Content \cup {NULL}, type : {"text", "binary_path", "json"},
          path : Path \cup {NULL}]

newFlowState == [data |-> NULL, type |-> "text", path |-> NULL]

ASSUME NullOK == NULL \notin Content /\ NULL \notin Path

TypeOK ==
    /\ task \in [Flow -> Task \cup {NULL}]
    /\ plan = [f \in Flow |-> IF task[f] = NULL THEN NULL
                              ELSE selectPassSequence(task[f].signals)]
    /\ pc \in [Flow -> {"idle", "run", "code", "respond", "done"}]
    /\ next \in [Flow -> 1 .. 5]
    /\ st \in [Flow -> State]
    /\ log \in [Flow -> Seq([pass : PASS, error : BOOLEAN])]
    /\ failed \in [Flow -> SUBSET {"curl", "ffmpeg", "other"}]
    /\ files \in [Path -> Content \cup {NULL}]
    /\ script \in [Flow -> Flow \cup {NULL}]
    /\ \A f \in Flow :
          /\ pc[f] = "idle" <=> task[f] = NULL
          /\ task[f] # NULL =>
                plan[f].passes \in Seq(PASS) /\ Len(plan[f].hints) = Len(plan[f].passes)
          /\ pc[f] = "run" => Len(log[f]) = next[f] - 1

Init ==
    /\ task = [f \in Flow |-> NULL]
    /\ plan = [f \in Flow |-> NULL]
    /\ pc = [f \in Flow |-> "idle"]
    /\ next = [f \in Flow |-> 1]
    /\ st = [f \in Flow |-> newFlowState]
    /\ log = [f \in Flow |-> <<>>]
    /\ failed = [f \in Flow |-> {}]
    /\ files = [p \in Path |-> NULL]
    /\ script = [f \in Flow |-> NULL]

Has(f, w)   == w \in task[f].words
At(f, pass) == pc[f] = "run" /\ plan[f].passes[next[f]] = pass
Hint(f)     == plan[f].hints[next[f]]

Unfold(f) ==
    /\ pc[f] = "idle"
    /\ \E t \in Task : /\ task' = [task EXCEPT ![f] = t]
                       /\ plan' = [plan EXCEPT ![f] = selectPassSequence(t.signals)]
    /\ pc' = [pc EXCEPT ![f] = "run"]
    /\ UNCHANGED <<next, st, log, failed, files, script>>

-----------------------------------------------------------------------------
(* What the loop does with the result of a pass.                           *)

Logged(f, pass, error) ==
    log' = [log EXCEPT ![f] = Append(@, [pass |-> pass, error |-> error])]
Step(f) == next' = [next EXCEPT ![f] = @ + 1] /\ pc' = [pc EXCEPT ![f] = "run"]

Result(f, pass) == Logged(f, pass, FALSE) /\ Step(f) /\ UNCHANGED <<task, plan>>
Noop(f, pass)   == Result(f, pass) /\ UNCHANGED <<st, failed, files, script>>

FailsOn(f, pass) ==
    Logged(f, pass, TRUE) /\ Step(f) /\ UNCHANGED <<task, plan, st, failed, files, script>>
Fails(f, pass) ==
    /\ Logged(f, pass, TRUE)
    /\ pc' = [pc EXCEPT ![f] = "respond"]
    /\ UNCHANGED <<task, plan, next, st, failed, files, script>>

(* shellExec never rejects: a failure is an exit code among the results.   *)
(* But it throws for a command the system does not take, one that is too   *)
(* long or has a NUL in it.                                                *)
Works == UNCHANGED failed
Breaks(f, command) == failed' = [failed EXCEPT ![f] = @ \cup {command}]

Carries(f, data, type, path) ==
    st' = [st EXCEPT ![f] = [data |-> data, type |-> type, path |-> path]]
Writes(p, content) == files' = [files EXCEPT ![p] = content]

-----------------------------------------------------------------------------
(* passFetch.  (Its reading of a file is for a hint no strategy gives.)    *)

FetchFixed(f) ==
    /\ At(f, "FETCH") /\ task[f].file # NULL
    /\ LET dest == <<CHOOSE x \in File : TRUE, "bin">>
       IN /\ Works /\ Writes(dest, Of(f, "media"))
          /\ Carries(f, Of(f, "name"), "binary_path", dest)
    /\ Result(f, "FETCH") /\ UNCHANGED script

FetchBinary(f) ==
    /\ At(f, "FETCH") /\ task[f].file # NULL
    /\ LET dest == <<task[f].file, "bin">>
       IN \/ /\ \/ Works /\ Writes(dest, Of(f, "media"))
                \/ Breaks(f, "curl") /\ UNCHANGED files
             /\ Carries(f, Of(f, "name"), "binary_path", dest)
             /\ Result(f, "FETCH") /\ UNCHANGED script
          \/ Fails(f, "FETCH")

FetchText(f) ==
    /\ At(f, "FETCH") /\ task[f].file = NULL /\ "url" \in task[f].signals
    /\ \/ /\ Carries(f, Of(f, "page"), "text", st[f].path)
          /\ Result(f, "FETCH") /\ UNCHANGED <<failed, files, script>>
       \/ Fails(f, "FETCH")

FetchNothing(f) ==
    At(f, "FETCH") /\ "url" \notin task[f].signals /\ Noop(f, "FETCH")

(* passShell: the command is what extractShellCommand finds in the task.   *)
Shell(f) ==
    /\ At(f, "SHELL")
    /\ \/ ~Has(f, "command") /\ Noop(f, "SHELL")
       \/ /\ Has(f, "command")
          /\ Works \/ Breaks(f, "other")
          /\ \/ Carries(f, Of(f, "output"), "text", st[f].path)
             \/ UNCHANGED st                               \* nothing on stdout
          /\ Result(f, "SHELL") /\ UNCHANGED <<files, script>>
       \/ Has(f, "command") /\ Fails(f, "SHELL")

(* passTransform: the word in the task comes before the hint.  The last    *)
(* branch, a shell command, is for a hint no strategy gives.               *)
Whispers(f) == Hint(f) = "whisper" \/ Has(f, "transcri")

TransformWithout(f) ==
    /\ At(f, "TRANSFORM") /\ st[f].path = NULL
    /\ IF Whispers(f) THEN st[f].data = NULL ELSE st[f].type # "binary_path"
    /\ Fails(f, "TRANSFORM")

(* The data is a text, and taken for the name of a file, that is not there. *)
WhisperText(f) ==
    /\ At(f, "TRANSFORM") /\ Whispers(f) /\ st[f].path = NULL /\ st[f].data # NULL
    /\ \/ /\ Breaks(f, "other") /\ Result(f, "TRANSFORM")
          /\ UNCHANGED <<st, files, script>>
       \/ Fails(f, "TRANSFORM")

Sound(p) == files[p] # NULL /\ files[p].what \in {"media", "wav"}

(* If the transcript is there after the command, it is the data, whether   *)
(* this command has written it or not.                                     *)
WhisperUnchecked(f) ==
    /\ At(f, "TRANSFORM") /\ Whispers(f) /\ st[f].path # NULL
    /\ LET txt == <<st[f].path[1], "txt">>
       IN /\ Breaks(f, "other") /\ UNCHANGED files
          /\ Carries(f, Of(f, "transcript"), "text", txt)
    /\ Result(f, "TRANSFORM") /\ UNCHANGED script
Whisper(f) ==
    /\ At(f, "TRANSFORM") /\ Whispers(f) /\ st[f].path # NULL
    /\ LET in  == st[f].path
           txt == <<in[1], "txt">>
       IN /\ \/ /\ Sound(in)
                /\ Works
                /\ Writes(txt, [what |-> "transcript", of |-> files[in].of, from |-> in[2]])
             \/ Breaks(f, "other") /\ UNCHANGED files
          /\ IF files'[txt] # NULL
                THEN Carries(f, files'[txt], "text", txt)
                ELSE UNCHANGED st
    /\ Result(f, "TRANSFORM") /\ UNCHANGED script

(* The name of the output is carried on, whether ffmpeg has written it or  *)
(* not.  (It does not convert a file to itself.)                           *)
Ffmpeg(f) ==
    /\ At(f, "TRANSFORM") /\ ~Whispers(f) /\ st[f].path # NULL
    /\ LET in == st[f].path
           out == <<in[1], "wav">>
       IN /\ \/ /\ Sound(in) /\ in # out
                /\ Works
                /\ Writes(out, [what |-> "wav", of |-> files[in].of, from |-> NULL])
             \/ Breaks(f, "ffmpeg") /\ UNCHANGED files
          /\ Carries(f, Of(f, "name"), "binary_path", out)
    /\ Result(f, "TRANSFORM") /\ UNCHANGED script

(* passCode: a block of the task, or a script made for text data.  It is   *)
(* written, then run by its name, which is that of another flow's script   *)
(* when both were written in one millisecond: the later one is run.        *)
HasCode(f) == Has(f, "block") \/ (Has(f, "python") /\ st[f].type = "text")

CodeWrites(f) ==
    /\ At(f, "CODE")
    /\ \/ ~HasCode(f) /\ Noop(f, "CODE")
       \/ /\ HasCode(f)
          /\ \/ script' = [script EXCEPT ![f] = f]
             \/ \E g \in Flow \ {f} :
                   /\ SameMs /\ pc[g] = "code"
                   /\ script' = [script EXCEPT ![f] = f, ![g] = f]
          /\ pc' = [pc EXCEPT ![f] = "code"]
          /\ UNCHANGED <<task, plan, next, st, log, failed, files>>

CodeRuns(f) ==
    /\ pc[f] = "code"
    /\ Works \/ Breaks(f, "other")
    /\ \/ Carries(f, Of(script[f], "output"), "text", st[f].path)
       \/ UNCHANGED st
    /\ script' = [script EXCEPT ![f] = NULL]
    /\ Result(f, "CODE") /\ UNCHANGED files

(* passStore: nothing to store, unless the task quotes it; then a note, a  *)
(* row, or a file, named by the task or by the millisecond g stores in.    *)
ToStore(f) == IF st[f].data # NULL THEN st[f].data ELSE Of(f, "literal")
Target(f, g) == IF Has(f, "note") \/ Has(f, "remember") THEN <<"note", g>>
                ELSE IF Has(f, "path") THEN NAMED ELSE <<"out", g>>
InDb(f)    == Has(f, "sql") /\ ~Has(f, "note") /\ ~Has(f, "remember")
Named(f)   == {g \in Flow : g = f \/ (SameMs /\ task[g] # NULL)}

Store(f) ==
    /\ At(f, "STORE")
    /\ \/ st[f].data = NULL /\ ~Has(f, "literal") /\ Noop(f, "STORE")
       \/ /\ st[f].data # NULL \/ Has(f, "literal")
          /\ LET type == IF st[f].data = NULL THEN "text" ELSE st[f].type
             IN IF InDb(f)
                   THEN /\ Carries(f, ToStore(f), type, st[f].path)
                        /\ Writes(<<"row", f>>, ToStore(f))
                   ELSE \E g \in Named(f) :
                           /\ Carries(f, ToStore(f), type, Target(f, g))
                           /\ Writes(Target(f, g), ToStore(f))
          /\ Result(f, "STORE") /\ UNCHANGED <<failed, script>>
       \/ Fails(f, "STORE")                                \* a write that throws

(* passRecall: a file that is there, else all the notes, the rows a query  *)
(* selects, or a key of memory, which no flow writes.  Notes and rows are  *)
(* those of every flow.                                                    *)
Source(f) == IF Has(f, "readpath") THEN NAMED ELSE st[f].path

There(f)  == ~(Source(f) = NULL \/ files[Source(f)] = NULL)
Stored(k) == UNION {files[<<k, g>>].of : g \in {h \in Flow : files[<<k, h>>] # NULL}}

Listing(f, flows) ==
    Carries(f, [what |-> "listing", of |-> flows, from |-> NULL], "json", st[f].path)

Recall(f) ==
    /\ At(f, "RECALL")
    /\ LET in == task[f].words \cap {"note", "sql", "memory"} IN
       \/ /\ \/ There(f) /\ Carries(f, files[Source(f)], "text", Source(f))
             \/ ~There(f) /\ "note" \in in /\ Listing(f, Stored("note"))
             \/ /\ ~There(f) /\ "sql" \in in /\ "note" \notin in
                /\ \E those \in SUBSET Stored("row") : Listing(f, those)
             \/ /\ ~There(f) /\ in = {"memory"}
                /\ Listing(f, {}) \/ Carries(f, NULL, "json", st[f].path)
          /\ Result(f, "RECALL") /\ UNCHANGED <<failed, files, script>>
       \/ (There(f) \/ in \cap {"note", "sql"} # {}) /\ Fails(f, "RECALL")
       \/ ~There(f) /\ in = {} /\ Noop(f, "RECALL")

(* passBrowse: the browser it opens is never closed.                       *)
Browse(f) ==
    /\ At(f, "BROWSE")
    /\ \/ /\ Carries(f, Of(f, "page"), "text", st[f].path)
          /\ Result(f, "BROWSE") /\ UNCHANGED <<failed, files, script>>
       \/ Fails(f, "BROWSE")

(* passNotify: Telegram and email throw when they fail; a notification of  *)
(* the desktop says so in its result.                                      *)
Notify(f) ==
    /\ At(f, "NOTIFY")
    /\ Noop(f, "NOTIFY") \/ Fails(f, "NOTIFY")

(* The RESPOND of the sequence ends it; after an error one is injected,    *)
(* and counted nowhere.                                                    *)
Respond(f) ==
    /\ At(f, "RESPOND") \/ pc[f] = "respond"
    /\ Logged(f, "RESPOND", FALSE)
    /\ pc' = [pc EXCEPT ![f] = "done"]
    /\ UNCHANGED <<task, plan, next, st, failed, files, script>>

-----------------------------------------------------------------------------
Pass(f) ==
    \/ FetchBinary(f) \/ FetchText(f) \/ FetchNothing(f) \/ Shell(f)
    \/ TransformWithout(f) \/ WhisperText(f) \/ Whisper(f) \/ Ffmpeg(f)
    \/ CodeWrites(f) \/ CodeRuns(f) \/ Store(f) \/ Recall(f) \/ Browse(f)
    \/ Notify(f) \/ Respond(f)

Next == \E f \in Flow : Unfold(f) \/ Pass(f)

Spec     == Init /\ [][Next]_vars
FairSpec == Spec /\ \A f \in Flow : WF_vars(Pass(f))

-----------------------------------------------------------------------------
(* Properties.                                                             *)

(* An error ends the work: the only pass after one is RESPOND, and every   *)
(* flow that ends has responded once, last.  (the loop of unfold)          *)
RespondsOnce ==
    \A f \in Flow : LET n == Len(log[f]) IN
        /\ \A i \in 1 .. n : log[f][i].error =>
              (i = n /\ pc[f] = "respond") \/ (i = n - 1 /\ pc[f] = "done")
        /\ \A i \in 1 .. n : log[f][i].pass = "RESPOND" <=> (i = n /\ pc[f] = "done")

(* What is written for all to read: a task that names a path may read the  *)
(* file at it, one that recalls notes or rows lists those of every flow.   *)
ReadsPath(f) == task[f].words \cap {"path", "readpath"} # {}
Lists(f) ==
    /\ task[f].words \cap {"note", "sql"} # {}
    /\ "RECALL" \in ToSet(selectPassSequence(task[f].signals).passes)

(* A flow answers with data of its own task, however flows interleave and  *)
(* fail, unless its task names a file that the other one names, too, or    *)
(* reads what is written for all.                                          *)
(* (passFetch, passTransform, passCode, passStore, passRecall)             *)
OwnData ==
    \A f, g \in Flow : (st[f].data # NULL /\ g \in st[f].data.of /\ f # g) =>
        \/ task[f].file # NULL /\ task[f].file = task[g].file
        \/ ReadsPath(f) \/ Lists(f)

(* The output a flow names exists, unless the download or the conversion   *)
(* has failed: a failed whisper leaves the audio file as the output.       *)
(* (passTransform, passStore, passRespond)                                 *)
OutputExists ==
    \A f \in Flow : pc[f] = "done" /\ st[f].path # NULL =>
        files[st[f].path] # NULL \/ failed[f] \cap {"curl", "ffmpeg"} # {}

(* Every call of unfold comes to an answer.                                *)
Answers == \A f \in Flow : (pc[f] = "run") ~> (pc[f] = "done")

(* "FETCH -> TRANSFORM(ffmpeg) -> TRANSFORM(whisper)": what is transcribed *)
(* is the wav file.  It does not hold.  (passTransform)                    *)
TranscriptFromWav ==
    \A p \in Path : files[p] # NULL /\ files[p].what = "transcript" => files[p].from = "wav"

=============================================================================
