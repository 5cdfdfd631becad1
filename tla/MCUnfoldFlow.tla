----------------------------- MODULE MCUnfoldFlow -----------------------------
(* The instances of UnfoldFlow that TLC checks.                            *)
EXTENDS UnfoldFlow, TLC

T(signals, words, file) == [signals |-> signals, words |-> words, file |-> file]

(* A task or two for each strategy and each branch of a pass.              *)
Tasks ==
    {T({"url", "download", "audio", "transcribe"}, {"transcri"}, "a"),
     T({"url", "download", "audio", "transcribe"}, {}, "a"),
     T({"url", "download", "audio", "transcribe"}, {"transcri", "note"}, NULL),
     T({"download", "audio"}, {}, NULL),
     T({"url", "download", "video", "convert"}, {"path"}, "b"),
     T({"browse", "save"}, {}, NULL),
     T({"url", "save"}, {"python", "sql"}, NULL),
     T({"url"}, {}, NULL),
     T({"code", "save"}, {"block", "command", "remember"}, NULL),
     T({"shell", "multi_step"}, {"command"}, NULL),
     T({"code"}, {}, NULL),
     T({"save", "recall"}, {"literal", "path", "readpath"}, NULL),
     T({"db"}, {"sql"}, NULL),
     T({"notes"}, {"note"}, NULL),
     T({"recall"}, {"memory"}, NULL),
     T({"file_read"}, {"readpath"}, NULL),
     T({"url", "notify", "convert"}, {}, NULL),
     T({}, {}, NULL)}
=============================================================================
