------------------------------- MODULE MCConfig -----------------------------
(* One file that may be asked for with -c beside the default one.  A log     *)
(* level and a mode are taken, not taken or not given; the pid file stands   *)
(* for the log file, POLL_TIMEOUT for the other numbers.                     *)
EXTENDS Config, TLC

Keys == {"BTN_LEFT", "KEY_UP"}
MyConf == <<"/root", "my.conf">>

\* An option that may be missing, and a choice of options that are independent.
Maybe(s, values) == {NoOptions} \union {s :> v : v \in values}
Both(A, B) == {a @@ b : a \in A, b \in B}

Common == Both(Maybe("pidfile", {<<"~", "a.pid">>}),
               Both(Maybe("loglevel", {"2", "9"}), Maybe("mode", {"client"})))

CommandLinesMC ==
    LET options == Both(Common, Maybe("config", {MyConf}))
                   \union Both(Maybe("config", {MyConf}),
                               Both(Maybe("help", {TRUE}), Maybe("version", {TRUE})))
                   \union {("mode" :> "other") @@ ("foreground" :> TRUE)}
    IN  {[parses |-> TRUE, options |-> o] : o \in options}
        \union {[parses |-> FALSE, options |-> NoOptions]}

\* Entries of both controllers, of a button that both have, the first option and the
\* last one among them.
FileKeys == Both(Both(Maybe(<<"PSBTN", "TRIANGLE">>, {"BTN_LEFT", "KEYF1"}),
                      Maybe(<<"PSBTN", "T">>, {"BTN_LEFT"})),
                 Both(Maybe(<<"PSBTN_1", "T">>, {"KEY_UP", "KEYF1"}),
                      Maybe(<<"GESTURE", "RIGHT">>, {"KEY_UP", "KEYF1"})))

SomeSettings == ("pidfile" :> <<"/run", "b.pid">>) @@ ("MOVE_COEFF_X" :> 1)

Contents ==
    {[parses |-> TRUE, options |-> o, keys |-> NoOptions] :
        o \in Both(Common, {NoOptions, ("MOVE_COEFF_X" :> 1) @@ ("POLL_TIMEOUT" :> 100)})}
    \union {[parses |-> TRUE, options |-> SomeSettings, keys |-> k] : k \in FileKeys}
    \union {NoFile}

FileSystemsMC ==
    {NoOptions} \union {DEF_CONFIGFILE :> c : c \in Contents}
    \union {MyConf :> c : c \in Contents}
    \union {(DEF_CONFIGFILE :> NoFile) @@ (MyConf :> c) : c \in Contents}
=============================================================================
