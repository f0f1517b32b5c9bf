------------------------------- MODULE Config -------------------------------
(***************************************************************************)
(* Config::parse() (config.cpp) and KeyMapParser (conf_keymap_parser.cpp):  *)
(* the command line, then the configuration file, then the key map entries  *)
(* of the file one by one.                                                  *)
(*                                                                          *)
(* boost::program_options is external: a command line or a file is parsed   *)
(* whole (no unknown option, none given twice, every value of its type) or  *)
(* refused, and gives a map from the options present to their values.       *)
(***************************************************************************)
EXTENDS Integers, Sequences

CONSTANTS
    LinuxKeys,     \* the names of linmap_
    CommandLines,  \* the command lines the program may be started with
    FileSystems,   \* the configuration files there may be
    Indeterminate  \* the value of a double nobody has written

CommandSettings == {"pidfile", "loglevel", "logfile", "mode"}
Flags == {"help", "version", "foreground"}
Coeffs == {"MOVE_COEFF_X", "MOVE_COEFF_Y"}
Numbers == {"POLL_TIMEOUT", "CONN_TIMEOUT", "DISCONNECT_TIMEOUT", "LED_UPDATE_TIMEOUT",
            "MOVE_THRESHOLD", "GESTURE_THRESHOLD", "GESTURE_TIMEOUT"}
FileSettings == Coeffs \union Numbers
Settings == CommandSettings \union FileSettings

\* A path is <<where, name>>; where is "~" when it begins with a tilde.
DEF_CONFIGFILE == <<"/etc", "psmoveinput.conf">>
DEF_PIDFILE == <<"~", "psmoveinput.pid">>
DEF_LOGFILE == <<"~", "psmoveinput.log">>

\* The key options, by prefix and button, in the order of configdesc_.
PsButtons == <<"TRIANGLE", "CIRCLE", "CROSS", "SQUARE", "SELECT", "START", "PS", "MOVE", "T">>
KeyOptions == [i \in 1 .. 9 |-> <<"PSBTN", PsButtons[i]>>]
              \o [i \in 1 .. 9 |-> <<"PSBTN_1", PsButtons[i]>>]
              \o << <<"GESTURE", "UP">>, <<"GESTURE", "DOWN">>,
                    <<"GESTURE", "LEFT">>, <<"GESTURE", "RIGHT">> >>

ASSUME ConfigAssumption ==
    /\ "KEY_RESERVED" \notin LinuxKeys
    /\ \A c \in CommandLines :
          DOMAIN c.options \subseteq CommandSettings \union Flags \union {"config"}
    /\ \A fs \in FileSystems : \A p \in DOMAIN fs :
          /\ DOMAIN fs[p].options \subseteq Settings
          /\ DOMAIN fs[p].keys \subseteq {KeyOptions[i] : i \in DOMAIN KeyOptions}

VARIABLES
    cmdline,  \* argv: whether it can be parsed, and its options
    files,    \* the files that can be read, and what is in them
    home,     \* whether getpwuid() knows the user
    pc,       \* where parse() is
    ok, help, version, foreground,  \* ok_, help_, version_, foreground_
    value,    \* pidfile_, loglevel_, ..., coeffs_, pollTimeout_, ...
    isSet,    \* pidfile_set_, loglevel_set_, logfile_set_, opmode_set_
    config_file, config_file_set,
    conf_opts,\* conf_opts_: the parsed file, or nothing
    entry,    \* the loop over configdesc_.options()
    keymaps   \* keymaps_

environment == <<cmdline, files, home>>
commandVars == <<help, version, foreground, config_file_set>>
vars == <<environment, commandVars, pc, ok, value, isSet, config_file, conf_opts,
          entry, keymaps>>

-----------------------------------------------------------------------------
expandTilde(path) == IF path[1] = "~" /\ home THEN <<"home", path[2]>> ELSE path

LogLevelOf(l) == CASE l = "0" -> "FATAL" [] l = "1" -> "ERROR" [] l = "2" -> "INFO"

\* getLogFromChar(), getModeFromString(): which values they take.
Accepted(s, v) == CASE s = "loglevel" -> v \in {"0", "1", "2"}
                    [] s = "mode" -> v \in {"standalone", "client"}
                    [] OTHER -> TRUE

Stored(s, v) == CASE s \in {"pidfile", "logfile"} -> expandTilde(v)
                  [] s = "loglevel" -> LogLevelOf(v)
                  [] OTHER -> v

\* opts_.count(s), and the value is one that is taken
Given(options, s) == s \in DOMAIN options /\ Accepted(s, options[s])

\* The constructor.  coeffs_ is not in its list of initialisers.
Defaults ==
    [s \in Settings |-> CASE s = "pidfile" -> expandTilde(DEF_PIDFILE)
                          [] s = "logfile" -> expandTilde(DEF_LOGFILE)
                          [] s = "loglevel" -> "ERROR"
                          [] s = "mode" -> "standalone"
                          [] s \in Coeffs -> Indeterminate
                          [] s = "POLL_TIMEOUT" -> 20
                          [] s = "CONN_TIMEOUT" -> 3000
                          [] s = "DISCONNECT_TIMEOUT" -> 7
                          [] s = "LED_UPDATE_TIMEOUT" -> 4000
                          [] s = "MOVE_THRESHOLD" -> 0
                          [] s = "GESTURE_THRESHOLD" -> 100
                          [] s = "GESTURE_TIMEOUT" -> 600]

NoOptions == [s \in {} |-> s]
NoFile == [parses |-> FALSE, options |-> NoOptions, keys |-> NoOptions]
EmptyFile == [parses |-> TRUE, options |-> NoOptions, keys |-> NoOptions]

Init ==
    /\ cmdline \in CommandLines /\ files \in FileSystems /\ home \in BOOLEAN
    /\ pc = "parse"
    /\ ok = FALSE /\ help = FALSE /\ version = FALSE /\ foreground = FALSE
    /\ value = Defaults
    /\ isSet = [s \in CommandSettings |-> FALSE]
    /\ config_file = DEF_CONFIGFILE /\ config_file_set = FALSE
    /\ conf_opts = NoFile
    /\ entry = 1
    /\ keymaps = [c \in 1 .. 2 |-> <<>>]

-----------------------------------------------------------------------------
(* Mut... is a faulty variant of the operator it precedes, to confirm that   *)
(* the properties can fail.                                                  *)

\* The command line cannot be parsed: error_ is set and ok_ stays false.
CommandLineRefused ==
    /\ pc = "parse" /\ ~cmdline.parses
    /\ pc' = "done"
    /\ UNCHANGED <<environment, commandVars, ok, value, isSet, config_file, conf_opts,
                   entry, keymaps>>

\* --help and --version leave the other options alone, and the file is parsed.
Taken(options) ==
    IF {"help", "version"} \intersect DOMAIN options # {} THEN NoOptions ELSE options

HandleCmdLine ==
    LET options == Taken(cmdline.options)
    IN  /\ pc = "parse" /\ cmdline.parses
        /\ pc' = "file" /\ ok' = TRUE
        /\ help' = ("help" \in DOMAIN cmdline.options)
        /\ version' = ("version" \in DOMAIN cmdline.options /\ ~help')
        /\ foreground' = ("foreground" \in DOMAIN options)
        /\ value' = [s \in Settings |-> IF s \in CommandSettings /\ Given(options, s)
                                         THEN Stored(s, options[s]) ELSE value[s]]
        /\ isSet' = [s \in CommandSettings |-> Given(options, s)]
        /\ config_file_set' = ("config" \in DOMAIN options)
        /\ config_file' = IF config_file_set' THEN options["config"] ELSE config_file
        /\ UNCHANGED <<environment, conf_opts, entry, keymaps>>

\* configFileOK(): the file asked for on the command line falls back to the default.
configFileOK == \/ config_file \in DOMAIN files
                \/ config_file_set /\ DEF_CONFIGFILE \in DOMAIN files

FileFound == IF config_file \in DOMAIN files THEN config_file ELSE DEF_CONFIGFILE

NoConfigFile ==
    /\ pc = "file" /\ ~configFileOK
    /\ pc' = "done"
    /\ UNCHANGED <<environment, commandVars, ok, value, isSet, config_file, conf_opts,
                   entry, keymaps>>

ConfigRefused ==
    /\ pc = "file" /\ configFileOK /\ ~files[FileFound].parses
    /\ pc' = "done" /\ ok' = FALSE /\ config_file' = FileFound
    /\ UNCHANGED <<environment, commandVars, value, isSet, conf_opts, entry, keymaps>>

MutFromFile(options, s) == Given(options, s)
\* The command line is not overridden.
FromFile(options, s) == Given(options, s) /\ (s \in CommandSettings => ~isSet[s])

ParseConfig ==
    LET options == files[FileFound].options
    IN  /\ pc = "file" /\ configFileOK /\ files[FileFound].parses
        /\ pc' = "keys" /\ config_file' = FileFound
        /\ conf_opts' = files[FileFound]
        /\ value' = [s \in Settings |-> IF FromFile(options, s)
                                         THEN Stored(s, options[s]) ELSE value[s]]
        /\ isSet' = [s \in CommandSettings |-> isSet[s] \/ FromFile(options, s)]
        /\ UNCHANGED <<environment, commandVars, ok, entry, keymaps>>

-----------------------------------------------------------------------------
\* psmap_: both controllers' options name the same buttons; gestures are their own.
psmap(optname) == IF optname[1] = "GESTURE" THEN optname ELSE <<"Btn", optname[2]>>

createEntry(optname, optval) ==
    [pscode |-> psmap(optname),
     lincode |-> IF optval \in LinuxKeys THEN optval ELSE "KEY_RESERVED"]

ValidEntry(e) == e.lincode # "KEY_RESERVED"

MutControllerOf(optname) == IF optname[1] = "PSBTN_1" THEN 2 ELSE 1
\* Gesture options go to the second controller.
ControllerOf(optname) == IF optname[1] = "PSBTN" THEN 1 ELSE 2

\* One round of the loop over the options: no such option in the file, an entry for
\* a key map, or an invalid one, which ends it.
NextOption == entry' = entry + 1 /\ pc' = IF entry = Len(KeyOptions) THEN "done" ELSE "keys"

InFile(optname) == optname \in DOMAIN conf_opts.keys

SkipOption ==
    /\ pc = "keys" /\ ~InFile(KeyOptions[entry])
    /\ NextOption
    /\ UNCHANGED <<environment, commandVars, ok, value, isSet, config_file, conf_opts, keymaps>>

AddEntry ==
    /\ pc = "keys" /\ InFile(KeyOptions[entry])
    /\ LET optname == KeyOptions[entry]
           e == createEntry(optname, conf_opts.keys[optname])
           c == ControllerOf(optname)
       IN  /\ ValidEntry(e)
           /\ keymaps' = [keymaps EXCEPT ![c] = Append(@, e)]
    /\ NextOption
    /\ UNCHANGED <<environment, commandVars, ok, value, isSet, config_file, conf_opts>>

MutRejected == ok
Rejected == FALSE

InvalidEntry ==
    /\ pc = "keys" /\ InFile(KeyOptions[entry])
    /\ ~ValidEntry(createEntry(KeyOptions[entry], conf_opts.keys[KeyOptions[entry]]))
    /\ pc' = "done" /\ ok' = Rejected
    /\ UNCHANGED <<environment, commandVars, value, isSet, config_file, conf_opts, entry, keymaps>>

Next == \/ CommandLineRefused \/ HandleCmdLine
        \/ NoConfigFile \/ ConfigRefused \/ ParseConfig
        \/ SkipOption \/ AddEntry \/ InvalidEntry

Spec == Init /\ [][Next]_vars

-----------------------------------------------------------------------------
KeyMapEntry == [pscode : {psmap(KeyOptions[i]) : i \in DOMAIN KeyOptions}, lincode : LinuxKeys]

\* The fields have values of their types; no key map has an entry for KEY_RESERVED.
TypeOK ==
    /\ cmdline \in CommandLines /\ files \in FileSystems /\ home \in BOOLEAN
    /\ pc \in {"parse", "file", "keys", "done"}
    /\ {ok, help, version, foreground, config_file_set} \subseteq BOOLEAN
    /\ DOMAIN value = Settings /\ isSet \in [CommandSettings -> BOOLEAN]
    /\ entry \in 1 .. Len(KeyOptions) + 1
    /\ keymaps \in [1 .. 2 -> Seq(KeyMapEntry)]

\* PSMoveInput::processConfig() goes on with what was parsed.
InUse == pc = "done" /\ ok /\ ~help /\ ~version

\* The file a reader of the command line and of README.md, lines 29 to 33, expects to
\* be read: the one asked for, and the default one where there is none.
FileInForce ==
    LET options == Taken(cmdline.options)
        asked == IF "config" \in DOMAIN options THEN options["config"] ELSE DEF_CONFIGFILE
    IN  CASE asked \in DOMAIN files -> files[asked]
          [] asked \notin DOMAIN files /\ DEF_CONFIGFILE \in DOMAIN files -> files[DEF_CONFIGFILE]
          [] OTHER -> EmptyFile

\* Every setting is the command line's, else the file's, else the default (lines 168
\* to 299), where a log level or a mode that is not one counts as not given.
Precedence ==
    InUse => \A s \in Settings :
        value[s] = CASE s \in CommandSettings /\ Given(cmdline.options, s) ->
                            Stored(s, cmdline.options[s])
                     [] ~(s \in CommandSettings /\ Given(cmdline.options, s))
                           /\ Given(FileInForce.options, s) -> Stored(s, FileInForce.options[s])
                     [] OTHER -> Defaults[s]

\* A configuration is accepted exactly if the command line, the file in force and
\* all its key map entries are valid: no bad entry is dropped in silence (lines 302
\* to 364), and none of an option before it or after it is to blame.
OkIffValid ==
    pc = "done" =>
        (ok <=> /\ cmdline.parses
                /\ FileInForce.parses
                /\ \A o \in DOMAIN FileInForce.keys : FileInForce.keys[o] \in LinuxKeys)

\* The key maps of a configuration in use are what its file says, each button and
\* gesture once and in its controller's map (lines 321 to 345).
KeymapsAsWritten ==
    InUse => \A c \in 1 .. 2 :
        /\ {keymaps[c][i] : i \in DOMAIN keymaps[c]} =
              {[pscode |-> psmap(o), lincode |-> FileInForce.keys[o]] :
                  o \in {p \in DOMAIN FileInForce.keys : (p[1] = "PSBTN") = (c = 1)}}
        /\ \A i, j \in DOMAIN keymaps[c] :
              keymaps[c][i].pscode = keymaps[c][j].pscode => i = j

\* config_defs.hpp, lines 116 to 130: "defaults" for every setting, DEF_MOVEC_X and
\* DEF_MOVEC_Y among them.
EverySettingHasADefault == InUse => \A s \in Coeffs : value[s] # Indeterminate
=============================================================================
