---------------------------- MODULE Config_proofs ---------------------------
(***************************************************************************)
(* What Config promises, for any command lines, files and key names.        *)
(* At each stage of parse() the settings are a function of the command line *)
(* and the file in force, and the loop over the options has accepted every  *)
(* entry before the one it is at.                                           *)
(***************************************************************************)
EXTENDS Config, SequenceTheorems, TLAPS

FromCommandLine(options, s) == s \in CommandSettings /\ Given(options, s)

\* What the command line alone makes of setting s.
AfterCommandLine(s) ==
    LET options == Taken(cmdline.options)
    IN  IF FromCommandLine(options, s) THEN Stored(s, options[s]) ELSE Defaults[s]

\* What command line and file make of setting s.
InTheEnd(s) ==
    LET options == FileInForce.options
    IN  IF ~FromCommandLine(Taken(cmdline.options), s) /\ Given(options, s)
          THEN Stored(s, options[s]) ELSE AfterCommandLine(s)

Environment == /\ cmdline \in CommandLines /\ files \in FileSystems
               /\ pc \in {"parse", "file", "keys", "done"}

AtParse == pc = "parse" =>
    /\ ~ok /\ ~config_file_set /\ config_file = DEF_CONFIGFILE
    /\ value = Defaults /\ entry = 1

FlagsTaken ==
    pc # "parse" /\ cmdline.parses =>
        /\ help <=> "help" \in DOMAIN cmdline.options
        /\ version <=> "version" \in DOMAIN cmdline.options /\ ~help

AtFile == pc = "file" =>
    /\ ok /\ cmdline.parses /\ entry = 1
    /\ config_file_set <=> "config" \in DOMAIN Taken(cmdline.options)
    /\ config_file = IF config_file_set THEN Taken(cmdline.options)["config"] ELSE DEF_CONFIGFILE
    /\ \A s \in Settings : value[s] = AfterCommandLine(s)
    /\ \A s \in CommandSettings : isSet[s] <=> Given(Taken(cmdline.options), s)

AtKeys == pc = "keys" =>
    /\ ok /\ cmdline.parses /\ FileInForce.parses
    /\ conf_opts = FileInForce
    /\ entry \in 1 .. Len(KeyOptions)
    /\ \A i \in 1 .. entry - 1 :
          InFile(KeyOptions[i]) => conf_opts.keys[KeyOptions[i]] \in LinuxKeys

Settled == pc = "keys" \/ (pc = "done" /\ ok) => \A s \in Settings : value[s] = InTheEnd(s)

Accepts == /\ cmdline.parses
           /\ FileInForce.parses
           /\ \A o \in DOMAIN FileInForce.keys : FileInForce.keys[o] \in LinuxKeys

IInv == /\ Environment /\ AtParse /\ FlagsTaken /\ AtFile /\ AtKeys /\ Settled
        /\ pc = "done" => (ok <=> Accepts)
        /\ ok => cmdline.parses

-----------------------------------------------------------------------------
\* What depends only on the command line and the files stays as it is.
LEMMA Unchanging ==
    ASSUME UNCHANGED environment
    PROVE  /\ FileInForce' = FileInForce
           /\ Defaults' = Defaults
           /\ \A s, v : Stored(s, v)' = Stored(s, v)
           /\ \A s : AfterCommandLine(s)' = AfterCommandLine(s) /\ InTheEnd(s)' = InTheEnd(s)
           /\ Accepts' = Accepts
<1> USE DEF environment
<1>1. FileInForce' = FileInForce
  BY DEF FileInForce
<1>2. \A v : expandTilde(v)' = expandTilde(v)
  BY DEF expandTilde
<1>3. Defaults' = Defaults
  <2>1. /\ expandTilde(DEF_PIDFILE)' = expandTilde(DEF_PIDFILE)
        /\ expandTilde(DEF_LOGFILE)' = expandTilde(DEF_LOGFILE)
    BY <1>2
  <2> QED BY <2>1 DEF Defaults
<1>4. \A s, v : Stored(s, v)' = Stored(s, v)
  BY <1>2 DEF Stored
<1>5. \A s : AfterCommandLine(s)' = AfterCommandLine(s)
  BY <1>3, <1>4 DEF AfterCommandLine
<1>6. \A s : InTheEnd(s)' = InTheEnd(s)
  BY <1>1, <1>4, <1>5 DEF InTheEnd
<1>7. Accepts' = Accepts
  BY <1>1 DEF Accepts
<1> QED BY <1>1, <1>3, <1>4, <1>5, <1>6, <1>7

\* configFileOK() finds the file in force, or there is none.
LEMMA Found ==
    ASSUME IInv, pc = "file"
    PROVE  /\ configFileOK => FileFound \in DOMAIN files /\ files[FileFound] = FileInForce
           /\ ~configFileOK => FileInForce = EmptyFile
<1> DEFINE asked == IF "config" \in DOMAIN Taken(cmdline.options)
                      THEN Taken(cmdline.options)["config"] ELSE DEF_CONFIGFILE
<1>1. config_file = asked /\ (~config_file_set => asked = DEF_CONFIGFILE)
  BY DEF IInv, AtFile
<1>2. FileInForce = CASE asked \in DOMAIN files -> files[asked]
                      [] asked \notin DOMAIN files /\ DEF_CONFIGFILE \in DOMAIN files
                            -> files[DEF_CONFIGFILE]
                      [] OTHER -> EmptyFile
  BY DEF FileInForce
<1> HIDE DEF asked
<1>3. CASE asked \in DOMAIN files
  BY <1>1, <1>2, <1>3 DEF configFileOK, FileFound
<1>4. CASE asked \notin DOMAIN files /\ DEF_CONFIGFILE \in DOMAIN files
  BY <1>1, <1>2, <1>4 DEF configFileOK, FileFound
<1>5. CASE asked \notin DOMAIN files /\ DEF_CONFIGFILE \notin DOMAIN files
  BY <1>1, <1>2, <1>5 DEF configFileOK, FileFound
<1> QED BY <1>3, <1>4, <1>5

LEMMA EmptyFileFacts ==
    EmptyFile.parses /\ DOMAIN EmptyFile.keys = {} /\ DOMAIN EmptyFile.options = {}
  BY DEF EmptyFile, NoOptions

LEMMA InitIInv == Init => IInv
  BY DEF Init, IInv, Environment, AtParse, FlagsTaken, AtFile, AtKeys, Settled

LEMMA CommandLineRefusedStep == ASSUME IInv, CommandLineRefused PROVE IInv'
<1> USE DEF IInv, CommandLineRefused
<1>1. ~ok /\ ok' = ok /\ pc' = "done" /\ ~cmdline.parses /\ UNCHANGED environment
  BY DEF AtParse
<1>2. ~Accepts'
  BY <1>1, Unchanging DEF Accepts
<1> QED BY <1>1, <1>2 DEF Environment, AtParse, FlagsTaken, AtFile, AtKeys, Settled, environment

LEMMA HandleCmdLineStep == ASSUME IInv, HandleCmdLine PROVE IInv'
<1> DEFINE options == Taken(cmdline.options)
<1>1. /\ pc = "parse" /\ cmdline.parses /\ pc' = "file" /\ ok' = TRUE
      /\ help' = ("help" \in DOMAIN cmdline.options)
      /\ version' = ("version" \in DOMAIN cmdline.options /\ ~help')
      /\ value' = [s \in Settings |-> IF s \in CommandSettings /\ Given(options, s)
                                       THEN Stored(s, options[s]) ELSE value[s]]
      /\ isSet' = [s \in CommandSettings |-> Given(options, s)]
      /\ config_file_set' = ("config" \in DOMAIN options)
      /\ config_file' = IF config_file_set' THEN options["config"] ELSE config_file
      /\ UNCHANGED environment /\ UNCHANGED entry
  BY DEF HandleCmdLine
<1>2. value = Defaults /\ config_file = DEF_CONFIGFILE /\ entry = 1
  BY <1>1 DEF IInv, AtParse
<1>3. cmdline' = cmdline /\ files' = files
  BY <1>1 DEF environment
<1>4. \A s \in Settings : value'[s] = AfterCommandLine(s)
  BY <1>1, <1>2 DEF AfterCommandLine, FromCommandLine
<1>5. \A s \in Settings : value'[s] = AfterCommandLine(s)'
  BY <1>1, <1>4, Unchanging
<1>6. AtFile'
  BY <1>1, <1>2, <1>3, <1>5 DEF AtFile
<1>7. FlagsTaken'
  BY <1>1, <1>3 DEF FlagsTaken
<1> QED BY <1>1, <1>3, <1>6, <1>7 DEF IInv, Environment, AtParse, AtKeys, Settled

LEMMA NoConfigFileStep == ASSUME IInv, NoConfigFile PROVE IInv'
<1>1. /\ pc = "file" /\ ~configFileOK /\ pc' = "done" /\ UNCHANGED environment
      /\ UNCHANGED <<ok, value, help, version>>
  BY DEF NoConfigFile, commandVars
<1>2. FileInForce = EmptyFile
  BY <1>1, Found
<1>3. ok' /\ Accepts'
  BY <1>1, <1>2, EmptyFileFacts, Unchanging DEF IInv, AtFile, Accepts
<1>4. \A s \in Settings : value'[s] = InTheEnd(s)'
  <2>1. \A s \in Settings : InTheEnd(s) = AfterCommandLine(s)
    BY <1>2, EmptyFileFacts DEF InTheEnd, Given
  <2> QED BY <1>1, <2>1, Unchanging DEF IInv, AtFile
<1>5. FlagsTaken'
  BY <1>1 DEF IInv, FlagsTaken, environment
<1> QED BY <1>1, <1>3, <1>4, <1>5 DEF IInv, Environment, AtParse, AtFile, AtKeys, Settled, Accepts,
                                      environment

LEMMA ConfigRefusedStep == ASSUME IInv, ConfigRefused PROVE IInv'
<1>1. /\ pc = "file" /\ configFileOK /\ ~files[FileFound].parses
      /\ pc' = "done" /\ ok' = FALSE /\ UNCHANGED environment
      /\ UNCHANGED <<help, version>>
  BY DEF ConfigRefused, commandVars
<1>2. ~Accepts'
  BY <1>1, Found, Unchanging DEF Accepts
<1>3. FlagsTaken'
  BY <1>1 DEF IInv, FlagsTaken, environment
<1> QED BY <1>1, <1>2, <1>3 DEF IInv, Environment, AtParse, AtFile, AtKeys, Settled, environment

\* The option at each place of configdesc_.
LEMMA OptionAt ==
    /\ DOMAIN KeyOptions = 1 .. Len(KeyOptions) /\ Len(KeyOptions) = 22
    /\ \A i \in 1 .. 9 : KeyOptions[i] = <<"PSBTN", PsButtons[i]>>
    /\ \A i \in 10 .. 18 : KeyOptions[i] = <<"PSBTN_1", PsButtons[i - 9]>>
    /\ KeyOptions[19] = <<"GESTURE", "UP">> /\ KeyOptions[20] = <<"GESTURE", "DOWN">>
    /\ KeyOptions[21] = <<"GESTURE", "LEFT">> /\ KeyOptions[22] = <<"GESTURE", "RIGHT">>
<1> DEFINE a == [i \in 1 .. 9 |-> <<"PSBTN", PsButtons[i]>>]
           b == [i \in 1 .. 9 |-> <<"PSBTN_1", PsButtons[i]>>]
           c1 == <<"GESTURE", "UP">>
           c2 == <<"GESTURE", "DOWN">>
           c3 == <<"GESTURE", "LEFT">>
           c4 == <<"GESTURE", "RIGHT">>
           O == {a[i] : i \in 1 .. 9} \union {b[i] : i \in 1 .. 9} \union {c1, c2, c3, c4}
<1>1. KeyOptions = a \o b \o <<c1, c2, c3, c4>>
  BY DEF KeyOptions
<1>2. a \in [1 .. 9 -> O] /\ b \in [1 .. 9 -> O]
  OBVIOUS
<1>3. {c1, c2, c3, c4} \subseteq O
  OBVIOUS
<1>4. /\ \A i \in 1 .. 9 : a[i] = <<"PSBTN", PsButtons[i]>>
      /\ \A i \in 1 .. 9 : b[i] = <<"PSBTN_1", PsButtons[i]>>
  OBVIOUS
<1> HIDE DEF a, b, O
<1>5. 9 \in Nat
  BY SMT
<1>6. a \in Seq(O) /\ b \in Seq(O) /\ Len(a) = 9 /\ Len(b) = 9
  <2>1. \A f \in [1 .. 9 -> O] : f \in Seq(O)
    BY <1>5, SeqDef
  <2>2. \A f \in [1 .. 9 -> O] : f \in Seq(O) => Len(f) = 9
    BY <1>5, LenProperties, SMT
  <2> QED BY <1>2, <2>1, <2>2
<1> DEFINE c == <<c1, c2, c3, c4>>
<1>7. c \in Seq(O) /\ Len(c) = 4 /\ c[1] = c1 /\ c[2] = c2 /\ c[3] = c3 /\ c[4] = c4
  <2> HIDE DEF c1, c2, c3, c4
  <2> QED BY <1>3
<1> HIDE DEF c
<1>8. /\ a \o b \in Seq(O) /\ Len(a \o b) = 18
      /\ \A i \in 1 .. 18 : (a \o b)[i] = IF i <= 9 THEN a[i] ELSE b[i - 9]
  <2>1. /\ a \o b \in Seq(O) /\ Len(a \o b) = Len(a) + Len(b)
        /\ \A i \in 1 .. Len(a) + Len(b) : (a \o b)[i] = IF i <= Len(a) THEN a[i]
                                                         ELSE b[i - Len(a)]
    BY <1>6, ConcatProperties
  <2> QED BY <1>6, <2>1
<1> DEFINE d == a \o b
<1> HIDE DEF d
<1>9. /\ d \o c \in Seq(O) /\ Len(d \o c) = 22
      /\ \A i \in 1 .. 22 : (d \o c)[i] = IF i <= 18 THEN d[i] ELSE c[i - 18]
  <2>1. d \in Seq(O) /\ Len(d) = 18
    BY <1>8 DEF d
  <2>2. /\ d \o c \in Seq(O) /\ Len(d \o c) = Len(d) + Len(c)
        /\ \A i \in 1 .. Len(d) + Len(c) : (d \o c)[i] = IF i <= Len(d) THEN d[i]
                                                      ELSE c[i - Len(d)]
    BY <1>7, <2>1, ConcatProperties
  <2>5. Len(d \o c) = 22
    BY <1>7, <2>1, <2>2
  <2> SUFFICES ASSUME NEW i \in 1 .. 22
               PROVE  (d \o c)[i] = IF i <= 18 THEN d[i] ELSE c[i - 18]
    BY <2>2, <2>5
  <2>3. i \in 1 .. Len(d) + Len(c)
    BY <1>7, <2>1
  <2>4. (d \o c)[i] = IF i <= Len(d) THEN d[i] ELSE c[i - Len(d)]
    BY <2>2, <2>3
  <2> QED BY <2>1, <2>4, Zenon
<1>10. KeyOptions = d \o c
  BY <1>1 DEF c, d
<1>11. \A i \in 1 .. 18 : KeyOptions[i] = IF i <= 9 THEN a[i] ELSE b[i - 9]
  <2> SUFFICES ASSUME NEW i \in 1 .. 18
               PROVE  KeyOptions[i] = IF i <= 9 THEN a[i] ELSE b[i - 9]
    OBVIOUS
  <2>1. i \in 1 .. 22 /\ i <= 18
    OBVIOUS
  <2>2. KeyOptions[i] = d[i]
    BY <1>9, <1>10, <2>1, Zenon
  <2>3. d[i] = IF i <= 9 THEN a[i] ELSE b[i - 9]
    BY <1>8, Zenon DEF d
  <2> QED BY <2>2, <2>3, Zenon
<1>12. /\ KeyOptions[19] = c[1] /\ KeyOptions[20] = c[2]
       /\ KeyOptions[21] = c[3] /\ KeyOptions[22] = c[4]
  <2>1. ASSUME NEW i \in 1 .. 4 PROVE KeyOptions[i + 18] = c[i]
    <3>1. i + 18 \in 1 .. 22 /\ ~(i + 18 <= 18) /\ (i + 18) - 18 = i
      OBVIOUS
    <3>2. KeyOptions[i + 18] = c[(i + 18) - 18]
      BY <1>9, <1>10, <3>1, Zenon
    <3> QED BY <3>1, <3>2, Zenon
  <2>2. /\ KeyOptions[1 + 18] = c[1] /\ KeyOptions[2 + 18] = c[2]
        /\ KeyOptions[3 + 18] = c[3] /\ KeyOptions[4 + 18] = c[4]
    <3>1. 1 \in 1 .. 4 /\ 2 \in 1 .. 4 /\ 3 \in 1 .. 4 /\ 4 \in 1 .. 4
      OBVIOUS
    <3> QED BY <2>1, <3>1, Zenon
  <2>3. 1 + 18 = 19 /\ 2 + 18 = 20 /\ 3 + 18 = 21 /\ 4 + 18 = 22
    OBVIOUS
  <2> QED BY <2>2, <2>3, Zenon
<1>13. \A i \in 1 .. 9 : KeyOptions[i] = <<"PSBTN", PsButtons[i]>>
  BY <1>4, <1>11
<1>14. \A i \in 10 .. 18 : KeyOptions[i] = <<"PSBTN_1", PsButtons[i - 9]>>
  <2> SUFFICES ASSUME NEW i \in 10 .. 18 PROVE KeyOptions[i] = <<"PSBTN_1", PsButtons[i - 9]>>
    OBVIOUS
  <2>1. i - 9 \in 1 .. 9 /\ i \in 1 .. 18 /\ ~(i <= 9)
    OBVIOUS
  <2> QED BY <1>4, <1>11, <2>1
<1>15. DOMAIN KeyOptions = 1 .. Len(KeyOptions) /\ Len(KeyOptions) = 22
  BY <1>9, <1>10
<1> QED BY <1>7, <1>12, <1>13, <1>14, <1>15

\* The options the loop goes over: 22 of them.
LEMMA Options == DOMAIN KeyOptions = 1 .. Len(KeyOptions) /\ Len(KeyOptions) = 22
  BY OptionAt

\* The file in force has no key option that the loop does not come to.
LEMMA KeysKnown ==
    ASSUME files \in FileSystems
    PROVE  \A o \in DOMAIN FileInForce.keys : \E i \in 1 .. Len(KeyOptions) : o = KeyOptions[i]
<1>1. DOMAIN KeyOptions = 1 .. Len(KeyOptions)
  BY Options
<1>2. FileInForce = EmptyFile \/ \E p \in DOMAIN files : FileInForce = files[p]
  BY DEF FileInForce
<1>3. CASE FileInForce = EmptyFile
  BY <1>3, EmptyFileFacts
<1>4. CASE \E p \in DOMAIN files : FileInForce = files[p]
  BY <1>1, <1>4, ConfigAssumption
<1> QED BY <1>2, <1>3, <1>4

LEMMA ParseConfigStep == ASSUME IInv, ParseConfig PROVE IInv'
<1> DEFINE options == files[FileFound].options
<1>1. /\ pc = "file" /\ configFileOK /\ files[FileFound].parses
      /\ pc' = "keys" /\ conf_opts' = files[FileFound]
      /\ value' = [s \in Settings |-> IF FromFile(options, s)
                                        THEN Stored(s, options[s]) ELSE value[s]]
      /\ UNCHANGED environment /\ UNCHANGED <<ok, help, version, entry>>
  BY DEF ParseConfig, commandVars
<1>2. files[FileFound] = FileInForce
  BY <1>1, Found
<1>3. \A s \in Settings : value'[s] = InTheEnd(s)
  <2> SUFFICES ASSUME NEW s \in Settings PROVE value'[s] = InTheEnd(s)
    OBVIOUS
  <2>1. FromFile(options, s) <=> ~FromCommandLine(Taken(cmdline.options), s) /\ Given(options, s)
    BY <1>1 DEF IInv, AtFile, FromFile, FromCommandLine
  <2>2. value[s] = AfterCommandLine(s)
    BY <1>1 DEF IInv, AtFile
  <2> QED BY <1>1, <1>2, <2>1, <2>2 DEF InTheEnd
<1>4. Settled'
  BY <1>1, <1>3, Unchanging DEF Settled
<1>5. AtKeys'
  <2>1. entry' \in 1 .. Len(KeyOptions) /\ 1 .. entry' - 1 = {}
    BY <1>1, Options DEF IInv, AtFile
  <2>2. ok' /\ cmdline'.parses
    BY <1>1 DEF IInv, AtFile, environment
  <2>3. FileInForce'.parses /\ conf_opts' = FileInForce'
    BY <1>1, <1>2, Unchanging
  <2> QED BY <2>1, <2>2, <2>3 DEF AtKeys
<1>6. FlagsTaken'
  BY <1>1 DEF IInv, FlagsTaken, environment
<1> QED BY <1>1, <1>4, <1>5, <1>6 DEF IInv, Environment, AtParse, AtFile, environment

\* A round of the loop that has nothing against the option's entry.
LEMMA RoundStep ==
    ASSUME IInv, pc = "keys", NextOption, UNCHANGED environment,
           UNCHANGED <<ok, value, help, version, conf_opts>>,
           InFile(KeyOptions[entry]) => conf_opts.keys[KeyOptions[entry]] \in LinuxKeys
    PROVE  IInv'
<1>1. /\ ok /\ cmdline.parses /\ FileInForce.parses /\ conf_opts = FileInForce
      /\ entry \in 1 .. Len(KeyOptions)
      /\ Len(KeyOptions) = 22
  BY Options DEF IInv, AtKeys
<1>2. /\ entry' = entry + 1
      /\ pc' = IF entry = Len(KeyOptions) THEN "done" ELSE "keys"
  BY DEF NextOption
<1>3. \A i \in 1 .. entry : InFile(KeyOptions[i]) => conf_opts.keys[KeyOptions[i]] \in LinuxKeys
  <2> SUFFICES ASSUME NEW i \in 1 .. entry, InFile(KeyOptions[i])
               PROVE  conf_opts.keys[KeyOptions[i]] \in LinuxKeys
    OBVIOUS
  <2>1. i = entry \/ i \in 1 .. entry - 1
    BY <1>1
  <2> QED BY <2>1 DEF IInv, AtKeys
<1>4. CASE entry = Len(KeyOptions)
  <2>1. pc' = "done"
    BY <1>2, <1>4
  <2>2. Accepts
    <3> SUFFICES ASSUME NEW o \in DOMAIN FileInForce.keys
                 PROVE  FileInForce.keys[o] \in LinuxKeys
      BY <1>1 DEF Accepts
    <3>1. PICK i \in 1 .. Len(KeyOptions) : o = KeyOptions[i]
      BY KeysKnown DEF IInv, Environment
    <3> QED BY <1>1, <1>3, <1>4, <3>1 DEF InFile
  <2>3. ok' /\ Accepts'
    BY <1>1, <2>2, Unchanging
  <2>4. Settled'
    BY Unchanging DEF IInv, Settled
  <2> QED BY <2>1, <2>3, <2>4 DEF IInv, Environment, AtParse, FlagsTaken, AtFile, AtKeys, Accepts,
                                  environment
<1>5. CASE entry # Len(KeyOptions)
  <2>1. pc' = "keys" /\ entry' \in 1 .. Len(KeyOptions) /\ entry' - 1 = entry
    BY <1>1, <1>2, <1>5
  <2>2. AtKeys'
    <3>1. ok' /\ cmdline'.parses
      BY <1>1 DEF environment
    <3>2. FileInForce'.parses /\ conf_opts' = FileInForce'
      BY <1>1, Unchanging
    <3>3. \A i \in 1 .. entry' - 1 :
             InFile(KeyOptions[i])' => conf_opts'.keys[KeyOptions[i]] \in LinuxKeys
      BY <1>3, <2>1 DEF InFile
    <3> QED BY <2>1, <3>1, <3>2, <3>3 DEF AtKeys
  <2>3. Settled'
    BY Unchanging DEF IInv, Settled
  <2> QED BY <1>1, <2>1, <2>2, <2>3 DEF IInv, Environment, AtParse, FlagsTaken, AtFile, environment
<1> QED BY <1>4, <1>5

LEMMA Validity == \A o, v : ValidEntry(createEntry(o, v)) <=> v \in LinuxKeys
  BY ConfigAssumption DEF ValidEntry, createEntry

LEMMA SkipOptionStep == ASSUME IInv, SkipOption PROVE IInv'
<1>1. /\ pc = "keys" /\ NextOption /\ UNCHANGED environment
      /\ UNCHANGED <<ok, value, help, version, conf_opts>> /\ ~InFile(KeyOptions[entry])
  BY DEF SkipOption, commandVars
<1> QED BY <1>1, RoundStep

LEMMA AddEntryStep == ASSUME IInv, AddEntry PROVE IInv'
<1>1. /\ pc = "keys" /\ NextOption /\ UNCHANGED environment
      /\ UNCHANGED <<ok, value, help, version, conf_opts>>
  BY DEF AddEntry, commandVars
<1>2. ValidEntry(createEntry(KeyOptions[entry], conf_opts.keys[KeyOptions[entry]]))
  BY DEF AddEntry
<1>3. conf_opts.keys[KeyOptions[entry]] \in LinuxKeys
  BY <1>2, Validity
<1> QED BY <1>1, <1>3, RoundStep

LEMMA InvalidEntryStep == ASSUME IInv, InvalidEntry PROVE IInv'
<1>1. /\ pc = "keys" /\ InFile(KeyOptions[entry])
      /\ pc' = "done" /\ ok' = FALSE /\ UNCHANGED environment
      /\ UNCHANGED <<help, version>>
  BY DEF InvalidEntry, Rejected, commandVars
<1>2. conf_opts.keys[KeyOptions[entry]] \notin LinuxKeys
  BY Validity DEF InvalidEntry
<1>3. conf_opts = FileInForce
  BY <1>1 DEF IInv, AtKeys
<1>4. ~Accepts'
  BY <1>1, <1>2, <1>3, Unchanging DEF Accepts, InFile
<1>5. FlagsTaken'
  BY <1>1 DEF IInv, FlagsTaken, environment
<1> QED BY <1>1, <1>4, <1>5 DEF IInv, Environment, AtParse, AtFile, AtKeys, Settled, environment

LEMMA StutterStep == ASSUME IInv, UNCHANGED vars PROVE IInv'
<1>1. UNCHANGED environment
  BY DEF vars
<1>2. UNCHANGED <<help, version, config_file_set, pc, ok, value, isSet, config_file, conf_opts,
                  entry>>
  BY DEF vars, commandVars
<1>3. cmdline' = cmdline /\ files' = files
  BY <1>1 DEF environment
<1>4. Environment' /\ FlagsTaken'
  BY <1>2, <1>3 DEF IInv, Environment, FlagsTaken
<1>5. AtParse'
  BY <1>1, <1>2, Unchanging DEF IInv, AtParse
<1>6. AtFile'
  BY <1>1, <1>2, <1>3, Unchanging DEF IInv, AtFile
<1>7. AtKeys'
  BY <1>1, <1>2, <1>3, Unchanging DEF IInv, AtKeys, InFile
<1>8. Settled' /\ (pc' = "done" => (ok' <=> Accepts'))
  BY <1>1, <1>2, Unchanging DEF IInv, Settled
<1> QED BY <1>2, <1>3, <1>4, <1>5, <1>6, <1>7, <1>8 DEF IInv

THEOREM Inductive == Spec => []IInv
<1>1. IInv /\ [Next]_vars => IInv'
  BY CommandLineRefusedStep, HandleCmdLineStep, NoConfigFileStep, ConfigRefusedStep,
     ParseConfigStep, SkipOptionStep, AddEntryStep, InvalidEntryStep, StutterStep DEF Next
<1> QED BY <1>1, InitIInv, PTL DEF Spec

\* Every setting in use is the command line's, else the file's, else the default,
\* for any command lines and files.
THEOREM PrecedenceHolds == Spec => []Precedence
<1>1. IInv => Precedence
  <2> SUFFICES ASSUME IInv, InUse, NEW s \in Settings
               PROVE  value[s] = CASE s \in CommandSettings /\ Given(cmdline.options, s) ->
                                         Stored(s, cmdline.options[s])
                                  [] ~(s \in CommandSettings /\ Given(cmdline.options, s))
                                        /\ Given(FileInForce.options, s) ->
                                         Stored(s, FileInForce.options[s])
                                  [] OTHER -> Defaults[s]
    BY DEF Precedence
  <2>1. value[s] = InTheEnd(s)
    BY DEF IInv, Settled, InUse
  <2>2. Taken(cmdline.options) = cmdline.options
    <3>1. cmdline.parses /\ pc # "parse"
      BY DEF IInv, InUse
    <3>2. "help" \notin DOMAIN cmdline.options /\ "version" \notin DOMAIN cmdline.options
      BY <3>1 DEF IInv, InUse, FlagsTaken
    <3> QED BY <3>2 DEF Taken
  <2> QED BY <2>1, <2>2 DEF InTheEnd, AfterCommandLine, FromCommandLine
<1> QED BY <1>1, Inductive, PTL

\* parse() accepts exactly what is valid as a whole, for any command lines, files
\* and key names.
THEOREM AcceptsTheValid == Spec => []OkIffValid
<1>1. IInv => OkIffValid
  BY DEF IInv, OkIffValid, Accepts
<1> QED BY <1>1, Inductive, PTL

-----------------------------------------------------------------------------
\* An entry that is added is of a button or a gesture and of a known key.
LEMMA AddedEntry ==
    ASSUME IInv, TypeOK, AddEntry
    PROVE  keymaps' \in [1 .. 2 -> Seq(KeyMapEntry)]
<1> DEFINE e == createEntry(KeyOptions[entry], conf_opts.keys[KeyOptions[entry]])
           c == ControllerOf(KeyOptions[entry])
<1>1. entry \in DOMAIN KeyOptions
  BY Options DEF IInv, AtKeys, AddEntry
<1>2. ValidEntry(e) /\ keymaps' = [keymaps EXCEPT ![c] = Append(@, e)]
  BY DEF AddEntry
<1>3. e.lincode \in LinuxKeys
  BY <1>2, Validity DEF createEntry, ValidEntry
<1>4. e \in KeyMapEntry
  BY <1>1, <1>3 DEF KeyMapEntry, createEntry
<1>5. c \in 1 .. 2
  BY SMT DEF ControllerOf
<1> HIDE DEF e, c
<1>6. keymaps \in [1 .. 2 -> Seq(KeyMapEntry)]
  BY DEF TypeOK
<1>7. Append(keymaps[c], e) \in Seq(KeyMapEntry)
  BY <1>4, <1>5, <1>6
<1> QED BY <1>2, <1>5, <1>6, <1>7

\* The fields have values of their types; no key map has an entry for KEY_RESERVED.
THEOREM TypeCorrect == Spec => []TypeOK
<1>1. Init => TypeOK
  <2> SUFFICES ASSUME Init PROVE TypeOK
    OBVIOUS
  <2>1. DOMAIN Defaults = Settings
    BY DEF Defaults
  <2>2. 1 \in 1 .. Len(KeyOptions) + 1
    BY Options
  <2>3. isSet \in [CommandSettings -> BOOLEAN]
    BY DEF Init
  <2>4. keymaps \in [1 .. 2 -> Seq(KeyMapEntry)]
    BY DEF Init
  <2> QED BY <2>1, <2>2, <2>3, <2>4 DEF Init, TypeOK
<1>2. IInv /\ TypeOK /\ [Next]_vars => TypeOK'
  <2> SUFFICES ASSUME IInv, TypeOK, [Next]_vars PROVE TypeOK'
    OBVIOUS
  <2> USE DEF TypeOK, environment, commandVars
  <2>1. CASE CommandLineRefused
    BY <2>1 DEF CommandLineRefused
  <2>2. CASE HandleCmdLine
    <3>1. {ok', help', version', foreground', config_file_set'} \subseteq BOOLEAN
      <4>1. /\ ok' = TRUE
            /\ help' = ("help" \in DOMAIN cmdline.options)
            /\ version' = ("version" \in DOMAIN cmdline.options /\ ~help')
            /\ foreground' = ("foreground" \in DOMAIN Taken(cmdline.options))
            /\ config_file_set' = ("config" \in DOMAIN Taken(cmdline.options))
        BY <2>2 DEF HandleCmdLine
      <4>2. ok' \in BOOLEAN
        BY <4>1
      <4>3. help' \in BOOLEAN
        BY <4>1
      <4>4. version' \in BOOLEAN
        BY <4>1
      <4>5. foreground' \in BOOLEAN
        BY <4>1
      <4>6. config_file_set' \in BOOLEAN
        BY <4>1
      <4> QED BY <4>2, <4>3, <4>4, <4>5, <4>6
    <3>2. isSet' \in [CommandSettings -> BOOLEAN] /\ DOMAIN value' = Settings
      BY <2>2, Zenon DEF HandleCmdLine, Given
    <3>3. pc' = "file" /\ UNCHANGED <<environment, entry, keymaps>>
      BY <2>2, Zenon DEF HandleCmdLine
    <3> QED BY <3>1, <3>2, <3>3
  <2>3. CASE NoConfigFile
    BY <2>3 DEF NoConfigFile
  <2>4. CASE ConfigRefused
    BY <2>4 DEF ConfigRefused
  <2>5. CASE ParseConfig
    <3>1. isSet' \in [CommandSettings -> BOOLEAN] /\ DOMAIN value' = Settings
      BY <2>5, Zenon DEF ParseConfig
    <3> QED BY <2>5, <3>1 DEF ParseConfig
  <2>6. ASSUME NextOption, pc = "keys"
        PROVE  entry' \in 1 .. Len(KeyOptions) + 1 /\ pc' \in {"keys", "done"}
    BY <2>6, Options DEF IInv, AtKeys, NextOption
  <2>7. CASE SkipOption
    BY <2>6, <2>7 DEF SkipOption
  <2>8. CASE AddEntry
    <3>1. keymaps' \in [1 .. 2 -> Seq(KeyMapEntry)]
      BY <2>8, AddedEntry
    <3> QED BY <2>6, <2>8, <3>1 DEF AddEntry
  <2>9. CASE InvalidEntry
    BY <2>9 DEF InvalidEntry, Rejected
  <2>10. CASE UNCHANGED vars
    BY <2>10 DEF vars
  <2> QED BY <2>1, <2>2, <2>3, <2>4, <2>5, <2>7, <2>8, <2>9, <2>10 DEF Next
<1> QED BY <1>1, <1>2, Inductive, PTL DEF Spec

-----------------------------------------------------------------------------
(* The key maps.                                                             *)

\* No two options of a controller name the same button or gesture.
LEMMA ButtonsDiffer ==
    ASSUME NEW i \in 1 .. 22, NEW j \in 1 .. 22,
           ControllerOf(KeyOptions[i]) = ControllerOf(KeyOptions[j]),
           psmap(KeyOptions[i]) = psmap(KeyOptions[j])
    PROVE  i = j
<1>1. \A m, n \in 1 .. 9 : PsButtons[m] = PsButtons[n] => m = n
  BY DEF PsButtons
<1>2. \A n \in 1 .. 9 : /\ psmap(KeyOptions[n]) = <<"Btn", PsButtons[n]>>
                        /\ ControllerOf(KeyOptions[n]) = 1
  BY OptionAt DEF psmap, ControllerOf
<1>3. \A n \in 10 .. 18 : /\ psmap(KeyOptions[n]) = <<"Btn", PsButtons[n - 9]>>
                          /\ ControllerOf(KeyOptions[n]) = 2
  BY OptionAt DEF psmap, ControllerOf
<1>4. /\ psmap(KeyOptions[19]) = <<"GESTURE", "UP">> /\ ControllerOf(KeyOptions[19]) = 2
      /\ psmap(KeyOptions[20]) = <<"GESTURE", "DOWN">> /\ ControllerOf(KeyOptions[20]) = 2
      /\ psmap(KeyOptions[21]) = <<"GESTURE", "LEFT">> /\ ControllerOf(KeyOptions[21]) = 2
      /\ psmap(KeyOptions[22]) = <<"GESTURE", "RIGHT">> /\ ControllerOf(KeyOptions[22]) = 2
  BY OptionAt DEF psmap, ControllerOf
<1>5. \A n \in 19 .. 22 : psmap(KeyOptions[n])[1] = "GESTURE" /\ ControllerOf(KeyOptions[n]) = 2
  <2>1. \A n \in 19 .. 22 : n = 19 \/ n = 20 \/ n = 21 \/ n = 22
    OBVIOUS
  <2> QED BY <1>4, <2>1
<1>6. i \in 1 .. 9 \/ i \in 10 .. 18 \/ i \in 19 .. 22
  OBVIOUS
<1>7. j \in 1 .. 9 \/ j \in 10 .. 18 \/ j \in 19 .. 22
  OBVIOUS
<1>8. CASE i \in 1 .. 9
  <2>1. j \in 1 .. 9
    BY <1>2, <1>3, <1>5, <1>7, <1>8
  <2>2. PsButtons[i] = PsButtons[j]
    BY <1>2, <1>8, <2>1
  <2> QED BY <1>1, <1>8, <2>1, <2>2
<1>9. CASE i \in 10 .. 18
  <2>1. j \notin 1 .. 9
    BY <1>2, <1>3, <1>9
  <2>2. j \notin 19 .. 22
    BY <1>3, <1>5, <1>9
  <2>3. i - 9 \in 1 .. 9 /\ j - 9 \in 1 .. 9
    BY <1>7, <1>9, <2>1, <2>2
  <2>4. PsButtons[i - 9] = PsButtons[j - 9]
    BY <1>3, <1>7, <1>9, <2>1, <2>2
  <2>5. i - 9 = j - 9
    BY <1>1, <2>3, <2>4
  <2> QED BY <2>5
<1>10. CASE i \in 19 .. 22
  <2>1. j \notin 1 .. 9
    BY <1>2, <1>5, <1>10
  <2>2. j \notin 10 .. 18
    BY <1>3, <1>5, <1>10
  <2>3. j \in 19 .. 22
    BY <1>7, <2>1, <2>2
  <2>4. (i = 19 \/ i = 20 \/ i = 21 \/ i = 22) /\ (j = 19 \/ j = 20 \/ j = 21 \/ j = 22)
    BY <1>10, <2>3
  <2> QED BY <1>4, <2>4
<1> QED BY <1>6, <1>8, <1>9, <1>10

\* The entry of option o of the file in force.
EntryOf(o) == [pscode |-> psmap(o), lincode |-> FileInForce.keys[o]]

\* Option i of the loop has an entry in the key map of controller c.
Has(c, i) == /\ KeyOptions[i] \in DOMAIN FileInForce.keys
             /\ ControllerOf(KeyOptions[i]) = c

\* Key map m of controller c has one entry for each of the options N that it should.
BuiltOf(c, m, N) ==
    /\ \A k \in DOMAIN m : \E i \in N : Has(c, i) /\ m[k] = EntryOf(KeyOptions[i])
    /\ \A i \in N : Has(c, i) => \E k \in DOMAIN m : m[k] = EntryOf(KeyOptions[i])
    /\ \A k, l \in DOMAIN m : m[k].pscode = m[l].pscode => k = l

\* The key maps have the entries of the options before the one the loop is at.
Built == \A c \in 1 .. 2 : BuiltOf(c, keymaps[c], 1 .. entry - 1)

KeymapInv ==
    /\ pc # "done" \/ ok => Built
    /\ pc # "keys" /\ pc # "done" => entry = 1
    /\ pc = "done" /\ ok => entry = 23 \/ DOMAIN FileInForce.keys = {}

\* An option without an entry.
LEMMA BuiltSkip ==
    ASSUME NEW c, NEW m, NEW N, NEW n, BuiltOf(c, m, N), ~Has(c, n)
    PROVE  BuiltOf(c, m, N \union {n})
  BY DEF BuiltOf

\* An option with an entry, which is appended.
LEMMA BuiltAdd ==
    ASSUME NEW c, NEW m \in Seq(KeyMapEntry), NEW e \in KeyMapEntry, NEW n \in 1 .. 22,
           BuiltOf(c, m, 1 .. n - 1), Has(c, n), e = EntryOf(KeyOptions[n])
    PROVE  BuiltOf(c, Append(m, e), (1 .. n - 1) \union {n})
<1> DEFINE N == 1 .. n - 1
           o == KeyOptions[n]
           s == Append(m, e)
           x == Len(m) + 1
<1>1. \A i \in N : i \in 1 .. 22 /\ i # n
  OBVIOUS
<1>2. /\ \A k \in DOMAIN s : k \in DOMAIN m \/ k = x
      /\ \A k \in DOMAIN m : k \in DOMAIN s /\ s[k] = m[k]
      /\ x \in DOMAIN s /\ s[x] = e
  OBVIOUS
<1>3. e.pscode = psmap(o)
  BY DEF EntryOf
<1>4. \A k \in DOMAIN m : m[k].pscode # psmap(o)
  <2> SUFFICES ASSUME NEW k \in DOMAIN m, m[k].pscode = psmap(o) PROVE FALSE
    OBVIOUS
  <2>1. PICK i \in N : Has(c, i) /\ m[k] = EntryOf(KeyOptions[i])
    BY DEF BuiltOf
  <2>2. psmap(KeyOptions[i]) = psmap(KeyOptions[n])
    BY <2>1 DEF EntryOf
  <2>3. ControllerOf(KeyOptions[i]) = ControllerOf(KeyOptions[n])
    BY <2>1 DEF Has
  <2>4. i \in 1 .. 22 /\ i # n
    BY <1>1, <2>1
  <2> QED BY <2>2, <2>3, <2>4, ButtonsDiffer
<1>5. BuiltOf(c, m, N)
  OBVIOUS
<1> HIDE DEF N, s, x, o
<1>6. \A k \in DOMAIN s : \E i \in N \union {n} : Has(c, i) /\ s[k] = EntryOf(KeyOptions[i])
  <2> SUFFICES ASSUME NEW k \in DOMAIN s
               PROVE  \E i \in N \union {n} : Has(c, i) /\ s[k] = EntryOf(KeyOptions[i])
    OBVIOUS
  <2>1. CASE k \in DOMAIN m
    BY <1>2, <1>5, <2>1 DEF BuiltOf
  <2>2. CASE k = x
    <3>1. Has(c, n) /\ s[k] = EntryOf(KeyOptions[n]) /\ n \in N \union {n}
      BY <1>2, <2>2
    <3> QED BY <3>1
  <2> QED BY <1>2, <2>1, <2>2
<1>7. \A i \in N \union {n} : Has(c, i) => \E k \in DOMAIN s : s[k] = EntryOf(KeyOptions[i])
  BY <1>2, <1>5, Zenon DEF BuiltOf
<1>8. \A k, l \in DOMAIN s : s[k].pscode = s[l].pscode => k = l
  <2> SUFFICES ASSUME NEW k \in DOMAIN s, NEW l \in DOMAIN s, s[k].pscode = s[l].pscode
               PROVE  k = l
    OBVIOUS
  <2>1. CASE k \in DOMAIN m /\ l \in DOMAIN m
    BY <1>2, <1>5, <2>1 DEF BuiltOf
  <2>2. CASE k = x \/ l = x
    BY <1>2, <1>3, <1>4, <2>2
  <2> QED BY <1>2, <2>1, <2>2
<1>9. BuiltOf(c, s, N \union {n})
  BY <1>6, <1>7, <1>8 DEF BuiltOf
<1> QED BY <1>9 DEF s, N

\* A round of the loop goes on to the next option, or ends it.
LEMMA Round ==
    ASSUME IInv, pc = "keys", NextOption
    PROVE  /\ entry \in 1 .. 22 /\ 1 .. entry' - 1 = (1 .. entry - 1) \union {entry}
           /\ pc' = "keys" \/ (pc' = "done" /\ entry' = 23)
<1>1. entry \in 1 .. 22 /\ Len(KeyOptions) = 22
  BY Options DEF IInv, AtKeys
<1> QED BY <1>1 DEF NextOption

\* What is built does not depend on anything but the file in force.
LEMMA SameFile ==
    ASSUME UNCHANGED environment
    PROVE  /\ FileInForce' = FileInForce
           /\ \A c, m, N : BuiltOf(c, m, N)' <=> BuiltOf(c, m, N)
  BY Unchanging DEF BuiltOf, Has, EntryOf

LEMMA KeymapSkip == ASSUME IInv, KeymapInv, SkipOption PROVE KeymapInv'
<1>1. /\ pc = "keys" /\ NextOption /\ ~InFile(KeyOptions[entry])
      /\ UNCHANGED environment /\ UNCHANGED keymaps
  BY DEF SkipOption
<1>2. \A c : ~Has(c, entry)
  BY <1>1 DEF IInv, AtKeys, InFile, Has
<1>3. ASSUME NEW c \in 1 .. 2 PROVE BuiltOf(c, keymaps[c], (1 .. entry - 1) \union {entry})
  BY <1>1, <1>2, BuiltSkip DEF KeymapInv, Built
<1>4. \A c \in 1 .. 2 : BuiltOf(c, keymaps'[c], 1 .. entry' - 1)
  BY <1>1, <1>3, Round
<1> QED BY <1>1, <1>4, Round, SameFile DEF KeymapInv, Built

LEMMA KeymapAdd == ASSUME IInv, TypeOK, KeymapInv, AddEntry PROVE KeymapInv'
<1> DEFINE o == KeyOptions[entry]
           e == createEntry(o, conf_opts.keys[o])
           d == ControllerOf(o)
<1>1. /\ pc = "keys" /\ NextOption /\ InFile(o) /\ ValidEntry(e) /\ UNCHANGED environment
      /\ keymaps' = [keymaps EXCEPT ![d] = Append(@, e)]
  BY DEF AddEntry
<1>2. Has(d, entry) /\ e = EntryOf(o) /\ e \in KeyMapEntry
  <2>1. conf_opts = FileInForce /\ entry \in DOMAIN KeyOptions
    BY <1>1, Options DEF IInv, AtKeys
  <2>2. conf_opts.keys[o] \in LinuxKeys
    BY <1>1, Validity
  <2> QED BY <1>1, <2>1, <2>2 DEF InFile, Has, EntryOf, createEntry, KeyMapEntry
<1>3. d \in 1 .. 2 /\ keymaps \in [1 .. 2 -> Seq(KeyMapEntry)]
  BY SMT DEF ControllerOf, TypeOK
<1>4. \A c \in 1 .. 2 : c # d => ~Has(c, entry)
  BY DEF Has
<1>5. \A c \in 1 .. 2 : BuiltOf(c, keymaps[c], 1 .. entry - 1)
  BY <1>1 DEF KeymapInv, Built
<1> HIDE DEF d, e
<1>6. ASSUME NEW c \in 1 .. 2 PROVE BuiltOf(c, keymaps'[c], (1 .. entry - 1) \union {entry})
  <2>1. CASE c = d
    <3>1. keymaps'[c] = Append(keymaps[c], e)
      BY <1>1, <1>3, <2>1
    <3>2. BuiltOf(c, Append(keymaps[c], e), (1 .. entry - 1) \union {entry})
      BY <1>1, <1>2, <1>3, <1>5, <2>1, BuiltAdd, Round
    <3> QED BY <3>1, <3>2
  <2>2. CASE c # d
    <3>1. keymaps'[c] = keymaps[c]
      BY <1>1, <1>3, <2>2
    <3> QED BY <1>4, <1>5, <2>2, <3>1, BuiltSkip
  <2> QED BY <2>1, <2>2
<1>7. \A c \in 1 .. 2 : BuiltOf(c, keymaps'[c], 1 .. entry' - 1)
  BY <1>1, <1>6, Round
<1> QED BY <1>1, <1>7, Round, SameFile DEF KeymapInv, Built

LEMMA KeymapStep ==
    ASSUME IInv, TypeOK, KeymapInv, [Next]_vars PROVE KeymapInv'
<1>1. CASE SkipOption
  BY <1>1, KeymapSkip
<1>2. CASE AddEntry
  BY <1>2, KeymapAdd
<1>3. ASSUME UNCHANGED <<environment, keymaps, entry>> PROVE Built' <=> Built
  BY <1>3, SameFile DEF Built
<1>4. CASE CommandLineRefused \/ ConfigRefused \/ InvalidEntry
  <2>1. pc' = "done" /\ ~ok'
    BY <1>4 DEF CommandLineRefused, ConfigRefused, InvalidEntry, Rejected, IInv, AtParse
  <2> QED BY <2>1 DEF KeymapInv
<1>5. CASE HandleCmdLine
  <2>1. pc = "parse" /\ pc' = "file" /\ UNCHANGED <<environment, keymaps, entry>>
    BY <1>5, Zenon DEF HandleCmdLine
  <2> QED BY <1>3, <2>1 DEF KeymapInv
<1>6. CASE NoConfigFile
  <2>1. pc = "file" /\ pc' = "done" /\ UNCHANGED <<environment, keymaps, entry>> /\ ~configFileOK
    BY <1>6 DEF NoConfigFile
  <2>2. FileInForce' = FileInForce /\ DOMAIN FileInForce.keys = {}
    BY <2>1, Found, EmptyFileFacts, Unchanging
  <2> QED BY <1>3, <2>1, <2>2 DEF KeymapInv
<1>7. CASE ParseConfig
  <2>1. pc = "file" /\ pc' = "keys" /\ UNCHANGED <<environment, keymaps, entry>>
    BY <1>7, Zenon DEF ParseConfig
  <2> QED BY <1>3, <2>1 DEF KeymapInv
<1>8. CASE UNCHANGED vars
  <2>1. UNCHANGED <<environment, keymaps, entry, pc, ok>>
    BY <1>8 DEF vars
  <2>2. FileInForce' = FileInForce
    BY <2>1, Unchanging
  <2> QED BY <1>3, <2>1, <2>2 DEF KeymapInv
<1> QED BY <1>1, <1>2, <1>4, <1>5, <1>6, <1>7, <1>8 DEF Next

\* The key maps in use are those of the file in force, each button and gesture of a
\* controller once, for any files and key names (lines 321 to 345).
THEOREM KeymapsAsWrittenHolds == Spec => []KeymapsAsWritten
<1>1. Init => KeymapInv
  BY DEF Init, KeymapInv, Built, BuiltOf
<1>2. IInv /\ TypeOK /\ KeymapInv /\ [Next]_vars => KeymapInv'
  BY KeymapStep
<1>3. IInv /\ TypeOK /\ KeymapInv => KeymapsAsWritten
  <2> SUFFICES ASSUME IInv, KeymapInv, InUse, NEW c \in 1 .. 2
               PROVE  /\ {keymaps[c][i] : i \in DOMAIN keymaps[c]} =
                            {EntryOf(o) : o \in {p \in DOMAIN FileInForce.keys :
                                                    (p[1] = "PSBTN") = (c = 1)}}
                      /\ \A i, j \in DOMAIN keymaps[c] :
                            keymaps[c][i].pscode = keymaps[c][j].pscode => i = j
    BY DEF KeymapsAsWritten, EntryOf
  <2>1. Built /\ (entry = 23 \/ DOMAIN FileInForce.keys = {})
    BY DEF KeymapInv, InUse
  <2>2. \A p : ControllerOf(p) = c <=> (p[1] = "PSBTN") = (c = 1)
    BY DEF ControllerOf
  <2>3. ASSUME NEW k \in DOMAIN keymaps[c]
        PROVE  \E o \in DOMAIN FileInForce.keys :
                  ControllerOf(o) = c /\ keymaps[c][k] = EntryOf(o)
    BY <2>1, <2>3 DEF Built, BuiltOf, Has
  <2>4. ASSUME NEW o \in DOMAIN FileInForce.keys, ControllerOf(o) = c
        PROVE  \E k \in DOMAIN keymaps[c] : keymaps[c][k] = EntryOf(o)
    <3>1. PICK i \in 1 .. Len(KeyOptions) : o = KeyOptions[i]
      BY KeysKnown DEF IInv, Environment
    <3>2. i \in 1 .. entry - 1
      BY <2>1, <2>4, Options
    <3> QED BY <2>1, <2>4, <3>1, <3>2 DEF Built, BuiltOf, Has
  <2>5. {keymaps[c][i] : i \in DOMAIN keymaps[c]} =
            {EntryOf(o) : o \in {p \in DOMAIN FileInForce.keys : (p[1] = "PSBTN") = (c = 1)}}
    BY <2>2, <2>3, <2>4, Zenon
  <2> QED BY <2>1, <2>5 DEF Built, BuiltOf
<1> QED BY <1>1, <1>2, <1>3, Inductive, TypeCorrect, PTL DEF Spec
=============================================================================
