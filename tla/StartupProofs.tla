---------------------------- MODULE StartupProofs ----------------------------
(***************************************************************************)
(* For every command line, configuration file and number of starts, faults *)
(* and changes by the operator: what a process that serves has set up, when *)
(* it lacks TLS, and that no start replaces a pair that matches.           *)
(***************************************************************************)
EXTENDS Startup, TLAPS

Before == {"off", "args", "file", "init"}
Generating == {"open_key", "write_key", "open_cert", "write_cert"}
WithTls == {"certificate", "check_key", "load", "load_key"} \cup Generating
Configured == {"init", "server", "serve"} \cup WithTls

Sets(s, n, k) == s[n].opt = "set" /\ s[n].key = k

\* v is the value of key k after the first n entries of s.
Latest(s, n, k, v) ==
    \/ v = Defaults[k] /\ \A m \in 1..n : ~Sets(s, m, k)
    \/ \E m \in 1..n : /\ Sets(s, m, k) /\ v = s[m].val
                       /\ \A l \in 1..n : Sets(s, l, k) => l <= m

\* parse_args and config_load have applied what they have read so far.
ParseInv ==
    /\ (pc \in {"args", "file"}) => \A n \in 1..(i - 1) : argv[n].opt # "config"
    /\ (pc = "args") => (j = 1 /\ \A k \in Features : Latest(argv, i - 1, k, config[k]))
    /\ (pc = "file") =>
          /\ i \in 1..Len(argv) /\ argv[i].opt = "config"
          /\ file # NULL /\ j \in 1..(Len(file) + 1)
          /\ \A k \in Undisputed : Latest(file, j - 1, k, config[k])
    /\ (pc \in Configured) => \A k \in Undisputed : config[k] = Hierarchy(k)

\* What is set up at each point of main, failing calls left out.
UpInv ==
    /\ (pc \in Before) => (up = {} /\ ctx = Absent)
    /\ (pc \in Before \ {"off"}) => (failed = {})
    /\ (pc = "certificate") => (up = Enabled \ ({"ssl", "balancer"} \cup failed))
    /\ (pc \in (WithTls \ {"certificate"}) \cup {"server"}) => (up = Enabled \ ({"balancer"} \cup failed))
    /\ (pc \in WithTls \cup {"server"}) => ("balancer" \notin failed)
    /\ (pc = "serve") => (up = Enabled \ failed)
    /\ (pc \in WithTls) => (config["ssl"] /\ (pc # "load_key" => ctx = Absent))
    /\ (ctx # Absent) => config["ssl"]

\* Why the files are as they are while a pair is generated and loaded, when the
\* operator leaves them alone.
FilesInv ==
    /\ (pc = "load_key") => Whole(ctx)
    /\ ~touched =>
          /\ (pc = "check_key") => cert # Absent
          /\ (pc = "open_key") => (cert = Absent \/ key = Absent)
          /\ (pc = "write_key") => (key = Partial /\ cert < pair)
          /\ (pc = "open_cert") => (key = Partial \/ (key = pair /\ cert < pair))
          /\ (pc = "write_cert") => (cert = Partial /\ key # Absent)
          /\ (pc = "load") => ("generate" \in failed \/ (cert # Absent /\ key # Absent))
          /\ (pc = "load_key") => (cert = ctx /\ ("generate" \in failed \/ key # Absent))

StartupInv == TypeOK /\ ParseInv /\ UpInv /\ FilesInv

-----------------------------------------------------------------------------
(* Types.                                                                  *)

\* An argument list is a sequence of settings and words, and a file that is
\* there one of settings and comments.
LEMMA InputTypes ==
    ASSUME TypeOK
    PROVE  /\ argv \in Seq(Setting \cup Word) /\ Len(argv) \in Nat
           /\ \A n \in 1..Len(argv) : argv[n].opt = "set" => argv[n] \in Setting
           /\ file # NULL => /\ file \in Seq(Setting \cup Comment) /\ Len(file) \in Nat
                             /\ \A n \in 1..Len(file) : file[n].opt = "set" => file[n] \in Setting
<1>1. argv \in Seq(Setting \cup Word) /\ Len(argv) \in Nat
  BY InputAssumption DEF TypeOK
<1>2. ASSUME NEW n \in 1..Len(argv), argv[n].opt = "set" PROVE argv[n] \in Setting
  <2>1. argv[n] \in Setting \cup Word
    BY <1>1
  <2>2. argv[n] \notin Word
    BY <1>2 DEF Word
  <2>3. QED
    BY <2>1, <2>2
<1>3. ASSUME file # NULL PROVE file \in Seq(Setting \cup Comment) /\ Len(file) \in Nat
  BY <1>3, InputAssumption DEF TypeOK
<1>4. ASSUME file # NULL, NEW n \in 1..Len(file), file[n].opt = "set" PROVE file[n] \in Setting
  <2>1. file[n] \in Setting \cup Comment
    BY <1>3, <1>4
  <2>2. file[n] \notin Comment
    BY <1>4 DEF Comment
  <2>3. QED
    BY <2>1, <2>2
<1>5. QED
  BY <1>1, <1>2, <1>3, <1>4

\* Applying a setting keeps the configuration a function on the features.
LEMMA ConfigType ==
    ASSUME NEW c \in [Features -> BOOLEAN], NEW e \in Setting
    PROVE  [c EXCEPT ![e.key] = e.val] \in [Features -> BOOLEAN]
BY DEF Setting

\* Every step keeps every variable in its type.
LEMMA TypeStep ==
    ASSUME TypeOK, [Next]_vars, pc = "file" => file # NULL
    PROVE  TypeOK'
<1>0. MaxStarts \in Nat /\ MaxFaults \in Nat /\ MaxTouches \in Nat
  BY InputAssumption
<1>1. CASE Start
  <2>1. config' \in [Features -> BOOLEAN]
    BY <1>1 DEF Start, Defaults
  <2>2. i' \in 1..(Len(argv) + 1)
    BY <1>1, InputTypes DEF Start
  <2>3. QED
    BY <1>1, <2>1, <2>2, <1>0 DEF TypeOK, Start, inputs, files, Absent
<1>2. CASE ParseSetting
  <2>1. config' \in [Features -> BOOLEAN]
    BY <1>2, InputTypes, ConfigType DEF TypeOK, ParseSetting
  <2>2. i' \in 1..(Len(argv) + 1)
    BY <1>2, InputTypes DEF TypeOK, ParseSetting
  <2>3. QED
    BY <1>2, <2>1, <2>2 DEF TypeOK, ParseSetting, inputs, files, bounds
<1>3. CASE ParseIgnored
  <2>1. i' \in 1..(Len(argv) + 1)
    BY <1>3, InputTypes DEF TypeOK, ParseIgnored
  <2>2. QED
    BY <1>3, <2>1 DEF TypeOK, ParseIgnored, inputs, files, bounds
<1>4. CASE ParseHelp \/ ParseConfig \/ ParseEnd \/ LoadEnd
  BY <1>4 DEF TypeOK, ParseHelp, ParseConfig, ParseEnd, LoadEnd, Exit, inputs, parser, files, bounds
<1>5. CASE LoadLine
  <2>1. config' \in [Features -> BOOLEAN]
    BY <1>5, InputTypes, ConfigType DEF TypeOK, LoadLine
  <2>2. QED
    BY <1>5, <2>1 DEF TypeOK, LoadLine, inputs, files, bounds
<1>6. CASE InitSubsystems
  <2>1. up' \subseteq Features
    BY <1>6 DEF InitSubsystems, Enabled
  <2>2. faults' \in 0..MaxFaults
    BY <1>6, <1>0 DEF TypeOK, InitSubsystems, Fails
  <2>3. failed' \subseteq {"caching", "generate", "context", "balancer"}
    BY <1>6 DEF TypeOK, InitSubsystems, Fails
  <2>4. QED
    BY <1>6, <2>1, <2>2, <2>3 DEF TypeOK, InitSubsystems, inputs, parser, files
<1>7. CASE CheckCert \/ CheckKey
  <2>1. up' \subseteq Features
    BY <1>7 DEF TypeOK, CheckCert, CheckKey, Features
  <2>2. QED
    BY <1>7, <2>1 DEF TypeOK, CheckCert, CheckKey, inputs, parser, files, bounds
<1>8. CASE GenerateFails \/ FlushFails
  <2>1. CASE GenerateFails
    BY <2>1, <1>0 DEF TypeOK, GenerateFails, Fails, inputs, parser, files, bounds
  <2>2. CASE FlushFails
    BY <2>2, <1>0 DEF TypeOK, FlushFails, inputs, parser, files, bounds
  <2>3. QED
    BY <1>8, <2>1, <2>2
<1>9. CASE OpenKey \/ WriteKey \/ OpenCert \/ WriteCert
  <2>1. CASE OpenKey
    BY <2>1 DEF TypeOK, OpenKey, inputs, parser, files, bounds, Absent, Partial
  <2>2. CASE WriteKey
    BY <2>2 DEF TypeOK, WriteKey, Written, inputs, parser, files, bounds, Absent, Partial
  <2>3. CASE OpenCert
    BY <2>3 DEF TypeOK, OpenCert, inputs, parser, files, bounds, Absent, Partial
  <2>4. CASE WriteCert
    BY <2>4 DEF TypeOK, WriteCert, Written, inputs, parser, files, bounds, Absent, Partial
  <2>5. QED
    BY <1>9, <2>1, <2>2, <2>3, <2>4
<1>10. CASE LoadCert \/ LoadKey \/ ContextFails
  <2>1. CASE LoadCert
    BY <2>1 DEF TypeOK, LoadCert, inputs, parser, files, bounds, Absent, Partial
  <2>2. CASE LoadKey
    BY <2>2 DEF TypeOK, LoadKey, inputs, parser, files, bounds, Absent, Partial
  <2>3. CASE ContextFails
    BY <2>3, <1>0 DEF TypeOK, ContextFails, Fails, inputs, parser, files, bounds, Absent, Partial
  <2>4. QED
    BY <1>10, <2>1, <2>2, <2>3
<1>11. CASE StartServer
  <2>1. up' \subseteq Features
    BY <1>11 DEF TypeOK, StartServer, Enabled
  <2>2. faults' \in 0..MaxFaults
    BY <1>11, <1>0 DEF TypeOK, StartServer, Fails
  <2>3. failed' \subseteq {"caching", "generate", "context", "balancer"}
    BY <1>11 DEF TypeOK, StartServer, Fails
  <2>4. QED
    BY <1>11, <2>1, <2>2, <2>3 DEF TypeOK, StartServer, inputs, parser, files
<1>12. CASE StartServerFails \/ Cleanup \/ Crash
  <2>1. up' \subseteq Features
    BY <1>12 DEF TypeOK, StartServerFails, Cleanup, Crash
  <2>2. CASE StartServerFails
    BY <2>2, <2>1, <1>0 DEF TypeOK, StartServerFails, Exit, inputs, parser, files, bounds, Absent
  <2>3. CASE Cleanup
    BY <2>3, <2>1, <1>0 DEF TypeOK, Cleanup, Exit, inputs, parser, files, bounds, Absent
  <2>4. CASE Crash
    BY <2>4, <2>1, <1>0 DEF TypeOK, Crash, Exit, inputs, parser, files, bounds, Absent
  <2>5. QED
    BY <1>12, <2>2, <2>3, <2>4
<1>13. CASE OperatorTouches
  BY <1>13, <1>0 DEF TypeOK, OperatorTouches, inputs, parser, Absent, Partial, OperatorPair
<1>14. CASE UNCHANGED vars
  BY <1>14 DEF TypeOK, vars, inputs, parser, files, bounds
<1>15. QED
  BY <1>1, <1>2, <1>3, <1>4, <1>5, <1>6, <1>7, <1>8, <1>9, <1>10, <1>11, <1>12, <1>13, <1>14
  DEF Next, Main, Parse, Tls, Generate, Over

-----------------------------------------------------------------------------
(* The configuration.                                                      *)

\* Reading one more entry: the value it sets, or the value so far.
LEMMA LatestNext ==
    ASSUME NEW s, NEW n \in Nat, NEW k, NEW v, NEW w,
           Latest(s, n, k, v),
           Sets(s, n + 1, k) => w = s[n + 1].val,
           ~Sets(s, n + 1, k) => w = v
    PROVE  Latest(s, n + 1, k, w)
<1>0. 1..(n + 1) = 1..n \cup {n + 1} /\ n + 1 \in 1..(n + 1) /\ \A m \in 1..n : m <= n + 1
  OBVIOUS
<1>1. CASE Sets(s, n + 1, k)
  <2>1. \A l \in 1..(n + 1) : l <= n + 1
    OBVIOUS
  <2>2. QED
    BY <1>0, <1>1, <2>1 DEF Latest
<1>2. CASE ~Sets(s, n + 1, k)
  BY <1>0, <1>2 DEF Latest
<1>3. QED
  BY <1>1, <1>2

\* After the last entry the value is the last one that the list gives.
LEMMA LatestIsLast ==
    ASSUME NEW s, NEW n \in Nat, DOMAIN s = 1..n, NEW k, NEW v, Latest(s, n, k, v)
    PROVE  v = LastOf(s, k, Defaults[k])
<1> DEFINE sets == {m \in DOMAIN s : s[m].opt = "set" /\ s[m].key = k}
           last == CHOOSE m \in sets : \A l \in sets : l <= m
<1>1. ASSUME v = Defaults[k], \A m \in 1..n : ~Sets(s, m, k)
      PROVE  v = IF sets = {} THEN Defaults[k] ELSE s[last].val
  <2>1. sets = {}
    BY <1>1 DEF Sets
  <2>2. QED
    BY <1>1, <2>1
<1>2. ASSUME NEW m \in 1..n, Sets(s, m, k), v = s[m].val,
             \A l \in 1..n : Sets(s, l, k) => l <= m
      PROVE  v = IF sets = {} THEN Defaults[k] ELSE s[last].val
  <2>1. m \in sets /\ \A l \in sets : l <= m
    BY <1>2 DEF Sets
  <2>2. last \in sets /\ \A l \in sets : l <= last
    BY <2>1
  <2>3. last = m
    <3>1. sets \subseteq Nat
      OBVIOUS
    <3> HIDE DEF last, sets
    <3>2. QED
      BY <2>1, <2>2, <3>1
  <2>4. QED
    BY <1>2, <2>1, <2>3
<1>3. v = IF sets = {} THEN Defaults[k] ELSE s[last].val
  BY <1>1, <1>2 DEF Latest
<1>4. QED
  BY <1>3 DEF LastOf

\* The inputs decide what is in dispute and what takes effect.
LEMMA InputsFixed ==
    ASSUME argv' = argv, file' = file
    PROVE  /\ Undisputed' = Undisputed /\ \A k : Hierarchy(k)' = Hierarchy(k)
<1>1. ReadsFile' <=> ReadsFile
  BY DEF ReadsFile
<1>2. Undisputed' = Undisputed
  BY <1>1 DEF Undisputed
<1>3. QED
  BY <1>1, <1>2 DEF Hierarchy, LastOf

\* Every step of the two parsers applies one more entry, in order.
LEMMA ParseStep ==
    ASSUME TypeOK, ParseInv, [Next]_vars
    PROVE  ParseInv'
<1>0. argv' = argv /\ file' = file
  BY DEF Next, vars, Main, Parse, Tls, Generate, Over, Start, ParseSetting, ParseIgnored, ParseHelp,
         ParseConfig, ParseEnd, LoadLine, LoadEnd, InitSubsystems, CheckCert, CheckKey, GenerateFails,
         OpenKey, WriteKey, OpenCert, WriteCert, FlushFails, LoadCert, LoadKey, ContextFails,
         StartServer, StartServerFails, Cleanup, Crash, OperatorTouches, inputs
<1>a. Undisputed' = Undisputed /\ (\A k : Hierarchy(k)' = Hierarchy(k)) /\ Undisputed \subseteq Features
  BY <1>0, InputsFixed DEF Undisputed
<1>b. Len(argv) \in Nat /\ i \in 1..(Len(argv) + 1) /\ j \in Nat \ {0}
  BY InputTypes DEF TypeOK
<1> USE DEF WithTls
<1>1. CASE Start
  <2>1. \A k \in Features : Latest(argv, 0, k, Defaults[k])
    BY DEF Latest
  <2>2. QED
    BY <1>0, <1>1, <2>1 DEF ParseInv, Start, Configured, Generating
<1>2. CASE ParseSetting
  <2>1. argv[i] \in Setting /\ i - 1 \in Nat /\ (i - 1) + 1 = i
    BY <1>2, <1>b, InputTypes DEF ParseSetting
  <2>2. ASSUME NEW k \in Features PROVE Latest(argv, i, k, config'[k])
    <3>1. config'[k] = IF k = argv[i].key THEN argv[i].val ELSE config[k]
      BY <1>2, <2>1 DEF ParseSetting, TypeOK, Setting
    <3>2. Latest(argv, i - 1, k, config[k])
      BY <1>2 DEF ParseInv, ParseSetting
    <3>3. Sets(argv, i, k) <=> k = argv[i].key
      BY <1>2 DEF Sets, ParseSetting
    <3>4. QED
      BY <2>1, <3>1, <3>2, <3>3, LatestNext
  <2>3. \A n \in 1..i : argv[n].opt # "config"
    BY <1>2, <1>b DEF ParseInv, ParseSetting
  <2>4. pc' = "args" /\ i' = i + 1 /\ (i + 1) - 1 = i /\ j' = 1
    BY <1>2, <1>b DEF ParseSetting, ParseInv
  <2>5. QED
    BY <1>0, <2>2, <2>3, <2>4 DEF ParseInv, Configured, Generating
<1>3. CASE ParseIgnored
  <2>1. i - 1 \in Nat /\ (i - 1) + 1 = i
    BY <1>b
  <2>2. ASSUME NEW k \in Features PROVE Latest(argv, i, k, config[k])
    <3>1. Latest(argv, i - 1, k, config[k])
      BY <1>3 DEF ParseInv, ParseIgnored
    <3>2. ~Sets(argv, i, k)
      BY <1>3 DEF Sets, ParseIgnored
    <3>3. QED
      BY <2>1, <3>1, <3>2, LatestNext
  <2>3. \A n \in 1..i : argv[n].opt # "config"
    BY <1>3, <1>b DEF ParseInv, ParseIgnored
  <2>4. pc' = "args" /\ i' = i + 1 /\ (i + 1) - 1 = i /\ config' = config /\ j' = 1
    BY <1>3, <1>b DEF ParseIgnored, ParseInv
  <2>5. QED
    BY <1>0, <2>2, <2>3, <2>4 DEF ParseInv, Configured, Generating
<1>4. CASE ParseHelp \/ (ParseConfig /\ file = NULL)
  BY <1>4 DEF ParseInv, ParseHelp, ParseConfig, Exit, Configured, Generating
<1>5. CASE ParseConfig /\ file # NULL
  <2>1. /\ Len(file) \in Nat /\ i \in 1..Len(argv) /\ argv[i].opt = "config" /\ DOMAIN argv = 1..Len(argv)
    BY <1>5, <1>b, InputTypes DEF ParseConfig
  <2>2. ASSUME NEW k \in Undisputed PROVE Latest(file, 0, k, config[k])
    <3>1. Latest(argv, i - 1, k, config[k])
      BY <1>a, <1>5 DEF ParseInv, ParseConfig
    <3>2. \A m \in 1..(i - 1) : ~Sets(argv, m, k)
      BY <2>1 DEF Undisputed, ReadsFile, Sets
    <3>3. config[k] = Defaults[k]
      BY <3>1, <3>2 DEF Latest
    <3>4. QED
      BY <3>3 DEF Latest
  <2>3. pc' = "file" /\ UNCHANGED <<i, j, config>> /\ pc = "args" /\ j = 1 /\ j - 1 = 0
    BY <1>5, <1>b DEF ParseConfig, parser, ParseInv
  <2>4. \A n \in 1..(i - 1) : argv[n].opt # "config"
    BY <2>3 DEF ParseInv
  <2>5. QED
    BY <1>0, <1>a, <1>b, <2>1, <2>2, <2>3, <2>4, <1>5 DEF ParseInv, Configured, Generating
<1>6. CASE ParseEnd
  <2>1. i - 1 = Len(argv) /\ DOMAIN argv = 1..Len(argv)
    BY <1>6, <1>b, InputTypes DEF ParseEnd
  <2>2. ~ReadsFile
    BY <1>6, <2>1 DEF ParseInv, ParseEnd, ReadsFile
  <2>3. ASSUME NEW k \in Undisputed PROVE config[k] = Hierarchy(k)
    <3>1. Latest(argv, Len(argv), k, config[k])
      BY <1>6, <1>a, <2>1 DEF ParseInv, ParseEnd
    <3>2. config[k] = LastOf(argv, k, Defaults[k])
      BY <1>b, <2>1, <3>1, LatestIsLast
    <3>3. QED
      BY <2>2, <3>2 DEF Hierarchy
  <2>4. pc' = "init" /\ config' = config
    BY <1>6 DEF ParseEnd, parser
  <2>5. QED
    BY <1>a, <2>3, <2>4 DEF ParseInv
<1>7. CASE LoadLine
  <2>1. /\ file # NULL /\ Len(file) \in Nat /\ i \in 1..Len(argv) /\ j \in 1..Len(file)
        /\ j - 1 \in Nat /\ (j - 1) + 1 = j /\ (j + 1) - 1 = j
        /\ \A k \in Undisputed : Latest(file, j - 1, k, config[k])
    BY <1>7, <1>b, InputTypes DEF LoadLine, ParseInv
  <2>2. ASSUME NEW k \in Undisputed PROVE Latest(file, j, k, config'[k])
    <3>1. config'[k] = IF file[j].opt = "set" /\ k = file[j].key THEN file[j].val ELSE config[k]
      <4>1. file[j].opt = "set" => file[j] \in Setting
        BY <2>1, InputTypes
      <4>2. QED
        BY <1>7, <1>a, <4>1 DEF LoadLine, TypeOK, Setting
    <3>2. Sets(file, j, k) <=> (file[j].opt = "set" /\ k = file[j].key)
      BY DEF Sets
    <3>3. Latest(file, j - 1, k, config[k])
      BY <2>1
    <3>4. QED
      BY <2>1, <3>1, <3>2, <3>3, LatestNext
  <2>3. /\ pc = "file" /\ pc' = "file" /\ i' = i /\ j' = j + 1 /\ j + 1 \in 1..(Len(file) + 1)
        /\ argv[i].opt = "config"
    BY <1>7, <2>1 DEF LoadLine, ParseInv
  <2>4. \A m \in 1..(i - 1) : argv[m].opt # "config"
    BY <2>3 DEF ParseInv
  <2>5. QED
    BY <1>0, <1>a, <2>1, <2>2, <2>3, <2>4 DEF ParseInv, Configured, Generating
<1>8. CASE LoadEnd
  <2>1. /\ file \in Seq(Setting \cup Comment) /\ Len(file) \in Nat /\ j - 1 = Len(file)
        /\ argv \in Seq(Setting \cup Word) /\ i \in 1..Len(argv) /\ argv[i].opt = "config"
        /\ \A k \in Undisputed : Latest(file, j - 1, k, config[k])
    BY <1>8, <1>b, InputTypes DEF LoadEnd, ParseInv
  <2>2. ReadsFile
    BY <2>1 DEF ReadsFile
  <2>3. ASSUME NEW k \in Undisputed PROVE config[k] = Hierarchy(k)
    <3>1. DOMAIN file = 1..Len(file) /\ Latest(file, Len(file), k, config[k])
      BY <2>1
    <3>2. config[k] = LastOf(file, k, Defaults[k])
      BY <2>1, <3>1, LatestIsLast
    <3>3. {n \in DOMAIN argv : argv[n].opt = "set" /\ argv[n].key = k} = {}
      BY <2>2 DEF Undisputed
    <3>4. \A v : LastOf(argv, k, v) = v
      BY <3>3 DEF LastOf
    <3>5. QED
      BY <2>2, <3>2, <3>4 DEF Hierarchy
  <2>4. pc' = "init" /\ config' = config
    BY <1>8 DEF LoadEnd, parser
  <2>5. QED
    BY <1>a, <2>3, <2>4 DEF ParseInv
<1>9. CASE InitSubsystems \/ Tls \/ StartServer
  <2>1. pc \in Configured /\ pc' \in Configured \ {"init"} /\ config' = config
    BY <1>9 DEF InitSubsystems, Tls, CheckCert, CheckKey, Generate, GenerateFails, OpenKey, WriteKey,
                OpenCert, WriteCert, FlushFails, LoadCert, LoadKey, ContextFails, StartServer, parser,
                Configured, Generating
  <2>2. pc' \notin {"args", "file"}
    BY <2>1 DEF Configured, Generating
  <2>3. QED
    BY <1>a, <2>1, <2>2 DEF ParseInv
<1>10. CASE StartServerFails \/ Cleanup \/ Crash
  BY <1>10 DEF ParseInv, StartServerFails, Cleanup, Crash, Exit, Configured, Generating
<1>11. CASE UNCHANGED <<pc, i, j, config>>
  BY <1>0, <1>a, <1>11 DEF ParseInv, Latest, Sets
<1>12. QED
  <2>1. CASE OperatorTouches \/ UNCHANGED vars
    BY <1>11, <2>1 DEF OperatorTouches, vars, parser
  <2>2. QED
    BY <1>1, <1>2, <1>3, <1>4, <1>5, <1>6, <1>7, <1>8, <1>9, <1>10, <2>1
    DEF Next, Main, Parse, Over

-----------------------------------------------------------------------------
(* The subsystems and the files.                                           *)

\* Every step of main keeps what is set up in line with where main is.
LEMMA UpStep ==
    ASSUME TypeOK, UpInv, [Next]_vars
    PROVE  UpInv'
<1> USE DEF Before, Generating, WithTls
<1>1. CASE Start
  BY <1>1 DEF UpInv, Start
<1>2. CASE Parse
  BY <1>2 DEF UpInv, Parse, ParseSetting, ParseIgnored, ParseHelp, ParseConfig, ParseEnd, LoadLine,
              LoadEnd, Exit
<1>3. CASE InitSubsystems
  <2>1. Enabled' = Enabled /\ (~config["ssl"] => "ssl" \notin Enabled)
    BY <1>3 DEF InitSubsystems, Enabled, parser
  <2>2. failed = {} /\ ctx = Absent /\ config' = config /\ ctx' = ctx
    BY <1>3 DEF UpInv, InitSubsystems, parser
  <2>3. pc' = IF config["ssl"] THEN "certificate" ELSE "server"
    BY <1>3 DEF InitSubsystems
  <2>4. /\ up' = Enabled \ ({"ssl", "balancer"} \cup failed') /\ "balancer" \notin failed'
    BY <1>3, <2>2 DEF InitSubsystems, Fails
  <2>5. QED
    BY <2>1, <2>2, <2>3, <2>4 DEF UpInv
<1>4. CASE CheckCert
  <2>1. Enabled' = Enabled /\ "ssl" \in Enabled /\ "ssl" \notin failed
    BY <1>4 DEF UpInv, CheckCert, Enabled, parser, Features, TypeOK
  <2>2. QED
    BY <1>4, <2>1 DEF UpInv, CheckCert, parser
<1>5. CASE CheckKey \/ OpenKey \/ WriteKey \/ OpenCert \/ WriteCert \/ FlushFails \/ LoadCert \/ LoadKey
  <2>1. Enabled' = Enabled
    BY <1>5 DEF CheckKey, OpenKey, WriteKey, OpenCert, WriteCert, FlushFails, LoadCert, LoadKey,
                Enabled, parser
  <2>2. QED
    BY <1>5, <2>1 DEF UpInv, CheckKey, OpenKey, WriteKey, OpenCert, WriteCert, FlushFails,
                      LoadCert, LoadKey, parser
<1>6. CASE GenerateFails \/ ContextFails
  <2>1. Enabled' = Enabled
    BY <1>6 DEF GenerateFails, ContextFails, Enabled, parser
  <2>2. Enabled \ ({"balancer"} \cup failed') = Enabled \ ({"balancer"} \cup failed)
    BY <1>6 DEF GenerateFails, ContextFails, Fails, Enabled, Features
  <2>3. QED
    BY <1>6, <2>1, <2>2 DEF UpInv, GenerateFails, ContextFails, Fails, parser
<1>7. CASE StartServer
  <2>1. Enabled' = Enabled
    BY <1>7 DEF StartServer, Enabled, parser
  <2>2. QED
    BY <1>7, <2>1 DEF UpInv, StartServer, Fails, parser
<1>8. CASE Cleanup
  BY <1>8 DEF UpInv, Cleanup, Exit
<1>9. CASE StartServerFails \/ Crash
  BY <1>9 DEF UpInv, StartServerFails, Crash, Exit
<1>10. CASE UNCHANGED <<pc, up, ctx, failed, config>>
  BY <1>10 DEF UpInv, Enabled
<1>11. QED
  <2>1. CASE OperatorTouches \/ UNCHANGED vars
    BY <1>10, <2>1 DEF OperatorTouches, vars, parser
  <2>2. QED
    BY <1>1, <1>2, <1>3, <1>4, <1>5, <1>6, <1>7, <1>8, <1>9, <2>1 DEF Next, Main, Tls, Generate, Over

\* Every step, crashes and failed writes included, leaves the files as the
\* next one expects them.
LEMMA FilesStep ==
    ASSUME TypeOK, FilesInv, [Next]_vars
    PROVE  FilesInv'
<1> USE DEF Absent, Partial, Whole
<1>0. {cert, key, ctx, pair} \subseteq Nat /\ cert <= pair /\ key <= pair /\ pair > 1
  BY DEF TypeOK
<1>1. CASE Start
  BY <1>1 DEF FilesInv, Start
<1>2. CASE Parse
  BY <1>2 DEF FilesInv, Parse, ParseSetting, ParseIgnored, ParseHelp, ParseConfig,
              ParseEnd, LoadLine, LoadEnd, Exit
<1>3. CASE InitSubsystems
  BY <1>3 DEF FilesInv, InitSubsystems
<1>4. CASE CheckCert \/ CheckKey
  BY <1>4 DEF FilesInv, CheckCert, CheckKey, CertMissing, KeyMissing, files
<1>5. CASE GenerateFails
  BY <1>5 DEF FilesInv, GenerateFails, Fails, files
<1>6. CASE OpenKey \/ WriteKey
  BY <1>0, <1>6 DEF FilesInv, OpenKey, WriteKey, Written
<1>7. CASE OpenCert \/ WriteCert
  BY <1>0, <1>7 DEF FilesInv, OpenCert, WriteCert, Written
<1>8. CASE FlushFails
  BY <1>0, <1>8 DEF FilesInv, FlushFails, files
<1>9. CASE LoadCert \/ LoadKey \/ ContextFails \/ StartServer
  BY <1>0, <1>9 DEF FilesInv, LoadCert, LoadKey, ContextFails, StartServer, files
<1>10. CASE StartServerFails \/ Cleanup \/ Crash
  BY <1>10 DEF FilesInv, StartServerFails, Cleanup, Crash, Exit
<1>11. CASE OperatorTouches
  BY <1>11 DEF FilesInv, OperatorTouches
<1>12. CASE UNCHANGED vars
  BY <1>12 DEF FilesInv, vars, files
<1>13. QED
  BY <1>1, <1>2, <1>3, <1>4, <1>5, <1>6, <1>7, <1>8, <1>9, <1>10, <1>11, <1>12
  DEF Next, Main, Tls, Generate, Over

-----------------------------------------------------------------------------
(* Theorems.                                                               *)

\* The invariant holds at the first start.
LEMMA StartupInvInit ==
    ASSUME Init
    PROVE  StartupInv
<1>1. config \in [Features -> BOOLEAN]
  BY DEF Init, Defaults
<1>2. i \in 1..(Len(argv) + 1)
  BY InputAssumption DEF Init
<1>3. failed = {} /\ touched = FALSE
  BY DEF Init
<1>4. TypeOK
  <2>1. starts \in 0..MaxStarts /\ faults \in 0..MaxFaults /\ touches \in 0..MaxTouches
    BY InputAssumption DEF Init
  <2>2. pair \in Nat \ {Absent, Partial} /\ {cert, key, ctx} \subseteq 0..pair
    BY DEF Init, Absent, Partial, OperatorPair
  <2>3. argv \in CommandLines /\ file \in ConfigFiles /\ pc = "off" /\ status \in {0, 1}
    BY DEF Init
  <2>4. up \subseteq Features /\ j \in Nat \ {0}
    BY DEF Init
  <2>5. failed \subseteq {"caching", "generate", "context", "balancer"} /\ touched \in BOOLEAN
    BY <1>3
  <2>6. QED
    BY <1>1, <1>2, <2>1, <2>2, <2>3, <2>4, <2>5 DEF TypeOK
<1>5. ParseInv /\ UpInv /\ FilesInv
  BY DEF Init, ParseInv, UpInv, FilesInv, Configured, WithTls, Generating, Before
<1>6. QED
  BY <1>4, <1>5 DEF StartupInv

\* The invariant holds in every state of the process, over all its starts.
THEOREM StartupInvariant == Spec => []StartupInv
<1>1. StartupInv /\ [Next]_vars => StartupInv'
  BY TypeStep, ParseStep, UpStep, FilesStep DEF StartupInv, ParseInv
<1>2. QED
  BY <1>1, StartupInvInit, PTL DEF Spec

\* Type correctness of the process.
THEOREM StartupTypeCorrect == Spec => []TypeOK
BY StartupInvariant, PTL DEF StartupInv

\* A process that serves has set up what the hierarchy of defaults, file and
\* command line turns on, but for what they compete for and what failed, and a
\* regular end has cleaned all of it up.
THEOREM FeaturesTheorem == Spec => []FeaturesAsConfigured
<1>1. StartupInv => FeaturesAsConfigured
  <2> SUFFICES ASSUME StartupInv PROVE FeaturesAsConfigured
    OBVIOUS
  <2>1. ASSUME pc = "serve", NEW k \in Undisputed
        PROVE  (k \in up) <=> (Hierarchy(k) /\ k \notin failed)
    <3>1. config[k] = Hierarchy(k) /\ k \in Features
      BY <2>1 DEF StartupInv, ParseInv, Configured, Undisputed
    <3>2. up = Enabled \ failed
      BY <2>1 DEF StartupInv, UpInv
    <3>3. (k \in Enabled) <=> config[k]
      BY <3>1 DEF Enabled
    <3>4. QED
      BY <3>1, <3>2, <3>3, Zenon
  <2>2. ASSUME pc = "off" PROVE up = {} /\ ctx = Absent
    BY <2>2 DEF StartupInv, UpInv, Before
  <2>3. QED
    BY <2>1, <2>2 DEF FeaturesAsConfigured
<1>2. QED
  BY <1>1, StartupInvariant, PTL

\* main goes on without a context only with a cause that ssl.c reports, or that
\* lies in the files or with the operator, and with one only if it is a pair.
THEOREM TlsOffTheorem == Spec => TlsOffHasCause
<1>1. ASSUME StartupInv, [Next]_vars, pc \in {"load", "load_key"}, pc' = "server"
      PROVE  IF ctx' = Absent
             THEN \/ failed' \cap {"generate", "context"} # {} \/ touched
                  \/ cert # Absent /\ key # Absent /\ ~(Whole(cert) /\ Whole(key) /\ cert = key)
             ELSE key = ctx' /\ (touched \/ cert = ctx')
  <2>1. LoadCert \/ LoadKey \/ ContextFails
    BY <1>1 DEF Next, vars, Main, Parse, Tls, Generate, Over, Start, ParseSetting, ParseIgnored,
        ParseHelp, ParseConfig, ParseEnd, LoadLine, LoadEnd, InitSubsystems, CheckCert, CheckKey,
        GenerateFails, OpenKey, WriteKey, OpenCert, WriteCert, FlushFails, StartServer,
        StartServerFails, Cleanup, Crash, OperatorTouches, Exit
  <2>2. FilesInv
    BY <1>1 DEF StartupInv
  <2>3. CASE LoadCert
    BY <1>1, <2>2, <2>3 DEF FilesInv, LoadCert, Whole, Absent, Partial
  <2>4. CASE LoadKey
    BY <1>1, <2>2, <2>4 DEF FilesInv, LoadKey, KeyFits, Whole, Absent, Partial
  <2>5. CASE ContextFails
    BY <1>1, <2>5 DEF ContextFails, Fails
  <2>6. QED
    BY <2>1, <2>3, <2>4, <2>5
<1>2. StartupInv /\ [Next]_vars
        => [(pc \in {"load", "load_key"} /\ pc' = "server") =>
              IF ctx' = Absent
              THEN \/ failed' \cap {"generate", "context"} # {} \/ touched
                   \/ cert # Absent /\ key # Absent /\ ~(Whole(cert) /\ Whole(key) /\ cert = key)
              ELSE key = ctx' /\ (touched \/ cert = ctx')]_vars
  BY <1>1
<1>3. QED
  BY <1>2, StartupInvariant, PTL DEF Spec, TlsOffHasCause

\* No step of any start overwrites a file of a pair that matches, unless the
\* operator changes the files under the process.
THEOREM GoodPairTheorem == Spec => GoodPairStays
<1>1. ASSUME StartupInv, [Next]_vars
      PROVE  [(cert = key /\ Whole(cert) /\ ~touched /\ ~touched') => (cert' = cert /\ key' = key)]_vars
  <2>1. CASE OperatorTouches
    BY <2>1 DEF OperatorTouches
  <2>2. CASE OpenKey \/ WriteKey \/ OpenCert \/ WriteCert
    BY <1>1, <2>2 DEF StartupInv, TypeOK, FilesInv, OpenKey, WriteKey, OpenCert, WriteCert,
                      Whole, Partial, Absent
  <2>3. CASE ~(OperatorTouches \/ OpenKey \/ WriteKey \/ OpenCert \/ WriteCert)
    BY <1>1, <2>3
    DEF Next, vars, Main, Parse, Tls, Generate, Over, Start, ParseSetting, ParseIgnored, ParseHelp,
        ParseConfig, ParseEnd, LoadLine, LoadEnd, InitSubsystems, CheckCert, CheckKey, GenerateFails,
        FlushFails, LoadCert, LoadKey, ContextFails, StartServer, StartServerFails, Cleanup, Crash, files
  <2>4. QED
    BY <2>1, <2>2, <2>3
<1>2. QED
  BY <1>1, StartupInvariant, PTL DEF Spec, GoodPairStays
=============================================================================
