------------------------------- MODULE Startup -------------------------------
(***************************************************************************)
(* The process from main to its exit (src/main.c), with its configuration   *)
(* (src/utils/config.c) and the certificate files and TLS context           *)
(* (src/protocols/ssl.c).  The process may crash between any two steps and  *)
(* is started again with the same command line and configuration file; only *)
(* the certificate and key files survive.  The operator may remove or       *)
(* replace these at any time, under the running process too.               *)
(*                                                                         *)
(* The configuration is which features are on; reverse mode is the feature  *)
(* "balancer".  A file is Absent, Partial if it is there but cannot be      *)
(* loaded (cut short, or not readable), or holds one half of a pair, named  *)
(* by a number: a certificate and a key match when these are equal.        *)
(***************************************************************************)
EXTENDS Naturals, Sequences, FiniteSets

CONSTANTS CommandLines,   \* the argument lists
          ConfigFiles,    \* the lines of proxy.conf, or NULL without the file
          MaxStarts,      \* bound on the starts of the process
          MaxFaults,      \* bound on crashes and failing calls
          MaxTouches,     \* bound on files the operator removes or replaces
          NULL

Features == {"logging", "caching", "auth", "filtering", "ratelimit",
             "compression", "ssl", "balancer"}

\* An argument or a line of the file that sets a key, and any other argument.
Setting == [opt : {"set"}, key : Features, val : BOOLEAN]
Word == [opt : {"help", "config", "ignored"}]
Comment == [opt : {"ignored"}]

ASSUME InputAssumption ==
    /\ CommandLines \subseteq Seq(Setting \cup Word)
    /\ ConfigFiles \subseteq Seq(Setting \cup Comment) \cup {NULL}
    /\ {MaxStarts, MaxFaults, MaxTouches} \subseteq Nat

Absent == 0
Partial == 1
OperatorPair == 2
Whole(f) == f > Partial

VARIABLES
    argv, file,     \* fixed
    pc, status,     \* where main is, and its exit status
    i, j,           \* next argument of parse_args, next line of config_load
    config,         \* g_config
    up,             \* subsystems initialised and not cleaned up
    ctx,            \* g_server_ssl_ctx: the certificate it holds, Absent for NULL
    cert, key,      \* the files
    pair,           \* the last pair generated
    failed,         \* the calls that failed in this start, with main going on
    touched,        \* whether the operator changed a file since access() of the first
    starts, faults, touches

files == <<cert, key, pair>>
parser == <<i, j, config>>
inputs == <<argv, file>>
bounds == <<starts, faults, touches>>
vars == <<inputs, pc, status, parser, up, ctx, files, failed, touched, bounds>>

\* config_set_defaults.
Defaults == [k \in Features |-> k = "logging"]

Init ==
    /\ argv \in CommandLines /\ file \in ConfigFiles
    /\ pc = "off" /\ status = 0
    /\ i = 1 /\ j = 1 /\ config = Defaults
    /\ up = {} /\ ctx = Absent /\ failed = {} /\ touched = FALSE
    /\ cert \in {Absent, Partial, OperatorPair} /\ key \in {Absent, Partial, OperatorPair}
    /\ pair = OperatorPair
    /\ starts = 0 /\ faults = 0 /\ touches = 0

-----------------------------------------------------------------------------
(* The configuration.                                                      *)

Start ==
    /\ pc = "off" /\ starts < MaxStarts
    /\ starts' = starts + 1
    /\ pc' = "args" /\ i' = 1 /\ j' = 1 /\ config' = Defaults
    /\ up' = {} /\ ctx' = Absent /\ failed' = {} /\ status' = 0
    /\ UNCHANGED <<inputs, files, touched, faults, touches>>

\* main returns with status s; the operating system takes the rest.
Exit(s) == pc' = "off" /\ status' = s

\* parse_args: one argument, with the value it takes.
ParseSetting ==
    /\ pc = "args" /\ i <= Len(argv) /\ argv[i].opt = "set"
    /\ config' = [config EXCEPT ![argv[i].key] = argv[i].val]
    /\ i' = i + 1
    /\ UNCHANGED <<inputs, pc, status, j, up, ctx, files, failed, touched, bounds>>

\* An option that is not known, or lacks its value, or has an unknown value.
ParseIgnored ==
    /\ pc = "args" /\ i <= Len(argv) /\ argv[i].opt = "ignored"
    /\ i' = i + 1
    /\ UNCHANGED <<inputs, pc, status, j, config, up, ctx, files, failed, touched, bounds>>

ParseHelp ==
    /\ pc = "args" /\ i <= Len(argv) /\ argv[i].opt = "help"
    /\ Exit(1)
    /\ UNCHANGED <<inputs, parser, up, ctx, files, failed, touched, bounds>>

\* -c: config_load, whose result parse_args returns.
ParseConfig ==
    /\ pc = "args" /\ i <= Len(argv) /\ argv[i].opt = "config"
    /\ IF file = NULL THEN Exit(1) ELSE pc' = "file" /\ UNCHANGED status
    /\ UNCHANGED <<inputs, parser, up, ctx, files, failed, touched, bounds>>

ParseEnd ==
    /\ pc = "args" /\ i > Len(argv)
    /\ pc' = "init"
    /\ UNCHANGED <<inputs, status, parser, up, ctx, files, failed, touched, bounds>>

\* Faulty variant: the first line that sets a key wins.
LoadLineFirst ==
    /\ pc = "file" /\ j <= Len(file)
    /\ j' = j + 1
    /\ config' = IF file[j].opt = "set" /\ config[file[j].key] = Defaults[file[j].key]
                 THEN [config EXCEPT ![file[j].key] = file[j].val] ELSE config
    /\ UNCHANGED <<inputs, pc, status, i, up, ctx, files, failed, touched, bounds>>

\* A line that sets a key, or a comment, an unknown key or an unknown mode.
LoadLine ==
    /\ pc = "file" /\ j <= Len(file)
    /\ j' = j + 1
    /\ config' = IF file[j].opt = "set"
                 THEN [config EXCEPT ![file[j].key] = file[j].val] ELSE config
    /\ UNCHANGED <<inputs, pc, status, i, up, ctx, files, failed, touched, bounds>>

LoadEnd ==
    /\ pc = "file" /\ j > Len(file)
    /\ pc' = "init"
    /\ UNCHANGED <<inputs, status, parser, up, ctx, files, failed, touched, bounds>>

-----------------------------------------------------------------------------
(* The subsystems.                                                         *)

Enabled == {k \in Features : config[k]}

\* A call that fails, with main going on.
Fails(call) ==
    /\ faults < MaxFaults /\ faults' = faults + 1
    /\ failed' = failed \cup {call}

\* Logger, cache, users, filters, rate limits and compression, in this order.
\* cache_init may lack the memory for its table, and main does not notice; the
\* others always succeed, the logger on stderr if need be.
InitSubsystems ==
    /\ pc = "init"
    /\ \/ /\ up' = Enabled \ {"ssl", "balancer"}
          /\ UNCHANGED <<failed, faults>>
       \/ /\ config["caching"] /\ Fails("caching")
          /\ up' = Enabled \ {"ssl", "balancer", "caching"}
    /\ pc' = IF config["ssl"] THEN "certificate" ELSE "server"
    /\ UNCHANGED <<inputs, status, parser, ctx, files, touched, starts, touches>>

\* Faulty variant: only the key file is looked for.
CertNotLookedFor == FALSE

\* access() of the certificate file.
CertMissing == cert = Absent

\* ssl_init, and the first access().
CheckCert ==
    /\ pc = "certificate"
    /\ pc' = IF CertMissing THEN "open_key" ELSE "check_key"
    /\ up' = up \cup {"ssl"} /\ touched' = FALSE
    /\ UNCHANGED <<inputs, status, parser, ctx, files, failed, bounds>>

\* Faulty variant: a new pair is made at every start.
KeyAlwaysMissing == TRUE

\* Faulty variant: only the certificate file is looked for.
KeyNotLookedFor == FALSE

\* access() of the key file.
KeyMissing == key = Absent

CheckKey ==
    /\ pc = "check_key"
    /\ pc' = IF KeyMissing THEN "open_key" ELSE "load"
    /\ UNCHANGED <<inputs, status, parser, up, ctx, files, failed, touched, bounds>>

\* Key, certificate and signature are made in memory; that may fail, and so may
\* fopen of either file and a write to it.
GenerateFails ==
    /\ pc \in {"open_key", "write_key", "open_cert", "write_cert"}
    /\ Fails("generate")
    /\ pc' = "load"
    /\ UNCHANGED <<inputs, status, parser, up, ctx, files, touched, starts, touches>>

\* fopen(key_file, "wb") truncates what was there.
OpenKey ==
    /\ pc = "open_key"
    /\ key' = Partial /\ pair' = pair + 1
    /\ pc' = "write_key"
    /\ UNCHANGED <<inputs, status, parser, up, ctx, cert, failed, touched, bounds>>

\* What is written to a file that the operator has removed or replaced is lost.
Written(f) == IF f = Partial THEN pair ELSE f

WriteKey ==
    /\ pc = "write_key"
    /\ key' = Written(key)
    /\ pc' = "open_cert"
    /\ UNCHANGED <<inputs, status, parser, up, ctx, cert, pair, failed, touched, bounds>>

OpenCert ==
    /\ pc = "open_cert"
    /\ cert' = Partial
    /\ pc' = "write_cert"
    /\ UNCHANGED <<inputs, status, parser, up, ctx, key, pair, failed, touched, bounds>>

WriteCert ==
    /\ pc = "write_cert"
    /\ cert' = Written(cert)
    /\ pc' = "load"
    /\ UNCHANGED <<inputs, status, parser, up, ctx, key, pair, failed, touched, bounds>>

\* The writes end up in stdio's buffer: fclose may fail to store them, and its
\* result is not looked at.
FlushFails ==
    /\ pc \in {"write_key", "write_cert"}
    /\ faults < MaxFaults /\ faults' = faults + 1
    /\ pc' = IF pc = "write_key" THEN "open_cert" ELSE "load"
    /\ UNCHANGED <<inputs, status, parser, up, ctx, files, failed, touched, starts, touches>>

\* ssl_create_server_context: the certificate is loaded first.  Without a
\* context main goes on.
LoadCert ==
    /\ pc = "load"
    /\ IF Whole(cert) THEN ctx' = cert /\ pc' = "load_key" ELSE ctx' = Absent /\ pc' = "server"
    /\ UNCHANGED <<inputs, status, parser, up, files, failed, touched, bounds>>

\* The key loads and fits the certificate.
KeyFits == Whole(key) /\ key = ctx

LoadKey ==
    /\ pc = "load_key"
    /\ ctx' = IF KeyFits THEN ctx ELSE Absent
    /\ pc' = "server"
    /\ UNCHANGED <<inputs, status, parser, up, files, failed, touched, bounds>>

\* SSL_CTX_new or a load lacks memory.
ContextFails ==
    /\ pc \in {"load", "load_key"}
    /\ Fails("context")
    /\ ctx' = Absent
    /\ pc' = "server"
    /\ UNCHANGED <<inputs, status, parser, up, files, touched, starts, touches>>

\* loadbalancer_init, whose result main does not look at, and then
\* proxy_server_init and proxy_server_start.
StartServer ==
    /\ pc = "server"
    /\ \/ up' = up \cup (Enabled \cap {"balancer"}) /\ UNCHANGED <<failed, faults>>
       \/ config["balancer"] /\ Fails("balancer") /\ UNCHANGED up
    /\ pc' = "serve"
    /\ UNCHANGED <<inputs, status, parser, ctx, files, touched, starts, touches>>

\* The port cannot be bound, or the server cannot start: no clean-up.
StartServerFails ==
    /\ pc = "server"
    /\ Exit(1)
    /\ up' = {} /\ ctx' = Absent
    /\ UNCHANGED <<inputs, parser, files, failed, touched, bounds>>

\* A signal has ended the server; each feature is cleaned up if it is on.
Cleanup ==
    /\ pc = "serve"
    /\ Exit(0)
    /\ up' = up \ Enabled
    /\ ctx' = IF config["ssl"] THEN Absent ELSE ctx
    /\ UNCHANGED <<inputs, parser, files, failed, touched, bounds>>

-----------------------------------------------------------------------------
(* Faults and the operator.                                                *)

Crash ==
    /\ pc # "off" /\ faults < MaxFaults
    /\ faults' = faults + 1
    /\ Exit(1)
    /\ up' = {} /\ ctx' = Absent
    /\ UNCHANGED <<inputs, parser, files, failed, touched, starts, touches>>

\* The operator takes a file away, or puts one half of a pair in its place.
OperatorTouches ==
    /\ touches < MaxTouches /\ touches' = touches + 1
    /\ touched' = TRUE
    /\ \/ cert' \in {Absent, OperatorPair} /\ UNCHANGED key
       \/ key' \in {Absent, OperatorPair} /\ UNCHANGED cert
    /\ UNCHANGED <<inputs, pc, status, parser, up, ctx, pair, failed, starts, faults>>

-----------------------------------------------------------------------------
Parse == ParseSetting \/ ParseIgnored \/ ParseHelp \/ ParseConfig \/ ParseEnd \/ LoadLine \/ LoadEnd

Generate == GenerateFails \/ OpenKey \/ WriteKey \/ OpenCert \/ WriteCert \/ FlushFails

Tls == CheckCert \/ CheckKey \/ Generate \/ LoadCert \/ LoadKey \/ ContextFails

Main == Parse \/ InitSubsystems \/ Tls \/ StartServer \/ StartServerFails

\* No more starts.
Over == pc = "off" /\ starts = MaxStarts /\ UNCHANGED vars

Next == Start \/ Main \/ Cleanup \/ Crash \/ OperatorTouches \/ Over

\* The process runs until it serves.
Spec == Init /\ [][Next]_vars /\ WF_vars(Main)

-----------------------------------------------------------------------------
(* Properties.                                                             *)

TypeOK ==
    /\ argv \in CommandLines /\ file \in ConfigFiles
    /\ pc \in {"off", "args", "file", "init", "certificate", "check_key", "open_key", "write_key",
               "open_cert", "write_cert", "load", "load_key", "server", "serve"}
    /\ status \in {0, 1}
    /\ config \in [Features -> BOOLEAN]
    /\ up \subseteq Features
    /\ pair \in Nat \ {Absent, Partial} /\ {cert, key, ctx} \subseteq 0..pair
    /\ failed \subseteq {"caching", "generate", "context", "balancer"} /\ touched \in BOOLEAN
    /\ i \in 1..(Len(argv) + 1) /\ j \in Nat \ {0}
    /\ starts \in 0..MaxStarts /\ faults \in 0..MaxFaults /\ touches \in 0..MaxTouches

\* The last value that a list of arguments or lines gives feature k, or else v.
LastOf(list, k, v) ==
    LET sets == {n \in DOMAIN list : list[n].opt = "set" /\ list[n].key = k}
    IN  IF sets = {} THEN v ELSE list[CHOOSE n \in sets : \A m \in sets : m <= n].val

ReadsFile == \E n \in DOMAIN argv : argv[n].opt = "config"

\* "1. Default values 2. Configuration file 3. Command-line arguments", the
\* later before the earlier.
Hierarchy(k) == LastOf(argv, k, IF ReadsFile THEN LastOf(file, k, Defaults[k]) ELSE Defaults[k])

\* The features the command line and the file do not compete for.
Undisputed ==
    {k \in Features : ReadsFile => \A n \in DOMAIN argv : ~(argv[n].opt = "set" /\ argv[n].key = k)}

\* A process that serves has set up a feature exactly if the highest source in
\* the hierarchy of defaults, file and command line turns it on and its
\* initialisation did not fail, the same at every start, for the features that
\* file and command line do not compete for; and one that ends regularly has
\* cleaned all of them up, the TLS context too.
FeaturesAsConfigured ==
    /\ pc = "serve" => \A k \in Undisputed : (k \in up) <=> (Hierarchy(k) /\ k \notin failed)
    /\ (pc = "off" /\ status = 0) => (up = {} /\ ctx = Absent)

\* "Configuration Hierarchy": the command line is above the file.
CommandLineWins == pc = "serve" => \A k \in Features : config[k] = Hierarchy(k)

\* main goes on without a TLS context only if generating a pair or making the
\* context failed, or the operator changed a file since it was looked for, or
\* both files are there and do not load as a pair; and a context that main goes
\* on with holds a key that fits its certificate, as in the files unless the
\* operator changed them, whatever earlier starts left there.
TlsOffHasCause ==
    [][(pc \in {"load", "load_key"} /\ pc' = "server") =>
         IF ctx' = Absent
         THEN \/ failed' \cap {"generate", "context"} # {} \/ touched
              \/ cert # Absent /\ key # Absent /\ ~(Whole(cert) /\ Whole(key) /\ cert = key)
         ELSE key = ctx' /\ (touched \/ cert = ctx')]_vars

\* A pair that matches stays, over crashes and restarts: neither its key nor its
\* certificate is generated anew, unless the operator changes a file between the
\* first access() and the end of the process.
GoodPairStays ==
    [][(cert = key /\ Whole(cert) /\ ~touched /\ ~touched') => (cert' = cert /\ key' = key)]_vars

\* Whatever a crash before the certificate was opened left behind, a missing
\* certificate leads to a context at the next start that meets no fault and
\* in which the operator leaves the files alone.
MissingIsRepaired ==
    \A n \in 0..(MaxFaults + MaxTouches) :
        (pc = "certificate" /\ cert = Absent /\ faults + touches = n)
            ~> ((pc = "server" /\ ctx # Absent) \/ faults + touches > n)
==============================================================================
