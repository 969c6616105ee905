--------------------------- MODULE Configuration ---------------------------
(***************************************************************************)
(* Start-up of the query server (src/cmd/query/main.go): parseopts reads   *)
(* each option from its environment variable, then lets a command-line     *)
(* flag override it; main builds the server, starts the /metrics app in a  *)
(* goroutine when metrics are on, and runs the API app.  The goroutine and *)
(* app.Run race for their ports; when app.Run returns, main returns and    *)
(* the process ends.                                                       *)
(*                                                                         *)
(* A decimal numeral is abstracted to the bits its value needs and its     *)
(* value modulo 2^32 (what a uint32 conversion keeps): ParseUint's range   *)
(* check and a truncation are exact on that abstraction.  A string that is *)
(* no numeral is Text; an unset variable is Empty.  Ports are small values. *)
(* Of the flags, --port, --metrics and --help are given; --metrics-port    *)
(* and --cache-size override their variables the same way as --port and   *)
(* are left off the command line, as is --trusted-proxies.  The string and *)
(* list options other than the trusted proxies (storage accounts, blocked  *)
(* IPs and user agents) only reach code not under src/.                    *)
(*                                                                         *)
(* ONESEISMIC_API_TRUSTED_PROXIES is a sequence of comma-separated         *)
(* segments, each an address ("cidr": an IP or CIDR gin accepts, "bogus":  *)
(* one it rejects, or "" for nothing) with or without surrounding spaces.  *)
(***************************************************************************)
EXTENDS Naturals, Sequences, FiniteSets

CONSTANTS
    EnvPort, EnvMetricsPort, EnvCacheSize,  \* the numerals each may hold
    EnvMetrics,         \* the words ONESEISMIC_API_METRICS may hold
    EnvProxies,         \* the values ONESEISMIC_API_TRUSTED_PROXIES may hold
    FlagPort,           \* the --port arguments (Absent: not given)
    Absent,             \* a flag not on the command line (a model value)
    ParseError,         \* the error strconv returns (a model value)
    Panic               \* a parse helper panicked (a model value)

\* An environment or argument string: "empty", "text" (no numeral), or a
\* numeral of value low + m * 2^32 whose value needs bits bits.
Str(kind, bits, low) == [kind |-> kind, bits |-> bits, low |-> low]
Empty == Str("empty", 0, 0)
Text == Str("text", 0, 0)
Num(bits, low) == Str("num", bits, low)

\* strconv.ParseBool's words.
TrueWords == {"1", "t", "T", "TRUE", "true", "True"}
FalseWords == {"0", "f", "F", "FALSE", "false", "False"}

\* A segment of a comma-separated value, and the empty value.
Segment(addr, pad) == [addr |-> addr, pad |-> pad]
EmptyList == <<Segment("", FALSE)>>

VARIABLES
    env,        \* env[o]: the value of o's environment variable
    flags,      \* the flags given: port, metrics (BOOLEAN), help (BOOLEAN)
    opts,       \* the opts struct, zero until parseopts returned
    mainPc,     \* parse, start, run, serving, exited, panic, exit0, exit1
    metricsPc,  \* off, starting, serving, failed
    bound       \* the ports listened on

vars == <<env, flags, opts, mainPc, metricsPc, bound>>

\* strconv.ParseUint(value, 10, w): the value, or an error (syntax or range).
ParseUint(s, w) ==
    IF s.kind = "text" \/ s.bits > w THEN ParseError ELSE s.low

\* Mutant: parseAsUint32 parses 64-bit numbers and converts with uint32().
ParseAsUint32Wide(fallback, value) ==
    IF value = Empty THEN fallback
    ELSE IF ParseUint(value, 64) = ParseError THEN Panic ELSE value.low

\* Mutant: the empty-value fallback is missing.
ParseAsUint32NoFallback(fallback, value) ==
    IF value = Empty THEN Panic
    ELSE IF ParseUint(value, 32) = ParseError THEN Panic
    ELSE ParseUint(value, 32)

\* parseAsUint32 (and parseAsUint64 with width 64): the fallback for an
\* empty value, else the parsed number; a parse error panics.
ParseAsUint32(fallback, value) ==
    IF value = Empty THEN fallback
    ELSE IF ParseUint(value, 32) = ParseError THEN Panic
    ELSE ParseUint(value, 32)

ParseAsUint64(fallback, value) ==
    IF value = Empty THEN fallback
    ELSE IF ParseUint(value, 64) = ParseError THEN Panic
    ELSE ParseUint(value, 64)

\* Mutant: parseAsBool panics on a value it cannot parse.
ParseAsBoolStrict(fallback, value) ==
    IF value \in TrueWords THEN TRUE
    ELSE IF value \in FalseWords THEN FALSE ELSE Panic

\* parseAsBool: a value ParseBool rejects (the empty one included) gives
\* the fallback.
ParseAsBool(fallback, value) ==
    IF value \in TrueWords THEN TRUE
    ELSE IF value \in FalseWords THEN FALSE ELSE fallback

\* strings.TrimSpace on a segment.
TrimSpace(seg) == seg.addr

\* Mutant: the items are not trimmed.
ParseAsListOfStringsNoTrim(fallback, value) ==
    IF value = EmptyList THEN fallback
    ELSE [j \in DOMAIN value |->
            IF value[j].pad THEN "padded" ELSE value[j].addr]

\* parseAsListOfStrings: the fallback for an empty value, else the value
\* split on "," with each item trimmed.
ParseAsListOfStrings(fallback, value) ==
    IF value = EmptyList THEN fallback
    ELSE [j \in DOMAIN value |-> TrimSpace(value[j])]

\* The options as parseopts reads them from the environment.
EnvOpts ==
    [port        |-> ParseAsUint32(8080, env.port),
     cacheSize   |-> ParseAsUint64(0, env.cacheSize),
     metrics     |-> ParseAsBool(FALSE, env.metrics),
     metricsPort |-> ParseAsUint32(8081, env.metricsPort),
     trustedProxies |-> ParseAsListOfStrings(<<>>, env.proxies)]

\* getopt.Parse: a given --port replaces the port; an argument it cannot
\* parse as a uint32 makes getopt print the usage and exit(1).
FlagError == flags.port # Absent /\ ParseUint(flags.port, 32) = ParseError

WithFlags(o) ==
    [o EXCEPT !.port    = IF flags.port = Absent THEN @
                          ELSE ParseUint(flags.port, 32),
              !.metrics = @ \/ flags.metrics]

Init ==
    /\ env \in [port : EnvPort, metricsPort : EnvMetricsPort,
                cacheSize : EnvCacheSize, metrics : EnvMetrics,
                proxies : EnvProxies]
    /\ flags \in [port : FlagPort, metrics : BOOLEAN, help : BOOLEAN]
    /\ opts = [port |-> 0, cacheSize |-> 0, metrics |-> FALSE, metricsPort |-> 0,
               trustedProxies |-> <<>>]
    /\ mainPc = "parse"
    /\ metricsPc = "off"
    /\ bound = {}

\* parseopts: the environment first (a panic there ends the process even
\* with --help), then the flags, then --help.
Parseopts ==
    /\ mainPc = "parse"
    /\ LET o == EnvOpts IN
         IF Panic \in {o.port, o.cacheSize, o.metrics, o.metricsPort}
         THEN mainPc' = Panic /\ UNCHANGED opts
         ELSE IF FlagError THEN mainPc' = "exit1" /\ UNCHANGED opts
         ELSE IF flags.help THEN mainPc' = "exit0" /\ UNCHANGED opts
         ELSE mainPc' = "start" /\ opts' = WithFlags(o)
    /\ UNCHANGED <<env, flags, metricsPc, bound>>

\* app.SetTrustedProxies(list) succeeds when every item is an IP or CIDR
\* (a nil list included); an item it cannot parse is an error.
SetTrustedProxies(list) == \A j \in DOMAIN list : list[j] = "cidr"

\* Mutant: the metrics goroutine is started whether metrics are on or not.
StartAlwaysMetrics ==
    /\ mainPc = "start"
    /\ IF ~SetTrustedProxies(opts.trustedProxies)
       THEN mainPc' = "panic" /\ UNCHANGED metricsPc
       ELSE mainPc' = "run" /\ metricsPc' = "starting"
    /\ UNCHANGED <<env, flags, opts, bound>>

\* main up to setupApp: SetTrustedProxies panics on an invalid list; with
\* metrics on, the metrics app is built and run in a new goroutine.
Start ==
    /\ mainPc = "start"
    /\ IF ~SetTrustedProxies(opts.trustedProxies)
       THEN mainPc' = Panic /\ UNCHANGED metricsPc
       ELSE /\ mainPc' = "run"
            /\ metricsPc' = IF opts.metrics THEN "starting" ELSE "off"
    /\ UNCHANGED <<env, flags, opts, bound>>

\* app.Run(":port"): it listens and serves, or fails on a port in use and
\* returns; main then returns and the process ends.
RunApp ==
    /\ mainPc = "run"
    /\ IF opts.port \in bound
       THEN mainPc' = "exited" /\ UNCHANGED bound
       ELSE mainPc' = "serving" /\ bound' = bound \cup {opts.port}
    /\ UNCHANGED <<env, flags, opts, metricsPc>>

\* metricsApp.Run(":metricsPort") in its goroutine, while the process
\* lives; its error is dropped.
RunMetrics ==
    /\ metricsPc = "starting"
    /\ mainPc \notin {"exited", Panic}
    /\ IF opts.metricsPort \in bound
       THEN metricsPc' = "failed" /\ UNCHANGED bound
       ELSE metricsPc' = "serving" /\ bound' = bound \cup {opts.metricsPort}
    /\ UNCHANGED <<env, flags, opts, mainPc>>

Next == Parseopts \/ Start \/ RunApp \/ RunMetrics

Spec == Init /\ [][Next]_vars /\ WF_vars(Next) /\ WF_vars(RunMetrics)

---------------------------------------------------------------------------
(* Properties.                                                             *)

TypeOK ==
    /\ mainPc \in {"parse", "start", "run", "serving", "exited", Panic,
                   "exit0", "exit1"}
    /\ metricsPc \in {"off", "starting", "serving", "failed"}
    /\ opts \in [port : Nat, cacheSize : Nat, metrics : BOOLEAN,
                 metricsPort : Nat, trustedProxies : Seq({"cidr", "bogus", ""})]
    /\ bound \subseteq {opts.port, opts.metricsPort}
    /\ metricsPc # "off" => opts.metrics

\* The port a setting asks for: the flag if given, else the variable if
\* set, else the default.
Requested(flag, var, default) ==
    IF flag # Absent THEN flag ELSE IF var # Empty THEN var ELSE default

\* The API listens on exactly the port the configuration asks for: a
\* number that does not fit in 32 bits is never cut down to another
\* port (parseAsUint32 and getopt both parse with width 32).
ServesConfiguredPort ==
    mainPc = "serving" =>
        LET r == Requested(flags.port, env.port, Num(13, 8080))
        IN  r.kind = "num" /\ r.bits <= 32 /\ opts.port = r.low

\* A trusted-proxies value is usable: unset, or every segment an address.
ProxiesUsable(v) == v = EmptyList \/ \A j \in DOMAIN v : v[j].addr = "cidr"

\* The process panics only on a setting it cannot use: a numeric variable
\* that is set but is no number of its width, or a trusted-proxies value
\* with a segment that is no address once its spaces are removed (a
\* padded "10.0.0.0/8 " is usable; a lone " " or a trailing comma is not).
\* An unparsable ONESEISMIC_API_METRICS falls back to off instead.
PanicsOnlyOnInvalidSetting ==
    mainPc = Panic =>
        \/ ~ProxiesUsable(env.proxies)
        \/ \E v \in {env.port, env.metricsPort} :
              v # Empty /\ (v.kind = "text" \/ v.bits > 32)
        \/ env.cacheSize # Empty
              /\ (env.cacheSize.kind = "text" \/ env.cacheSize.bits > 64)

\* Every setting is usable, --help is not given, and the two ports differ.
ValidConfig ==
    LET valid(v, w) == v = Empty \/ (v.kind = "num" /\ v.bits <= w)
        port  == Requested(flags.port, env.port, Num(13, 8080))
        mport == Requested(Absent, env.metricsPort, Num(13, 8081))
    IN /\ valid(env.port, 32) /\ valid(env.metricsPort, 32)
       /\ valid(env.cacheSize, 64)
       /\ flags.port = Absent \/ valid(flags.port, 32)
       /\ ProxiesUsable(env.proxies) /\ ~flags.help
       /\ port.low # mport.low

\* With a usable configuration the server comes up: the API is eventually
\* served, and so is /metrics when metrics are on.
ServesWhenConfigValid ==
    ValidConfig =>
        <>(mainPc = "serving"
           /\ (opts.metrics => metricsPc = "serving"))

\* The help text of --metrics-port: "Metrics are always hosted on a
\* different port than the server itself".  Neither app may lose its port
\* to the other.
MetricsApartFromApi ==
    mainPc # "exited" /\ metricsPc # "failed"

=============================================================================
