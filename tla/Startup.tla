------------------------------- MODULE Startup -------------------------------
(***************************************************************************)
(* From the environment to a server that sends requests: LoadConfig of     *)
(* config.go, and the transport services/client.go makes of the settings.  *)
(* A variable's text is what parsing finds in it.                          *)
(***************************************************************************)
EXTENDS Integers

CONSTANTS
    MaxInt,        \* the largest int
    Retries,       \* numbers SOLIDSERVER_MAX_RETRIES may hold
    Rates,         \* those of SOLIDSERVER_RATE_LIMIT, in halves of a request per second
    Ports, maxPort,
    defaultHTTPPort, defaultMaxRetries

ASSUME StartupAssumption ==
    /\ MaxInt \in Nat
    /\ Retries \subseteq -MaxInt - 1 .. MaxInt
    /\ Rates \subseteq Int
    /\ defaultMaxRetries \in 0 .. MaxInt - 1
    /\ defaultHTTPPort \in 1 .. maxPort

(* A variable left out, one that does not parse, and one that holds a value. *)
Unset     == [set |-> FALSE, parses |-> FALSE]
Malformed == [set |-> TRUE, parses |-> FALSE]
Text(S)   == {Unset, Malformed} \cup [set : {TRUE}, parses : {TRUE}, value : S]

(* A secret may be in a file: the file's content, or why there is none.      *)
SecretFile == {"unnamed", "unreadable", "empty", "from file"}
Secret     == [file : SecretFile, env : {"", "from env"}]

(* A socket's path, of which it counts that it is absolute and not too long. *)
Path == [absolute : BOOLEAN, short : BOOLEAN]

(* The entries of a comma-separated list.                                    *)
Entry == {"blank", "prefix", "typo"}

Env == [Host : BOOLEAN, TokenID : Secret, TokenSecret : Secret,
        Transport : {"", "stdio", "http", "unix", "other"},
        ReadOnly : Text(BOOLEAN), MaxRetries : Text(Retries), RateLimit : Text(Rates),
        HTTPTimeout : Text({-1, 0, 1}), HTTPPort : Text(Ports),
        Socket : Text(Path) \ {Malformed}, RuntimeDir : Text(Path) \ {Malformed},
        ProtectedSubnets : SUBSET Entry]

-----------------------------------------------------------------------------
(* Parsing: the set of results, empty when it fails.                         *)

(* Mutant: the variable wins over the file.                                  *)
EnvFirst(s) ==
    IF s.env # "" THEN {s.env}
    ELSE IF s.file = "from file" THEN {s.file} ELSE {}

readSecret(s) ==
    IF s.file = "unnamed" THEN {s.env} ELSE {s.file} \ {"unreadable", "empty"}

parseCommaList(list) == list \ {"blank"}

parseTransport(t) ==
    CASE t = "" -> {"stdio"} [] t = "other" -> {} [] OTHER -> {t}

(* A variable that is set, and what is accepted of it; or its default.       *)
Parsed(text, default, accepted) ==
    IF ~text.set THEN {default}
    ELSE IF text.parses /\ text.value \in accepted THEN {text.value} ELSE {}

parseBools(e) == Parsed(e.ReadOnly, FALSE, BOOLEAN)

parseResilience(e) ==
    [MaxRetries  : Parsed(e.MaxRetries, defaultMaxRetries, Nat),
     RateLimit   : Parsed(e.RateLimit, 0, Nat),
     HTTPTimeout : Parsed(e.HTTPTimeout, 1, Nat \ {0})]

parseHTTPPort(e) == Parsed(e.HTTPPort, defaultHTTPPort, 1 .. maxPort)

(* The default socket is in the runtime directory, if that is absolute, else *)
(* in /tmp; the runtime directory may make it too long.                      *)
defaultSocket(e) ==
    IF e.RuntimeDir.set /\ e.RuntimeDir.value.absolute
      THEN e.RuntimeDir.value
      ELSE [absolute |-> TRUE, short |-> TRUE]

NoPath == [absolute |-> FALSE, short |-> FALSE]

parseSocket(e) ==
    IF e.Transport # "unix" THEN {NoPath}
    ELSE LET path == IF e.Socket.set THEN e.Socket.value ELSE defaultSocket(e)
         IN  IF path.absolute /\ path.short THEN {path} ELSE {}

(* The Config the environment makes, or none when starting fails.            *)
LoadConfig(env) ==
    [TokenID          : readSecret(env.TokenID) \ {""},
     TokenSecret      : readSecret(env.TokenSecret) \ {""},
     Transport        : IF env.Host THEN parseTransport(env.Transport) ELSE {},
     ReadOnly         : parseBools(env),
     resilience       : parseResilience(env),
     HTTPPort         : parseHTTPPort(env),
     SocketPath       : parseSocket(env),
     ProtectedSubnets : {parseCommaList(env.ProtectedSubnets)}]

-----------------------------------------------------------------------------
(* The transport.                                                            *)

Wrapped(i) == ((i + MaxInt + 1) % (2 * (MaxInt + 1))) - (MaxInt + 1)

(* A float that is no int converts to whatever the processor makes of it.    *)
Converted(rate) ==
    IF rate \div 2 <= MaxInt THEN {rate \div 2} ELSE {-MaxInt - 1, MaxInt}

Unlimited == 0

(* Mutant: a bucket for the whole requests of a second only.                 *)
WholeRequests(rate) == Converted(rate)

Bursts(rate) == {Wrapped(i + 1) : i \in Converted(rate)}

(* Mutant: the number of attempts wraps around.                              *)
UncheckedAttempts(retries) == Wrapped(retries + 1)

maxAttempts(retries) ==
    IF Wrapped(retries + 1) > 1 THEN Wrapped(retries + 1) ELSE 1

(* The transports the client may get of the settings it is given.            *)
NewSolidServerClientWithOptions(re) ==
    {[limit |-> re.RateLimit, burst |-> b, attempts |-> maxAttempts(re.MaxRetries)] :
        b \in IF re.RateLimit > 0 THEN Bursts(re.RateLimit) ELSE {Unlimited}}

-----------------------------------------------------------------------------
(* Properties of a start from an environment. *)

Uses(text, used) == text.set => text.parses /\ text.value = used

(* A server that runs uses what its environment says: a secret from the file *)
(* that is named, even when the variable still holds another; a number as it *)
(* is written; a default only for what is left out.                          *)
RunsAsSet(env) ==
    \A cfg \in LoadConfig(env) :
        /\ \A s \in {"TokenID", "TokenSecret"} :
              cfg[s] = IF env[s].file = "unnamed" THEN env[s].env ELSE "from file"
        /\ Uses(env.ReadOnly, cfg.ReadOnly)
        /\ Uses(env.MaxRetries, cfg.resilience.MaxRetries)
        /\ Uses(env.RateLimit, cfg.resilience.RateLimit)
        /\ Uses(env.HTTPTimeout, cfg.resilience.HTTPTimeout)
        /\ Uses(env.HTTPPort, cfg.HTTPPort)
        /\ cfg.Transport = "unix" => cfg.SocketPath.absolute /\ cfg.SocketPath.short

(* Whatever number of retries is accepted, each request is sent at least     *)
(* once, and never more often than once more than that.                      *)
SendsEnough(env) ==
    \A cfg \in LoadConfig(env) :
    \A tr \in NewSolidServerClientWithOptions(cfg.resilience) :
        1 <= tr.attempts /\ tr.attempts - 1 <= cfg.resilience.MaxRetries

(* A limiter whose bucket cannot hold one token refuses every request: none  *)
(* is made of a rate, however small, that is less than a full int.           *)
LimiterLetsPass(env) ==
    \A cfg \in LoadConfig(env) :
    \A tr \in NewSolidServerClientWithOptions(cfg.resilience) :
        (tr.limit > 0 /\ tr.limit \div 2 < MaxInt) => tr.burst >= 1
=============================================================================
