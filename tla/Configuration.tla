---------------------------- MODULE Configuration ----------------------------
(***************************************************************************)
(* core/config: the settings of an application, put together from secure   *)
(* defaults, a JSON file, environment variables and command-line           *)
(* overrides, and the checks of everything that is built from them.        *)
(*                                                                         *)
(* A layer is a partial function from settings to what its text means:     *)
(* Blank is the empty string, Bad a text that does not parse (numbers out  *)
(* of the field's width included), anything else the parsed value.  Only   *)
(* signs and the order of numbers matter, so the defaults are small.       *)
(***************************************************************************)
EXTENDS Integers

CONSTANTS
    Blank,       \* ""
    Bad,         \* a text that does not parse; an unusable file
    NotGiven     \* no configuration file is named

Text == {"Address", "URL"}
Duration ==
    {"ReadTimeout", "ReadHeaderTimeout", "WriteTimeout", "IdleTimeout", "QueueTimeout",
     "ShutdownTimeout", "ConnectTimeout"}
Count ==
    {"MaxHeaderBytes", "MaxConcurrentRequests", "MaxConnections", "MinConnections",
     "MaxMessageBytes"}
Setting == Text \cup Duration \cup Count \cup {"AllowInsecure"}

Defaults ==
    [s \in Setting |->
        CASE s = "Address" -> "default"
          [] s = "URL" -> Blank
          [] s = "AllowInsecure" -> FALSE
          [] s = "MaxConnections" -> 2
          [] OTHER -> 1]

\* A layer that gives one setting.
Only(s, v) == [x \in {s} |-> v]

\* What the first layer gives, and what only the second gives.
Over(first, second) ==
    [s \in DOMAIN first \cup DOMAIN second |-> IF s \in DOMAIN first THEN first[s] ELSE second[s]]

-----------------------------------------------------------------------------
(* LoadWithOverrides *)

\* A command-line name of the file wins over SWF_CONFIG_FILE.
ChosenFile(given) == IF given.flagFile # NotGiven THEN given.flagFile ELSE given.envFile

\* applyFile takes what is present: an empty text and a false are absent.
Present(file) ==
    [s \in {s \in DOMAIN file : file[s] # Blank /\ (s = "AllowInsecure" => file[s])} |-> file[s]]

FileBroken(file) == file = Bad \/ \E s \in DOMAIN file : file[s] = Bad

\* Slip: an empty variable counts as unset, as an empty text in the file does.
MergePresent(file, env, cfg) == Over(Present(env), Over(Present(file), cfg))

\* A variable that is set counts, even if it is empty.
Merge(file, env, cfg) == Over(env, Over(Present(file), cfg))

\* Only a text may be empty.
EnvBroken(env) == \E s \in DOMAIN env : env[s] = Bad \/ (env[s] = Blank /\ s \notin Text)

Override(address, cfg) == IF address # Blank THEN Over(Only("Address", address), cfg) ELSE cfg

\* Slip: the minimum is not compared with the maximum.
ValidateEach(cfg) ==
    /\ cfg["Address"] # Blank
    /\ \A s \in (Duration \cup Count) \ {"QueueTimeout", "MinConnections"} : cfg[s] > 0
    /\ \A s \in {"QueueTimeout", "MinConnections"} : cfg[s] >= 0

Validate(cfg) ==
    /\ cfg["Address"] # Blank
    /\ \A s \in (Duration \cup Count) \ {"QueueTimeout", "MinConnections"} : cfg[s] > 0
    /\ cfg["QueueTimeout"] >= 0
    /\ cfg["MinConnections"] \in 0..cfg["MaxConnections"]

\* The configuration, or Bad with an error.
LoadWithOverrides(given) ==
    LET chosen == ChosenFile(given)
        file == IF chosen = NotGiven THEN <<>> ELSE chosen
        cfg == Override(given.address, Merge(file, given.env, Defaults))
    IN  IF FileBroken(file) \/ EnvBroken(given.env) THEN Bad
        ELSE IF Validate(cfg) THEN cfg ELSE Bad

-----------------------------------------------------------------------------
(* The checks of what is built from the settings *)

\* app.New
AppAccepts(cfg) ==
    /\ cfg["Address"] # Blank
    /\ \A s \in {"ReadTimeout", "ReadHeaderTimeout", "WriteTimeout", "IdleTimeout",
                 "ShutdownTimeout", "MaxHeaderBytes"} : cfg[s] > 0

\* postgres.Options.validate
PoolAccepts(cfg) ==
    /\ cfg["URL"] # Blank
    /\ \A s \in {"MaxConnections", "ConnectTimeout", "MaxMessageBytes"} : cfg[s] > 0
    /\ cfg["MinConnections"] \in 0..cfg["MaxConnections"]

\* LimitConcurrency
LimiterAccepts(cfg) == cfg["MaxConcurrentRequests"] > 0 /\ cfg["QueueTimeout"] >= 0

\* What a URL, named for its sslmode, lets the driver try (external): the first
\* connection, then its fallbacks.  Any other URL does not parse.
Attempts ==
    [disable |-> <<"plain">>, allow |-> <<"plain", "tls">>, prefer |-> <<"tls", "plain">>,
     require |-> <<"tls">>]

PermitsPlaintext(url) == \E i \in DOMAIN Attempts[url] : Attempts[url][i] = "plain"

\* The checks of Open between validate and the pool.
OpenAccepts(cfg) ==
    /\ cfg["URL"] \in DOMAIN Attempts
    /\ cfg["AllowInsecure"] \/ ~PermitsPlaintext(cfg["URL"])

-----------------------------------------------------------------------------
(* What the documentation says of precedence *)

\* The layers that give a setting, the strongest first.
Sources(given) ==
    LET chosen == ChosenFile(given)
    IN  << IF given.address = Blank THEN <<>> ELSE Only("Address", given.address),
           given.env,
           IF chosen = NotGiven THEN <<>> ELSE Present(chosen),
           Defaults >>

\* What the first of the sources that give the setting gives.
Strongest(sources, s) ==
    LET first == CHOOSE i \in DOMAIN sources :
                     /\ s \in DOMAIN sources[i]
                     /\ \A j \in 1..(i - 1) : s \notin DOMAIN sources[j]
    IN  sources[first][s]

Effective(given, s) == Strongest(Sources(given), s)
=============================================================================
