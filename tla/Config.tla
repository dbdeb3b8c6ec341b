------------------------------- MODULE Config --------------------------------
(***************************************************************************)
(* How the service comes to its configuration: load_config() fills defaults *)
(* into what the YAML file says, puts the environment over it, checks and   *)
(* validates; the factory makes the backend of it, and the lifespan takes   *)
(* the fallback key from it.  The order of these steps decides what the     *)
(* service talks to and with which key.                                     *)
(***************************************************************************)
EXTENDS Naturals

CONSTANTS
  Inputs,  \* the files and environments considered
  FileKey, LegacyKey, EnvKey,  \* backend API keys: auth.fallback_backend_key,
                               \* backend.api_key, JANUS_BACKEND_API_KEY
  Url, EnvUrl                  \* URLs an operator gives

(* Unset: absent, null or empty.  Blank: whitespace only, which `not x'     *)
(* takes for a value and `x.strip()' does not.  Of a tunnel's variables and *)
(* fields Unset is absent only: there an empty text may count.              *)
Unset == "unset"
Blank == "blank"
Empty == "empty"
Filled == "filled"

Faces == {"blockfrost", "koios"}
Mirrors == {"blockfrost", "koios"}          \* API_MIRROR_SOURCES
Reserved == {"ogmios", "yaci"}
Sources == Mirrors \cup {"dbsync"} \cup Reserved

(* DEFAULT_BASE_URLS                                                        *)
DefaultUrl(source) ==
  IF source = "blockfrost" THEN "cardano-mainnet.blockfrost.io" ELSE "api.koios.rest"

Urls == {Unset, Blank, Url, EnvUrl} \cup {DefaultUrl(s) : s \in Mirrors}
Keys == {Unset, Blank, FileKey, LegacyKey, EnvKey}

(* The ssh_tunnel section, which may be missing, null or a mapping, and the *)
(* variables over it, one for each field.  A port that is Filled is a legal *)
(* one, any other text of a port that is there is no number.                *)
SshPorts == {"port", "remote_bind_port", "local_bind_port"}
Credentials == {"private_key_path", "private_key", "password"}
SshFields == SshPorts \cup Credentials \cup
  {"host", "user", "passphrase", "remote_bind_host", "local_bind_host"}

Switches == {Unset, "on", "off"}
SshTexts == [SshFields -> {Unset, Empty, Blank, Filled}]

NoText == [f \in SshFields |-> Unset]
NoSection == [kind |-> "none", enabled |-> Unset, text |-> NoText]
NullSection == [kind |-> "null", enabled |-> Unset, text |-> NoText]

Tunnels ==
  {NoSection, NullSection}
    \cup [kind : {"mapping"}, enabled : Switches, text : SshTexts]

(* What the steps hand on.                                                  *)
Settings == [
  face : Faces \cup {Unset}, provider : Sources \cup {Unset}, base_url : Urls,
  dsn : {Unset, Blank, "dsn"}, passthrough : BOOLEAN,
  tunnel : Tunnels,
  api_key : Keys, fallback : Keys]

(* JANUS_SSH_TUNNEL is "off" whatever it holds but a few words, nothing too. *)
Environments == [
  face : Faces \cup {Unset}, provider : Sources \cup {Unset}, base_url : Urls,
  dsn : {Unset, Blank, "dsn"}, tunnel : Switches, ssh : SshTexts, api_key : Keys]

ASSUME ConfigAssumption == Inputs \subseteq [file : Settings, env : Environments]

VARIABLES
  stage,    \* what load_config, or create_app after it, does next
  given,    \* the file and the environment, which nothing changes
  data,     \* the settings as they stand
  backend   \* the provider object: its source and URL; auth's fallback key

configVars == <<stage, given, data, backend>>

NoBackend == [source |-> Unset, base_url |-> Unset, fallback |-> Unset]

ConfigTypeOK ==
  /\ stage \in {"defaults", "environment", "checks", "validation", "factory",
                "ready", "refused", "not_implemented"}
  /\ given \in [file : Settings, env : Environments]
  /\ data \in Settings
  /\ backend \in [source : Sources \cup {Unset}, base_url : Urls, fallback : Keys]

ConfigInit ==
  /\ given \in Inputs
  /\ stage = "defaults" /\ data = given.file /\ backend = NoBackend

-----------------------------------------------------------------------------
Stripped(text) == IF text = Blank THEN Unset ELSE text

(* What is given, or else what there was.                                   *)
Over(new, old) == IF new = Unset THEN old ELSE new

(* Mutant: a URL the file gives is overwritten.                             *)
FillDefaultAlways ==
  /\ stage = "defaults" /\ stage' = "environment"
  /\ data' = IF data.provider \in Mirrors
             THEN [data EXCEPT !.base_url = DefaultUrl(data.provider)] ELSE data
  /\ UNCHANGED <<given, backend>>

FillDefaultBaseUrl ==
  /\ stage = "defaults" /\ stage' = "environment"
  /\ data' = IF data.base_url = Unset /\ data.provider \in Mirrors
             THEN [data EXCEPT !.base_url = DefaultUrl(data.provider)] ELSE data
  /\ UNCHANGED <<given, backend>>

(* JANUS_SSH_TUNNEL touches the section by being there, the other variables *)
(* only if one of them is not empty.                                        *)
Touched(env) == env.tunnel # Unset \/ \E f \in SshFields : env.ssh[f] \notin {Unset, Empty}

(* Mutant: whoever touches the section switches it on.                      *)
TouchSwitchesOn(section, env) ==
  IF ~Touched(env) THEN section
  ELSE [kind    |-> "mapping",
        enabled |-> Over(env.tunnel, "on"),
        text    |-> [f \in SshFields |-> Over(env.ssh[f], section.text[f])]]

(* A section that is touched is made if it is not there, and every variable *)
(* that is there overwrites its field - now an empty one too.               *)
EnvTunnel(section, env) ==
  IF ~Touched(env) THEN section
  ELSE [kind    |-> "mapping",
        enabled |-> Over(env.tunnel, section.enabled),
        text    |-> [f \in SshFields |-> Over(env.ssh[f], section.text[f])]]

(* A null is no mapping to put variables over, and int() takes a number.    *)
EnvRaises(section, env) ==
  /\ Touched(env)
  /\ \/ section.kind = "null"
     \/ \E p \in SshPorts : env.ssh[p] \in {Empty, Blank}

(* Mutants: the file's settings win; the environment's key replaces the     *)
(* fallback the file gives.                                                 *)
FileOverEnv(settings, env) ==
  [settings EXCEPT
     !.face = Over(@, env.face), !.provider = Over(@, env.provider),
     !.base_url = Over(@, env.base_url), !.dsn = Over(@, env.dsn),
     !.tunnel = EnvTunnel(@, env), !.api_key = Over(env.api_key, @),
     !.fallback = Over(@, env.api_key)]

EnvKeyOverFallback(settings, env) ==
  [settings EXCEPT
     !.face = Over(env.face, @), !.provider = Over(env.provider, @),
     !.base_url = Over(env.base_url, @), !.dsn = Over(env.dsn, @),
     !.tunnel = EnvTunnel(@, env), !.api_key = Over(env.api_key, @),
     !.fallback = Over(env.api_key, @)]

Overridden(settings, env) ==
  [settings EXCEPT
     !.face = Over(env.face, @), !.provider = Over(env.provider, @),
     !.base_url = Over(env.base_url, @), !.dsn = Over(env.dsn, @),
     !.tunnel = EnvTunnel(@, env), !.api_key = Over(env.api_key, @),
     !.fallback = Over(@, env.api_key)]

(* What was overridden before something raises is lost with the exception.  *)
ApplyEnvOverrides ==
  /\ stage = "environment"
  /\ IF EnvRaises(data.tunnel, given.env)
     THEN stage' = "refused" /\ UNCHANGED data
     ELSE stage' = "checks" /\ data' = Overridden(data, given.env)
  /\ UNCHANGED <<given, backend>>

(* The rest of load_config().                                               *)
Complete ==
  /\ data.face # Unset /\ data.provider # Unset
  /\ data.provider \in Mirrors => data.base_url # Unset
  /\ data.provider = "dbsync" => data.dsn # Unset

CheckRequired ==
  /\ stage = "checks"
  /\ stage' = IF Complete THEN "validation" ELSE "refused"
  /\ UNCHANGED <<given, data, backend>>

(* The fields and the validator of SshTunnelConfig: host and user have no   *)
(* default, a section is on unless it says otherwise.                       *)
TunnelOn(section) == section.kind = "mapping" /\ section.enabled # "off"

TunnelValid ==
  LET text == data.tunnel.text
  IN  /\ data.tunnel.kind = "mapping" =>
           /\ text["host"] # Unset /\ text["user"] # Unset
           /\ \A p \in SshPorts : text[p] \in {Unset, Filled}
      /\ TunnelOn(data.tunnel) =>
           /\ text["host"] = Filled /\ text["user"] = Filled
           /\ \E f \in Credentials : text[f] = Filled

(* The validator of AppConfig.                                              *)
FaceAndBackendValid ==
  /\ data.provider \in Mirrors =>
       /\ Stripped(data.base_url) # Unset
       /\ data.face = data.provider => data.passthrough
  /\ data.provider = "dbsync" => Stripped(data.dsn) # Unset
  /\ TunnelOn(data.tunnel) => data.provider = "dbsync"

(* A blank fallback is none, and then the legacy key is taken.              *)
MigratedFallback == Over(Stripped(data.fallback), Stripped(data.api_key))

Validate ==
  /\ stage = "validation"
  /\ IF TunnelValid /\ FaceAndBackendValid
     THEN stage' = "factory" /\ data' = [data EXCEPT !.fallback = MigratedFallback]
     ELSE stage' = "refused" /\ UNCHANGED data
  /\ UNCHANGED <<given, backend>>

(* create_backend() and configure_auth_fallback().                          *)
CreateBackend ==
  /\ stage = "factory"
  /\ IF data.provider \in Reserved
     THEN stage' = "not_implemented" /\ UNCHANGED backend
     ELSE /\ stage' = "ready"
          /\ backend' = [source |-> data.provider, base_url |-> data.base_url,
                         fallback |-> data.fallback]
  /\ UNCHANGED <<given, data>>

ConfigNext ==
  FillDefaultBaseUrl \/ ApplyEnvOverrides \/ CheckRequired \/ Validate \/ CreateBackend

ConfigSpec == ConfigInit /\ [][ConfigNext]_configVars

-----------------------------------------------------------------------------
(* Properties                                                               *)

Source == Over(given.env.provider, given.file.provider)
Face == Over(given.env.face, given.file.face)

(* The URL that is meant: the environment's, the file's, or the default of  *)
(* the provider the FILE names, which is filled in before the environment   *)
(* may name another.                                                        *)
MeantUrl ==
  Over(given.env.base_url,
    Over(given.file.base_url,
      IF given.file.provider \in Mirrors THEN DefaultUrl(given.file.provider) ELSE Unset))

TunnelSection == given.file.tunnel.kind = "mapping" \/ Touched(given.env)

MeantTunnel ==
  TunnelSection /\ Over(given.env.tunnel, given.file.tunnel.enabled) # "off"

(* A variable means nothing while the environment does not touch the        *)
(* section; once it does, an empty one means nothing instead of the file's. *)
MeantText(f) ==
  IF Touched(given.env) THEN Over(given.env.ssh[f], given.file.tunnel.text[f])
  ELSE given.file.tunnel.text[f]

(* The service talks to what the layers together name: environment over     *)
(* file over default, whatever passes through the steps on the way          *)
(* (load_config, create_backend).                                           *)
EnvironmentOverFile ==
  stage = "ready" => backend.source = Source /\ backend.base_url = MeantUrl

(* Another mirror's default URL is talked to only if the environment names  *)
(* a mirror in the place of the file's, and nobody gives a URL              *)
(* (_fill_default_base_url before _apply_env_overrides).                    *)
DefaultUrlOfAnother ==
  stage = "ready" /\ backend.source \in Mirrors
    /\ backend.base_url \in {DefaultUrl(s) : s \in Mirrors \ {backend.source}} =>
    /\ given.env.provider \notin {Unset, given.file.provider}
    /\ given.file.provider \in Mirrors
    /\ given.file.base_url = Unset /\ given.env.base_url = Unset

(* A request without a mapped key carries the file's fallback key; only if  *)
(* that is blank or not there the environment's key, and only without that  *)
(* the file's legacy key (migrate_legacy_backend_api_key).                  *)
FallbackKey ==
  stage = "ready" =>
    backend.fallback =
      IF given.file.fallback \notin {Unset, Blank} THEN given.file.fallback
      ELSE Stripped(Over(given.env.api_key, given.file.api_key))

SoundSource ==
  /\ Source # Unset /\ Face # Unset
  /\ Source \in Mirrors =>
       MeantUrl \notin {Unset, Blank} /\ (Face = Source => given.file.passthrough)
  /\ Source = "dbsync" => Over(given.env.dsn, given.file.dsn) = "dsn"

ReadableTunnel ==
  /\ Touched(given.env) => given.file.tunnel.kind # "null"
  /\ TunnelSection => \A p \in SshPorts : MeantText(p) \in {Unset, Filled}

SoundTunnel ==
  /\ ReadableTunnel
  /\ TunnelSection => MeantText("host") # Unset /\ MeantText("user") # Unset
  /\ MeantTunnel =>
       /\ Source = "dbsync"
       /\ MeantText("host") = Filled /\ MeantText("user") = Filled
       /\ \E f \in Credentials : MeantText(f) = Filled

(* The service is refused exactly when the layers together lack a setting   *)
(* or contradict each other, whichever step it is that finds out            *)
(* (_apply_env_overrides, load_config, the validators).  Of the tunnel each *)
(* field is judged by itself: its host may be the file's and its user the   *)
(* environment's, any variable makes a section of it, and an empty one      *)
(* takes away what the file says.                                           *)
RefusedForAReason ==
  /\ stage \in {"ready", "not_implemented"} => SoundSource /\ SoundTunnel
  /\ stage = "refused" => ~(SoundSource /\ SoundTunnel)
  /\ stage = "not_implemented" => Source \in Reserved

(* "ssh_tunnel.host and ssh_tunnel.user are required when enabled": a       *)
(* tunnel that is switched off takes nothing but ports that are numbers     *)
(* (SshTunnelConfig).                                                       *)
TunnelOffTakesNothing ==
  stage = "refused" /\ ~MeantTunnel => ~SoundSource \/ ~ReadableTunnel
=============================================================================
