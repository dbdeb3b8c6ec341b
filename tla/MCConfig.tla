------------------------------ MODULE MCConfig ------------------------------
(* Config over files and environments that differ in faces, providers    *)
(* and URLs, in keys, or in the tunnel.                                     *)
EXTENDS Config

PlainFile == [face |-> "blockfrost", provider |-> "koios", base_url |-> Unset, dsn |-> Unset,
              passthrough |-> FALSE, tunnel |-> NoSection, api_key |-> Unset,
              fallback |-> Unset]

PlainEnv == [face |-> Unset, provider |-> Unset, base_url |-> Unset, dsn |-> Unset,
             tunnel |-> Unset, ssh |-> NoText, api_key |-> Unset]

AnySource == {"blockfrost", "koios", "dbsync", "ogmios", Unset}

SourceInputs ==
  {[file |-> [PlainFile EXCEPT !.face = ff, !.provider = fp, !.base_url = fu, !.dsn = fd,
                               !.passthrough = through],
    env  |-> [PlainEnv EXCEPT !.face = ef, !.provider = ep, !.base_url = eu, !.dsn = ed]] :
      ff \in {"blockfrost", Unset}, fp \in AnySource, fu \in {Unset, Blank, Url},
      fd \in {Unset, Blank}, through \in BOOLEAN, ef \in {"koios", Unset},
      ep \in AnySource, eu \in {Unset, Blank, EnvUrl}, ed \in {Unset, Blank, "dsn"}}

KeyInputs ==
  {[file |-> [PlainFile EXCEPT !.api_key = fk, !.fallback = ff],
    env  |-> [PlainEnv EXCEPT !.api_key = ek]] :
      fk \in {Unset, Blank, LegacyKey}, ff \in {Unset, Blank, FileKey},
      ek \in {Unset, Blank, EnvKey}}

TunnelInput(provider, section, switch, ssh) ==
  [file |-> [PlainFile EXCEPT !.provider = provider, !.dsn = "dsn", !.tunnel = section],
   env  |-> [PlainEnv EXCEPT !.tunnel = switch, !.ssh = ssh]]

Section(switch, text) == [kind |-> "mapping", enabled |-> switch, text |-> text]

Text == {Unset, Empty, Blank, Filled}
EndpointOnly == [NoText EXCEPT !["host"] = Filled, !["user"] = Filled]

(* Host and user from either layer, with a password or without.             *)
EndpointInputs ==
  {TunnelInput(provider, section, switch,
     [NoText EXCEPT !["host"] = host, !["user"] = user, !["password"] = password]) :
      provider \in {"koios", "dbsync"}, switch \in Switches,
      section \in {NoSection, NullSection} \cup
        {Section(on, [NoText EXCEPT !["host"] = fh, !["user"] = fu]) :
           on \in Switches, fh \in {Unset, Filled}, fu \in {Unset, Filled}},
      host \in Text, user \in Text, password \in {Unset, Filled}}

(* Credentials and a port from either layer.                                *)
CredentialInputs ==
  {TunnelInput("dbsync", section, switch,
     [NoText EXCEPT !["private_key"] = key, !["password"] = password, !["port"] = port]) :
      switch \in Switches,
      section \in {Section(on, [EndpointOnly EXCEPT !["private_key"] = fk, !["port"] = fp]) :
                     on \in {Unset, "off"}, fk \in {Unset, Filled}, fp \in {Unset, Blank, Filled}},
      key \in Text, password \in {Unset, Empty, Filled}, port \in Text}

(* Each variable alone.                                                     *)
LoneInputs ==
  {TunnelInput("dbsync", section, Unset, [NoText EXCEPT ![f] = text]) :
      section \in {NoSection, NullSection} \cup
        {Section(on, [EndpointOnly EXCEPT !["password"] = Filled]) : on \in Switches},
      f \in SshFields, text \in Text}

TunnelInputs == EndpointInputs \cup CredentialInputs \cup LoneInputs

AllInputs == TunnelInputs \cup KeyInputs \cup SourceInputs
=============================================================================
