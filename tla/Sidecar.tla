------------------------------ MODULE Sidecar ------------------------------
(***************************************************************************)
(* Startup with the contents of the configuration: what stands in a node's *)
(* config_url, what the program writes into config.json for it, and so as  *)
(* what and under which name the Xray process of a run presents itself.    *)
(* Which way its connection takes, straight to the server or through the   *)
(* listener, is not looked at.                                             *)
(***************************************************************************)
EXTENDS Startup, XrayConfig

CONSTANTS
  Url,    \* each node's config_url
  Says    \* of the nodes whose URL has a documented form: what it says of the user,
          \* the server name and the security

\* The nodes initialize_xray_sidecar returns an error for, before it touches a file.
Refused == {n \in Nodes \ Plain : generate_xray_config(Url[n]) = {}}

\* As what a sidecar that has read this node's configuration presents itself.
Presents(n) ==
  {[protocol |-> o.protocol, user |-> o.settings.user,
    serverName |-> o.serverName, security |-> o.security] :
      o \in generate_xray_config(Url[n])}

\* The sidecar of a run that is under way presents itself as the selected node's URL
\* states, with its secret, server name and security: the URL is not refused, no
\* parameter is taken for another, and no configuration another run left is in
\* effect.
PresentsOwnNode ==
  \A r \in Runs : node[r] \in DOMAIN Says =>
    /\ node[r] \notin Garbled
    /\ Alive(r) /\ sidecar[r] = "up" =>
         loaded[r] \in Nodes /\ Presents(loaded[r]) = {Says[node[r]]}

=============================================================================
