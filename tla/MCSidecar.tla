----------------------------- MODULE MCSidecar -----------------------------
(***************************************************************************)
(* The instance of Sidecar: one node for every form of a URL that is       *)
(* documented or refused.                                                  *)
(***************************************************************************)
EXTENDS Sidecar, Sequences

MCPortOf == [t \in {"443", "8443"} |-> IF t = "443" THEN 443 ELSE 8443]

MCJsonOf ==
  [eyJhZGQi |-> [add |-> [type |-> "string", value |-> <<"c.example">>],
                 port |-> [type |-> "number", value |-> 8443],
                 id |-> [type |-> "string", value |-> <<"uuid">>],
                 sni |-> [type |-> "string", value |-> <<"front">>],
                 tls |-> [type |-> "string", value |-> <<"tls">>]]]

MCUrl ==
  [plain  |-> <<>>,
   trojan |-> <<"trojan://", "pw", "@", "a.example", ":", "8443", "?",
                "type", "=", "tcp", "&", "flag", "&", "sni", "=", "front", "&",
                "sni", "=", "second">>,
   bare   |-> <<"trojan://", "pw", "@", "a.example", ":", "443">>,
   vless  |-> <<"vless://", "uuid", "@", "b.example", ":", "443", "?",
                "encryption", "=", "none", "&", "security", "=", "none", "&",
                "sni", "=", "front">>,
   vmess  |-> <<"vmess://", "eyJhZGQi">>,
   ipv6   |-> <<"vless://", "uuid", "@", "[2001", ":", "db8]", ":", "443">>,
   other  |-> <<"ss://", "pw", "@", "a.example", ":", "443">>]

MCNodes == DOMAIN MCUrl

Tunnel(protocol, user, serverName, security) ==
  [protocol |-> protocol, user |-> user,
   serverName |-> <<serverName>>, security |-> <<security>>]

\* vless has encryption none by its grammar; a vmess object without "aid" and
\* "scy" means the defaults.
MCSays ==
  [trojan |-> Tunnel("trojan", [password |-> <<"pw">>], "front", "tls"),
   bare   |-> Tunnel("trojan", [password |-> <<"pw">>], "a.example", "tls"),
   vless  |-> Tunnel("vless", [id |-> <<"uuid">>, encryption |-> "none", flow |-> ""],
                     "front", "none"),
   vmess  |-> Tunnel("vmess", [id |-> <<"uuid">>, alterId |-> 0, security |-> <<"auto">>],
                     "front", "tls")]

\* The API answers with all its nodes, or with none.
MCAnswers == {MCNodes, {}}

=============================================================================
