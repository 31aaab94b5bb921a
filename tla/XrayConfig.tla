----------------------------- MODULE XrayConfig -----------------------------
(***************************************************************************)
(* The configuration src/src/xray.rs makes of a node's config_url.         *)
(*                                                                         *)
(* A URL is a sequence of tokens: the scheme, the separators, the keys the *)
(* parsers look for, and the values between them.  A parser that may fail  *)
(* is a set of at most one result.  Of the configuration only what depends *)
(* on the URL is kept: the outbound named "proxy".                         *)
(*                                                                         *)
(* External: which tokens u16::from_str accepts, and what base64 and       *)
(* serde_json make of a token.                                             *)
(***************************************************************************)
EXTENDS Integers, Sequences, FiniteSetsExt

CONSTANTS
  PortOf,   \* the tokens that are a u16, each with its value
  JsonOf    \* the tokens that decode to a JSON object: for each of its fields a
            \* JSON type and a value

ASSUME XrayConfigAssumption == \A t \in DOMAIN PortOf : PortOf[t] \in 0 .. 65535

unwrap_or(option, default) ==
  IF option = {} THEN default ELSE CHOOSE x \in option : TRUE

\* str::split_once: what is before and what is after the first separator.
Found(s, sep)  == {i \in DOMAIN s : s[i] = sep}
Has(s, sep)    == Found(s, sep) # {}
Before(s, sep) == IF Has(s, sep) THEN SubSeq(s, 1, Min(Found(s, sep)) - 1) ELSE s
After(s, sep)  == IF Has(s, sep) THEN SubSeq(s, Min(Found(s, sep)) + 1, Len(s)) ELSE <<>>

QueryValueMutant(query, key) ==
  IF Before(query, "=") = <<key>> THEN {After(Before(query, "&"), "=")} ELSE {}

\* split('&').find_map: the value of the first parameter with that key.
QueryValue(query, key) ==
  LET Param(i) == Before(SubSeq(query, i + 1, Len(query)), "&")
      hits == {i \in {0} \cup Found(query, "&") :
                 Has(Param(i), "=") /\ Before(Param(i), "=") = <<key>>} IN
  IF hits = {} THEN {} ELSE {After(Param(Min(hits)), "=")}

\* secret@host:port?query, as trojan and vless have it.  The port is whatever
\* follows the first colon: an IPv6 address has none that parses.
Authority(stripped) ==
  LET rest      == After(stripped, "@")
      host_port == Before(rest, "?")
      port_str  == After(host_port, ":") IN
  IF /\ Has(stripped, "@") /\ Has(host_port, ":")
     /\ Len(port_str) = 1 /\ port_str[1] \in DOMAIN PortOf
    THEN {[secret |-> Before(stripped, "@"), host |-> Before(host_port, ":"),
           port |-> PortOf[port_str[1]], query |-> After(rest, "?")]}
    ELSE {}

parse_trojan_url(stripped) ==
  {[protocol |-> "trojan", address |-> a.host, port |-> a.port,
    user |-> [password |-> a.secret],
    sni |-> unwrap_or(QueryValue(a.query, "sni"), a.host),
    security |-> <<"tls">>, network |-> <<"tcp">>] : a \in Authority(stripped)}

\* Encryption, flow and network are fixed, whatever the query says.
parse_vless_url(stripped) ==
  {[protocol |-> "vless", address |-> a.host, port |-> a.port,
    user |-> [id |-> a.secret, encryption |-> "none", flow |-> ""],
    sni |-> unwrap_or(QueryValue(a.query, "sni"), a.host),
    security |-> unwrap_or(QueryValue(a.query, "security"), <<"tls">>),
    network |-> <<"tcp">>] : a \in Authority(stripped)}

\* serde_json: v[field] is null if there is none; as_str and as_u64 are None for
\* a value of another type.
Index(v, field) == IF field \in DOMAIN v THEN v[field].value ELSE <<"null">>
As(v, field, type) ==
  IF field \in DOMAIN v /\ v[field].type = type THEN {v[field].value} ELSE {}

\* as_u64, 443 if it is no number, cast to u16.
AsPort(v) == unwrap_or(As(v, "port", "number"), 443) % 65536

parse_vmess_url(stripped) ==
  IF Len(stripped) # 1 \/ stripped[1] \notin DOMAIN JsonOf THEN {}
  ELSE LET v == JsonOf[stripped[1]] IN
       {[protocol |-> "vmess", address |-> Index(v, "add"), port |-> AsPort(v),
         user |-> [id |-> Index(v, "id"),
                   alterId |-> unwrap_or(As(v, "aid", "number"), 0),
                   security |-> unwrap_or(As(v, "scy", "string"), <<"auto">>)],
         sni |-> unwrap_or(As(v, "sni", "string"), <<>>),
         security |-> unwrap_or(As(v, "tls", "string"), <<"none">>),
         network |-> unwrap_or(As(v, "net", "string"), <<"tcp">>)]}

parse_subscription_url(url) ==
  CASE Head(url) = "trojan://" -> parse_trojan_url(Tail(url))
    [] Head(url) = "vless://"  -> parse_vless_url(Tail(url))
    [] Head(url) = "vmess://"  -> parse_vmess_url(Tail(url))
    [] OTHER -> {}

\* The outbound: the listener's host and port, which generate_xray_config is
\* given too, have no part in it, since every parser returns a name.
generate_xray_config(url) ==
  {[protocol |-> p.protocol,
    settings |-> [address |-> p.address, port |-> p.port, user |-> p.user],
    network |-> p.network, security |-> p.security, serverName |-> p.sni] :
      p \in parse_subscription_url(url)}

=============================================================================
