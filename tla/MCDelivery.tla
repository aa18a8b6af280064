------------------------------ MODULE MCDelivery ------------------------------
(***************************************************************************)
(* A small instance of Delivery for TLC.                                   *)
(***************************************************************************)
EXTENDS Delivery

CONSTANTS p1, p2, r1, c1, u1, u2, h1

MCUpper == [m \in {"post", "POST", "GET", Star} |-> IF m = "post" THEN "POST" ELSE m]
\* "/v1" is a prefix of "/v1/models" and "/v1beta", and both are paths.
MCPrefixesOf == [v1 |-> {"v1"}, v1models |-> {"v1", "v1models"}, v1beta |-> {"v1", "v1beta"}]

MCOwnPeer == [os_uid |-> u1, executable_path |-> None, executable_sha256 |-> h1]
\* The executable of another user's process cannot be read.
OtherPeer == [os_uid |-> u2, executable_path |-> None, executable_sha256 |-> None]
MCPeers   == {MCOwnPeer, OtherPeer}

Print1 == [secret_ref |-> r1, consumer |-> c1, purpose |-> "call",
           delivery_mode |-> "terminal_print", provider_assurance |-> "A1",
           http_host |-> None, http_scheme |-> None, http_method |-> None,
           http_path |-> None, http_request_body_bytes |-> None,
           peer |-> MCOwnPeer, flags |-> {}, now |-> 0]
Child1 == [Print1 EXCEPT !.delivery_mode = "child_env"]
\* A broker client may claim a level the engine does not know.
Http1  == [Print1 EXCEPT !.delivery_mode = "brokered_http", !.provider_assurance = "none",
              !.http_host = "api", !.http_scheme = "https", !.http_method = "POST",
              !.http_path = "v1models", !.http_request_body_bytes = 2]
MCAsks == {Print1, Child1, Http1}

NoPeers == [a \in PeerAttributes |-> {}]
Uids(S) == [NoPeers EXCEPT !["os_uid"] = S]

\* Exportable and unbound, for everyone but u2
Open == [secret_refs |-> {Star}, allowed_consumers |-> {c1}, denied_consumers |-> {},
         allowed_purposes |-> {Star}, denied_purposes |-> {},
         allowed_delivery_modes |-> {"terminal_print", "child_env", "brokered_http"},
         allowed_peer |-> NoPeers, denied_peer |-> Uids({u2}),
         allowed_http_hosts |-> {}, denied_http_hosts |-> {},
         allowed_http_methods |-> {}, denied_http_methods |-> {},
         allowed_http_path_prefixes |-> {}, denied_http_path_prefixes |-> {},
         max_http_request_body_bytes |-> None,
         minimum_provider_assurance |-> "any", expires_at |-> None,
         flags |-> {"exportable", "allow_unbound_plaintext_export"}]
\* Stricter than Open: the peers are listed, the HTTP calls restricted.
Listed == [Open EXCEPT !.allowed_peer = Uids({u1, u2}),
              !.allowed_http_methods = {"post"}, !.allowed_http_path_prefixes = {"v1"},
              !.max_http_request_body_bytes = 2]
\* Exportable to a peer whose executable is known, with MFA
Bound  == [Open EXCEPT !.denied_peer = NoPeers,
              !.allowed_peer = [NoPeers EXCEPT !["executable_sha256"] = {h1}],
              !.minimum_provider_assurance = "A1", !.expires_at = 0,
              !.flags = {"exportable", "require_mfa"}]
MCPolicyBodies == {Open, Listed, Bound}

\* One execution beside one that changes the gates; a gateway call beside the logins and
\* locks of the session that admitted it.  Two deliveries share only the session in this
\* module: their tickets meet in Tickets.
Changes == {"enable_waived", "enroll", "withdraw"}
GateRoles   == [p \in Procs |->
    IF p = p1 THEN Gated \cup {"enable", "disable", "enroll"} ELSE Changes \cup {"disable"}]
PolicyRoles == [p \in Procs |->
    IF p = p1 THEN Brokered \cup Logins \cup {"run"} ELSE Changes \cup {"policy"}]
GatewayRoles == [p \in Procs |->
    IF p = p1 THEN {"gateway"} ELSE Logins \cup {"enroll", "policy", "provider_http"}]
MCRoles == {GateRoles, PolicyRoles, GatewayRoles}
===============================================================================
