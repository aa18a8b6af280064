-------------------------------- MODULE Policy --------------------------------
(***************************************************************************)
(* The policy engine of policy.rs: what one AccessPolicy grants, as an     *)
(* operator on a policy and a request, and what a list of them grants.     *)
(*                                                                         *)
(* A list of strings is a set, "*" is the value Star, an absent Option is   *)
(* None, and the Boolean fields of a record are the set of the names of    *)
(* the true ones.  The reasons of a denial are left out: the checks are    *)
(* conjuncts.  The three peer attributes (uid, executable path and hash)   *)
(* have one rule and are one function.                                     *)
(***************************************************************************)
EXTENDS Integers

CONSTANTS
    Refs, Consumers, Purposes,      \* secret references, consumers, purposes
    Modes,                          \* delivery modes
    PeerValues,                     \* uids, executable paths and their hashes
    Hosts, Methods, Paths,          \* the parts of an HTTP request
    Upper,                          \* to_ascii_uppercase on Methods
    PrefixesOf,                     \* the p with path.starts_with(p)
    Star,                            \* "*"
    None

PeerAttributes == {"os_uid", "executable_path", "executable_sha256"}
Ranks          == [A0 |-> 0, A1 |-> 1, A2 |-> 2, A3 |-> 3, A4 |-> 4, A5 |-> 5]
PlaintextModes == {"raw", "terminal_print"}

PolicyFlags  == {"exportable", "allow_unbound_plaintext_export", "require_mfa",
                 "require_https_for_brokered_http"}
RequestFlags == {"raw_export_requested", "mfa_verified"}

AccessPolicy ==
    [secret_refs: SUBSET (Refs \cup {Star}),
     allowed_consumers: SUBSET (Consumers \cup {Star}), denied_consumers: SUBSET Consumers,
     allowed_purposes: SUBSET (Purposes \cup {Star}), denied_purposes: SUBSET Purposes,
     allowed_delivery_modes: SUBSET Modes,
     allowed_peer: [PeerAttributes -> SUBSET PeerValues],
     denied_peer: [PeerAttributes -> SUBSET PeerValues],
     allowed_http_hosts: SUBSET (Hosts \cup {Star}), denied_http_hosts: SUBSET Hosts,
     allowed_http_methods: SUBSET (Methods \cup {Star}), denied_http_methods: SUBSET Methods,
     allowed_http_path_prefixes: SUBSET Paths, denied_http_path_prefixes: SUBSET Paths,
     max_http_request_body_bytes: Nat \cup {None},
     minimum_provider_assurance: STRING,
     expires_at: Nat \cup {None},
     flags: SUBSET PolicyFlags]

AccessRequest ==
    [secret_ref: Refs, consumer: Consumers, purpose: Purposes, delivery_mode: Modes,
     provider_assurance: STRING,
     http_host: Hosts \cup {None}, http_scheme: {"http", "https", None},
     http_method: Methods \cup {None}, http_path: Paths \cup {None},
     http_request_body_bytes: Nat \cup {None},
     peer: [PeerAttributes -> PeerValues \cup {None}],
     flags: SUBSET RequestFlags,
     now: Nat]

ASSUME PolicyAssumption ==
    /\ Upper \in [Methods \cup {Star} -> Methods \cup {Star}]
    /\ PrefixesOf \in [Paths -> SUBSET Paths]
    /\ None \notin Nat \cup Hosts \cup Methods \cup Paths \cup PeerValues
    /\ None \notin {"http", "https"}
    /\ Star # None

-----------------------------------------------------------------------------
\* A level the engine does not know ranks below all others.
assurance_rank(level) == IF level \in DOMAIN Ranks THEN Ranks[level] ELSE -1

\* A list that must name the value or hold "*"; an empty one names nothing.
Lists(list, x) == x \in list \/ Star \in list

\* A list that restricts only if it has an entry
Admits(list, x) == list = {} \/ Lists(list, x)

\* Some allow list of peers has an entry.
policy_has_peer_binding(policy) == \E a \in PeerAttributes : policy.allowed_peer[a] # {}

\* Mutation: a peer whose attribute could not be read passes the allow list.
PeerAdmittedUnread(policy, request, a) ==
    /\ request.peer[a] \notin policy.denied_peer[a]
    /\ \/ policy.allowed_peer[a] = {}
       \/ request.peer[a] \in policy.allowed_peer[a] \cup {None}

\* Mutation: the deny list is consulted only where there is no allow list.
PeerAdmittedFirst(policy, request, a) ==
    IF policy.allowed_peer[a] = {} THEN request.peer[a] \notin policy.denied_peer[a]
    ELSE request.peer[a] \in policy.allowed_peer[a]

\* The deny list and the allow list of one peer attribute; None is on neither.
PeerAdmitted(policy, request, a) ==
    /\ request.peer[a] \notin policy.denied_peer[a]
    /\ policy.allowed_peer[a] = {} \/ request.peer[a] \in policy.allowed_peer[a]

Uppercase(methods) == {Upper[m] : m \in methods}

evaluate_brokered_http(policy, request) ==
    /\ request.http_host # None
    /\ "require_https_for_brokered_http" \in policy.flags => request.http_scheme = "https"
    /\ request.http_host \notin policy.denied_http_hosts
    /\ Admits(policy.allowed_http_hosts, request.http_host)
    /\ request.http_method # None
    /\ Upper[request.http_method] \notin Uppercase(policy.denied_http_methods)
    /\ Admits(Uppercase(policy.allowed_http_methods), Upper[request.http_method])
    /\ request.http_path # None
    /\ PrefixesOf[request.http_path] \cap policy.denied_http_path_prefixes = {}
    /\ \/ policy.allowed_http_path_prefixes = {}
       \/ PrefixesOf[request.http_path] \cap policy.allowed_http_path_prefixes # {}
    /\ None \notin {policy.max_http_request_body_bytes, request.http_request_body_bytes} =>
         request.http_request_body_bytes <= policy.max_http_request_body_bytes

\* What a raw export needs besides the rest
RawExportAllowed(policy, request) ==
    "raw_export_requested" \in request.flags =>
        /\ "exportable" \in policy.flags
        /\ \/ request.delivery_mode \notin PlaintextModes
           \/ "allow_unbound_plaintext_export" \in policy.flags
           \/ policy_has_peer_binding(policy)

\* evaluate_policy returns Allow
Allows(policy, request) ==
    /\ Lists(policy.secret_refs, request.secret_ref)
    /\ policy.expires_at # None => request.now <= policy.expires_at
    /\ request.consumer \notin policy.denied_consumers
    /\ request.purpose \notin policy.denied_purposes
    /\ Lists(policy.allowed_consumers, request.consumer)
    /\ Lists(policy.allowed_purposes, request.purpose)
    /\ request.delivery_mode \in policy.allowed_delivery_modes
    /\ \A a \in PeerAttributes : PeerAdmitted(policy, request, a)
    /\ request.delivery_mode = "brokered_http" => evaluate_brokered_http(policy, request)
    /\ RawExportAllowed(policy, request)
    /\ assurance_rank(request.provider_assurance)
         >= assurance_rank(policy.minimum_provider_assurance)
    /\ "require_mfa" \in policy.flags => "mfa_verified" \in request.flags
-----------------------------------------------------------------------------
(* When one policy is at least as strict as another, field by field        *)

\* A restricting list was made narrower; the empty one is the widest.
Narrower(new, old) == old = {} \/ (new # {} /\ new \subseteq old)

\* A limit was lowered; None is no limit.
Lower(new, old) == old = None \/ (new # None /\ new <= old)

StricterLists(new, old) ==
    /\ new.secret_refs \subseteq old.secret_refs
    /\ new.allowed_consumers \subseteq old.allowed_consumers
    /\ old.denied_consumers \subseteq new.denied_consumers
    /\ new.allowed_purposes \subseteq old.allowed_purposes
    /\ old.denied_purposes \subseteq new.denied_purposes
    /\ new.allowed_delivery_modes \subseteq old.allowed_delivery_modes

\* A first peer binding is not a restriction only: it also makes raw plaintext
\* export possible, so the old policy must already have one or not need it.
StricterPeers(new, old) ==
    /\ \A a \in PeerAttributes : /\ Narrower(new.allowed_peer[a], old.allowed_peer[a])
                                 /\ old.denied_peer[a] \subseteq new.denied_peer[a]
    /\ policy_has_peer_binding(old) \/ "allow_unbound_plaintext_export" \in old.flags
         \/ ~policy_has_peer_binding(new)

StricterHttp(new, old) ==
    /\ Narrower(new.allowed_http_hosts, old.allowed_http_hosts)
    /\ old.denied_http_hosts \subseteq new.denied_http_hosts
    /\ Narrower(new.allowed_http_methods, old.allowed_http_methods)
    /\ old.denied_http_methods \subseteq new.denied_http_methods
    /\ Narrower(new.allowed_http_path_prefixes, old.allowed_http_path_prefixes)
    /\ old.denied_http_path_prefixes \subseteq new.denied_http_path_prefixes
    /\ Lower(new.max_http_request_body_bytes, old.max_http_request_body_bytes)

StricterLimits(new, old) ==
    /\ Lower(new.expires_at, old.expires_at)
    /\ new.minimum_provider_assurance \in DOMAIN Ranks \/
       new.minimum_provider_assurance = old.minimum_provider_assurance
    /\ old.minimum_provider_assurance \in DOMAIN Ranks =>
         /\ new.minimum_provider_assurance \in DOMAIN Ranks
         /\ Ranks[old.minimum_provider_assurance] <= Ranks[new.minimum_provider_assurance]
    /\ \A f \in {"exportable", "allow_unbound_plaintext_export"} :
          f \in new.flags => f \in old.flags
    /\ \A f \in {"require_mfa", "require_https_for_brokered_http"} :
          f \in old.flags => f \in new.flags

Stricter(new, old) ==
    /\ StricterLists(new, old) /\ StricterPeers(new, old)
    /\ StricterHttp(new, old) /\ StricterLimits(new, old)
===============================================================================
