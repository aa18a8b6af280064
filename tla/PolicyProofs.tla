----------------------------- MODULE PolicyProofs -----------------------------
(***************************************************************************)
(* What the policy engine's verdict implies, for every policy and request. *)
(***************************************************************************)
EXTENDS Policy, TLAPS

\* The peer checks of a stricter policy imply those of the laxer one.
LEMMA PeersMonotone ==
    ASSUME NEW new, NEW old, NEW r, StricterPeers(new, old),
           NEW a \in PeerAttributes, PeerAdmitted(new, r, a)
    PROVE  PeerAdmitted(old, r, a)
BY DEF StricterPeers, PeerAdmitted, Narrower

\* Narrowing a restricting list narrows what it admits.
LEMMA AdmitsMonotone ==
    ASSUME NEW new, NEW old, NEW x, Narrower(new, old), Admits(new, x)
    PROVE  Admits(old, x)
BY DEF Narrower, Admits, Lists

\* Uppercasing keeps the order of the method lists.
LEMMA UppercaseMonotone ==
    ASSUME NEW new, NEW old
    PROVE  /\ new \subseteq old => Uppercase(new) \subseteq Uppercase(old)
           /\ Narrower(new, old) => Narrower(Uppercase(new), Uppercase(old))
BY DEF Uppercase, Narrower

\* A stricter policy allows no HTTP request the laxer one denies.
LEMMA HttpMonotone ==
    ASSUME NEW new \in AccessPolicy, NEW old \in AccessPolicy, NEW r \in AccessRequest,
           StricterHttp(new, old), StricterLimits(new, old), evaluate_brokered_http(new, r)
    PROVE  evaluate_brokered_http(old, r)
<1>1. /\ r.http_host # None /\ r.http_method # None /\ r.http_path # None
      /\ "require_https_for_brokered_http" \in old.flags => r.http_scheme = "https"
      /\ r.http_host \notin old.denied_http_hosts
  BY DEF evaluate_brokered_http, StricterHttp, StricterLimits
<1>2. Admits(old.allowed_http_hosts, r.http_host)
  BY AdmitsMonotone DEF evaluate_brokered_http, StricterHttp
<1>3. Upper[r.http_method] \notin Uppercase(old.denied_http_methods)
  BY UppercaseMonotone DEF evaluate_brokered_http, StricterHttp
<1>4. Admits(Uppercase(old.allowed_http_methods), Upper[r.http_method])
  BY UppercaseMonotone, AdmitsMonotone DEF evaluate_brokered_http, StricterHttp
<1>5. PrefixesOf[r.http_path] \cap old.denied_http_path_prefixes = {}
  BY DEF evaluate_brokered_http, StricterHttp
<1>6. \/ old.allowed_http_path_prefixes = {}
      \/ PrefixesOf[r.http_path] \cap old.allowed_http_path_prefixes # {}
  BY DEF evaluate_brokered_http, StricterHttp, Narrower
<1>7. None \notin {old.max_http_request_body_bytes, r.http_request_body_bytes} =>
        r.http_request_body_bytes <= old.max_http_request_body_bytes
  BY PolicyAssumption DEF evaluate_brokered_http, StricterHttp, Lower, AccessPolicy, AccessRequest
<1>8. QED
  BY <1>1, <1>2, <1>3, <1>4, <1>5, <1>6, <1>7 DEF evaluate_brokered_http

\* A raw export the stricter policy allows, the laxer one allows.
LEMMA RawMonotone ==
    ASSUME NEW new, NEW old, NEW r, StricterPeers(new, old), StricterLimits(new, old),
           RawExportAllowed(new, r)
    PROVE  RawExportAllowed(old, r)
BY DEF StricterPeers, StricterLimits, RawExportAllowed

\* The assurance a stricter policy asks for is enough for the laxer one.
LEMMA AssuranceMonotone ==
    ASSUME NEW new \in AccessPolicy, NEW old \in AccessPolicy, NEW r \in AccessRequest,
           StricterLimits(new, old),
           assurance_rank(r.provider_assurance) >= assurance_rank(new.minimum_provider_assurance)
    PROVE  assurance_rank(r.provider_assurance) >= assurance_rank(old.minimum_provider_assurance)
<1>1. \A l : assurance_rank(l) \in Int /\ assurance_rank(l) >= -1
  BY DEF assurance_rank, Ranks
<1>2. assurance_rank(new.minimum_provider_assurance) >= assurance_rank(old.minimum_provider_assurance)
  <2>1. CASE old.minimum_provider_assurance \in DOMAIN Ranks
    BY <2>1 DEF StricterLimits, assurance_rank
  <2>2. CASE old.minimum_provider_assurance \notin DOMAIN Ranks
    BY <1>1, <2>2 DEF assurance_rank
  <2>3. QED
    BY <2>1, <2>2
<1>3. QED
  BY <1>1, <1>2

\* Making a stored policy stricter in any combination of its fields never grants
\* a request it denied: evaluate_policy is monotone in every list and limit.
THEOREM StricterNeverGrants ==
    ASSUME NEW new \in AccessPolicy, NEW old \in AccessPolicy, NEW r \in AccessRequest,
           Stricter(new, old), Allows(new, r)
    PROVE  Allows(old, r)
<1> USE DEF Stricter
<1>1. /\ Lists(old.secret_refs, r.secret_ref)
      /\ r.consumer \notin old.denied_consumers
      /\ r.purpose \notin old.denied_purposes
      /\ Lists(old.allowed_consumers, r.consumer)
      /\ Lists(old.allowed_purposes, r.purpose)
      /\ r.delivery_mode \in old.allowed_delivery_modes
  BY DEF Allows, Lists, StricterLists
<1>2. old.expires_at # None => r.now <= old.expires_at
  BY PolicyAssumption DEF Allows, StricterLimits, Lower, AccessPolicy, AccessRequest
<1>3. \A a \in PeerAttributes : PeerAdmitted(old, r, a)
  BY PeersMonotone DEF Allows
<1>4. r.delivery_mode = "brokered_http" => evaluate_brokered_http(old, r)
  BY HttpMonotone DEF Allows
<1>5. RawExportAllowed(old, r)
  BY RawMonotone DEF Allows
<1>6. assurance_rank(r.provider_assurance) >= assurance_rank(old.minimum_provider_assurance)
  BY AssuranceMonotone DEF Allows
<1>7. "require_mfa" \in old.flags => "mfa_verified" \in r.flags
  BY DEF Allows, StricterLimits
<1>8. QED
  BY <1>1, <1>2, <1>3, <1>4, <1>5, <1>6, <1>7 DEF Allows

\* A raw export in a plaintext mode goes to a peer an allow list names, unless the
\* policy waives it: the two checks of evaluate_policy that only bind together.
THEOREM PlaintextPeerIsNamed ==
    ASSUME NEW policy \in AccessPolicy, NEW r \in AccessRequest, Allows(policy, r),
           "raw_export_requested" \in r.flags, r.delivery_mode \in PlaintextModes,
           "allow_unbound_plaintext_export" \notin policy.flags
    PROVE  \E a \in PeerAttributes : /\ r.peer[a] # None
                                     /\ r.peer[a] \in policy.allowed_peer[a]
<1>1. PICK a \in PeerAttributes : policy.allowed_peer[a] # {}
  BY DEF Allows, RawExportAllowed, policy_has_peer_binding
<1>2. r.peer[a] \in policy.allowed_peer[a]
  BY <1>1 DEF Allows, PeerAdmitted
<1>3. policy.allowed_peer[a] \subseteq PeerValues
  BY DEF AccessPolicy
<1>4. QED
  BY <1>2, <1>3, PolicyAssumption
===============================================================================
