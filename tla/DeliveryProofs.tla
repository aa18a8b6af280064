---------------------------- MODULE DeliveryProofs ----------------------------
(***************************************************************************)
(* Theorems about module Delivery, for every set of commands, policies,    *)
(* peers and requests, and every bound on the clock and the enrolments.    *)
(***************************************************************************)
EXTENDS Delivery, PolicyProofs

-----------------------------------------------------------------------------
(* The inductive invariant                                                 *)

\* The steps of each command
LabelsOf(c) ==
    CASE c = None -> {"idle"}
      [] c = "get" -> {"export", "factor", "verify", "read", "printed"}
      [] c = "consume" -> {"export", "factor", "verify", "enforce_export", "enforce_factor",
                           "mfa_required", "use", "printed"}
      [] c = "enable" -> {"factor", "verify", "set_check", "set", "changed"}
      [] c \in {"enable_waived", "disable"} -> {"factor", "verify", "set", "changed"}
      [] c = "run" -> {"verify", "issue", "use", "printed"}
      [] c \in Brokered -> {"issue", "enforce_export", "enforce_factor", "mfa_required", "use",
                            "printed"}
      [] c = "gateway" -> {"issue", "use", "printed"}
      [] c \in Logins -> {"verify", "login"}
      [] c = "enroll" -> {"enroll_read", "enroll_save"}
      [] c = "withdraw" -> {"withdraw_load", "withdraw_save"}
      [] OTHER -> {}

Shape == \A p \in Procs : pc[p] \in LabelsOf(cmd[p])

\* A command holds a grant, and what is left of its request, from the evaluation on.
Ticketed == {"enforce_export", "enforce_factor", "mfa_required", "use", "printed"}
Granted ==
    \A p \in Procs :
        /\ grant[p] # None <=> request[p] # None
        /\ grant[p] # None => cmd[p] \in Brokered \cup {"run", "gateway"} /\ pc[p] \in Ticketed

\* An enabled export is open to every command that runs; past the first look at the
\* setting, a gated command was in its time, and past the second look any raw export.
PastExport  == {"factor", "verify", "read"} \cup Ticketed
PastEnforce == Ticketed \ {"enforce_export"}
Opened ==
    \A p \in Procs :
        /\ export = "enabled" /\ pc[p] # "idle" => p \in open
        /\ cmd[p] \in Gated /\ pc[p] \in PastExport => p \in open
        /\ Exported(p) /\ pc[p] \in PastEnforce => p \in open

\* The TOTP record, and the ones about to be saved
Enrolments ==
    /\ totp.status = "active" => totp.version > 0
    /\ \A p \in Procs : /\ pc[p] = "enroll_save" => rec[p].version > 0
                        /\ pc[p] = "withdraw_save" => rec[p].status = "withdrawn"
                        /\ pc[p] = "set" /\ cmd[p] = "enable" => totp.version > 0

\* The factor enrolled all along is the one of the record now, and a command past
\* the gate has shown a code of it.
PastGate == {"read", "set_check", "set", "changed"} \cup Ticketed
Proved ==
    \A p \in Procs :
        /\ since[p] <= step
        /\ proof[p] = NoCode \/ proof[p].seed # 0
        /\ factor[p] # 0 => Enrolled /\ totp.seed = factor[p] /\ cmd[p] \in Gated \cup Settings
        /\ factor[p] # 0 /\ pc[p] \in PastGate =>
             proof[p].seed = factor[p] /\ since[p] <= proof[p].step + 1

\* The broker serves one socket command at a time and one gateway request, which keeps
\* its copies; a session, and so a copy of one, is verified by a code only.
Serving ==
    /\ session = "verified" => sessionSeed # 0
    /\ copies.session = "verified" => copies.seed # 0
    /\ \A p \in Procs : /\ cmd[p] \in Brokered \cup Logins => mutex = p
                        /\ cmd[p] = "gateway" => copies # NoCopies
    /\ \A p, q \in Procs : cmd[p] = "gateway" /\ cmd[q] = "gateway" => p = q

\* What the granting policy asked for, command by command
CodeBehind(p) ==
    /\ cmd[p] = "run" => proof[p].seed # 0
    /\ cmd[p] \in Brokered => sessionSeed # 0
    /\ cmd[p] = "gateway" => copies.seed # 0
Honoured ==
    \A p \in Procs :
       grant[p] # None /\ "require_mfa" \in grant[p].body.flags => CodeBehind(p)
Named ==
    \A p \in Procs :
       /\ grant[p] # None
       /\ "raw_export_requested" \in request[p].flags
       /\ request[p].delivery_mode \in PlaintextModes
       /\ "allow_unbound_plaintext_export" \notin grant[p].body.flags
       => \E a \in PeerAttributes : /\ request[p].peer[a] # None
                                    /\ request[p].peer[a] \in grant[p].body.allowed_peer[a]

IInv ==
    /\ TypeOK /\ Shape /\ Granted /\ Opened /\ Enrolments /\ Proved /\ Serving
    /\ Honoured /\ Named /\ EnabledDeliberately

-----------------------------------------------------------------------------
(* The operators                                                           *)

\* What a command can ask the engine for is a request; its flags say what it is.
LEMMA RequestFacts ==
    ASSUME TypeOK, NEW p \in Procs, NEW r \in RequestsOf(p)
    PROVE  /\ r \in AccessRequest
           /\ cmd[p] \in Brokered \cup {"run", "gateway"}
           /\ cmd[p] \in {"run", "gateway"} => "raw_export_requested" \notin r.flags
           /\ "mfa_verified" \in r.flags => /\ cmd[p] = "run" => proof[p] # NoCode
                                            /\ cmd[p] \in Brokered => session = "verified"
                                            /\ cmd[p] = "gateway" => copies.session = "verified"
<1>t. /\ step \in Nat /\ Assurance \in STRING /\ Asks \subseteq AccessRequest
      /\ Peers \cup {OwnPeer} \subseteq [PeerAttributes -> PeerValues \cup {None}]
  BY DeliveryAssumption DEF TypeOK
<1>1. CASE cmd[p] = "run"
  <2>1. PICK ask \in Asks : r = materialization_request(p, ask)
    BY <1>1 DEF RequestsOf
  <2>2. r \in AccessRequest
    <3>1. Flag("mfa_verified", proof[p] # NoCode) \in SUBSET RequestFlags
      BY DEF Flag, RequestFlags
    <3>2. ask \in AccessRequest /\ OwnPeer \in [PeerAttributes -> PeerValues \cup {None}]
      BY <1>t
    <3> QED BY <1>t, <2>1, <3>1, <3>2, ZenonT(40) DEF materialization_request, AccessRequest
  <2>3. r.flags = Flag("mfa_verified", proof[p] # NoCode)
    BY <1>t, <2>1 DEF materialization_request, AccessRequest
  <2> QED BY <1>1, <2>2, <2>3 DEF Flag, Brokered
<1>2. CASE cmd[p] \in Brokered
  <2>1. PICK ask \in Asks, peer \in Peers, raw \in SUBSET {"raw_export_requested"} :
             r = access_request(ask, peer, raw, session)
    <3>1. CASE cmd[p] = "checkout"
      BY <3>1 DEF RequestsOf
    <3>2. CASE cmd[p] = "materialize"
      BY <3>2 DEF RequestsOf
    <3>3. CASE cmd[p] = "provider_http"
      BY <3>3 DEF RequestsOf, HttpAsks
    <3> QED BY <1>2, <3>1, <3>2, <3>3 DEF Brokered
  <2>2. r \in AccessRequest
    <3>1. raw \cup Flag("mfa_verified", session = "verified") \in SUBSET RequestFlags
      BY DEF Flag, RequestFlags
    <3> QED BY <1>t, <2>1, <3>1, ZenonT(40) DEF access_request, AccessRequest
  <2>3. r.flags = raw \cup Flag("mfa_verified", session = "verified")
    BY <1>t, <2>1 DEF access_request, AccessRequest
  <2> QED BY <1>2, <2>2, <2>3 DEF Flag, Brokered
<1>3. CASE cmd[p] = "gateway"
  <2>1. PICK ask \in Asks :
             r = access_request([ask EXCEPT !.provider_assurance = "A1"], OwnPeer, {},
                                copies.session)
    BY <1>3 DEF RequestsOf, HttpAsks
  <2> DEFINE own == [ask EXCEPT !.provider_assurance = "A1"]
             verified == copies.session = "verified"
  <2>2. own \in AccessRequest
    <3>1. ask \in AccessRequest
      BY <1>t
    <3>2. "A1" \in STRING
      BY DeliveryAssumption
    <3> QED BY <3>1, <3>2, ZenonT(40) DEF AccessRequest
  <2>3. /\ r = [own EXCEPT !.peer = OwnPeer, !.now = step,
                           !.flags = {} \cup Flag("mfa_verified", verified)]
    BY <2>1 DEF access_request
  <2>4. {} \cup Flag("mfa_verified", verified) \in SUBSET RequestFlags
    BY DEF Flag, RequestFlags
  <2> HIDE DEF own
  <2>5. r \in AccessRequest
    BY <1>t, <2>2, <2>3, <2>4, ZenonT(40) DEF AccessRequest
  <2>6. r.flags = {} \cup Flag("mfa_verified", verified)
    BY <2>2, <2>3 DEF AccessRequest
  <2> QED BY <1>3, <2>5, <2>6 DEF Flag, Brokered
<1>4. ASSUME cmd[p] \notin Brokered \cup {"run", "gateway"} PROVE FALSE
  BY <1>4 DEF RequestsOf, Brokered
<1> QED BY <1>1, <1>2, <1>3, <1>4

\* A command that is not running is idle.
LEMMA IdleLabel == "idle" \in LabelsOf(None)
<1>1. /\ None # "get" /\ None # "consume" /\ None # "enable" /\ None # "run" /\ None # "enroll"
      /\ None # "withdraw" /\ None # "gateway" /\ None \notin {"enable_waived", "disable"}
      /\ None \notin Brokered /\ None \notin Logins
  BY DeliveryAssumption DEF Commands, Gated, Settings
<1> QED BY <1>1 DEF LabelsOf

\* Nothing happens to the commands other than p.
Others(p) ==
    \A q \in Procs \ {p} :
        /\ pc'[q] = pc[q] /\ cmd'[q] = cmd[q] /\ request'[q] = request[q] /\ grant'[q] = grant[q]
        /\ rec'[q] = rec[q] /\ proof'[q] = proof[q] /\ since'[q] = since[q]

\* What the end of a command leaves
LEMMA LeaveFrame ==
    ASSUME TypeOK, Serving, NEW p \in Procs, Leave(p)
    PROVE  /\ pc'[p] = "idle" /\ cmd'[p] = None /\ request'[p] = None /\ grant'[p] = None
           /\ rec'[p] = NoRecord /\ proof'[p] = NoCode /\ since'[p] = 0
           /\ open' = open \ {p} /\ waived' = waived
           /\ copies' \in {copies, NoCopies}
           /\ \A q \in Procs \ {p} : /\ mutex = q => mutex' = q
                                     /\ cmd[q] = "gateway" => copies' = copies
           /\ Others(p)
BY DEF TypeOK, Serving, Leave, Goto, Others

\* ... and its types
LEMMA LeaveTypes ==
    ASSUME TypeOK, NEW p \in Procs, Leave(p)
    PROVE  /\ mutex' \in Procs \cup {Free} /\ pc' \in [Procs -> Labels]
           /\ cmd' \in [Procs -> Commands \cup {None}]
           /\ request' \in [Procs -> Kept \cup {None}] /\ grant' \in [Procs -> Grant \cup {None}]
           /\ rec' \in [Procs -> Record] /\ proof' \in [Procs -> Code]
           /\ open' \subseteq Procs /\ since' \in [Procs -> Nat]
           /\ waived' \in {"never", "waived"}
           /\ copies' \in [session: {"locked", "unlocked", "verified"}, seed: Nat]
<1>1. /\ NoRecord \in Record /\ NoCode \in Code
      /\ NoCopies \in [session: {"locked", "unlocked", "verified"}, seed: Nat]
  BY DEF NoRecord, Record, NoCode, Code, NoCopies
<1> QED BY <1>1 DEF TypeOK, Leave, Goto, Labels

\* The end of a command leaves the others served as they are, with their codes.
LEMMA LeaveServes ==
    ASSUME TypeOK, Serving, Granted, Honoured, NEW p \in Procs, Leave(p),
           session' = "verified" => sessionSeed' # 0,
           \A q \in Procs \ {p} : cmd[q] \in Brokered => sessionSeed' = sessionSeed
    PROVE  Serving' /\ Honoured'
<1>f. /\ cmd'[p] = None /\ grant'[p] = None
      /\ copies' \in {copies, NoCopies}
      /\ \A q \in Procs \ {p} : /\ mutex = q => mutex' = q
                                /\ cmd[q] = "gateway" => copies' = copies
      /\ Others(p)
  BY LeaveFrame
<1>n. None \notin Brokered \cup Logins \cup {"gateway"}
  BY DeliveryAssumption DEF Commands
<1>o. \A q \in Procs \ {p} : cmd'[q] = cmd[q] /\ grant'[q] = grant[q] /\ proof'[q] = proof[q]
  BY <1>f DEF Others
<1>1. copies'.session = "verified" => copies'.seed # 0
  BY <1>f DEF Serving, NoCopies
<1>2. ASSUME NEW q \in Procs
      PROVE  /\ cmd'[q] \in Brokered \cup Logins => mutex' = q
             /\ cmd'[q] = "gateway" => copies' # NoCopies
  <2>1. CASE q = p
    BY <2>1, <1>f, <1>n
  <2>2. CASE q # p
    <3>1. cmd'[q] = cmd[q] /\ (mutex = q => mutex' = q) /\ (cmd[q] = "gateway" => copies' = copies)
      BY <2>2, <1>f, <1>o
    <3> QED BY <3>1 DEF Serving
  <2> QED BY <2>1, <2>2
<1>3. ASSUME NEW q \in Procs, NEW x \in Procs, cmd'[q] = "gateway", cmd'[x] = "gateway"
      PROVE  q = x
  BY <1>3, <1>f, <1>n, <1>o DEF Serving
<1>4. ASSUME NEW q \in Procs, grant'[q] # None, "require_mfa" \in grant'[q].body.flags
      PROVE  CodeBehind(q)'
  <2>1. q # p /\ CodeBehind(q)
    BY <1>4, <1>f, <1>o DEF Honoured
  <2>2. /\ cmd'[q] = cmd[q] /\ proof'[q] = proof[q]
        /\ cmd[q] \in Brokered => sessionSeed' = sessionSeed
        /\ cmd[q] = "gateway" => copies' = copies
    BY <2>1, <1>f, <1>o
  <2> QED BY <2>1, <2>2 DEF CodeBehind
<1>5. Serving'
  BY <1>1, <1>2, <1>3 DEF Serving
<1> QED BY <1>4, <1>5 DEF Honoured

\* A command that ends before its last step, for whatever reason
Ends(p) == pc[p] # "idle" /\ Finish(p) /\ UNCHANGED gates

\* An early return, an error or a kill leaves everything in order.
LEMMA EndsKeeps ==
    ASSUME IInv, NEW p \in Procs, Ends(p), UNCHANGED roles
    PROVE  IInv'
<1>t. /\ TypeOK /\ Shape /\ Granted /\ Opened /\ Enrolments /\ Proved /\ Serving
      /\ Honoured /\ Named /\ EnabledDeliberately
  BY DEF IInv
<1>l. Leave(p) /\ factor' = [factor EXCEPT ![p] = 0] /\ UNCHANGED gates /\ UNCHANGED sessionSeed
  BY DEF Ends, Finish
<1>n. None \notin Commands
  BY DeliveryAssumption
<1>f. /\ pc'[p] = "idle" /\ cmd'[p] = None /\ request'[p] = None /\ grant'[p] = None
      /\ rec'[p] = NoRecord /\ proof'[p] = NoCode /\ since'[p] = 0 /\ factor'[p] = 0
      /\ open' = open \ {p} /\ waived' = waived
      /\ \A q \in Procs \ {p} : factor'[q] = factor[q]
      /\ Others(p)
  BY <1>t, <1>l, LeaveFrame DEF TypeOK
<1>1. TypeOK'
  BY <1>t, <1>l, LeaveTypes DEF TypeOK, gates
<1>2. Shape'
  BY <1>t, <1>f, IdleLabel DEF Shape, Others
<1>3. Granted'
  BY <1>t, <1>f DEF Granted, Others
<1>4. Opened'
  BY <1>t, <1>f, <1>l, <1>n DEF Opened, Others, Exported, gates, Commands, Gated
<1>5. Enrolments'
  BY <1>t, <1>f, <1>l DEF Enrolments, Others, gates
<1>6. Proved'
  BY <1>t, <1>f, <1>l DEF TypeOK, Proved, Others, gates, Enrolled
<1>7. Serving' /\ Honoured'
  BY <1>t, <1>l, LeaveServes DEF Serving, gates
<1>8. Named'
  BY <1>t, <1>f, <1>l DEF Named, Others
<1>9. EnabledDeliberately'
  BY <1>t, <1>f, <1>l DEF EnabledDeliberately, gates
<1> QED BY <1>1, <1>2, <1>3, <1>4, <1>5, <1>6, <1>7, <1>8, <1>9 DEF IInv

\* The steps a command takes when a check lets it go on
Forward(p, l) ==
    \/ pc[p] = "export" /\ l = "factor" /\ export = "enabled"
    \/ pc[p] = "factor" /\ l = "verify"
    \/ pc[p] \in {"read", "use"} /\ l = "printed"
    \/ pc[p] = "enforce_export" /\ l = "enforce_factor" /\ export = "enabled"
    \/ pc[p] = "enforce_factor" /\ l \in {"mfa_required", "use"}
    \/ pc[p] = "set_check" /\ l = "set" /\ Enrolled

\* They are steps of the same command.
LEMMA ForwardLabel ==
    ASSUME TypeOK, Shape, NEW p \in Procs, NEW l, Forward(p, l)
    PROVE  l \in LabelsOf(cmd[p]) /\ l \in Labels
<1>1. cmd[p] \in Commands \cup {None} /\ pc[p] \in LabelsOf(cmd[p]) /\ None \notin Commands
  BY DeliveryAssumption DEF TypeOK, Shape
<1> QED BY <1>1 DEF Forward, LabelsOf, Labels, Commands, Gated, Settings, Brokered, Logins

\* A command that goes on
LEMMA AdvanceKeeps ==
    ASSUME IInv, NEW p \in Procs, NEW l, Forward(p, l), Advance(p, l), UNCHANGED gates,
           UNCHANGED roles
    PROVE  IInv'
<1>t. /\ TypeOK /\ Shape /\ Granted /\ Opened /\ Enrolments /\ Proved /\ Serving
      /\ Honoured /\ Named /\ EnabledDeliberately
  BY DEF IInv
<1>n. None \notin Commands
  BY DeliveryAssumption
<1>l. l \in LabelsOf(cmd[p]) /\ l \in Labels
  BY <1>t, ForwardLabel
<1>f. /\ pc' = [pc EXCEPT ![p] = l]
      /\ UNCHANGED <<mutex, copies, cmd, request, grant, rec, proof, open, factor, since, waived,
                     sessionSeed, policies, export, totp, seeds, step, session>>
  BY DEF Advance, Goto, gates, hist
<1>p. pc'[p] = l /\ \A q \in Procs \ {p} : pc'[q] = pc[q]
  BY <1>t, <1>f DEF TypeOK
<1>1. TypeOK'
  BY <1>t, <1>f, <1>l DEF TypeOK
<1>2. Shape'
  BY <1>t, <1>f, <1>p, <1>l DEF Shape
<1>3. Granted'
  BY <1>t, <1>f, <1>p DEF Granted, Forward, Ticketed
<1>4. Opened'
  <2>1. l # "idle" /\ pc[p] # "idle"
    BY DEF Forward
  <2>2. ASSUME NEW q \in Procs, q # p
        PROVE  /\ export' = "enabled" /\ pc'[q] # "idle" => q \in open'
               /\ cmd'[q] \in Gated /\ pc'[q] \in PastExport => q \in open'
               /\ Exported(q)' /\ pc'[q] \in PastEnforce => q \in open'
    BY <1>t, <1>f, <1>p, <2>2 DEF Opened, Exported
  <2>3. /\ export' = "enabled" /\ pc'[p] # "idle" => p \in open'
        /\ cmd'[p] \in Gated /\ pc'[p] \in PastExport => p \in open'
        /\ Exported(p)' /\ pc'[p] \in PastEnforce => p \in open'
    BY <1>t, <1>f, <1>p, <2>1 DEF Opened, Granted, Exported, Forward, PastExport, PastEnforce, Ticketed
  <2> QED BY <2>2, <2>3 DEF Opened
<1>5. Enrolments'
  BY <1>t, <1>f, <1>p DEF Enrolments, Forward, Enrolled
<1>6. Proved'
  BY <1>t, <1>f, <1>p DEF Proved, Forward, Enrolled, PastGate, Ticketed
<1>7. Serving'
  BY <1>t, <1>f DEF Serving
<1>8. Honoured'
  BY <1>t, <1>f DEF Honoured, CodeBehind
<1>9. Named'
  BY <1>t, <1>f DEF Named
<1>10. EnabledDeliberately'
  BY <1>t, <1>f DEF EnabledDeliberately
<1> QED BY <1>1, <1>2, <1>3, <1>4, <1>5, <1>6, <1>7, <1>8, <1>9, <1>10 DEF IInv

\* What follows the gate is a step of the same command, past the gate.
LEMMA GateLabel ==
    ASSUME TypeOK, Shape, NEW p \in Procs, pc[p] \in {"factor", "verify"}
    PROVE  /\ AfterGate(cmd[p]) \in LabelsOf(cmd[p]) /\ AfterGate(cmd[p]) \in Labels
           /\ AfterGate(cmd[p]) \in {"read", "enforce_export", "set_check", "set", "issue", "login"}
           /\ cmd[p] = "enable" => AfterGate(cmd[p]) # "set"
           /\ cmd[p] \in Commands
<1>1. cmd[p] \in Commands \cup {None} /\ pc[p] \in LabelsOf(cmd[p]) /\ None \notin Commands
  BY DeliveryAssumption DEF TypeOK, Shape
<1>2. cmd[p] \in Gated \cup Settings \cup Logins \cup {"run"}
  BY <1>1 DEF LabelsOf, Commands, Gated, Settings, Brokered, Logins
<1> QED BY <1>1, <1>2 DEF AfterGate, LabelsOf, Labels, Commands, Gated, Settings, Brokered, Logins

\* A code is accepted, or none is wanted because no factor is enrolled.
Accepts(code) ==
    \/ code = NoCode /\ ~Enrolled
    \/ /\ code \in Code /\ code.seed # 0
       /\ code.seed = totp.seed /\ step <= code.step + 1

\* A command that passes the gate
LEMMA PassKeeps ==
    ASSUME IInv, NEW p \in Procs, NEW code, pc[p] \in {"factor", "verify"}, Accepts(code),
           Pass(p, code), UNCHANGED gates, UNCHANGED roles
    PROVE  IInv'
<1>t. /\ TypeOK /\ Shape /\ Granted /\ Opened /\ Enrolments /\ Proved /\ Serving
      /\ Honoured /\ Named /\ EnabledDeliberately
  BY DEF IInv
<1> DEFINE l == AfterGate(cmd[p])
<1>l. /\ l \in LabelsOf(cmd[p]) /\ l \in Labels
      /\ l \in {"read", "enforce_export", "set_check", "set", "issue", "login"}
      /\ cmd[p] = "enable" => l # "set"
  BY <1>t, GateLabel
<1> HIDE DEF l
<1>f. /\ pc' = [pc EXCEPT ![p] = l] /\ proof' = [proof EXCEPT ![p] = code]
      /\ UNCHANGED <<mutex, copies, cmd, request, grant, rec, open, factor, since, waived,
                     sessionSeed, policies, export, totp, seeds, step, session>>
  BY DEF Pass, Goto, gates, hist, l
<1>p. /\ pc'[p] = l /\ proof'[p] = code
      /\ \A q \in Procs \ {p} : pc'[q] = pc[q] /\ proof'[q] = proof[q]
  BY <1>t, <1>f DEF TypeOK
<1>g. grant[p] = None /\ request[p] = None
  BY <1>t DEF Granted, Ticketed
<1>1. TypeOK'
  <2>1. code \in Code
    BY DEF Accepts, NoCode, Code
  <2> QED BY <1>t, <1>f, <1>l, <2>1 DEF TypeOK
<1>2. Shape'
  BY <1>t, <1>f, <1>p, <1>l DEF Shape
<1>3. Granted'
  BY <1>t, <1>f, <1>p, <1>g DEF Granted
<1>4. Opened'
  <2>1. ASSUME NEW q \in Procs, q # p
        PROVE  /\ export' = "enabled" /\ pc'[q] # "idle" => q \in open'
               /\ cmd'[q] \in Gated /\ pc'[q] \in PastExport => q \in open'
               /\ Exported(q)' /\ pc'[q] \in PastEnforce => q \in open'
    BY <1>t, <1>f, <1>p, <2>1 DEF Opened, Exported
  <2>2. /\ export' = "enabled" /\ pc'[p] # "idle" => p \in open'
        /\ cmd'[p] \in Gated /\ pc'[p] \in PastExport => p \in open'
        /\ Exported(p)' /\ pc'[p] \in PastEnforce => p \in open'
    BY <1>t, <1>f, <1>p, <1>l, <1>g DEF Opened, Exported, PastExport, PastEnforce, Ticketed
  <2> QED BY <2>1, <2>2 DEF Opened
<1>5. Enrolments'
  BY <1>t, <1>f, <1>p, <1>l DEF Enrolments
<1>6. Proved'
  <2>1. ASSUME NEW q \in Procs, q # p
        PROVE  /\ since'[q] <= step'
               /\ proof'[q] = NoCode \/ proof'[q].seed # 0
               /\ factor'[q] # 0 =>
                    Enrolled' /\ totp'.seed = factor'[q] /\ cmd'[q] \in Gated \cup Settings
               /\ factor'[q] # 0 /\ pc'[q] \in PastGate =>
                    proof'[q].seed = factor'[q] /\ since'[q] <= proof'[q].step + 1
    BY <1>t, <1>f, <1>p, <2>1 DEF Proved, Enrolled
  <2>2. /\ since'[p] <= step'
        /\ proof'[p] = NoCode \/ proof'[p].seed # 0
        /\ factor'[p] # 0 =>
             Enrolled' /\ totp'.seed = factor'[p] /\ cmd'[p] \in Gated \cup Settings
    BY <1>t, <1>f, <1>p DEF Proved, Enrolled, Accepts
  <2>3. factor'[p] # 0 => proof'[p].seed = factor'[p] /\ since'[p] <= proof'[p].step + 1
    <3>1. factor[p] # 0 => code \in Code /\ code.seed = factor[p] /\ step <= code.step + 1
      BY <1>t DEF Proved, Accepts
    <3>2. since[p] \in Nat /\ step \in Nat /\ since[p] <= step
      BY <1>t DEF TypeOK, Proved
    <3>3. code \in Code => code.step \in Nat
      BY DEF Code
    <3> QED BY <1>f, <1>p, <3>1, <3>2, <3>3
  <2> QED BY <2>1, <2>2, <2>3 DEF Proved
<1>7. Serving'
  BY <1>t, <1>f DEF Serving
<1>8. Honoured'
  BY <1>t, <1>f, <1>p, <1>g DEF Honoured, CodeBehind
<1>9. Named'
  BY <1>t, <1>f DEF Named
<1>10. EnabledDeliberately'
  BY <1>t, <1>f DEF EnabledDeliberately
<1> QED BY <1>1, <1>2, <1>3, <1>4, <1>5, <1>6, <1>7, <1>8, <1>9, <1>10 DEF IInv

\* A command of the broker starts when no other one runs, a gateway request with copies.
Served(p, c) ==
    \/ /\ c \notin Brokered \cup Logins \cup {"gateway"}
       /\ UNCHANGED <<mutex, copies, session, sessionSeed>>
    \/ /\ c = "gateway" /\ copies = NoCopies /\ session # "locked"
       /\ copies' = [session |-> session, seed |-> sessionSeed]
       /\ UNCHANGED <<mutex, session, sessionSeed>>
    \/ /\ c # "gateway" /\ UNCHANGED copies
       /\ mutex = Free /\ mutex' = p
       /\ session' \in {"locked", "unlocked", "verified"} /\ sessionSeed' \in Nat
       /\ session' = "verified" => sessionSeed' # 0

\* Where a command starts
Entry(c, l) ==
    \/ c \in Gated /\ l = "export"
    \/ c \in Settings /\ l = "factor"
    \/ c = "run" /\ l \in {"issue", "verify"}
    \/ c = "enroll" /\ l = "enroll_read"
    \/ c = "withdraw" /\ l = "withdraw_load"
    \/ c \in Brokered \cup {"gateway"} /\ l = "issue"
    \/ c \in Logins /\ l \in {"login", "verify"}

\* An idle command holds nothing.
LEMMA IdleHolds ==
    ASSUME IInv, NEW p \in Procs, pc[p] = "idle"
    PROVE  cmd[p] = None /\ grant[p] = None /\ request[p] = None /\ factor[p] = 0
<1>1. cmd[p] \in Commands \cup {None} /\ pc[p] \in LabelsOf(cmd[p]) /\ None \notin Commands
  BY DeliveryAssumption DEF IInv, TypeOK, Shape
<1>2. cmd[p] = None
  BY <1>1 DEF LabelsOf, Commands, Gated, Settings, Brokered, Logins
<1>3. grant[p] = None /\ request[p] = None
  BY DEF IInv, Granted, Ticketed
<1>4. factor[p] = 0
  BY <1>1, <1>2 DEF IInv, Proved, Commands
<1> QED BY <1>2, <1>3, <1>4

\* A command that starts
LEMMA StartKeeps ==
    ASSUME IInv, NEW p \in Procs, NEW c, NEW l, Entry(c, l), Start(p, c, l), Served(p, c),
           UNCHANGED roles
    PROVE  IInv'
<1>t. /\ TypeOK /\ Shape /\ Granted /\ Opened /\ Enrolments /\ Proved /\ Serving
      /\ Honoured /\ Named /\ EnabledDeliberately
  BY DEF IInv
<1>n. None \notin Commands /\ Free \notin Procs
  BY DeliveryAssumption
<1>l. l \in LabelsOf(c) /\ l \in Labels /\ c \in Commands
  BY DEF Entry, LabelsOf, Labels, Commands, Gated, Settings, Brokered, Logins
<1>i. pc[p] = "idle" /\ cmd[p] = None /\ grant[p] = None /\ request[p] = None /\ factor[p] = 0
  BY IdleHolds DEF Start
<1>f. /\ pc' = [pc EXCEPT ![p] = l] /\ cmd' = [cmd EXCEPT ![p] = c]
      /\ open' = IF export = "enabled" THEN open \cup {p} ELSE open
      /\ UNCHANGED <<request, grant, rec, proof, waived, policies, export, totp, seeds, step>>
  BY DEF Start, Goto
<1>p. /\ pc'[p] = l /\ cmd'[p] = c
      /\ \A q \in Procs \ {p} : pc'[q] = pc[q] /\ cmd'[q] = cmd[q]
  BY <1>t, <1>f DEF TypeOK
<1>h. /\ factor' \in [Procs -> Nat] /\ since' \in [Procs -> Nat]
      /\ \A q \in Procs \ {p} : factor'[q] = factor[q] /\ since'[q] = since[q]
      /\ since'[p] <= step
      /\ factor'[p] # 0 => Enrolled /\ totp.seed = factor'[p] /\ c \in Gated \cup Settings
  <2>1. ActiveSeed \in Nat /\ (ActiveSeed # 0 => Enrolled /\ totp.seed = ActiveSeed)
    BY <1>t DEF TypeOK, ActiveSeed, Enrolled, Record
  <2>2. CASE c \in Gated \cup Settings
    BY <2>1, <2>2, <1>t DEF TypeOK, Start
  <2>3. CASE c \notin Gated \cup Settings
    BY <2>3, <1>t, <1>i DEF TypeOK, Proved, Start
  <2> QED BY <2>2, <2>3
<1>s. /\ mutex' \in Procs \cup {Free} /\ session' \in {"locked", "unlocked", "verified"}
      /\ sessionSeed' \in Nat
      /\ session' = "verified" => sessionSeed' # 0
      /\ c \in Brokered \cup Logins => mutex' = p
      /\ \A q \in Procs : mutex = q => mutex' = q /\ sessionSeed' = sessionSeed
  BY <1>t, <1>n DEF TypeOK, Served, Serving, Brokered, Logins
<1>w. /\ copies' \in [session: {"locked", "unlocked", "verified"}, seed: Nat]
      /\ copies'.session = "verified" => copies'.seed # 0
      /\ c = "gateway" => copies' # NoCopies /\ \A q \in Procs : cmd[q] # "gateway"
      /\ \A q \in Procs : cmd[q] = "gateway" => copies' = copies
  BY <1>t DEF TypeOK, Served, Serving, NoCopies
<1>1. TypeOK'
  <2>1. /\ pc' \in [Procs -> Labels] /\ cmd' \in [Procs -> Commands \cup {None}]
        /\ open' \subseteq Procs
    BY <1>t, <1>f, <1>l DEF TypeOK
  <2> QED BY <1>t, <1>f, <1>h, <1>s, <1>w, <2>1 DEF TypeOK
<1>2. Shape'
  BY <1>t, <1>p, <1>l DEF Shape
<1>3. Granted'
  BY <1>t, <1>f, <1>p, <1>i DEF Granted
<1>4. Opened'
  <2>1. ASSUME NEW q \in Procs, q # p
        PROVE  /\ export' = "enabled" /\ pc'[q] # "idle" => q \in open'
               /\ cmd'[q] \in Gated /\ pc'[q] \in PastExport => q \in open'
               /\ Exported(q)' /\ pc'[q] \in PastEnforce => q \in open'
    BY <1>t, <1>f, <1>p, <2>1 DEF Opened, Exported
  <2>2. c \in Gated => l = "export"
    BY DEF Entry, Gated, Settings, Brokered, Logins
  <2>3. /\ export' = "enabled" /\ pc'[p] # "idle" => p \in open'
        /\ cmd'[p] \in Gated /\ pc'[p] \in PastExport => p \in open'
        /\ Exported(p)' /\ pc'[p] \in PastEnforce => p \in open'
    BY <1>f, <1>p, <1>i, <2>2 DEF Exported, PastExport, PastEnforce, Ticketed
  <2> QED BY <2>1, <2>3 DEF Opened
<1>5. Enrolments'
  BY <1>t, <1>f, <1>p DEF Enrolments, Entry
<1>6. Proved'
  <2>1. l \notin PastGate
    BY DEF Entry, PastGate, Ticketed
  <2> QED BY <1>t, <1>f, <1>p, <1>h, <2>1 DEF Proved, Enrolled
<1>7. Serving'
  BY <1>t, <1>p, <1>s, <1>w DEF Serving
<1>8. Honoured'
  <2>1. ASSUME NEW q \in Procs, cmd[q] \in Brokered PROVE sessionSeed' = sessionSeed
    BY <1>t, <1>s, <2>1 DEF Serving
  <2> QED BY <1>t, <1>f, <1>p, <1>i, <1>w, <2>1 DEF Honoured, CodeBehind
<1>9. Named'
  BY <1>t, <1>f DEF Named
<1>10. EnabledDeliberately'
  BY <1>t, <1>f DEF EnabledDeliberately
<1> QED BY <1>1, <1>2, <1>3, <1>4, <1>5, <1>6, <1>7, <1>8, <1>9, <1>10 DEF IInv

-----------------------------------------------------------------------------
(* One lemma per step that is none of the above                            *)

\* issue_ticket with a policy that allows the request
IssueGranted(p, r, i) ==
    /\ pc[p] = "issue" /\ Grants(i, r)
    /\ grant' = [grant EXCEPT ![p] = [id |-> i, body |-> policies[i]]]
    /\ request' = [request EXCEPT ![p] = [delivery_mode |-> r.delivery_mode,
                                          peer |-> r.peer, flags |-> r.flags]]
    /\ Goto(p, IF "raw_export_requested" \in r.flags THEN "enforce_export" ELSE "use")
    /\ UNCHANGED <<mutex, copies, cmd, rec, proof, hist>> /\ UNCHANGED gates

\* The evaluation hands out what the policy grants, and nothing it does not.
LEMMA IssueKeeps ==
    ASSUME IInv, NEW p \in Procs, NEW r \in RequestsOf(p), NEW i \in PolicyIds,
           IssueGranted(p, r, i), UNCHANGED roles
    PROVE  IInv'
<1>t. /\ TypeOK /\ Shape /\ Granted /\ Opened /\ Enrolments /\ Proved /\ Serving
      /\ Honoured /\ Named /\ EnabledDeliberately
  BY DEF IInv
<1> DEFINE l == IF "raw_export_requested" \in r.flags THEN "enforce_export" ELSE "use"
           g == [id |-> i, body |-> policies[i]]
           k == [delivery_mode |-> r.delivery_mode, peer |-> r.peer, flags |-> r.flags]
<1>r. /\ r \in AccessRequest
      /\ cmd[p] \in Brokered \cup {"run", "gateway"}
      /\ cmd[p] \in {"run", "gateway"} => "raw_export_requested" \notin r.flags
      /\ "mfa_verified" \in r.flags => /\ cmd[p] = "run" => proof[p] # NoCode
                                       /\ cmd[p] \in Brokered => session = "verified"
                                       /\ cmd[p] = "gateway" => copies.session = "verified"
  BY <1>t, RequestFacts
<1>b. /\ policies[i] \in PolicyBodies /\ policies[i] \in AccessPolicy /\ Allows(policies[i], r)
      /\ None \notin Kept \cup Grant
  BY <1>t, DeliveryAssumption DEF TypeOK, IssueGranted, Grants
<1>k. /\ g \in Grant /\ g.body = policies[i]
      /\ k \in Kept /\ k.delivery_mode = r.delivery_mode /\ k.peer = r.peer /\ k.flags = r.flags
  BY <1>b, <1>r DEF Grant, Kept, AccessRequest
<1>l. l \in LabelsOf(cmd[p]) /\ l \in Labels /\ l \in {"enforce_export", "use"}
  BY <1>r DEF LabelsOf, Labels, Brokered, Gated, Settings, Logins
<1>e. l = "enforce_export" <=> "raw_export_requested" \in r.flags
  OBVIOUS
<1> HIDE DEF l, g, k
<1>f. /\ pc' = [pc EXCEPT ![p] = l] /\ grant' = [grant EXCEPT ![p] = g]
      /\ request' = [request EXCEPT ![p] = k]
      /\ UNCHANGED <<mutex, copies, cmd, rec, proof, open, factor, since, waived,
                     sessionSeed, policies, export, totp, seeds, step, session>>
  BY DEF IssueGranted, Goto, gates, hist, l, g, k
<1>p. /\ pc'[p] = l /\ grant'[p] = g /\ request'[p] = k
      /\ \A q \in Procs \ {p} : pc'[q] = pc[q] /\ grant'[q] = grant[q] /\ request'[q] = request[q]
  BY <1>t, <1>f DEF TypeOK
<1>1. TypeOK'
  BY <1>t, <1>f, <1>k, <1>l DEF TypeOK
<1>2. Shape'
  BY <1>t, <1>f, <1>p, <1>l DEF Shape
<1>3. Granted'
  BY <1>t, <1>f, <1>p, <1>k, <1>b, <1>l, <1>r DEF Granted, Ticketed
<1>4. Opened'
  <2>1. ASSUME NEW q \in Procs, q # p
        PROVE  /\ export' = "enabled" /\ pc'[q] # "idle" => q \in open'
               /\ cmd'[q] \in Gated /\ pc'[q] \in PastExport => q \in open'
               /\ Exported(q)' /\ pc'[q] \in PastEnforce => q \in open'
    BY <1>t, <1>f, <1>p, <2>1 DEF Opened, Exported
  <2>2. cmd[p] \notin Gated
    BY <1>r DEF Gated, Brokered
  <2>3. Exported(p)' => l = "enforce_export"
    BY <1>f, <1>p, <1>k, <1>e, <2>2 DEF Exported
  <2>4. export = "enabled" => p \in open
    BY <1>t DEF Opened, IssueGranted
  <2> QED BY <1>f, <1>p, <2>1, <2>2, <2>3, <2>4 DEF Opened, PastEnforce
<1>5. Enrolments'
  BY <1>t, <1>f, <1>p, <1>l DEF Enrolments
<1>6. Proved'
  <2>1. factor[p] = 0
    BY <1>t, <1>r DEF Proved, Gated, Settings, Brokered
  <2> QED BY <1>t, <1>f, <1>p, <2>1 DEF Proved, Enrolled
<1>7. Serving'
  BY <1>t, <1>f DEF Serving
<1>8. Honoured'
  <2>1. "require_mfa" \in policies[i].flags => "mfa_verified" \in r.flags
    BY <1>b DEF Allows
  <2>2. "require_mfa" \in policies[i].flags => CodeBehind(p)
    BY <2>1, <1>r, <1>t DEF Proved, Serving, CodeBehind
  <2> QED BY <1>t, <1>f, <1>p, <1>k, <2>2 DEF Honoured, CodeBehind
<1>9. Named'
  <2>1. /\ "raw_export_requested" \in r.flags
        /\ r.delivery_mode \in PlaintextModes
        /\ "allow_unbound_plaintext_export" \notin policies[i].flags
        => \E a \in PeerAttributes : /\ r.peer[a] # None
                                     /\ r.peer[a] \in policies[i].allowed_peer[a]
    BY <1>b, <1>r, PlaintextPeerIsNamed
  <2> QED BY <1>t, <1>p, <1>k, <2>1 DEF Named
<1>10. EnabledDeliberately'
  BY <1>t, <1>f DEF EnabledDeliberately
<1> QED BY <1>1, <1>2, <1>3, <1>4, <1>5, <1>6, <1>7, <1>8, <1>9, <1>10 DEF IInv

\* run forgets the grant and the request of a secret before the next one.
LEMMA NextSecretKeeps ==
    ASSUME IInv, NEW p \in Procs, NextSecret(p), UNCHANGED roles
    PROVE  IInv'
<1>t. /\ TypeOK /\ Shape /\ Granted /\ Opened /\ Enrolments /\ Proved /\ Serving
      /\ Honoured /\ Named /\ EnabledDeliberately
  BY DEF IInv
<1>f. /\ pc[p] = "printed" /\ cmd[p] = "run"
      /\ pc' = [pc EXCEPT ![p] = "issue"]
      /\ request' = [request EXCEPT ![p] = None] /\ grant' = [grant EXCEPT ![p] = None]
      /\ UNCHANGED <<mutex, copies, cmd, rec, proof, open, factor, since, waived,
                     sessionSeed, policies, export, totp, seeds, step, session>>
  BY DEF NextSecret, Goto, gates, hist
<1>p. /\ pc'[p] = "issue" /\ grant'[p] = None /\ request'[p] = None
      /\ \A q \in Procs \ {p} : pc'[q] = pc[q] /\ grant'[q] = grant[q] /\ request'[q] = request[q]
  BY <1>t, <1>f DEF TypeOK
<1>1. TypeOK'
  BY <1>t, <1>f DEF TypeOK, Labels
<1>2. Shape'
  <2>1. "issue" \in LabelsOf("run")
    BY DeliveryAssumption DEF LabelsOf, Commands, Brokered, Logins
  <2> QED BY <1>t, <1>f, <1>p, <2>1 DEF Shape
<1>3. Granted'
  BY <1>t, <1>f, <1>p DEF Granted
<1>4. Opened'
  BY <1>t, <1>f, <1>p DEF Opened, Exported, PastExport, PastEnforce, Ticketed
<1>5. Enrolments'
  BY <1>t, <1>f, <1>p DEF Enrolments
<1>6. Proved'
  BY <1>t, <1>f, <1>p DEF Proved, Enrolled, PastGate, Ticketed
<1>7. Serving'
  BY <1>t, <1>f DEF Serving
<1>8. Honoured'
  BY <1>t, <1>f, <1>p DEF Honoured, CodeBehind
<1>9. Named'
  BY <1>t, <1>f, <1>p DEF Named
<1>10. EnabledDeliberately'
  BY <1>t, <1>f DEF EnabledDeliberately
<1> QED BY <1>1, <1>2, <1>3, <1>4, <1>5, <1>6, <1>7, <1>8, <1>9, <1>10 DEF IInv

\* The setting changes: it opens for every command that runs at the time.
LEMMA SetExportKeeps ==
    ASSUME IInv, NEW p \in Procs, SetExport(p), UNCHANGED roles
    PROVE  IInv'
<1>t. /\ TypeOK /\ Shape /\ Granted /\ Opened /\ Enrolments /\ Proved /\ Serving
      /\ Honoured /\ Named /\ EnabledDeliberately
  BY DEF IInv
<1>c. cmd[p] \in Settings
  <2>1. cmd[p] \in Commands \cup {None} /\ pc[p] = "set" /\ pc[p] \in LabelsOf(cmd[p])
        /\ None \notin Commands
    BY <1>t, DeliveryAssumption DEF TypeOK, Shape, SetExport
  <2> QED BY <2>1 DEF LabelsOf, Commands, Gated, Settings, Brokered, Logins
<1>f. /\ pc[p] = "set" /\ pc' = [pc EXCEPT ![p] = "changed"]
      /\ open \subseteq open' /\ open' \subseteq Procs /\ export' \in {"enabled", "disabled"}
      /\ export' = "enabled" => \A q \in Procs : pc[q] # "idle" => q \in open'
      /\ waived' = IF cmd[p] = "enable_waived" THEN "waived" ELSE waived
      /\ UNCHANGED <<mutex, copies, cmd, request, grant, rec, proof, factor, since,
                     sessionSeed, policies, totp, seeds, step, session>>
  BY <1>t DEF TypeOK, SetExport, Goto
<1>p. pc'[p] = "changed" /\ \A q \in Procs \ {p} : pc'[q] = pc[q]
  BY <1>t, <1>f DEF TypeOK
<1>1. TypeOK'
  BY <1>t, <1>f DEF TypeOK, Labels
<1>2. Shape'
  <2>1. "changed" \in LabelsOf(cmd[p])
    BY <1>c, DeliveryAssumption DEF LabelsOf, Settings, Commands, Brokered, Logins
  <2> QED BY <1>t, <1>f, <1>p, <2>1 DEF Shape
<1>3. Granted'
  BY <1>t, <1>f, <1>p DEF Granted, Ticketed
<1>4. Opened'
  <2>1. ASSUME NEW q \in Procs, q # p
        PROVE  /\ export' = "enabled" /\ pc'[q] # "idle" => q \in open'
               /\ cmd'[q] \in Gated /\ pc'[q] \in PastExport => q \in open'
               /\ Exported(q)' /\ pc'[q] \in PastEnforce => q \in open'
    BY <1>t, <1>f, <1>p, <2>1 DEF Opened, Exported
  <2>2. /\ export' = "enabled" /\ pc'[p] # "idle" => p \in open'
        /\ "changed" \notin PastExport /\ "changed" \notin PastEnforce
    BY <1>f DEF PastExport, PastEnforce, Ticketed
  <2> QED BY <1>p, <2>1, <2>2 DEF Opened
<1>5. Enrolments'
  BY <1>t, <1>f, <1>p DEF Enrolments
<1>6. Proved'
  BY <1>t, <1>f, <1>p DEF Proved, Enrolled, PastGate
<1>7. Serving'
  BY <1>t, <1>f DEF Serving
<1>8. Honoured'
  BY <1>t, <1>f DEF Honoured, CodeBehind
<1>9. Named'
  BY <1>t, <1>f DEF Named
<1>10. EnabledDeliberately'
  <2>1. CASE cmd[p] = "enable"
    BY <2>1, <1>t, <1>f DEF EnabledDeliberately, Enrolments
  <2>2. CASE cmd[p] = "enable_waived"
    BY <2>2, <1>f DEF EnabledDeliberately
  <2>3. CASE cmd[p] = "disable"
    BY <2>3 DEF EnabledDeliberately, SetExport
  <2> QED BY <1>c, <2>1, <2>2, <2>3 DEF Settings
<1> QED BY <1>1, <1>2, <1>3, <1>4, <1>5, <1>6, <1>7, <1>8, <1>9, <1>10 DEF IInv

\* enroll_totp_mfa and the withdrawal hold a copy of the record until they save it.
LEMMA CopyKeeps ==
    ASSUME IInv, NEW p \in Procs, NEW x, UNCHANGED roles,
           UNCHANGED <<policies, export, totp, step, session, mutex, copies, cmd, request, grant,
                       proof, hist>>,
           rec' = [rec EXCEPT ![p] = x], x \in Record, seeds' \in Nat, NEW l, Goto(p, l),
           \/ pc[p] = "enroll_read" /\ l = "enroll_save" /\ x.version > 0
           \/ pc[p] = "withdraw_load" /\ l = "withdraw_save" /\ x.status = "withdrawn"
    PROVE  IInv'
<1>t. /\ TypeOK /\ Shape /\ Granted /\ Opened /\ Enrolments /\ Proved /\ Serving
      /\ Honoured /\ Named /\ EnabledDeliberately
  BY DEF IInv
<1>l. l \in LabelsOf(cmd[p]) /\ l \in Labels
  <2>1. cmd[p] \in Commands \cup {None} /\ pc[p] \in LabelsOf(cmd[p]) /\ None \notin Commands
    BY <1>t, DeliveryAssumption DEF TypeOK, Shape
  <2> QED BY <2>1 DEF LabelsOf, Labels, Commands, Gated, Settings, Brokered, Logins
<1>f. /\ pc' = [pc EXCEPT ![p] = l]
      /\ UNCHANGED <<mutex, copies, cmd, request, grant, proof, open, factor, since, waived,
                     sessionSeed, policies, export, totp, step, session>>
  BY DEF Goto, hist
<1>p. /\ pc'[p] = l /\ rec'[p] = x
      /\ \A q \in Procs \ {p} : pc'[q] = pc[q] /\ rec'[q] = rec[q]
  BY <1>t, <1>f DEF TypeOK
<1>1. TypeOK'
  BY <1>t, <1>f, <1>l DEF TypeOK
<1>2. Shape'
  BY <1>t, <1>f, <1>p, <1>l DEF Shape
<1>3. Granted'
  BY <1>t, <1>f, <1>p DEF Granted, Ticketed
<1>4. Opened'
  BY <1>t, <1>f, <1>p DEF Opened, Exported, PastExport, PastEnforce, Ticketed
<1>5. Enrolments'
  BY <1>t, <1>f, <1>p DEF Enrolments
<1>6. Proved'
  BY <1>t, <1>f, <1>p DEF Proved, Enrolled, PastGate, Ticketed
<1>7. Serving'
  BY <1>t, <1>f DEF Serving
<1>8. Honoured'
  BY <1>t, <1>f DEF Honoured, CodeBehind
<1>9. Named'
  BY <1>t, <1>f DEF Named
<1>10. EnabledDeliberately'
  BY <1>t, <1>f DEF EnabledDeliberately
<1> QED BY <1>1, <1>2, <1>3, <1>4, <1>5, <1>6, <1>7, <1>8, <1>9, <1>10 DEF IInv

\* save_secret_record of the TOTP secret: whatever was enrolled meanwhile, the latest
\* version never goes back.
LEMMA SaveTotpKeeps ==
    ASSUME IInv, NEW p \in Procs, SaveTotp(p), UNCHANGED roles
    PROVE  IInv'
<1>t. /\ TypeOK /\ Shape /\ Granted /\ Opened /\ Enrolments /\ Proved /\ Serving
      /\ Honoured /\ Named /\ EnabledDeliberately
  BY DEF IInv
<1>n. None \notin Commands
  BY DeliveryAssumption
<1>l. /\ pc[p] \in {"enroll_save", "withdraw_save"} /\ Leave(p)
      /\ UNCHANGED <<policies, export, seeds, step, session, sessionSeed>>
  BY DEF SaveTotp
<1>f. /\ pc'[p] = "idle" /\ cmd'[p] = None /\ request'[p] = None /\ grant'[p] = None
      /\ rec'[p] = NoRecord /\ proof'[p] = NoCode /\ since'[p] = 0
      /\ open' = open \ {p} /\ waived' = waived
      /\ Others(p)
  BY <1>t, <1>l, LeaveFrame
<1>c. factor[p] = 0
  <2>1. cmd[p] \in Commands \cup {None} /\ pc[p] \in LabelsOf(cmd[p])
    BY <1>t DEF TypeOK, Shape
  <2>2. cmd[p] \notin Gated \cup Settings
    BY <2>1, <1>l, <1>n DEF LabelsOf, Commands, Gated, Settings, Brokered, Logins
  <2> QED BY <2>2, <1>t DEF Proved
<1>r. /\ totp' \in Record /\ totp'.version \in Nat /\ totp.version \in Nat
      /\ totp'.version >= totp.version
      /\ totp'.status = "active" => totp'.version > 0
  <2>1. rec[p] \in Record /\ totp \in Record
    BY <1>t DEF TypeOK
  <2>2. rec[p].version \in Nat /\ totp.version \in Nat
    BY <2>1 DEF Record
  <2>3. rec[p].status = "active" => rec[p].version > 0
    BY <1>t, <1>l DEF Enrolments
  <2> QED BY <1>t, <2>1, <2>2, <2>3 DEF SaveTotp, Enrolments
<1>k. /\ factor' \in [Procs -> Nat] /\ factor'[p] = 0
      /\ \A q \in Procs : factor'[q] # 0 =>
            factor'[q] = factor[q] /\ totp'.status = "active" /\ totp'.seed = factor[q]
  BY <1>t, <1>c DEF TypeOK, SaveTotp
<1>1. TypeOK'
  BY <1>t, <1>l, <1>r, <1>k, LeaveTypes DEF TypeOK
<1>2. Shape'
  BY <1>t, <1>f, IdleLabel DEF Shape, Others
<1>3. Granted'
  BY <1>t, <1>f DEF Granted, Others
<1>4. Opened'
  BY <1>t, <1>f, <1>l, <1>n DEF Opened, Others, Exported, Commands, Gated
<1>5. Enrolments'
  BY <1>t, <1>f, <1>r DEF Enrolments, Others
<1>6. Proved'
  <2>1. ASSUME NEW q \in Procs, q # p
        PROVE  /\ since'[q] <= step'
               /\ proof'[q] = NoCode \/ proof'[q].seed # 0
               /\ factor'[q] # 0 =>
                    Enrolled' /\ totp'.seed = factor'[q] /\ cmd'[q] \in Gated \cup Settings
               /\ factor'[q] # 0 /\ pc'[q] \in PastGate =>
                    proof'[q].seed = factor'[q] /\ since'[q] <= proof'[q].step + 1
    BY <1>t, <1>f, <1>l, <1>k, <2>1 DEF Proved, Others, Enrolled
  <2>2. since'[p] <= step' /\ proof'[p] = NoCode
    BY <1>t, <1>f, <1>l DEF TypeOK
  <2> QED BY <1>k, <2>1, <2>2 DEF Proved
<1>7. Serving' /\ Honoured'
  BY <1>t, <1>l, LeaveServes DEF Serving
<1>8. Named'
  BY <1>t, <1>f DEF Named, Others
<1>9. EnabledDeliberately'
  BY <1>t, <1>f, <1>l, <1>r DEF EnabledDeliberately
<1> QED BY <1>1, <1>2, <1>3, <1>4, <1>5, <1>6, <1>7, <1>8, <1>9 DEF IInv

\* A login ends with the session verified by the code it was given, if any.
LEMMA LoginKeeps ==
    ASSUME IInv, NEW p \in Procs, Login(p), UNCHANGED roles
    PROVE  IInv'
<1>t. /\ TypeOK /\ Shape /\ Granted /\ Opened /\ Enrolments /\ Proved /\ Serving
      /\ Honoured /\ Named /\ EnabledDeliberately
  BY DEF IInv
<1>n. None \notin Commands
  BY DeliveryAssumption
<1>l. /\ pc[p] = "login" /\ Leave(p)
      /\ session' = IF proof[p] # NoCode THEN "verified" ELSE "unlocked"
      /\ sessionSeed' = proof[p].seed
      /\ UNCHANGED <<policies, export, totp, seeds, step, factor>>
  BY DEF Login
<1>f. /\ pc'[p] = "idle" /\ cmd'[p] = None /\ request'[p] = None /\ grant'[p] = None
      /\ rec'[p] = NoRecord /\ proof'[p] = NoCode /\ since'[p] = 0
      /\ open' = open \ {p} /\ waived' = waived
      /\ Others(p)
  BY <1>t, <1>l, LeaveFrame
<1>c. cmd[p] \in Logins
  <2>1. cmd[p] \in Commands \cup {None} /\ pc[p] \in LabelsOf(cmd[p])
    BY <1>t DEF TypeOK, Shape
  <2> QED BY <2>1, <1>l, <1>n DEF LabelsOf, Commands, Gated, Settings, Brokered, Logins
<1>m. factor[p] = 0 /\ mutex = p
  BY <1>c, <1>t DEF Proved, Serving, Gated, Settings, Logins
<1>s. sessionSeed' \in Nat /\ (session' = "verified" => sessionSeed' # 0)
  BY <1>t, <1>l DEF TypeOK, Proved, Code
<1>1. TypeOK'
  BY <1>t, <1>l, <1>s, LeaveTypes DEF TypeOK
<1>2. Shape'
  BY <1>t, <1>f, IdleLabel DEF Shape, Others
<1>3. Granted'
  BY <1>t, <1>f DEF Granted, Others
<1>4. Opened'
  BY <1>t, <1>f, <1>l, <1>n DEF Opened, Others, Exported, Commands, Gated
<1>5. Enrolments'
  BY <1>t, <1>f, <1>l DEF Enrolments, Others
<1>6. Proved'
  BY <1>t, <1>f, <1>l, <1>m DEF TypeOK, Proved, Others, Enrolled
<1>7. Serving' /\ Honoured'
  <2>1. \A q \in Procs \ {p} : cmd[q] \notin Brokered
    BY <1>t, <1>m DEF Serving
  <2> QED BY <1>t, <1>l, <1>s, <2>1, LeaveServes
<1>8. Named'
  BY <1>t, <1>f DEF Named, Others
<1>9. EnabledDeliberately'
  BY <1>t, <1>f, <1>l DEF EnabledDeliberately
<1> QED BY <1>1, <1>2, <1>3, <1>4, <1>5, <1>6, <1>7, <1>8, <1>9 DEF IInv

\* A saved policy, a locked session and the clock leave every command where it is.
LEMMA AroundKeeps ==
    ASSUME IInv, UNCHANGED roles,
           \/ Tick \/ LockSession
           \/ \E p \in Procs, i \in PolicyIds, b \in PolicyBodies : SavePolicy(p, i, b)
    PROVE  IInv'
<1>t. /\ TypeOK /\ Shape /\ Granted /\ Opened /\ Enrolments /\ Proved /\ Serving
      /\ Honoured /\ Named /\ EnabledDeliberately
  BY DEF IInv
<1>f. /\ UNCHANGED <<mutex, copies, pc, cmd, request, grant, rec, proof, open, factor, since,
                     waived, export, totp, seeds>>
      /\ policies' \in [PolicyIds -> PolicyBodies \cup {NoPolicy}]
      /\ step' \in Nat /\ step' >= step
      /\ session' \in {"locked", "unlocked", "verified"} /\ sessionSeed' \in Nat
      /\ session' = "verified" => sessionSeed' # 0
      /\ mutex # Free => sessionSeed' = sessionSeed
  <2>1. CASE Tick
    BY <2>1, <1>t DEF TypeOK, Serving, Tick, hist
  <2>2. CASE LockSession
    BY <2>2, <1>t DEF TypeOK, LockSession
  <2>3. ASSUME NEW p \in Procs, NEW i \in PolicyIds, NEW b \in PolicyBodies, SavePolicy(p, i, b)
        PROVE  policies' \in [PolicyIds -> PolicyBodies \cup {NoPolicy}]
               /\ UNCHANGED <<mutex, copies, pc, cmd, request, grant, rec, proof, open, factor, since,
                              waived, export, totp, seeds, step, session, sessionSeed>>
    BY <2>3, <1>t DEF TypeOK, SavePolicy, hist
  <2>4. CASE \E p \in Procs, i \in PolicyIds, b \in PolicyBodies : SavePolicy(p, i, b)
    BY <2>3, <2>4, <1>t DEF TypeOK, Serving
  <2> QED BY <2>1, <2>2, <2>4
<1>1. TypeOK'
  BY <1>t, <1>f DEF TypeOK
<1>2. Shape'
  BY <1>t, <1>f DEF Shape
<1>3. Granted'
  BY <1>t, <1>f DEF Granted
<1>4. Opened'
  BY <1>t, <1>f DEF Opened, Exported
<1>5. Enrolments'
  BY <1>t, <1>f DEF Enrolments
<1>6. Proved'
  <2>1. \A q \in Procs : since'[q] <= step'
    BY <1>t, <1>f DEF TypeOK, Proved
  <2> QED BY <1>t, <1>f, <2>1 DEF Proved, Enrolled
<1>7. Serving'
  BY <1>t, <1>f DEF Serving
<1>8. Honoured'
  <2>1. ASSUME NEW q \in Procs, cmd[q] \in Brokered PROVE sessionSeed' = sessionSeed
    BY <1>t, <1>f, <2>1, DeliveryAssumption DEF Serving
  <2> QED BY <1>t, <1>f, <2>1 DEF Honoured, CodeBehind
<1>9. Named'
  BY <1>t, <1>f DEF Named
<1>10. EnabledDeliberately'
  BY <1>t, <1>f DEF EnabledDeliberately
<1> QED BY <1>1, <1>2, <1>3, <1>4, <1>5, <1>6, <1>7, <1>8, <1>9, <1>10 DEF IInv

-----------------------------------------------------------------------------
(* The theorems                                                            *)

\* Every step of every command keeps the invariant.
LEMMA NextKeeps == IInv /\ Next /\ UNCHANGED roles => IInv'
<1> SUFFICES ASSUME IInv, Next, UNCHANGED roles PROVE IInv'
  OBVIOUS
<1>1. ASSUME NEW p \in Procs, StartCommand(p) PROVE IInv'
  <2>1. PICK c, l : Entry(c, l) /\ Start(p, c, l) /\ c \notin Brokered \cup Logins \cup {"gateway"}
    BY <1>1 DEF StartCommand, Entry, Gated, Settings, Brokered, Logins
  <2>2. Served(p, c)
    BY <1>1, <2>1 DEF StartCommand, Served
  <2> QED BY <2>1, <2>2, StartKeeps
<1>2. ASSUME NEW p \in Procs, StartBrokered(p) PROVE IInv'
  <2>1. PICK c \in Brokered : Start(p, c, "issue")
    BY <1>2 DEF StartBrokered
  <2>2. Entry(c, "issue")
    BY DEF Entry
  <2>3. Served(p, c)
    BY <1>2 DEF StartBrokered, Served, IInv, TypeOK, Serving, Brokered
  <2> QED BY <2>1, <2>2, <2>3, StartKeeps
<1>3. ASSUME NEW p \in Procs, StartLogin(p) PROVE IInv'
  <2>1. PICK c \in Logins, l \in {"login", "verify"} : Start(p, c, l)
    BY <1>3 DEF StartLogin, Logins
  <2>2. Entry(c, l)
    BY DEF Entry
  <2>3. Served(p, c)
    BY <1>3 DEF StartLogin, Served, IInv, TypeOK, Serving, Logins
  <2> QED BY <2>1, <2>2, <2>3, StartKeeps
<1>4. ASSUME NEW p \in Procs, ReadExport(p) \/ EnforceExport(p) \/ SetCheck(p) PROVE IInv'
  <2>1. Ends(p) \/ \E l : Forward(p, l) /\ Advance(p, l) /\ UNCHANGED gates
    BY <1>4 DEF ReadExport, EnforceExport, SetCheck, Check, Ends, Forward
  <2> QED BY <2>1, EndsKeeps, AdvanceKeeps
<1>5. ASSUME NEW p \in Procs, ReadFactor(p) PROVE IInv'
  <2>1. CASE Enrolled
    BY <1>5, <2>1, AdvanceKeeps DEF ReadFactor, Forward
  <2>2. CASE ~Enrolled
    BY <1>5, <2>2, PassKeeps DEF ReadFactor, Accepts
  <2> QED BY <2>1, <2>2
<1>6. ASSUME NEW p \in Procs, NEW code \in Codes, Verify(p, code) PROVE IInv'
  <2>1. CASE Enrolled /\ verify_totp_code(code)
    <3>1. step \in Nat /\ MaxSeeds \in Nat /\ MaxStep \in Nat
      BY DeliveryAssumption DEF IInv, TypeOK
    <3>2. code.seed \in Nat /\ code.seed # 0 /\ code.step \in Int
      BY <3>1 DEF Codes
    <3>3. PICK offset \in -1..1 : step + offset >= 0 /\ code.step = step + offset
      BY <2>1 DEF verify_totp_code
    <3>4. code.step \in Nat /\ step <= code.step + 1
      BY <3>1, <3>2, <3>3
    <3>5. code \in Code
      BY <3>2, <3>4 DEF Codes, Code
    <3>6. Accepts(code)
      BY <2>1, <3>2, <3>4, <3>5 DEF Accepts, verify_totp_code
    <3> QED BY <1>6, <2>1, <3>6, PassKeeps DEF Verify
  <2>2. CASE ~(Enrolled /\ verify_totp_code(code))
    BY <1>6, <2>2, EndsKeeps DEF Verify, Ends
  <2> QED BY <2>1, <2>2
<1>7. ASSUME NEW p \in Procs, Read(p) \/ EnforceFactor(p) PROVE IInv'
  <2>1. \E l : Forward(p, l) /\ Advance(p, l) /\ UNCHANGED gates
    BY <1>7 DEF Read, EnforceFactor, Forward
  <2> QED BY <2>1, AdvanceKeeps
<1>8. ASSUME NEW p \in Procs, Issue(p) PROVE IInv'
  <2>1. CASE Finish(p)
    BY <1>8, <2>1, EndsKeeps DEF Issue, Ends
  <2>2. CASE \E r \in RequestsOf(p), i \in PolicyIds : IssueGranted(p, r, i)
    BY <2>2, IssueKeeps
  <2> QED BY <1>8, <2>1, <2>2 DEF Issue, IssueGranted
<1>9. ASSUME NEW p \in Procs, UseTicket(p) PROVE IInv'
  <2>1. Ends(p) \/ (Forward(p, "printed") /\ Advance(p, "printed") /\ UNCHANGED gates)
    BY <1>9 DEF UseTicket, Ends, Forward
  <2> QED BY <2>1, EndsKeeps, AdvanceKeeps
<1>10. ASSUME NEW p \in Procs, NextSecret(p) PROVE IInv'
  BY <1>10, NextSecretKeeps
<1>11. ASSUME NEW p \in Procs, SetExport(p) PROVE IInv'
  BY <1>11, SetExportKeeps
<1>12. ASSUME NEW p \in Procs, EnrollRead(p) PROVE IInv'
  <2> DEFINE x == [version |-> totp.version + 1, seed |-> seeds + 1, status |-> "active"]
  <2>1. totp.version \in Nat /\ seeds \in Nat
    BY DEF IInv, TypeOK, Record
  <2>2. x \in Record /\ x.version > 0 /\ seeds + 1 \in Nat
    BY <2>1 DEF Record
  <2>3. /\ pc[p] = "enroll_read" /\ rec' = [rec EXCEPT ![p] = x] /\ Goto(p, "enroll_save")
        /\ seeds' = seeds + 1
        /\ UNCHANGED <<policies, export, totp, step, session, mutex, copies, cmd, request, grant,
                       proof, hist>>
    BY <1>12 DEF EnrollRead
  <2> HIDE DEF x
  <2> QED BY <2>2, <2>3, CopyKeeps
<1>13. ASSUME NEW p \in Procs, WithdrawLoad(p) PROVE IInv'
  <2>1. CASE totp = NoRecord
    BY <1>13, <2>1, EndsKeeps DEF WithdrawLoad, Ends
  <2>2. CASE totp # NoRecord
    <3> DEFINE x == [totp EXCEPT !.status = "withdrawn"]
    <3>1. totp \in Record /\ seeds \in Nat
      BY DEF IInv, TypeOK
    <3>2. x \in Record /\ x.status = "withdrawn"
      BY <3>1 DEF Record
    <3>3. /\ pc[p] = "withdraw_load" /\ rec' = [rec EXCEPT ![p] = x] /\ Goto(p, "withdraw_save")
          /\ seeds' = seeds
          /\ UNCHANGED <<policies, export, totp, step, session, mutex, copies, cmd, request, grant,
                         proof, hist>>
      BY <1>13, <2>2 DEF WithdrawLoad, gates
    <3> HIDE DEF x
    <3> QED BY <3>1, <3>2, <3>3, CopyKeeps
  <2> QED BY <2>1, <2>2
<1>14. ASSUME NEW p \in Procs, SaveTotp(p) PROVE IInv'
  BY <1>14, SaveTotpKeeps
<1>15. ASSUME NEW p \in Procs, NEW i \in PolicyIds, NEW b \in PolicyBodies, SavePolicy(p, i, b)
       PROVE  IInv'
  BY <1>15, AroundKeeps
<1>16. ASSUME NEW p \in Procs, Login(p) PROVE IInv'
  BY <1>16, LoginKeeps
<1>17. ASSUME NEW p \in Procs, End(p) \/ Abort(p) PROVE IInv'
  <2>1. Ends(p)
    BY <1>17 DEF End, Abort, Ends
  <2> QED BY <2>1, EndsKeeps
<1>18. ASSUME NEW p \in Procs, StartGateway(p) PROVE IInv'
  <2>1. Start(p, "gateway", "issue") /\ Entry("gateway", "issue") /\ Served(p, "gateway")
    BY <1>18 DEF StartGateway, Entry, Served
  <2> QED BY <2>1, StartKeeps
<1>19. ASSUME LockSession \/ Tick PROVE IInv'
  BY <1>19, AroundKeeps
<1> QED BY <1>1, <1>2, <1>3, <1>4, <1>5, <1>6, <1>7, <1>8, <1>9, <1>10, <1>11, <1>12, <1>13,
           <1>14, <1>15, <1>16, <1>17, <1>18, <1>19 DEF Next

\* The inductive invariant holds in every state of every set of commands.
THEOREM DeliveryInvariance == Spec => []IInv
<1>1. Init => IInv
  <2> SUFFICES ASSUME Init PROVE IInv
    OBVIOUS
  <2>n. /\ None \notin Commands /\ NoRecord \in Record /\ NoCode \in Code
        /\ NoCopies \in [session: {"locked", "unlocked", "verified"}, seed: Nat]
    BY DeliveryAssumption DEF NoRecord, Record, NoCode, Code, NoCopies
  <2>1. TypeOK
    BY <2>n DEF Init, TypeOK, Labels
  <2>2. Shape
    BY IdleLabel DEF Init, Shape
  <2>3. Granted /\ Honoured /\ Named
    BY DEF Init, Granted, Honoured, Named
  <2>4. Opened
    BY <2>n DEF Init, Opened, Exported, Commands, PastEnforce, Ticketed
  <2>5. Enrolments /\ EnabledDeliberately
    BY DEF Init, Enrolments, EnabledDeliberately, NoRecord
  <2>6. Proved
    BY DEF Init, Proved
  <2>7. Serving
    BY <2>n DEF Init, Serving, Commands, NoCopies
  <2> QED BY <2>1, <2>2, <2>3, <2>4, <2>5, <2>6, <2>7 DEF IInv
<1>2. IInv /\ [Next /\ UNCHANGED roles]_vars => IInv'
  <2>1. CASE Next /\ UNCHANGED roles
    BY <2>1, NextKeeps
  <2>2. ASSUME IInv, UNCHANGED vars PROVE IInv'
    <3>1. TypeOK' /\ Shape' /\ Granted' /\ Opened'
      BY <2>2 DEF IInv, vars, TypeOK, Shape, Granted, Opened, Exported
    <3>2. Enrolments' /\ Proved' /\ Serving' /\ EnabledDeliberately'
      BY <2>2 DEF IInv, vars, Enrolments, Proved, Enrolled, Serving, EnabledDeliberately
    <3>3. Honoured' /\ Named'
      BY <2>2 DEF IInv, vars, Honoured, CodeBehind, Named
    <3> QED BY <3>1, <3>2, <3>3 DEF IInv
  <2> QED BY <2>1, <2>2
<1> QED BY <1>1, <1>2, PTL DEF Spec

\* Every variable of the delivery model keeps its type: a command holds a record, a code,
\* a request and a grant or none.
THEOREM DeliveryTypeCorrect == Spec => []TypeOK
<1>1. IInv => TypeOK
  BY DEF IInv
<1> QED BY <1>1, DeliveryInvariance, PTL

\* No command prints plaintext in whose whole time the export setting was disabled.
THEOREM ExportIsGated == Spec => []ExportWasOpen
<1>1. IInv => ExportWasOpen
  BY DEF IInv, Opened, ExportWasOpen, Printed, PastEnforce, Ticketed
<1> QED BY <1>1, DeliveryInvariance, PTL

\* Plaintext is printed, and the export setting changed, only with a code of the factor
\* enrolled all along, shown no earlier than one period before the command began.
THEOREM FactorIsProved == Spec => []FactorWasProved
<1>1. IInv => FactorWasProved
  BY DEF IInv, Proved, FactorWasProved, PastGate, Ticketed
<1> QED BY <1>1, DeliveryInvariance, PTL

\* The export is enabled only after an enrolment, or with --allow-without-mfa.
THEOREM ExportEnabledDeliberately == Spec => []EnabledDeliberately
<1>1. IInv => EnabledDeliberately
  BY DEF IInv
<1> QED BY <1>1, DeliveryInvariance, PTL

\* A policy that requires MFA delivers only with an accepted code behind the command,
\* behind the broker's session for a command on its socket, or behind the session that
\* admitted a gateway request, whatever happens to the session during the request.
THEOREM MfaIsHonoured == Spec => []MfaPolicyHonoured
<1>1. IInv => MfaPolicyHonoured
  BY DEF IInv, Granted, Honoured, CodeBehind, MfaPolicyHonoured, Brokered
<1> QED BY <1>1, DeliveryInvariance, PTL

\* Raw plaintext goes to a peer an allow list of the granting policy names, or that policy
\* waives it.
THEOREM PlaintextGoesToNamedPeer == Spec => []PlaintextPeerNamed
<1>1. IInv => PlaintextPeerNamed
  BY DEF IInv, Named, PlaintextPeerNamed
<1> QED BY <1>1, DeliveryInvariance, PTL

\* What the commands may ask for is a request of the policy engine.
LEMMA AllRequestsTyped == AllRequests \subseteq AccessRequest
<1> SUFFICES ASSUME NEW r \in AllRequests PROVE r \in AccessRequest
  OBVIOUS
<1>1. PICK ask \in Asks, peer \in Peers \cup {OwnPeer}, f \in SUBSET RequestFlags, n \in 0..MaxStep :
         r = AskedBy(ask, peer, f, n)
  BY DEF AllRequests
<1>2. /\ ask \in AccessRequest /\ peer \in [PeerAttributes -> PeerValues \cup {None}] /\ n \in Nat
  BY DeliveryAssumption
<1> QED BY <1>1, <1>2 DEF AskedBy, AccessRequest

\* Saving a stricter body over a stored policy grants nothing the old one denied: what
\* commands are granted only shrinks.
THEOREM TighteningOnlyDenies == Spec => TighteningNeverGrants
<1> DEFINE Tightens == \A i \in PolicyIds :
          /\ policies[i] # NoPolicy
          /\ policies'[i] # policies[i]
          /\ Stricter(policies'[i], policies[i])
          => GrantedBy[policies'[i]] \subseteq GrantedBy[policies[i]]
<1>1. IInv /\ [Next /\ UNCHANGED roles]_vars => [Tightens]_policies
  <2> SUFFICES ASSUME IInv, [Next /\ UNCHANGED roles]_vars, NEW i \in PolicyIds,
                      policies[i] # NoPolicy, policies'[i] # policies[i],
                      Stricter(policies'[i], policies[i])
               PROVE  GrantedBy[policies'[i]] \subseteq GrantedBy[policies[i]]
    OBVIOUS
  <2>1. policies' # policies
    OBVIOUS
  <2>2. PICK p \in Procs, j \in PolicyIds, b \in PolicyBodies : SavePolicy(p, j, b)
    BY <2>1 DEF vars, gates, Next, StartCommand, StartBrokered, StartGateway, StartLogin, Start,
       ReadExport, ReadFactor, Check, Verify, Read, Issue, EnforceExport, EnforceFactor, UseTicket, NextSecret,
       SetCheck, SetExport, EnrollRead, WithdrawLoad, SaveTotp, Login, End, Abort, LockSession, Tick
  <2>3. policies'[i] \in PolicyBodies /\ policies[i] \in PolicyBodies
    BY <2>2 DEF IInv, TypeOK, SavePolicy
  <2>4. policies'[i] \in AccessPolicy /\ policies[i] \in AccessPolicy
    BY <2>3, DeliveryAssumption
  <2>5. ASSUME NEW r \in AllRequests, Allows(policies'[i], r) PROVE Allows(policies[i], r)
    BY <2>4, <2>5, AllRequestsTyped, StricterNeverGrants
  <2> QED BY <2>3, <2>5 DEF GrantedBy
<1> QED BY <1>1, DeliveryInvariance, PTL DEF Spec, TighteningNeverGrants
===============================================================================
