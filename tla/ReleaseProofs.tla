---------------------------- MODULE ReleaseProofs ----------------------------
(***************************************************************************)
(* Theorems about module Release, for every set of commands, keys and      *)
(* documents, and every number of runs and of kills.                       *)
(***************************************************************************)
EXTENDS Release, TLAPS

-----------------------------------------------------------------------------
(* The inductive invariant                                                 *)

\* The release directory has a fixed set of names.
FileNames == file = [f \in Files |-> file[f]]

Signing == {"public", "hash", "manifest", "sign"}
Reading == {"read_manifest", "compare", "verify_key"}

\* Where a command stands: what it has still to do, and what it has done.
WorkOf(p) ==
    /\ pc[p] = "idle" => checks[p] = "pass" /\ man[p] = NoManifest
    /\ pc[p] = "generate" => todo[p] \in Seq(Docs \cup {"artifact.sig"}) /\ todo[p] # <<>>
    /\ pc[p] \in Signing \cup {"keygen"} => key[p] \in Keys
    /\ pc[p] \in {"public", "hash"} =>
         /\ todo[p] \in Seq(Data) /\ todo[p] # <<>>
         /\ \A d \in Docs : Listed(man[p], d) \/ \E j \in DOMAIN todo[p] : todo[p][j] = d
    /\ pc[p] \in {"manifest", "sign"} => \A d \in Docs : Listed(man[p], d)
    /\ pc[p] = "compare" => todo[p] # <<>> /\ Len(todo[p]) <= Len(man[p].artifacts)
    /\ pc[p] = "verify_key" => todo[p] = <<>>
    /\ pc[p] \in Reading => sig[p] \in signs
Work == \A p \in Procs : WorkOf(p)

\* A signature in the directory was made by release sign, and every signed manifest
\* lists every document.
Signed ==
    /\ file["artifact.sig"] \notin {None, Torn, Unsigned} => file["artifact.sig"] \in signs
    /\ \A s \in signs : \A d \in Docs : Listed(s.manifest, d)

\* What a verification has found out so far, as it is in the directory
Exist    == \A f \in Docs \cup {"artifact.sig"} : file[f] # None
Readable == \A f \in JsonDocs \cup {"artifact.sig", "artifacts.json"} : file[f] # Torn
Compared(p) ==
    \A i \in 1..Len(man[p].artifacts) - Len(todo[p]) :
        Same(man[p].artifacts[i].path, man[p].artifacts[i])
SoFar(p) ==
    /\ pc[p] = "json" => (checks[p] = "pass" <=> Exist)
    /\ pc[p] \in {"signature", "read_manifest"} => (checks[p] = "pass" <=> Exist /\ Readable)
    /\ pc[p] \in Reading => sig[p] = file["artifact.sig"]
    /\ pc[p] \in {"compare", "verify_key"} =>
         /\ man[p] = file["artifacts.json"]
         /\ checks[p] = "pass" <=>
              Exist /\ Readable /\ man[p] = sig[p].manifest /\ Compared(p)
    /\ pc[p] = "verdict" => (checks[p] = "pass" <=> Intact(PublicKey(p)))
Untouched == \A p \in Procs : pc[p] \in Verifying /\ p \notin touched => SoFar(p)

IInv == TypeOK /\ FileNames /\ Work /\ Signed /\ Untouched /\ PassedMeansSigned

-----------------------------------------------------------------------------
(* The operators                                                           *)

\* A queue of files has a first one and a rest.
LEMMA QueueFacts ==
    ASSUME NEW S, NEW s \in Seq(S), s # <<>>
    PROVE  /\ Head(s) \in S /\ Tail(s) \in Seq(S) /\ Len(s) \in Nat /\ Len(Tail(s)) = Len(s) - 1
           /\ Tail(s) = <<>> <=> Len(s) = 1
           /\ \A j \in DOMAIN s : s[j] = Head(s) \/ \E k \in DOMAIN Tail(s) : Tail(s)[k] = s[j]
<1>1. Head(s) \in S /\ Tail(s) \in Seq(S) /\ Len(s) \in Nat /\ Len(Tail(s)) = Len(s) - 1
  OBVIOUS
<1>3. \A t \in Seq(S) : t = <<>> <=> Len(t) = 0
  OBVIOUS
<1>2. ASSUME NEW j \in DOMAIN s, s[j] # Head(s)
      PROVE  j - 1 \in DOMAIN Tail(s) /\ Tail(s)[j - 1] = s[j]
  BY <1>2
<1>4. (Tail(s) = <<>>) <=> (Len(s) = 1)
  <2> DEFINE t == Tail(s)
             n == Len(s)
             m == Len(t)
  <2>1. n \in Nat /\ m = n - 1 /\ ((t = <<>>) <=> (m = 0))
    BY <1>1, <1>3
  <2> HIDE DEF t, n, m
  <2>2. (t = <<>>) <=> (n = 1)
    BY <2>1
  <2> QED BY <2>2 DEF t, n
<1>5. \A j \in DOMAIN s : s[j] = Head(s) \/ \E k \in DOMAIN Tail(s) : Tail(s)[k] = s[j]
  BY <1>2
<1> QED BY <1>1, <1>4, <1>5

\* A sequence is one of its own elements.
LEMMA SeqOfRange ==
    ASSUME NEW s \in Seq(STRING), NEW S, Range(s) \subseteq S
    PROVE  s \in Seq(S)
BY DEF Range

\* The order of release evidence and the order of the manifest name documents only, and
\* the manifest's names all of them.
LEMMA Orders ==
    /\ GenerateOrder \in Seq(Docs \cup {"artifact.sig"}) /\ GenerateOrder # <<>>
    /\ DocOrder \in Seq(Docs) /\ DocOrder # <<>>
    /\ \A d \in Docs : \E j \in DOMAIN DocOrder : DocOrder[j] = d
<1>1. /\ Early \in Seq(Docs \cup {"artifact.sig"}) /\ Late \in Seq(Docs \cup {"artifact.sig"})
      /\ DocOrder \in Seq(Docs) /\ DocOrder # <<>>
  BY ReleaseAssumption, SeqOfRange DEF Docs
<1>2. \A d \in Docs : \E j \in DOMAIN DocOrder : DocOrder[j] = d
  BY ReleaseAssumption DEF Range
<1>3. <<"artifact.sig">> \in Seq(Docs \cup {"artifact.sig"})
  OBVIOUS
<1>4. GenerateOrder \in Seq(Docs \cup {"artifact.sig"}) /\ GenerateOrder # <<>>
  BY <1>1, <1>3 DEF GenerateOrder
<1> QED BY <1>1, <1>2, <1>4

\* What release sign has to hash: every document, then the artifacts.
LEMMA SignQueue ==
    ASSUME NEW arts \in ArtifactLists
    PROVE  /\ DocOrder \o arts \in Seq(Data) /\ DocOrder \o arts # <<>>
           /\ \A d \in Docs : \E j \in DOMAIN (DocOrder \o arts) : (DocOrder \o arts)[j] = d
<1>1. arts \in Seq(Data)
  <2>1. PICK n \in 0..MaxArtifacts : arts \in [1..n -> Artifacts]
    BY DEF ArtifactLists
  <2>2. n \in Nat /\ arts \in [1..n -> Data]
    BY <2>1, ReleaseAssumption DEF Data
  <2> QED BY <2>2
<1>2. DocOrder \in Seq(Data) /\ DocOrder # <<>>
  BY ReleaseAssumption, SeqOfRange DEF Data
<1>3. DocOrder \o arts \in Seq(Data) /\ DocOrder \o arts # <<>>
  BY <1>1, <1>2
<1>4. \A j \in DOMAIN DocOrder : j \in DOMAIN (DocOrder \o arts) /\ (DocOrder \o arts)[j] = DocOrder[j]
  BY <1>1, <1>2
<1> QED BY <1>3, <1>4, Orders

\* A written file has its new content, and the other ones theirs.
LEMMA Written ==
    ASSUME FileNames, NEW f \in Files, NEW c, Write(f, c)
    PROVE  /\ FileNames' /\ file'[f] = c
           /\ \A g \in Files \ {f} : file'[g] = file[g]
BY DEF FileNames, Write

\* The contents that belong in each file
Fits(f, c) ==
    \/ f \in Data /\ c \in Contents \cup {Torn}
    \/ f = "key" /\ c \in Keys \cup {Torn}
    \/ f = "artifacts.json" /\ c \in Manifest \cup {Torn}
    \/ f = "artifact.sig" /\ c \in Signature \cup {Torn, Unsigned}

\* The types of the files
FilesTyped ==
    /\ \A f \in Data : file[f] \in Contents \cup {Torn, None}
    /\ file["key"] \in Keys \cup {Torn, None}
    /\ file["artifacts.json"] \in Manifest \cup {Torn, None}
    /\ file["artifact.sig"] \in Signature \cup {Torn, None, Unsigned}

\* A write of what belongs there keeps them.
LEMMA WriteTyped ==
    ASSUME FileNames, FilesTyped, NEW f, NEW c, Fits(f, c), Write(f, c)
    PROVE  f \in Files /\ FileNames' /\ FilesTyped'
<1>1. f \in Files
  BY DEF Fits, Files
<1>2. /\ FileNames' /\ file'[f] = c
      /\ \A g \in Files \ {f} : file'[g] = file[g]
  BY <1>1, Written
<1>3. Data \cap {"artifact.sig", "artifacts.json", "key"} = {}
  BY ReleaseAssumption
<1> QED BY <1>1, <1>2, <1>3 DEF FilesTyped, Fits, Files

\* The types of what commands hold
LocalsTyped ==
    /\ pc \in [Procs -> Labels]
    /\ stamp \in [Procs -> Contents]
    /\ todo \in [Procs -> Seq(Files)]
    /\ key \in [Procs -> Keys \cup {None}]
    /\ man \in [Procs -> Manifest]
    /\ sig \in [Procs -> Signature \cup {None}]
    /\ checks \in [Procs -> {"pass", "fail"}]

\* A command that has ended holds nothing.
LEMMA FinishTyped ==
    ASSUME LocalsTyped, NEW p \in Procs, Finish(p)
    PROVE  LocalsTyped'
<1>1. 1 \in Contents /\ NoManifest \in Manifest /\ <<>> \in Seq(Files)
  BY ReleaseAssumption DEF Contents, NoManifest, Manifest
<1> QED BY <1>1 DEF LocalsTyped, Finish, Goto, Labels

\* The manifest read back gives the files to compare.
LEMMA ManifestQueue ==
    ASSUME NEW m \in Manifest
    PROVE  LET t == [i \in DOMAIN m.artifacts |-> m.artifacts[i].path] IN
           /\ m.artifacts \in Seq(Entry) /\ Len(m.artifacts) \in Nat
           /\ t \in Seq(Files) /\ Len(t) = Len(m.artifacts)
           /\ t = <<>> <=> m.artifacts = <<>>
<1>1. m.artifacts \in Seq(Entry)
  BY DEF Manifest
<1>2. \A i \in DOMAIN m.artifacts : m.artifacts[i].path \in Files
  <2>1. \A i \in DOMAIN m.artifacts : m.artifacts[i] \in Entry
    BY <1>1
  <2>2. \A e \in Entry : e.path \in Data
    BY DEF Entry
  <2> QED BY <2>1, <2>2 DEF Files
<1> QED BY <1>1, <1>2

\* The entry of a file that is there is added to the manifest, or is in it already.
LEMMA EntryAdded ==
    ASSUME NEW m \in Manifest, NEW f \in Data, file[f] \in Contents \cup {Torn}
    PROVE  /\ WithEntry(m, f) \in Manifest
           /\ Listed(WithEntry(m, f), f)
           /\ \A d : Listed(m, d) => Listed(WithEntry(m, f), d)
<1>1. CASE Listed(m, f)
  BY <1>1 DEF WithEntry
<1>2. CASE ~Listed(m, f)
  <2> DEFINE a == m.artifacts
             e == [path |-> f, sha256 |-> file[f]]
  <2>1. a \in Seq(Entry) /\ e \in Entry /\ e.path = f
    BY DEF Manifest, Entry
  <2>2. WithEntry(m, f) = [m EXCEPT !.artifacts = Append(a, e)]
    BY <1>2 DEF WithEntry
  <2> HIDE DEF e
  <2>3. /\ Append(a, e) \in Seq(Entry)
        /\ \A i \in DOMAIN a : i \in DOMAIN Append(a, e) /\ Append(a, e)[i] = a[i]
        /\ Len(a) + 1 \in DOMAIN Append(a, e) /\ Append(a, e)[Len(a) + 1] = e
    BY <2>1
  <2>4. WithEntry(m, f) \in Manifest /\ WithEntry(m, f).artifacts = Append(a, e)
    BY <2>2, <2>3 DEF Manifest
  <2> QED BY <2>1, <2>3, <2>4 DEF Listed
<1> QED BY <1>1, <1>2

-----------------------------------------------------------------------------
(* Types                                                                   *)

\* What the command about to be killed may leave torn is a file of the directory.
LEMMA TargetFits ==
    ASSUME TypeOK, Work, NEW p \in Procs, Target(p) # None
    PROVE  Fits(Target(p), Torn) /\ pc[p] \notin Verifying /\ Target(p) \in Files
<1>1. pc[p] = "generate" => Head(todo[p]) \in Docs \cup {"artifact.sig"}
  BY QueueFacts DEF Work, WorkOf
<1>2. CASE pc[p] = "generate"
  BY <1>1, <1>2 DEF Target, Fits, Data, Files, Verifying
<1>3. CASE pc[p] # "generate"
  BY <1>3 DEF Target, Fits, Files, Verifying
<1> QED BY <1>2, <1>3

\* The signature of a finished signing
LEMMA SignatureTyped ==
    ASSUME TypeOK, Work, NEW p \in Procs, pc[p] = "sign"
    PROVE  [key |-> key[p], manifest |-> man[p]] \in Signature
BY DEF TypeOK, Work, WorkOf, Signing, Signature

\* Every step keeps the types.
LEMMA TypeStep == IInv /\ Next => TypeOK' /\ FileNames'
<1> SUFFICES ASSUME IInv, Next PROVE TypeOK' /\ FileNames'
  OBVIOUS
<1>t. TypeOK /\ FileNames /\ Work
  BY DEF IInv
<1>y. FilesTyped /\ LocalsTyped
  BY <1>t DEF TypeOK, FilesTyped, LocalsTyped
<1>c. /\ private \in Keys \cup {Torn, None} /\ world \in Contents
      /\ runs \in Nat /\ crashes \in Nat /\ signs \subseteq Signature /\ touched \subseteq Procs
      /\ MaxRuns \in Nat /\ MaxWorld \in Nat
  BY <1>t, ReleaseAssumption DEF TypeOK
<1>d. \A f, c : Write(f, c) => touched' \subseteq Procs
  BY <1>c DEF Write
<1>q. ASSUME FileNames', FilesTyped', LocalsTyped',
             private' \in Keys \cup {Torn, None}, world' \in Contents,
             runs' \in Nat, crashes' \in Nat, signs' \subseteq Signature, touched' \subseteq Procs
      PROVE  TypeOK' /\ FileNames'
  BY <1>q DEF TypeOK, FilesTyped, LocalsTyped
<1>u. UNCHANGED file => FileNames' /\ FilesTyped'
  BY <1>t, <1>y DEF FileNames, FilesTyped
<1>1. ASSUME NEW p \in Procs, GenerateStart(p) PROVE TypeOK' /\ FileNames'
  <2>1. GenerateOrder \in Seq(Files)
    BY Orders DEF Files, Data
  <2>2. LocalsTyped'
    BY <1>1, <1>y, <1>c, <2>1 DEF LocalsTyped, GenerateStart, Begin, Goto, Labels
  <2> QED BY <1>1, <1>q, <1>u, <1>c, <2>2 DEF GenerateStart, Begin
<1>2. ASSUME NEW p \in Procs, GenerateWrite(p) PROVE TypeOK' /\ FileNames'
  <2>1. Head(todo[p]) \in Docs \cup {"artifact.sig"}
    BY <1>2, <1>t, QueueFacts DEF Work, WorkOf, GenerateWrite
  <2>2. Fits(Head(todo[p]), Evidence(p, Head(todo[p])))
    BY <2>1, <1>y, <1>c DEF Fits, Evidence, LocalsTyped, Data
  <2>3. FileNames' /\ FilesTyped' /\ touched' \subseteq Procs
    <3>1. CASE Write(Head(todo[p]), Evidence(p, Head(todo[p])))
      BY <3>1, <1>t, <1>y, <1>d, <2>2, WriteTyped
    <3>2. CASE UNCHANGED <<file, touched>>
      BY <3>2, <1>u, <1>c
    <3> QED BY <1>2, <3>1, <3>2 DEF GenerateWrite
  <2>4. LocalsTyped'
    <3>1. CASE Finish(p)
      BY <3>1, <1>y, FinishTyped
    <3>2. CASE todo' = [todo EXCEPT ![p] = Tail(@)] /\ UNCHANGED <<pc, stamp, key, man, sig, checks>>
      <4>1. Tail(todo[p]) \in Seq(Files)
        BY <1>2, <1>t, <1>y, QueueFacts DEF Work, WorkOf, GenerateWrite, LocalsTyped
      <4> QED BY <3>2, <4>1, <1>y DEF LocalsTyped
    <3> QED BY <1>2, <3>1, <3>2 DEF GenerateWrite
  <2> QED BY <1>2, <1>q, <1>c, <2>3, <2>4 DEF GenerateWrite, counters
<1>3. ASSUME NEW p \in Procs, NEW k \in Keys, KeygenPrivate(p, k) PROVE TypeOK' /\ FileNames'
  <2>1. LocalsTyped'
    BY <1>3, <1>y DEF LocalsTyped, KeygenPrivate, Begin, Goto, Labels
  <2> QED BY <1>3, <1>q, <1>u, <1>c, <2>1 DEF KeygenPrivate, Begin
<1>4. ASSUME NEW p \in Procs, KeygenKilled(p) PROVE TypeOK' /\ FileNames'
  <2>1. LocalsTyped'
    BY <1>4, <1>y DEF LocalsTyped, KeygenKilled, locals
  <2> QED BY <1>4, <1>q, <1>u, <1>c, <2>1 DEF KeygenKilled
<1>5. ASSUME NEW p \in Procs, KeygenPublic(p) PROVE TypeOK' /\ FileNames'
  <2>1. Fits("key", key[p])
    BY <1>5, <1>t DEF Fits, Work, WorkOf, KeygenPublic
  <2>2. FileNames' /\ FilesTyped' /\ touched' \subseteq Procs /\ LocalsTyped'
    BY <1>5, <1>t, <1>y, <1>d, <1>u, <1>c, <2>1, WriteTyped, FinishTyped
       DEF KeygenPublic, WritePublic
  <2> QED BY <1>5, <1>q, <1>c, <2>2 DEF KeygenPublic, counters
<1>6. ASSUME NEW p \in Procs, NEW arts \in ArtifactLists, SignStart(p, arts)
      PROVE  TypeOK' /\ FileNames'
  <2>1. DocOrder \o arts \in Seq(Files)
    BY SignQueue DEF Files
  <2>2. [man[p] EXCEPT !.key = private, !.created_at = runs + 1] \in Manifest
    <3>1. man[p] \in Manifest /\ private \in Keys /\ runs + 1 \in 0..MaxRuns
      BY <1>6, <1>y, <1>c DEF LocalsTyped, SignStart, Begin
    <3> QED BY <3>1 DEF Manifest
  <2>3. LocalsTyped'
    BY <1>6, <1>y, <2>1, <2>2 DEF LocalsTyped, SignStart, Begin, Goto, Labels
  <2> QED BY <1>6, <1>q, <1>u, <1>c, <2>3 DEF SignStart, Begin
<1>7. ASSUME NEW p \in Procs, SignPublic(p) PROVE TypeOK' /\ FileNames'
  <2>1. Fits("key", key[p])
    BY <1>7, <1>t DEF Fits, Work, WorkOf, SignPublic, Signing
  <2>2. FileNames' /\ FilesTyped' /\ touched' \subseteq Procs
    BY <1>7, <1>t, <1>y, <1>d, <1>u, <1>c, <2>1, WriteTyped DEF SignPublic, WritePublic
  <2>3. LocalsTyped'
    BY <1>7, <1>y DEF LocalsTyped, SignPublic, Goto, Labels
  <2> QED BY <1>7, <1>q, <1>c, <2>2, <2>3 DEF SignPublic, counters
<1>8. ASSUME NEW p \in Procs, SignHash(p) PROVE TypeOK' /\ FileNames'
  <2>1. LocalsTyped'
    <3>1. CASE file[Head(todo[p])] = None
      BY <1>8, <3>1, <1>y, FinishTyped DEF SignHash
    <3>2. CASE file[Head(todo[p])] # None
      <4> DEFINE f == Head(todo[p])
      <4>1. f \in Data
        BY <1>8, <1>t, QueueFacts DEF Work, WorkOf, SignHash
      <4>2. Tail(todo[p]) \in Seq(Files)
        BY <1>8, <1>t, <1>y, QueueFacts DEF Work, WorkOf, SignHash, LocalsTyped
      <4>3. WithEntry(man[p], f) \in Manifest
        BY <3>2, <4>1, <1>y, EntryAdded DEF FilesTyped, LocalsTyped
      <4>4. /\ man' = [man EXCEPT ![p] = WithEntry(@, f)]
            /\ todo' = [todo EXCEPT ![p] = Tail(@)]
            /\ Goto(p, IF Tail(todo[p]) = <<>> THEN "manifest" ELSE "hash")
            /\ UNCHANGED <<stamp, key, sig, checks>>
        BY <1>8, <3>2 DEF SignHash
      <4> HIDE DEF f
      <4> QED BY <1>y, <4>2, <4>3, <4>4 DEF LocalsTyped, Goto, Labels
    <3> QED BY <3>1, <3>2
  <2> QED BY <1>8, <1>q, <1>u, <1>c, <2>1 DEF SignHash, counters
<1>9. ASSUME NEW p \in Procs, SignManifest(p) PROVE TypeOK' /\ FileNames'
  <2>1. Fits("artifacts.json", man[p])
    BY <1>y DEF Fits, LocalsTyped
  <2>2. FileNames' /\ FilesTyped' /\ touched' \subseteq Procs
    BY <1>9, <1>t, <1>y, <1>d, <2>1, WriteTyped DEF SignManifest
  <2>3. LocalsTyped'
    BY <1>9, <1>y DEF LocalsTyped, SignManifest, Goto, Labels
  <2> QED BY <1>9, <1>q, <1>c, <2>2, <2>3 DEF SignManifest, counters
<1>10. ASSUME NEW p \in Procs, SignSignature(p) PROVE TypeOK' /\ FileNames'
  <2> DEFINE s == [key |-> key[p], manifest |-> man[p]]
  <2>1. s \in Signature
    BY <1>10, <1>t, SignatureTyped DEF SignSignature
  <2>2. Write("artifact.sig", s) /\ signs' = signs \cup {s}
    BY <1>10 DEF SignSignature
  <2> HIDE DEF s
  <2>3. FileNames' /\ FilesTyped' /\ touched' \subseteq Procs /\ signs' \subseteq Signature
    BY <1>t, <1>y, <1>c, <1>d, <2>1, <2>2, WriteTyped DEF Fits
  <2>4. LocalsTyped'
    BY <1>10, <1>y, FinishTyped DEF SignSignature
  <2> QED BY <1>10, <1>q, <1>c, <2>3, <2>4 DEF SignSignature, counters
<1>11. ASSUME NEW p \in Procs, NEW k \in Keys \cup {None}, VerifyStart(p, k)
       PROVE  TypeOK' /\ FileNames'
  <2>1. LocalsTyped'
    BY <1>11, <1>y DEF LocalsTyped, VerifyStart, Checked, Goto, Labels
  <2> QED BY <1>11, <1>q, <1>u, <1>c, <2>1 DEF VerifyStart, counters
<1>12. ASSUME NEW p \in Procs, VerifyJson(p) \/ VerifyKey(p) PROVE TypeOK' /\ FileNames'
  <2>1. LocalsTyped'
    BY <1>12, <1>y DEF LocalsTyped, VerifyJson, VerifyKey, Checked, Goto, Labels
  <2> QED BY <1>12, <1>q, <1>u, <1>c, <2>1 DEF VerifyJson, VerifyKey, counters
<1>13. ASSUME NEW p \in Procs, VerifySignature(p) PROVE TypeOK' /\ FileNames'
  <2>1. LocalsTyped'
    BY <1>13, <1>y DEF LocalsTyped, FilesTyped, VerifySignature, Checked, Goto, Labels
  <2> QED BY <1>13, <1>q, <1>u, <1>c, <2>1 DEF VerifySignature, counters
<1>14. ASSUME NEW p \in Procs, VerifyManifest(p) PROVE TypeOK' /\ FileNames'
  <2>1. LocalsTyped'
    <3> DEFINE m == file["artifacts.json"]
               t == [i \in DOMAIN m.artifacts |-> m.artifacts[i].path]
    <3>1. CASE m \in {None, Torn}
      BY <1>14, <3>1, <1>y DEF LocalsTyped, VerifyManifest, Checked, Goto, Labels
    <3>2. CASE m \notin {None, Torn}
      <4>1. m \in Manifest /\ t \in Seq(Files)
        BY <3>2, <1>y, ManifestQueue DEF FilesTyped
      <4>2. /\ Checked(p, m = sig[p].manifest)
            /\ Goto(p, IF m.artifacts = <<>> THEN "verify_key" ELSE "compare")
            /\ man' = [man EXCEPT ![p] = m] /\ todo' = [todo EXCEPT ![p] = t]
            /\ UNCHANGED <<stamp, key, sig>>
        BY <1>14, <3>2 DEF VerifyManifest
      <4> HIDE DEF m, t
      <4> QED BY <4>1, <4>2, <1>y DEF LocalsTyped, Checked, Goto, Labels
    <3> QED BY <3>1, <3>2
  <2> QED BY <1>14, <1>q, <1>u, <1>c, <2>1 DEF VerifyManifest, counters
<1>15. ASSUME NEW p \in Procs, VerifyArtifact(p) PROVE TypeOK' /\ FileNames'
  <2>1. Tail(todo[p]) \in Seq(Files)
    BY <1>15, <1>t, <1>y, QueueFacts DEF Work, WorkOf, VerifyArtifact, LocalsTyped
  <2>2. LocalsTyped'
    BY <1>15, <1>y, <2>1 DEF LocalsTyped, VerifyArtifact, Checked, Goto, Labels
  <2> QED BY <1>15, <1>q, <1>u, <1>c, <2>2 DEF VerifyArtifact, counters
<1>16. ASSUME NEW p \in Procs, End(p) PROVE TypeOK' /\ FileNames'
  BY <1>16, <1>y, <1>q, <1>u, <1>c, FinishTyped DEF End, counters
<1>17. ASSUME NEW p \in Procs, Crash(p) PROVE TypeOK' /\ FileNames'
  <2>1. LocalsTyped'
    BY <1>17, <1>y, FinishTyped DEF Crash
  <2>2. FileNames' /\ FilesTyped' /\ touched' \subseteq Procs
    <3>1. CASE UNCHANGED file /\ touched' = touched \ {p}
      BY <3>1, <1>u, <1>c
    <3>2. CASE Target(p) # None /\ Write(Target(p), Torn)
      BY <3>2, <1>t, <1>y, <1>d, TargetFits, WriteTyped
    <3> QED BY <1>17, <3>1, <3>2 DEF Crash
  <2> QED BY <1>17, <1>q, <1>c, <2>1, <2>2 DEF Crash
<1>18. ASSUME NEW a \in Artifacts, Build(a) PROVE TypeOK' /\ FileNames'
  <2>1. Fits(a, world)
    BY <1>c DEF Fits, Data
  <2>2. FileNames' /\ FilesTyped' /\ touched' \subseteq Procs
    BY <1>18, <1>t, <1>y, <1>d, <2>1, WriteTyped DEF Build
  <2>3. LocalsTyped'
    BY <1>18, <1>y DEF LocalsTyped, Build, locals
  <2> QED BY <1>18, <1>q, <1>c, <2>2, <2>3 DEF Build, counters
<1>19. ASSUME Change PROVE TypeOK' /\ FileNames'
  <2>1. world' \in Contents
    BY <1>19, <1>c DEF Change, Contents
  <2>2. LocalsTyped'
    BY <1>19, <1>y DEF LocalsTyped, Change, locals
  <2> QED BY <1>19, <1>q, <1>u, <1>c, <2>1, <2>2 DEF Change, counters
<1> QED BY <1>1, <1>2, <1>3, <1>4, <1>5, <1>6, <1>7, <1>8, <1>9, <1>10, <1>11, <1>12, <1>13,
           <1>14, <1>15, <1>16, <1>17, <1>18, <1>19 DEF Next

-----------------------------------------------------------------------------
(* One command acts, the other ones are bystanders                         *)

\* A step of command p
Acts(p) ==
    \/ GenerateStart(p) \/ GenerateWrite(p)
    \/ \E k \in Keys : KeygenPrivate(p, k)
    \/ KeygenKilled(p) \/ KeygenPublic(p)
    \/ \E arts \in ArtifactLists : SignStart(p, arts)
    \/ SignPublic(p) \/ SignHash(p) \/ SignManifest(p) \/ SignSignature(p)
    \/ \E k \in Keys \cup {None} : VerifyStart(p, k)
    \/ VerifyJson(p) \/ VerifySignature(p) \/ VerifyManifest(p)
    \/ VerifyArtifact(p) \/ VerifyKey(p) \/ End(p)
    \/ Crash(p)

\* Nothing happens to q, unless a file it is verifying is written.
Bystander(q) ==
    /\ pc'[q] = pc[q] /\ todo'[q] = todo[q] /\ key'[q] = key[q] /\ man'[q] = man[q]
    /\ sig'[q] = sig[q] /\ checks'[q] = checks[q]
    /\ q \in touched => q \in touched'

\* Signatures are added, and whoever verifies while the directory changes is touched.
Noticed ==
    /\ signs \subseteq signs'
    /\ UNCHANGED <<file, signs>> \/ \A q \in Procs : pc[q] \in Verifying => q \in touched'

\* A write is noticed.
LEMMA WriteNoticed ==
    ASSUME NEW f, NEW c, Write(f, c), signs \subseteq signs'
    PROVE  Noticed /\ touched \subseteq touched'
BY DEF Write, Noticed

\* A step that writes the public key, or another file in its place, is noticed.
LEMMA PublicNoticed ==
    ASSUME NEW p, WritePublic(p), UNCHANGED signs
    PROVE  Noticed /\ touched \subseteq touched'
<1>1. CASE Write("key", key[p])
  BY <1>1, WriteNoticed
<1>2. CASE UNCHANGED <<file, touched>>
  BY <1>2 DEF Noticed
<1> QED BY <1>1, <1>2 DEF WritePublic

\* What an ended command leaves
LEMMA Finished ==
    ASSUME TypeOK, NEW p \in Procs, Finish(p)
    PROVE  /\ pc'[p] = "idle" /\ checks'[p] = "pass" /\ man'[p] = NoManifest
           /\ WorkOf(p)'
           /\ \A q \in Procs \ {p} : (\A x \in touched \ {p} : x \in touched') => Bystander(q)
<1>1. pc'[p] = "idle" /\ checks'[p] = "pass" /\ man'[p] = NoManifest
  BY DEF TypeOK, Finish, Goto
<1>2. WorkOf(p)'
  BY <1>1 DEF WorkOf, Signing, Reading
<1>3. \A q \in Procs \ {p} : (\A x \in touched \ {p} : x \in touched') => Bystander(q)
  BY DEF TypeOK, Finish, Goto, Bystander
<1> QED BY <1>1, <1>2, <1>3

\* A step of p leaves the other commands alone, and a change of the directory is noticed.
LEMMA ActsFrame ==
    ASSUME IInv, NEW p \in Procs, Acts(p)
    PROVE  Noticed /\ \A q \in Procs \ {p} : Bystander(q)
<1>t. TypeOK
  BY DEF IInv
<1>1. CASE GenerateStart(p) \/ KeygenKilled(p) \/ \E k \in Keys : KeygenPrivate(p, k)
  BY <1>1, <1>t DEF TypeOK, GenerateStart, KeygenKilled, KeygenPrivate, Begin, Goto, Bystander,
     Noticed, locals
<1>2. ASSUME NEW arts, SignStart(p, arts) PROVE Noticed /\ \A q \in Procs \ {p} : Bystander(q)
  BY <1>2, <1>t DEF TypeOK, SignStart, Begin, Goto, Bystander, Noticed
<1>3. CASE GenerateWrite(p)
  <2>1. Noticed /\ touched \subseteq touched'
    BY <1>3, WriteNoticed DEF GenerateWrite, Noticed
  <2>2. CASE Finish(p)
    BY <2>1, <2>2, <1>t, Finished
  <2>3. CASE todo' = [todo EXCEPT ![p] = Tail(@)] /\ UNCHANGED <<pc, stamp, key, man, sig, checks>>
    BY <2>1, <2>3, <1>t DEF TypeOK, Bystander
  <2> QED BY <1>3, <2>2, <2>3 DEF GenerateWrite
<1>4. CASE KeygenPublic(p)
  BY <1>4, <1>t, PublicNoticed, Finished DEF KeygenPublic
<1>5. CASE SignPublic(p) \/ SignManifest(p)
  <2>1. Noticed /\ touched \subseteq touched'
    BY <1>5, PublicNoticed, WriteNoticed DEF SignPublic, SignManifest
  <2> QED BY <1>5, <1>t, <2>1 DEF TypeOK, SignPublic, SignManifest, Goto, Bystander
<1>6. CASE SignHash(p)
  <2>1. UNCHANGED <<file, signs, touched>>
    BY <1>6 DEF SignHash
  <2>2. CASE Finish(p)
    BY <2>1, <2>2, <1>t, Finished DEF Noticed
  <2>3. CASE ~Finish(p)
    BY <1>6, <2>1, <2>3, <1>t DEF TypeOK, SignHash, Goto, Bystander, Noticed
  <2> QED BY <2>2, <2>3
<1>7. CASE SignSignature(p)
  <2>1. Noticed /\ touched \subseteq touched'
    BY <1>7, WriteNoticed DEF SignSignature
  <2> QED BY <1>7, <1>t, <2>1, Finished DEF SignSignature
<1>8. ASSUME NEW k, VerifyStart(p, k) PROVE Noticed /\ \A q \in Procs \ {p} : Bystander(q)
  BY <1>8, <1>t DEF TypeOK, VerifyStart, Checked, Goto, Bystander, Noticed
<1>9. CASE VerifyJson(p) \/ VerifySignature(p) \/ VerifyArtifact(p) \/ VerifyKey(p)
  BY <1>9, <1>t DEF TypeOK, VerifyJson, VerifySignature, VerifyArtifact, VerifyKey, Checked, Goto,
     Bystander, Noticed
<1>10. CASE VerifyManifest(p)
  BY <1>10, <1>t DEF TypeOK, VerifyManifest, Checked, Goto, Bystander, Noticed
<1>11. CASE End(p)
  BY <1>11, <1>t, Finished DEF End, Noticed
<1>12. CASE Crash(p)
  <2>1. CASE UNCHANGED file /\ touched' = touched \ {p}
    BY <1>12, <2>1, <1>t, Finished DEF Crash, Noticed
  <2>2. CASE Target(p) # None /\ Write(Target(p), Torn)
    <3>1. Noticed /\ touched \subseteq touched'
      BY <1>12, <2>2, WriteNoticed DEF Crash
    <3> QED BY <1>12, <3>1, <1>t, Finished DEF Crash
  <2> QED BY <1>12, <2>1, <2>2 DEF Crash
<1> QED BY <1>1, <1>2, <1>3, <1>4, <1>5, <1>6, <1>7, <1>8, <1>9, <1>10, <1>11, <1>12 DEF Acts

\* So do a build and a change of the world.
LEMMA WorldFrame ==
    ASSUME IInv, Change \/ \E a \in Artifacts : Build(a)
    PROVE  Noticed /\ \A q \in Procs : Bystander(q)
<1>1. CASE Change
  BY <1>1 DEF Change, Noticed, Bystander, locals
<1>2. ASSUME NEW a \in Artifacts, Build(a) PROVE Noticed /\ \A q \in Procs : Bystander(q)
  <2>1. Noticed /\ touched \subseteq touched'
    BY <1>2, WriteNoticed DEF Build
  <2> QED BY <1>2, <2>1 DEF Build, Bystander, locals
<1> QED BY <1>1, <1>2

\* All that is claimed of one command
Sound(p) ==
    /\ WorkOf(p)
    /\ pc[p] \in Verifying /\ p \notin touched => SoFar(p)
    /\ pc[p] = "verdict" /\ checks[p] = "pass" =>
         sig[p] \in signs /\ sig[p].manifest = man[p] /\ key[p] \in {None, sig[p].key}

\* The claims hold of all commands if they hold of each.
LEMMA SoundForAll == (Work /\ Untouched /\ PassedMeansSigned) <=> \A p \in Procs : Sound(p)
BY DEF Work, Untouched, PassedMeansSigned, Sound

\* What is true of a bystander stays true.
LEMMA BystanderKeeps ==
    ASSUME IInv, Noticed, NEW q \in Procs, Bystander(q)
    PROVE  Sound(q)'
<1>t. Sound(q)
  BY SoundForAll DEF IInv
<1>1. WorkOf(q)'
  BY <1>t DEF Sound, WorkOf, Bystander, Noticed, Listed
<1>2. ASSUME pc'[q] \in Verifying, q \notin touched' PROVE SoFar(q)'
  <2>1. UNCHANGED <<file, signs>> /\ SoFar(q)
    BY <1>2, <1>t DEF Bystander, Noticed, Sound
  <2> QED BY <2>1 DEF SoFar, Bystander, Exist, Readable, Compared, Same, Intact, PublicKey
<1>3. pc'[q] = "verdict" /\ checks'[q] = "pass" =>
        sig'[q] \in signs' /\ sig'[q].manifest = man'[q] /\ key'[q] \in {None, sig'[q].key}
  BY <1>t DEF Sound, Bystander, Noticed
<1> QED BY <1>1, <1>2, <1>3 DEF Sound

-----------------------------------------------------------------------------
(* The command that acts                                                   *)

\* A command that is not verifying has only its work to answer for.
LEMMA WorkIsEnough ==
    ASSUME NEW p \in Procs, pc'[p] \notin Verifying, WorkOf(p)'
    PROVE  Sound(p)'
BY DEF Sound, Verifying

\* What release evidence and release keygen do
LEMMA EvidenceSound ==
    ASSUME IInv, NEW p \in Procs,
           \/ GenerateStart(p) \/ GenerateWrite(p) \/ KeygenKilled(p) \/ KeygenPublic(p)
           \/ \E k \in Keys : KeygenPrivate(p, k)
    PROVE  Sound(p)'
<1>t. TypeOK /\ WorkOf(p)
  BY DEF IInv, Work
<1>1. CASE GenerateStart(p)
  <2>1. pc'[p] = "generate" /\ todo'[p] = GenerateOrder
    BY <1>1, <1>t DEF TypeOK, GenerateStart, Begin, Goto
  <2>2. WorkOf(p)' /\ pc'[p] \notin Verifying
    BY <2>1, Orders DEF WorkOf, Verifying, Signing, Reading
  <2> QED BY <2>2, WorkIsEnough
<1>2. CASE GenerateWrite(p)
  <2>1. CASE Finish(p)
    BY <2>1, <1>t, Finished, WorkIsEnough DEF Verifying
  <2>2. CASE ~Finish(p)
    <3>1. /\ pc'[p] = "generate" /\ todo'[p] = Tail(todo[p]) /\ Tail(todo[p]) # <<>>
          /\ todo[p] \in Seq(Docs \cup {"artifact.sig"}) /\ todo[p] # <<>>
      BY <1>2, <2>2, <1>t DEF TypeOK, GenerateWrite, WorkOf
    <3>2. Tail(todo[p]) \in Seq(Docs \cup {"artifact.sig"})
      BY <3>1, QueueFacts
    <3>3. WorkOf(p)' /\ pc'[p] \notin Verifying
      BY <3>1, <3>2 DEF WorkOf, Verifying, Signing, Reading
    <3> QED BY <3>3, WorkIsEnough
  <2> QED BY <2>1, <2>2
<1>3. CASE KeygenKilled(p)
  <2>1. Noticed /\ Bystander(p)
    BY <1>3 DEF KeygenKilled, Noticed, Bystander, locals
  <2> QED BY <2>1, BystanderKeeps
<1>4. CASE KeygenPublic(p)
  BY <1>4, <1>t, Finished, WorkIsEnough DEF KeygenPublic, Verifying
<1>5. ASSUME NEW k \in Keys, KeygenPrivate(p, k) PROVE Sound(p)'
  <2>1. pc'[p] = "keygen" /\ key'[p] = k
    BY <1>5, <1>t DEF TypeOK, KeygenPrivate, Begin, Goto
  <2>2. WorkOf(p)' /\ pc'[p] \notin Verifying
    BY <2>1 DEF WorkOf, Verifying, Signing, Reading
  <2> QED BY <2>2, WorkIsEnough
<1> QED BY <1>1, <1>2, <1>3, <1>4, <1>5

\* release sign lists every document before it signs.
LEMMA SignSound ==
    ASSUME IInv, NEW p \in Procs,
           \/ \E arts \in ArtifactLists : SignStart(p, arts)
           \/ SignPublic(p) \/ SignHash(p) \/ SignManifest(p) \/ SignSignature(p)
    PROVE  Sound(p)'
<1>t. TypeOK /\ WorkOf(p)
  BY DEF IInv, Work
<1>1. ASSUME NEW arts \in ArtifactLists, SignStart(p, arts) PROVE Sound(p)'
  <2>1. pc'[p] = "public" /\ key'[p] = private /\ private \in Keys /\ todo'[p] = DocOrder \o arts
    BY <1>1, <1>t DEF TypeOK, SignStart, Begin, Goto
  <2>2. WorkOf(p)' /\ pc'[p] \notin Verifying
    BY <2>1, SignQueue DEF WorkOf, Verifying, Signing, Reading
  <2> QED BY <2>2, WorkIsEnough
<1>2. CASE SignPublic(p)
  <2>1. /\ pc[p] = "public" /\ pc'[p] = "hash" /\ todo'[p] = todo[p] /\ key'[p] = key[p]
        /\ man'[p] = man[p]
    BY <1>2, <1>t DEF TypeOK, SignPublic, Goto
  <2>2. WorkOf(p)' /\ pc'[p] \notin Verifying
    BY <2>1, <1>t DEF WorkOf, Verifying, Signing, Reading, Listed
  <2> QED BY <2>2, WorkIsEnough
<1>3. CASE SignHash(p)
  <2>1. CASE Finish(p)
    BY <2>1, <1>t, Finished, WorkIsEnough DEF Verifying
  <2>2. CASE ~Finish(p)
    <3> DEFINE f == Head(todo[p])
    <3>1. /\ pc[p] = "hash" /\ todo[p] \in Seq(Data) /\ todo[p] # <<>> /\ key[p] \in Keys
          /\ \A d \in Docs : Listed(man[p], d) \/ \E j \in DOMAIN todo[p] : todo[p][j] = d
      BY <1>3, <1>t DEF SignHash, WorkOf, Signing
    <3>2. f \in Data /\ file[f] # None
      BY <1>3, <2>2, <3>1, QueueFacts DEF SignHash
    <3>3. man[p] \in Manifest /\ file[f] \in Contents \cup {Torn}
      BY <1>t, <3>2 DEF TypeOK
    <3>4. /\ Listed(WithEntry(man[p], f), f)
          /\ \A d : Listed(man[p], d) => Listed(WithEntry(man[p], f), d)
      BY <3>2, <3>3, EntryAdded
    <3>5. /\ man'[p] = WithEntry(man[p], f) /\ todo'[p] = Tail(todo[p]) /\ key'[p] = key[p]
          /\ pc'[p] = IF Tail(todo[p]) = <<>> THEN "manifest" ELSE "hash"
      BY <1>3, <2>2, <1>t DEF TypeOK, SignHash, Goto
    <3>6. /\ \A d \in Docs : Listed(man[p], d) => Listed(man'[p], d)
          /\ Listed(man'[p], f)
      BY <3>4, <3>5
    <3>7. /\ Tail(todo[p]) \in Seq(Data)
          /\ \A j \in DOMAIN todo[p] :
               todo[p][j] = f \/ \E k \in DOMAIN Tail(todo[p]) : Tail(todo[p])[k] = todo[p][j]
      BY <3>1, QueueFacts
    <3>8. \A d \in Docs : Listed(man'[p], d) \/ \E k \in DOMAIN Tail(todo[p]) : Tail(todo[p])[k] = d
      BY <3>1, <3>6, <3>7
    <3>9. Tail(todo[p]) = <<>> => \A d \in Docs : Listed(man'[p], d)
      BY <3>8
    <3>10. WorkOf(p)' /\ pc'[p] \notin Verifying
      <4> HIDE DEF f
      <4>1. /\ pc'[p] \in {"manifest", "hash"} /\ pc'[p] = "hash" => todo'[p] # <<>>
            /\ key'[p] \in Keys /\ todo'[p] \in Seq(Data)
        BY <3>1, <3>5, <3>7
      <4>2. pc'[p] = "manifest" => \A d \in Docs : Listed(man'[p], d)
        BY <3>5, <3>9
      <4>3. \A d \in Docs : Listed(man'[p], d) \/ \E k \in DOMAIN todo'[p] : todo'[p][k] = d
        BY <3>5, <3>8
      <4> QED BY <4>1, <4>2, <4>3, <3>5 DEF WorkOf, Listed, Verifying, Signing, Reading
    <3> QED BY <3>10, WorkIsEnough
  <2> QED BY <2>1, <2>2
<1>4. CASE SignManifest(p)
  <2>1. pc[p] = "manifest" /\ pc'[p] = "sign" /\ key'[p] = key[p] /\ man'[p] = man[p]
    BY <1>4, <1>t DEF TypeOK, SignManifest, Goto
  <2>2. WorkOf(p)' /\ pc'[p] \notin Verifying
    BY <2>1, <1>t DEF WorkOf, Verifying, Signing, Reading, Listed
  <2> QED BY <2>2, WorkIsEnough
<1>5. CASE SignSignature(p)
  BY <1>5, <1>t, Finished, WorkIsEnough DEF SignSignature, Verifying
<1> QED BY <1>1, <1>2, <1>3, <1>4, <1>5

\* No signature is one of the marks that stand for an absent or unreadable file.
LEMMA SignaturesAreReal ==
    ASSUME TypeOK, NEW s \in signs
    PROVE  /\ s \notin {None, Torn, Unsigned} /\ s.manifest \in Manifest
           /\ s.manifest \notin {None, Torn, Unsigned}
<1>1. s \in Signature
  BY DEF TypeOK
<1>2. s.manifest \in Manifest
  BY <1>1 DEF Signature
<1> QED BY <1>1, <1>2, ReleaseAssumption

\* The first two checks: the files exist, and the JSON ones can be read.
LEMMA FirstChecksSound ==
    ASSUME IInv, NEW p \in Procs,
           VerifyJson(p) \/ \E k \in Keys \cup {None} : VerifyStart(p, k)
    PROVE  Sound(p)'
<1>t. TypeOK /\ WorkOf(p) /\ Sound(p)
  BY SoundForAll DEF IInv, Work
<1>1. ASSUME NEW k, VerifyStart(p, k) PROVE Sound(p)'
  <2>1. /\ pc'[p] = "json" /\ checks[p] = "pass" /\ UNCHANGED file
        /\ checks'[p] = IF Exist THEN checks[p] ELSE "fail"
    BY <1>1, <1>t DEF TypeOK, VerifyStart, Checked, Goto, WorkOf, Exist
  <2>2. SoFar(p)'
    BY <2>1 DEF SoFar, Exist, Reading
  <2> QED BY <2>1, <2>2 DEF Sound, WorkOf, Signing, Reading
<1>2. CASE VerifyJson(p)
  <2>1. /\ pc[p] = "json" /\ pc'[p] = "signature" /\ UNCHANGED <<file, touched>>
        /\ checks'[p] = IF Readable THEN checks[p] ELSE "fail"
    BY <1>2, <1>t DEF TypeOK, VerifyJson, Checked, Goto, Readable
  <2>2. p \notin touched => (checks[p] = "pass" <=> Exist)
    BY <2>1, <1>t DEF Sound, SoFar, Verifying
  <2>3. p \notin touched' => SoFar(p)'
    BY <2>1, <2>2 DEF SoFar, Exist, Readable, Reading
  <2> QED BY <2>1, <2>3 DEF Sound, WorkOf, Signing, Reading
<1> QED BY <1>1, <1>2

\* The signature file is read: one that is no signature fails the verification, and no
\* directory with it is intact.
LEMMA SignatureSound ==
    ASSUME IInv, NEW p \in Procs, VerifySignature(p)
    PROVE  Sound(p)'
<1>t. TypeOK /\ WorkOf(p) /\ Sound(p) /\ Signed
  BY SoundForAll DEF IInv, Work
<1>u. pc[p] = "signature" /\ UNCHANGED <<file, signs, touched, key, man, todo>>
  BY DEF VerifySignature
<1>1. CASE file["artifact.sig"] \in {None, Torn, Unsigned}
  <2>1. pc'[p] = "verdict" /\ checks'[p] = "fail"
    BY <1>1, <1>t DEF TypeOK, VerifySignature, Checked, Goto
  <2>2. \A k : ~Intact(k)'
    BY <1>1, <1>u, <1>t, SignaturesAreReal DEF Intact
  <2>3. SoFar(p)'
    BY <2>1, <2>2 DEF SoFar, Reading
  <2> QED BY <2>1, <2>3 DEF Sound, WorkOf, Signing, Reading
<1>2. CASE file["artifact.sig"] \notin {None, Torn, Unsigned}
  <2>1. /\ pc'[p] = "read_manifest" /\ checks'[p] = checks[p]
        /\ sig'[p] = file["artifact.sig"] /\ file["artifact.sig"] \in signs
    BY <1>2, <1>t DEF TypeOK, VerifySignature, Goto, Signed
  <2>2. p \notin touched => (checks[p] = "pass" <=> Exist /\ Readable)
    BY <1>u, <1>t DEF Sound, SoFar, Verifying
  <2>3. p \notin touched' => SoFar(p)'
    BY <1>u, <2>1, <2>2 DEF SoFar, Exist, Readable, Reading
  <2> QED BY <1>u, <2>1, <2>3 DEF Sound, WorkOf, Signing, Reading
<1> QED BY <1>1, <1>2

\* The manifest is read and compared with the signed one.
LEMMA ManifestSound ==
    ASSUME IInv, NEW p \in Procs, VerifyManifest(p)
    PROVE  Sound(p)'
<1> DEFINE m == file["artifacts.json"]
           t == [i \in DOMAIN m.artifacts |-> m.artifacts[i].path]
<1>t. TypeOK /\ WorkOf(p) /\ Sound(p)
  BY SoundForAll DEF IInv, Work
<1>u. pc[p] = "read_manifest" /\ UNCHANGED <<file, signs, touched, key, sig>>
  BY DEF VerifyManifest
<1>s. sig[p] \in signs /\ sig[p].manifest \notin {None, Torn, Unsigned}
  BY <1>u, <1>t, SignaturesAreReal DEF WorkOf, Reading
<1>c. checks'[p] = IF m = sig[p].manifest THEN checks[p] ELSE "fail"
  BY <1>t DEF TypeOK, VerifyManifest, Checked
<1>f. p \notin touched =>
        (checks[p] = "pass" <=> Exist /\ Readable) /\ sig[p] = file["artifact.sig"]
  BY <1>u, <1>t DEF Sound, SoFar, Verifying, Reading
<1>1. CASE m \in {None, Torn}
  <2>1. pc'[p] = "verdict" /\ checks'[p] = "fail"
    BY <1>1, <1>t, <1>s, <1>c DEF TypeOK, VerifyManifest, Goto
  <2>2. \A k : ~Intact(k)'
    BY <1>1, <1>u, <1>t, SignaturesAreReal DEF Intact
  <2>3. SoFar(p)'
    BY <2>1, <2>2 DEF SoFar, Reading
  <2> QED BY <2>1, <2>3 DEF Sound, WorkOf, Signing, Reading
<1>2. CASE m \notin {None, Torn}
  <2>1. /\ m \in Manifest /\ Len(m.artifacts) \in Nat /\ Len(t) = Len(m.artifacts)
        /\ (t = <<>>) <=> (m.artifacts = <<>>)
    BY <1>2, <1>t, ManifestQueue DEF TypeOK
  <2>2. /\ pc'[p] = IF m.artifacts = <<>> THEN "verify_key" ELSE "compare"
        /\ man'[p] = m /\ todo'[p] = t
    BY <1>2, <1>t DEF TypeOK, VerifyManifest, Goto
  <2> HIDE DEF t
  <2>3. Len(man'[p].artifacts) - Len(todo'[p]) = 0
    BY <2>1, <2>2
  <2>4. Compared(p)'
    BY <2>3 DEF Compared
  <2>5. p \notin touched' => SoFar(p)'
    BY <1>u, <1>c, <1>f, <2>2, <2>4 DEF SoFar, Exist, Readable, Reading
  <2>6. WorkOf(p)'
    <3>1. pc'[p] = "compare" => todo'[p] # <<>> /\ Len(todo'[p]) <= Len(man'[p].artifacts)
      BY <2>1, <2>2
    <3>2. pc'[p] = "verify_key" => todo'[p] = <<>>
      BY <2>1, <2>2
    <3>3. pc'[p] \in {"compare", "verify_key"} /\ sig'[p] \in signs'
      BY <1>u, <1>s, <2>2
    <3> QED BY <3>1, <3>2, <3>3 DEF WorkOf, Signing
  <2> QED BY <2>2, <2>5, <2>6 DEF Sound
<1> QED BY <1>1, <1>2

\* The entries compared so far are a prefix of the manifest that grows by one.
LEMMA PrefixGrows ==
    ASSUME NEW a \in Nat, NEW b \in Nat, b # 0, b <= a
    PROVE  /\ a - b \in Nat /\ a - (b - 1) = (a - b) + 1
           /\ \A i : i \in 1..((a - b) + 1) <=> (i \in 1..(a - b) \/ i = (a - b) + 1)
<1>1. a - b \in Nat /\ a - (b - 1) = (a - b) + 1
  OBVIOUS
<1>2. ASSUME NEW n \in Nat
      PROVE  \A i : i \in 1..(n + 1) <=> (i \in 1..n \/ i = n + 1)
  OBVIOUS
<1> QED BY <1>1, <1>2

\* One file is compared with its entry.
LEMMA ArtifactSound ==
    ASSUME IInv, NEW p \in Procs, VerifyArtifact(p)
    PROVE  Sound(p)'
<1> DEFINE m == man[p].artifacts
           n == Len(m) - Len(todo[p])
<1>t. TypeOK /\ WorkOf(p) /\ Sound(p)
  BY SoundForAll DEF IInv, Work
<1>u. /\ pc[p] = "compare" /\ UNCHANGED <<file, signs, touched, key, sig, man>>
      /\ todo[p] \in Seq(Files) /\ todo[p] # <<>> /\ Len(todo[p]) <= Len(m) /\ sig[p] \in signs
  BY <1>t DEF TypeOK, VerifyArtifact, WorkOf, Reading
<1>m. m \in Seq(Entry) /\ Len(m) \in Nat
  <2>1. man[p] \in Manifest
    BY <1>t DEF TypeOK
  <2> QED BY <2>1, ManifestQueue
<1>q. /\ Tail(todo[p]) \in Seq(Files) /\ Len(todo[p]) \in Nat
      /\ Len(Tail(todo[p])) = Len(todo[p]) - 1
      /\ (Tail(todo[p]) = <<>>) <=> (Len(todo[p]) = 1)
  BY <1>u, QueueFacts
<1>1. /\ todo'[p] = Tail(todo[p]) /\ man'[p] = man[p]
      /\ pc'[p] = IF Tail(todo[p]) = <<>> THEN "verify_key" ELSE "compare"
      /\ checks'[p] = IF Same(m[n + 1].path, m[n + 1]) THEN checks[p] ELSE "fail"
  BY <1>t, <1>u DEF TypeOK, VerifyArtifact, Checked, Goto
<1>2. /\ Len(m) - Len(todo'[p]) = n + 1
      /\ \A i : i \in 1..(n + 1) <=> (i \in 1..n \/ i = n + 1)
  <2>1. Len(todo[p]) # 0
    BY <1>u, <1>q
  <2>2. Len(todo'[p]) = Len(todo[p]) - 1
    BY <1>q, <1>1
  <2>3. Len(m) - (Len(todo[p]) - 1) = n + 1
    BY <1>m, <1>q, <1>u, <2>1, PrefixGrows
  <2>4. \A i : i \in 1..(n + 1) <=> (i \in 1..n \/ i = n + 1)
    BY <1>m, <1>q, <1>u, <2>1, PrefixGrows
  <2> HIDE DEF n, m
  <2> QED BY <2>2, <2>3, <2>4
<1>3. Compared(p)' <=> Compared(p) /\ Same(m[n + 1].path, m[n + 1])
  <2>1. Compared(p)' <=> \A i \in 1..n + 1 : Same(m[i].path, m[i])
    BY <1>1, <1>2, <1>u DEF Compared, Same
  <2>2. Compared(p) <=> \A i \in 1..n : Same(m[i].path, m[i])
    BY DEF Compared
  <2> HIDE DEF n, m
  <2> QED BY <1>2, <2>1, <2>2
<1>4. p \notin touched' => SoFar(p)'
  <2>1. p \notin touched =>
          /\ sig[p] = file["artifact.sig"] /\ man[p] = file["artifacts.json"]
          /\ checks[p] = "pass" <=>
               Exist /\ Readable /\ man[p] = sig[p].manifest /\ Compared(p)
    BY <1>u, <1>t DEF Sound, SoFar, Verifying, Reading
  <2>2. (Exist' <=> Exist) /\ (Readable' <=> Readable) /\ sig'[p] = sig[p]
    BY <1>u DEF Exist, Readable
  <2>3. p \notin touched =>
          (checks'[p] = "pass" <=>
             Exist' /\ Readable' /\ man'[p] = sig'[p].manifest /\ Compared(p)')
    BY <1>1, <1>3, <2>1, <2>2
  <2> HIDE DEF n, m
  <2> QED BY <1>1, <1>u, <2>1, <2>2, <2>3 DEF SoFar, Reading
<1>5. WorkOf(p)'
  <2>1. pc'[p] = "compare" => todo'[p] # <<>> /\ Len(todo'[p]) <= Len(man'[p].artifacts)
    BY <1>1, <1>q, <1>u, <1>m
  <2>2. pc'[p] = "verify_key" => todo'[p] = <<>>
    BY <1>1
  <2>3. pc'[p] \in {"compare", "verify_key"} /\ sig'[p] \in signs'
    BY <1>1, <1>u
  <2> QED BY <2>1, <2>2, <2>3 DEF WorkOf, Signing
<1> QED BY <1>1, <1>4, <1>5 DEF Sound

\* The last check: with it, a verification passes exactly if the directory is intact.
LEMMA KeySound ==
    ASSUME IInv, NEW p \in Procs, VerifyKey(p)
    PROVE  Sound(p)'
<1>t. TypeOK /\ WorkOf(p) /\ Sound(p) /\ Signed
  BY SoundForAll DEF IInv, Work
<1>u. /\ pc[p] = "verify_key" /\ UNCHANGED <<file, signs, touched, key, sig, man, todo>>
      /\ todo[p] = <<>> /\ sig[p] \in signs /\ man[p] \in Manifest
  BY <1>t DEF TypeOK, VerifyKey, WorkOf, Reading
<1>1. pc'[p] = "verdict" /\ checks'[p] = IF Valid(p) THEN checks[p] ELSE "fail"
  BY <1>t DEF TypeOK, VerifyKey, Checked, Goto
<1>2. ASSUME p \notin touched PROVE checks'[p] = "pass" <=> Intact(PublicKey(p))
  <2>1. /\ sig[p] = file["artifact.sig"] /\ man[p] = file["artifacts.json"]
        /\ checks[p] = "pass" <=>
             Exist /\ Readable /\ man[p] = sig[p].manifest /\ Compared(p)
    BY <1>2, <1>u, <1>t DEF Sound, SoFar, Verifying, Reading
  <2>2. Compared(p) <=>
          \A i \in DOMAIN man[p].artifacts :
             file[man[p].artifacts[i].path] = man[p].artifacts[i].sha256
    <3>1. man[p].artifacts \in Seq(Entry) /\ Len(man[p].artifacts) \in Nat
      BY <1>u, ManifestQueue
    <3>2. DOMAIN man[p].artifacts = 1..Len(man[p].artifacts) - Len(todo[p])
      BY <1>u, <3>1
    <3> QED BY <3>2 DEF Compared, Same
  <2>3. ASSUME checks'[p] = "pass" PROVE Intact(PublicKey(p))
    <3>1. Valid(p) /\ Readable /\ man[p] = sig[p].manifest /\ Compared(p)
      BY <1>1, <2>1, <2>3
    <3>2. \A f \in JsonDocs : file[f] # Torn
      BY <3>1 DEF Readable
    <3> QED BY <1>u, <2>1, <2>2, <3>1, <3>2 DEF Intact, Valid
  <2>4. ASSUME Intact(PublicKey(p)) PROVE checks'[p] = "pass"
    <3>1. PICK s \in signs :
            /\ PublicKey(p) = s.key
            /\ file["artifact.sig"] = s /\ file["artifacts.json"] = s.manifest
            /\ \A i \in DOMAIN s.manifest.artifacts :
                  file[s.manifest.artifacts[i].path] = s.manifest.artifacts[i].sha256
            /\ \A f \in JsonDocs : file[f] # Torn
      BY <2>4 DEF Intact
    <3>2. s = sig[p] /\ s.manifest = man[p] /\ Valid(p)
      BY <2>1, <3>1 DEF Valid
    <3>3. Compared(p)
      BY <2>2, <3>1, <3>2
    <3>4. /\ file["artifact.sig"] \notin {None, Torn, Unsigned}
          /\ file["artifacts.json"] \notin {None, Torn, Unsigned}
      BY <1>t, <3>1, SignaturesAreReal
    <3>5. Readable
      BY <3>1, <3>4 DEF Readable
    <3>6. ASSUME NEW d \in Docs PROVE file[d] # None
      <4>1. PICK i \in DOMAIN s.manifest.artifacts : s.manifest.artifacts[i].path = d
        BY <1>t DEF Signed, Listed
      <4>2. s.manifest.artifacts[i] \in Entry
        <5>1. s.manifest.artifacts \in Seq(Entry)
          BY <1>u, <3>2, ManifestQueue
        <5> QED BY <5>1, <4>1
      <4>3. s.manifest.artifacts[i].sha256 \in Contents \cup {Torn}
        BY <4>2 DEF Entry
      <4>4. None \notin Contents \cup {Torn}
        BY ReleaseAssumption
      <4> QED BY <3>1, <4>1, <4>3, <4>4
    <3>7. Exist
      BY <3>4, <3>6 DEF Exist
    <3> QED BY <1>1, <2>1, <3>2, <3>3, <3>5, <3>7
  <2> QED BY <2>3, <2>4
<1>3. Intact(PublicKey(p))' <=> Intact(PublicKey(p))
  BY <1>u DEF Intact, PublicKey
<1>4. p \notin touched' => SoFar(p)'
  BY <1>1, <1>2, <1>3, <1>u DEF SoFar, Reading
<1>5. checks'[p] = "pass" =>
        sig'[p] \in signs' /\ sig'[p].manifest = man'[p] /\ key'[p] \in {None, sig'[p].key}
  BY <1>1, <1>u DEF Valid, PublicKey
<1> QED BY <1>1, <1>4, <1>5 DEF Sound, WorkOf, Signing, Reading

-----------------------------------------------------------------------------
(* The theorems                                                            *)

\* Whoever acts, the claims hold of every command afterwards.
LEMMA SoundStep == IInv /\ Next => \A q \in Procs : Sound(q)'
<1> SUFFICES ASSUME IInv, Next, NEW q \in Procs PROVE Sound(q)'
  OBVIOUS
<1>1. ASSUME NEW p \in Procs, Acts(p) PROVE Sound(q)'
  <2>1. CASE q # p
    BY <1>1, <2>1, ActsFrame, BystanderKeeps
  <2>2. ASSUME End(p) \/ Crash(p) PROVE Sound(p)'
    BY <2>2, Finished, WorkIsEnough DEF IInv, End, Crash, Verifying
  <2>3. CASE q = p
    BY <1>1, <2>2, <2>3, EvidenceSound, SignSound, FirstChecksSound, SignatureSound, ManifestSound,
       ArtifactSound, KeySound DEF Acts
  <2> QED BY <2>1, <2>3
<1>2. CASE Change \/ \E a \in Artifacts : Build(a)
  BY <1>2, WorldFrame, BystanderKeeps
<1> QED BY <1>1, <1>2 DEF Next, Acts

\* Only release sign makes signatures, and it signs complete manifests.
LEMMA SignedStep == IInv /\ Next => Signed'
<1> SUFFICES ASSUME IInv, Next PROVE Signed'
  OBVIOUS
<1>t. TypeOK /\ FileNames /\ Work /\ Signed /\ "artifact.sig" \in Files
  BY DEF IInv, Files
<1>1. ASSUME UNCHANGED signs,
             file'["artifact.sig"] \in {file["artifact.sig"], Torn, Unsigned}
      PROVE  Signed'
  BY <1>1, <1>t DEF Signed
<1>w. ASSUME NEW f \in Files, NEW c, Write(f, c),
             f # "artifact.sig" \/ c \in {Torn, Unsigned}
      PROVE  file'["artifact.sig"] \in {file["artifact.sig"], Torn, Unsigned}
  BY <1>w, <1>t, Written
<1>2. ASSUME NEW p \in Procs, SignSignature(p) PROVE Signed'
  <2> DEFINE s == [key |-> key[p], manifest |-> man[p]]
  <2>1. Write("artifact.sig", s) /\ signs' = signs \cup {s} /\ s.manifest = man[p]
    BY <1>2 DEF SignSignature
  <2>2. \A d \in Docs : Listed(man[p], d)
    BY <1>2, <1>t DEF Work, WorkOf, SignSignature
  <2> HIDE DEF s
  <2>3. file'["artifact.sig"] = s
    BY <1>t, <2>1, Written
  <2> QED BY <1>t, <2>1, <2>2, <2>3 DEF Signed
<1>3. ASSUME NEW p \in Procs, Acts(p), UNCHANGED <<file, signs>> PROVE Signed'
  BY <1>1, <1>3
<1>4. ASSUME NEW p \in Procs, GenerateWrite(p) PROVE Signed'
  <2>1. Head(todo[p]) \in Docs \cup {"artifact.sig"}
    BY <1>4, <1>t, QueueFacts DEF Work, WorkOf, GenerateWrite
  <2>2. Head(todo[p]) = "artifact.sig" => Evidence(p, Head(todo[p])) = Unsigned
    BY DEF Evidence
  <2>3. CASE Write(Head(todo[p]), Evidence(p, Head(todo[p])))
    BY <1>1, <1>4, <1>w, <2>1, <2>2, <2>3 DEF GenerateWrite, Files, Data
  <2> QED BY <1>1, <1>4, <2>3 DEF GenerateWrite
<1>5. ASSUME NEW p \in Procs, KeygenPublic(p) \/ SignPublic(p) \/ SignManifest(p) PROVE Signed'
  <2>1. UNCHANGED file \/ \E f \in {"key", "artifacts.json"} : \E c : Write(f, c)
    BY <1>5 DEF KeygenPublic, SignPublic, SignManifest, WritePublic
  <2>2. file'["artifact.sig"] \in {file["artifact.sig"], Torn, Unsigned}
    BY <1>w, <2>1 DEF Files
  <2> QED BY <1>1, <1>5, <2>2 DEF KeygenPublic, SignPublic, SignManifest
<1>6. ASSUME NEW p \in Procs, Crash(p) PROVE Signed'
  <2>1. CASE UNCHANGED file
    BY <1>1, <1>6, <2>1 DEF Crash
  <2>2. CASE Target(p) # None /\ Write(Target(p), Torn)
    BY <1>1, <1>6, <1>w, <1>t, <2>2, TargetFits DEF Crash
  <2> QED BY <1>6, <2>1, <2>2 DEF Crash
<1>7. ASSUME NEW a \in Artifacts, Build(a) PROVE Signed'
  <2>1. a \in Files /\ a # "artifact.sig"
    BY ReleaseAssumption DEF Files, Data
  <2> QED BY <1>1, <1>7, <1>w, <2>1 DEF Build
<1>8. CASE Change
  BY <1>1, <1>8 DEF Change
<1>9. ASSUME NEW p \in Procs, Acts(p)
      PROVE  \/ UNCHANGED <<file, signs>> \/ SignSignature(p) \/ GenerateWrite(p)
             \/ KeygenPublic(p) \/ SignPublic(p) \/ SignManifest(p) \/ Crash(p)
  BY <1>9 DEF Acts, GenerateStart, KeygenPrivate, KeygenKilled, SignStart, SignHash, VerifyStart,
     VerifyJson, VerifySignature, VerifyManifest, VerifyArtifact, VerifyKey, End
<1> QED BY <1>2, <1>3, <1>4, <1>5, <1>6, <1>7, <1>8, <1>9 DEF Next, Acts

\* The inductive invariant holds in every state, whatever overlaps or is killed.
THEOREM ReleaseInvariance == Spec => []IInv
<1>1. Init => IInv
  <2> SUFFICES ASSUME Init PROVE IInv
    OBVIOUS
  <2>1. 1 \in Contents /\ NoManifest \in Manifest /\ <<>> \in Seq(Files)
    BY ReleaseAssumption DEF Contents, NoManifest, Manifest
  <2>2. TypeOK /\ FileNames
    BY <2>1 DEF Init, TypeOK, FileNames, Files, Labels
  <2>3. Signed
    BY DEF Init, Signed, Files
  <2>4. \A p \in Procs : Sound(p)
    BY DEF Init, Sound, WorkOf, Signing, Reading, Verifying
  <2> QED BY <2>2, <2>3, <2>4, SoundForAll DEF IInv
<1>2. IInv /\ [Next]_vars => IInv'
  <2>1. CASE Next
    <3>1. ASSUME IInv PROVE Work' /\ Untouched' /\ PassedMeansSigned'
      BY <2>1, <3>1, SoundStep DEF Work, Untouched, PassedMeansSigned, Sound
    <3> QED BY <2>1, <3>1, TypeStep, SignedStep DEF IInv
  <2>2. ASSUME IInv, UNCHANGED vars PROVE IInv'
    <3>1. TypeOK' /\ FileNames' /\ Signed'
      BY <2>2 DEF IInv, vars, TypeOK, FileNames, Signed, Listed
    <3>2. Noticed /\ \A q \in Procs : Bystander(q)
      BY <2>2 DEF vars, Noticed, Bystander
    <3>3. \A q \in Procs : Sound(q)'
      BY <2>2, <3>2, BystanderKeeps
    <3>4. Work' /\ Untouched' /\ PassedMeansSigned'
      BY <3>3 DEF Work, Untouched, PassedMeansSigned, Sound
    <3> QED BY <3>1, <3>4 DEF IInv
  <2> QED BY <2>1, <2>2
<1> QED BY <1>1, <1>2, PTL DEF Spec

\* Every variable of the release model keeps its type: the files hold what belongs in them,
\* are torn or absent.
THEOREM ReleaseTypeCorrect == Spec => []TypeOK
<1>1. IInv => TypeOK
  BY DEF IInv
<1> QED BY <1>1, ReleaseInvariance, PTL

\* A verification that passes has read a manifest that release sign signed, as it is, with
\* the key it was given.
THEOREM PassedWasSigned == Spec => []PassedMeansSigned
<1>1. IInv => PassedMeansSigned
  BY DEF IInv
<1> QED BY <1>1, ReleaseInvariance, PTL

\* A verification during which nothing was written passes if, and only if, the directory
\* is as one signing left it.
THEOREM VerdictCorrect == Spec => []VerdictIsRight
<1>1. IInv => VerdictIsRight
  BY DEF IInv, Untouched, SoFar, VerdictIsRight, Verifying
<1> QED BY <1>1, ReleaseInvariance, PTL
===============================================================================
