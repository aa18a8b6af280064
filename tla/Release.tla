------------------------------- MODULE Release -------------------------------
(***************************************************************************)
(* Release evidence (release.rs): release evidence writes its documents,   *)
(* release sign hashes and signs them with the artifacts, release verify   *)
(* reads everything back.  Each is a long row of plain file reads and      *)
(* writes, without a lock, that may overlap the others or be killed.       *)
(*                                                                         *)
(* The content of a document or artifact is the state of the world it was  *)
(* made from, its hash is the content, a signature is the pair of what     *)
(* was signed and the key.  A write that is killed leaves the file Torn:   *)
(* created or truncated, and no valid JSON.  Nothing deletes a file.  The  *)
(* two loops of release verify over file names are one step each.          *)
(***************************************************************************)
EXTENDS Integers, Sequences

CONSTANTS
    Procs,          \* command executions that may overlap
    Keys,           \* Ed25519 key pairs
    Artifacts,      \* the files given as --artifact
    Early, Late,    \* the documents written before and after artifact.sig, in order
    DocOrder,       \* all of them, in the order of the manifest
    Copies,         \* the ones copied from the project: openapi.json, hbse.proto
    Plain,          \* the one that is not JSON: hbse.proto
    MaxArtifacts,   \* a bound on the number of --artifact
    MaxWorld,       \* a bound on changes of the world
    MaxRuns,        \* a bound on commands that write
    MaxCrashes,     \* a bound on commands killed
    Unsigned,       \* artifact.sig as release evidence writes it
    Torn, None

Range(s) == {s[i] : i \in DOMAIN s}
Docs     == Range(Early) \cup Range(Late)
JsonDocs == Docs \ {Plain}
Contents == 1..MaxWorld + 1

\* The order in which release evidence writes
GenerateOrder == Early \o <<"artifact.sig">> \o Late

Data      == Docs \cup Artifacts
Files     == Data \cup {"artifact.sig", "artifacts.json", "key"}

\* The lists of --artifact, which may repeat one
ArtifactLists == UNION {[1..n -> Artifacts] : n \in 0..MaxArtifacts}

VARIABLES
    file,           \* the files, None if absent
    private,        \* the private key file
    world,          \* the sources and the time
    pc,             \* per command: its next step
    stamp,          \* the world as release evidence found it
    todo,           \* the files it has still to write, hash or compare
    key,            \* the key it signs or verifies with
    man,            \* the manifest it is making, or has read
    sig,            \* verify: the signature file as read
    checks,         \* verify: "fail" after a check has failed, else "pass"
    runs, crashes,  \* counters for the bounds
    signs,          \* history: the signatures made
    touched         \* history: verifications beside which a file was written

counters == <<runs, crashes>>
locals == <<pc, stamp, todo, key, man, sig, checks>>
vars   == <<file, private, world, pc, stamp, todo, key, man, sig, checks, runs,
            crashes, signs, touched>>

Entry           == [path: Data, sha256: Contents \cup {Torn}]
\* created_at is to the millisecond: no two manifests have the same.
Manifest        == [key: Keys \cup {None}, created_at: 0..MaxRuns, artifacts: Seq(Entry)]
Signature       == [key: Keys, manifest: Manifest]
NoManifest      == [key |-> None, created_at |-> 0, artifacts |-> <<>>]

ASSUME ReleaseAssumption ==
    /\ Early \in Seq(STRING) /\ Late \in Seq(STRING)
    /\ DocOrder \in Seq(STRING) /\ Range(DocOrder) = Docs /\ DocOrder # <<>>
    /\ MaxArtifacts \in Nat /\ MaxWorld \in Nat /\ MaxRuns \in Nat /\ MaxCrashes \in Nat
    /\ Data \cap {"artifact.sig", "artifacts.json", "key"} = {}
    /\ None \notin Files /\ None \notin Keys \cup Contents \cup {Torn, Unsigned}
    /\ {Torn, Unsigned} \cap (Keys \cup Contents) = {}
    /\ \A x \in {Torn, Unsigned, None} : x \notin Manifest /\ x \notin Signature

Labels == {"idle", "generate", "keygen", "public", "hash", "manifest", "sign",
           "json", "signature", "read_manifest", "compare", "verify_key", "verdict"}
Verifying == {"json", "signature", "read_manifest", "compare", "verify_key", "verdict"}

TypeOK ==
    /\ \A f \in Data : file[f] \in Contents \cup {Torn, None}
    /\ file["key"] \in Keys \cup {Torn, None}
    /\ file["artifacts.json"] \in Manifest \cup {Torn, None}
    /\ file["artifact.sig"] \in Signature \cup {Torn, None, Unsigned}
    /\ private \in Keys \cup {Torn, None}
    /\ world \in Contents
    /\ pc \in [Procs -> Labels]
    /\ stamp \in [Procs -> Contents]
    /\ todo \in [Procs -> Seq(Files)]
    /\ key \in [Procs -> Keys \cup {None}]
    /\ man \in [Procs -> Manifest]
    /\ sig \in [Procs -> Signature \cup {None}]
    /\ checks \in [Procs -> {"pass", "fail"}]
    /\ runs \in Nat /\ crashes \in Nat
    /\ signs \subseteq Signature
    /\ touched \subseteq Procs

Init ==
    /\ file = [f \in Files |-> None]
    /\ private = None /\ world = 1
    /\ pc = [p \in Procs |-> "idle"] /\ stamp = [p \in Procs |-> 1] /\ todo = [p \in Procs |-> <<>>]
    /\ key = [p \in Procs |-> None] /\ man = [p \in Procs |-> NoManifest]
    /\ sig = [p \in Procs |-> None] /\ checks = [p \in Procs |-> "pass"]
    /\ runs = 0 /\ crashes = 0
    /\ signs = {} /\ touched = {}

Goto(p, l) == pc' = [pc EXCEPT ![p] = l]

\* A file is written, under the eyes of the verifications in progress.
Write(f, content) ==
    /\ file' = [file EXCEPT ![f] = content]
    /\ touched' = touched \cup {q \in Procs : pc[q] \in Verifying}

Finish(p) ==
    /\ Goto(p, "idle")
    /\ stamp' = [stamp EXCEPT ![p] = 1] /\ todo' = [todo EXCEPT ![p] = <<>>]
    /\ key' = [key EXCEPT ![p] = None]
    /\ man' = [man EXCEPT ![p] = NoManifest]
    /\ sig' = [sig EXCEPT ![p] = None]
    /\ checks' = [checks EXCEPT ![p] = "pass"]

\* A command that writes begins.
Begin(p, l) ==
    /\ pc[p] = "idle" /\ Goto(p, l)
    /\ runs < MaxRuns /\ runs' = runs + 1
    /\ UNCHANGED crashes

-----------------------------------------------------------------------------
(* generate_release_evidence and generate_signing_keypair                  *)

GenerateStart(p) ==
    /\ Begin(p, "generate")
    /\ stamp' = [stamp EXCEPT ![p] = world] /\ todo' = [todo EXCEPT ![p] = GenerateOrder]
    /\ UNCHANGED <<file, private, world, key, man, sig, checks, signs, touched>>

\* What release evidence writes into f
Evidence(p, f) ==
    IF f = "artifact.sig" THEN Unsigned ELSE IF f \in Copies THEN world ELSE stamp[p]

\* write_openapi_evidence copies nothing onto itself: the document stays as it is if the
\* release directory is the release/ of the project that it is to be copied from.
InPlace(f) == f \in Copies \ {Plain} /\ file[f] # None

GenerateWrite(p) ==
    /\ pc[p] = "generate"
    /\ LET f == Head(todo[p]) IN
       \/ Write(f, Evidence(p, f))
       \/ InPlace(f) /\ UNCHANGED <<file, touched>>
    /\ IF Tail(todo[p]) = <<>> THEN Finish(p)
       ELSE todo' = [todo EXCEPT ![p] = Tail(@)] /\ UNCHANGED <<pc, stamp, key, man, sig, checks>>
    /\ UNCHANGED <<counters, private, world, signs>>

\* The private key file first, then the public one
KeygenPrivate(p, k) ==
    /\ Begin(p, "keygen")
    /\ private' = k
    /\ key' = [key EXCEPT ![p] = k]
    /\ UNCHANGED <<file, world, stamp, todo, man, sig, checks, signs, touched>>

\* It is killed while it writes the private key file.
KeygenKilled(p) ==
    /\ pc[p] = "idle" /\ private' = Torn
    /\ crashes < MaxCrashes /\ crashes' = crashes + 1
    /\ UNCHANGED <<file, world, locals, runs, signs, touched>>

\* The public key goes to signing_public_key.pem in the release directory, or elsewhere.
WritePublic(p) ==
    \/ Write("key", key[p])
    \/ UNCHANGED <<file, touched>>

KeygenPublic(p) ==
    /\ pc[p] = "keygen"
    /\ WritePublic(p) /\ Finish(p)
    /\ UNCHANGED <<counters, private, world, signs>>

-----------------------------------------------------------------------------
(* sign_release_artifacts                                                  *)

SignStart(p, arts) ==
    /\ private \in Keys /\ Begin(p, "public")
    /\ key' = [key EXCEPT ![p] = private]
    /\ man' = [man EXCEPT ![p].key = private, ![p].created_at = runs + 1]
    /\ todo' = [todo EXCEPT ![p] = DocOrder \o arts]
    /\ UNCHANGED <<file, private, world, stamp, sig, checks, signs, touched>>

SignPublic(p) ==
    /\ pc[p] = "public" /\ Goto(p, "hash")
    /\ WritePublic(p)
    /\ UNCHANGED <<counters, private, world, stamp, todo, key, man, sig, checks, signs>>

\* The manifest lists the file f.
Listed(m, f) == \E i \in DOMAIN m.artifacts : m.artifacts[i].path = f

\* artifact_entry, once for every file
WithEntry(m, f) ==
    IF Listed(m, f) THEN m
    ELSE [m EXCEPT !.artifacts = Append(@, [path |-> f, sha256 |-> file[f]])]

\* Mutation: a missing file is listed all the same.
SignHashMissing(p) ==
    /\ pc[p] = "hash"
    /\ LET f == Head(todo[p]) IN
       /\ man' = [man EXCEPT ![p] = WithEntry(@, f)]
       /\ todo' = [todo EXCEPT ![p] = Tail(@)]
       /\ Goto(p, IF Tail(todo[p]) = <<>> THEN "manifest" ELSE "hash")
    /\ UNCHANGED <<counters, file, private, world, stamp, key, sig, checks, signs, touched>>

\* artifact_manifest hashes one file after the other; a missing one is an error.
SignHash(p) ==
    /\ pc[p] = "hash"
    /\ LET f == Head(todo[p]) IN
       IF file[f] = None THEN Finish(p)
       ELSE /\ man' = [man EXCEPT ![p] = WithEntry(@, f)]
            /\ todo' = [todo EXCEPT ![p] = Tail(@)]
            /\ Goto(p, IF Tail(todo[p]) = <<>> THEN "manifest" ELSE "hash")
            /\ UNCHANGED <<stamp, key, sig, checks>>
    /\ UNCHANGED <<counters, file, private, world, signs, touched>>

\* The source_digest of the manifest, read from provenance.json once more, is compared
\* with nothing and left out.
SignManifest(p) ==
    /\ pc[p] = "manifest" /\ Goto(p, "sign")
    /\ Write("artifacts.json", man[p])
    /\ UNCHANGED <<counters, private, world, stamp, todo, key, man, sig, checks, signs>>

SignSignature(p) ==
    /\ pc[p] = "sign" /\ Finish(p)
    /\ LET s == [key |-> key[p], manifest |-> man[p]] IN
       /\ Write("artifact.sig", s)
       /\ signs' = signs \cup {s}
    /\ UNCHANGED <<counters, private, world>>

-----------------------------------------------------------------------------
(* verify_release_evidence                                                 *)

\* A check at label l, which may end the verification.
Checked(p, ok) == checks' = [checks EXCEPT ![p] = IF ok THEN @ ELSE "fail"]

\* The files exist.  A missing artifacts.json is only a warning.  Verifications only
\* read: one at a time is enough.
VerifyStart(p, k) ==
    /\ pc[p] = "idle" /\ Goto(p, "json")
    /\ \A q \in Procs : pc[q] \notin Verifying
    /\ Checked(p, \A f \in Docs \cup {"artifact.sig"} : file[f] # None)
    /\ key' = [key EXCEPT ![p] = k]
    /\ UNCHANGED <<counters, file, private, world, stamp, todo, man, sig, signs, touched>>

\* The ones that exist are JSON.
VerifyJson(p) ==
    /\ pc[p] = "json" /\ Goto(p, "signature")
    /\ Checked(p, \A f \in JsonDocs \cup {"artifact.sig", "artifacts.json"} : file[f] # Torn)
    /\ UNCHANGED <<counters, file, private, world, stamp, todo, key, man, sig, signs, touched>>

\* read_signature.  What release evidence writes lacks fields of ReleaseSignature, so
\* it does not parse, and the arm for its mode is never reached; an absent file has
\* failed already.
VerifySignature(p) ==
    /\ pc[p] = "signature"
    /\ IF file["artifact.sig"] \in {None, Torn, Unsigned}
       THEN Goto(p, "verdict") /\ Checked(p, FALSE) /\ UNCHANGED sig
       ELSE /\ Goto(p, "read_manifest")
            /\ sig' = [sig EXCEPT ![p] = file["artifact.sig"]]
            /\ UNCHANGED checks
    /\ UNCHANGED <<counters, file, private, world, stamp, todo, key, man, signs, touched>>

\* verify_ed25519_signature: the manifest exists, has the hash of the signature, parses.
VerifyManifest(p) ==
    /\ pc[p] = "read_manifest"
    /\ LET m == file["artifacts.json"] IN
       /\ Checked(p, m = sig[p].manifest)
       /\ IF m \in {None, Torn} THEN Goto(p, "verdict") /\ UNCHANGED <<man, todo>>
          ELSE /\ Goto(p, IF m.artifacts = <<>> THEN "verify_key" ELSE "compare")
               /\ man' = [man EXCEPT ![p] = m]
               /\ todo' = [todo EXCEPT ![p] = [i \in DOMAIN m.artifacts |-> m.artifacts[i].path]]
    /\ UNCHANGED <<counters, file, private, world, stamp, key, sig, signs, touched>>

\* Mutation: files that are no longer there are skipped, and so are unreadable ones.
SameLenient(f, entry) == file[f] \in {None, Torn, entry.sha256}

\* The file has the hash and the size of its entry.
Same(f, entry) == file[f] = entry.sha256

\* verify_manifest_artifact_hashes, one file
VerifyArtifact(p) ==
    /\ pc[p] = "compare"
    /\ LET m == man[p].artifacts
           i == Len(m) - Len(todo[p]) + 1
       IN Checked(p, Same(m[i].path, m[i]))
    /\ todo' = [todo EXCEPT ![p] = Tail(@)]
    /\ Goto(p, IF Tail(todo[p]) = <<>> THEN "verify_key" ELSE "compare")
    /\ UNCHANGED <<counters, file, private, world, stamp, key, man, sig, signs, touched>>

\* Mutation: a key in the release directory is preferred to the one given.
PublicKeyLocal(p) == IF file["key"] = None THEN key[p] ELSE file["key"]

\* The key of --public-key, or that of the release directory
PublicKey(p) == IF key[p] = None THEN file["key"] ELSE key[p]

\* The key is the one of the signature, and verifies the manifest as it was read.
Valid(p) == PublicKey(p) = sig[p].key /\ man[p] = sig[p].manifest

VerifyKey(p) ==
    /\ pc[p] = "verify_key" /\ Goto(p, "verdict")
    /\ Checked(p, Valid(p))
    /\ UNCHANGED <<counters, file, private, world, stamp, todo, key, man, sig, signs, touched>>

\* The report is printed.
End(p) ==
    /\ pc[p] = "verdict" /\ Finish(p)
    /\ touched' = touched \ {p}
    /\ UNCHANGED <<counters, file, private, world, signs>>

-----------------------------------------------------------------------------
(* Everything else                                                         *)

\* An artifact is built anew.
Build(a) ==
    /\ Write(a, world)
    /\ UNCHANGED <<counters, private, world, locals, signs>>

\* The sources change, and time passes.
Change ==
    /\ world <= MaxWorld
    /\ world' = world + 1
    /\ UNCHANGED <<counters, file, private, locals, signs, touched>>

\* The file the command is about to write
Target(p) ==
    CASE pc[p] = "generate" -> Head(todo[p])
      [] pc[p] \in {"keygen", "public"} -> "key"
      [] pc[p] = "manifest" -> "artifacts.json"
      [] pc[p] = "sign" -> "artifact.sig"
      [] OTHER -> None

\* A command is killed, between two files or while it writes one.
Crash(p) ==
    /\ pc[p] # "idle" /\ Finish(p)
    /\ crashes < MaxCrashes /\ crashes' = crashes + 1
    /\ UNCHANGED <<private, world, runs, signs>>
    /\ \/ UNCHANGED file /\ touched' = touched \ {p}
       \/ Target(p) # None /\ Write(Target(p), Torn)

Next ==
    \/ \E p \in Procs :
          \/ GenerateStart(p) \/ GenerateWrite(p)
          \/ \E k \in Keys : KeygenPrivate(p, k)
          \/ KeygenKilled(p) \/ KeygenPublic(p)
          \/ \E arts \in ArtifactLists : SignStart(p, arts)
          \/ SignPublic(p) \/ SignHash(p) \/ SignManifest(p) \/ SignSignature(p)
          \/ \E k \in Keys \cup {None} : VerifyStart(p, k)
          \/ VerifyJson(p) \/ VerifySignature(p) \/ VerifyManifest(p)
          \/ VerifyArtifact(p) \/ VerifyKey(p) \/ End(p)
          \/ Crash(p)
    \/ \E a \in Artifacts : Build(a)
    \/ Change

Spec == Init /\ [][Next]_vars

-----------------------------------------------------------------------------
(* Properties                                                              *)

\* Whatever evidence, signing and key generation do meanwhile or leave half done: a
\* verification that passes has read a manifest that was signed, as it is, with the
\* key it was given, or with the one it found if it was given none.
PassedMeansSigned ==
    \A p \in Procs :
       pc[p] = "verdict" /\ checks[p] = "pass" =>
          sig[p] \in signs /\ sig[p].manifest = man[p] /\ key[p] \in {None, sig[p].key}

\* The release directory is as it was signed with k, and its documents are readable.
Intact(k) ==
    \E s \in signs :
       /\ k = s.key
       /\ file["artifact.sig"] = s /\ file["artifacts.json"] = s.manifest
       /\ \A i \in DOMAIN s.manifest.artifacts :
             file[s.manifest.artifacts[i].path] = s.manifest.artifacts[i].sha256
       /\ \A f \in JsonDocs : file[f] # Torn

\* A verification during which nothing was written passes if, and only if, the
\* directory is as one signing left it: not after evidence was generated anew, a
\* signing died between the manifest and the signature, or a key was replaced.
VerdictIsRight ==
    \A p \in Procs :
       pc[p] = "verdict" /\ p \notin touched => (checks[p] = "pass" <=> Intact(PublicKey(p)))
===============================================================================
