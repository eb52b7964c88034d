------------------------------ MODULE Identity ------------------------------
(***************************************************************************)
(* The listener's certificate and key and the proxy token: what            *)
(* LoadOrCreateCert and LoadOrCreateToken do to the files of ~/.kubegate,  *)
(* one call of the operating system per step.  A step may be the last of   *)
(* its process, and two processes may be started on the same files.        *)
(*                                                                         *)
(* A file holds what process p generated (p itself), nothing usable (Torn: *)
(* os.WriteFile has truncated it and not written it) or is Absent.  Only   *)
(* the modes of the key and the token matter: loose, or 0600.              *)
(***************************************************************************)
EXTENDS Naturals

CONSTANT MaxStarts   \* bound on how many processes are ever started

ASSUME MaxStartsAssumption == MaxStarts \in Nat

Procs == 1..MaxStarts
Absent == 0
Torn == MaxStarts + 1
Contents == 0..(MaxStarts + 1)
Files == {"cert", "key", "token"}

VARIABLES file,      \* what each file holds
          loose,     \* which of the key and the token others may read
          at,        \* where each process is
          cert, key, token,   \* what each process has loaded
          raced,     \* history: two processes were at it, and one was writing
          upset      \* history: what gave the identity a cause to change (Causes)

idVars == <<file, loose, at, cert, key, token, raced, upset>>

Writing == {"openKey", "fillKey", "secureKey", "openCert", "fillCert",
            "openToken", "fillToken", "secureNewToken"}
Reading == {"readCert", "readKey", "tightenKey", "readToken", "tightenToken"}
Inside == Writing \union Reading \union {"announce"}

\* A certificate that is there was not read, a file of the pair was deleted, the
\* token was deleted, rotated or not read: since the last banner.
Causes == {"misread", "deleted", "token"}

Goto(p, place) == at' = [at EXCEPT ![p] = place]
Others(p, places) == \E q \in Procs \ {p} : at[q] \in places

\* How a process comes to run, having had the cluster's answers.
Enter(p) == /\ Goto(p, "readCert")
            /\ raced' = (raced \/ Others(p, Writing))

\* os.WriteFile opens with O_TRUNC.  The mode it is given is that of a new file.
Truncate(p, f) == /\ file' = [file EXCEPT ![f] = Torn]
                  /\ loose' = IF file[f] = Absent THEN loose \ {f} ELSE loose
                  /\ raced' = (raced \/ Others(p, Inside))

Fill(p, f) == /\ file' = [file EXCEPT ![f] = p]
              /\ UNCHANGED <<loose, raced>>

Secure(f) == /\ loose' = loose \ {f}
             /\ UNCHANGED <<file, raced>>

\* Mutant: the certificate is written before its key.
CertOrder_certFirst ==
    [generate |-> "openCert", openCert |-> "fillCert", fillCert |-> "openKey",
     openKey |-> "fillKey", fillKey |-> "secureKey", secureKey |-> "readToken"]

\* What follows what when a pair is generated.
CertOrder ==
    [generate |-> "openKey", openKey |-> "fillKey", fillKey |-> "secureKey",
     secureKey |-> "openCert", openCert |-> "fillCert", fillCert |-> "readToken"]

Memory == <<cert, key, token, upset>>

-----------------------------------------------------------------------------
(* LoadOrCreateCert.                                                       *)

ReadCert(p) ==
    /\ at[p] = "readCert"
    /\ cert' = [cert EXCEPT ![p] = file["cert"]]
    /\ Goto(p, IF file["cert"] = Absent THEN CertOrder["generate"] ELSE "readKey")
    /\ UNCHANGED <<file, loose, key, token, raced, upset>>

\* Any error of the read is taken for a first run.
MisreadCert(p) ==
    /\ at[p] = "readCert" /\ file["cert"] # Absent
    /\ Goto(p, CertOrder["generate"])
    /\ upset' = upset \union {"misread"}
    /\ UNCHANGED <<file, loose, cert, key, token, raced>>

ReadKey(p) ==
    /\ at[p] = "readKey" /\ file["key"] # Absent
    /\ key' = [key EXCEPT ![p] = file["key"]]
    /\ Goto(p, "tightenKey")
    /\ UNCHANGED <<file, loose, cert, token, raced, upset>>

\* The chmod of a persisted key, and tls.X509KeyPair.
TightenKey(p) ==
    /\ at[p] = "tightenKey" /\ file["key"] # Absent
    /\ Secure("key")
    /\ Goto(p, IF cert[p] = key[p] /\ key[p] # Torn THEN "readToken" ELSE "refused")
    /\ UNCHANGED Memory

\* A step of generating the pair.
Generate(p, place) == /\ at[p] = place
                         /\ Goto(p, CertOrder[place])
                         /\ UNCHANGED Memory

OpenKey(p) == Generate(p, "openKey") /\ Truncate(p, "key")
FillKey(p) == Generate(p, "fillKey") /\ Fill(p, "key")

\* Mutant: the mode given to os.WriteFile is relied upon.
SecureKey_not(p) == Generate(p, "secureKey") /\ UNCHANGED <<file, loose, raced>>

SecureKey(p) == Generate(p, "secureKey") /\ Secure("key")
OpenCert(p) == Generate(p, "openCert") /\ Truncate(p, "cert")

FillCert(p) == /\ at[p] = "fillCert"
               /\ Fill(p, "cert")
               /\ cert' = [cert EXCEPT ![p] = p]
               /\ key' = [key EXCEPT ![p] = p]
               /\ Goto(p, CertOrder["fillCert"])
               /\ UNCHANGED <<token, upset>>

-----------------------------------------------------------------------------
(* LoadOrCreateToken.                                                      *)

\* Mutant: every start makes a token of its own.
CreateToken_always(p) ==
    /\ at[p] = "readToken"
    /\ Goto(p, "openToken")
    /\ UNCHANGED <<file, loose, cert, key, token, raced, upset>>

CreateToken(p) ==
    /\ at[p] = "readToken" /\ file["token"] = Absent
    /\ Goto(p, "openToken")
    /\ UNCHANGED <<file, loose, cert, key, token, raced, upset>>

\* With --rotate-token the file is not read; and any error of the read is taken
\* for a first run.
ReplaceToken(p) ==
    /\ at[p] = "readToken" /\ file["token"] # Absent
    /\ Goto(p, "openToken")
    /\ upset' = upset \union {"token"}
    /\ UNCHANGED <<file, loose, cert, key, token, raced>>

\* Mutant: the length of a persisted token is not checked.
ReadToken_short(p) ==
    /\ at[p] = "readToken" /\ file["token"] # Absent
    /\ token' = [token EXCEPT ![p] = file["token"]]
    /\ Goto(p, "tightenToken")
    /\ UNCHANGED <<file, loose, cert, key, raced, upset>>

\* A token file that is too short is refused.
ReadToken(p) ==
    /\ at[p] = "readToken" /\ file["token"] # Absent
    /\ token' = [token EXCEPT ![p] = file["token"]]
    /\ Goto(p, IF file["token"] = Torn THEN "refused" ELSE "tightenToken")
    /\ UNCHANGED <<file, loose, cert, key, raced, upset>>

TightenToken(p) ==
    /\ at[p] = "tightenToken" /\ file["token"] # Absent
    /\ Secure("token")
    /\ Goto(p, "announce")
    /\ UNCHANGED Memory

OpenToken(p) == at[p] = "openToken" /\ Truncate(p, "token") /\ Goto(p, "fillToken")
                /\ UNCHANGED Memory
FillToken(p) == at[p] = "fillToken" /\ Fill(p, "token") /\ Goto(p, "secureNewToken")
                /\ UNCHANGED Memory

SecureNewToken(p) ==
    /\ at[p] = "secureNewToken"
    /\ Secure("token")
    /\ token' = [token EXCEPT ![p] = p]
    /\ Goto(p, "announce")
    /\ UNCHANGED <<cert, key, upset>>

IdentityStep(p) ==
    \/ ReadCert(p) \/ MisreadCert(p) \/ ReadKey(p) \/ TightenKey(p)
    \/ OpenKey(p) \/ FillKey(p) \/ SecureKey(p) \/ OpenCert(p) \/ FillCert(p)
    \/ CreateToken(p) \/ ReplaceToken(p) \/ ReadToken(p) \/ TightenToken(p)
    \/ OpenToken(p) \/ FillToken(p) \/ SecureNewToken(p)

-----------------------------------------------------------------------------
(* What else happens to the files, while no process is at work on them.    *)

Quiet == \A p \in Procs : at[p] \notin Inside

\* The owner deletes a file: "revoking it is deleting a file".
Delete(f) == /\ Quiet /\ file[f] # Absent
             /\ file' = [file EXCEPT ![f] = Absent]
             /\ loose' = loose \ {f}
             /\ upset' = upset \union {IF f = "token" THEN "token" ELSE "deleted"}
             /\ UNCHANGED <<at, cert, key, token, raced>>

\* A backup, an editor or an umask makes a file readable.
Loosen(f) == /\ Quiet /\ file[f] # Absent /\ f # "cert" /\ f \notin loose
             /\ loose' = loose \union {f}
             /\ UNCHANGED <<file, at, cert, key, token, raced, upset>>
=============================================================================
