----------------------------- MODULE ServeProofs -----------------------------
(***************************************************************************)
(* Proofs about the life of kubegate's processes, for any number of        *)
(* starts on the same files, whichever of them crash, race or are          *)
(* signalled.                                                              *)
(***************************************************************************)
EXTENDS Serve, TLAPS

USE DEF idVars, walkVars, runVars, Memory, Goto

-----------------------------------------------------------------------------
(* Type correctness.                                                       *)

Places == Inside \union {"idle", "probe", "walkCore", "walkGroups", "walkEach", "bind",
                         "serving", "draining", "refused", "exited", "failed"}
Maps == UNION {[D -> BOOLEAN] : D \in SUBSET Resources}

DiskType == /\ file \in [Files -> Contents] /\ loose \subseteq {"key", "token"}
            /\ raced \in BOOLEAN /\ upset \subseteq Causes
            /\ announced \in [cert : Contents, token : Contents]
ProcType == /\ at \in [Procs -> Places]
            /\ cert \in [Procs -> Contents] /\ key \in [Procs -> Contents]
            /\ token \in [Procs -> Contents]
            /\ unread \in [Procs -> SUBSET Resources]
            /\ moved \subseteq Procs /\ signalled \subseteq Procs
            /\ active \in [Procs -> SUBSET Calls]
MapType == /\ namespaced \in {[r \in Resources |-> r = Pods \/ n] : n \in BOOLEAN}
           /\ scoper \in [Procs -> Maps]

Typed == DiskType /\ ProcType /\ MapType

LEMMA PlaceNames ==
  Places = {"openKey", "fillKey", "secureKey", "openCert", "fillCert", "openToken",
            "fillToken", "secureNewToken", "readCert", "readKey", "tightenKey",
            "readToken", "tightenToken", "announce", "idle", "probe", "walkCore",
            "walkGroups", "walkEach", "bind", "serving", "draining", "refused",
            "exited", "failed"}
  BY DEF Places, Inside, Writing, Reading

LEMMA ContentsHold ==
  /\ Procs \subseteq Contents
  /\ Absent \in Contents /\ Torn \in Contents /\ 0 \in Contents
  /\ Absent \notin Procs /\ Torn \notin Procs /\ Torn # Absent
  /\ \A c \in Contents : c # Absent /\ c # Torn => c \in Procs
  BY MaxStartsAssumption DEF Procs, Contents, Absent, Torn

LEMMA OrderPlaces ==
  /\ CertOrder["generate"] = "openKey" /\ CertOrder["openKey"] = "fillKey"
  /\ CertOrder["fillKey"] = "secureKey" /\ CertOrder["secureKey"] = "openCert"
  /\ CertOrder["openCert"] = "fillCert" /\ CertOrder["fillCert"] = "readToken"
  BY DEF CertOrder

LEMMA FlipType ==
  ASSUME namespaced \in {[r \in Resources |-> r = Pods \/ n] : n \in BOOLEAN}
  PROVE  [namespaced EXCEPT ![Widgets] = ~@]
           \in {[r \in Resources |-> r = Pods \/ n] : n \in BOOLEAN}
<1>1. PICK n \in BOOLEAN : namespaced = [r \in Resources |-> r = Pods \/ n]
  OBVIOUS
<1>2. Widgets # Pods
  BY DEF Widgets, Pods
<1>3. [namespaced EXCEPT ![Widgets] = ~@] = [r \in Resources |-> r = Pods \/ ~n]
  BY <1>1, <1>2 DEF Resources
<1> QED
  BY <1>3

LEMMA LearnedType ==
  ASSUME NEW m \in Maps, NEW r \in Resources, NEW doc PROVE Learned(m, r, doc) \in Maps
<1> DEFINE own == UNION {e.says : e \in {x \in doc : x.sub = ""}}
           D == DOMAIN m \union {r}
           learned == [k \in D |-> IF k = r THEN TRUE \in own ELSE m[k]]
<1>1. PICK E \in SUBSET Resources : m \in [E -> BOOLEAN]
  BY DEF Maps
<1>2. DOMAIN m = E /\ D \in SUBSET Resources
  BY <1>1
<1>3. Learned(m, r, doc) = IF own = {} THEN m ELSE learned
  BY DEF Learned
<1>4. ASSUME NEW k \in D PROVE (IF k = r THEN TRUE \in own ELSE m[k]) \in BOOLEAN
  <2> HIDE DEF own
  <2>1. CASE k = r
    BY <2>1
  <2>2. CASE k # r
    <3>1. k \in E
      BY <1>2, <1>4, <2>2
    <3> QED
      BY <1>1, <2>2, <3>1
  <2> QED
    BY <2>1, <2>2
<1>5. learned \in [D -> BOOLEAN]
  <2> HIDE DEF own, D
  <2> QED
    BY <1>4
<1> HIDE DEF own, D, learned
<1> QED
  BY <1>2, <1>3, <1>5 DEF Maps

LEMMA NoMapType == NoMap \in Maps
<1>1. NoMap \in [{} -> BOOLEAN]
  BY DEF NoMap
<1> QED
  BY <1>1 DEF Maps

LEMMA InitTyped == Init => Typed
<1> SUFFICES ASSUME Init PROVE Typed
  OBVIOUS
<1>1. DiskType
  BY ContentsHold DEF Init, DiskType, Nobody
<1>2. ProcType
  BY ContentsHold, PlaceNames DEF Init, ProcType
<1>3. MapType
  BY NoMapType DEF Init, MapType
<1> QED
  BY <1>1, <1>2, <1>3 DEF Typed

\* What a step does to the files leaves them files.
LEMMA FileTypes ==
  ASSUME DiskType, NEW p \in Procs, NEW f \in Files,
         Truncate(p, f) \/ Fill(p, f) \/ Secure(f)
  PROVE  /\ file' \in [Files -> Contents] /\ loose' \subseteq {"key", "token"}
         /\ raced' \in BOOLEAN
<1>1. CASE Truncate(p, f)
  <2>1. file' \in [Files -> Contents]
    BY <1>1, ContentsHold DEF Truncate, DiskType
  <2>2. loose' \subseteq {"key", "token"}
    BY <1>1 DEF Truncate, DiskType
  <2>3. raced' \in BOOLEAN
    BY <1>1 DEF Truncate, DiskType
  <2> QED
    BY <2>1, <2>2, <2>3
<1>2. CASE Fill(p, f)
  BY <1>2, ContentsHold DEF Fill, DiskType
<1>3. CASE Secure(f)
  BY <1>3 DEF Secure, DiskType
<1> QED
  BY <1>1, <1>2, <1>3

LEMMA IdentityTyped ==
  ASSUME Typed, NEW p \in Procs, LoadIdentity(p) PROVE Typed'
<1>1. MapType'
  BY DEF LoadIdentity, Typed, MapType
<1>2. DiskType'
  <2> USE DEF Typed, DiskType, Files
  <2>0. "key" \in Files /\ "cert" \in Files /\ "token" \in Files
    OBVIOUS
  <2>1. CASE ReadCert(p) \/ MisreadCert(p) \/ ReadKey(p)
    BY <2>1 DEF Causes, LoadIdentity, ReadCert, MisreadCert, ReadKey
  <2>2. CASE TightenKey(p) \/ TightenToken(p) \/ SecureKey(p) \/ SecureNewToken(p)
    BY <2>0, <2>2, FileTypes
    DEF LoadIdentity, TightenKey, TightenToken, SecureKey, SecureNewToken, Generate
  <2>3. CASE OpenKey(p) \/ OpenCert(p) \/ OpenToken(p)
    BY <2>0, <2>3, FileTypes DEF LoadIdentity, OpenKey, OpenCert, OpenToken, Generate
  <2>4. CASE FillKey(p) \/ FillCert(p) \/ FillToken(p)
    BY <2>0, <2>4, FileTypes DEF LoadIdentity, FillKey, FillCert, FillToken, Generate
  <2>5. CASE CreateToken(p) \/ ReplaceToken(p) \/ ReadToken(p)
    BY <2>5 DEF Causes, LoadIdentity, CreateToken, ReplaceToken, ReadToken
  <2> QED
    BY <2>1, <2>2, <2>3, <2>4, <2>5 DEF LoadIdentity, IdentityStep
<1>3. ProcType'
  <2> USE PlaceNames, ContentsHold, OrderPlaces DEF Typed, DiskType, ProcType, Files
  <2>1. CASE ReadCert(p) \/ MisreadCert(p) \/ ReadKey(p) \/ TightenKey(p)
    BY <2>1 DEF LoadIdentity, ReadCert, MisreadCert, ReadKey, TightenKey
  <2>2. CASE OpenKey(p) \/ FillKey(p) \/ SecureKey(p)
    BY <2>2 DEF LoadIdentity, OpenKey, FillKey, SecureKey, Generate
  <2>3. CASE OpenCert(p) \/ FillCert(p)
    BY <2>3 DEF LoadIdentity, OpenCert, FillCert, Generate
  <2>4. CASE CreateToken(p) \/ ReplaceToken(p) \/ ReadToken(p) \/ TightenToken(p)
    BY <2>4 DEF LoadIdentity, CreateToken, ReplaceToken, ReadToken, TightenToken
  <2>5. CASE OpenToken(p) \/ FillToken(p) \/ SecureNewToken(p)
    BY <2>5 DEF LoadIdentity, OpenToken, FillToken, SecureNewToken
  <2> QED
    BY <2>1, <2>2, <2>3, <2>4, <2>5 DEF LoadIdentity, IdentityStep
<1> QED
  BY <1>1, <1>2, <1>3 DEF Typed

LEMMA LifeTyped ==
  ASSUME Typed, NEW p \in Procs, Start(p) \/ (Step(p) /\ ~LoadIdentity(p)) \/ Stop(p)
  PROVE  Typed'
<1> USE PlaceNames, ContentsHold DEF Typed, ProcType
<1>leave. ASSUME NEW how \in {"exited", "failed"}, Leave(p, how) PROVE Typed'
  BY <1>leave, NoMapType DEF Leave, DiskType, MapType
<1>1. CASE Start(p) \/ Probe(p) \/ WalkEnds(p)
  BY <1>1 DEF Start, Probe, WalkEnds, Enter, DiskType, MapType
<1>2. ASSUME NEW r \in Resources, Collect(p, r) PROVE scoper' \in [Procs -> Maps]
  BY <1>2, LearnedType DEF Collect, MapType
<1>3. Pods \in Resources /\ Widgets \in Resources
  BY DEF Resources
<1>4. CASE WalkCore(p) \/ WalkGroups(p)
  <2>1. MapType'
    BY <1>4, <1>2, <1>3 DEF WalkCore, WalkGroups, Move, MapType
  <2>2. DiskType'
    BY <1>4 DEF WalkCore, WalkGroups, Move, DiskType
  <2>3. ProcType'
    BY <1>4, <1>3 DEF WalkCore, WalkGroups, Move
  <2> QED
    BY <2>1, <2>2, <2>3
<1>5. ASSUME NEW r \in Resources, WalkVersion(p, r) \/ SkipVersion(p, r) PROVE Typed'
  <2>1. MapType'
    BY <1>5, <1>2 DEF WalkVersion, SkipVersion, MapType
  <2>2. DiskType'
    BY <1>5 DEF WalkVersion, SkipVersion, DiskType
  <2>3. ProcType'
    BY <1>5 DEF WalkVersion, SkipVersion
  <2> QED
    BY <2>1, <2>2, <2>3
<1>6. CASE Announce(p)
  BY <1>6 DEF Announce, DiskType, MapType
<1>7. CASE Bind(p) \/ Shutdown(p)
  BY <1>7 DEF Bind, Shutdown, Move, DiskType, MapType
<1>8. CASE Drained(p) \/ GraceEnds(p) \/ Fails(p) \/ Stop(p)
  BY <1>8, <1>leave DEF Drained, GraceEnds, Fails, Stop
<1> QED
  BY <1>1, <1>4, <1>5, <1>6, <1>7, <1>8 DEF Step

LEMMA TypedStep == Typed /\ [Next]_vars => Typed'
<1> SUFFICES ASSUME Typed, [Next]_vars PROVE Typed'
  OBVIOUS
<1>1. CASE UNCHANGED vars
  BY <1>1 DEF vars, Typed, DiskType, ProcType, MapType
<1>2. ASSUME NEW p \in Procs, Start(p) \/ Step(p) \/ Stop(p) PROVE Typed'
  BY <1>2, IdentityTyped, LifeTyped
<1>3. ASSUME NEW p \in Procs, NEW c \in Calls, Accept(p, c) \/ Finish(p, c) PROVE Typed'
  <2>1. active' \in [Procs -> SUBSET Calls]
    BY <1>3 DEF Accept, Finish, Typed, ProcType
  <2> QED
    BY <1>3, <2>1 DEF Accept, Finish, Typed, DiskType, ProcType, MapType
<1>4. ASSUME NEW p \in Procs, Signal(p) PROVE Typed'
  BY <1>4 DEF Signal, Typed, DiskType, ProcType, MapType
<1>5. CASE Reinstall
  BY <1>5, FlipType DEF Reinstall, Live, Typed, DiskType, ProcType, MapType
<1>6. ASSUME NEW f \in Files, Delete(f) \/ Loosen(f), UNCHANGED <<walkVars, runVars>>
      PROVE  Typed'
  <2>1. DiskType'
    <3>1. CASE Delete(f)
      BY <1>6, <3>1, ContentsHold DEF Causes, Delete, Typed, DiskType
    <3>2. CASE Loosen(f)
      BY <1>6, <3>2 DEF Loosen, Files, Typed, DiskType
    <3> QED
      BY <1>6, <3>1, <3>2
  <2>2. ProcType' /\ MapType'
    BY <1>6 DEF Delete, Loosen, Typed, ProcType, MapType
  <2> QED
    BY <2>1, <2>2 DEF Typed
<1> QED
  BY <1>1, <1>2, <1>3, <1>4, <1>5, <1>6 DEF Next, Tamper

LEMMA TypedInvariant == Spec => []Typed
<1> QED
  BY InitTyped, TypedStep, PTL DEF Spec

\* Every value of every variable is of its kind.
THEOREM ServeTypes == Spec => []TypeOK
<1>1. Typed => TypeOK
  BY DEF Typed, DiskType, ProcType, MapType, TypeOK, Places, Maps
<1> QED
  BY <1>1, TypedInvariant, PTL

-----------------------------------------------------------------------------
(* What a process has in memory.                                           *)

HasToken == {"tightenToken", "announce", "bind", "serving", "draining"}
HasPair == HasToken \union {"readToken", "openToken", "fillToken", "secureNewToken"}

Loaded(p) == /\ at[p] \in {"readKey", "tightenKey"} => cert[p] # Absent
             /\ at[p] = "tightenKey" => key[p] # Absent
             /\ at[p] \in HasPair => cert[p] = key[p] /\ cert[p] \in Procs
             /\ at[p] \in HasToken => token[p] \in Procs

LEMMA InitLoaded == Init => \A p \in Procs : Loaded(p)
  BY DEF Init, Loaded, HasPair, HasToken

\* A step of one process changes nothing of another's.
OwnStep(p) == Start(p) \/ Step(p) \/ Stop(p)

LEMMA OthersStay ==
  ASSUME Typed, NEW p \in Procs, OwnStep(p), NEW q \in Procs, q # p
  PROVE  UNCHANGED <<at[q], cert[q], key[q], token[q]>>
<1> USE DEF Typed, ProcType
<1>1. CASE Start(p) \/ Probe(p) \/ WalkEnds(p)
  BY <1>1 DEF Start, Probe, WalkEnds, Enter
<1>2. CASE WalkCore(p) \/ WalkGroups(p) \/ Announce(p) \/ Bind(p) \/ Shutdown(p)
  BY <1>2 DEF WalkCore, WalkGroups, Announce, Bind, Shutdown, Move
<1>3. ASSUME NEW r \in Resources, WalkVersion(p, r) \/ SkipVersion(p, r)
      PROVE  UNCHANGED <<at[q], cert[q], key[q], token[q]>>
  BY <1>3 DEF WalkVersion, SkipVersion
<1>4. CASE Drained(p) \/ GraceEnds(p) \/ Fails(p) \/ Stop(p)
  BY <1>4 DEF Drained, GraceEnds, Fails, Stop, Leave
<1>5. CASE LoadIdentity(p)
  <2>1. CASE ReadCert(p) \/ MisreadCert(p) \/ ReadKey(p) \/ TightenKey(p)
    BY <2>1 DEF ReadCert, MisreadCert, ReadKey, TightenKey
  <2>2. CASE OpenKey(p) \/ FillKey(p) \/ SecureKey(p) \/ OpenCert(p) \/ FillCert(p)
    BY <2>2 DEF OpenKey, FillKey, SecureKey, OpenCert, FillCert, Generate
  <2>3. CASE CreateToken(p) \/ ReplaceToken(p) \/ ReadToken(p) \/ TightenToken(p)
    BY <2>3 DEF CreateToken, ReplaceToken, ReadToken, TightenToken
  <2>4. CASE OpenToken(p) \/ FillToken(p) \/ SecureNewToken(p)
    BY <2>4 DEF OpenToken, FillToken, SecureNewToken
  <2> QED
    BY <1>5, <2>1, <2>2, <2>3, <2>4 DEF LoadIdentity, IdentityStep
<1> QED
  BY <1>1, <1>2, <1>3, <1>4, <1>5 DEF OwnStep, Step

\* The other steps touch no process.
LEMMA NextIsStep ==
  ASSUME [Next]_vars
  PROVE  \/ \E p \in Procs : OwnStep(p)
         \/ /\ Tamper
            /\ UNCHANGED <<at, cert, key, token, raced, announced>>
         \/ UNCHANGED <<file, loose, at, cert, key, token, raced, upset, announced>>
<1>1. CASE UNCHANGED vars
  BY <1>1 DEF vars
<1>2. ASSUME NEW p \in Procs, Start(p) \/ Step(p) \/ Stop(p)
      PROVE  \E q \in Procs : OwnStep(q)
  BY <1>2 DEF OwnStep
<1>3. ASSUME NEW p \in Procs, Signal(p)
      PROVE  UNCHANGED <<file, loose, at, cert, key, token, raced, upset, announced>>
  BY <1>3 DEF Signal
<1>4. ASSUME NEW p \in Procs, NEW c \in Calls, Accept(p, c) \/ Finish(p, c)
      PROVE  UNCHANGED <<file, loose, at, cert, key, token, raced, upset, announced>>
  BY <1>4 DEF Accept, Finish
<1>5. CASE Reinstall
  BY <1>5 DEF Reinstall
<1>6. CASE Tamper
  BY <1>6 DEF Tamper, Delete, Loosen
<1> QED
  BY <1>1, <1>2, <1>3, <1>4, <1>5, <1>6 DEF Next

LEMMA LoadedOwn ==
  ASSUME Typed, NEW p \in Procs, Loaded(p), OwnStep(p) PROVE Loaded(p)'
<1> USE ContentsHold DEF Typed, ProcType, DiskType, Loaded, HasPair, HasToken, Files
<1>1. CASE Start(p) \/ Probe(p) \/ WalkEnds(p)
  BY <1>1 DEF Start, Probe, WalkEnds, Enter
<1>2. CASE WalkCore(p) \/ WalkGroups(p) \/ Announce(p) \/ Bind(p) \/ Shutdown(p)
  BY <1>2 DEF WalkCore, WalkGroups, Announce, Bind, Shutdown, Move
<1>3. ASSUME NEW r \in Resources, WalkVersion(p, r) \/ SkipVersion(p, r)
      PROVE  Loaded(p)'
  BY <1>3 DEF WalkVersion, SkipVersion
<1>4. CASE Drained(p) \/ GraceEnds(p) \/ Fails(p) \/ Stop(p)
  BY <1>4 DEF Drained, GraceEnds, Fails, Stop, Leave
<1>5. CASE LoadIdentity(p)
  <2>1. CASE ReadCert(p) \/ MisreadCert(p)
    BY <2>1, OrderPlaces DEF ReadCert, MisreadCert
  <2>2. CASE ReadKey(p) \/ TightenKey(p)
    BY <2>2 DEF ReadKey, TightenKey
  <2>3. CASE OpenKey(p) \/ FillKey(p) \/ SecureKey(p) \/ OpenCert(p)
    BY <2>3, OrderPlaces DEF OpenKey, FillKey, SecureKey, OpenCert, Generate
  <2>4. CASE FillCert(p)
    BY <2>4, OrderPlaces DEF FillCert
  <2>5. CASE CreateToken(p) \/ ReplaceToken(p)
    BY <2>5 DEF CreateToken, ReplaceToken
  <2>6. CASE ReadToken(p) \/ TightenToken(p)
    BY <2>6 DEF ReadToken, TightenToken
  <2>7. CASE OpenToken(p) \/ FillToken(p) \/ SecureNewToken(p)
    BY <2>7 DEF OpenToken, FillToken, SecureNewToken
  <2> QED
    BY <1>5, <2>1, <2>2, <2>3, <2>4, <2>5, <2>6, <2>7 DEF LoadIdentity, IdentityStep
<1> QED
  BY <1>1, <1>2, <1>3, <1>4, <1>5 DEF OwnStep, Step

AllLoaded == \A p \in Procs : Loaded(p)

LEMMA LoadedStep == Typed /\ AllLoaded /\ [Next]_vars => AllLoaded'
<1> SUFFICES ASSUME Typed, AllLoaded, [Next]_vars, NEW q \in Procs PROVE Loaded(q)'
  BY DEF AllLoaded
<1>1. ASSUME NEW p \in Procs, OwnStep(p) PROVE Loaded(q)'
  <2>1. CASE p = q
    BY <1>1, <2>1, LoadedOwn DEF AllLoaded
  <2>2. CASE p # q
    BY <1>1, <2>2, OthersStay DEF AllLoaded, Loaded
  <2> QED
    BY <2>1, <2>2
<1>2. CASE UNCHANGED <<at, cert, key, token>>
  BY <1>2 DEF AllLoaded, Loaded
<1> QED
  BY <1>1, <1>2, NextIsStep

LEMMA LoadedInvariant == Spec => []AllLoaded
<1>1. Init => AllLoaded
  BY InitLoaded DEF AllLoaded
<1> QED
  BY <1>1, LoadedStep, TypedInvariant, PTL DEF Spec

\* However a start before it ended, and whatever else is at the same files, a
\* process serves with a key that belongs to its certificate and a whole token.
THEOREM WholeIdentityHolds == Spec => []WholeIdentity
<1>1. AllLoaded => WholeIdentity
  BY DEF AllLoaded, Loaded, WholeIdentity, Running, HasPair, HasToken
<1> QED
  BY <1>1, LoadedInvariant, PTL

-----------------------------------------------------------------------------
(* The files agree with what is made of them.  Unless two processes have   *)
(* been at it and one was writing, the one that writes is alone, and what  *)
(* a process has read or written is still there when it is announced.      *)

Midway == {"fillKey", "secureKey", "openCert", "fillCert", "fillToken", "secureNewToken"}
Sole(p) == at[p] \in Midway => \A q \in Procs \ {p} : at[q] \notin Inside

Checked == {"readToken", "openToken", "fillToken", "secureNewToken", "tightenToken",
            "announce"}

Agrees(p) ==
    /\ at[p] \in Checked \union {"readKey", "tightenKey"} => file["cert"] = cert[p]
    /\ at[p] \in Checked \union {"tightenKey"} => file["key"] = key[p]
    /\ at[p] \in {"secureKey", "openCert", "fillCert"} => file["key"] = p
    /\ at[p] \in {"tightenToken", "announce"} => file["token"] = token[p]
    /\ at[p] = "secureNewToken" => file["token"] = p
    /\ at[p] = "fillCert" => file["cert"] = Torn
    /\ at[p] = "fillToken" => file["token"] = Torn
    /\ "misread" \notin upset /\ at[p] \in {"openKey", "fillKey", "secureKey", "openCert"}
       => file["cert"] = Absent
    /\ "token" \notin upset /\ at[p] = "openToken" => file["token"] = Absent

\* The identity in the last banner is the one on disk.
Pinned == announced # Nobody =>
    /\ upset \intersect {"misread", "deleted"} = {} =>
          file["cert"] = announced.cert /\ announced.cert \in Procs
    /\ "token" \notin upset => file["token"] = announced.token /\ announced.token \in Procs

Disk == ~raced => /\ \A p \in Procs : Sole(p) /\ Agrees(p)
                  /\ Pinned /\ CertLast

IInv == Typed /\ AllLoaded /\ Disk

LEMMA InitDisk == Init => Disk
  BY ContentsHold
  DEF Init, Disk, Sole, Agrees, Pinned, CertLast, Midway, Checked, Files

LEMMA PlacesApart ==
  /\ Midway \subseteq Inside /\ Checked \subseteq Inside
  /\ \A x \in {"readKey", "tightenKey", "openKey", "openToken"} : x \in Inside
  BY DEF Midway, Checked, Inside, Writing, Reading

\* A process that is not at the files has nothing to agree with.
LEMMA OutsideAgrees ==
  ASSUME NEW q \in Procs, at[q] \notin Inside PROVE Agrees(q) /\ Sole(q)
  BY PlacesApart DEF Agrees, Sole, Midway, Checked, Inside, Writing, Reading

\* A step that leaves the files alone, and does not come to the middle of a write,
\* leaves the agreement as it was but for the process itself.
LEMMA QuietStep ==
  ASSUME Typed, Disk, ~raced, NEW p \in Procs, OwnStep(p),
         UNCHANGED <<file, raced, announced>>, upset \subseteq upset',
         at'[p] \in Midway => at[p] \in Midway,
         at[p] \in Inside \/ at'[p] \notin Inside
           \/ \A q \in Procs \ {p} : at[q] \notin Writing,
         Agrees(p)'
  PROVE  Disk'
<1> USE DEF Disk
<1>1. ASSUME NEW q \in Procs PROVE Agrees(q)'
  <2>1. CASE q = p
    BY <2>1
  <2>2. CASE q # p
    BY <2>2, OthersStay DEF Agrees
  <2> QED
    BY <2>1, <2>2
<1>2. ASSUME NEW q \in Procs PROVE Sole(q)'
  <2> SUFFICES ASSUME at'[q] \in Midway, NEW r \in Procs, r # q
               PROVE  at'[r] \notin Inside
    BY DEF Sole
  <2>1. at[q] \in Midway
    BY OthersStay
  <2>2. at[r] \notin Inside
    BY <2>1 DEF Sole
  <2>3. CASE r # p
    BY <2>2, <2>3, OthersStay
  <2>4. CASE r = p
    BY <2>1, <2>2, <2>4 DEF Midway, Writing
  <2> QED
    BY <2>3, <2>4
<1>3. Pinned' /\ CertLast'
  BY DEF Pinned, CertLast
<1> QED
  BY <1>1, <1>2, <1>3

\* A step that writes is taken alone.
LEMMA WriteStep ==
  ASSUME Typed, NEW p \in Procs, OwnStep(p),
         \A q \in Procs \ {p} : at[q] \notin Inside,
         Agrees(p)', Pinned', CertLast'
  PROVE  Disk'
<1>1. \A q \in Procs \ {p} : at'[q] \notin Inside
  BY OthersStay
<1>2. Sole(p)'
  BY <1>1 DEF Sole
<1>3. ASSUME NEW q \in Procs \ {p} PROVE Agrees(q)' /\ Sole(q)'
  BY <1>1, <1>3, PlacesApart DEF Agrees, Sole, Midway, Checked, Inside, Writing, Reading
<1> QED
  BY <1>2, <1>3 DEF Disk

LEMMA IdentityDisk ==
  ASSUME Typed, AllLoaded, Disk, NEW p \in Procs, LoadIdentity(p), ~raced'
  PROVE  Disk'
<1> USE DEF Typed, ProcType, DiskType, Files
<1>own. OwnStep(p) /\ UNCHANGED announced
  BY DEF OwnStep, Step, LoadIdentity
<1>loaded. Loaded(p) /\ Loaded(p)'
  BY <1>own, LoadedOwn DEF AllLoaded
<1>raced. ~raced
  <2>1. raced' = raced \/ \E f \in Files : Truncate(p, f)
    BY DEF LoadIdentity, IdentityStep, ReadCert, MisreadCert, ReadKey, TightenKey,
           OpenKey, FillKey, SecureKey, OpenCert, FillCert, Generate, CreateToken,
           ReplaceToken, ReadToken, TightenToken, OpenToken, FillToken, SecureNewToken,
           Fill, Secure
  <2> QED
    BY <2>1 DEF Truncate
<1>disk. Sole(p) /\ Agrees(p) /\ Pinned /\ CertLast
  BY <1>raced DEF Disk
<1>inside. at[p] \in Midway => \A q \in Procs \ {p} : at[q] \notin Inside
  BY <1>disk DEF Sole
<1>1. CASE ReadCert(p) \/ MisreadCert(p)
  <2>1. Agrees(p)'
    BY <1>1, <1>disk, OrderPlaces DEF ReadCert, MisreadCert, Agrees, Checked, LoadIdentity
  <2> QED
    BY <1>1, <1>own, <1>raced, <2>1, QuietStep, OrderPlaces
    DEF ReadCert, MisreadCert, Midway, Inside, Reading
<1>2. CASE ReadKey(p) \/ TightenKey(p)
  <2>1. Agrees(p)'
    BY <1>2, <1>disk DEF ReadKey, TightenKey, Secure, Agrees, Checked
  <2> QED
    BY <1>2, <1>own, <1>raced, <2>1, QuietStep
    DEF ReadKey, TightenKey, Secure, Midway, Inside, Reading
<1>3. CASE OpenKey(p)
  <2>1. \A q \in Procs \ {p} : at[q] \notin Inside
    BY <1>3 DEF OpenKey, Truncate, Others
  <2>2. "misread" \notin upset => file["cert"] = Absent
    BY <1>3, <1>disk DEF OpenKey, Generate, Agrees
  <2>3. Agrees(p)'
    BY <1>3, <2>2, OrderPlaces DEF OpenKey, Generate, Truncate, Agrees, Checked
  <2>4. Pinned' /\ CertLast'
    BY <1>3, <1>own, <1>disk, <1>raced, <2>2, ContentsHold
    DEF OpenKey, Generate, Truncate, Pinned, CertLast
  <2> QED
    BY <1>own, <2>1, <2>3, <2>4, WriteStep
<1>4. CASE FillKey(p)
  <2>1. at[p] \in Midway
    BY <1>4 DEF FillKey, Generate, Midway
  <2>2. "misread" \notin upset => file["cert"] = Absent
    BY <1>4, <1>disk DEF FillKey, Generate, Agrees
  <2>3. Agrees(p)'
    BY <1>4, <2>2, OrderPlaces DEF FillKey, Generate, Fill, Agrees, Checked
  <2>4. Pinned' /\ CertLast'
    BY <1>4, <1>own, <1>disk, <1>raced, <2>2, ContentsHold
    DEF FillKey, Generate, Fill, Pinned, CertLast
  <2> QED
    BY <1>own, <1>inside, <2>1, <2>3, <2>4, WriteStep
<1>5. CASE SecureKey(p)
  <2>1. Agrees(p)'
    BY <1>5, <1>disk, OrderPlaces DEF SecureKey, Generate, Secure, Agrees, Checked
  <2> QED
    BY <1>5, <1>own, <1>raced, <2>1, QuietStep, OrderPlaces
    DEF SecureKey, Generate, Secure, Midway, Inside, Writing
<1>6. CASE OpenCert(p)
  <2>1. at[p] \in Midway
    BY <1>6 DEF OpenCert, Generate, Midway
  <2>2. file["key"] = p /\ ("misread" \notin upset => file["cert"] = Absent)
    BY <1>6, <1>disk DEF OpenCert, Generate, Agrees
  <2>3. Agrees(p)'
    BY <1>6, <2>2, OrderPlaces DEF OpenCert, Generate, Truncate, Agrees, Checked
  <2>4. Pinned' /\ CertLast'
    BY <1>6, <1>own, <1>disk, <1>raced, <2>2, ContentsHold
    DEF OpenCert, Generate, Truncate, Pinned, CertLast
  <2> QED
    BY <1>own, <1>inside, <2>1, <2>3, <2>4, WriteStep
<1>7. CASE FillCert(p)
  <2>1. at[p] \in Midway
    BY <1>7 DEF FillCert, Midway
  <2>2. file["key"] = p
    BY <1>7, <1>disk DEF FillCert, Agrees
  <2>3. Agrees(p)'
    BY <1>7, <2>2, OrderPlaces DEF FillCert, Fill, Agrees, Checked
  <2>4. Pinned'
    <3>1. file["cert"] = Torn
      BY <1>7, <1>disk DEF FillCert, Agrees
    <3> QED
      BY <1>7, <1>own, <1>disk, <1>raced, <3>1, ContentsHold DEF FillCert, Fill, Pinned
  <2>5. CertLast'
    BY <1>7, <2>2 DEF FillCert, Fill, CertLast
  <2> QED
    BY <1>own, <1>inside, <2>1, <2>3, <2>4, <2>5, WriteStep
<1>8. CASE CreateToken(p) \/ ReplaceToken(p)
  <2>1. Agrees(p)'
    BY <1>8, <1>disk, ContentsHold DEF CreateToken, ReplaceToken, Agrees, Checked
  <2> QED
    BY <1>8, <1>own, <1>raced, <2>1, QuietStep
    DEF CreateToken, ReplaceToken, Midway, Inside, Reading
<1>9. CASE ReadToken(p) \/ TightenToken(p)
  <2>1. Agrees(p)'
    BY <1>9, <1>disk DEF ReadToken, TightenToken, Secure, Agrees, Checked
  <2> QED
    BY <1>9, <1>own, <1>raced, <2>1, QuietStep
    DEF ReadToken, TightenToken, Secure, Midway, Inside, Reading
<1>10. CASE OpenToken(p)
  <2>1. \A q \in Procs \ {p} : at[q] \notin Inside
    BY <1>10 DEF OpenToken, Truncate, Others
  <2>2. "token" \notin upset => file["token"] = Absent
    BY <1>10, <1>disk DEF OpenToken, Agrees
  <2>3. Agrees(p)'
    BY <1>10, <1>disk, <2>2 DEF OpenToken, Truncate, Agrees, Checked
  <2>4. Pinned' /\ CertLast'
    BY <1>10, <1>own, <1>disk, <1>raced, <2>2, ContentsHold
    DEF OpenToken, Truncate, Pinned, CertLast
  <2> QED
    BY <1>own, <2>1, <2>3, <2>4, WriteStep
<1>11. CASE FillToken(p)
  <2>1. at[p] \in Midway
    BY <1>11 DEF FillToken, Midway
  <2>2. file["token"] = Torn
    BY <1>11, <1>disk DEF FillToken, Agrees
  <2>3. Agrees(p)'
    BY <1>11, <1>disk, <2>2 DEF FillToken, Fill, Agrees, Checked
  <2>4. Pinned' /\ CertLast'
    BY <1>11, <1>own, <1>disk, <1>raced, <2>2, ContentsHold
    DEF FillToken, Fill, Pinned, CertLast
  <2> QED
    BY <1>own, <1>inside, <2>1, <2>3, <2>4, WriteStep
<1>12. CASE SecureNewToken(p)
  <2>1. Agrees(p)'
    BY <1>12, <1>disk DEF SecureNewToken, Secure, Agrees, Checked
  <2> QED
    BY <1>12, <1>own, <1>raced, <2>1, QuietStep
    DEF SecureNewToken, Secure, Midway, Inside, Writing
<1> QED
  BY <1>1, <1>2, <1>3, <1>4, <1>5, <1>6, <1>7, <1>8, <1>9, <1>10, <1>11, <1>12
  DEF LoadIdentity, IdentityStep

\* The steps of the rest of a process's life leave the files alone.
LEMMA LifeDisk ==
  ASSUME Typed, AllLoaded, Disk, NEW p \in Procs, OwnStep(p), ~LoadIdentity(p), ~raced'
  PROVE  Disk'
<1> USE DEF Typed, ProcType, DiskType, Files
<1>raced. UNCHANGED file /\ (raced => raced')
  BY DEF OwnStep, Step, Start, Probe, Enter, WalkCore, WalkGroups, WalkVersion, SkipVersion,
         WalkEnds, Announce, Bind, Shutdown, Drained, GraceEnds, Fails, Stop, Leave, Move
<1>agrees. Agrees(p)
  BY <1>raced DEF Disk
<1>out. ASSUME at'[p] \notin Inside PROVE Agrees(p)' /\ at'[p] \notin Midway
  BY <1>out DEF Agrees, Checked, Midway, Inside, Writing, Reading
<1>1. CASE Start(p) \/ WalkCore(p) \/ WalkGroups(p) \/ Bind(p) \/ Shutdown(p)
  <2>1. at'[p] \notin Inside
    BY <1>1 DEF Start, WalkCore, WalkGroups, Bind, Shutdown, Move, Inside, Writing, Reading
  <2> QED
    BY <1>1, <1>raced, <1>out, <2>1, QuietStep
    DEF Start, WalkCore, WalkGroups, Bind, Shutdown, Move
<1>2. CASE Drained(p) \/ GraceEnds(p) \/ Fails(p) \/ Stop(p)
  <2>1. at'[p] \notin Inside
    BY <1>2 DEF Drained, GraceEnds, Fails, Stop, Leave, Inside, Writing, Reading
  <2> QED
    BY <1>2, <1>raced, <1>out, <2>1, QuietStep DEF Drained, GraceEnds, Fails, Stop, Leave
<1>3. ASSUME NEW r \in Resources, WalkVersion(p, r) \/ SkipVersion(p, r) PROVE Disk'
  <2>1. at[p] \notin Inside /\ UNCHANGED idVars /\ UNCHANGED announced
    BY <1>3 DEF WalkVersion, SkipVersion, Inside, Writing, Reading
  <2> QED
    BY <1>raced, <1>out, <2>1, QuietStep
<1>4. CASE Probe(p) /\ p \in Scoped
  <2>1. at'[p] \notin Inside
    BY <1>4 DEF Probe, Inside, Writing, Reading, Enter
  <2> QED
    BY <1>4, <1>raced, <1>out, <2>1, QuietStep DEF Probe
<1>5. CASE Enter(p) /\ UNCHANGED <<file, upset, announced>>
  <2>1. Agrees(p)' /\ at'[p] \notin Midway
    BY <1>5 DEF Enter, Agrees, Checked, Midway
  <2>2. UNCHANGED raced /\ \A q \in Procs \ {p} : at[q] \notin Writing
    BY <1>5, <1>raced DEF Enter, Others
  <2> QED
    BY <1>5, <1>raced, <2>1, <2>2, QuietStep
<1>6. CASE Announce(p)
  <2>1. /\ file["cert"] = cert[p] /\ file["key"] = cert[p] /\ file["token"] = token[p]
        /\ cert[p] \in Procs /\ token[p] \in Procs
    BY <1>6, <1>agrees DEF Announce, Agrees, Checked, AllLoaded, Loaded, HasPair, HasToken
  <2>2. Pinned' /\ CertLast'
    BY <1>6, <2>1 DEF Announce, Pinned, CertLast
  <2>3. at'[p] \notin Inside
    BY <1>6 DEF Announce, Inside, Writing, Reading
  <2>4. ASSUME NEW q \in Procs, q # p PROVE Agrees(q)' /\ Sole(q)'
    <3>1. Agrees(q) /\ Sole(q)
      BY <1>raced DEF Disk
    <3>2. UNCHANGED <<at[q], cert[q], key[q], token[q]>>
      BY <2>4, OthersStay
    <3>3. upset' = upset \/ at[q] \notin Writing
      BY <1>6, <2>4 DEF Announce, Others
    <3>4. Agrees(q)'
      BY <1>raced, <3>1, <3>2, <3>3 DEF Agrees, Writing
    <3>5. Sole(q)'
      BY <2>3, <2>4, <3>1, <3>2, OthersStay DEF Sole
    <3> QED
      BY <3>4, <3>5
  <2>5. Agrees(p)' /\ Sole(p)'
    BY <1>out, <2>3 DEF Sole
  <2> QED
    BY <2>2, <2>4, <2>5 DEF Disk
<1> QED
  BY <1>1, <1>2, <1>3, <1>4, <1>5, <1>6 DEF OwnStep, Step, Probe, WalkEnds

\* The owner deletes or loosens a file only while no process is at work on them.
LEMMA TamperDisk ==
  ASSUME Typed, Disk, Tamper, ~raced' PROVE Disk'
<1> USE DEF Typed, DiskType, Files
<1>1. PICK f \in Files : Delete(f) \/ Loosen(f)
  BY DEF Tamper
<1>2. /\ Quiet /\ ~raced /\ upset \subseteq upset'
      /\ UNCHANGED <<at, cert, key, token, announced>>
  BY <1>1 DEF Tamper, Delete, Loosen
<1>3. ASSUME NEW q \in Procs PROVE Agrees(q)' /\ Sole(q)'
  BY <1>2, PlacesApart
  DEF Quiet, Agrees, Sole, Midway, Checked, Inside, Writing, Reading
<1>4. CASE Loosen(f)
  BY <1>2, <1>3, <1>4 DEF Loosen, Disk, Pinned, CertLast
<1>5. CASE Delete(f)
  BY <1>2, <1>3, <1>5, ContentsHold DEF Delete, Disk, Pinned, CertLast
<1> QED
  BY <1>1, <1>4, <1>5

LEMMA DiskStep == IInv /\ [Next]_vars => Disk'
<1> SUFFICES ASSUME Typed, AllLoaded, Disk, [Next]_vars, ~raced' PROVE Disk'
  BY DEF IInv, Disk
<1>1. ASSUME NEW p \in Procs, OwnStep(p) PROVE Disk'
  BY <1>1, IdentityDisk, LifeDisk
<1>2. CASE UNCHANGED <<file, loose, at, cert, key, token, raced, upset, announced>>
  BY <1>2 DEF Disk, Sole, Agrees, Pinned, CertLast
<1> QED
  BY <1>1, <1>2, TamperDisk, NextIsStep

LEMMA DiskInvariant == Spec => []IInv
<1>1. Init => Disk
  BY InitDisk
<1> QED
  BY <1>1, DiskStep, TypedInvariant, LoadedInvariant, PTL DEF Spec, IInv

\* Wherever a start is cut off, it leaves no certificate beside a key that is not its
\* own, unless two starts raced, one misread the certificate, or the key was deleted.
THEOREM CertLastHolds == Spec => []CertLast
<1>1. IInv => CertLast
  BY DEF IInv, Disk, CertLast
<1> QED
  BY <1>1, DiskInvariant, PTL

\* A banner differs from the one before it only for a cause.
THEOREM StableIdentityHolds == Spec => StableIdentity
<1>1. IInv /\ [Next]_vars =>
        (~raced /\ announced # Nobody =>
           /\ announced'.cert = announced.cert \/ upset \intersect {"misread", "deleted"} # {}
           /\ announced'.token = announced.token \/ "token" \in upset)
  <2> SUFFICES ASSUME IInv, [Next]_vars, ~raced, announced # Nobody
               PROVE  /\ \/ announced'.cert = announced.cert
                         \/ upset \intersect {"misread", "deleted"} # {}
                      /\ announced'.token = announced.token \/ "token" \in upset
    OBVIOUS
  <2>1. Disk /\ Pinned
    BY DEF IInv, Disk
  <2>2. ASSUME NEW p \in Procs, Announce(p)
        PROVE  announced' = [cert |-> file["cert"], token |-> file["token"]]
    BY <2>1, <2>2 DEF Announce, Disk, Agrees, Checked
  <2>3. ASSUME NEW p \in Procs, OwnStep(p), ~Announce(p) PROVE UNCHANGED announced
    BY <2>3 DEF OwnStep, Step, Start, Probe, WalkCore, WalkGroups, WalkVersion, SkipVersion,
           WalkEnds, LoadIdentity, Bind, Shutdown, Drained, GraceEnds, Fails, Stop, Leave
  <2> QED
    BY <2>1, <2>2, <2>3, NextIsStep DEF Pinned
<1> QED
  BY <1>1, DiskInvariant, PTL DEF Spec, StableIdentity

\* Only two steps refuse: of a pair that does not match, of a token that is too short.
LEMMA RefusedBy ==
  ASSUME Typed, NEW p \in Procs, OwnStep(p), at[p] # "refused", at'[p] = "refused"
  PROVE  TightenKey(p) \/ ReadToken(p)
<1> USE DEF Typed, ProcType
<1>1. CASE Start(p) \/ Probe(p) \/ WalkEnds(p)
  BY <1>1 DEF Start, Probe, WalkEnds, Enter
<1>2. CASE WalkCore(p) \/ WalkGroups(p) \/ Announce(p) \/ Bind(p) \/ Shutdown(p)
  BY <1>2 DEF WalkCore, WalkGroups, Announce, Bind, Shutdown, Move
<1>3. ASSUME NEW r \in Resources, WalkVersion(p, r) \/ SkipVersion(p, r) PROVE FALSE
  BY <1>3 DEF WalkVersion, SkipVersion
<1>4. CASE Drained(p) \/ GraceEnds(p) \/ Fails(p) \/ Stop(p)
  BY <1>4 DEF Drained, GraceEnds, Fails, Stop, Leave
<1>5. CASE LoadIdentity(p)
  <2>1. CASE ReadCert(p) \/ MisreadCert(p) \/ ReadKey(p)
    BY <2>1, OrderPlaces DEF ReadCert, MisreadCert, ReadKey
  <2>2. CASE OpenKey(p) \/ FillKey(p) \/ SecureKey(p) \/ OpenCert(p) \/ FillCert(p)
    BY <2>2, OrderPlaces DEF OpenKey, FillKey, SecureKey, OpenCert, FillCert, Generate
  <2>3. CASE CreateToken(p) \/ ReplaceToken(p) \/ TightenToken(p)
    BY <2>3 DEF CreateToken, ReplaceToken, TightenToken
  <2>4. CASE OpenToken(p) \/ FillToken(p) \/ SecureNewToken(p)
    BY <2>4 DEF OpenToken, FillToken, SecureNewToken
  <2> QED
    BY <1>5, <2>1, <2>2, <2>3, <2>4 DEF LoadIdentity, IdentityStep
<1> QED
  BY <1>1, <1>2, <1>3, <1>4, <1>5 DEF OwnStep, Step

\* A start refuses the files it finds only where one of them was cut short, where two
\* starts raced, or where one before it misread the certificate and left it beside a
\* new key.
THEOREM RefusedForACauseHolds == Spec => RefusedForACause
<1>1. IInv /\ [Next]_vars =>
        [\A p \in Procs : at[p] # "refused" /\ at'[p] = "refused" =>
           \/ raced
           \/ Torn \in {file["cert"], file["token"]}
           \/ "misread" \in upset /\ file["key"] # file["cert"]]_vars
  <2> SUFFICES ASSUME IInv, [Next]_vars, ~raced, NEW q \in Procs,
                      at[q] # "refused", at'[q] = "refused"
               PROVE  \/ Torn \in {file["cert"], file["token"]}
                      \/ "misread" \in upset /\ file["key"] # file["cert"]
    OBVIOUS
  <2>1. Typed /\ Loaded(q) /\ Agrees(q) /\ CertLast
    BY DEF IInv, AllLoaded, Disk
  <2>2. OwnStep(q)
    <3>1. PICK p \in Procs : OwnStep(p)
      BY NextIsStep
    <3> QED
      BY <2>1, <3>1, OthersStay
  <2>3. CASE ReadToken(q)
    BY <2>1, <2>3 DEF ReadToken, Typed, ProcType
  <2>4. CASE TightenKey(q)
    <3>1. cert[q] # key[q] \/ key[q] = Torn
      BY <2>1, <2>4 DEF TightenKey, Typed, ProcType
    <3>2. file["cert"] = cert[q] /\ file["key"] = key[q] /\ cert[q] # Absent
      BY <2>1, <2>4 DEF TightenKey, Agrees, Loaded
    <3>3. CASE cert[q] = Torn
      BY <3>2, <3>3
    <3>4. CASE cert[q] # Torn
      <4>1. cert[q] \in Procs
        BY <2>1, <3>2, <3>4, ContentsHold DEF Typed, ProcType
      <4>2. file["key"] # file["cert"] /\ file["key"] # Absent
        BY <2>4, <3>1, <3>2, <3>4 DEF TightenKey
      <4> QED
        BY <2>1, <3>2, <4>1, <4>2 DEF CertLast
    <3> QED
      BY <3>3, <3>4
  <2> QED
    BY <2>1, <2>2, <2>3, <2>4, RefusedBy
<1> QED
  BY <1>1, DiskInvariant, PTL DEF Spec, RefusedForACause

-----------------------------------------------------------------------------
(* Modes.  A process that has dealt with a file has left it private, and   *)
(* nothing loosens it while the process is at work.                        *)

KeyDone == {"openCert", "fillCert", "readToken", "openToken", "fillToken",
            "secureNewToken", "tightenToken", "announce"}
Private(p) == /\ at[p] \in KeyDone => "key" \notin loose
              /\ at[p] = "announce" => "token" \notin loose
AllPrivate == \A p \in Procs : Private(p)

\* No step of a process loosens a file.
LEMMA NeverLoosened ==
  ASSUME Typed, NEW p \in Procs, OwnStep(p), Private(p)
  PROVE  loose' \subseteq loose /\ Private(p)'
<1> USE DEF Typed, ProcType, DiskType, Files, Private, KeyDone
<1>1. CASE Start(p) \/ Probe(p) \/ WalkEnds(p)
  BY <1>1 DEF Start, Probe, WalkEnds, Enter
<1>2. CASE WalkCore(p) \/ WalkGroups(p) \/ Announce(p) \/ Bind(p) \/ Shutdown(p)
  BY <1>2 DEF WalkCore, WalkGroups, Announce, Bind, Shutdown, Move
<1>3. ASSUME NEW r \in Resources, WalkVersion(p, r) \/ SkipVersion(p, r)
      PROVE  loose' \subseteq loose /\ Private(p)'
  BY <1>3 DEF WalkVersion, SkipVersion
<1>4. CASE Drained(p) \/ GraceEnds(p) \/ Fails(p) \/ Stop(p)
  BY <1>4 DEF Drained, GraceEnds, Fails, Stop, Leave
<1>5. CASE LoadIdentity(p)
  <2>1. CASE ReadCert(p) \/ MisreadCert(p) \/ ReadKey(p) \/ TightenKey(p)
    BY <2>1, OrderPlaces DEF ReadCert, MisreadCert, ReadKey, TightenKey, Secure
  <2>2. CASE OpenKey(p) \/ FillKey(p) \/ SecureKey(p)
    BY <2>2, OrderPlaces DEF OpenKey, FillKey, SecureKey, Generate, Truncate, Fill, Secure
  <2>3. CASE OpenCert(p) \/ FillCert(p)
    BY <2>3, OrderPlaces DEF OpenCert, FillCert, Generate, Truncate, Fill
  <2>4. CASE CreateToken(p) \/ ReplaceToken(p) \/ ReadToken(p) \/ TightenToken(p)
    BY <2>4 DEF CreateToken, ReplaceToken, ReadToken, TightenToken, Secure
  <2>5. CASE OpenToken(p) \/ FillToken(p) \/ SecureNewToken(p)
    BY <2>5 DEF OpenToken, FillToken, SecureNewToken, Truncate, Fill, Secure
  <2> QED
    BY <1>5, <2>1, <2>2, <2>3, <2>4, <2>5 DEF LoadIdentity, IdentityStep
<1> QED
  BY <1>1, <1>2, <1>3, <1>4, <1>5 DEF OwnStep, Step

LEMMA PrivateStep == Typed /\ AllPrivate /\ [Next]_vars => AllPrivate'
<1> SUFFICES ASSUME Typed, AllPrivate, [Next]_vars, NEW q \in Procs PROVE Private(q)'
  BY DEF AllPrivate
<1>1. ASSUME NEW p \in Procs, OwnStep(p) PROVE Private(q)'
  <2>1. loose' \subseteq loose /\ Private(p)'
    BY <1>1, NeverLoosened DEF AllPrivate
  <2>2. CASE p # q
    <3>1. UNCHANGED at[q]
      BY <1>1, <2>2, OthersStay
    <3> QED
      BY <2>1, <3>1 DEF AllPrivate, Private
  <2> QED
    BY <2>1, <2>2
<1>2. CASE Tamper /\ UNCHANGED at
  <2>1. at[q] \notin Inside
    BY <1>2 DEF Tamper, Delete, Loosen, Quiet
  <2> QED
    BY <1>2, <2>1 DEF Private, KeyDone, Inside, Writing, Reading
<1>3. CASE UNCHANGED <<at, loose>>
  BY <1>3 DEF AllPrivate, Private
<1> QED
  BY <1>1, <1>2, <1>3, NextIsStep

\* Whatever modes the files had, the key and the token are private by the time their
\* process is announced.
THEOREM PrivateFilesHolds == Spec => []PrivateFiles
<1>1. Init => AllPrivate
  BY DEF Init, AllPrivate, Private, KeyDone
<1>2. Typed /\ AllPrivate => PrivateFiles
  BY DEF Typed, DiskType, AllPrivate, Private, KeyDone, PrivateFiles
<1> QED
  BY <1>1, <1>2, PrivateStep, TypedInvariant, PTL DEF Spec

-----------------------------------------------------------------------------
(* The scope map.  What it says is the truth for as long as the cluster    *)
(* stays as it was; what it leaves out is taken for namespaced.            *)

Truthful(p) ==
    /\ p \notin moved => \A r \in DOMAIN scoper[p] : scoper[p][r] = namespaced[r]
    /\ p \notin Live => scoper[p] = NoMap
AllTruthful == \A p \in Scoped : Truthful(p)

\* A document tells of its own resource nothing or the truth.
LEMMA LearnedTrue ==
  ASSUME namespaced \in [Resources -> BOOLEAN],
         NEW m \in Maps, NEW r \in Resources, NEW doc \in Documents(r),
         NEW k \in DOMAIN Learned(m, r, doc)
  PROVE  \/ k = r /\ Learned(m, r, doc)[k] = namespaced[r]
         \/ k \in DOMAIN m /\ Learned(m, r, doc)[k] = m[k]
<1> DEFINE bare == {x \in doc : x.sub = ""}
           own == UNION {e.says : e \in bare}
<1>1. PICK says \in {{}, {namespaced[r]}} :
        doc = {[sub |-> "", says |-> says], [sub |-> "scale", says |-> {FALSE}]}
  BY DEF Documents
<1>2. PICK e : bare = {e} /\ e.says = says
  <2> DEFINE a == [sub |-> "", says |-> says]
             b == [sub |-> "scale", says |-> {FALSE}]
  <2>1. a.sub = "" /\ b.sub # "" /\ a.says = says
    OBVIOUS
  <2>2. doc = {a, b}
    BY <1>1
  <2> HIDE DEF a, b
  <2>3. bare = {a}
    BY <2>1, <2>2
  <2> QED
    BY <2>1, <2>3
<1> HIDE DEF bare
<1>3. own = says
  BY <1>2
<1>4. Learned(m, r, doc) =
        IF says = {} THEN m
        ELSE [j \in DOMAIN m \union {r} |-> IF j = r THEN TRUE \in says ELSE m[j]]
  <2> HIDE DEF own
  <2>1. Learned(m, r, doc) = IF own = {} THEN m
          ELSE [j \in DOMAIN m \union {r} |-> IF j = r THEN TRUE \in own ELSE m[j]]
    BY DEF Learned, own, bare
  <2> QED
    BY <1>3, <2>1
<1>5. CASE says = {}
  BY <1>4, <1>5
<1>6. CASE says = {namespaced[r]}
  <2>1. namespaced[r] \in BOOLEAN
    OBVIOUS
  <2>2. (TRUE \in says) = namespaced[r]
    <3>1. CASE namespaced[r] = TRUE
      BY <1>6, <3>1
    <3>2. CASE namespaced[r] = FALSE
      <4>1. says = {FALSE}
        BY <1>6, <3>2
      <4>2. (TRUE \in {FALSE}) = FALSE
        OBVIOUS
      <4> QED
        BY <3>2, <4>1, <4>2
    <3> QED
      BY <2>1, <3>1, <3>2
  <2> QED
    BY <1>4, <1>6, <2>2
<1> QED
  BY <1>1, <1>5, <1>6

LEMMA TruthType == Typed => namespaced \in [Resources -> BOOLEAN]
  BY DEF Typed, MapType

LEMMA TruthfulOwn ==
  ASSUME Typed, NEW p \in Procs, Truthful(p), OwnStep(p) PROVE Truthful(p)'
<1> USE DEF Typed, ProcType, MapType
<1>same. UNCHANGED namespaced
  BY DEF OwnStep, Step, LoadIdentity, Start, Probe, Enter, WalkCore, WalkGroups,
         WalkVersion, SkipVersion, WalkEnds, Announce, Bind, Shutdown, Drained, GraceEnds,
         Fails, Stop, Leave, Move
<1>1. ASSUME NEW r \in Resources, Collect(p, r), UNCHANGED moved, at'[p] \notin {"idle", "exited", "failed"}
      PROVE  Truthful(p)'
  <2>1. PICK doc \in Documents(r) : scoper'[p] = Learned(scoper[p], r, doc)
    BY <1>1 DEF Collect
  <2>2. ASSUME p \notin moved, NEW k \in DOMAIN scoper'[p]
        PROVE  scoper'[p][k] = namespaced[k]
    BY <2>1, <2>2, LearnedTrue, TruthType DEF Truthful
  <2> QED
    BY <1>1, <1>same, <2>2 DEF Truthful, Live
<1>2. CASE WalkCore(p)
  <2>1. Pods \in Resources
    BY DEF Resources
  <2> QED
    BY <1>1, <1>2, <2>1 DEF WalkCore, Move
<1>3. ASSUME NEW r \in Resources, WalkVersion(p, r) PROVE Truthful(p)'
  BY <1>1, <1>3 DEF WalkVersion
<1>4. ASSUME NEW how, Leave(p, how) PROVE Truthful(p)'
  BY <1>4 DEF Leave, Truthful, NoMap
<1>5. CASE Drained(p) \/ GraceEnds(p) \/ Fails(p) \/ Stop(p)
  BY <1>4, <1>5 DEF Drained, GraceEnds, Fails, Stop
<1>6. ASSUME UNCHANGED <<scoper, moved>>, p \notin Live \/ p \in Live' PROVE Truthful(p)'
  BY <1>same, <1>6 DEF Truthful, NoMap
<1>7. CASE LoadIdentity(p)
  <2>1. at'[p] \notin {"idle", "exited", "failed"}
    BY <1>7, OrderPlaces
    DEF LoadIdentity, IdentityStep, ReadCert, MisreadCert, ReadKey, TightenKey,
        OpenKey, FillKey, SecureKey, OpenCert, FillCert, Generate, CreateToken,
        ReplaceToken, ReadToken, TightenToken, OpenToken, FillToken, SecureNewToken
  <2> QED
    BY <1>6, <1>7, <2>1 DEF LoadIdentity, Live
<1>8. CASE Start(p) \/ Probe(p) \/ WalkGroups(p) \/ WalkEnds(p) \/ Announce(p)
           \/ Bind(p) \/ Shutdown(p) \/ \E r \in Resources : SkipVersion(p, r)
  <2>1. at'[p] \notin {"idle", "exited", "failed"}
    BY <1>8 DEF Start, Probe, Enter, WalkGroups, WalkEnds, Announce, Bind, Shutdown,
       SkipVersion, Move
  <2>2. UNCHANGED <<scoper, moved>>
    BY <1>8 DEF Start, Probe, WalkGroups, WalkEnds, Announce, Bind, Shutdown, SkipVersion
  <2> QED
    BY <1>6, <2>1, <2>2 DEF Live
<1> QED
  BY <1>2, <1>3, <1>5, <1>7, <1>8 DEF OwnStep, Step

\* A step of one process leaves the map of another as it was.
LEMMA MapsStay ==
  ASSUME Typed, NEW p \in Procs, OwnStep(p), NEW q \in Procs, q # p
  PROVE  UNCHANGED <<namespaced, scoper[q], at[q]>> /\ (q \in moved' <=> q \in moved)
<1> USE DEF Typed, ProcType, MapType
<1>1. UNCHANGED at[q]
  BY OthersStay
<1>2. CASE Leave(p, "exited") \/ Leave(p, "failed")
  BY <1>1, <1>2 DEF Leave
<1>3. CASE WalkCore(p) \/ \E r \in Resources : WalkVersion(p, r)
  BY <1>1, <1>3 DEF WalkCore, WalkVersion, Collect
<1>4. CASE UNCHANGED <<namespaced, scoper, moved>>
  BY <1>1, <1>4
<1> QED
  BY <1>2, <1>3, <1>4
  DEF OwnStep, Step, LoadIdentity, Start, Probe, WalkGroups, SkipVersion, WalkEnds,
      Announce, Bind, Shutdown, Drained, GraceEnds, Fails, Stop

\* No other step writes a map; one changes the cluster under those that are live.
LEMMA OutsideMaps ==
  ASSUME [Next]_vars
  PROVE  \/ \E p \in Procs : OwnStep(p)
         \/ Reinstall
         \/ UNCHANGED <<namespaced, scoper, moved, at>>
<1>1. CASE UNCHANGED vars
  BY <1>1 DEF vars
<1>2. ASSUME NEW p \in Procs, Start(p) \/ Step(p) \/ Stop(p)
      PROVE  \E q \in Procs : OwnStep(q)
  BY <1>2 DEF OwnStep
<1>3. ASSUME NEW p \in Procs, Signal(p) \/ \E c \in Calls : Accept(p, c) \/ Finish(p, c)
      PROVE  UNCHANGED <<namespaced, scoper, moved, at>>
  BY <1>3 DEF Signal, Accept, Finish
<1>4. CASE Tamper
  BY <1>4 DEF Tamper, Delete, Loosen
<1> QED
  BY <1>1, <1>2, <1>3, <1>4 DEF Next

LEMMA TruthfulStep == Typed /\ AllTruthful /\ [Next]_vars => AllTruthful'
<1> SUFFICES ASSUME Typed, AllTruthful, [Next]_vars, NEW q \in Scoped PROVE Truthful(q)'
  BY DEF AllTruthful
<1>proc. q \in Procs /\ Truthful(q)
  BY FlagsAssumption DEF AllTruthful
<1>1. ASSUME NEW p \in Procs, OwnStep(p) PROVE Truthful(q)'
  <2>1. CASE p = q
    BY <1>proc, <1>1, <2>1, TruthfulOwn
  <2>2. CASE p # q
    BY <1>proc, <1>1, <2>2, MapsStay DEF Truthful, Live
  <2> QED
    BY <2>1, <2>2
<1>2. CASE Reinstall
  <2>1. q \in moved' \/ scoper[q] = NoMap
    BY <1>proc, <1>2 DEF Reinstall, Truthful
  <2> QED
    BY <1>proc, <1>2, <2>1 DEF Reinstall, Truthful, Live, NoMap
<1>3. CASE UNCHANGED <<namespaced, scoper, moved, at>>
  BY <1>proc, <1>3 DEF Truthful, Live
<1> QED
  BY <1>1, <1>2, <1>3, OutsideMaps

\* With --namespace, a request for a whole cluster's worth of a namespaced resource
\* is refused, whatever a document left out and whichever could not be read.
THEOREM ScopeHoldsAlways == Spec => []ScopeHolds
<1>1. Init => AllTruthful
  BY FlagsAssumption DEF Init, AllTruthful, Truthful, NoMap
<1>2. Typed /\ AllTruthful => ScopeHolds
  <2> SUFFICES ASSUME Typed, AllTruthful, NEW p \in Procs \ moved, NEW r \in Resources,
                      p \in Scoped, namespaced[r],
                      NamespacePermitted(Allowlist, scoper[p], Everywhere(r))
               PROVE  FALSE
    BY DEF ScopeHolds
  <2>1. <<Everywhere(r).group, Everywhere(r).version, Everywhere(r).resource>> = r
    <3>1. r = <<r[1], r[2], r[3]>>
      <4>1. CASE r = Pods
        BY <4>1 DEF Pods
      <4>2. CASE r = Widgets
        BY <4>2 DEF Widgets
      <4> QED
        BY <4>1, <4>2 DEF Resources
    <3>2. <<Everywhere(r).group, Everywhere(r).version, Everywhere(r).resource>>
            = <<r[1], r[2], r[3]>>
      BY DEF Everywhere
    <3> QED
      BY <3>1, <3>2
  <2>2. Everywhere(r).ns = "" /\ Allowlist # {}
    BY DEF Everywhere, Allowlist
  <2>3. r \in DOMAIN scoper[p] /\ ~scoper[p][r]
    BY <2>1, <2>2 DEF NamespacePermitted
  <2> QED
    BY <2>3 DEF AllTruthful, Truthful
<1> QED
  BY <1>1, <1>2, TruthfulStep, TypedInvariant, PTL DEF Spec

-----------------------------------------------------------------------------
(* How long a process lives: SignalEnds itself is for TLC, but that the    *)
(* steps of a process run out is proved.                                   *)

\* An upper bound on the steps a process has left, by where it is.
PlaceRank ==
    [idle |-> 24, probe |-> 23, walkCore |-> 22, walkGroups |-> 21, walkEach |-> 18,
     readCert |-> 17, openKey |-> 16, fillKey |-> 15, secureKey |-> 14, openCert |-> 13,
     fillCert |-> 12, readKey |-> 12, tightenKey |-> 11, readToken |-> 10,
     openToken |-> 9, fillToken |-> 8, secureNewToken |-> 7, tightenToken |-> 6,
     announce |-> 5, bind |-> 4, serving |-> 3, draining |-> 2, refused |-> 1,
     exited |-> 0, failed |-> 0]
Unfetched(p) == (IF Pods \in unread[p] THEN 1 ELSE 0) + (IF Widgets \in unread[p] THEN 1 ELSE 0)
Rank(p) == PlaceRank[at[p]] + IF at[p] = "walkEach" THEN Unfetched(p) ELSE 0

LEMMA RankType == ASSUME Typed, NEW p \in Procs PROVE Rank(p) \in 0..24
<1>1. Unfetched(p) \in 0..2
  BY DEF Unfetched
<1>2. at[p] \in Places
  BY DEF Typed, ProcType
<1>3. PlaceRank[at[p]] \in 0..24 /\ (at[p] = "walkEach" => PlaceRank[at[p]] = 18)
  BY <1>2, PlaceNames DEF PlaceRank
<1> QED
  BY <1>1, <1>3 DEF Rank

LEMMA IdentityRank ==
  ASSUME Typed, NEW p \in Procs, IdentityStep(p)
  PROVE  /\ at[p] # "walkEach" /\ at'[p] # "walkEach"
         /\ PlaceRank[at'[p]] < PlaceRank[at[p]]
         /\ PlaceRank[at[p]] \in 0..24 /\ PlaceRank[at'[p]] \in 0..24
<1> USE DEF Typed, ProcType, PlaceRank
<1>1. CASE ReadCert(p) \/ MisreadCert(p) \/ ReadKey(p) \/ TightenKey(p)
  BY <1>1, OrderPlaces DEF ReadCert, MisreadCert, ReadKey, TightenKey
<1>2. CASE OpenKey(p) \/ FillKey(p) \/ SecureKey(p)
  BY <1>2, OrderPlaces DEF OpenKey, FillKey, SecureKey, Generate
<1>3. CASE OpenCert(p) \/ FillCert(p)
  BY <1>3, OrderPlaces DEF OpenCert, FillCert, Generate
<1>4. CASE CreateToken(p) \/ ReplaceToken(p) \/ ReadToken(p) \/ TightenToken(p)
  BY <1>4 DEF CreateToken, ReplaceToken, ReadToken, TightenToken
<1>5. CASE OpenToken(p) \/ FillToken(p) \/ SecureNewToken(p)
  BY <1>5 DEF OpenToken, FillToken, SecureNewToken
<1> QED
  BY <1>1, <1>2, <1>3, <1>4, <1>5 DEF IdentityStep

LEMMA RankFalls == ASSUME Typed, NEW p \in Procs, OwnStep(p) PROVE Rank(p)' < Rank(p)
<1> USE DEF Typed, ProcType
<1>same. Unfetched(p) \in 0..2
  BY DEF Unfetched
<1>1. CASE Start(p) \/ WalkCore(p) \/ Announce(p) \/ Bind(p) \/ Shutdown(p)
  BY <1>1 DEF Start, WalkCore, Announce, Bind, Shutdown, Move, Rank, PlaceRank
<1>2. CASE Probe(p) \/ WalkEnds(p)
  BY <1>2, <1>same DEF Probe, WalkEnds, Enter, Rank, PlaceRank
<1>3. CASE WalkGroups(p)
  <2>1. at[p] = "walkGroups" /\ at'[p] = "walkEach" /\ unread'[p] = {Widgets}
    BY <1>3 DEF WalkGroups, Move
  <2>2. Unfetched(p)' <= 1
    BY <2>1 DEF Unfetched, Pods, Widgets
  <2>3. Unfetched(p)' \in 0..2
    BY DEF Unfetched
  <2> HIDE DEF Typed, ProcType
  <2> QED
    BY <2>1, <2>2, <2>3 DEF Rank, PlaceRank
<1>4. ASSUME NEW r \in Resources, WalkVersion(p, r) \/ SkipVersion(p, r)
      PROVE  Rank(p)' < Rank(p)
  <2>1. at[p] = "walkEach" /\ at'[p] = "walkEach" /\ r \in unread[p] /\ unread'[p] = unread[p] \ {r}
    BY <1>4 DEF WalkVersion, SkipVersion
  <2>2. Unfetched(p)' < Unfetched(p)
    <3>1. Pods # Widgets /\ (r = Pods \/ r = Widgets)
      BY DEF Resources, Pods, Widgets
    <3>2. CASE r = Pods
      <4>1. Pods \in unread[p] /\ Pods \notin unread'[p]
        BY <2>1, <3>2
      <4>2. Widgets \in unread'[p] <=> Widgets \in unread[p]
        BY <2>1, <3>1, <3>2
      <4> QED
        BY <4>1, <4>2 DEF Unfetched
    <3>3. CASE r = Widgets
      <4>1. Widgets \in unread[p] /\ Widgets \notin unread'[p]
        BY <2>1, <3>3
      <4>2. Pods \in unread'[p] <=> Pods \in unread[p]
        BY <2>1, <3>1, <3>3
      <4> QED
        BY <4>1, <4>2 DEF Unfetched
    <3> QED
      BY <3>1, <3>2, <3>3
  <2>3. Unfetched(p)' \in 0..2
    BY DEF Unfetched
  <2> HIDE DEF Typed, ProcType
  <2> QED
    BY <1>same, <2>1, <2>2, <2>3 DEF Rank, PlaceRank
<1>5. CASE Drained(p) \/ GraceEnds(p) \/ Fails(p) \/ Stop(p)
  <2>1. at[p] \in Places \ {"idle", "exited", "failed"} /\ at'[p] \in {"exited", "failed"}
    BY <1>5 DEF Drained, GraceEnds, Fails, Stop, Leave, Live
  <2>2. Rank(p)' = 0
    BY <2>1 DEF Rank, PlaceRank
  <2>3. PlaceRank[at[p]] \in 1..24
    BY <2>1, PlaceNames DEF PlaceRank
  <2> QED
    BY <1>same, <2>2, <2>3 DEF Rank
<1>6. CASE LoadIdentity(p)
  BY <1>6, IdentityRank DEF LoadIdentity, Rank
<1> QED
  BY <1>1, <1>2, <1>3, <1>4, <1>5, <1>6 DEF OwnStep, Step

LEMMA RankStays ==
  ASSUME Typed, [Next]_vars, NEW q \in Procs, ~OwnStep(q) PROVE Rank(q)' = Rank(q)
<1> USE DEF Typed, ProcType
<1>1. UNCHANGED at[q]
  BY NextIsStep, OthersStay
<1>2. UNCHANGED unread[q]
  <2>1. ASSUME NEW p \in Procs, OwnStep(p), p # q PROVE UNCHANGED unread[q]
    BY <2>1 DEF OwnStep, Step, Start, Probe, WalkCore, WalkGroups, WalkVersion, SkipVersion,
           WalkEnds, LoadIdentity, Announce, Bind, Shutdown, Drained, GraceEnds, Fails, Stop,
           Leave
  <2>2. ASSUME NEW p \in Procs, NEW c \in Calls, Accept(p, c) \/ Finish(p, c) \/ Signal(p)
        PROVE  UNCHANGED unread[q]
    BY <2>2 DEF Accept, Finish, Signal
  <2>3. ASSUME NEW p \in Procs, Signal(p) PROVE UNCHANGED unread[q]
    BY <2>3 DEF Signal
  <2>4. CASE Reinstall \/ Tamper \/ UNCHANGED vars
    BY <2>4 DEF Reinstall, Tamper, vars
  <2> QED
    BY <2>1, <2>2, <2>3, <2>4 DEF Next, OwnStep
<1> QED
  BY <1>1, <1>2 DEF Rank, Unfetched

Ranked == \A p \in Procs : Rank(p) \in 0..24

\* No process goes on for ever: whatever it finds on disk and whatever the others, the
\* cluster and the files' owner do, it has at most 24 steps from its start to its
\* end, requests apart, and none of theirs gives it another.
THEOREM LivesAreShort ==
  Spec => [][\A p \in Procs : /\ Rank(p) \in 0..24
                              /\ Rank(p)' <= Rank(p)
                              /\ OwnStep(p) => Rank(p)' < Rank(p)]_vars
<1>1. Typed /\ Ranked /\ Ranked' /\ [Next]_vars =>
        [\A p \in Procs : /\ Rank(p) \in 0..24
                          /\ Rank(p)' <= Rank(p)
                          /\ OwnStep(p) => Rank(p)' < Rank(p)]_vars
  <2> SUFFICES ASSUME Typed, Ranked, Ranked', [Next]_vars, NEW p \in Procs
               PROVE  /\ Rank(p) \in 0..24
                      /\ Rank(p)' <= Rank(p)
                      /\ OwnStep(p) => Rank(p)' < Rank(p)
    OBVIOUS
  <2>1. Rank(p) \in 0..24 /\ Rank(p)' \in 0..24
    BY DEF Ranked
  <2>2. CASE OwnStep(p)
    <3>1. Rank(p)' < Rank(p)
      BY <2>2, RankFalls
    <3> QED
      BY <2>1, <3>1
  <2>3. CASE ~OwnStep(p)
    <3>1. Rank(p)' = Rank(p)
      BY <2>3, RankStays
    <3> QED
      BY <2>1, <2>3, <3>1
  <2> QED
    BY <2>2, <2>3
<1>2. Typed => Ranked
  BY RankType DEF Ranked
<1> QED
  BY <1>1, <1>2, TypedInvariant, PTL DEF Spec
=============================================================================
