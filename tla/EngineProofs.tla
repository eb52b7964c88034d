---------------------------- MODULE EngineProofs ----------------------------
(***************************************************************************)
(* Proofs about the policy engine, for every set of options, requests,     *)
(* extension rules and scope maps.                                         *)
(***************************************************************************)
EXTENDS Engine, ReqInfo, PolicyProofs, SequenceTheorems, TLAPS

\* What ties a verdict to the configuration it was given under.
Decided == /\ allowed => engine = "decided"
           /\ engine = "decided" => allowed = Authorize(Cfg, req) /\ req \in Requests
IInv == TypeOK /\ Decided

-----------------------------------------------------------------------------
(* The inductive invariant.                                                *)

LEMMA InitInvariant == Init => IInv
  BY DEF Init, IInv, TypeOK, Decided

LEMMA StepInvariant == IInv /\ [Next]_vars => IInv'
<1> SUFFICES ASSUME IInv, [Next]_vars PROVE IInv'
  OBVIOUS
<1> USE DEF IInv, TypeOK, Decided
<1>1. CASE Start
  BY <1>1 DEF Start, ValidOptions, Cfg
<1>2. CASE Forget
  BY <1>2 DEF Forget, ValidOptions, Cfg
<1>3. ASSUME NEW r \in Requests, Decide(r) PROVE IInv'
  <2>1. r \in Request
    BY RequestsAssumption
  <2>2. Authorize(Cfg, r) \in BOOLEAN
    BY DEF Authorize, AuthorizesResourceKind, UniversallyDenied, VerbPermitted,
           ResourcePermitted, NonResourcePermitted, NamespacePermitted
  <2> QED
    BY <1>3, <2>1, <2>2 DEF Decide, ValidOptions, Cfg
<1>4. CASE UNCHANGED vars
  BY <1>4 DEF vars, ValidOptions, Cfg
<1> QED
  BY <1>1, <1>2, <1>3, <1>4 DEF Next

LEMMA Invariant == Spec => []IInv
  BY InitInvariant, StepInvariant, PTL DEF Spec

\* Every variable keeps its type, and an engine that serves has valid options.
THEOREM TypeCorrect == Spec => []TypeOK
  BY Invariant, PTL DEF IInv

-----------------------------------------------------------------------------
(* The ladder of modes.                                                    *)

\* Every stage of Authorize is at least as permissive in a looser mode.
LEMMA LooserPermits ==
  ASSUME NEW c, NEW r, NEW mode, c.mode \in Modes, mode \in Looser(c.mode),
         c = [mode |-> c.mode, namespaces |-> c.namespaces, extra |-> c.extra,
              scoper |-> c.scoper],
         Authorize(c, r)
  PROVE  Authorize([c EXCEPT !.mode = mode, !.extra = {}], r)
<1> DEFINE d == [c EXCEPT !.mode = mode, !.extra = {}]
<1>1. /\ d.mode = mode /\ d.namespaces = c.namespaces /\ d.scoper = c.scoper
  OBVIOUS
<1>2. mode # Strict /\ c.mode # "rw"
  BY DEF Looser, Modes, Strict
<1>3. AuthorizesResourceKind(d, r)
  BY <1>1, <1>2 DEF Authorize, AuthorizesResourceKind, VerbPermitted, ResourcePermitted
<1> QED
  BY <1>1, <1>3 DEF Authorize

\* Monotonicity: a looser mode permits whatever a stricter one, extended or not, does.
THEOREM LadderHolds == Spec => []Ladder
<1>1. IInv => Ladder
  <2> SUFFICES ASSUME IInv, allowed, NEW mode \in Looser(Cfg.mode)
               PROVE  Authorize([Cfg EXCEPT !.mode = mode, !.extra = {}], req)
    BY DEF Ladder
  <2>1. Authorize(Cfg, req) /\ ValidOptions
    BY DEF IInv, TypeOK, Decided
  <2>2. Cfg.mode \in Modes
    BY <2>1 DEF ValidOptions, Cfg
  <2>3. Cfg = [mode |-> Cfg.mode, namespaces |-> Cfg.namespaces, extra |-> Cfg.extra,
               scoper |-> Cfg.scoper]
    BY DEF Cfg
  <2> QED
    BY <2>1, <2>2, <2>3, LooserPermits
<1> QED
  BY <1>1, Invariant, PTL

-----------------------------------------------------------------------------
(* What no configuration permits.                                          *)

\* No mode and no extension permits an interactive session or mints a credential.
THEOREM NoEscalationHolds == Spec => []NoEscalation
<1>1. IInv => NoEscalation
  BY NothingEscalates DEF IInv, TypeOK, Decided, Authorize, NoEscalation
<1> QED
  BY <1>1, Invariant, PTL

\* The strict mode serves no secrets, no security group and no write, whatever
\* --policy file it accepted.
THEOREM StrictBoundaryHolds == Spec => []StrictBoundary
<1>1. IInv => StrictBoundary
  <2> SUFFICES ASSUME IInv, allowed, req.isResource, Cfg.mode = Strict
               PROVE  WithinBoundary(req)
    BY DEF StrictBoundary
  <2>1. AuthorizesResourceKind(Cfg, req) /\ ValidOptions
    BY DEF IInv, TypeOK, Decided, Authorize
  <2>2. Cfg.extra = {} \/ ValidateExtension(Cfg.extra)
    BY <2>1 DEF ValidOptions, Cfg
  <2> QED
    BY <2>1, <2>2, StrictWithin
<1> QED
  BY <1>1, Invariant, PTL

\* Discovery drops no group from which a resource is permitted.
THEOREM GroupsAgreeHolds == Spec => []GroupsAgree
<1>1. IInv => GroupsAgree
  <2> SUFFICES ASSUME IInv, allowed, req.isResource, Cfg.mode = Strict
               PROVE  PermitsGroup(Cfg, req.group)
    BY DEF GroupsAgree, PermitsGroup
  <2>1. ResourcePermitted(Cfg.mode, Cfg.extra, req)
    BY DEF IInv, TypeOK, Decided, Authorize, AuthorizesResourceKind
  <2> QED
    BY <2>1 DEF ResourcePermitted, Matches, RuleMatches, PermitsGroup
<1> QED
  BY <1>1, Invariant, PTL

-----------------------------------------------------------------------------
(* Two packages' lists of paths.                                           *)

LEMMA FirstAndLast ==
  ASSUME NEW marks \in SUBSET {1, 2, 3}, marks # {}
  PROVE  /\ \E i \in marks : \A j \in marks : i <= j
         /\ \E i \in marks : \A j \in marks : i >= j
<1>1. \E i \in marks : \A j \in marks : i <= j
  <2>1. CASE 1 \in marks
    BY <2>1
  <2>2. CASE 1 \notin marks /\ 2 \in marks
    BY <2>2
  <2>3. CASE marks = {3}
    BY <2>3
  <2> QED
    BY <2>1, <2>2, <2>3
<1>2. \E i \in marks : \A j \in marks : i >= j
  <2>1. CASE 3 \in marks
    BY <2>1
  <2>2. CASE 3 \notin marks /\ 2 \in marks
    BY <2>2
  <2>3. CASE marks = {1}
    BY <2>3
  <2> QED
    BY <2>1, <2>2, <2>3
<1> QED
  BY <1>1, <1>2

\* A short path loses a segment to splitPath, or is its own list of segments.
LEMMA ShortParts ==
  ASSUME NEW path \in Seq(STRING), Len(path) <= 3
  PROVE  /\ Len(Parts(path)) \in Nat
         /\ Len(Parts(path)) < Len(path) \/ Parts(path) = path
<1> DEFINE named == {i \in DOMAIN path : path[i] # ""}
           first == CHOOSE i \in named : \A j \in named : i <= j
           last == CHOOSE i \in named : \A j \in named : i >= j
<1>1. Len(path) \in Nat /\ DOMAIN path = 1..Len(path)
  BY LenProperties
<1>2. CASE named = {}
  <2>1. Parts(path) = <<>>
    BY <1>2 DEF Parts
  <2> HIDE DEF named
  <2>2. CASE path = <<>>
    BY <2>1, <2>2
  <2>3. CASE path # <<>>
    BY <2>1, <2>3, EmptySeq
  <2> QED
    BY <2>2, <2>3
<1>3. CASE named # {}
  <2>1. Parts(path) = SubSeq(path, first, last)
    BY <1>3 DEF Parts
  <2>2. named \subseteq 1..Len(path)
    BY <1>1
  <2> HIDE DEF named
  <2>3. named \in SUBSET {1, 2, 3}
    BY <1>1, <2>2
  <2>4. first \in named /\ last \in named /\ first <= last
    BY <1>3, <2>3, FirstAndLast
  <2>5. first \in 1..Len(path) /\ last \in 1..Len(path)
    BY <2>2, <2>4
  <2> HIDE DEF first, last
  <2>6. \A i \in first..last : path[i] \in STRING
    BY <1>1, <2>5, ElementOfSeq
  <2>7. Len(Parts(path)) = last - first + 1
    BY <1>1, <2>1, <2>4, <2>5, <2>6, SubSeqProperties
  <2>8. Len(Parts(path)) \in Nat
    BY <1>1, <2>4, <2>5, <2>7
  <2>9. CASE first = 1 /\ last = Len(path)
    BY <1>1, <2>1, <2>8, <2>9
  <2>10. CASE first # 1 \/ last # Len(path)
    <3> DEFINE n == Len(path)
    <3>1. n \in Nat /\ first \in 1..n /\ last \in 1..n /\ (first # 1 \/ last # n)
      BY <1>1, <2>5, <2>10
    <3> HIDE DEF n
    <3>2. last - first + 1 < n
      BY <3>1
    <3> QED
      BY <2>7, <2>8, <3>2 DEF n
  <2> QED
    BY <2>9, <2>10
<1> QED
  BY <1>2, <1>3

LEMMA DiscoveryParts ==
  ASSUME NEW path \in Seq(STRING), IsDiscoveryPath(path)
  PROVE  \/ Len(Parts(path)) < 3
         \/ Parts(path)[1] = "apis" /\ Len(Parts(path)) < 4
<1> DEFINE n == Len(path)
           m == Len(Parts(path))
<1>1. n \in {1, 2} \/ (n \in {2, 3} /\ path[1] = "apis")
  <2>1. CASE path = <<"api">>
    BY <2>1
  <2>2. CASE path = <<"api", "v1">>
    BY <2>2
  <2>3. CASE path = <<"apis">>
    BY <2>3
  <2> QED
    BY <2>1, <2>2, <2>3 DEF IsDiscoveryPath
<1>2. n \in Nat /\ n <= 3
  <2> HIDE DEF n
  <2> QED
    BY <1>1
<1>3. m \in Nat /\ (m < n \/ Parts(path) = path)
  BY <1>2, ShortParts
<1>4. CASE m < 3
  BY <1>4
<1>5. CASE ~(m < 3)
  <2>1. ~(m < n)
    <3> HIDE DEF m, n
    <3> QED
      BY <1>2, <1>3, <1>5
  <2>2. Parts(path) = path
    BY <1>3, <2>1
  <2>3. m = n
    BY <2>2
  <2>4. m < 4 /\ n \notin {1, 2}
    <3> HIDE DEF m, n
    <3> QED
      BY <1>2, <1>5, <2>3
  <2> QED
    BY <1>1, <2>2, <2>4
<1> QED
  BY <1>4, <1>5

\* The parser takes no discovery path for a resource request.
LEMMA DiscoveryIsNoResource ==
  ASSUME NEW q, q.path \in Seq(STRING), IsDiscoveryPath(q.path)
  PROVE  Parse(q) = NonResource(q)
  BY DiscoveryParts DEF Parse

\* Parsing keeps the path the filter will look at.
LEMMA PathKept ==
  ASSUME NEW q, Parse(q) # Unparsable
  PROVE  Parse(q).path = q.path
  BY DEF Parse, ParseResource, NonResource

\* Of the permitted paths under /api and /apis that are no resource's, the
\* filter knows every one.
LEMMA PermittedDiscovers ==
  ASSUME NEW path \in Seq(STRING), NonResourcePermitted(path)
  PROVE  IsDiscoveryPath(path) <=> path # <<>> /\ path[1] \in {"api", "apis"}
<1>1. CASE path \in exactPaths
  BY <1>1 DEF exactPaths, IsDiscoveryPath
<1>2. CASE Len(path) \in {2, 3} /\ path[1] = "apis"
  BY <1>2 DEF IsDiscoveryPath
<1>3. CASE Len(path) >= 3 /\ path[1] = "openapi"
  BY <1>3 DEF IsDiscoveryPath
<1> QED
  BY <1>1, <1>2, <1>3 DEF NonResourcePermitted

\* Of the requests the parser makes of a path, those permitted on a discovery
\* path are filtered as discovery documents, and no others.
THEOREM DiscoveryRoutedHolds ==
  ASSUME \A r \in Requests :
            \E q : q.path \in Seq(STRING) /\ Parse(q) # Unparsable /\ r = Parse(q)
  PROVE  Spec => []DiscoveryRouted
<1>1. IInv => DiscoveryRouted
  <2> SUFFICES ASSUME IInv, allowed
               PROVE  IsDiscoveryPath(req.path) <=>
                         ~req.isResource /\ req.path # <<>> /\ req.path[1] \in {"api", "apis"}
    BY DEF DiscoveryRouted
  <2>1. Authorize(Cfg, req) /\ req \in Requests
    BY DEF IInv, Decided
  <2>2. PICK q : q.path \in Seq(STRING) /\ Parse(q) # Unparsable /\ req = Parse(q)
    BY <2>1
  <2>3. req.path = q.path
    BY <2>2, PathKept
  <2>4. CASE req.isResource
    <3>1. ~NonResource(q).isResource
      BY DEF NonResource
    <3> QED
      BY <2>2, <2>3, <2>4, <3>1, DiscoveryIsNoResource
  <2>5. CASE ~req.isResource
    BY <2>1, <2>2, <2>3, <2>5, PermittedDiscovers DEF Authorize, AuthorizesResourceKind
  <2> QED
    BY <2>4, <2>5
<1> QED
  BY <1>1, Invariant, PTL
=============================================================================
