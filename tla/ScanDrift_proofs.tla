--------------------------- MODULE ScanDrift_proofs ---------------------------
(***************************************************************************)
(* Proofs about ScanDrift, for any modules, issues, thresholds and number  *)
(* of reports written.                                                     *)
(***************************************************************************)
EXTENDS ScanDrift, TLAPS

(***************************************************************************)
(* The drift partitions the findings: what compare_scans shows of the      *)
(* current report is either added or persistent, what it shows of the      *)
(* baseline is resolved or still there, and no key is both.                *)
(***************************************************************************)
THEOREM DriftPartitions ==
    ASSUME NEW R, NEW S, NEW b \in Tables(R), NEW c \in Tables(S)
    PROVE  LET d == CompareScans(b, c)
           IN  /\ Keys(d.added) \cup Keys(d.persistent) = Keys(S)
               /\ Keys(d.resolved) \cup Keys(d.persistent) = Keys(R)
               /\ Keys(d.added) \cap Keys(R) = {}
               /\ Keys(d.resolved) \cap Keys(S) = {}
  <1> DEFINE d == CompareScans(b, c)
  <1>1. DOMAIN b = Keys(R) /\ DOMAIN c = Keys(S)
    BY DEF Tables
  <1>2. \A k \in DOMAIN b : FindingKey(b[k]) = k
    BY DEF Tables
  <1>3. \A k \in DOMAIN c : FindingKey(c[k]) = k
    BY DEF Tables
  <1>4. Keys(d.added) = DOMAIN c \ DOMAIN b
    BY <1>3, Zenon DEF Keys, CompareScans
  <1>5. Keys(d.resolved) = DOMAIN b \ DOMAIN c
    BY <1>2 DEF Keys, CompareScans
  <1>6. Keys(d.persistent) = DOMAIN c \cap DOMAIN b
    BY <1>3 DEF Keys, CompareScans
  <1> QED
    BY <1>1, <1>4, <1>5, <1>6

-----------------------------------------------------------------------------
(***************************************************************************)
(* Lemmas about the contents of a path and the type of a drift.            *)
(***************************************************************************)
LEMMA HoldingContent ==
    \A k \in {"absent", "torn", "foreign"} : Holding(k) \in Content
  BY DEF Content

LEMMA ContentKind ==
    \A c \in Content : c.kind \in {"report", "absent", "torn", "foreign"}
  BY DEF Content, Report, Holding

LEMMA ContentThreshold ==
    \A c \in Content : c.threshold \in Int
  <1>1. \A c \in Report : c.threshold \in Int
    BY ThresholdAssumption DEF Report
  <1>2. \A k : Holding(k).threshold \in Int
    BY DEF Holding
  <1> QED
    BY <1>1, <1>2 DEF Content

LEMMA ReportedType ==
    ASSUME NEW c \in Content
    PROVE  Reported(c) \subseteq Issues
  BY DEF Reported, Content, Report, Holding

LEMMA CompareType ==
    ASSUME NEW R, NEW S, R \subseteq Issues, S \subseteq Issues,
           NEW b \in Tables(R), NEW c \in Tables(S)
    PROVE  CompareScans(b, c) \in
               [added : SUBSET Issues, resolved : SUBSET Issues,
                persistent : SUBSET Issues]
  <1>1. \A k \in DOMAIN b : b[k] \in Issues
    BY DEF Tables
  <1>2. \A k \in DOMAIN c : c[k] \in Issues
    BY DEF Tables
  <1> QED
    BY <1>1, <1>2 DEF CompareScans

-----------------------------------------------------------------------------
(***************************************************************************)
(* The state is well typed.                                                *)
(***************************************************************************)
LEMMA InitTypeOK == Init => TypeOK
  BY HoldingContent, BoundAssumption DEF Init, TypeOK, NoDrift, Path

LEMMA NextTypeOK == TypeOK /\ [Next]_vars => TypeOK'
  <1> SUFFICES ASSUME TypeOK, [Next]_vars
               PROVE  TypeOK'
    OBVIOUS
  <1> USE DEF TypeOK
  <1>1. ASSUME NEW p \in Path, BeginWrite(p)
        PROVE  TypeOK'
    <2>1. PICK c \in Report \cup {Holding("foreign")} :
              writing' = [writing EXCEPT ![p] = c]
      BY <1>1 DEF BeginWrite
    <2>2. c \in Content
      BY HoldingContent DEF Content
    <2>3. writes' \in 0 .. MaxWrites
      BY <1>1, BoundAssumption DEF BeginWrite
    <2> QED
      BY <1>1, <2>1, <2>2, <2>3, HoldingContent DEF BeginWrite
  <1>2. ASSUME NEW p \in Path, EndWrite(p)
        PROVE  TypeOK'
    BY <1>2, HoldingContent DEF EndWrite
  <1>3. ASSUME NEW p \in Path, AbandonWrite(p)
        PROVE  TypeOK'
    BY <1>3, HoldingContent DEF AbandonWrite
  <1>4. ASSUME NEW p \in Path, Remove(p)
        PROVE  TypeOK'
    BY <1>4, HoldingContent DEF Remove
  <1>5. CASE TooFewFiles
    BY <1>5 DEF TooFewFiles, Return
  <1>6. CASE CheckPaths
    BY <1>6 DEF CheckPaths, Return, Path
  <1>7. ASSUME NEW p \in Path, Load(p)
        PROVE  TypeOK'
    BY <1>7 DEF Load, Return, Path
  <1>8. CASE Compare
    <2>1. PICK b \in Tables(Reported(loaded["baseline"])),
               c \in Tables(Reported(loaded["current"])) : drift' = CompareScans(b, c)
      BY <1>8 DEF Compare
    <2>2. /\ Reported(loaded["baseline"]) \subseteq Issues
          /\ Reported(loaded["current"]) \subseteq Issues
      BY ReportedType DEF Path
    <2>3. drift' \in [added : SUBSET Issues, resolved : SUBSET Issues,
                      persistent : SUBSET Issues]
      BY <2>1, <2>2, CompareType
    <2>4. exit' \in {0, 1, 2} /\ pc' = "done"
      BY <1>8 DEF Compare, Return
    <2> QED
      BY <1>8, <2>3, <2>4 DEF Compare
  <1>9. CASE UNCHANGED vars
    BY <1>9 DEF vars
  <1> QED
    BY <1>1, <1>2, <1>3, <1>4, <1>5, <1>6, <1>7, <1>8, <1>9
    DEF Next, Diff, Scans, Done

(***************************************************************************)
(* Whatever scans write, remove and abandon, the two paths and cmd_diff    *)
(* stay in their types; in particular the drift shows issues of the host   *)
(* and the exit code is 0, 1 or 2.                                         *)
(***************************************************************************)
THEOREM TypeCorrect == Spec => []TypeOK
  BY InitTypeOK, NextTypeOK, PTL DEF Spec

-----------------------------------------------------------------------------
(***************************************************************************)
(* The inductive invariant.                                                *)
(***************************************************************************)
LEMMA InitDriftInv == Init => DriftInv
  BY DEF Init, DriftInv, Judged

LEMMA NextDriftInv == TypeOK /\ DriftInv /\ [Next]_vars => DriftInv'
  <1> SUFFICES ASSUME TypeOK, DriftInv, [Next]_vars
               PROVE  DriftInv'
    OBVIOUS
  <1> USE DEF DriftInv, Judged, Whole
  <1>1. CASE Scans
    <2>1. UNCHANGED <<pc, loaded, drift, exit>>
      BY <1>1 DEF Scans, BeginWrite, EndWrite, AbandonWrite, Remove
    <2> QED
      BY <2>1
  <1>2. CASE TooFewFiles
    BY <1>2 DEF TooFewFiles, Return
  <1>3. CASE CheckPaths
    BY <1>3 DEF CheckPaths, Return
  <1>4. ASSUME NEW p \in Path, Load(p)
        PROVE  DriftInv'
    <2>1. loaded \in [Path -> Content] /\ file[p] \in Content
      BY DEF TypeOK
    <2>2. CASE file[p].kind \in {"absent", "torn"}
      BY <1>4, <2>2 DEF Load, Return
    <2>3. CASE file[p].kind \notin {"absent", "torn"}
      <3>1. file[p].kind \in {"report", "foreign"}
        BY <2>1, <2>3, ContentKind
      <3>2. loaded' = [loaded EXCEPT ![p] = file[p]] /\ pc' # "done"
        BY <1>4, <2>3 DEF Load, Path
      <3> QED
        BY <1>4, <2>1, <2>3, <3>1, <3>2 DEF Load, Path
    <2> QED
      BY <2>2, <2>3
  <1>5. CASE Compare
    BY <1>5 DEF Compare, Return
  <1>6. CASE UNCHANGED vars
    BY <1>6 DEF vars
  <1> QED
    BY <1>1, <1>2, <1>3, <1>4, <1>5, <1>6 DEF Next, Diff, Done

(***************************************************************************)
(* What cmd_diff judges was whole when loaded, and its verdict is that of  *)
(* compare_scans on it.                                                    *)
(***************************************************************************)
THEOREM DriftInvariant == Spec => []DriftInv
  BY InitTypeOK, NextTypeOK, InitDriftInv, NextDriftInv, PTL DEF Spec

-----------------------------------------------------------------------------
(***************************************************************************)
(* What the properties need of the inductive invariant.                    *)
(***************************************************************************)
LEMMA KeyEquality ==
    ASSUME NEW i, NEW k
    PROVE  FindingKey(i) = FindingKey(k) <=>
               i.module = k.module /\ i.title = k.title /\ i.severity = k.severity
  BY DEF FindingKey

LEMMA AddedEmpty ==
    ASSUME NEW R, NEW S, NEW b \in Tables(R), NEW c \in Tables(S)
    PROVE  CompareScans(b, c).added = {} <=> Keys(S) \subseteq Keys(R)
  <1>1. DOMAIN b = Keys(R) /\ DOMAIN c = Keys(S)
    BY DEF Tables
  <1> QED
    BY <1>1 DEF CompareScans

(***************************************************************************)
(* The gate of the drift analysis is sound and complete, key for key.      *)
(***************************************************************************)
LEMMA GateFromInv == DriftInv => PassMeansNothingNew
  <1> SUFFICES ASSUME DriftInv, Judged
               PROVE  PassMeansNothingNew
    BY DEF PassMeansNothingNew
  <1> DEFINE R == Reported(loaded["baseline"])
             S == Reported(loaded["current"])
  <1>1. {loaded["baseline"].kind, loaded["current"].kind} \subseteq {"report", "foreign"}
    BY DEF DriftInv, Whole
  <1>2. PICK b \in Tables(R), c \in Tables(S) : drift = CompareScans(b, c)
    BY DEF DriftInv
  <1>3. exit = 0 <=> Keys(S) \subseteq Keys(R)
    BY <1>2, AddedEmpty DEF DriftInv
  <1>4. Keys(S) \subseteq Keys(R) <=>
            \A i \in S : \E k \in R : FindingKey(i) = FindingKey(k)
    <2>1. ASSUME NEW i \in S
          PROVE  FindingKey(i) \in Keys(R) <=> \E k \in R : FindingKey(i) = FindingKey(k)
      BY Zenon DEF Keys
    <2>2. Keys(S) \subseteq Keys(R) <=> \A i \in S : FindingKey(i) \in Keys(R)
      BY Zenon DEF Keys
    <2> QED
      BY <2>1, <2>2, Zenon
  <1>5. (\A i \in S : \E k \in R : FindingKey(i) = FindingKey(k)) <=>
            \A i \in S : \E k \in R :
                i.module = k.module /\ i.title = k.title /\ i.severity = k.severity
    BY KeyEquality, Zenon
  <1> QED
    BY <1>1, <1>3, <1>4, <1>5 DEF PassMeansNothingNew

THEOREM PassIsSound == Spec => []PassMeansNothingNew
  BY DriftInvariant, GateFromInv, PTL

(***************************************************************************)
(* Nothing is called resolved without a reason.                            *)
(***************************************************************************)
LEMMA ResolvedFromInv == TypeOK /\ DriftInv => ResolvedIsExplained
  <1> SUFFICES ASSUME TypeOK, DriftInv, Judged, NEW f \in drift.resolved
               PROVE  /\ f \in loaded["baseline"].issues
                      /\ \/ f \notin loaded["current"].issues
                         \/ f.module \notin loaded["current"].ran
                         \/ f.severity < loaded["current"].threshold
    BY DEF ResolvedIsExplained
  <1> DEFINE R == Reported(loaded["baseline"])
             S == Reported(loaded["current"])
  <1>1. PICK b \in Tables(R), c \in Tables(S) : drift = CompareScans(b, c)
    BY DEF DriftInv
  <1>2. PICK k \in DOMAIN b \ DOMAIN c : f = b[k]
    BY <1>1 DEF CompareScans
  <1>3. f \in R /\ FindingKey(f) \notin Keys(S)
    BY <1>2 DEF Tables
  <1>4. f \notin S
    BY <1>3 DEF Keys
  <1>5. loaded["baseline"] \in Content /\ loaded["current"] \in Content
    BY DEF TypeOK, Path
  <1>6. f.severity \in Int
    BY <1>3, <1>5, ReportedType, IssueAssumption
  <1>7. loaded["current"].threshold \in Int
    BY <1>5, ContentThreshold
  <1> QED
    BY <1>3, <1>4, <1>6, <1>7 DEF Reported

THEOREM ResolvedHasReason == Spec => []ResolvedIsExplained
  BY TypeCorrect, DriftInvariant, ResolvedFromInv, PTL

-----------------------------------------------------------------------------
(***************************************************************************)
(* Where the key tells the findings apart, a table holds them all, and the *)
(* comparison is that of the sets of findings.                             *)
(***************************************************************************)
LEMMA InjectiveCompare ==
    ASSUME NEW R, NEW S, NEW b \in Tables(R), NEW c \in Tables(S),
           \A i, k \in R \cup S : FindingKey(i) = FindingKey(k) => i = k
    PROVE  CompareScans(b, c) =
               [added |-> S \ R, resolved |-> R \ S, persistent |-> R \cap S]
  <1>1. DOMAIN b = Keys(R) /\ DOMAIN c = Keys(S)
    BY DEF Tables
  <1>2. \A k \in Keys(R) : b[k] \in R /\ FindingKey(b[k]) = k
    BY DEF Tables
  <1>3. \A k \in Keys(S) : c[k] \in S /\ FindingKey(c[k]) = k
    BY DEF Tables
  <1>4. \A i \in R : FindingKey(i) \in Keys(R) /\ b[FindingKey(i)] = i
    <2> SUFFICES ASSUME NEW i \in R
                 PROVE  FindingKey(i) \in Keys(R) /\ b[FindingKey(i)] = i
      OBVIOUS
    <2>1. FindingKey(i) \in Keys(R)
      BY DEF Keys
    <2> QED
      BY <2>1, <1>2
  <1>5. \A i \in S : FindingKey(i) \in Keys(S) /\ c[FindingKey(i)] = i
    <2> SUFFICES ASSUME NEW i \in S
                 PROVE  FindingKey(i) \in Keys(S) /\ c[FindingKey(i)] = i
      OBVIOUS
    <2>1. FindingKey(i) \in Keys(S)
      BY DEF Keys
    <2> QED
      BY <2>1, <1>3
  <1>6. \A i \in R \cup S : /\ FindingKey(i) \in Keys(R) <=> i \in R
                           /\ FindingKey(i) \in Keys(S) <=> i \in S
    BY <1>2, <1>3, <1>4, <1>5
  <1>7. {c[k] : k \in DOMAIN c \ DOMAIN b} = S \ R
    BY <1>1, <1>3, <1>5, <1>6
  <1>8. {b[k] : k \in DOMAIN b \ DOMAIN c} = R \ S
    BY <1>1, <1>2, <1>4, <1>6
  <1>9. {c[k] : k \in DOMAIN c \cap DOMAIN b} = R \cap S
    BY <1>1, <1>3, <1>5, <1>6
  <1> QED
    BY <1>7, <1>8, <1>9 DEF CompareScans

LEMMA HonestFromInv == DriftInv => HonestWhenComparable
  <1> DEFINE b == loaded["baseline"]
             c == loaded["current"]
             Seen(T) == {i \in T : i.module \in b.ran /\ i.severity >= b.threshold}
             R == Reported(b)
             S == Reported(c)
  <1> SUFFICES ASSUME DriftInv, Judged, b.ran = c.ran, b.threshold = c.threshold,
                      \A i, k \in b.issues \cup c.issues :
                          i.module = k.module /\ i.title = k.title
                              /\ i.severity = k.severity => i = k
               PROVE  drift = [added      |-> Seen(c.issues \ b.issues),
                               resolved   |-> Seen(b.issues \ c.issues),
                               persistent |-> Seen(b.issues \cap c.issues)]
    BY Zenon DEF HonestWhenComparable
  <1>1. R = Seen(b.issues) /\ S = Seen(c.issues)
    BY DEF Reported
  <1>2. \A i, k \in R \cup S : FindingKey(i) = FindingKey(k) => i = k
    BY <1>1, KeyEquality
  <1>3. PICK t \in Tables(R), u \in Tables(S) : drift = CompareScans(t, u)
    BY DEF DriftInv
  <1>4. drift = [added |-> S \ R, resolved |-> R \ S, persistent |-> R \cap S]
    BY <1>2, <1>3, InjectiveCompare
  <1>5. /\ S \ R = Seen(c.issues \ b.issues)
        /\ R \ S = Seen(b.issues \ c.issues)
        /\ R \cap S = Seen(b.issues \cap c.issues)
    BY <1>1
  <1> QED
    BY <1>4, <1>5

(***************************************************************************)
(* Between comparable reports the drift is the truth.                      *)
(***************************************************************************)
THEOREM DriftIsHonest == Spec => []HonestWhenComparable
  BY DriftInvariant, HonestFromInv, PTL
=============================================================================
