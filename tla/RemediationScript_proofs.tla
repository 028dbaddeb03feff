---------------------- MODULE RemediationScript_proofs ----------------------
(***************************************************************************)
(* Theorems about RemediationScript, for any remediation texts and any     *)
(* number of findings.                                                     *)
(***************************************************************************)
EXTENDS RemediationScript, TLAPS

(***************************************************************************)
(* What a finding adds to the script: the lines of its title, and as many  *)
(* note lines and command lines as its remediation has lines.              *)
(***************************************************************************)
LEMMA TwoParts ==
    ASSUME NEW S, NEW a \in Seq(S), NEW b \in Seq(S)
    PROVE  /\ a \o b \in Seq(S) /\ Len(a \o b) = Len(a) + Len(b)
           /\ \A k \in 1 .. Len(a) : (a \o b)[k] = a[k]
           /\ \A k \in (Len(a) + 1) .. (Len(a) + Len(b)) : (a \o b)[k] = b[k - Len(a)]
OBVIOUS

LEMMA ThreeParts ==
    ASSUME NEW S, NEW a \in Seq(S), NEW b \in Seq(S), NEW c \in Seq(S)
    PROVE  LET q == a \o b \o c
               l == Len(a)
               m == Len(b)
               n == Len(c)
           IN  /\ q \in Seq(S) /\ DOMAIN q = 1 .. (l + m + n)
               /\ \A k \in 1 .. l : q[k] = a[k]
               /\ \A k \in (l + 1) .. (l + m) : q[k] = b[k - l]
               /\ \A k \in (l + m + 1) .. (l + m + n) : q[k] = c[k - (l + m)]
<1> DEFINE l  == Len(a)
           m  == Len(b)
           n  == Len(c)
           ab == a \o b
           q  == ab \o c
<1>1. l \in Nat /\ m \in Nat /\ n \in Nat
  OBVIOUS
<1>2. /\ ab \in Seq(S) /\ Len(ab) = l + m
      /\ \A k \in 1 .. l : ab[k] = a[k]
      /\ \A k \in (l + 1) .. (l + m) : ab[k] = b[k - l]
  BY TwoParts
<1> HIDE DEF ab
<1>3. /\ q \in Seq(S) /\ Len(q) = l + m + n
      /\ \A k \in 1 .. (l + m) : q[k] = ab[k]
      /\ \A k \in (l + m + 1) .. (l + m + n) : q[k] = c[k - (l + m)]
  <2>0. ab \in Seq(S)
    BY <1>2
  <2>1. /\ q \in Seq(S) /\ Len(q) = Len(ab) + Len(c)
        /\ \A k \in 1 .. Len(ab) : q[k] = ab[k]
        /\ \A k \in (Len(ab) + 1) .. (Len(ab) + Len(c)) : q[k] = c[k - Len(ab)]
    BY <2>0
  <2> QED BY <1>2, <2>1, Zenon
<1> HIDE DEF q
<1>4. DOMAIN q = 1 .. (l + m + n)
  BY <1>3
<1>5. \A k \in 1 .. l : k \in 1 .. (l + m)
  BY <1>1
<1>6. \A k \in (l + 1) .. (l + m) : k \in 1 .. (l + m)
  BY <1>1
<1> QED BY <1>2, <1>3, <1>4, <1>5, <1>6, Zenon DEF q, ab

LEMMA TextsAreSeqs ==
    ASSUME TypeOK, NEW i \in DOMAIN findings
    PROVE  /\ findings[i].remediation \in Seq([form : Form]) /\ i \in Nat
           /\ findings[i].title \in Nat \ {0}
<1>1. DOMAIN findings = 1 .. Len(findings) /\ findings \in Seq(Finding)
  BY DEF TypeOK
<1>2. findings[i] \in Finding /\ i \in Nat
  BY <1>1
<1>3. findings[i].remediation \in Remediations /\ findings[i].title \in Titles
  BY <1>2 DEF Finding
<1> QED BY <1>2, <1>3, RemediationAssumption

LEMMA AddedLines ==
    ASSUME TypeOK, NEW i \in DOMAIN findings
    PROVE  /\ Title(i) \in Seq(Items) /\ Note(i) \in Seq(Items)
           /\ Commands(i) \in Seq(Items)
           /\ Len(Title(i)) = findings[i].title
           /\ Len(Note(i)) = Len(findings[i].remediation)
           /\ Len(Commands(i)) = Len(findings[i].remediation)
<1> DEFINE r == findings[i].remediation
           t == findings[i].title
<1>1. r \in Seq([form : Form]) /\ i \in Nat /\ t \in Nat
  BY TextsAreSeqs
<1>2. DOMAIN r = 1 .. Len(r) /\ Len(r) \in Nat
  BY <1>1
<1>3. Note(i) \in [1 .. Len(r) -> Items]
  <2>1. \A k \in DOMAIN r : Item(IF k = 1 THEN "comment" ELSE "spill", i, k) \in Items
    BY <1>1, <1>2 DEF Item, Items, Kinds
  <2> QED BY <1>2, <2>1 DEF Note
<1>4. Commands(i) \in [1 .. Len(r) -> Items]
  <2>1. \A k \in DOMAIN r :
            Item(IF Recognised(r[k]) THEN "command" ELSE "nothing", i, k) \in Items
    BY <1>1, <1>2 DEF Item, Items, Kinds
  <2> QED BY <1>2, <2>1 DEF Commands
<1>5. Title(i) \in [1 .. t -> Items]
  <2>1. \A k \in 1 .. t : Item(IF k = 1 THEN "title" ELSE "overflow", i, k) \in Items
    BY <1>1 DEF Item, Items, Kinds
  <2> QED BY <2>1 DEF Title
<1>6. \A n \in Nat : \A q \in [1 .. n -> Items] : q \in Seq(Items) /\ Len(q) = n
  OBVIOUS
<1> QED BY <1>1, <1>2, <1>3, <1>4, <1>5, <1>6

-----------------------------------------------------------------------------
(***************************************************************************)
(* Type correctness.                                                       *)
(***************************************************************************)
LEMMA InitTypeOK == Init => TypeOK
<1> SUFFICES ASSUME Init PROVE TypeOK
  OBVIOUS
<1>1. findings \in Seq(Finding)
  BY RemediationAssumption DEF Init
<1>2. <<>> \in Seq(Items) /\ Len(<<>>) = 0
  OBVIOUS
<1>3. script \in Seq(Items) /\ ran \in Seq(Items) /\ written \in 0 .. Len(script)
  BY <1>2 DEF Init
<1>4. next \in Nat \ {0} /\ pc \in {"generate", "bash", "exited"} /\ exit \in {-1, 0, 1}
  BY DEF Init
<1>5. whole \in BOOLEAN /\ announced \in BOOLEAN
  BY DEF Init
<1> QED BY <1>1, <1>3, <1>4, <1>5, Zenon DEF TypeOK

LEMMA NextTypeOK == TypeOK /\ [Next]_vars => TypeOK'
<1> SUFFICES ASSUME TypeOK, [Next]_vars PROVE TypeOK'
  OBVIOUS
<1> USE DEF TypeOK
<1>1. CASE AddFinding
  <2>1. next \in DOMAIN findings
    BY <1>1 DEF AddFinding
  <2>2. Section(next) \in Seq(Items)
    BY <2>1, AddedLines DEF Section
  <2>3. script \o Section(next) \in Seq(Items)
    BY <2>2
  <2>4. Len(script) <= Len(script \o Section(next))
    BY <2>2
  <2>5. script' \in Seq(Items) /\ Len(script) <= Len(script')
    BY <1>1, <2>3, <2>4 DEF AddFinding
  <2> QED BY <1>1, <2>5 DEF AddFinding
<1>2. CASE WriteAndRun
  BY <1>2 DEF WriteAndRun
<1>3. CASE RunLine
  <2>1. next \in 1 .. Len(script)
    BY <1>3 DEF RunLine
  <2>2. script[next] \in Items
    BY <2>1
  <2>3. ran' \in Seq(Items)
    BY <1>3, <2>2 DEF RunLine
  <2> QED BY <1>3, <2>3 DEF RunLine
<1>4. CASE LineFails
  BY <1>4 DEF LineFails
<1>5. CASE EndOfScript
  BY <1>5 DEF EndOfScript
<1>6. CASE UNCHANGED vars
  BY <1>6 DEF vars
<1> QED BY <1>1, <1>2, <1>3, <1>4, <1>5, <1>6 DEF Next, Done

(***************************************************************************)
(* The state of the generator and of the shell is well typed.              *)
(***************************************************************************)
THEOREM TypeCorrect == Spec => []TypeOK
BY InitTypeOK, NextTypeOK, PTL DEF Spec
-----------------------------------------------------------------------------
(***************************************************************************)
(* What a serious finding adds is well made, ordered and covers its        *)
(* recognised lines.                                                       *)
(***************************************************************************)
LEMMA AddedItems ==
    ASSUME TypeOK, NEW i \in DOMAIN findings, Serious(findings[i])
    PROVE  LET r   == findings[i].remediation
               add == Section(i)
           IN  /\ add \in Seq(Items)
               /\ \A n \in DOMAIN add : WellMade(add[n]) /\ add[n].finding = i
               /\ \A m, n \in DOMAIN add : m < n => Before(add[m], add[n])
               /\ \A k \in DOMAIN r : Recognised(r[k]) =>
                      \E n \in DOMAIN add : add[n] = Item("command", i, k)
<1> DEFINE r   == findings[i].remediation
           top == findings[i].title
           len == Len(r)
           add == Section(i)
           T   == 1 .. top
           N   == (top + 1) .. (top + len)
           C   == (top + len + 1) .. (top + len + len)
<1>1. r \in Seq([form : Form]) /\ i \in Nat /\ top \in Nat
  BY TextsAreSeqs
<1>2. len \in Nat /\ DOMAIN r = 1 .. len
  BY <1>1
<1>3. /\ Title(i) \in Seq(Items) /\ Note(i) \in Seq(Items) /\ Commands(i) \in Seq(Items)
      /\ Len(Title(i)) = top /\ Len(Note(i)) = len /\ Len(Commands(i)) = len
  BY AddedLines
<1>4. /\ add \in Seq(Items) /\ DOMAIN add = 1 .. (top + len + len)
      /\ \A n \in T : add[n] = Title(i)[n]
      /\ \A n \in N : add[n] = Note(i)[n - top]
      /\ \A n \in C : add[n] = Commands(i)[n - (top + len)]
  <2> DEFINE a == Title(i)
             b == Note(i)
             c == Commands(i)
  <2>1. a \in Seq(Items) /\ b \in Seq(Items) /\ c \in Seq(Items)
    BY <1>3
  <2>2. Len(a) = top /\ Len(b) = len /\ Len(c) = len
    BY <1>3
  <2>3. add = a \o b \o c
    BY DEF Section
  <2> HIDE DEF a, b, c, add, len, top
  <2>4. /\ add \in Seq(Items) /\ DOMAIN add = 1 .. (Len(a) + Len(b) + Len(c))
        /\ \A n \in 1 .. Len(a) : add[n] = a[n]
        /\ \A n \in (Len(a) + 1) .. (Len(a) + Len(b)) : add[n] = b[n - Len(a)]
        /\ \A n \in (Len(a) + Len(b) + 1) .. (Len(a) + Len(b) + Len(c)) :
               add[n] = c[n - (Len(a) + Len(b))]
    BY <2>1, <2>3, ThreeParts
  <2> QED BY <2>2, <2>4, Zenon DEF a, b, c
<1>5. \A n \in T :
          /\ add[n].kind \in {"title", "overflow"}
          /\ add[n].kind = "overflow" => n > 1
          /\ add[n].finding = i /\ add[n].line = n
  <2> TAKE n \in T
  <2>1. Title(i)[n] = Item(IF n = 1 THEN "title" ELSE "overflow", i, n)
    BY DEF Title
  <2>2. add[n] = Item(IF n = 1 THEN "title" ELSE "overflow", i, n)
    BY <1>4, <2>1
  <2>3. n \in Nat /\ (n # 1 => n > 1)
    BY <1>1
  <2> HIDE DEF add
  <2>4. CASE n = 1
    BY <2>2, <2>4 DEF Item
  <2>5. CASE n # 1
    <3>1. add[n] = Item("overflow", i, n)
      BY <2>2, <2>5
    <3>2. n > 1
      BY <2>3, <2>5
    <3> QED BY <3>1, <3>2 DEF Item
  <2> QED BY <2>4, <2>5
<1>6. \A n \in N :
          /\ add[n].kind \in {"comment", "spill"} /\ (add[n].kind = "spill" => n - top > 1)
          /\ add[n].finding = i /\ add[n].line = n - top /\ n - top \in 1 .. len
  <2> TAKE n \in N
  <2>1. n - top \in 1 .. len
    BY <1>1, <1>2
  <2>2. add[n] = Item(IF n - top = 1 THEN "comment" ELSE "spill", i, n - top)
    BY <1>2, <1>4, <2>1 DEF Note
  <2> QED BY <1>2, <2>1, <2>2 DEF Item
<1>7. \A n \in C :
          /\ n - (top + len) \in 1 .. len
          /\ add[n] = Item(IF Recognised(r[n - (top + len)]) THEN "command" ELSE "nothing",
                           i, n - (top + len))
  <2> TAKE n \in C
  <2>1. n - (top + len) \in 1 .. len
    BY <1>1, <1>2
  <2> QED BY <1>2, <1>4, <2>1 DEF Commands
<1>8. \A n \in C :
          /\ add[n].kind \in {"command", "nothing"}
          /\ add[n].kind = "command" <=> Recognised(r[n - (top + len)])
          /\ add[n].finding = i /\ add[n].line = n - (top + len)
          /\ n - (top + len) \in 1 .. len
  <2> TAKE n \in C
  <2> DEFINE k == n - (top + len)
  <2>1. CASE Recognised(r[k])
    <3>1. add[n] = Item("command", i, k)
      BY <1>7, <2>1
    <3> QED BY <1>7, <2>1, <3>1 DEF Item
  <2>2. CASE ~Recognised(r[k])
    <3>1. add[n] = Item("nothing", i, k)
      BY <1>7, <2>2
    <3> QED BY <1>7, <2>2, <3>1 DEF Item
  <2> QED BY <2>1, <2>2
<1>s. \A n \in DOMAIN add : n \in T \/ n \in N \/ n \in C
  BY <1>1, <1>2, <1>4
<1> HIDE DEF len, top, add
<1>9. \A n \in DOMAIN add : WellMade(add[n]) /\ add[n].finding = i
  <2> TAKE n \in DOMAIN add
  <2>1. CASE n \in T
    BY <1>2, <1>5, <2>1 DEF WellMade, Text, OfTitle, top
  <2>2. CASE n \in N
    BY <1>2, <1>6, <2>2 DEF WellMade, Text, OfTitle
  <2>3. CASE n \in C
    BY <1>2, <1>8, <2>3 DEF WellMade, Text, OfTitle
  <2> QED BY <1>s, <2>1, <2>2, <2>3
<1>o. ASSUME NEW m \in DOMAIN add, NEW n \in DOMAIN add, m < n
      PROVE  Before(add[m], add[n])
  <2>1. add[m].finding <= add[n].finding
    BY <1>1, <1>9
  <2>2. CASE m \in T /\ n \in T
    BY <1>5, <1>o, <2>1, <2>2 DEF Before
  <2>3. CASE m \in N /\ n \in N
    <3>1. m - top < n - top
      BY <1>1, <1>o, <2>3
    <3> QED BY <1>6, <2>1, <2>3, <3>1 DEF Before
  <2>4. CASE m \in C /\ n \in C
    <3>1. m - (top + len) < n - (top + len)
      BY <1>1, <1>2, <1>o, <2>4
    <3> QED BY <1>8, <2>1, <2>4, <3>1 DEF Before
  <2>5. CASE \/ m \in T /\ n \in N
             \/ m \in T /\ n \in C
             \/ m \in N /\ n \in C
    <3>1. add[m].kind # add[n].kind
      BY <1>5, <1>6, <1>8, <2>5
    <3> QED BY <2>1, <3>1 DEF Before
  <2>6. ~(n \in T /\ m \in N) /\ ~(n \in T /\ m \in C) /\ ~(n \in N /\ m \in C)
    BY <1>1, <1>2, <1>o
  <2> QED BY <1>s, <2>2, <2>3, <2>4, <2>5, <2>6
<1>10. ASSUME NEW k \in DOMAIN r, Recognised(r[k])
       PROVE  \E n \in DOMAIN add : add[n] = Item("command", i, k)
  <2> DEFINE n == top + len + k
  <2>1. n \in C /\ n \in 1 .. (top + len + len) /\ n - (top + len) = k
    BY <1>1, <1>2
  <2> HIDE DEF n
  <2>2. add[n] = Item("command", i, k)
    BY <1>7, <1>10, <2>1
  <2> QED BY <1>4, <2>1, <2>2
<1> QED BY <1>4, <1>9, <1>o, <1>10 DEF add

(***************************************************************************)
(* ScriptInv is inductive.                                                 *)
(***************************************************************************)
LEMMA InitScriptInv == Init => ScriptInv
<1> SUFFICES ASSUME Init PROVE ScriptInv
  OBVIOUS
<1>1. DOMAIN script = {} /\ DOMAIN ran = {} /\ Len(script) = 0
  BY DEF Init
<1>2. LayoutInv /\ OrderInv
  BY <1>1 DEF LayoutInv, OrderInv
<1>3. CoverInv
  <2>1. findings \in Seq(Finding)
    BY InitTypeOK DEF TypeOK
  <2>2. \A i \in DOMAIN findings : ~(i < next)
    BY <2>1 DEF Init
  <2> QED BY <2>2 DEF CoverInv, Init
<1>4. RanInv
  BY <1>1 DEF RanInv, Init
<1> QED BY <1>2, <1>3, <1>4 DEF ScriptInv

LEMMA NextScriptInv == TypeOK /\ ScriptInv /\ [Next]_vars => ScriptInv'
<1> SUFFICES ASSUME TypeOK, ScriptInv, [Next]_vars PROVE ScriptInv'
  OBVIOUS
<1>t. TypeOK'
  BY NextTypeOK
<1>0. /\ next \in Nat \ {0} /\ script \in Seq(Items) /\ ran \in Seq(Items)
      /\ DOMAIN findings = 1 .. Len(findings) /\ Len(findings) \in Nat
      /\ DOMAIN script = 1 .. Len(script) /\ Len(script) \in Nat
      /\ DOMAIN ran = 1 .. Len(ran) /\ Len(ran) \in Nat
  BY DEF TypeOK
<1>w. \A n \in DOMAIN script : script[n].finding \in Nat
  <2> TAKE n \in DOMAIN script
  <2>1. script[n] \in Items
    BY <1>0
  <2> QED BY <2>1 DEF Items
<1>1. CASE AddFinding
  <2>1. /\ pc = "generate" /\ next \in DOMAIN findings /\ pc' = pc
        /\ next' = next + 1 /\ findings' = findings /\ ran' = ran
        /\ written' = written /\ whole' = whole /\ announced' = announced
    BY <1>1 DEF AddFinding
  <2>2. RanInv'
    BY <2>1 DEF ScriptInv, RanInv
  <2>3. CASE ~Serious(findings[next])
    <3>1. script' = script
      BY <1>1, <2>3 DEF AddFinding
    <3>2. LayoutInv'
      <4>1. \A n \in DOMAIN script : script[n].finding < next + 1
        BY <1>0, <1>w, <2>1 DEF ScriptInv, LayoutInv
      <4> QED BY <2>1, <3>1, <4>1 DEF ScriptInv, LayoutInv, WellMade, Text
    <3>3. OrderInv'
      BY <3>1 DEF ScriptInv, OrderInv
    <3>4. CoverInv'
      <4>1. \A i \in DOMAIN findings : i < next + 1 /\ Serious(findings[i]) => i < next
        BY <1>0, <2>3
      <4> QED BY <2>1, <3>1, <4>1 DEF ScriptInv, CoverInv
    <3> QED BY <2>2, <3>2, <3>3, <3>4 DEF ScriptInv
  <2>4. CASE Serious(findings[next])
    <3> DEFINE add == Section(next)
               len == Len(script)
    <3>1. /\ add \in Seq(Items)
          /\ \A n \in DOMAIN add : WellMade(add[n]) /\ add[n].finding = next
          /\ \A m, n \in DOMAIN add : m < n => Before(add[m], add[n])
          /\ \A k \in DOMAIN findings[next].remediation :
                 Recognised(findings[next].remediation[k]) =>
                    \E n \in DOMAIN add : add[n] = Item("command", next, k)
      BY <2>1, <2>4, AddedItems
    <3>2. script' = script \o add
      BY <1>1, <2>4 DEF AddFinding
    <3> HIDE DEF add
    <3>3. /\ DOMAIN add = 1 .. Len(add) /\ Len(add) \in Nat
          /\ DOMAIN script' = 1 .. (len + Len(add))
          /\ \A n \in DOMAIN script : n \in DOMAIN script' /\ script'[n] = script[n]
          /\ \A n \in DOMAIN add :
                 n + len \in DOMAIN script' /\ script'[n + len] = add[n]
      BY <1>0, <3>1, <3>2
    <3>4. \A n \in DOMAIN script' :
              \/ n \in DOMAIN script
              \/ n - len \in DOMAIN add /\ script'[n] = add[n - len]
      BY <1>0, <3>1, <3>2, <3>3
    <3> HIDE DEF len
    <3>5. \A n \in DOMAIN script' : WellMade(script'[n]) /\ script'[n].finding < next + 1
      <4> TAKE n \in DOMAIN script'
      <4>1. CASE n \in DOMAIN script
        <5>1. WellMade(script[n]) /\ script[n].finding < next
          BY <2>1, <4>1 DEF ScriptInv, LayoutInv
        <5>2. script[n].finding \in Nat
          BY <1>w, <4>1
        <5> QED BY <1>0, <3>3, <4>1, <5>1, <5>2
      <4>2. CASE n - len \in DOMAIN add /\ script'[n] = add[n - len]
        BY <1>0, <3>1, <4>2
      <4> QED BY <3>4, <4>1, <4>2
    <3>6. LayoutInv'
      BY <2>1, <3>5 DEF LayoutInv, WellMade, Text
    <3>7. ASSUME NEW m \in DOMAIN script', NEW n \in DOMAIN script', m < n
          PROVE  Before(script'[m], script'[n])
      <4>1. CASE n \in DOMAIN script
        <5>1. m \in DOMAIN script
          BY <1>0, <3>3, <3>7, <4>1
        <5> QED BY <3>3, <3>7, <4>1, <5>1 DEF ScriptInv, OrderInv
      <4>2. CASE m \in DOMAIN script /\ n - len \in DOMAIN add
                 /\ script'[n] = add[n - len]
        <5>1. script[m].finding < next /\ script[m].finding \in Nat
          BY <1>w, <2>1, <4>2 DEF ScriptInv, LayoutInv
        <5>2. script'[m] = script[m] /\ script'[n].finding = next
          BY <3>1, <3>3, <4>2
        <5> QED BY <1>0, <5>1, <5>2 DEF Before
      <4>3. CASE m - len \in DOMAIN add /\ script'[m] = add[m - len]
                 /\ n - len \in DOMAIN add /\ script'[n] = add[n - len]
        <5>1. m - len < n - len
          BY <1>0, <3>3, <3>7 DEF len
        <5> QED BY <3>1, <4>3, <5>1
      <4> QED BY <3>4, <4>1, <4>2, <4>3
    <3>8. OrderInv'
      BY <3>7 DEF OrderInv
    <3>9. CoverInv'
      <4> SUFFICES ASSUME NEW i \in DOMAIN findings, Serious(findings[i]), i < next + 1,
                          NEW k \in DOMAIN findings[i].remediation,
                          Recognised(findings[i].remediation[k])
                   PROVE  \E n \in DOMAIN script' : script'[n] = Item("command", i, k)
        BY <2>1 DEF CoverInv
      <4>1. CASE i < next
        <5>1. PICK n \in DOMAIN script : script[n] = Item("command", i, k)
          BY <4>1 DEF ScriptInv, CoverInv
        <5> QED BY <3>3, <5>1
      <4>2. CASE i = next
        <5>1. PICK n \in DOMAIN add : add[n] = Item("command", i, k)
          BY <3>1, <4>2
        <5> QED BY <3>3, <5>1
      <4> QED BY <1>0, <4>1, <4>2
    <3> QED BY <2>2, <3>6, <3>8, <3>9 DEF ScriptInv
  <2> QED BY <2>3, <2>4
<1>2. CASE WriteAndRun
  <2>1. /\ pc = "generate" /\ next \notin DOMAIN findings /\ pc' \in {"bash", "exited"}
        /\ next' = 1 /\ findings' = findings /\ script' = script /\ ran' = ran
        /\ (whole' => written' = Len(script)) /\ announced' = announced
    BY <1>2 DEF WriteAndRun
  <2>2. LayoutInv' /\ OrderInv'
    BY <2>1 DEF ScriptInv, LayoutInv, OrderInv, WellMade, Text
  <2>3. CoverInv'
    <3>1. \A i \in DOMAIN findings : Serious(findings[i]) => i < next
      BY <1>0, <2>1 
    <3> QED BY <2>1, <3>1 DEF ScriptInv, CoverInv
  <2>4. RanInv'
    <3>1. DOMAIN ran' = {} /\ ~announced'
      BY <2>1 DEF ScriptInv, RanInv
    <3>2. \A p \in DOMAIN script : ~(p < 1)
      BY <1>0
    <3> QED BY <2>1, <3>1, <3>2 DEF RanInv
  <2> QED BY <2>2, <2>3, <2>4 DEF ScriptInv
<1>3. CASE RunLine
  <2>1. /\ pc = "bash" /\ next <= written /\ next' = next + 1 /\ pc' = pc
        /\ findings' = findings /\ script' = script /\ written' = written
        /\ whole' = whole /\ announced' = announced
    BY <1>3 DEF RunLine
  <2>2. LayoutInv' /\ OrderInv' /\ CoverInv'
    BY <2>1 DEF ScriptInv, LayoutInv, OrderInv, CoverInv, WellMade, Text
  <2>3. ~announced
    BY <2>1 DEF ScriptInv, RanInv
  <2>4. next \in DOMAIN script
    BY <1>0, <2>1 DEF TypeOK
  <2>5. CASE ran' = ran /\ (Pass(script[next]) \/ ~whole)
    <3>1. \A p \in DOMAIN script : whole /\ p < next + 1 /\ ~Pass(script[p]) => p < next
      BY <1>0, <2>4, <2>5
    <3>2. \A p \in DOMAIN script : p < next => p < next + 1
      BY <1>0
    <3>3. RanInv'
      BY <2>1, <2>3, <2>5, <3>1, <3>2 DEF ScriptInv, RanInv
    <3> QED BY <2>2, <3>3 DEF ScriptInv
  <2>6. CASE ~Pass(script[next]) /\ ran' = Append(ran, script[next])
    <3> DEFINE last == Len(ran) + 1
    <3>1. /\ DOMAIN ran' = 1 .. last
          /\ \A n \in DOMAIN ran : n \in DOMAIN ran' /\ ran'[n] = ran[n]
          /\ last \in DOMAIN ran' /\ ran'[last] = script[next]
          /\ \A n \in DOMAIN ran' : n \in DOMAIN ran \/ n = last
      BY <1>0, <2>4, <2>6
    <3>2. \A p \in DOMAIN script : p < next => p < next + 1
      BY <1>0
    <3>3. next < next + 1
      BY <1>0
    <3>4. \A n \in DOMAIN ran' :
              ~Pass(ran'[n]) /\ \E p \in DOMAIN script : p < next + 1 /\ ran'[n] = script[p]
      <4> TAKE n \in DOMAIN ran'
      <4>1. CASE n \in DOMAIN ran
        BY <3>1, <3>2, <4>1 DEF ScriptInv, RanInv
      <4>2. CASE n = last
        BY <2>4, <2>6, <3>1, <3>3, <4>2
      <4> QED BY <3>1, <4>1, <4>2
    <3>5. ASSUME NEW m \in DOMAIN ran', NEW n \in DOMAIN ran', m < n
          PROVE  Before(ran'[m], ran'[n])
      <4>1. m \in DOMAIN ran
        BY <1>0, <3>1, <3>5
      <4>2. CASE n \in DOMAIN ran
        BY <3>1, <3>5, <4>1, <4>2 DEF ScriptInv, RanInv
      <4>3. CASE n = last
        <5>1. PICK p \in DOMAIN script : p < next /\ ran[m] = script[p]
          BY <4>1 DEF ScriptInv, RanInv
        <5>2. Before(script[p], script[next])
          BY <2>4, <5>1 DEF ScriptInv, OrderInv
        <5> QED BY <3>1, <4>1, <4>3, <5>1, <5>2
      <4> QED BY <3>1, <4>2, <4>3
    <3>6. whole => \A p \in DOMAIN script :
                      p < next + 1 /\ ~Pass(script[p]) =>
                          \E n \in DOMAIN ran' : ran'[n] = script[p]
      <4> SUFFICES ASSUME whole, NEW p \in DOMAIN script, p < next + 1, ~Pass(script[p])
                   PROVE  \E n \in DOMAIN ran' : ran'[n] = script[p]
        OBVIOUS
      <4>1. CASE p < next
        <5>1. PICK n \in DOMAIN ran : ran[n] = script[p]
          BY <2>1, <4>1 DEF ScriptInv, RanInv
        <5> QED BY <3>1, <5>1
      <4>2. CASE p = next
        BY <3>1, <4>2
      <4> QED BY <1>0, <4>1, <4>2
    <3>7. RanInv'
      BY <2>1, <2>3, <3>4, <3>5, <3>6 DEF ScriptInv, RanInv
    <3> QED BY <2>2, <3>7 DEF ScriptInv
  <2> QED BY <1>3, <2>5, <2>6 DEF RunLine
<1>4. CASE LineFails
  BY <1>4 DEF LineFails, ScriptInv, LayoutInv, OrderInv, CoverInv, RanInv, WellMade, Text
<1>5. CASE EndOfScript
  BY <1>5 DEF EndOfScript, ScriptInv, LayoutInv, OrderInv, CoverInv, RanInv, WellMade, Text
<1>6. CASE UNCHANGED vars
  BY <1>6 DEF vars, ScriptInv, LayoutInv, OrderInv, CoverInv, RanInv, WellMade, Text
<1> QED BY <1>1, <1>2, <1>3, <1>4, <1>5, <1>6 DEF Next, Done

(***************************************************************************)
(* Every line of the script has its place and its reason, and the shell    *)
(* has run what is before the next one.                                    *)
(***************************************************************************)
THEOREM ScriptInvariant == Spec => [](TypeOK /\ ScriptInv)
<1>1. Init => TypeOK /\ ScriptInv
  BY InitTypeOK, InitScriptInv
<1>2. TypeOK /\ ScriptInv /\ [Next]_vars => (TypeOK /\ ScriptInv)'
  BY NextTypeOK, NextScriptInv
<1> QED BY <1>1, <1>2, PTL DEF Spec

-----------------------------------------------------------------------------
(***************************************************************************)
(* The closing message is true: whoever reads it has every command of      *)
(* every serious finding applied.                                          *)
(***************************************************************************)
THEOREM AnnouncementIsTrue == Spec => []AnnouncedMeansApplied
<1>1. TypeOK /\ ScriptInv => AnnouncedMeansApplied
  <2> SUFFICES ASSUME TypeOK, ScriptInv, announced,
                      NEW i \in DOMAIN findings, findings[i].severity >= MEDIUM,
                      NEW k \in DOMAIN findings[i].remediation,
                      Recognised(findings[i].remediation[k])
               PROVE  \E n \in DOMAIN ran : ran[n] = Item("command", i, k)
    BY DEF AnnouncedMeansApplied
  <2>0. Serious(findings[i])
    <3>1. DOMAIN findings = 1 .. Len(findings) /\ findings \in Seq(Finding)
      BY DEF TypeOK
    <3>2. findings[i].severity \in Severity \cup {Unordered}
      <4>1. findings[i] \in Finding
        BY <3>1
      <4> QED BY <4>1 DEF Finding
    <3>3. findings[i].severity \in {MEDIUM, HIGH, CRITICAL}
      BY <3>2 DEF Severity, Unordered, INFO, MEDIUM, HIGH, CRITICAL
    <3>4. findings[i].remediation # <<>>
      <4>1. DOMAIN <<>> = {}
        OBVIOUS
      <4> QED BY <4>1
    <3> QED BY <3>3, <3>4 DEF Serious
  <2>1. pc = "exited" /\ whole /\ next > written /\ written = Len(script)
    BY DEF ScriptInv, RanInv
  <2>2. PICK p \in DOMAIN script : script[p] = Item("command", i, k)
    BY <2>0, <2>1 DEF ScriptInv, CoverInv
  <2>3. p < next
    BY <2>1 DEF TypeOK
  <2>4. ~Pass(script[p])
    BY <2>2 DEF Pass, Item
  <2> QED BY <2>1, <2>2, <2>3, <2>4 DEF ScriptInv, RanInv
<1> QED BY <1>1, ScriptInvariant, PTL

(***************************************************************************)
(* What takes effect comes from serious findings and in the report's       *)
(* order.                                                                  *)
(***************************************************************************)
THEOREM AppliesInOrder == Spec => []AppliedInReportOrder
<1>1. ScriptInv => AppliedInReportOrder
  <2> SUFFICES ASSUME ScriptInv PROVE AppliedInReportOrder
    OBVIOUS
  <2>1. \A n \in DOMAIN ran : WellMade(ran[n])
    BY DEF ScriptInv, LayoutInv, RanInv
  <2>2. \A i : Serious(findings[i]) => findings[i].severity >= MEDIUM
    BY DEF Serious, MEDIUM, HIGH, CRITICAL
  <2>3. \A m, n \in DOMAIN ran : m < n => Before(ran[m], ran[n])
    BY DEF ScriptInv, RanInv
  <2> QED BY <2>1, <2>2, <2>3 DEF WellMade, Before, AppliedInReportOrder
<1> QED BY <1>1, ScriptInvariant, PTL

(***************************************************************************)
(* A finding of one-line texts never gives the shell anything but its      *)
(* command.                                                                *)
(***************************************************************************)
THEOREM OneLinersAreSafe == Spec => []OneLineIsSafe
<1>1. TypeOK /\ ScriptInv => OneLineIsSafe
  <2> SUFFICES ASSUME TypeOK, ScriptInv, NEW n \in DOMAIN ran,
                      findings[ran[n].finding].title = 1,
                      Len(findings[ran[n].finding].remediation) <= 1
               PROVE  /\ ran[n].kind = "command"
                      /\ Recognised(findings[ran[n].finding].remediation[ran[n].line])
    BY DEF OneLineIsSafe
  <2> DEFINE i == ran[n].finding
             k == ran[n].line
  <2>1. WellMade(ran[n]) /\ ~Pass(ran[n])
    BY DEF ScriptInv, RanInv, LayoutInv
  <2>2. ran[n] \in Items
    BY DEF TypeOK
  <2>3. i \in DOMAIN findings /\ k \in Text(ran[n])
    BY <2>1 DEF WellMade
  <2>4. k <= 1
    <3>1. /\ DOMAIN findings[i].remediation = 1 .. Len(findings[i].remediation)
          /\ Len(findings[i].remediation) \in Nat
      BY <2>3, TextsAreSeqs
    <3> QED BY <2>3, <3>1 DEF Text
  <2>5. ran[n].kind = "command"
    <3>1. ran[n].kind \in Kinds /\ k \in Nat
      BY <2>2 DEF Items
    <3>2. ~(k > 1)
      BY <2>4, <3>1
    <3>3. ran[n].kind \notin {"spill", "overflow"}
      BY <2>1, <3>2 DEF WellMade
    <3> QED BY <2>1, <3>1, <3>3 DEF Pass, Kinds
  <2> QED BY <2>1, <2>5 DEF WellMade
<1> QED BY <1>1, ScriptInvariant, PTL

=============================================================================
