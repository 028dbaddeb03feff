---------------------------- MODULE Startup_proofs ----------------------------
(***************************************************************************)
(* Theorems about Startup and the two modules it is made of, for all       *)
(* command lines, files and scan modules.                                  *)
(***************************************************************************)
EXTENDS Startup, FiniteSetTheorems, TLAPS

-----------------------------------------------------------------------------
(***************************************************************************)
(* The grammar: what a reading says of the first tokens depends on its     *)
(* first roles only.                                                       *)
(***************************************************************************)
Agree(r, s, n) == \A p \in 1 .. n : r[p] = s[p]

\* What is due at a token follows from the roles before it.
LEMMA DueLocal ==
    ASSUME NEW line, NEW r, NEW s, NEW n \in Nat, Agree(r, s, n), NEW p \in 1 .. n + 1
    PROVE  /\ ValueDue(line, r, p) <=> ValueDue(line, s, p)
           /\ FileDue(line, r, p) <=> FileDue(line, s, p)
  <1>1. CASE p = 1
    BY <1>1 DEF ValueDue, FileDue
  <1>2. CASE p > 1
    <2>1. p - 1 \in 1 .. n
      BY <1>2
    <2>2. r[p - 1] = s[p - 1]
      BY <2>1 DEF Agree
    <2> QED BY <2>2 DEF ValueDue, FileDue
  <1> QED BY <1>1, <1>2

\* Whether a role fits follows from the roles up to it.
LEMMA FitsLocal ==
    ASSUME NEW line, NEW r, NEW s, NEW n \in Nat, Agree(r, s, n), NEW p \in 1 .. n
    PROVE  FitsAt(line, r, p) <=> FitsAt(line, s, p)
  <1>1. p \in 1 .. n + 1 /\ r[p] = s[p]
    BY DEF Agree
  <1>2. /\ ValueDue(line, r, p) <=> ValueDue(line, s, p)
        /\ FileDue(line, r, p) <=> FileDue(line, s, p)
    BY <1>1, DueLocal
  <1> QED BY <1>1, <1>2 DEF FitsAt

\* What the first tokens give and name follows from their roles.
LEMMA GivesLocal ==
    ASSUME NEW line, NEW r, NEW s, NEW n \in Nat, Agree(r, s, n), NEW a, NEW v
    PROVE  /\ Gives(line, r, n, a, v) => Gives(line, s, n, a, v)
           /\ Names(line, r, n, v) => Names(line, s, n, v)
  <1>1. \A p \in 1 .. n : r[p] = s[p] /\ \A q \in p + 1 .. n : r[q] = s[q]
    BY DEF Agree
  <1>2. Gives(line, r, n, a, v) => Gives(line, s, n, a, v)
    BY <1>1 DEF Gives, LastGiven
  <1>3. Names(line, r, n, v) => Names(line, s, n, v)
    BY <1>1 DEF Names
  <1> QED BY <1>2, <1>3

\* One more token that is no flag of the attribute, or no command.
LEMMA OneMore ==
    ASSUME NEW line, NEW r, NEW n \in Nat, NEW a, NEW v
    PROVE  /\ Gives(line, r, n, a, v) /\ ~(r[n + 1] = "flag" /\ line[n + 1].text = a) =>
                  Gives(line, r, n + 1, a, v)
           /\ Names(line, r, n, v) /\ r[n + 1] # "command" => Names(line, r, n + 1, v)
  <1>1. ASSUME Gives(line, r, n, a, v), ~(r[n + 1] = "flag" /\ line[n + 1].text = a)
        PROVE  Gives(line, r, n + 1, a, v)
    <2>1. CASE v = Default[a] /\ \A p \in 1 .. n : ~(r[p] = "flag" /\ line[p].text = a)
      BY <1>1, <2>1 DEF Gives
    <2>2. ASSUME NEW p \in 1 .. n, LastGiven(line, r, n, a, p),
                 v = IF TakesValue(line[p]) THEN Given(line[p], line[p + 1]) ELSE On
          PROVE  Gives(line, r, n + 1, a, v)
      <3>1. LastGiven(line, r, n + 1, a, p) /\ p \in 1 .. n + 1
        BY <1>1, <2>2 DEF LastGiven
      <3> QED BY <2>2, <3>1 DEF Gives
    <2> QED BY <1>1, <2>1, <2>2 DEF Gives
  <1>2. ASSUME Names(line, r, n, v), r[n + 1] # "command"
        PROVE  Names(line, r, n + 1, v)
    <2>1. CASE v = "none" /\ \A p \in 1 .. n : r[p] # "command"
      BY <1>2, <2>1 DEF Names
    <2>2. ASSUME NEW p \in 1 .. n, r[p] = "command", v = line[p].text,
                 \A q \in p + 1 .. n : r[q] # "command"
          PROVE  Names(line, r, n + 1, v)
      <3>1. p \in 1 .. n + 1 /\ \A q \in p + 1 .. n + 1 : r[q] # "command"
        BY <1>2, <2>2
      <3> QED BY <2>2, <3>1 DEF Names
    <2> QED BY <1>2, <2>1, <2>2 DEF Names
  <1> QED BY <1>1, <1>2

\* A line gives an attribute one value.
LEMMA GivesOne ==
    ASSUME NEW line, NEW r, NEW n \in Nat, NEW a, NEW v, NEW w,
           Gives(line, r, n, a, v), Gives(line, r, n, a, w)
    PROVE  v = w
  <1>1. ASSUME NEW p \in 1 .. n, NEW q \in 1 .. n,
               LastGiven(line, r, n, a, p), LastGiven(line, r, n, a, q)
        PROVE  p = q
    BY <1>1 DEF LastGiven
  <1> QED BY <1>1 DEF Gives, LastGiven

-----------------------------------------------------------------------------
(***************************************************************************)
(* The type invariant of ParseArgs.                                        *)
(***************************************************************************)
LEMMA TokenTypes ==
    ASSUME ParseTypeOK, NEW k \in 1 .. Len(argv)
    PROVE  /\ argv \in Seq(Token) /\ argv[k] \in Token
           /\ argv[k].sort \in {"flag", "command", "word", "dashed"}
           /\ argv[k].sort = "flag" => argv[k].text \in Attribute
           /\ argv[k].sort = "command" => argv[k].text \in Command
  <1>1. argv \in Seq(Token)
    BY LineAssumption DEF ParseTypeOK
  <1>2. argv[k] \in Token
    BY <1>1
  <1> QED BY <1>1, <1>2 DEF Token

LEMMA DefaultType == Default \in [Attribute -> Value]
  <1>1. Word("terminal") \in Value /\ Word("info") \in Value
    BY DEF Value, Word
  <1>2. [sort |-> "int", text |-> "4"] \in Value /\ Unset \in Value
    BY DEF Value
  <1> QED BY <1>1, <1>2 DEF Default

LEMMA GivenType ==
    ASSUME NEW f \in Token, NEW v \in Token, Numeric(f) => v \in Numerals
    PROVE  Given(f, v) \in Value
  <1>1. CASE Numeric(f)
    <2>1. Canonical[v] \in Texts
      BY <1>1, LineAssumption
    <2>2. [sort |-> "int", text |-> Canonical[v]] \in Value
      BY <2>1 DEF Value
    <2> QED BY <1>1, <2>2 DEF Given
  <1>2. CASE ~Numeric(f)
    BY <1>2 DEF Given, Value
  <1> QED BY <1>1, <1>2

LEMMA ParseTypesInit == ParseInit => ParseTypeOK
  BY DefaultType DEF ParseInit, ParseTypeOK, Role

LEMMA ParseTypesStep ==
    ASSUME ParseTypeOK, ParseNext
    PROVE  ParseTypeOK'
  <1> USE DEF ParseTypeOK
  <1>1. CASE TakeSwitch
    <2>1. Here \in Token /\ Here.text \in Attribute
      BY <1>1, TokenTypes DEF TakeSwitch, More, Here
    <2>2. args' \in [Attribute -> Value]
      BY <1>1, <2>1 DEF TakeSwitch, Value
    <2>3. role' \in Seq(Role)
      BY <1>1 DEF TakeSwitch, Role
    <2> QED BY <1>1, <2>2, <2>3 DEF TakeSwitch
  <1>2. CASE TakeValue
    <2>1. Here \in Token /\ Here.text \in Attribute /\ i < Len(argv)
      BY <1>2, TokenTypes DEF TakeValue, More, Here, Lacking
    <2>2. After \in Token /\ (Numeric(Here) => After \in Numerals)
      BY <1>2, <2>1, TokenTypes DEF TakeValue, After, Lacking
    <2>3. Given(Here, After) \in Value
      BY <2>1, <2>2, GivenType
    <2>4. args' \in [Attribute -> Value]
      BY <1>2, <2>1, <2>3 DEF TakeValue
    <2>5. <<"flag", "value">> \in Seq(Role)
      BY DEF Role
    <2>6. role' \in Seq(Role)
      BY <1>2, <2>5 DEF TakeValue
    <2> QED BY <1>2, <2>4, <2>6 DEF TakeValue
  <1>3. CASE TakeCommand
    <2>1. Here.text \in Command
      BY <1>3, TokenTypes DEF TakeCommand, More, Here
    <2>2. role' \in Seq(Role)
      BY <1>3 DEF TakeCommand, Role
    <2> QED BY <1>3, <2>1, <2>2 DEF TakeCommand
  <1>4. CASE TakeFile
    <2>1. Here \in Token
      <3>1. argv \in Seq(Token)
        BY LineAssumption
      <3>2. i \in 1 .. Len(argv)
        BY <1>4, <3>1 DEF TakeFile, More
      <3> QED BY <3>1, <3>2 DEF Here
    <2>2. role' \in Seq(Role) /\ diff_files' \in Seq(Token)
      BY <1>4, <2>1 DEF TakeFile, Role
    <2> QED BY <1>4, <2>2 DEF TakeFile
  <1>5. CASE EndOfFiles
    BY <1>5 DEF EndOfFiles
  <1>6. CASE RefuseToken
    BY <1>6 DEF RefuseToken
  <1>7. CASE Validate
    BY <1>7 DEF Validate
  <1> QED BY <1>1, <1>2, <1>3, <1>4, <1>5, <1>6, <1>7 DEF ParseNext

-----------------------------------------------------------------------------
(***************************************************************************)
(* The roles.                                                              *)
(***************************************************************************)
\* The role every reading gives the token at hand.
LEMMA ReadingAt ==
    ASSUME ParseTypeOK, RolesFit, RolesForced, More, NEW r \in Readings(argv)
    PROVE  /\ Agree(role, r, i - 1)
           /\ IF FileDue(argv, role, i) /\ ~Dashed(Here) THEN r[i] = "file"
              ELSE r[i] \in {"flag", "command"} /\ Here.sort = r[i]
  <1>1. i - 1 \in Nat /\ i \in 1 .. (i - 1) + 1 /\ i \in 1 .. Len(argv)
    BY DEF ParseTypeOK, RolesFit, More
  <1>2. Agree(role, r, i - 1)
    BY DEF RolesForced, Agree
  <1>3. /\ ~ValueDue(argv, r, i)
        /\ FileDue(argv, role, i) <=> FileDue(argv, r, i)
    BY <1>1, <1>2, DueLocal DEF RolesFit
  <1>4. FitsAt(argv, r, i)
    BY <1>1 DEF Readings
  <1> QED BY <1>2, <1>3, <1>4 DEF FitsAt, Here

\* One token taken in the role x.
LEMMA TakeOne ==
    ASSUME ParseTypeOK, RolesFit, RolesForced, More, UNCHANGED argv, i' = i + 1,
           NEW x \in {"flag", "command", "file"}, role' = Append(role, x),
           IF FileDue(argv, role, i) /\ ~Dashed(Here) THEN x = "file" ELSE x = Here.sort
    PROVE  /\ Agree(role, role', i - 1) /\ role'[i] = x
           /\ Len(role') = i' - 1 /\ i' \in 1 .. Len(argv') + 1
           /\ \A p \in 1 .. i' - 1 : FitsAt(argv, role', p)
           /\ RolesForced'
  <1>1. i - 1 \in Nat /\ i \in 1 .. Len(argv) /\ i \in 1 .. (i - 1) + 1
    BY DEF ParseTypeOK, RolesFit, More
  <1>2. Agree(role, role', i - 1) /\ role'[i] = x /\ Len(role') = i' - 1
    BY DEF Agree, ParseTypeOK, RolesFit
  <1>3. i' \in 1 .. Len(argv') + 1
    BY <1>1 DEF RolesFit
  <1>4. FitsAt(argv, role', i)
    <2>1. /\ ~ValueDue(argv, role', i)
          /\ FileDue(argv, role, i) <=> FileDue(argv, role', i)
      BY <1>1, <1>2, DueLocal DEF RolesFit
    <2>2. Here.sort # "file"
      BY <1>1, TokenTypes DEF Here
    <2> QED BY <1>2, <2>1, <2>2 DEF FitsAt, Here
  <1>5. \A p \in 1 .. i - 1 : FitsAt(argv, role', p)
    BY <1>1, <1>2, FitsLocal DEF RolesFit
  <1>6. RolesForced'
    <2> SUFFICES ASSUME NEW r \in Readings(argv), NEW p \in 1 .. i
                 PROVE  r[p] = role'[p]
      <3>1. i' - 1 = i
        BY <1>1
      <3>2. RolesForced' <=> \A r \in Readings(argv') : \A p \in 1 .. i' - 1 : r[p] = role'[p]
        BY DEF RolesForced
      <3> QED BY <3>1, <3>2
    <2>1. CASE p = i
      BY <1>2, <2>1, ReadingAt
    <2>2. CASE p # i
      BY <1>1, <1>2, <2>2, ReadingAt DEF Agree
    <2> QED BY <2>1, <2>2
  <1> QED BY <1>1, <1>2, <1>3, <1>4, <1>5, <1>6

LEMMA RolesSwitch ==
    ASSUME ParseTypeOK, RolesFit, RolesForced, TakeSwitch
    PROVE  RolesFit' /\ RolesForced' /\ Agree(role, role', i - 1) /\ role'[i] = "flag"
  <1>1. More /\ UNCHANGED argv /\ i' = i + 1 /\ role' = Append(role, "flag")
    BY DEF TakeSwitch
  <1>2. Dashed(Here) /\ Here.sort = "flag" /\ ~TakesValue(Here)
    BY DEF TakeSwitch, Dashed
  <1>3. /\ Agree(role, role', i - 1) /\ role'[i] = "flag"
        /\ Len(role') = i' - 1 /\ i' \in 1 .. Len(argv') + 1
        /\ \A p \in 1 .. i' - 1 : FitsAt(argv, role', p)
        /\ RolesForced'
    BY <1>1, <1>2, TakeOne
  <1>4. i' - 1 = i /\ i \in Nat
    BY <1>1 DEF ParseTypeOK
  <1>5. ~ValueDue(argv, role', i') /\ ~FileDue(argv, role', i')
    BY <1>2, <1>3, <1>4 DEF ValueDue, FileDue, Here
  <1>6. reading' = "tokens"
    BY DEF TakeSwitch
  <1> QED BY <1>1, <1>3, <1>5, <1>6 DEF RolesFit

LEMMA RolesCommand ==
    ASSUME ParseTypeOK, RolesFit, RolesForced, TakeCommand
    PROVE  RolesFit' /\ RolesForced' /\ Agree(role, role', i - 1) /\ role'[i] = "command"
  <1>1. More /\ UNCHANGED argv /\ i' = i + 1 /\ role' = Append(role, "command")
    BY DEF TakeCommand
  <1>2. Here.sort = "command" /\ ~Dashed(Here) /\ ~FileDue(argv, role, i)
    BY DEF TakeCommand, Dashed, RolesFit
  <1>3. /\ Agree(role, role', i - 1) /\ role'[i] = "command"
        /\ Len(role') = i' - 1 /\ i' \in 1 .. Len(argv') + 1
        /\ \A p \in 1 .. i' - 1 : FitsAt(argv, role', p)
        /\ RolesForced'
    BY <1>1, <1>2, TakeOne
  <1>4. i' - 1 = i /\ i \in Nat \ {0}
    BY <1>1 DEF ParseTypeOK
  <1>5. ~ValueDue(argv, role', i')
    BY <1>3, <1>4 DEF ValueDue
  <1>6. FileDue(argv, role', i') <=> reading' = "files"
    BY <1>3, <1>4 DEF FileDue, Here, TakeCommand
  <1> QED BY <1>1, <1>3, <1>5, <1>6 DEF RolesFit, TakeCommand

LEMMA RolesFile ==
    ASSUME ParseTypeOK, RolesFit, RolesForced, TakeFile
    PROVE  RolesFit' /\ RolesForced' /\ Agree(role, role', i - 1) /\ role'[i] = "file"
  <1>1. More /\ UNCHANGED argv /\ i' = i + 1 /\ role' = Append(role, "file")
    BY DEF TakeFile
  <1>2. ~Dashed(Here) /\ FileDue(argv, role, i)
    BY DEF TakeFile, RolesFit
  <1>3. /\ Agree(role, role', i - 1) /\ role'[i] = "file"
        /\ Len(role') = i' - 1 /\ i' \in 1 .. Len(argv') + 1
        /\ \A p \in 1 .. i' - 1 : FitsAt(argv, role', p)
        /\ RolesForced'
    BY <1>1, <1>2, TakeOne
  <1>4. i' - 1 = i /\ i \in Nat \ {0}
    BY <1>1 DEF ParseTypeOK
  <1>5. ~ValueDue(argv, role', i') /\ FileDue(argv, role', i')
    BY <1>3, <1>4 DEF ValueDue, FileDue
  <1>6. reading' = "files"
    BY DEF TakeFile
  <1> QED BY <1>1, <1>3, <1>5, <1>6 DEF RolesFit

LEMMA RolesValue ==
    ASSUME ParseTypeOK, RolesFit, RolesForced, TakeValue
    PROVE  /\ RolesFit' /\ RolesForced' /\ Agree(role, role', i - 1)
           /\ role'[i] = "flag" /\ role'[i + 1] = "value" /\ i < Len(argv)
  <1>1. /\ More /\ UNCHANGED argv /\ i' = i + 2 /\ reading' = "tokens"
        /\ role' = role \o <<"flag", "value">>
    BY DEF TakeValue
  <1>2. /\ Dashed(Here) /\ Here.sort = "flag" /\ TakesValue(Here) /\ i < Len(argv)
        /\ Numeric(Here) => After \in Numerals
    <2>1. argv \in Seq(Token) /\ i \in Nat
      BY LineAssumption DEF ParseTypeOK
    <2> QED BY <2>1 DEF TakeValue, Dashed, Lacking, More
  <1>3. i - 1 \in Nat /\ i \in 1 .. Len(argv) /\ i + 1 \in 1 .. Len(argv) /\ i' - 1 = i + 1
    BY <1>1, <1>2 DEF ParseTypeOK, RolesFit, More
  <1>4. /\ Agree(role, role', i - 1) /\ role'[i] = "flag" /\ role'[i + 1] = "value"
        /\ Len(role') = i' - 1
    <2>1. role \in Seq(Role) /\ Len(role) = i - 1 /\ i \in Nat \ {0}
      BY DEF ParseTypeOK, RolesFit
    <2> QED BY <1>1, <2>1 DEF Agree
  <1>5. i' \in 1 .. Len(argv') + 1
    BY <1>1, <1>3
  <1>6. FitsAt(argv, role', i)
    <2>1. /\ ~ValueDue(argv, role', i)
          /\ FileDue(argv, role, i) <=> FileDue(argv, role', i)
      BY <1>3, <1>4, DueLocal DEF RolesFit
    <2> QED BY <1>2, <1>4, <2>1 DEF FitsAt, Here
  <1>7. ValueDue(argv, role', i + 1)
    BY <1>2, <1>3, <1>4 DEF ValueDue, Here
  <1>8. FitsAt(argv, role', i + 1)
    BY <1>2, <1>3, <1>4, <1>7 DEF FitsAt, Here, After
  <1>9. \A p \in 1 .. i' - 1 : FitsAt(argv, role', p)
    <2>1. \A p \in 1 .. i - 1 : FitsAt(argv, role', p)
      BY <1>3, <1>4, FitsLocal DEF RolesFit
    <2> QED BY <1>3, <1>6, <1>8, <2>1
  <1>10. RolesForced'
    <2> SUFFICES ASSUME NEW r \in Readings(argv), NEW p \in 1 .. i + 1
                 PROVE  r[p] = role'[p]
      <3>1. RolesForced' <=> \A r \in Readings(argv') : \A p \in 1 .. i' - 1 : r[p] = role'[p]
        BY DEF RolesForced
      <3> QED BY <1>1, <1>3, <3>1
    <2>1. Agree(role, r, i - 1) /\ r[i] = "flag"
      BY <1>1, <1>2, ReadingAt
    <2>2. ValueDue(argv, r, i + 1)
      BY <1>2, <1>3, <2>1 DEF ValueDue, Here
    <2>3. r[i + 1] = "value"
      BY <1>3, <2>2 DEF Readings, FitsAt
    <2>4. CASE p \in 1 .. i - 1
      BY <1>3, <1>4, <2>1, <2>4 DEF Agree
    <2>5. CASE p \in {i, i + 1}
      BY <1>4, <2>1, <2>3, <2>5
    <2> QED BY <1>3, <2>4, <2>5
  <1>11. ~ValueDue(argv, role', i') /\ ~FileDue(argv, role', i')
    BY <1>3, <1>4 DEF ValueDue, FileDue
  <1> QED BY <1>1, <1>2, <1>4, <1>5, <1>9, <1>10, <1>11 DEF RolesFit

-----------------------------------------------------------------------------
(***************************************************************************)
(* The values, the command and the files.                                  *)
(***************************************************************************)
LEMMA FilesFinite ==
    ASSUME NEW r, NEW n \in Nat, NEW p \in 0 .. n
    PROVE  /\ IsFiniteSet(FilesUpTo(r, p)) /\ Cardinality(FilesUpTo(r, p)) \in Nat
           /\ Cardinality(FilesUpTo(r, p)) <= Cardinality(FilesUpTo(r, n))
           /\ p \in FilesUpTo(r, n) => Cardinality(FilesUpTo(r, p)) > 0
  <1>1. IsFiniteSet(1 .. n) /\ FilesUpTo(r, n) \subseteq 1 .. n
    BY FS_Interval DEF FilesUpTo
  <1>2. FilesUpTo(r, p) \subseteq FilesUpTo(r, n)
    BY DEF FilesUpTo
  <1>3. IsFiniteSet(FilesUpTo(r, n))
    BY <1>1, FS_Subset
  <1>4. /\ IsFiniteSet(FilesUpTo(r, p))
        /\ Cardinality(FilesUpTo(r, p)) <= Cardinality(FilesUpTo(r, n))
    BY <1>2, <1>3, FS_Subset
  <1>5. Cardinality(FilesUpTo(r, p)) \in Nat
    BY <1>4, FS_CardinalityType
  <1>6. p \in FilesUpTo(r, n) => FilesUpTo(r, p) # {}
    BY DEF FilesUpTo
  <1>7. p \in FilesUpTo(r, n) => Cardinality(FilesUpTo(r, p)) # 0
    BY <1>4, <1>6, FS_EmptySet
  <1> QED BY <1>4, <1>5, <1>7

\* The files collected follow from the roles.
LEMMA CollectsLocal ==
    ASSUME NEW line, NEW r, NEW s, NEW n \in Nat, Agree(r, s, n), NEW fs,
           Collects(line, r, n, fs)
    PROVE  Collects(line, s, n, fs)
  <1>1. \A p \in 0 .. n : FilesUpTo(r, p) = FilesUpTo(s, p)
    BY DEF FilesUpTo, Agree
  <1>2. FilesUpTo(s, n) \subseteq 0 .. n /\ n \in 0 .. n
    BY DEF FilesUpTo
  <1> QED BY <1>1, <1>2 DEF Collects

\* A token that is no file leaves the collection as it is.
LEMMA NoFile ==
    ASSUME NEW line, NEW r, NEW n \in Nat, NEW fs, Collects(line, r, n, fs), r[n + 1] # "file"
    PROVE  Collects(line, r, n + 1, fs)
  <1>1. FilesUpTo(r, n + 1) = FilesUpTo(r, n)
    BY DEF FilesUpTo
  <1> QED BY <1>1 DEF Collects

\* A file goes to the end of the collection.
LEMMA OneFile ==
    ASSUME NEW line, NEW r, NEW n \in Nat, NEW fs \in Seq(Token), Collects(line, r, n, fs),
           r[n + 1] = "file"
    PROVE  Collects(line, r, n + 1, Append(fs, line[n + 1]))
  <1> DEFINE F(p) == FilesUpTo(r, p)
             gs == Append(fs, line[n + 1])
  <1>1. F(n + 1) = F(n) \cup {n + 1} /\ n + 1 \notin F(n)
    BY DEF FilesUpTo
  <1>2. IsFiniteSet(F(n)) /\ Cardinality(F(n)) \in Nat
    BY FilesFinite
  <1>3. Cardinality(F(n + 1)) = Cardinality(F(n)) + 1
    BY <1>1, <1>2, FS_AddElement
  <1>4. Len(fs) = Cardinality(F(n))
    BY DEF Collects
  <1>5. Len(gs) = Cardinality(F(n + 1)) /\ gs[Cardinality(F(n + 1))] = line[n + 1]
    BY <1>2, <1>3, <1>4
  <1>6. ASSUME NEW p \in F(n)
        PROVE  gs[Cardinality(F(p))] = line[p]
    <2>1. p \in 0 .. n
      BY DEF FilesUpTo
    <2>2. Cardinality(F(p)) \in 1 .. Len(fs)
      BY <1>2, <1>4, <2>1, FilesFinite
    <2>3. fs[Cardinality(F(p))] = line[p]
      BY DEF Collects
    <2> QED BY <2>2, <2>3
  <1>7. \A p \in F(n + 1) : gs[Cardinality(F(p))] = line[p]
    BY <1>1, <1>5, <1>6
  <1> QED BY <1>5, <1>7 DEF Collects

-----------------------------------------------------------------------------
(***************************************************************************)
(* The invariant of ParseArgs.                                             *)
(***************************************************************************)
LEMMA ParseInvInit ==
    ASSUME ParseInit
    PROVE  ParseInv
  <1>1. argv \in Seq(Token) /\ Len(argv) \in Nat
    BY LineAssumption DEF ParseInit
  <1>2. RolesFit
    BY <1>1 DEF ParseInit, RolesFit, ValueDue, FileDue
  <1>3. RolesForced
    BY DEF ParseInit, RolesForced
  <1>4. FilesUpTo(<<>>, 0) = {}
    BY DEF FilesUpTo
  <1>5. Collects(argv, role, i - 1, diff_files)
    BY <1>4, FS_EmptySet DEF ParseInit, Collects
  <1>6. ReadSoFar
    BY <1>5 DEF ParseInit, ReadSoFar, Gives, Names
  <1>7. Verdict
    BY DEF ParseInit, Verdict
  <1> QED BY <1>2, <1>3, <1>6, <1>7 DEF ParseInv

\* What the pass has read so far, after one token.
LEMMA ReadOne ==
    ASSUME ParseTypeOK, RolesFit, ReadSoFar, Agree(role, role', i - 1), UNCHANGED argv, i' = i + 1,
           \A a \in Attribute :
              IF role'[i] = "flag" /\ Here.text = a THEN args'[a] = On /\ ~TakesValue(Here)
              ELSE args'[a] = args[a],
           command' = IF role'[i] = "command" THEN Here.text ELSE command,
           diff_files' = IF role'[i] = "file" THEN Append(diff_files, Here) ELSE diff_files
    PROVE  ReadSoFar'
  <1>1. i - 1 \in Nat /\ (i - 1) + 1 = i /\ i' - 1 = i /\ i \in 1 .. i /\ Here = argv[i]
    BY DEF ParseTypeOK, Here
  <1>2. ASSUME NEW a \in Attribute
        PROVE  Gives(argv, role', i, a, args'[a])
    <2>1. CASE role'[i] = "flag" /\ Here.text = a
      <3>1. LastGiven(argv, role', i, a, i)
        BY <1>1, <2>1 DEF LastGiven
      <3> QED BY <1>1, <2>1, <3>1 DEF Gives
    <2>2. CASE ~(role'[i] = "flag" /\ Here.text = a)
      <3>1. Gives(argv, role', i - 1, a, args[a])
        BY <1>1, GivesLocal DEF ReadSoFar
      <3> QED BY <1>1, <2>2, <3>1, OneMore
    <2> QED BY <2>1, <2>2
  <1>3. Names(argv, role', i, command')
    <2>1. CASE role'[i] = "command"
      BY <1>1, <2>1 DEF Names
    <2>2. CASE role'[i] # "command"
      <3>1. Names(argv, role', i - 1, command)
        BY <1>1, GivesLocal DEF ReadSoFar
      <3> QED BY <1>1, <2>2, <3>1, OneMore
    <2> QED BY <2>1, <2>2
  <1>4. Collects(argv, role', i - 1, diff_files)
    BY <1>1, CollectsLocal DEF ReadSoFar
  <1>5. Collects(argv, role', i, diff_files')
    <2>1. CASE role'[i] = "file"
      BY <1>1, <1>4, <2>1, OneFile DEF ParseTypeOK
    <2>2. CASE role'[i] # "file"
      BY <1>1, <1>4, <2>2, NoFile
    <2> QED BY <2>1, <2>2
  <1> QED BY <1>1, <1>2, <1>3, <1>5 DEF ReadSoFar

\* What it has read after a flag and its value.
LEMMA ReadTwo ==
    ASSUME ParseTypeOK, RolesFit, ReadSoFar, TakeValue, Agree(role, role', i - 1),
           role'[i] = "flag", role'[i + 1] = "value", i < Len(argv)
    PROVE  ReadSoFar'
  <1>1. /\ i - 1 \in Nat /\ (i - 1) + 1 = i /\ i' - 1 = i + 1 /\ i \in Nat
        /\ i \in 1 .. i + 1 /\ Here = argv[i] /\ After = argv[i + 1]
    BY DEF ParseTypeOK, Here, After, TakeValue
  <1>2. /\ UNCHANGED <<argv, command, diff_files>> /\ TakesValue(Here)
        /\ Here.text \in Attribute
        /\ args' = [args EXCEPT ![Here.text] = Given(Here, After)]
    <2>1. i \in 1 .. Len(argv)
      <3>1. argv \in Seq(Token)
        BY LineAssumption DEF ParseTypeOK
      <3> QED BY <1>1, <3>1 DEF RolesFit
    <2> QED BY <2>1, TokenTypes DEF TakeValue, Here
  <1>3. ASSUME NEW a \in Attribute
        PROVE  Gives(argv, role', i + 1, a, args'[a])
    <2>1. CASE Here.text = a
      <3>1. LastGiven(argv, role', i + 1, a, i)
        BY <1>1, <2>1 DEF LastGiven
      <3>2. args'[a] = Given(Here, After)
        BY <1>2, <2>1 DEF ParseTypeOK
      <3> QED BY <1>1, <1>2, <3>1, <3>2 DEF Gives
    <2>2. CASE Here.text # a
      <3>1. args'[a] = args[a]
        BY <1>2, <2>2 DEF ParseTypeOK
      <3>2. Gives(argv, role', i - 1, a, args[a])
        BY <1>1, GivesLocal DEF ReadSoFar
      <3>3. Gives(argv, role', i, a, args[a])
        BY <1>1, <2>2, <3>2, OneMore
      <3> QED BY <1>1, <3>1, <3>3, OneMore
    <2> QED BY <2>1, <2>2
  <1>4. Names(argv, role', i + 1, command)
    <2>1. Names(argv, role', i - 1, command)
      BY <1>1, GivesLocal DEF ReadSoFar
    <2>2. Names(argv, role', i, command)
      BY <1>1, <2>1, OneMore
    <2> QED BY <1>1, <2>2, OneMore
  <1>5. Collects(argv, role', i + 1, diff_files)
    <2>1. Collects(argv, role', i - 1, diff_files)
      BY <1>1, CollectsLocal DEF ReadSoFar
    <2>2. Collects(argv, role', i, diff_files)
      BY <1>1, <2>1, NoFile
    <2> QED BY <1>1, <2>2, NoFile
  <1> QED BY <1>1, <1>2, <1>3, <1>4, <1>5 DEF ReadSoFar

\* A token is refused only in a line without a reading.
LEMMA RefusedUnreadable ==
    ASSUME ParseTypeOK, ParseInv, RefuseToken, NEW r \in Readings(argv)
    PROVE  FALSE
  <1>1. /\ argv \in Seq(Token) /\ i \in 1 .. Len(argv) /\ reading = "tokens"
        /\ Here.sort \in {"word", "dashed"} \/ (Here.sort = "flag" /\ Lacking)
    BY LineAssumption DEF ParseTypeOK, RefuseToken, More
  <1>2. FileDue(argv, role, i) => Dashed(Here)
    BY <1>1 DEF ParseInv, RolesFit, RefuseToken
  <1>3. r[i] \in {"flag", "command"} /\ Here.sort = r[i]
    BY <1>1, <1>2, ReadingAt DEF ParseInv, RefuseToken
  <1>4. r[i] = "flag" /\ Lacking
    BY <1>1, <1>3
  <1>5. ValueDue(argv, r, i + 1)
    BY <1>1, <1>4 DEF ValueDue, Lacking, Here
  <1>6. i + 1 \in 1 .. Len(argv)
    BY <1>1, <1>5 DEF Readings
  <1>7. Numeric(Here) /\ After \notin Numerals
    <2>1. i < Len(argv)
      BY <1>1, <1>6
    <2> QED BY <1>4, <2>1 DEF Lacking
  <1>8. FitsAt(argv, r, i + 1)
    BY <1>6 DEF Readings
  <1> QED BY <1>1, <1>5, <1>7, <1>8 DEF FitsAt, Here, After

\* The last check refuses what every reading gives.
LEMMA ValidatedOnce ==
    ASSUME ParseTypeOK, ParseInv, Validate, NEW r \in Readings(argv), Acceptable(argv, r)
    PROVE  \A a \in Validated : args[a] \in Allowed(a)
  <1>1. i = Len(argv) + 1 /\ Len(argv) \in Nat /\ i - 1 = Len(argv)
    <2>1. argv \in Seq(Token) /\ i \in 1 .. Len(argv) + 1
      BY LineAssumption DEF ParseTypeOK, ParseInv, RolesFit
    <2> QED BY <2>1 DEF Validate, More
  <1>2. Agree(role, r, Len(argv))
    BY <1>1 DEF ParseInv, RolesForced, Agree
  <1>3. ASSUME NEW a \in Validated
        PROVE  args[a] \in Allowed(a)
    <2>1. a \in Attribute
      BY DEF Validated, Attribute
    <2>2. Gives(argv, role, Len(argv), a, args[a])
      BY <1>1, <2>1 DEF ParseInv, ReadSoFar
    <2>3. Gives(argv, r, Len(argv), a, args[a])
      BY <1>1, <1>2, <2>2, GivesLocal
    <2>4. PICK v \in Allowed(a) : Gives(argv, r, Len(argv), a, v)
      BY DEF Acceptable
    <2> QED BY <1>1, <2>3, <2>4, GivesOne
  <1> QED BY <1>3

LEMMA ParseInvStep ==
    ASSUME ParseTypeOK, ParseInv, ParseNext
    PROVE  ParseInv'
  <1> USE DEF ParseInv
  <1>0. reading \in {"tokens", "files"}
    BY DEF ParseNext, TakeSwitch, TakeValue, TakeCommand, TakeFile, EndOfFiles, RefuseToken,
           Validate
  <1>1. CASE TakeSwitch
    <2>1. RolesFit' /\ RolesForced' /\ Agree(role, role', i - 1) /\ role'[i] = "flag"
      BY <1>1, RolesSwitch
    <2>2. ASSUME NEW a \in Attribute
          PROVE  IF Here.text = a THEN args'[a] = On /\ ~TakesValue(Here)
                 ELSE args'[a] = args[a]
      BY <1>1 DEF TakeSwitch, ParseTypeOK
    <2>3. ReadSoFar'
      BY <1>1, <2>1, <2>2, ReadOne DEF TakeSwitch
    <2> QED BY <1>0, <1>1, <2>1, <2>3 DEF TakeSwitch, Verdict
  <1>2. CASE TakeValue
    <2>1. /\ RolesFit' /\ RolesForced' /\ Agree(role, role', i - 1)
          /\ role'[i] = "flag" /\ role'[i + 1] = "value" /\ i < Len(argv)
      BY <1>2, RolesValue
    <2>2. ReadSoFar'
      BY <1>2, <2>1, ReadTwo
    <2> QED BY <1>0, <1>2, <2>1, <2>2 DEF TakeValue, Verdict
  <1>3. CASE TakeCommand
    <2>1. RolesFit' /\ RolesForced' /\ Agree(role, role', i - 1) /\ role'[i] = "command"
      BY <1>3, RolesCommand
    <2>2. ReadSoFar'
      BY <1>3, <2>1, ReadOne DEF TakeCommand
    <2> QED BY <1>0, <1>3, <2>1, <2>2 DEF TakeCommand, Verdict
  <1>4. CASE TakeFile
    <2>1. RolesFit' /\ RolesForced' /\ Agree(role, role', i - 1) /\ role'[i] = "file"
      BY <1>4, RolesFile
    <2>2. ReadSoFar'
      BY <1>4, <2>1, ReadOne DEF TakeFile
    <2> QED BY <1>0, <1>4, <2>1, <2>2 DEF TakeFile, Verdict
  <1>5. CASE EndOfFiles
    BY <1>5 DEF EndOfFiles, RolesFit, RolesForced, ReadSoFar, Verdict, More, Here
  <1>6. CASE RefuseToken
    <2>1. Verdict'
      BY <1>6, RefusedUnreadable DEF RefuseToken, Verdict
    <2> QED BY <1>6, <2>1 DEF RefuseToken, RolesFit, RolesForced, ReadSoFar, More, Here
  <1>7. CASE Validate
    <2>1. i = Len(argv) + 1
      <3>1. argv \in Seq(Token) /\ i \in 1 .. Len(argv) + 1
        BY LineAssumption DEF ParseTypeOK, RolesFit
      <3> QED BY <1>7, <3>1 DEF Validate, More
    <2>2. Verdict'
      BY <1>7, <2>1, ValidatedOnce DEF Validate, Verdict
    <2> QED BY <1>7, <2>2 DEF Validate, RolesFit, RolesForced, ReadSoFar, More, Here
  <1> QED BY <1>1, <1>2, <1>3, <1>4, <1>5, <1>6, <1>7 DEF ParseNext

\* The grammar property follows.
LEMMA ParseInvGrammar ==
    ASSUME ParseTypeOK, ParseInv
    PROVE  ReadByGrammar
  <1>1. ASSUME reading = "accepted"
        PROVE  /\ role \in Readings(argv) /\ Acceptable(argv, role)
               /\ \A a \in Attribute : Gives(argv, role, Len(argv), a, args[a])
               /\ Names(argv, role, Len(argv), command)
               /\ Collects(argv, role, Len(argv), diff_files)
    <2>1. i - 1 = Len(argv) /\ Len(argv) \in Nat /\ Len(role) = Len(argv)
      <3>1. argv \in Seq(Token)
        BY LineAssumption DEF ParseTypeOK
      <3> QED BY <1>1, <3>1 DEF ParseInv, Verdict, RolesFit
    <2>2. role \in [1 .. Len(argv) -> Role]
      BY <2>1 DEF ParseTypeOK
    <2>3. role \in Readings(argv)
      BY <1>1, <2>1, <2>2 DEF ParseInv, RolesFit, Readings, Verdict
    <2>4. \A a \in Attribute : Gives(argv, role, Len(argv), a, args[a])
      BY <2>1 DEF ParseInv, ReadSoFar
    <2>5. Acceptable(argv, role)
      <3>1. Validated \subseteq Attribute
        BY DEF Validated, Attribute
      <3> QED BY <1>1, <2>4, <3>1 DEF ParseInv, Verdict, Acceptable
    <2> QED BY <2>1, <2>3, <2>4, <2>5 DEF ParseInv, ReadSoFar
  <1>2. reading = "refused" => \A r \in Readings(argv) : ~Acceptable(argv, r)
    BY DEF ParseInv, Verdict
  <1> QED BY <1>1, <1>2 DEF ReadByGrammar

-----------------------------------------------------------------------------
(***************************************************************************)
(* ModuleDiscovery.                                                        *)
(***************************************************************************)
LEMMA NameType == \A c \in Classes : NameOf[c] \in Name
  BY DEF Name, Classes

LEMMA ClassesType ==
    ASSUME DiscoverTypeOK, NEW k \in 1 .. Len(order)
    PROVE  ClassesOf(k) \in Seq(Classes)
  <1>1. order[k] \in File
    BY DEF DiscoverTypeOK
  <1>2. Contents[order[k]] \in Seq(Classes)
    BY <1>1, FileAssumption
  <1> QED BY <1>2 DEF ClassesOf, ClassesIn

LEMMA RegisteredType ==
    ASSUME DiscoverTypeOK, NEW c \in Classes
    PROVE  Registered(c) \in Seq(Entry)
  <1> DEFINE e == [name |-> NameOf[c], class |-> c]
  <1>1. registry \in Seq(Entry)
    BY DEF DiscoverTypeOK
  <1>2. e \in Entry
    BY NameType DEF Entry, Name
  <1>3. CASE Positions(NameOf[c]) # {}
    <2> DEFINE s == [k \in 1 .. Len(registry) |->
                        IF k \in Positions(NameOf[c]) THEN e ELSE registry[k]]
    <2>1. \A k \in 1 .. Len(registry) : registry[k] \in Entry
      BY <1>1
    <2>2. s \in [1 .. Len(registry) -> Entry]
      BY <1>2, <2>1
    <2>3. Len(registry) \in Nat
      BY <1>1
    <2>4. s \in Seq(Entry)
      BY <2>2, <2>3
    <2> QED BY <1>3, <2>4 DEF Registered
  <1>4. CASE Positions(NameOf[c]) = {}
    <2>1. Append(registry, e) \in Seq(Entry)
      BY <1>1, <1>2
    <2> QED BY <1>4, <2>1 DEF Registered
  <1> QED BY <1>3, <1>4

LEMMA DiscoverTypesInit ==
    ASSUME DiscoverInit
    PROVE  DiscoverTypeOK
  <1>1. Builtins \in Seq(File)
    BY FileAssumption
  <1>2. <<>> \in Seq(Classes) /\ <<>> \in Seq(Entry)
    OBVIOUS
  <1>3. custom \in BOOLEAN /\ on_path \in BOOLEAN /\ sys_path_added \in BOOLEAN
        /\ was_on_path \in BOOLEAN
    BY Zenon DEF DiscoverInit
  <1>4. /\ stage \in {"off", "builtin", "custom", "finally", "over"} /\ order \in Seq(File)
        /\ next \in Nat \ {0} /\ at \in Nat /\ registry \in Seq(Entry)
        /\ raised \in {"none", "error", "quit"} /\ loaded \in Seq(Classes) /\ failed \subseteq Nat
    BY <1>1, <1>2 DEF DiscoverInit
  <1> QED BY <1>3, <1>4 DEF DiscoverTypeOK

LEMMA DiscoverTypesNew ==
    ASSUME DiscoverTypeOK, NEW with \in BOOLEAN, Discover(with)
    PROVE  DiscoverTypeOK'
  <1>1. Builtins \in Seq(File)
    BY FileAssumption
  <1>2. <<>> \in Seq(Classes) /\ <<>> \in Seq(Entry)
    OBVIOUS
  <1>3. /\ custom' \in BOOLEAN /\ on_path' \in BOOLEAN /\ sys_path_added' \in BOOLEAN
        /\ was_on_path' \in BOOLEAN
    BY Zenon DEF Discover, DiscoverTypeOK
  <1>4. /\ stage' \in {"off", "builtin", "custom", "finally", "over"} /\ order' \in Seq(File)
        /\ next' \in Nat \ {0} /\ at' \in Nat /\ registry' \in Seq(Entry)
        /\ raised' \in {"none", "error", "quit"} /\ loaded' \in Seq(Classes)
        /\ failed' \subseteq Nat
    BY <1>1, <1>2 DEF Discover
  <1> QED BY <1>3, <1>4 DEF DiscoverTypeOK

LEMMA DiscoverTypesStep ==
    ASSUME DiscoverTypeOK, DiscoverNext
    PROVE  DiscoverTypeOK'
  <1> USE DEF DiscoverTypeOK
  <1>1. ASSUME Fail \/ Quit
        PROVE  /\ next' \in Nat \ {0} /\ at' \in Nat /\ failed' \subseteq Nat
               /\ raised' \in {"none", "error", "quit"}
               /\ stage' \in {"off", "builtin", "custom", "finally", "over"}
    <2>1. CASE Fail
      BY <2>1 DEF Fail
    <2>2. CASE Quit
      BY <2>2 DEF Quit
    <2> QED BY <1>1, <2>1, <2>2
  <1>2. CASE ImportFile
    <2>1. UNCHANGED <<custom, order, registry, on_path, sys_path_added, loaded, was_on_path>>
      BY <1>2 DEF ImportFile
    <2>2. CASE at' = 1 /\ UNCHANGED <<next, failed, raised, stage>>
      BY <2>1, <2>2
    <2>3. CASE Fail \/ Quit
      BY <1>1, <2>1, <2>3
    <2> QED BY <1>2, <2>2, <2>3 DEF ImportFile
  <1>3. CASE RegisterClass
    <2> DEFINE c == ClassesOf(next)[at]
    <2>1. c \in Classes
      <3>1. next \in 1 .. Len(order)
        BY <1>3 DEF RegisterClass, Importing
      <3> QED BY <1>3, <3>1, ClassesType DEF RegisterClass
    <2>2. UNCHANGED <<custom, order, on_path, sys_path_added, was_on_path>>
      BY <1>3 DEF RegisterClass
    <2>3. CASE /\ registry' = Registered(c) /\ loaded' = Append(loaded, c) /\ at' = at + 1
               /\ UNCHANGED <<next, failed, raised, stage>>
      <3>1. registry' \in Seq(Entry)
        BY <2>1, <2>3, RegisteredType
      <3>2. loaded' \in Seq(Classes)
        BY <2>1, <2>3
      <3> QED BY <2>2, <2>3, <3>1, <3>2
    <2>4. CASE (Fail \/ Quit) /\ UNCHANGED <<registry, loaded>>
      BY <1>1, <2>2, <2>4
    <2> QED BY <1>3, <2>3, <2>4 DEF RegisterClass
  <1>4. CASE FileDone
    BY <1>4 DEF FileDone
  <1>5. CASE ListPlugins
    <2>1. order' \in Seq(File)
      <3>1. ASSUME NEW listing \in Listings
            PROVE  order \o listing \in Seq(File)
        <4>1. listing \in Seq(Plugins)
          BY FileAssumption
        <4>2. listing \in Seq(File)
          BY <4>1 DEF File
        <4> QED BY <4>2
      <3> QED BY <1>5, <3>1 DEF ListPlugins
    <2> QED BY <1>5, <2>1 DEF ListPlugins
  <1>6. CASE NoPlugins
    BY <1>6 DEF NoPlugins
  <1>7. CASE RestorePath
    BY <1>7 DEF RestorePath
  <1> QED BY <1>2, <1>3, <1>4, <1>5, <1>6, <1>7 DEF DiscoverNext

\* The plugin directory on sys.path.
LEMMA PathInvStep ==
    ASSUME DiscoverTypeOK, PathInv, DiscoverNext
    PROVE  PathInv'
  <1> USE DEF PathInv, DiscoverTypeOK
  <1>1. ASSUME Fail \/ Quit, Importing, UNCHANGED <<on_path, sys_path_added, was_on_path>>
        PROVE  PathInv'
    BY <1>1 DEF Fail, Quit, Importing
  <1>2. CASE ImportFile
    BY <1>1, <1>2 DEF ImportFile
  <1>3. CASE RegisterClass
    BY <1>1, <1>3 DEF RegisterClass
  <1>4. CASE FileDone
    BY <1>4 DEF FileDone
  <1>5. CASE ListPlugins
    <2>1. stage' \in {"custom", "finally"}
      BY <1>5 DEF ListPlugins
    <2> QED BY <1>5, <2>1 DEF ListPlugins
  <1>6. CASE NoPlugins
    BY <1>6 DEF NoPlugins
  <1>7. CASE RestorePath
    BY <1>7 DEF RestorePath
  <1> QED BY <1>2, <1>3, <1>4, <1>5, <1>6, <1>7 DEF DiscoverNext

\* The files imported so far.
LEMMA AllInGrows ==
    ASSUME NEW files, NEW k, NEW n \in Int, NEW s \in Seq(Classes), NEW c \in Classes,
           AllIn(files, k, n, s)
    PROVE  /\ AllIn(files, k, n, Append(s, c))
           /\ n + 1 <= Len(ClassesIn(files, k)) /\ c = ClassesIn(files, k)[n + 1] =>
                  AllIn(files, k, n + 1, Append(s, c))
  <1>1. \A d : Has(s, d) => Has(Append(s, c), d)
    BY DEF Has
  <1>2. Has(Append(s, c), c)
    BY DEF Has
  <1> QED BY <1>1, <1>2 DEF AllIn

LEMMA ImportInvStep ==
    ASSUME DiscoverTypeOK, ImportInv, DiscoverNext
    PROVE  ImportInv'
  <1> USE DEF ImportInv
  <1>0. /\ Len(order) \in Nat /\ next \in Nat \ {0} /\ at \in Nat /\ loaded \in Seq(Classes)
        /\ Builtins \in Seq(File) /\ order \in Seq(File)
    BY FileAssumption DEF DiscoverTypeOK
  <1>1. \A k, s : AllIn(order, k, 0, s) /\ AllIn(order, k, -1, s)
    BY DEF AllIn
  <1>2. ASSUME Importing, Fail \/ Quit, UNCHANGED <<custom, order, loaded>>
        PROVE  ImportInv'
    <2>1. CASE Fail
      <3>1. /\ next' = next + 1 /\ at' = 0 /\ failed' = failed \cup {next} /\ next <= Len(order)
            /\ UNCHANGED <<raised, stage>> /\ stage \in {"builtin", "custom"}
        BY <1>2, <2>1 DEF Fail, Importing
      <3>2. \A k \in (1 .. next' - 1) \ failed' : k \in (1 .. next - 1) \ failed
        BY <1>0, <3>1
      <3>3. AllIn(order, next + 1, 0 - 1, loaded)
        BY <1>1
      <3> QED BY <1>0, <1>2, <3>1, <3>2, <3>3
    <2>2. CASE Quit
      <3>1. /\ raised' = "quit" /\ stage' \in {"finally", "over"}
            /\ next' = next /\ at' = at /\ failed' = failed /\ order' = order
            /\ custom' = custom /\ loaded' = loaded
        BY <1>2, <2>2 DEF Quit
      <3> QED BY <3>1
    <2> QED BY <1>2, <2>1, <2>2
  <1>3. CASE ImportFile
    <2>1. CASE at' = 1 /\ UNCHANGED <<next, failed, raised, stage>>
      <3>1. /\ stage \in {"builtin", "custom"} /\ next <= Len(order)
            /\ UNCHANGED <<custom, order, loaded>>
        BY <1>3 DEF ImportFile, Importing
      <3>2. AllIn(order, next, at' - 1, loaded)
        BY <1>1, <2>1
      <3> QED BY <1>0, <2>1, <3>1, <3>2, SMTT(40)
    <2>2. CASE Fail \/ Quit
      BY <1>2, <1>3, <2>2 DEF ImportFile
    <2> QED BY <1>3, <2>1, <2>2 DEF ImportFile
  <1>4. CASE RegisterClass
    <2> DEFINE c == ClassesOf(next)[at]
    <2>1. CASE /\ registry' = Registered(c) /\ loaded' = Append(loaded, c) /\ at' = at + 1
               /\ UNCHANGED <<next, failed, raised, stage>>
      <3>1. /\ UNCHANGED <<custom, order>> /\ next \in 1 .. Len(order)
            /\ at \in 1 .. Len(ClassesIn(order, next))
        BY <1>4 DEF RegisterClass, Importing, ClassesOf
      <3>2. c \in Classes /\ c = ClassesIn(order, next)[at]
        BY <3>1, ClassesType DEF ClassesOf
      <3>3. \A k, n : n \in Int /\ AllIn(order, k, n, loaded) => AllIn(order, k, n, loaded')
        BY <1>0, <2>1, <3>2, AllInGrows
      <3>4. AllIn(order, next, at, loaded')
        <4>1. at - 1 \in Int /\ (at - 1) + 1 = at /\ at <= Len(ClassesIn(order, next))
          BY <1>0, <3>1
        <4>2. AllIn(order, next, (at - 1) + 1, Append(loaded, c))
          BY <1>0, <3>2, <4>1, AllInGrows
        <4> QED BY <2>1, <4>1, <4>2
      <3>5. \A k \in (1 .. next - 1) \ failed : Len(ClassesIn(order, k)) \in Int
        BY <1>0, <3>1, ClassesType DEF ClassesOf
      <3>6. /\ next' = next /\ order' = order /\ failed' = failed /\ stage' = stage
            /\ raised' = raised /\ custom' = custom /\ at' - 1 = at
        BY <1>0, <2>1, <3>1
      <3>7. \A k \in (1 .. next - 1) \ failed :
               AllIn(order, k, Len(ClassesIn(order, k)), loaded')
        BY <3>3, <3>5
      <3> QED BY <3>1, <3>4, <3>6, <3>7
    <2>2. CASE (Fail \/ Quit) /\ UNCHANGED <<registry, loaded>>
      BY <1>2, <1>4, <2>2 DEF RegisterClass
    <2> QED BY <1>4, <2>1, <2>2 DEF RegisterClass
  <1>5. CASE FileDone
    <2>1. /\ next \in 1 .. Len(order) /\ at > Len(ClassesIn(order, next))
          /\ next' = next + 1 /\ at' = 0
          /\ UNCHANGED <<stage, custom, order, raised, loaded, failed>>
      BY <1>0, <1>5 DEF FileDone, Importing, ClassesOf
    <2>2. Len(ClassesIn(order, next)) \in Nat
      BY <2>1, ClassesType DEF ClassesOf
    <2>3. AllIn(order, next, Len(ClassesIn(order, next)), loaded)
      BY <1>0, <2>1, <2>2 DEF AllIn
    <2>4. \A k \in (1 .. next) \ failed : AllIn(order, k, Len(ClassesIn(order, k)), loaded)
      BY <1>0, <2>3
    <2>5. stage \in {"builtin", "custom"}
      BY <1>5 DEF FileDone, Importing
    <2>6. AllIn(order, next + 1, 0 - 1, loaded)
      BY <1>1
    <2> QED BY <1>0, <2>1, <2>4, <2>5, <2>6, SMTT(40)
  <1>6. CASE ListPlugins
    <2>1. /\ stage = "builtin" /\ next = Len(order) + 1 /\ at = 0 /\ order = Builtins
          /\ UNCHANGED <<custom, next, at, loaded, failed>>
      BY <1>0, <1>6 DEF ListPlugins
    <2>2. ASSUME NEW listing \in Listings, order' = order \o listing, stage' = "custom"
          PROVE  ImportInv'
      <3>1. listing \in Seq(File)
        <4>1. listing \in Seq(Plugins)
          BY FileAssumption
        <4> QED BY <4>1 DEF File
      <3>2. Len(order') \in Nat /\ Len(order') >= Len(order)
        BY <1>0, <2>2, <3>1
      <3>3. \A k \in 1 .. Len(order) : order'[k] = order[k]
        BY <1>0, <2>2, <3>1
      <3>4. \A k \in 1 .. Len(order) : ClassesIn(order', k) = ClassesIn(order, k)
        BY <3>3 DEF ClassesIn
      <3>5. \A k \in (1 .. next - 1) \ failed :
               AllIn(order', k, Len(ClassesIn(order', k)), loaded)
        BY <1>0, <2>1, <3>4 DEF AllIn
      <3>6. AllIn(order', next, 0 - 1, loaded)
        BY DEF AllIn
      <3>7. next' = next /\ at' = 0 /\ failed' = failed /\ loaded' = loaded
        BY <2>1
      <3>8. next' \in 1 .. Len(order') + 1
        BY <1>0, <2>1, <3>2, <3>7
      <3>9. AllIn(order', next', at' - 1, loaded')
        BY <3>6, <3>7
      <3>10. order' = Builtins \o listing
        BY <2>1, <2>2
      <3> QED BY <2>2, <3>5, <3>7, <3>8, <3>9, <3>10
    <2>3. CASE stage' = "finally" /\ raised' = "error" /\ UNCHANGED order
      BY <1>0, <2>1, <2>3
    <2> QED BY <1>6, <2>2, <2>3 DEF ListPlugins
  <1>7. CASE NoPlugins
    BY <1>0, <1>7 DEF NoPlugins
  <1>8. CASE RestorePath
    BY <1>0, <1>8 DEF RestorePath
  <1> QED BY <1>3, <1>4, <1>5, <1>6, <1>7, <1>8 DEF DiscoverNext

\* RegistryIsLastLoaded after a step, with the lengths named.
LEMMA LastLoadedNext ==
    ASSUME NEW R \in Nat, NEW L \in Nat, Len(registry') = R, Len(loaded') = L + 1,
           \A k, l \in 1 .. R : registry'[k].name = registry'[l].name => k = l,
           \A j \in 1 .. L + 1 : \E k \in 1 .. R : registry'[k].name = NameOf[loaded'[j]],
           \A k \in 1 .. R : \E j \in 1 .. L + 1 :
               LastOf(loaded', j, registry'[k].name) /\ registry'[k].class = loaded'[j],
           \A k, l \in 1 .. R : \A j, m \in 1 .. L + 1 :
               k < l /\ FirstOf(loaded', j, registry'[k].name)
                     /\ FirstOf(loaded', m, registry'[l].name) => j < m
    PROVE  RegistryIsLastLoaded'
  BY DEF RegistryIsLastLoaded

\* One more class in the registry.
LEMMA RegistryGrows ==
    ASSUME DiscoverTypeOK, RegistryIsLastLoaded, NEW c \in Classes,
           registry' = Registered(c), loaded' = Append(loaded, c)
    PROVE  RegistryIsLastLoaded'
  <1> DEFINE n == NameOf[c]
             R == Len(registry)
             L == Len(loaded)
  <1>1. /\ R \in Nat /\ L \in Nat /\ Len(loaded') = L + 1 /\ loaded'[L + 1] = c
        /\ \A j \in 1 .. L : loaded'[j] = loaded[j]
    BY DEF DiscoverTypeOK
  <1>2. \A x : \A j \in 1 .. L : FirstOf(loaded', j, x) <=> FirstOf(loaded, j, x)
    BY <1>1 DEF FirstOf
  <1>3. \A x : FirstOf(loaded', L + 1, x) => x = n /\ \A j \in 1 .. L : NameOf[loaded[j]] # n
    BY <1>1 DEF FirstOf
  <1>4. \A x : \A j \in 1 .. L : LastOf(loaded, j, x) /\ x # n => LastOf(loaded', j, x)
    BY <1>1 DEF LastOf
  <1>5. LastOf(loaded', L + 1, n)
    BY <1>1 DEF LastOf
  <1>a. \A k, l \in 1 .. R : registry[k].name = registry[l].name => k = l
    BY DEF RegistryIsLastLoaded
  <1>b. \A j \in 1 .. L : \E k \in 1 .. R : registry[k].name = NameOf[loaded[j]]
    BY DEF RegistryIsLastLoaded
  <1>c. \A k \in 1 .. R : \E j \in 1 .. L :
           LastOf(loaded, j, registry[k].name) /\ registry[k].class = loaded[j]
    BY DEF RegistryIsLastLoaded
  <1>d. \A k, l \in 1 .. R : \A j, m \in 1 .. L :
           k < l /\ FirstOf(loaded, j, registry[k].name) /\ FirstOf(loaded, m, registry[l].name)
               => j < m
    BY DEF RegistryIsLastLoaded
  <1>6. CASE Positions(n) = {}
    <2>1. /\ Len(registry') = R + 1 /\ registry'[R + 1] = [name |-> n, class |-> c]
          /\ \A k \in 1 .. R : registry'[k] = registry[k] /\ registry[k].name # n
      <3>1. registry' = Append(registry, [name |-> n, class |-> c])
        BY <1>6 DEF Registered
      <3>2. registry \in Seq(Entry)
        BY DEF DiscoverTypeOK
      <3>3. \A k \in 1 .. R : registry[k].name # n
        BY <1>6 DEF Positions
      <3> QED BY <3>1, <3>2, <3>3
    <2>2. \A j \in 1 .. L : NameOf[loaded[j]] # n
      BY <1>6, <1>b DEF Positions
    <2>3. \A k, l \in 1 .. R + 1 : registry'[k].name = registry'[l].name => k = l
      <3>1. /\ registry'[R + 1].name = n
            /\ \A k \in 1 .. R : registry'[k].name = registry[k].name /\ registry'[k].name # n
        BY <2>1
      <3> SUFFICES ASSUME NEW k \in 1 .. R + 1, NEW l \in 1 .. R + 1,
                          registry'[k].name = registry'[l].name
                   PROVE  k = l
        OBVIOUS
      <3>2. CASE k = R + 1
        BY <1>1, <3>1, <3>2
      <3>3. CASE l = R + 1
        BY <1>1, <3>1, <3>3
      <3>4. CASE k \in 1 .. R /\ l \in 1 .. R
        BY <1>a, <3>1, <3>4
      <3> QED BY <1>1, <3>2, <3>3, <3>4
    <2>4. \A j \in 1 .. L + 1 : \E k \in 1 .. R + 1 : registry'[k].name = NameOf[loaded'[j]]
      <3> SUFFICES ASSUME NEW j \in 1 .. L + 1
                   PROVE  \E k \in 1 .. R + 1 : registry'[k].name = NameOf[loaded'[j]]
        OBVIOUS
      <3>1. CASE j = L + 1
        BY <1>1, <2>1, <3>1
      <3>2. CASE j \in 1 .. L
        <4>1. PICK k \in 1 .. R : registry[k].name = NameOf[loaded[j]]
          BY <1>b, <3>2
        <4> QED BY <1>1, <2>1, <3>2, <4>1
      <3> QED BY <1>1, <3>1, <3>2
    <2>5. \A k \in 1 .. R + 1 : \E j \in 1 .. L + 1 :
             LastOf(loaded', j, registry'[k].name) /\ registry'[k].class = loaded'[j]
      <3> SUFFICES ASSUME NEW k \in 1 .. R + 1
                   PROVE  \E j \in 1 .. L + 1 :
                             LastOf(loaded', j, registry'[k].name) /\ registry'[k].class = loaded'[j]
        OBVIOUS
      <3>1. CASE k = R + 1
        BY <1>1, <1>5, <2>1, <3>1
      <3>2. CASE k \in 1 .. R
        <4>1. PICK j \in 1 .. L : LastOf(loaded, j, registry[k].name) /\ registry[k].class = loaded[j]
          BY <1>c, <3>2
        <4>2. LastOf(loaded', j, registry'[k].name)
          BY <1>4, <2>1, <3>2, <4>1
        <4> QED BY <1>1, <2>1, <3>2, <4>1, <4>2
      <3> QED BY <1>1, <3>1, <3>2
    <2>6. \A k, l \in 1 .. R + 1 : \A j, m \in 1 .. L + 1 :
             k < l /\ FirstOf(loaded', j, registry'[k].name) /\ FirstOf(loaded', m, registry'[l].name)
                => j < m
      <3> SUFFICES ASSUME NEW k \in 1 .. R + 1, NEW l \in 1 .. R + 1,
                          NEW j \in 1 .. L + 1, NEW m \in 1 .. L + 1,
                          k < l, FirstOf(loaded', j, registry'[k].name),
                          FirstOf(loaded', m, registry'[l].name)
                   PROVE  j < m
        OBVIOUS
      <3>1. k \in 1 .. R /\ registry'[k].name # n
        BY <1>1, <2>1
      <3>2. j \in 1 .. L
        BY <1>1, <1>3, <3>1
      <3>3. CASE m = L + 1
        BY <1>1, <3>2, <3>3
      <3>4. CASE m \in 1 .. L
        <4>1. FirstOf(loaded, m, registry'[l].name)
          BY <1>2, <3>4
        <4>2. NameOf[loaded[m]] = registry'[l].name
          BY <4>1 DEF FirstOf
        <4>3. l \in 1 .. R
          <5>1. l # R + 1
            BY <2>1, <2>2, <3>4, <4>2
          <5> QED BY <1>1, <5>1
        <4>4. FirstOf(loaded, j, registry[k].name) /\ FirstOf(loaded, m, registry[l].name)
          BY <1>2, <2>1, <3>1, <3>2, <4>1, <4>3
        <4> QED BY <1>d, <3>1, <3>2, <3>4, <4>3, <4>4
      <3> QED BY <1>1, <3>3, <3>4
    <2>7. /\ R + 1 \in Nat /\ L \in Nat
          /\ Len(registry') = R + 1 /\ Len(loaded') = L + 1
      BY <1>1, <2>1
    <2> HIDE DEF R, L
    <2> QED BY <2>3, <2>4, <2>5, <2>6, <2>7, LastLoadedNext
  <1>7. CASE Positions(n) # {}
    <2>1. PICK i0 \in 1 .. R : registry[i0].name = n
      BY <1>7 DEF Positions
    <2>2. /\ Len(registry') = R
          /\ \A k \in 1 .. R :
                /\ registry'[k].name = registry[k].name
                /\ registry'[k].class = IF registry[k].name = n THEN c ELSE registry[k].class
      <3>1. registry' = [k \in 1 .. R |-> IF k \in Positions(n)
                                         THEN [name |-> n, class |-> c] ELSE registry[k]]
        BY <1>7 DEF Registered
      <3>2. Len(registry') = R
        BY <1>1, <3>1
      <3> QED BY <3>1, <3>2 DEF Positions
    <2>3. \E j \in 1 .. L : NameOf[loaded[j]] = n
      BY <1>c, <2>1 DEF LastOf
    <2>4. \A x : ~FirstOf(loaded', L + 1, x)
      BY <1>3, <2>3
    <2>5. \A k, l \in 1 .. R : registry'[k].name = registry'[l].name => k = l
      BY <1>a, <2>2
    <2>6. \A j \in 1 .. L + 1 : \E k \in 1 .. R : registry'[k].name = NameOf[loaded'[j]]
      <3> SUFFICES ASSUME NEW j \in 1 .. L + 1
                   PROVE  \E k \in 1 .. R : registry'[k].name = NameOf[loaded'[j]]
        OBVIOUS
      <3>1. CASE j = L + 1
        BY <1>1, <2>1, <2>2, <3>1
      <3>2. CASE j \in 1 .. L
        <4>1. PICK k \in 1 .. R : registry[k].name = NameOf[loaded[j]]
          BY <1>b, <3>2
        <4> QED BY <1>1, <2>2, <3>2, <4>1
      <3> QED BY <1>1, <3>1, <3>2
    <2>7. \A k \in 1 .. R : \E j \in 1 .. L + 1 :
             LastOf(loaded', j, registry'[k].name) /\ registry'[k].class = loaded'[j]
      <3> SUFFICES ASSUME NEW k \in 1 .. R
                   PROVE  \E j \in 1 .. L + 1 :
                             LastOf(loaded', j, registry'[k].name) /\ registry'[k].class = loaded'[j]
        OBVIOUS
      <3>1. CASE registry[k].name = n
        BY <1>1, <1>5, <2>2, <3>1
      <3>2. CASE registry[k].name # n
        <4>1. PICK j \in 1 .. L : LastOf(loaded, j, registry[k].name) /\ registry[k].class = loaded[j]
          BY <1>c
        <4>2. LastOf(loaded', j, registry'[k].name)
          BY <1>4, <2>2, <3>2, <4>1
        <4> QED BY <1>1, <2>2, <3>2, <4>1, <4>2
      <3> QED BY <3>1, <3>2
    <2>8. \A k, l \in 1 .. R : \A j, m \in 1 .. L + 1 :
             k < l /\ FirstOf(loaded', j, registry'[k].name) /\ FirstOf(loaded', m, registry'[l].name)
                => j < m
      <3> SUFFICES ASSUME NEW k \in 1 .. R, NEW l \in 1 .. R,
                          NEW j \in 1 .. L + 1, NEW m \in 1 .. L + 1,
                          k < l, FirstOf(loaded', j, registry'[k].name),
                          FirstOf(loaded', m, registry'[l].name)
                   PROVE  j < m
        OBVIOUS
      <3>1. j \in 1 .. L /\ m \in 1 .. L
        BY <1>1, <2>4
      <3>2. FirstOf(loaded, j, registry[k].name) /\ FirstOf(loaded, m, registry[l].name)
        BY <1>2, <2>2, <3>1
      <3> QED BY <1>d, <3>1, <3>2
    <2>9. /\ R \in Nat /\ L \in Nat
          /\ Len(registry') = R /\ Len(loaded') = L + 1
      BY <1>1, <2>2
    <2>10. ASSUME NEW r \in Nat, NEW m \in Nat, r = R, m = L
           PROVE  RegistryIsLastLoaded'
      <3>1. Len(registry') = r /\ Len(loaded') = m + 1
        BY <2>9, <2>10
      <3>2. \A k, l \in 1 .. r : registry'[k].name = registry'[l].name => k = l
        BY <2>5, <2>10
      <3>3. \A j \in 1 .. m + 1 : \E k \in 1 .. r : registry'[k].name = NameOf[loaded'[j]]
        BY <2>6, <2>10
      <3>4. \A k \in 1 .. r : \E j \in 1 .. m + 1 :
               LastOf(loaded', j, registry'[k].name) /\ registry'[k].class = loaded'[j]
        BY <2>7, <2>10
      <3>5. \A k, l \in 1 .. r : \A j, h \in 1 .. m + 1 :
               k < l /\ FirstOf(loaded', j, registry'[k].name)
                     /\ FirstOf(loaded', h, registry'[l].name) => j < h
        BY <2>8, <2>10
      <3> QED BY <3>1, <3>2, <3>3, <3>4, <3>5, LastLoadedNext, ZenonT(60)
    <2> QED BY <2>9, <2>10
  <1> QED BY <1>6, <1>7

LEMMA RegistryStep ==
    ASSUME DiscoverTypeOK, RegistryIsLastLoaded, DiscoverNext
    PROVE  RegistryIsLastLoaded'
  <1>1. CASE UNCHANGED <<registry, loaded>>
    BY <1>1 DEF RegistryIsLastLoaded
  <1>2. CASE RegisterClass
    <2> DEFINE c == ClassesOf(next)[at]
    <2>1. CASE registry' = Registered(c) /\ loaded' = Append(loaded, c)
      <3>1. next \in 1 .. Len(order) /\ at \in 1 .. Len(ClassesOf(next))
        BY <1>2 DEF RegisterClass, Importing, DiscoverTypeOK
      <3>2. c \in Classes
        BY <3>1, ClassesType
      <3> QED BY <2>1, <3>2, RegistryGrows
    <2> QED BY <1>1, <1>2, <2>1 DEF RegisterClass
  <1> QED BY <1>1, <1>2 DEF DiscoverNext, ImportFile, FileDone, ListPlugins, NoPlugins, RestorePath

LEMMA DiscoverInvNew ==
    ASSUME DiscoverTypeOK, PathInv, NEW with \in BOOLEAN, Discover(with),
           stage \notin {"custom", "finally"}
    PROVE  PathInv' /\ ImportInv' /\ RegistryIsLastLoaded'
  <1>1. Len(Builtins) \in Nat
    BY FileAssumption
  <1>2. AllIn(order', next', 0 - 1, loaded')
    BY DEF AllIn
  <1>3. ImportInv'
    BY <1>1, <1>2 DEF ImportInv, Discover
  <1>4. PathInv'
    BY DEF PathInv, Discover
  <1>5. RegistryIsLastLoaded'
    BY DEF RegistryIsLastLoaded, Discover
  <1> QED BY <1>3, <1>4, <1>5

LEMMA DiscoverInvInit ==
    ASSUME DiscoverInit
    PROVE  PathInv /\ ImportInv /\ RegistryIsLastLoaded
  <1>1. Len(Builtins) \in Nat
    BY FileAssumption
  <1>2. AllIn(order, next, 0 - 1, loaded)
    BY DEF AllIn
  <1>3. ImportInv
    BY <1>1, <1>2 DEF ImportInv, DiscoverInit
  <1>4. PathInv
    BY DEF PathInv, DiscoverInit
  <1>5. RegistryIsLastLoaded
    BY DEF RegistryIsLastLoaded, DiscoverInit
  <1> QED BY <1>3, <1>4, <1>5

-----------------------------------------------------------------------------
(***************************************************************************)
(* The invariants of the two parts hold while main moves between them.  An *)
(* engine is only made while no directory of plugins is on sys.path.       *)
(***************************************************************************)
PhaseInv ==
    /\ phase \in {"parse", "menu"} => stage = "off"
    /\ phase = "pick" => stage = "over"

Types == ParseTypeOK /\ DiscoverTypeOK
IInv  == StartupInv /\ RegistryIsLastLoaded /\ PhaseInv

\* A step leaves both parts alone, or is a step of one of them.
Makes == \E with \in BOOLEAN : phase \in {"parse", "menu", "pick"} /\ Discover(with)

LEMMA StepOfAPart ==
    ASSUME Next
    PROVE  \/ ParseNext /\ UNCHANGED discovery
           \/ DiscoverNext /\ UNCHANGED parsed
           \/ Makes /\ UNCHANGED parsed
           \/ UNCHANGED <<parsed, discovery>>
  <1>1. CASE Parse
    BY <1>1 DEF Parse
  <1>2. CASE Import
    BY <1>2 DEF Import
  <1>3. CASE List
    BY <1>3 DEF List, Commanded, MakeEngine, Makes
  <1>4. CASE Scan
    <2>1. PICK isdir \in BOOLEAN :
             MakeEngine("scan", Requested, Truthy(args["custom_modules_dir"]) /\ isdir)
      BY <1>4 DEF Scan
    <2> DEFINE with == Truthy(args["custom_modules_dir"]) /\ isdir
    <2>2. with \in BOOLEAN
      OBVIOUS
    <2>3. phase = "parse" /\ UNCHANGED parsed
      BY <1>4 DEF Scan, Commanded
    <2>4. Discover(with)
      BY <2>1 DEF MakeEngine
    <2> HIDE DEF with
    <2> QED BY <2>2, <2>3, <2>4 DEF Makes
  <1>5. CASE MenuMakesEngine
    BY <1>5 DEF MenuMakesEngine, MakeEngine, Makes
  <1>6. CASE Pick
    BY <1>6 DEF Pick, MakeEngine, Makes
  <1>7. CASE Answer \/ OpenMenu \/ Diff \/ ScanOfNothing \/ MenuLeaves \/ MenuCompares
    BY <1>7 DEF Answer, OpenMenu, Diff, ScanOfNothing, MenuLeaves, MenuCompares
  <1>8. CASE \/ NoEngine \/ ListModules \/ ShowSelection \/ InstanceRaises \/ LookUp
             \/ SelectModules \/ EmptyScan \/ StartScan \/ Stay
    BY <1>8 DEF NoEngine, ListModules, ShowSelection, InstanceRaises, LookUp, SelectModules,
                EmptyScan, StartScan, Stay, vars
  <1> QED BY <1>1, <1>2, <1>3, <1>4, <1>5, <1>6, <1>7, <1>8 DEF Next, Step

LEMMA ParseKeeps ==
    ASSUME ParseTypeOK, ParseInv, UNCHANGED parsed
    PROVE  ParseTypeOK' /\ ParseInv'
  <1>1. UNCHANGED <<argv, i, args, command, diff_files, reading, role>>
    BY DEF parsed
  <1>2. ParseTypeOK'
    BY <1>1 DEF ParseTypeOK
  <1>3. RolesFit'
    BY <1>1 DEF ParseInv, RolesFit, More, Here
  <1>4. RolesForced' /\ ReadSoFar' /\ Verdict'
    BY <1>1 DEF ParseInv, RolesForced, ReadSoFar, Verdict
  <1> QED BY <1>2, <1>3, <1>4 DEF ParseInv

LEMMA DiscoverKeeps ==
    ASSUME DiscoverTypeOK, PathInv, ImportInv, RegistryIsLastLoaded, UNCHANGED discovery
    PROVE  DiscoverTypeOK' /\ PathInv' /\ ImportInv' /\ RegistryIsLastLoaded'
  <1>1. UNCHANGED <<stage, custom, order, next, at, registry, on_path, sys_path_added,
                    raised, loaded, failed, was_on_path>>
    BY DEF discovery
  <1>2. DiscoverTypeOK'
    BY <1>1 DEF DiscoverTypeOK
  <1>3. PathInv'
    BY <1>1 DEF PathInv
  <1>4. ImportInv'
    BY <1>1 DEF ImportInv
  <1>5. RegistryIsLastLoaded'
    BY <1>1 DEF RegistryIsLastLoaded
  <1> QED BY <1>2, <1>3, <1>4, <1>5

LEMMA PhaseInvStep ==
    ASSUME PhaseInv, Next
    PROVE  PhaseInv'
  <1>1. CASE Parse \/ Answer \/ OpenMenu \/ Diff \/ ScanOfNothing
    BY <1>1 DEF Parse, Answer, OpenMenu, Diff, ScanOfNothing, Commanded, Leave, PhaseInv,
                discovery, dispatch
  <1>2. CASE List \/ Scan \/ MenuMakesEngine
    BY <1>2 DEF List, Scan, MenuMakesEngine, MakeEngine, PhaseInv
  <1>3. CASE MenuLeaves \/ MenuCompares
    BY <1>3 DEF MenuLeaves, MenuCompares, Leave, PhaseInv, discovery
  <1>4. CASE Import
    BY <1>4 DEF Import, dispatch, PhaseInv
  <1>5. CASE Pick
    BY <1>5 DEF Pick, MakeEngine, Leave, PhaseInv
  <1>6. CASE \/ NoEngine \/ ListModules \/ ShowSelection \/ InstanceRaises \/ LookUp
             \/ SelectModules \/ EmptyScan \/ StartScan
    BY <1>6 DEF NoEngine, ListModules, ShowSelection, InstanceRaises, LookUp, SelectModules,
                EmptyScan, StartScan, Made, Leave, PhaseInv, discovery
  <1>7. CASE Stay
    BY <1>7 DEF Stay, vars, discovery, dispatch, PhaseInv
  <1> QED BY <1>1, <1>2, <1>3, <1>4, <1>5, <1>6, <1>7 DEF Next, Step

LEMMA IInvStep ==
    ASSUME Types, IInv, [Next]_vars
    PROVE  Types' /\ IInv'
  <1>0. ParseTypeOK /\ DiscoverTypeOK /\ ParseInv /\ PathInv /\ ImportInv
    BY DEF Types, IInv, StartupInv
  <1>a. RegistryIsLastLoaded /\ PhaseInv
    BY DEF IInv
  <1>1. PhaseInv'
    <2>1. CASE UNCHANGED vars
      BY <1>a, <2>1 DEF PhaseInv, vars, discovery, dispatch
    <2> QED BY <1>a, <2>1, PhaseInvStep
  <1>2. ParseTypeOK' /\ ParseInv'
    <2>1. CASE ParseNext
      BY <1>0, <2>1, ParseTypesStep, ParseInvStep
    <2>2. CASE UNCHANGED parsed
      BY <1>0, <2>2, ParseKeeps
    <2>3. CASE Next
      BY <2>1, <2>2, <2>3, StepOfAPart
    <2> QED BY <2>2, <2>3 DEF vars
  <1>3. DiscoverTypeOK' /\ PathInv' /\ ImportInv' /\ RegistryIsLastLoaded'
    <2>1. CASE DiscoverNext
      BY <1>0, <1>a, <2>1, DiscoverTypesStep, PathInvStep, ImportInvStep, RegistryStep
    <2>2. CASE Makes
      <3>1. stage \notin {"custom", "finally"}
        BY <1>a, <2>2 DEF Makes, PhaseInv
      <3>2. PICK with \in BOOLEAN : Discover(with)
        BY <2>2 DEF Makes
      <3> QED BY <1>0, <3>1, <3>2, DiscoverTypesNew, DiscoverInvNew
    <2>3. CASE UNCHANGED discovery
      BY <1>0, <1>a, <2>3, DiscoverKeeps
    <2>4. CASE Next
      BY <2>1, <2>2, <2>3, <2>4, StepOfAPart
    <2> QED BY <2>3, <2>4 DEF vars
  <1> QED BY <1>1, <1>2, <1>3 DEF Types, IInv, StartupInv

LEMMA InvariantHolds == Spec => [](Types /\ IInv)
  <1>1. Init => Types /\ IInv
    <2> SUFFICES ASSUME Init PROVE Types /\ IInv
      OBVIOUS
    <2>1. ParseInit /\ DiscoverInit /\ phase = "parse"
      BY DEF Init
    <2>2. Types /\ StartupInv /\ RegistryIsLastLoaded
      BY <2>1, ParseTypesInit, ParseInvInit, DiscoverTypesInit, DiscoverInvInit
      DEF Types, StartupInv
    <2>3. PhaseInv
      BY <2>1 DEF PhaseInv, DiscoverInit
    <2> QED BY <2>2, <2>3 DEF IInv
  <1>2. Types /\ IInv /\ [Next]_vars => (Types /\ IInv)'
    BY IInvStep
  <1> QED BY <1>1, <1>2, PTL DEF Spec

-----------------------------------------------------------------------------
(***************************************************************************)
(* The inductive invariant holds for all command lines, files and plugins, *)
(* and the state of both parts has its types.                              *)
(***************************************************************************)
THEOREM StartupInvariant == Spec => [](ParseTypeOK /\ DiscoverTypeOK /\ StartupInv)
  <1>1. Types /\ IInv => ParseTypeOK /\ DiscoverTypeOK /\ StartupInv
    BY DEF Types, IInv
  <1> QED BY <1>1, InvariantHolds, PTL

(***************************************************************************)
(* parse_args agrees with the grammar on every command line.               *)
(***************************************************************************)
THEOREM ReadsByGrammar == Spec => []ReadByGrammar
  <1>1. Types /\ IInv => ReadByGrammar
    BY ParseInvGrammar DEF Types, IInv, StartupInv
  <1> QED BY <1>1, InvariantHolds, PTL

(***************************************************************************)
(* The registry _discover_modules builds is the one ScanEngine assumes.    *)
(***************************************************************************)
THEOREM RegistryFaithful == Spec => []RegistryIsLastLoaded
  <1>1. IInv => RegistryIsLastLoaded
    BY DEF IInv
  <1> QED BY <1>1, InvariantHolds, PTL

(***************************************************************************)
(* A file that raises takes no other file with it.                         *)
(***************************************************************************)
THEOREM FailureIsContained == Spec => []FailureContained
  <1>1. Types /\ IInv => FailureContained
    <2> SUFFICES ASSUME DiscoverTypeOK, ImportInv, stage = "over", raised = "none"
                 PROVE  /\ custom => \E listing \in Listings : order = Builtins \o listing
                        /\ \A k \in (1 .. Len(order)) \ failed :
                               AllIn(order, k, Len(ClassesOf(k)), loaded)
      BY DEF Types, IInv, StartupInv, FailureContained
    <2>1. custom => \E listing \in Listings : order = Builtins \o listing
      BY DEF ImportInv
    <2>2. next - 1 = Len(order)
      BY DEF DiscoverTypeOK, ImportInv
    <2>3. \A k \in (1 .. next - 1) \ failed :
             AllIn(order, k, Len(ClassesIn(order, k)), loaded)
      BY DEF ImportInv
    <2> QED BY <2>1, <2>2, <2>3 DEF ClassesOf
  <1> QED BY <1>1, InvariantHolds, PTL

(***************************************************************************)
(* sys.path is as it was, however the discovery ended.                     *)
(***************************************************************************)
THEOREM PathIsRestored == Spec => []PathRestored
  <1>1. IInv => PathRestored
    BY DEF IInv, StartupInv, PathInv, PathRestored
  <1> QED BY <1>1, InvariantHolds, PTL

-----------------------------------------------------------------------------
(***************************************************************************)
(* What main hands on: the types of Startup's own variables, what a scan   *)
(* was asked for, and what has been found of it so far.                    *)
(***************************************************************************)
LEMMA RequestedType ==
    ASSUME ParseTypeOK
    PROVE  Requested \in Seq(Typed)
  <1>1. args["modules"] \in Value
    BY DEF ParseTypeOK, Attribute
  <1>2. Split[args["modules"]] \in Seq(Typed)
    BY <1>1, NameAssumption
  <1> QED BY <1>2 DEF Requested

LEMMA RegistryType ==
    ASSUME DiscoverTypeOK
    PROVE  Registry \in Seq(Typed) /\ Registrable \subseteq Name
  <1>1. registry \in Seq(Entry)
    BY DEF DiscoverTypeOK
  <1>2. ASSUME NEW k \in 1 .. Len(registry)
        PROVE  registry[k].name \in Name
    <2>1. registry[k] \in Entry
      BY <1>1
    <2> QED BY <2>1 DEF Entry, Name
  <1>3. Registrable \subseteq Name
    BY <1>2 DEF Registrable
  <1>4. Len(registry) \in Nat /\ \A k \in 1 .. Len(registry) : registry[k].name \in Typed
    BY <1>1, <1>2, NameAssumption
  <1>5. Registry \in Seq(Typed)
    BY <1>4 DEF Registry
  <1> QED BY <1>3, <1>5

\* A step that makes an engine keeps the types.
LEMMA MakeTypes ==
    ASSUME TypeOK, ParseTypeOK', DiscoverTypeOK',
           NEW for \in {"list", "pick", "scan"}, NEW names \in Seq(Typed), NEW with,
           looked = 0, MakeEngine(for, names, with)
    PROVE  TypeOK'
  <1>1. /\ phase' = "discover" /\ purpose' = for /\ request' = names
        /\ UNCHANGED <<available, modules, looked, exit>>
    BY DEF MakeEngine
  <1>2. looked' \in 0 .. Len(request')
    BY <1>1
  <1> QED BY <1>1, <1>2 DEF TypeOK

LEMMA EmptyRequest == <<>> \in Seq(Typed) /\ Len(<<>>) = 0
  OBVIOUS

\* The names picked from the list shown.
LEMMA PicksType ==
    ASSUME available \subseteq Name, NEW n \in 1 .. MaxPicks, NEW picks \in [1 .. n -> available]
    PROVE  picks \in Seq(Typed)
  <1>1. n \in Nat /\ picks \in [1 .. n -> Typed]
    BY NameAssumption
  <1> QED BY <1>1

LEMMA LookUpTypes ==
    ASSUME TypeOK, LookUp
    PROVE  /\ looked' = looked + 1 /\ looked' \in 1 .. Len(request)
           /\ Normal[request[looked']] \in Typed /\ modules' \in Seq(Typed)
  <1>1. looked' = looked + 1 /\ looked' \in 1 .. Len(request) /\ request \in Seq(Typed)
    BY DEF LookUp, TypeOK
  <1>2. request[looked'] \in Typed
    BY <1>1
  <1>3. Normal[request[looked']] \in Typed
    BY <1>2, NameAssumption
  <1>4. modules \in Seq(Typed)
    BY DEF TypeOK
  <1>5. PICK name : name = Normal[request[looked']]
    OBVIOUS
  <1>6. modules' \in {modules, Append(modules, name)}
    BY <1>5 DEF LookUp
  <1>7. Append(modules, name) \in Seq(Typed)
    BY <1>3, <1>4, <1>5
  <1> QED BY <1>1, <1>3, <1>4, <1>6, <1>7

\* What the engine being made is for, and what it was asked.
AskedInv ==
    /\ phase \notin {"parse", "over"} => reading = "accepted"
    /\ phase \in {"parse", "menu"} => purpose = "none"
    /\ phase = "pick" => purpose = "pick"
    /\ phase \in {"selected", "scan"} => purpose = "scan"
    /\ phase = "menu" \/ purpose = "pick" => command = "none"
    /\ purpose = "scan" /\ command # "none" => Asked /\ request = Requested

FoundUpTo(names, known, n) == {k \in 1 .. n : Normal[names[k]] \in known}

\* The modules are the first n of the names that are known.
Found(run, names, known, n) ==
    /\ Len(run) = Cardinality(FoundUpTo(names, known, n))
    /\ \A k \in FoundUpTo(names, known, n) :
           run[Cardinality(FoundUpTo(names, known, k))] = Normal[names[k]]

FoundInv ==
    /\ looked # 0 => stage = "over"
    /\ purpose # "scan" => looked = 0 /\ modules = <<>>
    /\ phase = "discover" => Found(modules, request, Registrable, looked)
    /\ phase \in {"selected", "scan"} =>
           IF request = <<>> THEN modules = Registry
           ELSE Found(modules, request, Registrable, Len(request))

LEMMA TypeStep ==
    ASSUME TypeOK, AskedInv, FoundInv, ParseTypeOK', DiscoverTypeOK', [Next]_vars
    PROVE  TypeOK'
  <1>0. phase \in {"parse", "menu", "pick"} => looked = 0
    BY DEF AskedInv, FoundInv
  <1>1. CASE UNCHANGED dispatch
    BY <1>1 DEF dispatch, TypeOK
  <1>2. CASE Answer \/ Diff \/ ScanOfNothing \/ MenuLeaves \/ NoEngine \/ InstanceRaises \/ EmptyScan
    BY <1>2 DEF Answer, Diff, ScanOfNothing, MenuLeaves, NoEngine, InstanceRaises, EmptyScan, Leave,
                TypeOK
  <1>3. CASE OpenMenu \/ MenuCompares \/ StartScan
    BY <1>3 DEF OpenMenu, MenuCompares, StartScan, TypeOK
  <1>4. CASE List \/ MenuMakesEngine
    BY <1>0, <1>4, MakeTypes, EmptyRequest DEF List, MenuMakesEngine, Commanded
  <1>5. CASE Scan
    <2>1. Requested \in Seq(Typed)
      BY RequestedType DEF TypeOK
    <2> QED BY <1>0, <1>5, <2>1, MakeTypes DEF Scan, Commanded
  <1>6. CASE Pick
    <2>1. CASE /\ \E c \in {0, 1} : Leave(c)
               /\ UNCHANGED <<discovery, purpose, request, available, modules, looked>>
      BY <2>1 DEF Leave, TypeOK
    <2>2. ASSUME NEW n \in 1 .. MaxPicks, NEW picks \in [1 .. n -> available],
                 MakeEngine("scan", picks, FALSE)
          PROVE  TypeOK'
      <3>1. picks \in Seq(Typed)
        BY PicksType DEF TypeOK
      <3> QED BY <1>0, <1>6, <2>2, <3>1, MakeTypes DEF Pick
    <2> QED BY <1>6, <2>1, <2>2 DEF Pick
  <1>7. CASE ListModules \/ ShowSelection
    <2>1. Registrable \subseteq Name
      BY RegistryType DEF TypeOK
    <2> QED BY <1>7, <2>1 DEF ListModules, ShowSelection, Leave, TypeOK
  <1>8. CASE LookUp
    <2>1. UNCHANGED <<phase, purpose, request, available, exit>>
      BY <1>8 DEF LookUp
    <2>2. looked' \in 0 .. Len(request') /\ modules' \in Seq(Typed)
      BY <1>8, <2>1, LookUpTypes
    <2> QED BY <2>1, <2>2 DEF TypeOK
  <1>9. CASE SelectModules
    <2>1. Registry \in Seq(Typed)
      BY RegistryType DEF TypeOK
    <2> QED BY <1>9, <2>1 DEF SelectModules, TypeOK
  <1>10. CASE Parse \/ Import \/ Stay \/ UNCHANGED vars
    BY <1>1, <1>10 DEF Parse, Import, Stay, vars
  <1> QED BY <1>2, <1>3, <1>4, <1>5, <1>6, <1>7, <1>8, <1>9, <1>10 DEF Next, Step

LEMMA AskedStep ==
    ASSUME AskedInv, [Next]_vars
    PROVE  AskedInv'
  <1> USE DEF AskedInv
  <1>1. CASE Parse
    BY <1>1 DEF Parse, dispatch
  <1>2. CASE Answer \/ OpenMenu \/ Diff \/ ScanOfNothing
    BY <1>2 DEF Answer, OpenMenu, Diff, ScanOfNothing, Commanded, Leave, parsed
  <1>3. CASE List \/ MenuMakesEngine
    BY <1>3 DEF List, MenuMakesEngine, MakeEngine, Commanded, parsed
  <1>4. CASE Scan
    <2>1. /\ phase' = "discover" /\ purpose' = "scan" /\ request' = Requested /\ Asked
          /\ reading = "accepted" /\ UNCHANGED <<args, command, reading>>
      BY <1>4 DEF Scan, MakeEngine, Commanded, parsed
    <2>2. Requested' = Requested /\ (Asked <=> Asked')
      BY <2>1 DEF Requested, Asked
    <2> QED BY <2>1, <2>2
  <1>5. CASE Pick
    BY <1>5 DEF Pick, MakeEngine, Leave, parsed
  <1>6. CASE \/ MenuLeaves \/ MenuCompares \/ Import \/ NoEngine \/ ListModules \/ ShowSelection
             \/ InstanceRaises \/ LookUp \/ SelectModules \/ EmptyScan \/ StartScan \/ Stay
             \/ UNCHANGED vars
    <2>1. UNCHANGED <<args, command, reading, purpose, request>>
      BY <1>6 DEF MenuLeaves, MenuCompares, Import, NoEngine, ListModules, ShowSelection,
         InstanceRaises, LookUp, SelectModules, EmptyScan, StartScan, Stay, vars, dispatch, parsed
    <2>2. Requested' = Requested /\ (Asked <=> Asked')
      BY <2>1 DEF Requested, Asked
    <2>3. \/ phase' \in {phase, "over"}
          \/ phase = "menu" /\ phase' = "compare"
          \/ phase = "discover" /\ purpose = "pick" /\ phase' = "pick"
          \/ phase = "discover" /\ purpose = "scan" /\ phase' = "selected"
          \/ phase = "selected" /\ phase' = "scan"
      BY <1>6 DEF MenuLeaves, MenuCompares, Import, NoEngine, ListModules, ShowSelection,
         InstanceRaises, LookUp, SelectModules, EmptyScan, StartScan, Stay, vars, dispatch, Made, Leave
    <2> QED BY <2>1, <2>2, <2>3
  <1> QED BY <1>1, <1>2, <1>3, <1>4, <1>5, <1>6 DEF Next, Step

\* How many of the first names are known.
LEMMA FoundFinite ==
    ASSUME NEW names, NEW known, NEW n \in Nat
    PROVE  /\ IsFiniteSet(FoundUpTo(names, known, n))
           /\ Cardinality(FoundUpTo(names, known, n)) \in Nat
  <1>1. IsFiniteSet(1 .. n)
    BY FS_Interval
  <1>2. FoundUpTo(names, known, n) \subseteq 1 .. n
    BY DEF FoundUpTo
  <1>3. IsFiniteSet(FoundUpTo(names, known, n))
    BY <1>1, <1>2, FS_Subset
  <1> QED BY <1>3, FS_CardinalityType

LEMMA FoundStart == \A names, known : Found(<<>>, names, known, 0)
  <1> TAKE names, known
  <1>1. FoundUpTo(names, known, 0) = {}
    BY DEF FoundUpTo
  <1>2. Cardinality(FoundUpTo(names, known, 0)) = 0
    BY <1>1, FS_EmptySet
  <1> QED BY <1>1, <1>2 DEF Found

\* One more name, unknown or known.
LEMMA FoundNoMore ==
    ASSUME NEW run, NEW names, NEW known, NEW n \in Nat, Found(run, names, known, n),
           Normal[names[n + 1]] \notin known
    PROVE  Found(run, names, known, n + 1)
  <1>1. FoundUpTo(names, known, n + 1) = FoundUpTo(names, known, n)
    BY DEF FoundUpTo
  <1> QED BY <1>1 DEF Found

LEMMA FoundOneMore ==
    ASSUME NEW run \in Seq(Typed), NEW names, NEW known, NEW n \in Nat,
           Found(run, names, known, n),
           NEW name \in Typed, name = Normal[names[n + 1]], name \in known
    PROVE  Found(Append(run, name), names, known, n + 1)
  <1> DEFINE Count(k) == Cardinality(FoundUpTo(names, known, k))
  <1>1. /\ FoundUpTo(names, known, n + 1) = FoundUpTo(names, known, n) \cup {n + 1}
        /\ n + 1 \notin FoundUpTo(names, known, n)
    BY DEF FoundUpTo
  <1>2. Count(n + 1) = Count(n) + 1
    BY <1>1, FoundFinite, FS_AddElement
  <1>3. Len(run) = Count(n)
    BY DEF Found
  <1>4. ASSUME NEW k \in FoundUpTo(names, known, n)
        PROVE  Append(run, name)[Count(k)] = Normal[names[k]]
    <2>1. /\ k \in Nat /\ k \in FoundUpTo(names, known, k)
          /\ FoundUpTo(names, known, k) \subseteq FoundUpTo(names, known, n)
      BY DEF FoundUpTo
    <2>2. Count(k) \in Nat /\ Count(n) \in Nat /\ Count(k) <= Count(n)
      BY <2>1, FoundFinite, FS_Subset
    <2>3. Count(k) # 0
      BY <2>1, FoundFinite, FS_EmptySet
    <2>4. run[Count(k)] = Normal[names[k]]
      BY DEF Found
    <2>5. Count(k) \in 1 .. Len(run)
      BY <1>3, <2>2, <2>3
    <2> HIDE DEF Count
    <2> QED BY <2>4, <2>5
  <1>5. /\ Len(Append(run, name)) = Count(n + 1)
        /\ Append(run, name)[Count(n + 1)] = name
    <2> HIDE DEF Count
    <2> QED BY <1>2, <1>3
  <1>6. \A k \in FoundUpTo(names, known, n + 1) :
           Append(run, name)[Count(k)] = Normal[names[k]]
    <2> HIDE DEF Count
    <2> QED BY <1>1, <1>4, <1>5
  <1> QED BY <1>5, <1>6 DEF Found

LEMMA FoundNext ==
    ASSUME TypeOK, Found(modules, request, Registrable, looked), LookUp
    PROVE  Found(modules', request, Registrable, looked + 1)
  <1>1. /\ looked \in Nat /\ looked' = looked + 1 /\ modules \in Seq(Typed)
        /\ Normal[request[looked + 1]] \in Typed
    BY LookUpTypes DEF TypeOK
  <1>2. CASE ~Known(request[looked + 1])
    <2>1. modules' = modules
      BY <1>1, <1>2 DEF LookUp
    <2> QED BY <1>1, <1>2, <2>1, FoundNoMore DEF Known
  <1>3. CASE Known(request[looked + 1])
    <2>1. modules' = Append(modules, Normal[request[looked + 1]])
      BY <1>1, <1>3 DEF LookUp
    <2> QED BY <1>1, <1>3, <2>1, FoundOneMore DEF Known
  <1> QED BY <1>2, <1>3

LEMMA FoundStep ==
    ASSUME TypeOK, AskedInv, FoundInv, [Next]_vars
    PROVE  FoundInv'
  <1> USE DEF FoundInv
  <1>1. CASE List \/ Scan \/ MenuMakesEngine \/ (Pick /\ phase' = "discover")
    <2>1. /\ phase' = "discover" /\ UNCHANGED <<modules, looked>>
          /\ phase \in {"parse", "menu", "pick"}
      BY <1>1 DEF List, Scan, MenuMakesEngine, Pick, MakeEngine, Commanded, Leave
    <2>2. modules' = <<>> /\ looked' = 0
      BY <2>1 DEF AskedInv
    <2> QED BY <2>1, <2>2, FoundStart
  <1>2. CASE Import
    <2>1. DiscoverNext /\ UNCHANGED <<phase, purpose, request, modules, looked>> /\ phase = "discover"
      BY <1>2 DEF Import, dispatch
    <2>2. stage # "over"
      BY <2>1 DEF DiscoverNext, ImportFile, RegisterClass, FileDone, ListPlugins, NoPlugins,
                  RestorePath, Importing
    <2>3. looked = 0
      BY <2>2
    <2>4. modules = <<>>
      BY <2>1, <2>3, FS_EmptySet DEF TypeOK, Found, FoundUpTo
    <2> QED BY <2>1, <2>3, <2>4, FoundStart
  <1>3. CASE LookUp
    <2>1. /\ looked' = looked + 1 /\ UNCHANGED <<registry, request>>
          /\ phase = "discover" /\ stage' = "over" /\ purpose' = "scan" /\ phase' = "discover"
      BY <1>3 DEF LookUp, Made, discovery
    <2>2. Registrable' = Registrable
      BY <2>1 DEF Registrable
    <2>3. Found(modules', request, Registrable, looked + 1)
      BY <1>3, <2>1, FoundNext
    <2> QED BY <2>1, <2>2, <2>3
  <1>4. CASE SelectModules
    <2>1. /\ phase = "discover" /\ phase' = "selected" /\ purpose' = "scan" /\ stage' = "over"
          /\ UNCHANGED <<registry, request, looked>> /\ looked = Len(request)
          /\ modules' = IF request = <<>> THEN Registry ELSE modules
      BY <1>4 DEF SelectModules, Made, discovery
    <2>2. Registry' = Registry /\ Registrable' = Registrable
      BY <2>1 DEF Registry, Registrable
    <2> QED BY <2>1, <2>2
  <1>5. CASE \/ Parse \/ Answer \/ OpenMenu \/ Diff \/ ScanOfNothing \/ MenuLeaves \/ MenuCompares
             \/ NoEngine \/ ListModules \/ ShowSelection \/ (Pick /\ phase' # "discover")
             \/ InstanceRaises \/ EmptyScan \/ StartScan \/ Stay \/ UNCHANGED vars
    <2>1. UNCHANGED <<stage, registry, purpose, request, modules, looked>>
      BY <1>5 DEF Parse, Answer, OpenMenu, Diff, ScanOfNothing, MenuLeaves, MenuCompares, NoEngine,
         ListModules, ShowSelection, Pick, MakeEngine, InstanceRaises, EmptyScan, StartScan, Stay,
         Leave, vars, dispatch, discovery
    <2>2. phase' = "discover" => phase = "discover"
      BY <1>5 DEF Parse, Answer, OpenMenu, Diff, ScanOfNothing, MenuLeaves, MenuCompares, NoEngine,
         ListModules, ShowSelection, InstanceRaises, EmptyScan, StartScan, Stay, Leave, vars, dispatch
    <2>3. phase' \in {"selected", "scan"} => phase \in {"selected", "scan"}
      BY <1>5 DEF Parse, Answer, OpenMenu, Diff, ScanOfNothing, MenuLeaves, MenuCompares, NoEngine,
         ListModules, ShowSelection, Pick, MakeEngine, InstanceRaises, EmptyScan, StartScan, Stay,
         Leave, vars, dispatch
    <2>4. Registry' = Registry /\ Registrable' = Registrable
      BY <2>1 DEF Registry, Registrable
    <2> QED BY <2>1, <2>2, <2>3, <2>4
  <1> QED BY <1>1, <1>2, <1>3, <1>4, <1>5 DEF Next, Step

LEMMA SelectionHolds == Spec => [](TypeOK /\ AskedInv /\ FoundInv)
  <1>1. Init => TypeOK /\ AskedInv /\ FoundInv
    <2> SUFFICES ASSUME Init PROVE TypeOK /\ AskedInv /\ FoundInv
      OBVIOUS
    <2>1. ParseTypeOK /\ DiscoverTypeOK
      BY ParseTypesInit, DiscoverTypesInit DEF Init
    <2>2. TypeOK
      BY <2>1, EmptyRequest DEF Init, TypeOK
    <2>3. AskedInv /\ FoundInv
      BY DEF Init, AskedInv, FoundInv
    <2> QED BY <2>2, <2>3
  <1>2. /\ Types' /\ TypeOK /\ AskedInv /\ FoundInv /\ [Next]_vars
        => (TypeOK /\ AskedInv /\ FoundInv)'
    BY TypeStep, AskedStep, FoundStep DEF Types
  <1>3. Types /\ IInv => Types
    OBVIOUS
  <1> QED BY <1>1, <1>2, <1>3, InvariantHolds, PTL DEF Spec

(***************************************************************************)
(* Every variable of the path from the command line to the modules keeps   *)
(* its type, whatever the line and the files.                              *)
(***************************************************************************)
THEOREM TypeCorrect == Spec => []TypeOK
  BY SelectionHolds, PTL

\* What the last flag of an attribute gave it.
LEMMA AttributeGiven ==
    ASSUME ParseTypeOK, ReadByGrammar, reading = "accepted", NEW a \in Attribute
    PROVE  \/ args[a] = Default[a] /\ \A p \in 1 .. Len(argv) : ~(role[p] = "flag" /\ argv[p].text = a)
           \/ \E p \in 1 .. Len(argv) :
                 /\ LastGiven(argv, role, Len(argv), a, p)
                 /\ args[a] = IF TakesValue(argv[p]) THEN Given(argv[p], argv[p + 1]) ELSE On
  BY DEF ReadByGrammar, Gives

(***************************************************************************)
(* From the tokens to the modules: for any line, splitting and registry, a *)
(* scan runs exactly what the grammar says the line asks for.              *)
(***************************************************************************)
THEOREM RunsTheRequest == Spec => []RunsWhatWasAsked
  <1>1. Types /\ IInv /\ TypeOK /\ AskedInv /\ FoundInv => RunsWhatWasAsked
    <2> SUFFICES ASSUME ParseTypeOK, ReadByGrammar, TypeOK, AskedInv, FoundInv,
                        phase = "scan", command # "none"
                 PROVE  IF \E p \in 1 .. Len(argv) : role[p] = "flag" /\ argv[p].text = "all"
                        THEN modules = Registry
                        ELSE \E p \in 1 .. Len(argv) :
                                /\ LastGiven(argv, role, Len(argv), "modules", p)
                                /\ LET names == Split[argv[p + 1]]
                                       found == {k \in 1 .. Len(names) :
                                                    Normal[names[k]] \in Registrable}
                                   IN  /\ Len(modules) = Cardinality(found)
                                       /\ \A k \in found :
                                              modules[Cardinality({m \in found : m <= k})] =
                                                  Normal[names[k]]
      BY ParseInvGrammar DEF Types, IInv, StartupInv, RunsWhatWasAsked
    <2>1. reading = "accepted" /\ Asked /\ request = Requested
      BY DEF AskedInv
    <2>2. Default["all"] = Unset /\ Default["modules"] = Unset /\ Unset # On
      BY DEF Default, Attribute, Unset, On
    <2>3. (\E p \in 1 .. Len(argv) : role[p] = "flag" /\ argv[p].text = "all") <=> args["all"] = On
      <3>1. "all" \in Attribute
        BY DEF Attribute
      <3>2. \A p \in 1 .. Len(argv) : LastGiven(argv, role, Len(argv), "all", p) =>
               role[p] = "flag" /\ argv[p].text = "all" /\ ~TakesValue(argv[p])
        BY DEF LastGiven, TakesValue, Switches
      <3> QED BY <2>1, <2>2, <3>1, <3>2, AttributeGiven
    <2>4. CASE args["all"] = On
      BY <2>1, <2>3, <2>4 DEF FoundInv, Requested
    <2>5. CASE args["all"] # On
      <3>1. "modules" \in Attribute /\ args["modules"] # Unset
        BY <2>1, <2>5 DEF Asked, Truthy, Attribute
      <3>2. PICK p \in 1 .. Len(argv) :
               /\ LastGiven(argv, role, Len(argv), "modules", p)
               /\ args["modules"] = IF TakesValue(argv[p]) THEN Given(argv[p], argv[p + 1]) ELSE On
        BY <2>1, <2>2, <3>1, AttributeGiven
      <3>3. args["modules"] = argv[p + 1]
        BY <3>2 DEF LastGiven, TakesValue, Switches, Given, Numeric
      <3>4. request = Split[argv[p + 1]]
        BY <2>1, <2>5, <3>3 DEF Requested
      <3>5. args["modules"] \in Value
        BY <3>1 DEF ParseTypeOK
      <3>6. request # <<>> /\ request \in Seq(Typed)
        BY <3>3, <3>4, <3>5, NameAssumption
      <3>7. Found(modules, request, Registrable, Len(request))
        BY <3>6 DEF FoundInv
      <3> DEFINE found == {k \in 1 .. Len(request) : Normal[request[k]] \in Registrable}
      <3>8. found = FoundUpTo(request, Registrable, Len(request))
        BY DEF FoundUpTo
      <3>9. ASSUME NEW k \in found
            PROVE  {m \in found : m <= k} = FoundUpTo(request, Registrable, k)
        BY <3>6 DEF FoundUpTo
      <3>10. /\ Len(modules) = Cardinality(found)
             /\ \A k \in found : modules[Cardinality({m \in found : m <= k})] = Normal[request[k]]
        BY <3>7, <3>8, <3>9 DEF Found
      <3>11. LET names == Split[argv[p + 1]]
                 known == {k \in 1 .. Len(names) : Normal[names[k]] \in Registrable}
             IN  /\ Len(modules) = Cardinality(known)
                 /\ \A k \in known :
                        modules[Cardinality({m \in known : m <= k})] = Normal[names[k]]
        BY <3>4, <3>10
      <3>12. ~ \E q \in 1 .. Len(argv) : role[q] = "flag" /\ argv[q].text = "all"
        BY <2>3, <2>5
      <3> QED BY <3>2, <3>11, <3>12
    <2> QED BY <2>4, <2>5
  <1> QED BY <1>1, InvariantHolds, SelectionHolds, PTL
=============================================================================
