--------------------------- MODULE BoundaryProofs ---------------------------
(***************************************************************************)
(* Theorems about the boundary checker, for every module, rules and tree.  *)
(***************************************************************************)
EXTENDS Boundary, SequenceTheorems, WellFoundedInduction, TLAPS

\* To be under a path is to begin with its segments.
LEMMA UnderBySegments ==
  ASSUME NEW x \in Path, NEW p \in Path
  PROVE  /\ Len(x) \in Nat /\ Len(p) \in Nat
         /\ Under(x, p) <=> /\ Len(p) <= Len(x)
                            /\ \A i \in 1 .. Len(p) : x[i] = p[i]
<1>1. Len(x) \in Nat /\ Len(p) \in Nat /\ x \in Seq(STRING) /\ p \in Seq(STRING)
  BY LenProperties DEF Path
<1>2. ASSUME Len(p) <= Len(x)
      PROVE  /\ SubSeq(x, 1, Len(p)) \in Seq(STRING)
             /\ Len(SubSeq(x, 1, Len(p))) = Len(p)
             /\ \A i \in 1 .. Len(p) : SubSeq(x, 1, Len(p))[i] = x[i]
  BY <1>1, <1>2
<1>3. ASSUME Len(p) <= Len(x), \A i \in 1 .. Len(p) : x[i] = p[i]
      PROVE  SubSeq(x, 1, Len(p)) = p
  BY <1>1, <1>2, <1>3, SeqEqual
<1>4. ASSUME Len(p) <= Len(x), SubSeq(x, 1, Len(p)) = p
      PROVE  \A i \in 1 .. Len(p) : x[i] = p[i]
  BY <1>2, <1>4
<1>5. QED
  BY <1>1, <1>3, <1>4 DEF Under

\* Two paths that one import is under lie one in the other.
LEMMA UnderBoth ==
  ASSUME NEW x \in Path, NEW p \in Path, NEW q \in Path, Under(x, p), Under(x, q)
  PROVE  Under(p, q) \/ Under(q, p)
<1>1. Len(p) <= Len(q) \/ Len(q) <= Len(p)
  BY UnderBySegments
<1>2. CASE Len(p) <= Len(q)
  BY <1>2, UnderBySegments
<1>3. CASE Len(q) <= Len(p)
  BY <1>3, UnderBySegments
<1>4. QED
  BY <1>1, <1>2, <1>3

\* A path inside of a path inside of a third is inside of that.
LEMMA UnderUnder ==
  ASSUME NEW x \in Path, NEW p \in Path, NEW q \in Path, Under(x, p), Under(p, q)
  PROVE  Under(x, q)
BY UnderBySegments

\* A path below another is that one and the rest.
LEMMA UnderSplit ==
  ASSUME NEW x \in Path, NEW p \in Path, Under(x, p)
  PROVE  p \o SubSeq(x, Len(p) + 1, Len(x)) = x
<1> DEFINE r == SubSeq(x, Len(p) + 1, Len(x))
<1>1. /\ Len(x) \in Nat /\ Len(p) \in Nat /\ Len(p) <= Len(x)
      /\ \A i \in 1 .. Len(p) : x[i] = p[i]
  BY UnderBySegments
<1>2. x \in Seq(STRING) /\ p \in Seq(STRING)
  BY DEF Path
<1>3. /\ r \in Seq(STRING) /\ Len(r) = Len(x) - Len(p)
      /\ \A i \in 1 .. Len(r) : r[i] = x[Len(p) + i]
  BY <1>1, <1>2
<1>4. /\ p \o r \in Seq(STRING) /\ Len(p \o r) = Len(x)
      /\ \A i \in 1 .. Len(x) : (p \o r)[i] = IF i <= Len(p) THEN p[i] ELSE r[i - Len(p)]
  BY <1>1, <1>2, <1>3
<1>5. \A i \in 1 .. Len(x) : (p \o r)[i] = x[i]
  BY <1>1, <1>3, <1>4
<1>6. QED
  BY <1>2, <1>4, <1>5, SeqEqual

\* What is under a directory written after a path is under what it is inside of.
LEMMA UnderJoined ==
  ASSUME NEW x \in Path, NEW m \in Path, NEW a \in Path, NEW p \in Path,
         Under(x, m \o a), Under(a, p)
  PROVE  Under(x, m \o p)
<1>1. /\ m \o a \in Path /\ m \o p \in Path
      /\ Len(m \o a) = Len(m) + Len(a) /\ Len(m \o p) = Len(m) + Len(p)
      /\ \A i \in 1 .. Len(m) + Len(a) : (m \o a)[i] = IF i <= Len(m) THEN m[i] ELSE a[i - Len(m)]
      /\ \A i \in 1 .. Len(m) + Len(p) : (m \o p)[i] = IF i <= Len(m) THEN m[i] ELSE p[i - Len(m)]
  BY DEF Path
<1>2. /\ Len(m) \in Nat /\ Len(a) \in Nat /\ Len(p) \in Nat /\ Len(p) <= Len(a)
      /\ \A i \in 1 .. Len(p) : a[i] = p[i]
  BY UnderBySegments
<1>3. \A i \in 1 .. Len(m) + Len(p) : (m \o a)[i] = (m \o p)[i]
  BY <1>1, <1>2
<1>4. Under(m \o a, m \o p)
  <2>1. Len(m \o p) <= Len(m \o a)
    BY <1>1, <1>2
  <2>2. \A i \in 1 .. Len(m \o p) : (m \o a)[i] = (m \o p)[i]
    BY <1>1, <1>3
  <2>3. QED
    BY <1>1, <2>1, <2>2, UnderBySegments
<1>5. QED
  BY <1>1, <1>4, UnderUnder

-----------------------------------------------------------------------------
\* A path as an entry or an import, and what is fixed about the module.
LEMMA Fixed ==
  /\ Module \in Path /\ ~IsStdlib(Module)
  /\ IsStdlib(StdLib) /\ IsStdlib(Anything) /\ StdLib # Anything
<1>1. Module \in Path /\ Module # <<>> /\ Module[1] \in Dotted
  BY BoundaryAssumption
<1>2. "*" \notin Dotted /\ "STDLIB" \notin Dotted
  BY BoundaryAssumption
<1>3. StdLib[1] = "STDLIB" /\ Anything[1] = "*"
  BY DEF StdLib, Anything
<1>4. StdLib # Anything
  BY <1>3
<1>5. QED
  BY <1>1, <1>2, <1>3, <1>4 DEF IsStdlib

\* An import that an entry finds in the module is one the entry means.
LEMMA ModuleEntryMeant ==
  ASSUME NEW x \in Path, NEW a \in Path, IsModulePath(x, a)
  PROVE  /\ a \notin {Anything, StdLib}
         /\ \/ Under(x, Module \o a)
            \/ Under(a, Module) /\ a # Module /\ Under(x, a)
<1>1. CASE Under(a, Module) /\ a # Module
  <2>1. Module \o SubSeq(a, Len(Module) + 1, Len(a)) = a
    BY <1>1, Fixed, UnderSplit
  <2>2. QED
    BY <1>1, <2>1 DEF IsModulePath
<1>2. CASE ~(Under(a, Module) /\ a # Module)
  BY <1>2 DEF IsModulePath
<1>3. QED
  BY <1>1, <1>2

\* And the other way round, if no directory of the module is named by its path.
LEMMA ModuleEntryFound ==
  ASSUME NEW x \in Path, NEW a \in Path, a \notin {Anything, StdLib},
         ~Under(x, Module \o Module),
         Under(x, Module \o a) \/ (Under(a, Module) /\ a # Module /\ Under(x, a))
  PROVE  IsModulePath(x, a)
<1>1. CASE Under(a, Module) /\ a # Module
  <2>1. Module \o SubSeq(a, Len(Module) + 1, Len(a)) = a
    BY <1>1, Fixed, UnderSplit
  <2>2. Under(x, a)
    BY <1>1, Fixed, UnderJoined
  <2>3. QED
    BY <1>1, <2>1, <2>2 DEF IsModulePath
<1>2. CASE ~(Under(a, Module) /\ a # Module)
  BY <1>2 DEF IsModulePath
<1>3. QED
  BY <1>1, <1>2

\* A registered import under an external entry is outside of the module.
LEMMA ExternalOutside ==
  ASSUME NEW x \in Path, NEW a \in Path, rules.external \in External,
         IsExternal(a), Under(x, a), Registered(x)
  PROVE  ~Under(x, Module)
<1>1. PICK g \in rules.external : Under(x, g)
  BY DEF Registered
<1>2. g \in Path /\ ~Under(Module, g) /\ ~Under(g, Module)
  BY BoundaryAssumption
<1>3. QED
  BY <1>1, <1>2, Fixed, UnderBoth

\* What checkImport allows is what the rules mean.
LEMMA AllowedIsMeant ==
  ASSUME NEW x \in Path, NEW L \in Seq(Path), rules.external \in External,
         CheckImport(x, L)
  PROVE  MeantToBe(x, L)
<1> DEFINE S == {L[i] : i \in DOMAIN L}
<1>1. PICK i \in DOMAIN L :
        /\ Decides(x, L[i])
        /\ L[i] = Anything \/ IsModulePath(x, L[i]) \/ L[i] = StdLib \/ Registered(x)
  BY DEF CheckImport
<1>2. L[i] \in Path /\ L[i] \in S
  BY LenProperties, ElementOfSeq
<1>3. CASE L[i] = Anything
  BY <1>2, <1>3 DEF MeantToBe
<1>4. CASE IsModulePath(x, L[i])
  <2>1. /\ L[i] \in S \ {Anything, StdLib}
        /\ \/ Under(x, Module \o L[i])
           \/ Under(L[i], Module) /\ L[i] # Module /\ Under(x, L[i])
    BY <1>2, <1>4, ModuleEntryMeant
  <2>2. QED
    BY <2>1 DEF MeantToBe
<1>5. CASE L[i] = StdLib
  <2>1. ~IsExternal(L[i]) /\ ~IsModulePath(x, L[i]) /\ L[i] # Anything
    BY <1>5, Fixed DEF IsExternal, IsModulePath
  <2>2. IsStdlib(x)
    BY <1>1, <2>1 DEF Decides
  <2>3. QED
    BY <1>2, <1>5, <2>2 DEF MeantToBe
<1>6. CASE /\ Registered(x)
           /\ L[i] # Anything /\ L[i] # StdLib /\ ~IsModulePath(x, L[i])
  <2>1. IsExternal(L[i]) /\ Under(x, L[i])
    BY <1>1, <1>6 DEF Decides
  <2>2. ~Under(x, Module)
    BY <1>2, <1>6, <2>1, ExternalOutside
  <2>3. QED
    BY <1>2, <1>6, <2>1, <2>2 DEF MeantToBe
<1>7. QED
  BY <1>1, <1>3, <1>4, <1>5, <1>6

\* Of the entries that decide there is a first.
LEMMA FirstDecides ==
  ASSUME NEW x, NEW L \in Seq(Path), \E i \in DOMAIN L : Decides(x, L[i])
  PROVE  \E i \in DOMAIN L : /\ Decides(x, L[i])
                             /\ \A j \in 1 .. i - 1 : ~Decides(x, L[j])
<1> DEFINE T == {i \in DOMAIN L : Decides(x, L[i])}
<1>1. DOMAIN L = 1 .. Len(L) /\ Len(L) \in Nat
  BY LenProperties
<1>2. T \subseteq Nat /\ T # {}
  BY <1>1
<1>3. PICK i \in T : \A j \in T : ~ (<<j, i>> \in OpToRel(<, Nat))
  BY <1>2, WFMin, NatLessThanWellFounded, Zenon
<1>4. \A j \in T : ~ (j < i)
  BY <1>2, <1>3, Zenon DEF OpToRel
<1>5. ASSUME NEW j \in 1 .. i - 1 PROVE ~Decides(x, L[j])
  <2>1. j \in DOMAIN L /\ j < i
    BY <1>1
  <2>2. QED
    BY <1>4, <2>1
<1>6. QED
  BY <1>5

\* What the rules mean is allowed, but for an external entry without its key.
LEMMA MeantIsAllowed ==
  ASSUME NEW x \in Path, NEW L \in Seq(Path), ~Under(x, Module \o Module),
         MeantToBe(x, L), ~Unregistered(x, L)
  PROVE  CheckImport(x, L)
<1> DEFINE S == {L[i] : i \in DOMAIN L}
<1>1. \A a \in S : a \in Path
  BY LenProperties, ElementOfSeq
<1>2. \E a \in S : Decides(x, a)
  <2>1. CASE Anything \in S
    BY <2>1 DEF Decides
  <2>2. CASE StdLib \in S /\ IsStdlib(x)
    BY <2>2 DEF Decides
  <2>3. CASE \E a \in S \ {Anything, StdLib} :
               \/ Under(x, Module \o a)
               \/ Under(a, Module) /\ a # Module /\ Under(x, a)
    BY <1>1, <2>3, ModuleEntryFound DEF Decides
  <2>4. CASE \E a \in S : IsExternal(a) /\ Under(x, a)
    BY <2>4 DEF Decides
  <2>5. QED
    BY <2>1, <2>2, <2>3, <2>4 DEF MeantToBe
<1>3. PICK i \in DOMAIN L : /\ Decides(x, L[i])
                           /\ \A j \in 1 .. i - 1 : ~Decides(x, L[j])
  BY <1>2, FirstDecides
<1>4. \/ L[i] = Anything \/ IsModulePath(x, L[i]) \/ L[i] = StdLib \/ Registered(x)
  BY <1>3 DEF Decides, Unregistered
<1>5. QED
  BY <1>3, <1>4 DEF CheckImport

-----------------------------------------------------------------------------
\* What was read so far was judged by the checker as it was meant, but for the
\* external entries without a key; the exit code says what was found.
BInv ==
  /\ rules \in Rules
  /\ pc \in {"walk", "exit 0", "exit 1", "exit 2"}
  /\ offends => flagged
  /\ flagged => offends \/ keyless
  /\ pc = "exit 0" => ~flagged
  /\ pc = "exit 1" => flagged

\* What a rule of the rules is made of.
LEMMA RuleParts ==
  ASSUME rules \in Rules, NEW p \in DOMAIN rules.packages
  PROVE  rules.packages[p].imports \in Seq(Path) /\ rules.external \in External
<1>1. /\ rules.external \in External
      /\ \E P \in SUBSET Package : rules.packages \in [P -> Rule]
  BY DEF Rules
<1>2. rules.packages[p] \in Rule
  BY <1>1
<1>3. QED
  BY <1>1, <1>2, BoundaryAssumption DEF Rule

\* A file is judged as it was meant.
LEMMA ReadStep ==
  ASSUME BInv, Read
  PROVE  BInv'
<1>1. PICK f \in File :
        /\ pc = "walk" /\ f.pkg \in DOMAIN rules.packages
        /\ flagged' = (flagged \/ Over(f.lines, rules.maxFileLines)
                         \/ ~CheckImport(f.imp, rules.packages[f.pkg].imports))
        /\ Judge(f, rules.packages[f.pkg])
        /\ UNCHANGED <<rules, pc>>
  BY DEF Read
<1> DEFINE L == rules.packages[f.pkg].imports
<1>2. f.imp \in Path /\ ~Under(f.imp, Module \o Module)
  BY BoundaryAssumption DEF File
<1>3. L \in Seq(Path) /\ rules.external \in External
  BY <1>1, RuleParts DEF BInv
<1>4. CheckImport(f.imp, L) => MeantToBe(f.imp, L)
  BY <1>2, <1>3, AllowedIsMeant
<1>5. MeantToBe(f.imp, L) /\ ~Unregistered(f.imp, L) => CheckImport(f.imp, L)
  BY <1>2, <1>3, MeantIsAllowed
<1>6. /\ offends' = (offends \/ Over(f.lines, rules.maxFileLines) \/ ~MeantToBe(f.imp, L))
      /\ keyless' = (keyless \/ Unregistered(f.imp, L))
  BY <1>1 DEF Judge
<1>7. offends' => flagged'
  BY <1>1, <1>4, <1>6, Zenon DEF BInv
<1>8. flagged' => offends' \/ keyless'
  BY <1>1, <1>5, <1>6, Zenon DEF BInv
<1>9. QED
  BY <1>1, <1>7, <1>8 DEF BInv

\* The report adds the same to both.
LEMMA ReportStep ==
  ASSUME BInv, Report
  PROVE  BInv'
<1>1. /\ flagged' = (flagged \/ Budgets # {})
      /\ offends' = (offends \/ Budgets # {})
      /\ pc' = IF flagged' THEN "exit 1" ELSE "exit 0"
      /\ UNCHANGED <<rules, keyless>>
  BY DEF Report
<1>2. (offends' => flagged') /\ (flagged' => offends' \/ keyless')
  BY <1>1, Zenon DEF BInv
<1>3. /\ pc' \in {"walk", "exit 0", "exit 1", "exit 2"}
      /\ (pc' = "exit 0" => ~flagged') /\ (pc' = "exit 1" => flagged')
  <2>1. CASE flagged'
    BY <1>1, <2>1
  <2>2. CASE ~flagged'
    BY <1>1, <2>2
  <2>3. QED
    BY <2>1, <2>2
<1>4. QED
  BY <1>1, <1>2, <1>3 DEF BInv

LEMMA BoundaryInductive == Spec => []BInv
<1>1. Init => BInv
  BY DEF Init, BInv
<1>2. BInv /\ [Next]_vars => BInv'
  <2> SUFFICES ASSUME BInv, [Next]_vars PROVE BInv'
    OBVIOUS
  <2>1. CASE ReadStray
    BY <2>1 DEF ReadStray, BInv
  <2>2. CASE Read
    BY <2>2, ReadStep
  <2>3. CASE Abort
    BY <2>3 DEF Abort, BInv
  <2>4. CASE Report
    BY <2>4, ReportStep
  <2>5. CASE UNCHANGED vars
    BY <2>5 DEF vars, BInv
  <2>6. QED
    BY <2>1, <2>2, <2>3, <2>4, <2>5 DEF Next
<1>3. QED
  BY <1>1, <1>2, PTL DEF Spec

-----------------------------------------------------------------------------
\* Green means what it says, for any module, tree, allowlists in any order and
\* keys to code outside of the module: no import that checkImport lets pass is
\* one the rules do not grant.
THEOREM GreenMeansDeclared == Spec => []GreenIsDeclared
<1>1. BInv => GreenIsDeclared
  BY DEF BInv, GreenIsDeclared
<1>2. QED
  BY <1>1, BoundaryInductive, PTL

\* Red has a cause in the tree, or an external entry without its global key: that
\* is the only way the order of the entries matters.
THEOREM RedMeansCause == Spec => []RedHasCause
<1>1. BInv => RedHasCause
  BY DEF BInv, RedHasCause
<1>2. QED
  BY <1>1, BoundaryInductive, PTL
=============================================================================
