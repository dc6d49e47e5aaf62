------------------------------ MODULE Boundary ------------------------------
(***************************************************************************)
(* The boundary checker, tools/boundary: it reads the Go files of a        *)
(* module one by one and holds each against the rules of its package:      *)
(* imports on its allowlist, size of the file, production lines of the     *)
(* package.  Against it stands what the rules are meant to say.            *)
(*                                                                         *)
(* Abstractions: an import path is its sequence of segments; the tree is   *)
(* what the walk finds next, so any; a file has one import (each is        *)
(* checked by itself); of a violation only that there is one.              *)
(***************************************************************************)
EXTENDS Naturals, Sequences, FiniteSets

CONSTANTS
  Module,    \* the module's path
  Dotted,    \* segments with a dot in them
  Import,    \* import paths in the files
  Allowlist, \* allowlists a package may have, sequences of entries
  External,  \* values of allowed_external
  Size,      \* lines of a file
  Ceiling,   \* values of max_lines and max_file_lines
  Package,   \* directories with Go files
  MaxFiles   \* bound: files in the tree

\* ipath == p or strings.HasPrefix(ipath, p + "/").
Under(ipath, p) == Len(p) <= Len(ipath) /\ SubSeq(ipath, 1, Len(p)) = p

Path == Seq(STRING)
Anything == <<"*">>
StdLib == <<"STDLIB">>

\* Keys are to code outside of the module: one to what is above it, or to a part
\* of it, would open the module's own boundaries to an entry above the module.
\* No directory of the module is named by the whole path of the module.
ASSUME BoundaryAssumption ==
  /\ Module \in Path \ {<<>>} /\ Module[1] \in Dotted
  /\ {"*", "STDLIB"} \cap Dotted = {}
  /\ Import \subseteq Path /\ Allowlist \subseteq Seq(Path) /\ External \subseteq SUBSET Path
  /\ Size \subseteq Nat /\ Ceiling \subseteq Nat /\ MaxFiles \in Nat
  /\ \A K \in External : \A g \in K : ~Under(Module, g) /\ ~Under(g, Module)
  /\ \A ipath \in Import : ~Under(ipath, Module \o Module)

\* The rule of a package; one that is not registered has none.
Rule == [imports : Allowlist, maxLines : Ceiling]
Rules == [external : External, maxFileLines : Ceiling,
          packages : UNION {[P -> Rule] : P \in SUBSET Package}]
File == [pkg : Package, lines : Size, test : BOOLEAN, imp : Import]

VARIABLES
  rules,   \* rules.json
  pc,      \* where Check is; its exit code in the end
  files,   \* files read
  lines,   \* production lines of each package so far
  flagged, \* there is a violation
  offends, \* something read is not as the rules want it
  keyless  \* an import came under an external entry that is not registered

vars == <<rules, pc, files, lines, flagged, offends, keyless>>

-----------------------------------------------------------------------------
\* isStdlib: the first segment has no dot.
IsStdlib(ipath) == ipath = <<>> \/ ipath[1] \notin Dotted

\* Mutant: the entry is compared as a path of its own.
IsModulePathVerbatim(ipath, allow) ==
  allow \notin {Anything, StdLib} /\ Under(ipath, allow)

\* isModulePath: an entry is a directory of the module, with or without the
\* module's path before it.
IsModulePath(ipath, allow) ==
  LET inside == Under(allow, Module) /\ allow # Module
      dir == IF inside THEN SubSeq(allow, Len(Module) + 1, Len(allow)) ELSE allow
  IN  allow \notin {Anything, StdLib} /\ Under(ipath, Module \o dir)

\* An entry for code outside of the module and the standard library.
IsExternal(allow) == ~IsStdlib(allow) /\ ~Under(allow, Module)

Registered(ipath) == \E g \in rules.external : Under(ipath, g)

\* An entry ends the loop of checkImport: it allows the import, or is the
\* package's key to it.
Decides(ipath, allow) ==
  \/ allow = Anything
  \/ allow = StdLib /\ IsStdlib(ipath)
  \/ IsModulePath(ipath, allow)
  \/ IsExternal(allow) /\ Under(ipath, allow)

\* Mutant: one key is enough.
CheckImportOneKey(ipath, allowed) ==
  Registered(ipath) \/ \E i \in DOMAIN allowed : Decides(ipath, allowed[i])

\* checkImport allows it: the first entry that decides is not the package's key
\* to an import that lacks the global one.
CheckImport(ipath, allowed) ==
  \E i \in DOMAIN allowed :
    /\ Decides(ipath, allowed[i])
    /\ \A j \in 1 .. i - 1 : ~Decides(ipath, allowed[j])
    /\ \/ allowed[i] = Anything \/ IsModulePath(ipath, allowed[i])
       \/ allowed[i] = StdLib
       \/ Registered(ipath)

-----------------------------------------------------------------------------
\* What the rules are meant to say (ADR-0002, ADR-0016, the comment of
\* rules.json), whatever the order of the entries.
MeantToBe(ipath, allowed) ==
  LET S == {allowed[i] : i \in DOMAIN allowed}
  IN  \/ Anything \in S
      \/ StdLib \in S /\ IsStdlib(ipath)
      \/ \E a \in S \ {Anything, StdLib} :
           Under(ipath, Module \o a) \/ (Under(a, Module) /\ a # Module /\ Under(ipath, a))
      \/ /\ ~Under(ipath, Module) /\ Registered(ipath)
         /\ \E a \in S : IsExternal(a) /\ Under(ipath, a)

\* The import comes under an external entry of the package, not registered.
Unregistered(ipath, allowed) ==
  ~Registered(ipath) /\ \E i \in DOMAIN allowed :
                           IsExternal(allowed[i]) /\ Under(ipath, allowed[i])

Over(n, ceiling) == ceiling > 0 /\ n > ceiling

-----------------------------------------------------------------------------
Init ==
  /\ rules \in Rules
  /\ pc = "walk" /\ files = 0
  /\ lines = [p \in Package |-> 0]
  /\ flagged = FALSE /\ offends = FALSE /\ keyless = FALSE

\* A file of a package nobody registered: every one is declared.
ReadStray ==
  \E p \in Package \ DOMAIN rules.packages :
    /\ pc = "walk" /\ files < MaxFiles
    /\ files' = files + 1
    /\ flagged' = TRUE /\ offends' = TRUE
    /\ UNCHANGED <<rules, pc, lines, keyless>>

\* What the rules and the file come to, in the eyes of who wrote the rules.
Judge(f, rule) ==
  /\ offends' = (offends \/ Over(f.lines, rules.maxFileLines)
                   \/ ~MeantToBe(f.imp, rule.imports))
  /\ keyless' = (keyless \/ Unregistered(f.imp, rule.imports))

\* A file of a registered package; only production code counts in its lines.
Read ==
  \E f \in File :
    /\ pc = "walk" /\ files < MaxFiles /\ f.pkg \in DOMAIN rules.packages
    /\ LET rule == rules.packages[f.pkg]
       IN  /\ flagged' = (flagged \/ Over(f.lines, rules.maxFileLines)
                            \/ ~CheckImport(f.imp, rule.imports))
           /\ Judge(f, rule)
    /\ lines' = IF f.test THEN lines ELSE [lines EXCEPT ![f.pkg] = @ + f.lines]
    /\ files' = files + 1
    /\ UNCHANGED <<rules, pc>>

\* A file that cannot be read or parsed ends the check.
Abort ==
  /\ pc = "walk" /\ pc' = "exit 2"
  /\ UNCHANGED <<rules, files, lines, flagged, offends, keyless>>

Budgets ==
  {p \in DOMAIN rules.packages : Over(lines[p], rules.packages[p].maxLines)}

\* The budgets of the packages, and the exit code of main.
Report ==
  /\ pc = "walk"
  /\ flagged' = (flagged \/ Budgets # {})
  /\ offends' = (offends \/ Budgets # {})
  /\ pc' = IF flagged' THEN "exit 1" ELSE "exit 0"
  /\ UNCHANGED <<rules, files, lines, keyless>>

Next == ReadStray \/ Read \/ Abort \/ Report
Spec == Init /\ [][Next]_vars

-----------------------------------------------------------------------------
\* A green check means what it says: every package is declared, no file of it,
\* tests included, imports what the rules do not grant it (for an external
\* dependency that takes both keys), and everything keeps its size.  The order
\* of the entries, and entries that lie inside one another, open no hole.
GreenIsDeclared == pc = "exit 0" => ~offends

\* And a red one is for a cause.  The one case where the order of the entries
\* decides: an external entry without its global key refuses what a later entry
\* of the same package would grant.
RedHasCause == pc = "exit 1" => offends \/ keyless
=============================================================================
