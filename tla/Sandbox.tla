------------------------------ MODULE Sandbox ------------------------------
(***************************************************************************)
(* internal/sandbox: which level of confinement Detect says a host has,    *)
(* and the system calls the filter of every level lets through.  No state  *)
(* is kept: these are the functions Worker is built on.                    *)
(*                                                                         *)
(* Abstractions: a host is what it lets a process do; a system call is     *)
(* what the filter looks at, an architecture, a number and a first         *)
(* argument, each reduced to the values the filter tells apart and one of  *)
(* the others.                                                             *)
(***************************************************************************)
EXTENDS Naturals, Sequences

\* Clone with namespaces, chroot in them, chroot without them, install a filter,
\* which exists for the architecture.
Facility == {"clone", "chroot inside", "chroot", "seccomp"}
Level == {"none", "basic", "full"}

-----------------------------------------------------------------------------
\* struct seccomp_data, as far as it is loaded.  Every number but the one of socket
\* is "other", whatever the call does.
SysCall == [arch : {"own", "foreign"}, nr : {"socket", "other"},
            arg0 : {"INET", "INET6", "UNIX"}]
Word == {"0"} \cup UNION {{c.arch, c.nr, c.arg0} : c \in SysCall}

fOp(k) == [op |-> "ld", k |-> k]
fJmp(k, jt, jf) == [op |-> "jeq", k |-> k, jt |-> jt, jf |-> jf]
fRet(k) == [op |-> "ret", k |-> k]

\* Mutant: one jump is counted wrong.
BlockNetworkFilterMiscounted ==
  <<fOp("arch"), fJmp("own", 0, 8), fOp("nr"), fJmp("socket", 0, 5), fOp("arg0"),
    fJmp("INET", 0, 2), fRet("EPERM"), fJmp("INET6", 0, 1), fRet("EPERM"),
    fRet("ALLOW"), fRet("KILL")>>

BlockNetworkFilter ==
  <<fOp("arch"),
    fJmp("own", 0, 8),
    fOp("nr"),
    fJmp("socket", 0, 5),
    fOp("arg0"),
    fJmp("INET", 0, 1),
    fRet("EPERM"),
    fJmp("INET6", 0, 1),
    fRet("EPERM"),
    fRet("ALLOW"),
    fRet("KILL")>>

\* What the machine of the Linux kernel makes of it: a load sets the accumulator,
\* a jump counts from the next instruction.
Filter(call) ==
  LET prog == BlockNetworkFilter
      run[n \in DOMAIN prog] ==
        LET i == prog[n]
        IN  [a \in Word |->
               CASE i.op = "ld"  -> run[n + 1][call[i.k]]
                 [] i.op = "jeq" -> run[n + 1 + (IF a = i.k THEN i.jt ELSE i.jf)][a]
                 [] i.op = "ret" -> i.k]
  IN  run[1]["0"]

-----------------------------------------------------------------------------
Probe == {"full-chain", "chroot", "seccomp-net"}
Dial == [arch |-> "own", nr |-> "socket", arg0 |-> "INET"]

\* Mutant: a clone that succeeds is taken for the whole chain.
ProvenByClone(host) ==
  {p \in Probe :
     \/ p = "full-chain" /\ "clone" \in host
     \/ p = "chroot" /\ "chroot" \in host
     \/ p = "seccomp-net" /\ "seccomp" \in host /\ Filter(Dial) = "EPERM"}

\* ProbeMain: the probes that exit 0.  In a network namespace of its own the
\* full chain's dial fails whatever the filter does; without one the filter has
\* to refuse it.
Proven(host) ==
  {p \in Probe :
     \/ p = "full-chain" /\ {"clone", "chroot inside", "seccomp"} \subseteq host
     \/ p = "chroot" /\ "chroot" \in host
     \/ p = "seccomp-net" /\ "seccomp" \in host /\ Filter(Dial) = "EPERM"}

\* Detect; a probe that could not be run proves nothing.
Detected(host) ==
  {IF "full-chain" \in P THEN "full"
   ELSE IF {"chroot", "seccomp-net"} \subseteq P THEN "basic"
   ELSE "none" : P \in SUBSET Proven(host)}
=============================================================================
