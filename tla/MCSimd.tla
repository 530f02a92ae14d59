------------------------------- MODULE MCSimd -------------------------------
(***************************************************************************)
(* Processors of each architecture, with the variables of the environment  *)
(* set one at a time, and two of them together; the constants aligned, or  *)
(* (x86) those for AVX2 not, or none of them.                              *)
(***************************************************************************)
EXTENDS Simd

\* The x86 processors there are: each instruction set came with those before it.
X86Cpus == { {}, {"MMX"}, {"MMX", "3DNOW"}, {"MMX", "SSE"}, {"MMX", "3DNOW", "SSE"},
             {"MMX", "SSE", "SSE2"}, {"MMX", "3DNOW", "SSE", "SSE2"},
             {"MMX", "SSE", "SSE2", "AVX2"} }

CpusOf(arch) ==
    CASE arch = "I386"    -> X86Cpus
      [] arch = "X64"     -> {cpu \in X86Cpus : "SSE2" \in cpu}
      [] arch = "Arm64"   -> {{"NEON"}}
      [] arch = "Arm32"   -> {{}, {"NEON"}}
      [] arch = "Mips"    -> {{}, {"DSPR2"}}
      [] arch = "Mips64"  -> {{}, {"MMI"}}
      [] arch = "PowerPC" -> {{}, {"ALTIVEC"}}

\* Nobody claims with FORCENEON and the like, which are taken at their word, an instruction
\* set that the processor lacks; what is forced on x86 is masked.
Envs(arch, cpu) ==
    LET names == {Architectures[arch].forced[i][1] : i \in DOMAIN Architectures[arch].forced}
    IN  {{}, {"NOHUFFENC"}}
        \cup {{v} : v \in IF cpu = {} THEN names \ {"FORCEISA"} ELSE names}
        \cup (IF arch = "I386" THEN {{"FORCESSE", "FORCEAVX2"}} ELSE {})

\* The constants that the linker did not align, of those that are looked at.
Unaligned(arch) ==
    LET checked == {c \in UNION {e.can : e \in Tables[arch]} : c.constants # "none"}
        of(isas) == {<<c.isa, c.constants>> : c \in {c \in checked : c.isa \in isas}}
    IN  {{}, of({"AVX2"}), of(ISAs)}

\* The library is used by all threads or by one.
Users == {Threads, {CHOOSE t \in Threads : TRUE}}

AllMachines ==
    UNION { UNION { { [arch |-> a, cpu |-> c, detected |-> d, env |-> e, unaligned |-> n,
                       users |-> u] :
                      d \in IF Architectures[a].parses THEN {c, {}} ELSE {c}, e \in Envs(a, c),
                      n \in Unaligned(a), u \in Users } :
                    c \in CpusOf(a) } : a \in DOMAIN Architectures }

=============================================================================
