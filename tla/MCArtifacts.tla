---------------------------- MODULE MCArtifacts -----------------------------
(***************************************************************************)
(* Instances of Artifacts for TLC. Every branch of the resolution order    *)
(* has a request that ends in it; the processes are interchangeable.       *)
(***************************************************************************)
EXTENDS Artifacts, TLC

Plain == [kind |-> "binary", given |-> "unset", env |-> "unset",
          embed |-> "none", system |-> FALSE, offline |-> FALSE,
          platform |-> TRUE, version |-> "unset", mirror |-> FALSE]

\* One for each branch of Source, and for each of ResolvedTag.
MCRequests ==
    {[Plain EXCEPT !.given = "usable", !.env = "unusable"],
     [Plain EXCEPT !.given = "unusable", !.system = TRUE],
     [Plain EXCEPT !.env = "usable", !.embed = "data"],
     [Plain EXCEPT !.env = "unusable", !.embed = "data"],
     [Plain EXCEPT !.embed = "data", !.system = TRUE],
     [Plain EXCEPT !.embed = "unsupported", !.system = TRUE, !.offline = TRUE],
     [Plain EXCEPT !.embed = "unsupported", !.offline = TRUE],
     [Plain EXCEPT !.platform = FALSE]}
    \cup {[Plain EXCEPT !.version = v, !.mirror = m] :
            v \in {"unset", "latest"}, m \in BOOLEAN}
    \cup {[Plain EXCEPT !.kind = "library", !.version = Pinned]}

ProcSymmetry == Permutations(Procs)
=============================================================================
