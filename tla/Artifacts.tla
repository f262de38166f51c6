----------------------------- MODULE Artifacts ------------------------------
(***************************************************************************)
(* Where the native runtime comes from: locateBinary and locateLibrary     *)
(* (go/locate.go), the verified download cache (go/download.go) and the    *)
(* extraction of an embedded artifact (go/embed_helpers.go), run by        *)
(* several processes that share one user cache directory. A process may be *)
(* killed between any two system calls; a power loss ends all of them and  *)
(* may spoil files, because nothing is synced.                             *)
(*                                                                         *)
(* File contents are identified with their SHA-256. "part" is any content  *)
(* that is not a whole artifact: empty, cut short or spoiled.              *)
(***************************************************************************)
EXTENDS Naturals

CONSTANTS
    Procs,       \* processes that resolve an artifact
    Requests,    \* what they may ask for, a subset of Request
    Tags,        \* release tags
    Pinned,      \* DefaultMirrorVersion, one of them
    Shas,        \* contents a release asset has had
    MaxCrashes,  \* bound: kills and power losses
    None

Kinds == {"binary", "library"}

\* The options, the environment and the build a resolution starts from.
Request ==
    [kind: Kinds,
     given: {"unset", "usable", "unusable"},     \* BinaryPath / LibraryPath
     env: {"unset", "usable", "unusable"},       \* $VIALITE_BINARY / _LIBRARY
     embed: {"none", "unsupported", "data"},     \* the vialite_embed build
     system: BOOLEAN,                            \* on PATH / in a library dir
     offline: BOOLEAN,
     platform: BOOLEAN,                          \* assetFor knows the platform
     version: {"unset", "latest"} \cup Tags,
     mirror: BOOLEAN]

ASSUME ArtifactsAssumption ==
    /\ Requests \subseteq Request
    /\ Pinned \in Tags
    /\ None \notin Tags \cup Shas
    /\ {"unset", "latest"} \cap Tags = {}
    /\ "part" \notin Shas
    /\ MaxCrashes \in Nat

\* The cached file of an artifact: its path is <version>/<sha>/<asset>.
Keys == [kind: Kinds, tag: Tags, sha: Shas]

VARIABLES
    cache,     \* Keys -> content, None for no file
    runnable,  \* cached files with their execute bits
    embedded,  \* content of the extracted file, None for no file
    pc, req,   \* where each process is and what it asked for
    tag, sha,  \* the version and checksum it resolved
    told,      \* the latest tag the network named to it, or None
    temp,      \* its temporary file, None for no file
    tempRun,   \* whether that file is executable
    path,      \* where the file it was given comes from
    raced,     \* another extraction was in flight when it was given the file
    crashes

fileVars == <<cache, runnable, embedded>>
localVars == <<req, tag, sha, told>>
tempVars == <<temp, tempRun>>
vars == <<fileVars, pc, localVars, tempVars, path, raced, crashes>>

Content == Shas \cup {"part"}
Sources == {"given", "env", "embedded", "system", "cache"}
Extracting == {"truncate", "write"}
PC == {"idle", "locate", "extract", "version", "sha", "lookup", "create",
       "download", "verify", "chmod", "rename", "using", "failed"} \cup Extracting

\* Type invariant.
TypeOK ==
    /\ cache \in [Keys -> Content \cup {None}]
    /\ runnable \in SUBSET Keys
    /\ embedded \in {None, "part", "data"}
    /\ pc \in [Procs -> PC]
    /\ req \in [Procs -> Requests \cup {None}]
    /\ tag \in [Procs -> Tags \cup {None}]
    /\ sha \in [Procs -> Shas \cup {None}]
    /\ told \in [Procs -> Tags \cup {None}]
    /\ temp \in [Procs -> Content \cup {None}]
    /\ tempRun \in [Procs -> BOOLEAN]
    /\ path \in [Procs -> Sources \cup {None}]
    /\ raced \in [Procs -> BOOLEAN]
    /\ crashes \in 0..MaxCrashes

Init ==
    /\ cache = [k \in Keys |-> None]
    /\ runnable = {}
    /\ embedded = None
    /\ pc = [p \in Procs |-> "idle"]
    /\ req = [p \in Procs |-> None]
    /\ tag = [p \in Procs |-> None]
    /\ sha = [p \in Procs |-> None]
    /\ told = [p \in Procs |-> None]
    /\ temp = [p \in Procs |-> None]
    /\ tempRun = [p \in Procs |-> FALSE]
    /\ path = [p \in Procs |-> None]
    /\ raced = [p \in Procs |-> FALSE]
    /\ crashes = 0

-----------------------------------------------------------------------------
\* Step helpers: what one process does while the others keep still.
Goto(p, to) == pc' = [pc EXCEPT ![p] = to]
Given(p, file) ==
    /\ Goto(p, "using")
    /\ path' = [path EXCEPT ![p] = file]
RemoveTemp(p) ==
    /\ temp' = [temp EXCEPT ![p] = None]
    /\ tempRun' = [tempRun EXCEPT ![p] = FALSE]

Begin(p, r) ==
    /\ pc[p] = "idle"
    /\ Goto(p, "locate")
    /\ req' = [req EXCEPT ![p] = r]
    /\ UNCHANGED <<fileVars, tag, sha, told, tempVars, path, raced, crashes>>

\* Which branch of locateBinary or locateLibrary a request ends in. A path that
\* was named and is not usable is an error, never a reason to look further.
Source(r) ==
    CASE r.given = "usable" -> "given"
      [] r.given = "unusable" -> "failed"
      [] r.env = "usable" -> "env"
      [] r.env = "unusable" -> "failed"
      [] r.embed = "data" -> "embedded"
      [] r.system -> "system"
      [] r.offline \/ ~r.platform -> "failed"
      [] OTHER -> "download"

Locate(p) ==
    LET s == Source(req[p])
    IN  /\ pc[p] = "locate"
        /\ CASE s = "failed" -> Goto(p, "failed") /\ UNCHANGED path
             [] s = "embedded" -> Goto(p, "extract") /\ UNCHANGED path
             [] s = "download" -> Goto(p, "version") /\ UNCHANGED path
             [] OTHER -> Given(p, s)
        /\ UNCHANGED <<fileVars, localVars, tempVars, raced, crashes>>

(***************************************************************************)
(* downloadAsset.                                                          *)
(***************************************************************************)
\* Mutant: an unanswered question for the latest release is never an error.
ResolvedTag_AlwaysFallsBack(r, answer) ==
    CASE r.version \in Tags -> r.version
      [] answer = None /\ r.mirror -> Pinned
      [] OTHER -> answer

\* resolveDownloadVersion: what it returns when the latest-release endpoint it
\* asks answers with a tag, or None for an error. None is an error here too.
ResolvedTag(r, answer) ==
    CASE r.version \in Tags -> r.version
      [] answer = None /\ r.mirror /\ r.version = "unset" -> Pinned
      [] OTHER -> answer

ResolveVersion(p) ==
    /\ pc[p] = "version"
    /\ \E answer \in Tags \cup {None} :
          /\ tag' = [tag EXCEPT ![p] = ResolvedTag(req[p], answer)]
          /\ told' = [told EXCEPT ![p] =
                        IF req[p].version \in Tags THEN None ELSE answer]
    /\ Goto(p, IF tag'[p] = None THEN "failed" ELSE "sha")
    /\ UNCHANGED <<fileVars, req, sha, tempVars, path, raced, crashes>>

\* Mutant: the listed checksum is not looked at.
FetchExpectedSha_Unchecked(p) ==
    /\ pc[p] = "sha"
    /\ \/ \E c \in Shas \cup {"malformed"} :
             sha' = [sha EXCEPT ![p] = c] /\ Goto(p, "lookup")
       \/ Goto(p, "failed") /\ UNCHANGED sha
    /\ UNCHANGED <<fileVars, req, tag, told, tempVars, path, raced, crashes>>

\* The answer is a well-formed checksum of the asset, or an error (unreachable,
\* not listed, malformed).
FetchExpectedSha(p) ==
    /\ pc[p] = "sha"
    /\ \/ \E c \in Shas : sha' = [sha EXCEPT ![p] = c] /\ Goto(p, "lookup")
       \/ Goto(p, "failed") /\ UNCHANGED sha
    /\ UNCHANGED <<fileVars, req, tag, told, tempVars, path, raced, crashes>>

Key(p) == [kind |-> req[p].kind, tag |-> tag[p], sha |-> sha[p]]

\* The cached file is opened and hashed; an open file keeps its content when
\* another process renames over its name.
LookupCache(p) ==
    /\ pc[p] = "lookup"
    /\ IF cache[Key(p)] = sha[p] THEN Given(p, "cache")
       ELSE Goto(p, "create") /\ UNCHANGED path
    /\ UNCHANGED <<fileVars, localVars, tempVars, raced, crashes>>

\* MkdirAll and CreateTemp: the name is this process's own.
CreateTemp(p) ==
    /\ pc[p] = "create"
    /\ \/ Goto(p, "failed") /\ UNCHANGED tempVars
       \/ /\ Goto(p, "download")
          /\ temp' = [temp EXCEPT ![p] = "part"]
          /\ UNCHANGED tempRun
    /\ UNCHANGED <<fileVars, localVars, path, raced, crashes>>

\* downloadFile: an error, or whatever the server sends.
DownloadFile(p) ==
    /\ pc[p] = "download"
    /\ \/ Goto(p, "failed") /\ RemoveTemp(p)
       \/ /\ \E c \in Content : temp' = [temp EXCEPT ![p] = c]
          /\ UNCHANGED tempRun
          /\ Goto(p, "verify")
    /\ UNCHANGED <<fileVars, localVars, path, raced, crashes>>

VerifySha(p) ==
    /\ pc[p] = "verify"
    /\ \/ temp[p] = sha[p] /\ Goto(p, "chmod") /\ UNCHANGED tempVars
       \/ temp[p] # sha[p] /\ Goto(p, "failed") /\ RemoveTemp(p)
    /\ UNCHANGED <<fileVars, localVars, path, raced, crashes>>

\* Mutant: the execute bits are set once the file is in the cache.
Chmod_Later(p) ==
    /\ pc[p] = "chmod"
    /\ Goto(p, "rename")
    /\ UNCHANGED <<fileVars, localVars, tempVars, path, raced, crashes>>

\* A library needs no execute bits. (The owner's chmod is taken to succeed; the
\* code ignores its error.)
Chmod(p) ==
    /\ pc[p] = "chmod"
    /\ tempRun' = [tempRun EXCEPT ![p] = req[p].kind = "binary"]
    /\ Goto(p, "rename")
    /\ UNCHANGED <<fileVars, localVars, temp, path, raced, crashes>>

Rename(p) ==
    /\ pc[p] = "rename"
    /\ \/ Goto(p, "failed") /\ UNCHANGED <<cache, runnable, path>>
       \/ /\ cache' = [cache EXCEPT ![Key(p)] = temp[p]]
          /\ runnable' = IF tempRun[p] THEN runnable \cup {Key(p)}
                                       ELSE runnable \ {Key(p)}
          /\ Given(p, "cache")
    /\ RemoveTemp(p)
    /\ UNCHANGED <<embedded, localVars, raced, crashes>>

(***************************************************************************)
(* extractBytes: the file is compared, and rewritten in place when it      *)
(* differs.                                                                *)
(***************************************************************************)
Racing(p) == \E q \in Procs \ {p} : pc[q] \in Extracting

\* Mutant: any file that can be read is taken for the artifact.
ExtractCompare_Exists(p) ==
    /\ pc[p] = "extract"
    /\ IF embedded # None
       THEN Given(p, "embedded") /\ raced' = [raced EXCEPT ![p] = Racing(p)]
       ELSE Goto(p, "truncate") /\ UNCHANGED <<path, raced>>
    /\ UNCHANGED <<fileVars, localVars, tempVars, crashes>>

ExtractCompare(p) ==
    /\ pc[p] = "extract"
    /\ IF embedded = "data"
       THEN Given(p, "embedded") /\ raced' = [raced EXCEPT ![p] = Racing(p)]
       ELSE Goto(p, "truncate") /\ UNCHANGED <<path, raced>>
    /\ UNCHANGED <<fileVars, localVars, tempVars, crashes>>

\* os.WriteFile opens with O_TRUNC, or fails: a running executable cannot be
\* opened for writing, a directory may be read-only.
ExtractTruncate(p) ==
    /\ pc[p] = "truncate"
    /\ \/ embedded' = "part" /\ Goto(p, "write")
       \/ Goto(p, "failed") /\ UNCHANGED embedded
    /\ UNCHANGED <<cache, runnable, localVars, tempVars, path, raced, crashes>>

ExtractWrite(p) ==
    /\ pc[p] = "write"
    /\ \/ /\ embedded' = "data"
          /\ Given(p, "embedded")
          /\ raced' = [raced EXCEPT ![p] = Racing(p)]
       \/ Goto(p, "failed") /\ UNCHANGED <<embedded, path, raced>>
    /\ UNCHANGED <<cache, runnable, localVars, tempVars, crashes>>

-----------------------------------------------------------------------------
\* Processes that end. A temporary file of theirs stays on disk under a name no
\* other process uses, so it is of no further interest.
Forget(S) ==
    /\ pc' = [p \in Procs |-> IF p \in S THEN "idle" ELSE pc[p]]
    /\ req' = [p \in Procs |-> IF p \in S THEN None ELSE req[p]]
    /\ tag' = [p \in Procs |-> IF p \in S THEN None ELSE tag[p]]
    /\ sha' = [p \in Procs |-> IF p \in S THEN None ELSE sha[p]]
    /\ told' = [p \in Procs |-> IF p \in S THEN None ELSE told[p]]
    /\ temp' = [p \in Procs |-> IF p \in S THEN None ELSE temp[p]]
    /\ tempRun' = [p \in Procs |-> p \notin S /\ tempRun[p]]
    /\ path' = [p \in Procs |-> IF p \in S THEN None ELSE path[p]]
    /\ raced' = [p \in Procs |-> p \notin S /\ raced[p]]

\* The process is done with the artifact, or with its error, and may come back.
Exit(p) ==
    /\ pc[p] \in {"using", "failed"}
    /\ Forget({p})
    /\ UNCHANGED <<fileVars, crashes>>

Kill(p) ==
    /\ crashes < MaxCrashes
    /\ pc[p] \notin {"idle", "using", "failed"}
    /\ crashes' = crashes + 1
    /\ Forget({p})
    /\ UNCHANGED fileVars

\* Nothing is synced: any file of the cache may come back spoiled.
PowerLoss ==
    /\ crashes < MaxCrashes
    /\ crashes' = crashes + 1
    /\ Forget(Procs)
    /\ \E spoiled \in SUBSET {k \in Keys : cache[k] # None} :
          cache' = [k \in Keys |-> IF k \in spoiled THEN "part" ELSE cache[k]]
    /\ embedded' \in {embedded, IF embedded = None THEN None ELSE "part"}
    /\ UNCHANGED runnable

Step(p) ==
    \/ Locate(p) \/ ResolveVersion(p) \/ FetchExpectedSha(p) \/ LookupCache(p)
    \/ CreateTemp(p) \/ DownloadFile(p) \/ VerifySha(p) \/ Chmod(p) \/ Rename(p)
    \/ ExtractCompare(p) \/ ExtractTruncate(p) \/ ExtractWrite(p)

Next ==
    \/ \E p \in Procs : \/ \E r \in Requests : Begin(p, r)
                        \/ Step(p) \/ Exit(p) \/ Kill(p)
    \/ PowerLoss

Spec == Init /\ [][Next]_vars

-----------------------------------------------------------------------------
\* A process that was given a cached file has the artifact whose checksum it
\* was told, for as long as it uses it, and can execute it if it is a binary:
\* whatever other processes download, rename or abandon half way. A cache hit
\* does not look at the mode, so a binary that was renamed without its execute
\* bits would never be replaced.
InUseVerified ==
    \A p \in Procs :
        pc[p] = "using" /\ path[p] = "cache" =>
            /\ cache[Key(p)] = sha[p]
            /\ req[p].kind = "binary" => Key(p) \in runnable

\* A downloaded runtime is the release that was asked for: the tag named in the
\* options, or the latest one the network named; the compiled-in version only
\* if nothing was asked for and the mirror named none.
RightRelease ==
    \A p \in Procs :
        pc[p] = "using" /\ path[p] = "cache" =>
            CASE req[p].version \in Tags -> tag[p] = req[p].version
              [] told[p] # None -> tag[p] = told[p]
              [] OTHER -> /\ req[p].version = "unset"
                          /\ req[p].mirror
                          /\ tag[p] = Pinned

\* An extracted artifact is whole while it is used, also after an earlier
\* extraction was killed half way, unless another extraction was under way when
\* the path was returned: that one truncates the file under its user.
ExtractedWhole ==
    \A p \in Procs :
        pc[p] = "using" /\ path[p] = "embedded" /\ ~raced[p]
            => embedded = "data"

=============================================================================
