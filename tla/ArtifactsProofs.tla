--------------------------- MODULE ArtifactsProofs --------------------------
(***************************************************************************)
(* Theorems about Artifacts, for any processes, requests, releases and     *)
(* number of kills and power losses: what a process was given is what it   *)
(* asked for, whole and verified.                                          *)
(***************************************************************************)
EXTENDS Artifacts, TLAPS

-----------------------------------------------------------------------------
(***************************************************************************)
(* The inductive invariant.                                                *)
(***************************************************************************)
\* Past the lookup of its checksum, and past its verification.
Checking == {"lookup", "create", "download", "verify", "chmod", "rename"}
Cached(p) == pc[p] = "using" /\ path[p] = "cache"

\* The tag ResolveVersion settled on is the release that was asked for.
Right(p) ==
    CASE req[p].version \in Tags -> tag[p] = req[p].version
      [] told[p] # None -> tag[p] = told[p]
      [] OTHER -> req[p].version = "unset" /\ req[p].mirror /\ tag[p] = Pinned

Resolved ==
    \A p \in Procs :
        /\ pc[p] # "idle" => req[p] \in Requests
        /\ pc[p] = "sha" \/ pc[p] \in Checking \/ Cached(p)
              => tag[p] \in Tags /\ Right(p)
        /\ pc[p] \in Checking \/ Cached(p) => sha[p] \in Shas

\* Only verified bytes, with their execute bits, reach the rename.
Verified ==
    \A p \in Procs :
        /\ pc[p] \in {"chmod", "rename"} => temp[p] = sha[p]
        /\ pc[p] = "rename" => (tempRun[p] <=> req[p].kind = "binary")

\* A cached file is the artifact its path names, or it was spoiled by a power
\* loss; and what was renamed as a binary stays executable.
CacheSound ==
    \A k \in Keys :
        /\ cache[k] \in {None, "part", k.sha}
        /\ cache[k] # None /\ k.kind = "binary" => k \in runnable

InUse == \A p \in Procs : Cached(p) => cache[Key(p)] = sha[p]

\* Nobody rewrites the extracted file under a process that did not race.
Undisturbed ==
    \A p \in Procs :
        pc[p] = "using" /\ path[p] = "embedded" /\ ~raced[p]
            => embedded = "data" /\ \A q \in Procs : pc[q] \notin Extracting

ArtifactsInv ==
    TypeOK /\ Resolved /\ Verified /\ CacheSound /\ InUse /\ Undisturbed

LEMMA ArtifactsInit == Init => ArtifactsInv
<1> SUFFICES ASSUME Init PROVE ArtifactsInv
  OBVIOUS
<1> USE ArtifactsAssumption DEF Init
<1>1. TypeOK
  BY DEF TypeOK, PC, Content
<1>2. Resolved /\ Verified /\ InUse /\ Undisturbed
  BY DEF Resolved, Verified, InUse, Undisturbed, Cached, Checking
<1>3. CacheSound
  BY DEF CacheSound
<1> QED
  BY <1>1, <1>2, <1>3 DEF ArtifactsInv

-----------------------------------------------------------------------------
(***************************************************************************)
(* Types.                                                                  *)
(***************************************************************************)
\* What Key builds, for a process that knows its tag and its checksum.
LEMMA KeyFields ==
  ASSUME NEW p \in Procs, req[p] \in Requests, tag[p] \in Tags, sha[p] \in Shas
  PROVE  /\ Key(p) \in Keys
         /\ Key(p).sha = sha[p] /\ Key(p).kind = req[p].kind
<1>1. req[p].kind \in Kinds
  BY ArtifactsAssumption DEF Request
<1> QED
  BY <1>1 DEF Key, Keys

LEMMA ForgetTypes ==
  ASSUME TypeOK, NEW S, Forget(S)
  PROVE  /\ pc' \in [Procs -> PC]
         /\ req' \in [Procs -> Requests \cup {None}]
         /\ tag' \in [Procs -> Tags \cup {None}]
         /\ sha' \in [Procs -> Shas \cup {None}]
         /\ told' \in [Procs -> Tags \cup {None}]
         /\ temp' \in [Procs -> Content \cup {None}]
         /\ tempRun' \in [Procs -> BOOLEAN]
         /\ path' \in [Procs -> Sources \cup {None}]
         /\ raced' \in [Procs -> BOOLEAN]
<1> USE DEF TypeOK, Forget
<1>1. pc' \in [Procs -> PC]
  BY DEF PC
<1>2. req' \in [Procs -> Requests \cup {None}]
  OBVIOUS
<1>3. tag' \in [Procs -> Tags \cup {None}] /\ told' \in [Procs -> Tags \cup {None}]
  OBVIOUS
<1>4. sha' \in [Procs -> Shas \cup {None}] /\ temp' \in [Procs -> Content \cup {None}]
  OBVIOUS
<1>5. tempRun' \in [Procs -> BOOLEAN] /\ raced' \in [Procs -> BOOLEAN]
  OBVIOUS
<1>6. path' \in [Procs -> Sources \cup {None}]
  OBVIOUS
<1> QED
  BY <1>1, <1>2, <1>3, <1>4, <1>5, <1>6

LEMMA TypeStep ==
  ASSUME ArtifactsInv, [Next]_vars
  PROVE  TypeOK'
<1> USE ArtifactsAssumption
        DEF ArtifactsInv, TypeOK, fileVars, localVars, tempVars, vars, Goto, Given,
            RemoveTemp, PC, Extracting, Sources
<1>b. \A p \in Procs : Racing(p) \in BOOLEAN
  BY DEF Racing
<1>1. ASSUME NEW p \in Procs, NEW r \in Requests, Begin(p, r) PROVE TypeOK'
  BY <1>1 DEF Begin
<1>2. ASSUME NEW p \in Procs, Locate(p) PROVE TypeOK'
  BY <1>2 DEF Locate, Source
<1>3. ASSUME NEW p \in Procs, ResolveVersion(p) PROVE TypeOK'
  <2>1. PICK answer \in Tags \cup {None} :
          /\ tag' = [tag EXCEPT ![p] = ResolvedTag(req[p], answer)]
          /\ told' = [told EXCEPT ![p] =
                        IF req[p].version \in Tags THEN None ELSE answer]
    BY <1>3 DEF ResolveVersion
  <2>2. ResolvedTag(req[p], answer) \in Tags \cup {None}
    BY DEF ResolvedTag
  <2>3. tag' \in [Procs -> Tags \cup {None}] /\ told' \in [Procs -> Tags \cup {None}]
    BY <2>1, <2>2
  <2> QED
    BY <1>3, <2>3 DEF ResolveVersion
<1>4. ASSUME NEW p \in Procs, FetchExpectedSha(p) PROVE TypeOK'
  BY <1>4 DEF FetchExpectedSha
<1>5. ASSUME NEW p \in Procs, LookupCache(p) PROVE TypeOK'
  BY <1>5 DEF LookupCache
<1>6. ASSUME NEW p \in Procs, CreateTemp(p) PROVE TypeOK'
  BY <1>6 DEF CreateTemp, Content
<1>7. ASSUME NEW p \in Procs, DownloadFile(p) PROVE TypeOK'
  <2>1. temp' \in [Procs -> Content \cup {None}]
    BY <1>7 DEF DownloadFile
  <2>2. tempRun' \in [Procs -> BOOLEAN]
    BY <1>7 DEF DownloadFile
  <2> QED
    BY <1>7, <2>1, <2>2 DEF DownloadFile
<1>8. ASSUME NEW p \in Procs, VerifySha(p) PROVE TypeOK'
  BY <1>8 DEF VerifySha
<1>9. ASSUME NEW p \in Procs, Chmod(p) PROVE TypeOK'
  BY <1>9 DEF Chmod
<1>10. ASSUME NEW p \in Procs, Rename(p) PROVE TypeOK'
  <2>1. Key(p) \in Keys
    BY <1>10, KeyFields DEF Rename, Resolved, Checking
  <2> QED
    BY <1>10, <2>1 DEF Rename
<1>11. ASSUME NEW p \in Procs, ExtractCompare(p) PROVE TypeOK'
  <2>1. raced' \in [Procs -> BOOLEAN]
    BY <1>11, <1>b DEF ExtractCompare
  <2> QED
    BY <1>11, <2>1 DEF ExtractCompare
<1>12. ASSUME NEW p \in Procs, ExtractTruncate(p) PROVE TypeOK'
  BY <1>12 DEF ExtractTruncate
<1>13. ASSUME NEW p \in Procs, ExtractWrite(p) PROVE TypeOK'
  <2>1. raced' \in [Procs -> BOOLEAN]
    BY <1>13, <1>b DEF ExtractWrite
  <2> QED
    BY <1>13, <2>1 DEF ExtractWrite
<1>14. ASSUME NEW p \in Procs, Exit(p) \/ Kill(p) PROVE TypeOK'
  <2>1. crashes' \in 0..MaxCrashes
    BY <1>14 DEF Exit, Kill
  <2>2. UNCHANGED fileVars /\ Forget({p})
    BY <1>14 DEF Exit, Kill
  <2> QED
    BY <2>1, <2>2, ForgetTypes
<1>15. CASE PowerLoss
  <2>1. crashes' \in 0..MaxCrashes /\ Forget(Procs) /\ runnable' = runnable
    BY <1>15 DEF PowerLoss
  <2>2. cache' \in [Keys -> Content \cup {None}]
    BY <1>15 DEF PowerLoss, Content
  <2>3. embedded' \in {None, "part", "data"}
    BY <1>15 DEF PowerLoss
  <2> QED
    BY <2>1, <2>2, <2>3, ForgetTypes
<1>16. CASE UNCHANGED vars
  BY <1>16
<1> QED
  BY <1>1, <1>2, <1>3, <1>4, <1>5, <1>6, <1>7, <1>8, <1>9, <1>10, <1>11, <1>12,
     <1>13, <1>14, <1>15, <1>16 DEF Next, Step

-----------------------------------------------------------------------------
(***************************************************************************)
(* What a process resolved, verified and holds.                            *)
(***************************************************************************)
LEMMA ResolvedStep ==
  ASSUME ArtifactsInv, [Next]_vars
  PROVE  Resolved'
<1> USE ArtifactsAssumption
        DEF ArtifactsInv, TypeOK, fileVars, localVars, tempVars, vars, Goto, Given,
            Resolved, Right, Cached, Checking
<1>1. ASSUME NEW p \in Procs, NEW r \in Requests, Begin(p, r) PROVE Resolved'
  BY <1>1 DEF Begin
<1>2. ASSUME NEW p \in Procs, Locate(p) PROVE Resolved'
  BY <1>2 DEF Locate, Source
<1>3. ASSUME NEW p \in Procs, ResolveVersion(p) PROVE Resolved'
  <2>1. PICK answer \in Tags \cup {None} :
          /\ tag' = [tag EXCEPT ![p] = ResolvedTag(req[p], answer)]
          /\ told' = [told EXCEPT ![p] =
                        IF req[p].version \in Tags THEN None ELSE answer]
    BY <1>3 DEF ResolveVersion
  <2>2. /\ pc' = [pc EXCEPT ![p] = IF tag'[p] = None THEN "failed" ELSE "sha"]
        /\ req' = req /\ sha' = sha /\ path' = path
    BY <1>3 DEF ResolveVersion
  <2>3. ResolvedTag(req[p], answer) \in Tags \cup {None}
    BY DEF ResolvedTag
  <2>4. req[p] \in Requests
    BY <1>3 DEF ResolveVersion
  <2>5. tag'[p] # None => tag'[p] \in Tags /\ Right(p)'
    <3>1. /\ tag'[p] = ResolvedTag(req[p], answer)
          /\ told'[p] = IF req[p].version \in Tags THEN None ELSE answer
          /\ req'[p] = req[p]
      BY <2>1, <2>2
    <3>2. CASE req[p].version \in Tags
      <4>1. tag'[p] = req[p].version
        BY <3>1, <3>2 DEF ResolvedTag
      <4>2. req'[p].version \in Tags /\ tag'[p] = req'[p].version
        BY <3>1, <3>2, <4>1
      <4>3. told'[p] = None
        BY <3>1, <3>2
      <4> QED
        BY <4>2, <4>3
    <3>3. CASE req[p].version \notin Tags /\ answer # None
      BY <3>1, <3>3 DEF ResolvedTag
    <3>4. CASE req[p].version \notin Tags /\ answer = None
      BY <3>1, <3>4 DEF ResolvedTag
    <3> QED
      BY <3>2, <3>3, <3>4
  <2>6. ASSUME NEW q \in Procs, q # p
        PROVE  /\ pc'[q] = pc[q] /\ tag'[q] = tag[q] /\ told'[q] = told[q]
               /\ Right(q)' <=> Right(q)
    BY <2>1, <2>2, <2>3, <2>6
  <2>7. pc'[p] \in {"failed", "sha"} /\ (pc'[p] = "sha" => tag'[p] # None)
    BY <2>2
  <2> QED
    BY <2>2, <2>4, <2>5, <2>6, <2>7
<1>4. ASSUME NEW p \in Procs, FetchExpectedSha(p) PROVE Resolved'
  BY <1>4 DEF FetchExpectedSha
<1>5. ASSUME NEW p \in Procs, LookupCache(p) PROVE Resolved'
  BY <1>5 DEF LookupCache
<1>6. ASSUME NEW p \in Procs, CreateTemp(p) PROVE Resolved'
  BY <1>6 DEF CreateTemp
<1>7. ASSUME NEW p \in Procs, DownloadFile(p) PROVE Resolved'
  BY <1>7 DEF DownloadFile
<1>8. ASSUME NEW p \in Procs, VerifySha(p) PROVE Resolved'
  BY <1>8 DEF VerifySha
<1>9. ASSUME NEW p \in Procs, Chmod(p) PROVE Resolved'
  BY <1>9 DEF Chmod
<1>10. ASSUME NEW p \in Procs, Rename(p) PROVE Resolved'
  BY <1>10 DEF Rename
<1>11. ASSUME NEW p \in Procs, ExtractCompare(p) PROVE Resolved'
  BY <1>11 DEF ExtractCompare
<1>12. ASSUME NEW p \in Procs, ExtractTruncate(p) PROVE Resolved'
  BY <1>12 DEF ExtractTruncate
<1>13. ASSUME NEW p \in Procs, ExtractWrite(p) PROVE Resolved'
  BY <1>13 DEF ExtractWrite
<1>14. ASSUME NEW S, Forget(S) PROVE Resolved'
  BY <1>14 DEF Forget
<1>15. CASE UNCHANGED vars
  BY <1>15
<1> QED
  BY <1>1, <1>2, <1>3, <1>4, <1>5, <1>6, <1>7, <1>8, <1>9, <1>10, <1>11, <1>12,
     <1>13, <1>14, <1>15 DEF Next, Step, Exit, Kill, PowerLoss

LEMMA VerifiedStep ==
  ASSUME ArtifactsInv, [Next]_vars
  PROVE  Verified'
<1> USE DEF ArtifactsInv, TypeOK, fileVars, localVars, tempVars, vars, Goto, Given,
            RemoveTemp, Verified
<1>1. ASSUME NEW p \in Procs, NEW r \in Requests, Begin(p, r) PROVE Verified'
  BY <1>1 DEF Begin
<1>2. ASSUME NEW p \in Procs, Locate(p) PROVE Verified'
  BY <1>2 DEF Locate, Source
<1>3. ASSUME NEW p \in Procs, ResolveVersion(p) PROVE Verified'
  BY <1>3 DEF ResolveVersion
<1>4. ASSUME NEW p \in Procs, FetchExpectedSha(p) PROVE Verified'
  BY <1>4 DEF FetchExpectedSha
<1>5. ASSUME NEW p \in Procs, LookupCache(p) PROVE Verified'
  BY <1>5 DEF LookupCache
<1>6. ASSUME NEW p \in Procs, CreateTemp(p) PROVE Verified'
  BY <1>6 DEF CreateTemp
<1>7. ASSUME NEW p \in Procs, DownloadFile(p) PROVE Verified'
  BY <1>7 DEF DownloadFile
<1>8. ASSUME NEW p \in Procs, VerifySha(p) PROVE Verified'
  BY <1>8 DEF VerifySha
<1>9. ASSUME NEW p \in Procs, Chmod(p) PROVE Verified'
  BY <1>9 DEF Chmod
<1>10. ASSUME NEW p \in Procs, Rename(p) PROVE Verified'
  BY <1>10 DEF Rename
<1>11. ASSUME NEW p \in Procs,
              ExtractCompare(p) \/ ExtractTruncate(p) \/ ExtractWrite(p)
       PROVE  Verified'
  BY <1>11 DEF ExtractCompare, ExtractTruncate, ExtractWrite
<1>12. ASSUME NEW S, Forget(S) PROVE Verified'
  BY <1>12 DEF Forget
<1>13. CASE UNCHANGED vars
  BY <1>13
<1> QED
  BY <1>1, <1>2, <1>3, <1>4, <1>5, <1>6, <1>7, <1>8, <1>9, <1>10, <1>11, <1>12,
     <1>13 DEF Next, Step, Exit, Kill, PowerLoss

\* A rename puts the artifact its path names into the cache.
LEMMA Renamed ==
  ASSUME ArtifactsInv, NEW p \in Procs, Rename(p), UNCHANGED <<cache, runnable>> => FALSE
  PROVE  /\ Key(p) \in Keys /\ Key(p).sha = sha[p]
         /\ cache' = [cache EXCEPT ![Key(p)] = sha[p]]
         /\ Key(p) \in runnable' <=> Key(p).kind = "binary"
         /\ \A k \in Keys \ {Key(p)} : k \in runnable' <=> k \in runnable
<1>1. pc[p] = "rename" /\ req[p] \in Requests /\ tag[p] \in Tags /\ sha[p] \in Shas
  BY DEF Rename, ArtifactsInv, Resolved, Checking
<1>2. temp[p] = sha[p] /\ (tempRun[p] <=> req[p].kind = "binary")
  BY <1>1 DEF ArtifactsInv, Verified
<1>3. /\ cache' = [cache EXCEPT ![Key(p)] = temp[p]]
      /\ runnable' = IF tempRun[p] THEN runnable \cup {Key(p)} ELSE runnable \ {Key(p)}
  BY DEF Rename
<1>4. Key(p) \in Keys /\ Key(p).sha = sha[p] /\ Key(p).kind = req[p].kind
  BY <1>1, KeyFields
<1> HIDE DEF Key
<1> QED
  BY <1>2, <1>3, <1>4

LEMMA CacheStep ==
  ASSUME ArtifactsInv, [Next]_vars
  PROVE  CacheSound'
<1>1. cache \in [Keys -> Content \cup {None}] /\ CacheSound
  BY DEF ArtifactsInv, TypeOK
<1>2. CASE UNCHANGED <<cache, runnable>>
  BY <1>1, <1>2 DEF CacheSound
<1>3. ASSUME NEW p \in Procs, Rename(p), UNCHANGED <<cache, runnable>> => FALSE
      PROVE  CacheSound'
  <2> HIDE DEF Key
  <2>1. /\ Key(p) \in Keys /\ Key(p).sha = sha[p]
        /\ cache' = [cache EXCEPT ![Key(p)] = sha[p]]
        /\ Key(p) \in runnable' <=> Key(p).kind = "binary"
        /\ \A k \in Keys \ {Key(p)} : k \in runnable' <=> k \in runnable
    BY <1>3, Renamed
  <2>2. ASSUME NEW k \in Keys
        PROVE  /\ cache'[k] \in {None, "part", k.sha}
               /\ cache'[k] # None /\ k.kind = "binary" => k \in runnable'
    <3>1. CASE k = Key(p)
      BY <1>1, <2>1, <3>1
    <3>2. CASE k # Key(p)
      BY <1>1, <2>1, <3>2 DEF CacheSound
    <3> QED
      BY <3>1, <3>2
  <2> QED
    BY <2>2 DEF CacheSound
<1>4. CASE PowerLoss
  BY <1>1, <1>4 DEF PowerLoss, CacheSound
<1> QED
  BY <1>2, <1>3, <1>4
     DEF Next, Step, Begin, Locate, ResolveVersion, FetchExpectedSha, LookupCache,
         CreateTemp, DownloadFile, VerifySha, Chmod, ExtractCompare,
         ExtractTruncate, ExtractWrite, Exit, Kill, vars, fileVars

LEMMA InUseStep ==
  ASSUME ArtifactsInv, [Next]_vars
  PROVE  InUse'
<1> USE DEF ArtifactsInv
<1>1. ASSUME NEW p \in Procs, LookupCache(p) PROVE InUse'
  BY <1>1 DEF LookupCache, Goto, Given, fileVars, localVars, InUse, Cached, Key, TypeOK
<1>2. ASSUME NEW p \in Procs, Rename(p) PROVE InUse'
  <2>1. CASE UNCHANGED <<cache, runnable>>
    <3>1. pc'[p] = "failed" \/ cache[Key(p)] = sha[p]
      <4>1. Key(p) \in Keys
        BY <1>2, KeyFields DEF Rename, Resolved, Checking
      <4>2. temp[p] = sha[p]
        BY <1>2 DEF Rename, Verified
      <4> QED
        BY <1>2, <2>1, <4>1, <4>2 DEF Rename, Goto, TypeOK
    <3> QED
      BY <1>2, <2>1, <3>1
      DEF Rename, Goto, Given, localVars, InUse, Cached, Key, TypeOK
  <2>2. CASE UNCHANGED <<cache, runnable>> => FALSE
    <3>1. Key(p) \in Keys /\ cache' = [cache EXCEPT ![Key(p)] = sha[p]]
      BY <1>2, <2>2, Renamed
    <3>2. ASSUME NEW q \in Procs, Cached(q)'
          PROVE  Key(q)' = Key(q) /\ sha'[q] = sha[q] /\ (q # p => Cached(q))
      BY <1>2, <3>2 DEF Rename, Goto, Given, localVars, Cached, Key, TypeOK
    <3>3. \A q \in Procs : Key(q) = Key(p) => sha[q] = sha[p]
      BY DEF Key
    <3>4. ASSUME NEW q \in Procs, Cached(q)' PROVE cache'[Key(q)] = sha[q]
      <4>1. CASE Key(q) = Key(p)
        BY <3>1, <3>3, <4>1 DEF TypeOK
      <4>2. CASE Key(q) # Key(p)
        <5>1. q # p /\ Cached(q) /\ cache[Key(q)] = sha[q]
          BY <3>2, <3>4, <4>2 DEF InUse
        <5>2. Key(q) \in Keys
          BY <5>1, KeyFields DEF Resolved, Cached
        <5> QED
          BY <3>1, <4>2, <5>1, <5>2 DEF TypeOK
      <4> QED
        BY <4>1, <4>2
    <3> QED
      BY <3>2, <3>4 DEF InUse
  <2> QED
    BY <2>1, <2>2
<1>3. ASSUME NEW p \in Procs, Exit(p) \/ Kill(p) PROVE InUse'
  BY <1>3 DEF Exit, Kill, Forget, fileVars, InUse, Cached, Key, TypeOK
<1>4. CASE PowerLoss
  BY <1>4 DEF PowerLoss, Forget, InUse, Cached
<1>5. ASSUME cache' = cache,
             \A q \in Procs : Cached(q)' => Cached(q) /\ Key(q)' = Key(q)
      PROVE  InUse'
  <2>1. \A q \in Procs : Key(q)' = Key(q) => sha'[q] = sha[q]
    BY DEF Key
  <2> QED
    BY <1>5, <2>1 DEF InUse
<1>6. ASSUME NEW p \in Procs,
             \/ \E r \in Requests : Begin(p, r)
             \/ Locate(p) \/ ResolveVersion(p) \/ FetchExpectedSha(p)
      PROVE  InUse'
  <2>1. /\ cache' = cache /\ ~Cached(p)'
        /\ \A q \in Procs \ {p} : Cached(q)' => Cached(q) /\ Key(q)' = Key(q)
    BY <1>6 DEF Begin, Locate, Source, ResolveVersion, FetchExpectedSha, Goto, Given,
       fileVars, localVars, Cached, Key, TypeOK
  <2> QED
    BY <1>5, <2>1
<1>7. ASSUME NEW p \in Procs,
             \/ CreateTemp(p) \/ DownloadFile(p) \/ VerifySha(p) \/ Chmod(p)
             \/ ExtractCompare(p) \/ ExtractTruncate(p) \/ ExtractWrite(p)
      PROVE  InUse'
  BY <1>5, <1>7 DEF CreateTemp, DownloadFile, VerifySha, Chmod, ExtractCompare,
     ExtractTruncate, ExtractWrite, Goto, Given, fileVars, localVars, Cached, Key,
     TypeOK
<1>8. CASE UNCHANGED vars
  BY <1>8 DEF vars, fileVars, localVars, InUse, Cached, Key
<1> QED
  BY <1>1, <1>2, <1>3, <1>4, <1>6, <1>7, <1>8 DEF Next, Step

LEMMA UndisturbedStep ==
  ASSUME ArtifactsInv, [Next]_vars
  PROVE  Undisturbed'
<1> USE DEF ArtifactsInv, TypeOK, Undisturbed, Extracting
<1>1. ASSUME NEW p \in Procs, ExtractCompare(p) PROVE Undisturbed'
  <2>1. CASE embedded = "data"
    BY <1>1, <2>1 DEF ExtractCompare, Racing, Goto, Given, fileVars
  <2>2. CASE embedded # "data"
    BY <1>1, <2>2 DEF ExtractCompare, Goto, fileVars
  <2> QED
    BY <2>1, <2>2
<1>2. ASSUME NEW p \in Procs, ExtractTruncate(p) PROVE Undisturbed'
  BY <1>2 DEF ExtractTruncate, Goto
<1>3. ASSUME NEW p \in Procs, ExtractWrite(p) PROVE Undisturbed'
  BY <1>3 DEF ExtractWrite, Racing, Goto, Given
<1>4. ASSUME NEW p \in Procs, Exit(p) \/ Kill(p) PROVE Undisturbed'
  BY <1>4 DEF Exit, Kill, Forget, fileVars
<1>5. CASE PowerLoss
  BY <1>5 DEF PowerLoss, Forget
<1>6. ASSUME NEW p \in Procs,
             \/ \E r \in Requests : Begin(p, r)
             \/ Locate(p) \/ ResolveVersion(p) \/ FetchExpectedSha(p)
      PROVE  Undisturbed'
  BY <1>6 DEF Begin, Locate, Source, ResolveVersion, FetchExpectedSha, Goto, Given,
     fileVars
<1>7. ASSUME NEW p \in Procs,
             \/ LookupCache(p) \/ CreateTemp(p) \/ DownloadFile(p) \/ VerifySha(p)
             \/ Chmod(p) \/ Rename(p)
      PROVE  Undisturbed'
  BY <1>7 DEF LookupCache, CreateTemp, DownloadFile, VerifySha, Chmod, Rename, Goto,
     Given, fileVars
<1>8. CASE UNCHANGED vars
  BY <1>8 DEF vars, fileVars
<1> QED
  BY <1>1, <1>2, <1>3, <1>4, <1>5, <1>6, <1>7, <1>8 DEF Next, Step

LEMMA ArtifactsInvariant == Spec => []ArtifactsInv
<1>1. ArtifactsInv /\ [Next]_vars => ArtifactsInv'
  <2> SUFFICES ASSUME ArtifactsInv, [Next]_vars PROVE ArtifactsInv'
    OBVIOUS
  <2> QED
    BY TypeStep, ResolvedStep, VerifiedStep, CacheStep, InUseStep, UndisturbedStep
       DEF ArtifactsInv
<1> QED
  BY <1>1, ArtifactsInit, PTL DEF Spec

-----------------------------------------------------------------------------
(***************************************************************************)
(* The theorems.                                                           *)
(***************************************************************************)
\* Type correctness of the cache and of every process.
THEOREM ArtifactTypes == Spec => []TypeOK
<1>1. ArtifactsInv => TypeOK
  BY DEF ArtifactsInv
<1> QED
  BY <1>1, ArtifactsInvariant, PTL

\* A cached runtime in use has the checksum its user was told and the execute
\* bits it needs (downloadAsset), for any number of processes and crashes.
THEOREM CachedVerified == Spec => []InUseVerified
<1>1. ArtifactsInv => InUseVerified
  <2> SUFFICES ASSUME ArtifactsInv, NEW p \in Procs, Cached(p)
               PROVE  /\ cache[Key(p)] = sha[p]
                      /\ req[p].kind = "binary" => Key(p) \in runnable
    BY DEF InUseVerified, Cached
  <2>1. cache[Key(p)] = sha[p] /\ sha[p] \in Shas
    BY DEF ArtifactsInv, InUse, Resolved
  <2>2. Key(p) \in Keys /\ Key(p).kind = req[p].kind
    BY KeyFields DEF ArtifactsInv, Resolved, Cached
  <2>3. cache[Key(p)] # None
    BY <2>1, ArtifactsAssumption
  <2> QED
    BY <2>1, <2>2, <2>3 DEF ArtifactsInv, CacheSound
<1> QED
  BY <1>1, ArtifactsInvariant, PTL

\* A downloaded runtime is of the release that was asked for
\* (resolveDownloadVersion): named, latest, or the compiled-in one.
THEOREM ReleaseAsAsked == Spec => []RightRelease
<1>1. ArtifactsInv => RightRelease
  BY DEF ArtifactsInv, Resolved, Cached, Right, RightRelease
<1> QED
  BY <1>1, ArtifactsInvariant, PTL

\* An extracted runtime is whole while it is used by a process no other
\* extraction raced with (extractBytes).
THEOREM ExtractionWhole == Spec => []ExtractedWhole
<1>1. ArtifactsInv => ExtractedWhole
  BY DEF ArtifactsInv, Undisturbed, ExtractedWhole
<1> QED
  BY <1>1, ArtifactsInvariant, PTL

=============================================================================
